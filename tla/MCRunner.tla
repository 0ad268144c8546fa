------------------------------ MODULE MCRunner ------------------------------
(* Instances of a running scenario for TLC. *)
EXTENDS RunnerProperties

CONSTANTS a, b, key, data, x

Field(k, d) == [f \in Fields |-> IF f = key THEN k ELSE d]
No == Field(None, None)

Send(to, with, count, fill, keep) ==
  [do |-> "send", to |-> to, with |-> with, count |-> count, fill |-> fill, keep |-> keep]
WaitFor(to, match, matchFrom, keep, limit, onTimeout) ==
  [do |-> "wait_for", to |-> to, match |-> match, matchFrom |-> matchFrom, keep |-> keep,
   limit |-> limit, onTimeout |-> onTimeout]
Raw(to, k, d) == [do |-> "raw", to |-> to, values |-> Field(k, d)]
Delay == [do |-> "wait", to |-> <<>>]

Once(steps) == [steps |-> steps, repeats |-> FALSE, times |-> None]
Times(n, steps) == [steps |-> steps, repeats |-> TRUE, times |-> n]
Forever(steps) == [steps |-> steps, repeats |-> TRUE, times |-> None]

Frame(link, k, d) == [link |-> link, values |-> Field(k, d), whole |-> TRUE]
Longer(link, k, d) == [link |-> link, values |-> Field(k, d), whole |-> FALSE]

Upward == [from |-> 0, step |-> 1, wrap |-> 2]
Beyond == [from |-> 2, step |-> 1, wrap |-> NoWrap]

(* A request numbered on each pass to two links, which both must echo the  *)
(* number, and a note of it to one of them.                                *)
Correlated(onTimeout) ==
  <<Send(<<b, a>>, No, Field(Upward, None), No, Field(x, None)),
    WaitFor(<<a, b>>, No, Field(x, None), No, TRUE, onTimeout),
    Send(<<b>>, No, No, Field(None, x), No)>>

(* What one link answers is passed on to both.                             *)
Relayed(limit) ==
  <<WaitFor(<<a>>, Field(1, None), No, Field(None, x), limit, "fail"),
    Delay,
    Send(<<a, b>>, No, No, Field(None, x), No)>>

(* A wait that asks for no value in particular, only keeps one.            *)
Kept ==
  <<WaitFor(<<a>>, No, No, Field(None, x), TRUE, "continue"),
    Send(<<b>>, Field(1, None), Field(None, Beyond), Field(x, None), No)>>

ExchangeScripts ==
  {Times(2, Correlated("continue")), Once(Correlated("fail")), Once(Relayed(FALSE)),
   Times(0, Relayed(TRUE)),
   Once(<<Raw(<<a, b>>, 1, 1), Delay, Raw(<<b>>, 3, 3)>>), Forever(Relayed(TRUE)), Forever(Kept)}
(* One of them matches without decoding. *)
ExchangeFrames ==
  {Frame(a, 0, 2), Frame(b, 0, 1), Frame(a, 1, 0), Longer(b, 1, 1)}
ExchangeSettings ==
  {[step |-> 1, field |-> data, value |-> 2], [step |-> 3, field |-> key, value |-> 3]}

(* A frame of a link the wait does not ask, beside a longer one it matches. *)
StrayScripts == {Once(Kept)}
StrayFrames == {Longer(a, 0, 2), Frame(b, 0, 1)}

NoSettings == {}
=============================================================================
