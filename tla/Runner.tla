------------------------------- MODULE Runner -------------------------------
(***************************************************************************)
(* The task that runs one scenario (runner.rs): passes over its steps,     *)
(* sends posted back to the engine, waits answered by what the links       *)
(* hear, values captured from one frame and sent on in another, and values *)
(* set from outside while it runs.  Every action is the code between two   *)
(* awaits; frames, settings, an abort and the end of the engine come       *)
(* in between.                                                             *)
(*                                                                         *)
(* A frame is a value for each field.  One that carries more bytes than    *)
(* the frame declares still matches, and does not decode: it is not whole. *)
(***************************************************************************)
EXTENDS Counter, Sequences, FiniteSets

CONSTANTS
  Links,             (* Connection names.                                  *)
  Fields,            (* The fields of a frame.                             *)
  Variables,         (* Names under which a field is remembered.           *)
  Scripts,           (* The scenarios that may be started.                 *)
  Arriving,          (* What the links may hear.                           *)
  Settings,          (* What may be set from outside.                      *)
  FieldMax,          (* The largest value a field holds.                   *)
  HeardCapacity,     (* Of the channel frames are republished on: 1024.    *)
  MaxArrivals,       (* Bound: frames heard in one pass.                   *)
  None

Default == 0        (* What a frame gives a field nobody filled.           *)
Values == 0 .. Top
Optional(S) == [Fields -> S \cup {None}]

SendStep == [do : {"send"}, to : Seq(Links), with : Optional(Values),
             count : Optional(Counters), fill : Optional(Variables),
             keep : Optional(Variables)]
RawStep == [do : {"raw"}, to : Seq(Links), values : [Fields -> Values]]
WaitStep == [do : {"wait"}, to : {<<>>}]
WaitForStep == [do : {"wait_for"}, to : Seq(Links), match : Optional(Values),
                matchFrom : Optional(Variables), keep : Optional(Variables),
                limit : BOOLEAN, onTimeout : {"fail", "continue"}]
Step == SendStep \cup RawStep \cup WaitStep \cup WaitForStep

Heard == [link : Links, values : [Fields -> Values], whole : BOOLEAN]
Setting == [step : Nat, field : Fields, value : Values]

ActsOnFrame(s) == s.do \in {"send", "wait_for"}
Keeps(s) == IF ActsOnFrame(s) THEN {s.keep[f] : f \in Fields} \ {None} ELSE {}
Reads(s) ==
  CASE s.do = "send" -> {s.fill[f] : f \in Fields} \ {None}
    [] s.do = "wait_for" -> {s.matchFrom[f] : f \in Fields} \ {None}
    [] OTHER -> {}

(* What the loader lets through (build, build_step, build_wait_for).       *)
Loaded(script) ==
  /\ script.steps \in Seq(Step) \ {<<>>}
  /\ script.repeats \in BOOLEAN /\ script.times \in Nat \cup {None}
  /\ \A i \in DOMAIN script.steps :
       LET s == script.steps[i] IN
         /\ s.do # "wait" => s.to # <<>>
         /\ \A j, k \in DOMAIN s.to : s.to[j] = s.to[k] => j = k
         /\ Reads(s) \subseteq UNION {Keeps(script.steps[j]) : j \in 1 .. i - 1}
         /\ s.do = "wait_for" =>
              /\ Keeps(s) # {} => Len(s.to) = 1
              /\ \E f \in Fields : {s.match[f], s.matchFrom[f], s.keep[f]} # {None}
              /\ \A f \in Fields : s.match[f] = None \/ s.matchFrom[f] = None

(* Two fields are never kept under one name: the code would keep the last. *)
OneFieldEach(script) ==
  \A i \in DOMAIN script.steps :
    LET s == script.steps[i] IN
      ActsOnFrame(s) => \A f, g \in Fields : s.keep[f] = s.keep[g] /\ s.keep[f] # None => f = g

ASSUME RunnerAssumption ==
  /\ \A script \in Scripts : Loaded(script) /\ OneFieldEach(script)
  /\ Arriving \subseteq Heard
  /\ Settings \subseteq Setting
  /\ FieldMax \in Values
  /\ HeardCapacity \in Nat \ {0} /\ MaxArrivals \in Nat
  /\ None \notin Values \cup Counters \cup Variables \cup Links

VARIABLES
  script,      (* The scenario, as it was handed over.                     *)
  at,          (* The await the task is at.                                *)
  outcome,     (* How it ended, or "running".                              *)
  pass, step,
  next,        (* The target the current send goes to next.                *)
  frame,       (* The frame the current step sends or waits for.           *)
  pending,     (* The targets the current wait has not heard from.         *)
  variables,   (* What this pass has captured.                             *)
  overrides,   (* Values set from outside, by step and field.              *)
  received,    (* What this pass's subscription has not yielded yet.       *)
  gone,        (* Whether the engine has stopped.                          *)
  arrivals,    (* History: what was heard in this pass.                    *)
  examined,    (* History: how much of it the waits have taken.            *)
  lagged,      (* History: whether the subscription has dropped any.       *)
  posted       (* History: the sends of this pass.                         *)

history == <<arrivals, examined, lagged, posted>>
outside == <<overrides, gone>>
vars == <<script, at, outcome, pass, step, next, frame, pending, variables,
          received, outside, history>>

NoFrame == [f \in Fields |-> None]
Nothing == [v \in Variables |-> None]

Now == script.steps[step]
Targets == {Now.to[i] : i \in DOMAIN Now.to}

Init ==
  /\ script \in Scripts
  /\ at = "tick" /\ outcome = "running"
  /\ pass = 0 /\ step = 1 /\ next = 1
  /\ frame = NoFrame /\ pending = {}
  /\ variables = Nothing
  /\ overrides = [i \in DOMAIN script.steps |-> NoFrame]
  /\ received = <<>> /\ gone = FALSE
  /\ arrivals = <<>> /\ examined = 0 /\ lagged = FALSE /\ posted = <<>>

-----------------------------------------------------------------------------
(* Where the task goes next. *)

End(how) == at' = "over" /\ outcome' = how

PassUncounted ==   \* Mutant: a pass that is over is not counted.
  \/ ~script.repeats /\ End("completed") /\ UNCHANGED <<pass, step>>
  \/ script.repeats /\ at' = "tick" /\ UNCHANGED <<outcome, pass, step>>

PassEnds ==
  \/ ~script.repeats /\ End("completed") /\ UNCHANGED <<pass, step>>
  \/ script.repeats /\ at' = "tick" /\ pass' = PassAfter(pass) /\ UNCHANGED <<outcome, step>>

StepEnds ==
  \/ step < Len(script.steps) /\ at' = "announce" /\ step' = step + 1
     /\ UNCHANGED <<outcome, pass>>
  \/ step = Len(script.steps) /\ PassEnds

Fails(why) == End(why) /\ UNCHANGED <<pass, step>>

AllButOnePass == script.repeats /\ script.times # None /\ pass > script.times   \* Mutant.

AllPassesRun == script.repeats /\ script.times # None /\ pass >= script.times

PassesOver ==
  /\ at = "tick" /\ AllPassesRun
  /\ Fails("completed")
  /\ UNCHANGED <<script, next, frame, pending, variables, received, outside, history>>

Forgotten == Nothing

BacklogKept == received   \* Mutant: one subscription for the whole scenario.

Resubscribed == <<>>

(* A pass starts on the tick, with nothing captured and nothing heard.     *)
PassStarts ==
  /\ at = "tick" /\ ~AllPassesRun
  /\ at' = "announce" /\ step' = 1
  /\ variables' = Forgotten
  /\ received' = Resubscribed
  /\ arrivals' = <<>> /\ examined' = 0 /\ lagged' = FALSE /\ posted' = <<>>
  /\ UNCHANGED <<script, outcome, pass, next, frame, pending, outside>>

(* The step is announced to the front end. *)
Announced ==
  /\ at = "announce"
  /\ at' = "act"
  /\ UNCHANGED <<script, outcome, pass, step, next, frame, pending, variables,
                 received, outside, history>>

Slept ==
  /\ at = "act" /\ Now.do = "wait"
  /\ StepEnds
  /\ UNCHANGED <<script, next, frame, pending, variables, received, outside, history>>

-----------------------------------------------------------------------------
(* Sending.  What is set from outside replaces what the step says, what    *)
(* was captured replaces that, and a counter replaces anything.            *)

Set(f) == IF overrides[step][f] # None THEN overrides[step][f] ELSE Now.with[f]

Filled(f) ==
  CASE Now.count[f] # None -> CounterAt(Now.count[f], pass)
    [] Now.count[f] = None /\ Now.fill[f] # None -> variables[Now.fill[f]]
    [] Now.count[f] = None /\ Now.fill[f] = None /\ Set(f) # None -> Set(f)
    [] OTHER -> Default

Encoded == [f \in Fields |-> Filled(f)]
Fits(values) == \A f \in Fields : values[f] <= FieldMax
Unset == \E v \in Reads(Now) : variables[v] = None

(* The variables once the fields the step keeps are remembered.            *)
Remember(keep, values) ==
  [v \in Variables |->
     IF \E f \in Fields : keep[f] = v
     THEN values[CHOOSE f \in Fields : keep[f] = v]
     ELSE variables[v]]

Encode ==
  /\ at = "act" /\ Now.do = "send"
  /\ \/ /\ Unset
        /\ Fails("unset")
        /\ UNCHANGED <<next, frame, variables>>
     \/ /\ ~Unset /\ ~Fits(Encoded)
        /\ Fails("unfit")
        /\ UNCHANGED <<next, frame, variables>>
     \/ /\ ~Unset /\ Fits(Encoded)
        /\ frame' = Encoded
        /\ variables' = Remember(Now.keep, Encoded)
        /\ at' = "posting" /\ next' = 1
        /\ UNCHANGED <<outcome, pass, step>>
  /\ UNCHANGED <<script, pending, received, outside, history>>

(* Bytes sent as they are: nothing fills or replaces them.                 *)
SendRaw ==
  /\ at = "act" /\ Now.do = "raw"
  /\ frame' = Now.values
  /\ at' = "posting" /\ next' = 1
  /\ UNCHANGED <<script, outcome, pass, step, pending, variables, received, outside, history>>

CarriedAnew == IF Now.do = "send" THEN Encoded ELSE frame   \* Mutant: encoded for each target.

Carried == frame

LastPosted == next >= Len(Now.to) - 1   \* Mutant.

LastTarget == next = Len(Now.to)

(* One target after the other, the same bytes to each.                     *)
PostSend ==
  /\ at = "posting" /\ ~gone
  /\ posted' = Append(posted, [step |-> step, link |-> Now.to[next], values |-> Carried])
  /\ \/ ~LastTarget /\ next' = next + 1 /\ UNCHANGED <<at, outcome, pass, step>>
     \/ LastTarget /\ StepEnds /\ UNCHANGED next
  /\ UNCHANGED <<script, frame, pending, variables, received, outside,
                 arrivals, examined, lagged>>

NowhereToSend ==
  /\ at = "posting" /\ gone
  /\ Fails("stopped")
  /\ UNCHANGED <<script, next, frame, pending, variables, received, outside, history>>

-----------------------------------------------------------------------------
(* Waiting.  What to wait for is settled as the wait begins.               *)

Wanted ==
  [f \in Fields |-> IF Now.matchFrom[f] # None THEN variables[Now.matchFrom[f]]
                                               ELSE Now.match[f]]

FirstTargetOnly == {Now.to[1]}   \* Mutant: any answer will do.

Awaited == Targets

Resolve ==
  /\ at = "act" /\ Now.do = "wait_for"
  /\ \/ /\ Unset
        /\ Fails("unset")
        /\ UNCHANGED <<frame, pending>>
     \/ /\ ~Unset
        /\ \E f \in Fields : Wanted[f] # None /\ Wanted[f] > FieldMax
        /\ Fails("unfit")
        /\ UNCHANGED <<frame, pending>>
     \/ /\ ~Unset
        /\ \A f \in Fields : Wanted[f] # None => Wanted[f] <= FieldMax
        /\ frame' = Wanted /\ pending' = Awaited
        /\ at' = "listening"
        /\ UNCHANGED <<outcome, pass, step>>
  /\ UNCHANGED <<script, next, variables, received, outside, history>>

Matches(m, wanted) == \A f \in Fields : wanted[f] # None => m.values[f] = wanted[f]

Stays == UNCHANGED <<at, outcome, pass, step>>

HearTargets ==   \* Mutant: a frame on another link is left in the way.
  /\ at = "listening" /\ received # <<>>
  /\ LET m == Head(received)
         answer == Matches(m, frame)
     IN  /\ m.link \in Targets
         /\ pending' = IF answer THEN pending \ {m.link} ELSE pending
         /\ variables' = IF answer /\ m.whole THEN Remember(Now.keep, m.values)
                                              ELSE variables
  /\ received' = Tail(received)
  /\ examined' = examined + 1
  /\ \/ pending' # {} /\ Stays
     \/ pending' = {} /\ StepEnds
  /\ UNCHANGED <<script, next, frame, outside, arrivals, lagged, posted>>

(* A frame is taken from the subscription, from whichever link it came.    *)
(* One that matches strikes its link off, and is remembered if it decodes. *)
Hear ==
  /\ at = "listening" /\ received # <<>>
  /\ LET m == Head(received)
         answer == Matches(m, frame)
     IN  /\ pending' = IF answer THEN pending \ {m.link} ELSE pending
         /\ variables' = IF answer /\ m.whole THEN Remember(Now.keep, m.values)
                                              ELSE variables
  /\ received' = Tail(received)
  /\ examined' = examined + 1
  /\ \/ pending' # {} /\ Stays
     \/ pending' = {} /\ StepEnds
  /\ UNCHANGED <<script, next, frame, outside, arrivals, lagged, posted>>

(* The limit is up.  A frame may have come since the task last looked.     *)
Expire ==
  /\ at = "listening" /\ Now.limit
  /\ \/ Now.onTimeout = "fail" /\ Fails("silent")
     \/ Now.onTimeout = "continue" /\ PassEnds
  /\ UNCHANGED <<script, next, frame, pending, variables, received, outside, history>>

NobodyToHear ==
  /\ at = "listening" /\ gone /\ received = <<>>
  /\ Fails("stopped")
  /\ UNCHANGED <<script, next, frame, pending, variables, received, outside, history>>

-----------------------------------------------------------------------------
(* The world outside. *)

(* A link hears a frame.  A subscription that falls behind loses its       *)
(* oldest.                                                                 *)
Arrive(m) ==
  /\ at # "over" /\ ~gone
  /\ Len(arrivals) < MaxArrivals
  /\ arrivals' = Append(arrivals, m)
  /\ \/ /\ Len(received) < HeardCapacity
        /\ received' = Append(received, m)
        /\ UNCHANGED lagged
     \/ /\ Len(received) = HeardCapacity
        /\ received' = Tail(Append(received, m))
        /\ lagged' = TRUE
  /\ UNCHANGED <<script, at, outcome, pass, step, next, frame, pending, variables,
                 outside, examined, posted>>

SetValue(s) ==
  /\ at # "over" /\ s.step \in DOMAIN script.steps
  /\ overrides' = [overrides EXCEPT ![s.step][s.field] = s.value]
  /\ UNCHANGED <<script, at, outcome, pass, step, next, frame, pending, variables,
                 received, gone, history>>

EngineStops ==
  /\ ~gone /\ gone' = TRUE
  /\ UNCHANGED <<script, at, outcome, pass, step, next, frame, pending, variables,
                 received, overrides, history>>

(* The loop aborts the task at any await. *)
Abort ==
  /\ at # "over"
  /\ Fails("aborted")
  /\ UNCHANGED <<script, next, frame, pending, variables, received, outside, history>>

Over == at = "over" /\ UNCHANGED vars

Run ==
  \/ PassesOver \/ PassStarts \/ Announced \/ Slept
  \/ Encode \/ SendRaw \/ PostSend \/ NowhereToSend
  \/ Resolve \/ Hear \/ NobodyToHear

World ==
  \/ \E m \in Arriving : Arrive(m)
  \/ \E s \in Settings : SetValue(s)
  \/ EngineStops \/ Abort

Next == Run \/ Expire \/ World \/ Over

Spec == Init /\ [][Next]_vars

(* The runtime runs the task whenever it can run, the engine takes what is *)
(* posted to it, the front end drains its events, and a clock that is set  *)
(* goes off.  Nobody need ever answer.                                     *)
FairSpec == Spec /\ WF_vars(Run) /\ WF_vars(Expire)
=============================================================================
