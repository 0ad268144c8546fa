-------------------------- MODULE RunnerProperties --------------------------
(***************************************************************************)
(* What must be true of a running scenario.                                *)
(***************************************************************************)
EXTENDS Runner

Post == [step : Nat, link : Links, values : [Fields -> Values]]

(* Every variable has its type. *)
TypeOK ==
  /\ script \in Scripts
  /\ at \in {"tick", "announce", "act", "posting", "listening", "over"}
  /\ outcome \in {"running", "completed", "stopped", "aborted", "silent", "unset", "unfit"}
  /\ pass \in 0 .. PassCeiling
  /\ step \in DOMAIN script.steps
  /\ next \in Nat /\ (at = "posting" => next \in DOMAIN Now.to)
  /\ frame \in Optional(Values)
  /\ pending \subseteq Links
  /\ variables \in [Variables -> Values \cup {None}]
  /\ overrides \in [DOMAIN script.steps -> Optional(Values)]
  /\ received \in Seq(Heard) /\ Len(received) <= HeardCapacity
  /\ gone \in BOOLEAN
  /\ arrivals \in Seq(Heard)
  /\ examined \in 0 .. Len(arrivals)
  /\ lagged \in BOOLEAN
  /\ posted \in Seq(Post)

(* The subscription holds what was heard in this pass and no wait has      *)
(* looked at: nothing from an earlier pass, and nothing missed, however    *)
(* early an answer comes, unless the subscription fell behind.             *)
NothingMissed ==
  LET looked == Len(arrivals) - Len(received) IN
    /\ looked \in Nat
    /\ received = SubSeq(arrivals, looked + 1, Len(arrivals))
    /\ examined <= looked
    /\ ~lagged => examined = looked

Examined == {arrivals[i] : i \in 1 .. Len(arrivals) - Len(received)}

(* A scenario gets past a wait only once every target has answered it, in  *)
(* the pass the wait belongs to.                                           *)
EveryTargetAnswered ==
  [][at = "listening" /\ step' = step + 1 =>
       \A link \in Targets :
         \E m \in Examined' : m.link = link /\ Matches(m, frame)]_vars

(* What a variable holds was heard or sent in this pass: "a step reading   *)
(* it always reads what this pass captured" (docs/scenarios.md:117).       *)
VariablesFromThisPass ==
  at \in {"announce", "act", "listening"} =>
    \A v \in Variables : variables[v] # None =>
      \E f \in Fields :
        \/ \E m \in Examined : m.values[f] = variables[v]
        \/ \E i \in DOMAIN posted : posted[i].values[f] = variables[v]

(* Where the sends of a step are among those of the pass, and which of its *)
(* step's sends one is.                                                    *)
PostsOf(i) == {p \in DOMAIN posted : posted[p].step = i}
Turn(p) == Cardinality({q \in 1 .. p : posted[q].step = posted[p].step})

(* Every target of a send gets the same bytes, each once and in the order  *)
(* of the file, whatever is set or captured while they are posted.         *)
SameBytesToAll ==
  \A p \in DOMAIN posted :
    LET to == script.steps[posted[p].step].to IN
      /\ Turn(p) \in DOMAIN to /\ posted[p].link = to[Turn(p)]
      /\ \A q \in PostsOf(posted[p].step) : posted[q].values = posted[p].values

(* A pass that comes to its end with every wait answered has posted every  *)
(* send to every target.                                                   *)
PassComesToItsEnd ==
  /\ at \in {"act", "posting", "listening"} /\ pending' = {}
  /\ at' = "tick" \/ outcome' = "completed"

NothingLeftUnsent ==
  [][PassComesToItsEnd =>
       \A i \in DOMAIN script.steps :
         script.steps[i].do \in {"send", "raw"} =>
           Cardinality(PostsOf(i)') = Len(script.steps[i].to)]_vars

(* A scenario that says how often it repeats completes after that many     *)
(* passes, and no pass is started beyond them.                             *)
AsManyPassesAsAsked ==
  script.repeats /\ script.times # None =>
    /\ outcome = "completed" => pass = script.times
    /\ at \in {"announce", "act", "posting", "listening"} => pass < script.times

(* The loader has seen to it that a step reads only what an earlier one    *)
(* captures, so as long as what answers decodes no run ends for want of a  *)
(* variable.                                                               *)
NeverUnset == outcome # "unset"

(* A pass is about itself: what waits to be looked at, and what a variable *)
(* holds, was heard or sent in it, and nothing a step reads is missing     *)
(* (runner.rs:92-105).                                                     *)
PassInv == TypeOK /\ NothingMissed /\ VariablesFromThisPass /\ NeverUnset

-----------------------------------------------------------------------------
Answers(link) ==
  at = "listening" /\ link \in pending
    /\ \E i \in DOMAIN received : received[i].link = link /\ Matches(received[i], frame)

(* An answer that was heard is taken account of, however many other frames *)
(* are in front of it and whatever limit is set: the wait strikes its link *)
(* off, or is over.  Only a subscription that falls behind loses one.      *)
Heeded ==
  \A link \in Links : Answers(link) ~> (link \notin pending \/ at # "listening" \/ lagged)

(* A scenario whose waits have limits and whose passes are numbered ends,  *)
(* whoever stays silent.                                                   *)
Finite ==
  /\ script.repeats => script.times # None
  /\ \A i \in DOMAIN script.steps : script.steps[i].do = "wait_for" => script.steps[i].limit

EndsInTime == Finite ~> at = "over"

-----------------------------------------------------------------------------
(* Claims of the documentation and comments the code does not keep.        *)

(* A capture "needs one target, an answer from a second one having nothing *)
(* to do with the first" (docs/scenarios.md:113): what is remembered may   *)
(* come from a link that is no target at all.                              *)
CapturedFromTheTarget ==
  [][at = "listening" /\ step' = step + 1 =>
       \A f \in Fields :
         Now.keep[f] # None /\ variables'[Now.keep[f]] # None =>
           \E m \in Examined' : m.link \in Targets /\ m.values[f] = variables'[Now.keep[f]]]_vars
=============================================================================
