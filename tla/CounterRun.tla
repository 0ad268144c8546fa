----------------------------- MODULE CounterRun -----------------------------
(***************************************************************************)
(* One counter of a scenario that repeats for ever, pass by pass.          *)
(***************************************************************************)
EXTENDS Counter

VARIABLES counter, passed

CounterInit == counter \in Counters /\ passed = 0

CounterNext == passed' = PassAfter(passed) /\ UNCHANGED counter

CounterSpec == CounterInit /\ [][CounterNext]_<<counter, passed>>

Value == CounterAt(counter, passed)

-----------------------------------------------------------------------------
(* The state stays one the files can hold and the width can carry.         *)
CounterTypeOK == counter \in Counters /\ passed \in 0 .. PassCeiling

(* A counter never leaves the span the file gives it, nor its width: an    *)
(* overflow would panic a debug build and send a stray number otherwise.   *)
InsideItsSpan ==
  /\ Value \in 0 .. Top
  /\ Wraps(counter) => Value \in counter.from .. counter.wrap

(* Counting a pass at a time gives the same numbers, until the distance    *)
(* counted no longer fits the width: forward by the step, back to from     *)
(* after the last value.                                                   *)
StepByStep ==
  [][Wraps(counter) /\ counter.step * passed' <= Top =>
       LET ahead == Value + counter.step
           span  == counter.wrap + 1 - counter.from
       IN  \E laps \in 0 .. ahead : Value' + laps * span = ahead]_<<counter, passed>>

(* A counter that does not wrap never goes back: it stops at the top.      *)
NeverFallsBack ==
  [][~Wraps(counter) =>
       Value' >= Value /\ (Value' = Value => counter.step = 0 \/ Value = Top)]_<<counter, passed>>

(* A counter counts: pass by pass by its step, round its span or up to the *)
(* top and never back (scenario.rs:268-284).                               *)
CountsOn == StepByStep /\ NeverFallsBack
=============================================================================
