------------------------------ MODULE Counter -------------------------------
(***************************************************************************)
(* The field of a frame that carries another number on every pass          *)
(* (Counter::at of scenario.rs), and the count of passes that drives it    *)
(* (runner.rs).  Both have a width, and saturate at its end.               *)
(***************************************************************************)
EXTENDS Naturals

CONSTANTS
  Top,           (* The largest value of a counter: u64::MAX.              *)
  PassCeiling,   (* Where the count of passes saturates: u32::MAX.         *)
  NoWrap         (* The wrap of a counter that has none.                   *)

ASSUME WidthsAssumption ==
  Top \in Nat \ {0} /\ PassCeiling \in Nat /\ NoWrap \notin Nat

Counters == [from : 0 .. Top, step : 0 .. Top, wrap : 0 .. Top \cup {NoWrap}]

Saturated(n) == IF n < Top THEN n ELSE Top

Wraps(c) == c.wrap # NoWrap /\ c.wrap >= c.from

(* Both ends are included. *)
Span(c) == c.wrap - c.from + 1

AdvancedByOne(c, pass) == Saturated(pass)   \* Mutant: the step is forgotten.

Advanced(c, pass) == Saturated(c.step * pass)

CounterPlain(c, pass) == c.from + c.step * pass   \* Mutant: wrap and width forgotten.

(* A span of the whole width has nothing to fold back into.                *)
CounterAt(c, pass) ==
  IF ~Wraps(c) THEN Saturated(c.from + Advanced(c, pass))
  ELSE IF Span(c) > Top THEN (c.from + Advanced(c, pass)) % (Top + 1)
  ELSE c.from + (Advanced(c, pass) % Span(c))

PassAfter(pass) == IF pass < PassCeiling THEN pass + 1 ELSE pass
=============================================================================
