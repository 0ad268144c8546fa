----------------------------- MODULE MCTraffic -----------------------------
(* An instance of Traffic for TLC: two frames of one length, which two     *)
(* definitions have, and one of another, which a third has.                *)
EXTENDS Traffic

CONSTANTS beat, order, long, first, second, third

Lengths == [x \in {beat, order, long, first, second, third} |-> IF x \in {long, third} THEN 2 ELSE 1]

(* Everything, all but the heartbeat, and a pattern half typed.            *)
Typed == {Plain, [Plain EXCEPT !.others = {beat}, !.invert = TRUE], [Plain EXCEPT !.hex = {beat}],
          [Plain EXCEPT !.broken = TRUE], [Plain EXCEPT !.broken = TRUE, !.invert = TRUE]}
=============================================================================
