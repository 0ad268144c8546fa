----------------------------- MODULE MCProject -----------------------------
(* Instances of Project for TLC. *)
EXTENDS Project

CONSTANTS here, there, link

(* Two tabs written by a window that had closed its first, a file of a     *)
(* newer or a broken kind, and nothing at all.                             *)
Written == [settings |-> [rows |-> {link}, tabs |-> <<"tuned", "none">>],
            layout |-> {2, 3}, fits |-> TRUE]
Unfit == [settings |-> [rows |-> {}, tabs |-> <<>>], layout |-> None, fits |-> FALSE]
SomeDisks == {[p \in {here, there} |-> IF p = here THEN Written ELSE other] :
                other \in {None, Unfit}}
=============================================================================
