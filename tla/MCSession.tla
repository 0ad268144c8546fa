----------------------------- MODULE MCSession ------------------------------
(* Instances of the engine with a front end for TLC. *)
EXTENDS Session

CONSTANTS link, script

ClientOnce == [transport |-> "client", retry |-> FALSE, attempts |-> None]
Clients == {ClientOnce}

Opening == [id \in Ids |-> ClientOnce]
Empty == [id \in Ids |-> None]
TwoProjects == {Opening, Empty}
=============================================================================
