----------------------------- MODULE MCControl ------------------------------
(* Instances of a steered run for TLC. *)
EXTENDS Control, TLC

CONSTANTS one, other, mode, flags, seq, typo

FieldKinds == mode :> "plain" @@ flags :> "bits" @@ seq :> "counted" @@ typo :> "undeclared"

Set(n, f, v) == [step |-> n, values |-> f :> v]

WaitThenSend == <<"wait", "send">>

(* Two clients after the same field; one of them makes mistakes. *)
Rivals ==
  one :> {Set(2, mode, 1)}
  @@ other :> {Set(2, flags, Wrong), Set(3, mode, 2),
               [step |-> 2, values |-> mode :> 2 @@ seq :> Wrong],
               [step |-> 2, values |-> <<>>]}

NoRequests == [c \in {} |-> {}]
=============================================================================
