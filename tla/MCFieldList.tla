---------------------------- MODULE MCFieldList -----------------------------
(***************************************************************************)
(* FieldList with short frames of two or three fields.                     *)
(***************************************************************************)
EXTENDS FieldList

Leaf(tail) == [tail |-> tail, covers |-> Nothing]
MCShapes ==
  "Pair" :> <<Leaf(<<"p">>), Leaf(<<"q">>)>>
  @@ "Pair x1" :> <<Leaf(<<"0", "p">>), Leaf(<<"0", "q">>)>>
  @@ "Percent" :> <<Leaf(<<>>)>>
  @@ "u8 x2" :> <<Leaf(<<"0">>), Leaf(<<"1">>)>>
  @@ "u8 x3" :> <<Leaf(<<"0">>), Leaf(<<"1">>), Leaf(<<"2">>)>>
  @@ "Framed" :> <<Leaf(<<"v">>), [tail |-> <<"c">>, covers |-> [from |-> 1, to |-> 1]]>>

Entry(name, form) == [name |-> <<name>>, form |-> form, order |-> NoOrder,
                      from |-> NoName, to |-> NoName]
Sum(name, from, to) == [Entry(name, NoForm) EXCEPT !.from = <<from>>, !.to = <<to>>]
Ordered(entry, order) == [entry EXCEPT !.order = order]

Text(fields) == [order |-> "big", fields |-> fields]
MCFiles ==
  {Text(<<Entry("a", NoForm), Entry("b", "Pair"), Sum("c", "a", "b")>>),
   Text(<<Entry("a", "u8 x2"), Sum("c", "a", "a"), Entry("b", "Percent")>>),
   Text(<<Sum("c", "b", "b"), Entry("a", NoForm), Entry("b", NoForm)>>)}
MCFresh == {<<"d">>}
=============================================================================
