----------------------------- MODULE MCLibrary ------------------------------
(***************************************************************************)
(* Library with two folders: a type in a file of its own that a frame      *)
(* reaches through another, and two in one file, one narrowing the other.  *)
(* A word does not go with a byte underneath it.                           *)
(***************************************************************************)
EXTENDS Library

MCFrameFile == [n \in {"ping", "Ping", "new"} |-> IF n = "new" THEN "new" ELSE "ping"]
MCFrameFiles == <<"a", "new", "ping">>
MCTypeFile == [n \in {"Zone", "zone", "T", "Low"} |->
                CASE n = "T" -> "t" [] n = "Low" -> "low" [] OTHER -> "zone"]
MCTypeFiles == <<"low", "t", "zone">>
MCPaths == <<<<"frames", "a">>, <<"frames", "new">>, <<"frames", "ping">>,
             <<"types", "low">>, <<"types", "t">>, <<"types", "zone">>>>
MCOwns == {<<"byte">>, <<"word">>}
MCSubtypes == {"T", "Low"}
MCRefused == {<<<<"word">>, <<"byte">>>>}
Def(n, own, of) == [name |-> n, own |-> own, of |-> of]
MCFolders ==
  {[frames |-> "a" :> Def("ping", <<"byte">>, "Zone") @@ "new" :> Absent @@ "ping" :> Absent,
    types |-> "low" :> <<Def("Zone", <<"byte">>, "T")>> @@ "t" :> <<Def("T", <<"word">>, None)>>
              @@ "zone" :> <<>>],
   [frames |-> "a" :> Absent @@ "new" :> Absent @@ "ping" :> Def("Ping", <<"word">>, "Low"),
    types |-> "low" :> <<>> @@ "t" :> <<>>
              @@ "zone" :> <<Def("T", <<"word">>, None), Def("Low", <<"byte">>, "T")>>]}
MCNewFrame == <<"new", "Ping">>
MCNewType == <<"Zone", "zone">>
=============================================================================
