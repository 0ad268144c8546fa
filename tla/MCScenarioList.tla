---------------------------- MODULE MCScenarioList --------------------------
(***************************************************************************)
(* ScenarioList with two frames of one field, two links, and files that    *)
(* hold a step remembering a field before one reading it.                  *)
(***************************************************************************)
EXTENDS ScenarioList

MCFieldsOf == [f \in {"ask", "reply"} |-> IF f = "ask" THEN {"id"} ELSE {"code"}]
MCFrameOrder == <<"ask", "reply">>
MCSpelled == [n \in {"Poll", "Boot", ""} |-> n]
MCPadded == [n \in {"Poll", "Poll ", "Boot", ""} |-> IF n = "Poll " THEN "Poll" ELSE n]
MCFileOf == [n \in {"Poll", "Poll ", "Boot", ""} |-> IF n = "Boot" THEN "boot" ELSE "poll"]
MCFiles == <<"boot", "old", "poll">>
MCProjects == {<<"l1", "l2">>, <<>>}
MCVariables == {"id", "v"}
MCLinks == {"l1", "l2"}
MCWords == {"ask", "reply", "none", "id", "code", "v"}

Ask == [Made("send", "ask", <<>>) EXCEPT !.capture = With(<<>>, "id", "id")]
Reply == [Made("frame", "reply", <<>>) EXCEPT !.from = With(<<>>, "code", "id")]
Again == [Made("send", "ask", <<"l2">>) EXCEPT !.held = {"id"}]
Said(name, on, steps) == [name |-> name, rest |-> 0, on |-> on, steps |-> steps]
Folder(boot, old) ==
  [f \in {"boot", "old", "poll"} |->
     IF f = "boot" THEN boot ELSE IF f = "old" THEN old ELSE None]
MCFolders ==
  {Folder(<<Said("Boot", <<"l1">>, <<Ask, Again, Reply>>),
            Said("Poll", <<>>, <<Made("wait", NoFrame, <<>>)>>)>>, None),
   Folder(<<Said("Boot", <<"l1", "l1">>, <<Ask, Reply>>)>>,
          <<Said("Poll", <<>>, <<>>)>>)}
=============================================================================
