---------------------------- MODULE ScenarioList ----------------------------
(***************************************************************************)
(* The folder of scenarios (scenarios.rs) under either front end: what the *)
(* disk holds, the list read from it, the copy being edited, what saving   *)
(* and deleting write, and which of them the engine runs.                  *)
(*                                                                         *)
(* The row or the field a key goes to is any: the cursor can be on each.   *)
(* What the engine says is read later than it happens.                     *)
(***************************************************************************)
EXTENDS ScenarioFile

CONSTANTS
  Fronts,     (* Which front ends there may be: "desktop", "terminal".     *)
  Files,      (* The files of the folder, in the order they are read.      *)
  FileOf,     (* The file a scenario of each name is given (suggested).    *)
  Folders,    (* What the folder may hold at first.                        *)
  Projects,   (* The links a project may have, in order.                   *)
  Variables,  (* Names a captured field may be given.                      *)
  NewName,
  FrameOrder, (* The loaded frames in the order of the list.               *)
  MaxSteps, MaxEdits, MaxChanges, MaxStarts,  (* Bounds.                   *)
  None

ASSUME ListAssumption ==
  /\ Fronts \subseteq {"desktop", "terminal"}
  /\ Files \in Seq(ToSet(Files)) /\ \A n \in DOMAIN Spelled : FileOf[n] \in ToSet(Files)
  /\ \A d \in Folders : d \in [ToSet(Files) -> Seq(Text) \cup {None, Unparsed}]
  /\ Projects \subseteq Seq(Links) /\ Variables \subseteq Words
  /\ NewName \in DOMAIN Spelled
  /\ FrameOrder \in Seq(Frames) /\ ToSet(FrameOrder) = Frames
  /\ {MaxSteps, MaxEdits, MaxChanges, MaxStarts} \subseteq Nat
  /\ None \notin Seq(Text) \cup {Unparsed} /\ None \notin [file : ToSet(Files), name : DOMAIN Spelled]

VARIABLES
  front, links,    (* Chosen once.                                         *)
  disk,            (* The scenarios each file says, or None without one.   *)
  entries,         (* The list: each scenario and its file.                *)
  draft,           (* The copy being edited and where it came from.        *)
  asked, running,  (* Names started and not heard of; shown as running.    *)
  misplaced,       (* Some save has put a section under another header.    *)
  edits, changes, starts

library == <<disk, entries, misplaced>>
engine == <<asked, running, starts>>
vars == <<front, links, library, draft, engine, edits, changes>>

-----------------------------------------------------------------------------
(* A file at a time, so one that does not load costs only that file; of    *)
(* two of a name the first is kept.                                        *)
FileReads(text) == text \notin {None, Unparsed} /\ \A i \in DOMAIN text : Reads(text[i])
LoadFrom(d) ==
  LET at == UNION {{<<f, i>> : i \in DOMAIN d[f]} : f \in {g \in ToSet(Files) : FileReads(d[g])}}
      name(p) == Spelled[d[p[1]][p[2]].name]
      place(p) == SelectInSeq(Files, LAMBDA f : f = p[1])
      before(p, q) == place(p) < place(q)
                      \/ (place(p) = place(q) /\ p[2] < q[2])
  IN {[file |-> p[1], scenario |-> Build(d[p[1]][p[2]])] :
        p \in {q \in at : ~ \E other \in at : name(other) = name(q) /\ before(other, q)}}

Init == /\ front \in Fronts /\ links \in Projects
        /\ disk \in Folders
        /\ entries = LoadFrom(disk)
        /\ draft = None /\ misplaced = FALSE
        /\ asked = {} /\ running = {}
        /\ edits = 0 /\ changes = 0 /\ starts = 0

Reload == /\ draft = None
          /\ entries' = LoadFrom(disk)
          /\ UNCHANGED <<front, links, disk, draft, misplaced, engine, edits, changes>>

Draft(scenario, origin) == [scenario |-> scenario, origin |-> origin]
Origin(file, name) == [file |-> file, name |-> name]
Shown(e) == e.scenario.name \in running

BeginEdit(e) == /\ draft = None /\ ~Shown(e)
                /\ draft' = Draft(e.scenario, Origin(e.file, e.scenario.name))
                /\ UNCHANGED <<front, links, library, engine, edits, changes>>
BeginNew == /\ draft = None
            /\ draft' = Draft([name |-> NewName, rest |-> 0, steps |-> <<Blank("wait", <<>>)>>],
                              None)
            /\ UNCHANGED <<front, links, library, engine, edits, changes>>
CancelEdit == /\ draft # None /\ draft' = None
              /\ UNCHANGED <<front, links, library, engine, edits, changes>>

-----------------------------------------------------------------------------
(* The editor.                                                             *)
Steps == draft.scenario.steps
Editing == /\ draft # None /\ edits < MaxEdits
           /\ edits' = edits + 1
           /\ UNCHANGED <<front, links, library, engine, changes>>
Becomes(steps) == draft' = [draft EXCEPT !.scenario.steps = steps]
Turn(i, step) == Becomes([Steps EXCEPT ![i] = step])

EditName == Editing /\ \E n \in DOMAIN Spelled : draft' = [draft EXCEPT !.scenario.name = n]
(* Whether it repeats; a description is like it, but for its section.      *)
EditHeader == Editing /\ \E r \in 0 .. 1 : draft' = [draft EXCEPT !.scenario.rest = r]

AddStep ==
  /\ Editing /\ Len(Steps) < MaxSteps
  /\ LET kind == IF links = <<>> THEN "wait" ELSE "raw"
     IN Becomes(Append(Steps, Blank(kind, TargetsFor(kind, links))))
RemoveStep == Editing /\ \E i \in DOMAIN Steps :
                Becomes(PruneDanglingCaptures(RemoveAt(Steps, i)))
MoveStep == Editing /\ \E i \in 1 .. Len(Steps) - 1 :
              Becomes(PruneDanglingCaptures([Steps EXCEPT ![i] = Steps[i + 1],
                                                     ![i + 1] = Steps[i]]))
SetKind == Editing /\ \E i \in DOMAIN Steps, kind \in Kinds :
             Turn(i, SetAction(Steps[i], kind, links))
Aim == Editing /\ \E i \in DOMAIN Steps, link \in ToSet(links) :
         /\ NeedsAConnection(Steps[i].kind)
         /\ Turn(i, Tick(Steps[i], link, front, links))

(* The terminal writes the name in before it asks for the change.          *)
PickFrame == Editing /\ \E i \in DOMAIN Steps, frame \in Frames :
               /\ Steps[i].kind = "send"
               /\ Turn(i, IF front = "desktop" THEN SetFrame(Steps[i], frame)
                          ELSE SetFrame([Steps[i] EXCEPT !.frame = frame], frame))
PickWaitFrame == Editing /\ \E i \in DOMAIN Steps, frame \in Frames :
                   Steps[i].kind = "frame" /\ Turn(i, SetWaitFrame(Steps[i], frame))
WaitByFrame == Editing /\ \E i \in DOMAIN Steps :
                 /\ KindOf(Steps[i]) = "wait_for"
                 /\ Turn(i, SetWaitByFrame(Steps[i],
                              IF FrameOrder = <<>> THEN NoFrame ELSE Head(FrameOrder)))

(* The rows of a step that names a loaded frame.                           *)
Row(i, field) == /\ Steps[i].kind \in {"send", "frame"}
                 /\ Steps[i].frame \in Frames
                 /\ field \in FieldsOf[Steps[i].frame]
(* The desktop greys out the ticks of a field that has its value already.  *)
Offered(i, field, sources) == Steps[i].kind = "frame" \/ front = "terminal" \/ field \notin sources

HoldField == Editing /\ \E i \in DOMAIN Steps, x \in Fields :
               /\ Row(i, x) /\ Offered(i, x, Steps[i].counted \cup DOMAIN Steps[i].from)
               /\ Turn(i, Hold(Steps[i], x))
CountField == Editing /\ \E i \in DOMAIN Steps, x \in Fields :
                /\ Row(i, x) /\ front = "desktop" /\ Steps[i].kind = "send"
                /\ x \notin DOMAIN Steps[i].from
                /\ Turn(i, SetCounter(Steps[i], x))
TakeField == Editing /\ \E i \in DOMAIN Steps, x \in Fields :
               /\ Row(i, x) /\ Offered(i, x, Steps[i].counted)
               /\ \/ \E v \in CapturedBefore(Steps, i) : Turn(i, TakeFrom(Steps[i], x, v))
                  \/ Turn(i, TakeFromNothing(Steps[i], x))
CaptureField == Editing /\ \E i \in DOMAIN Steps, x \in Fields :
                  Row(i, x) /\ Turn(i, Capture(Steps[i], x))
NameVariable == Editing /\ \E i \in DOMAIN Steps, x \in Fields, v \in Variables :
                  /\ Row(i, x) /\ (front = "desktop" \/ Steps[i].kind = "frame")
                  /\ Turn(i, RenameCapture(Steps[i], x, v))

-----------------------------------------------------------------------------
(* Saving and deleting.                                                    *)
Dirty == IF draft.origin = None THEN TRUE
         ELSE ~ \E e \in entries : /\ e.file = draft.origin.file
                                   /\ e.scenario.name = draft.origin.name
                                   /\ e.scenario = draft.scenario
NameTaken == \E e \in entries :
  /\ e.scenario.name = draft.scenario.name
  /\ draft.origin = None \/ draft.origin.name # e.scenario.name

(* Where a text says a scenario of that name first; 0 for nowhere.         *)
Place(text, name) == SelectInSeq(text, LAMBDA raw : raw.name = name)
Patched(file) == Merge(disk[file], Place(disk[file], draft.origin.name), Lower(draft.scenario))
Written(file) ==
  LET fresh == Lower(draft.scenario)
  IN IF disk[file] = None THEN <<fresh>>
     ELSE IF draft.origin = None THEN Append(disk[file], fresh)
     ELSE Rendered(Patched(file))
IsPatched(file) == draft.origin # None /\ disk[file] # None
InFile(file) == /\ disk[file] # Unparsed
                /\ IsPatched(file) => Place(disk[file], draft.origin.name) # 0

Home == IF draft.origin = None THEN FileOf[draft.scenario.name] ELSE draft.origin.file
IsOrigin(e) == /\ draft.origin # None
               /\ e.file = draft.origin.file /\ e.scenario.name = draft.origin.name
SaveDraft ==
  /\ draft # None /\ changes < MaxChanges
  /\ (front = "desktop" => Dirty)
  /\ ~Problem(draft.scenario) /\ ~NameTaken /\ InFile(Home)
  /\ disk' = [disk EXCEPT ![Home] = Written(Home)]
  /\ entries' = {e \in entries : ~IsOrigin(e)}
                \cup {[file |-> Home, scenario |-> draft.scenario]}
  /\ misplaced' = (misplaced \/ (IsPatched(Home) /\ ~InOrder(Patched(Home))))
  /\ draft' = Draft(draft.scenario, Origin(Home, draft.scenario.name))
  /\ changes' = changes + 1
  /\ UNCHANGED <<front, links, engine, edits>>

DeleteSelected(e) ==
  /\ draft = None /\ ~Shown(e) /\ changes < MaxChanges
  /\ LET text == disk[e.file]
         at == Place(text, e.scenario.name)
     IN /\ text # Unparsed /\ at # 0
        /\ disk' = [disk EXCEPT ![e.file] = RemoveAt(text, at)]
  /\ entries' = {held \in entries : held.file # e.file
                                    \/ held.scenario.name # e.scenario.name}
  /\ changes' = changes + 1
  /\ UNCHANGED <<front, links, draft, misplaced, engine, edits>>

-----------------------------------------------------------------------------
(* Starting, and what the engine says of it.                               *)
Known(scenario) ==
  \A i \in DOMAIN scenario.steps :
    /\ scenario.steps[i].kind \in {"send", "frame"} => scenario.steps[i].frame \in Frames
    /\ ToSet(scenario.steps[i].targets) \subseteq ToSet(links)
Start(e) == /\ draft = None /\ starts < MaxStarts
            /\ (front = "desktop" => ~Shown(e))
            /\ Known(e.scenario)
            /\ asked' = asked \cup {e.scenario.name} /\ starts' = starts + 1
            /\ UNCHANGED <<front, links, library, draft, running, edits, changes>>
HeardStarted == /\ \E n \in asked : asked' = asked \ {n} /\ running' = running \cup {n}
                /\ UNCHANGED <<front, links, library, draft, starts, edits, changes>>
HeardEnded == /\ \E n \in running : running' = running \ {n}
              /\ UNCHANGED <<front, links, library, draft, asked, starts, edits, changes>>

EditStep == \/ AddStep \/ RemoveStep \/ MoveStep \/ SetKind \/ Aim \/ PickFrame
            \/ PickWaitFrame \/ WaitByFrame \/ HoldField \/ CountField \/ TakeField
            \/ CaptureField \/ NameVariable
Next == \/ Reload \/ BeginNew \/ CancelEdit \/ EditName \/ EditHeader \/ EditStep
        \/ SaveDraft \/ HeardStarted \/ HeardEnded
        \/ \E e \in entries : BeginEdit(e) \/ DeleteSelected(e) \/ Start(e)
Spec == Init /\ [][Next]_vars

-----------------------------------------------------------------------------
(* Until a save puts a section under another header, the list is what a   *)
(* reload would read: the links of every step, written once for the whole  *)
(* scenario where they are shared, come back as they were, a rename leaves *)
(* nothing behind and no clash reaches the disk (scenarios.rs:201-215).    *)
ListIsDisk == ~misplaced => entries = LoadFrom(disk)

(* Nor does, until then, a save or a deletion make a file that loads stop  *)
(* loading: one scenario that cannot be read takes its whole file down at  *)
(* the next Reload (scenarios.rs:362-368).                                 *)
NothingTakenDown ==
  [][~misplaced' => \A f \in ToSet(Files) : FileReads(disk[f]) => FileReads(disk'[f])]_vars

(* A save that adds no section, over the same file as often as one likes,  *)
(* leaves every section where it was: what misplaces one is a step more,   *)
(* or a send that reads or remembers something else (scenario.rs:608-644). *)
PlainSavesStayPut ==
  [][/\ draft # None /\ SaveDraft /\ IsPatched(Home)
     /\ AddsNoSection(disk[Home][Place(disk[Home], draft.origin.name)].steps,
                      Lower(draft.scenario).steps)
     => misplaced' = misplaced]_vars

(* "Replaces one scenario inside a file, leaving everything around it      *)
(* alone" (scenario.rs:511).                                               *)
LeftAlone ==
  [][draft # None /\ SaveDraft
     => \A e \in LoadFrom(disk) : ~IsOrigin(e) => e \in LoadFrom(disk')]_vars

(* Whatever step is moved or removed, no step is left reading a variable   *)
(* that only a later one, or none, remembers (scenarios.rs:700-733).       *)
NoGap(steps) == \A i \in DOMAIN steps :
  Range(steps[i].from) \subseteq CapturedBefore(steps, i)
MovesLeaveNoGap ==
  [][draft # None /\ draft' # None /\ (MoveStep \/ RemoveStep)
     => NoGap(draft'.scenario.steps)]_vars

(* What a move leaves out is nothing for a save to refuse                  *)
(* (scenarios.rs:702-704).                                                 *)
MovesKeepItReadable ==
  [][draft # None /\ draft' # None /\ MoveStep /\ ~Problem(draft.scenario)
     => ~Problem(draft'.scenario)]_vars

(* What a step says of its frame names fields of that frame: left from     *)
(* another, they would be invisible and fail at run time                   *)
(* (scenarios.rs:459-464).                                                 *)
FieldsOfItsFrame ==
  draft # None =>
    \A i \in DOMAIN Steps : Steps[i].frame \in Frames =>
      Steps[i].held \cup Steps[i].counted \cup DOMAIN Steps[i].from \cup DOMAIN Steps[i].capture
        \subseteq FieldsOf[Steps[i].frame]

(* What runs has a row to stop it from (scenario_list.rs:107-109).         *)
RunningHasRow == \A n \in running : \E e \in entries : e.scenario.name = n
=============================================================================
