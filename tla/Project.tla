------------------------------ MODULE Project ------------------------------
(***************************************************************************)
(* The project a front end has open (sim-session/project.rs, and app.rs    *)
(* and project.rs of the window, app.rs of the terminal): what the session *)
(* holds against what the file says, the question asked before unsaved     *)
(* work is thrown away, and the traffic tabs, which the file lists without *)
(* their numbers while the pane arrangement goes by them.                  *)
(*                                                                         *)
(* The connections stand for everything a file describes but the tabs.     *)
(* Paths inside the file, the theme and the list of recent projects are    *)
(* left out, and so is what the engine does with the links (Session).      *)
(***************************************************************************)
EXTENDS Places

CONSTANTS
  Fronts,      (* Which front ends there may be: "desktop", "terminal".    *)
  Paths,       (* Where a project may be saved.                            *)
  Links,       (* Names of connections.                                    *)
  Disks,       (* What the paths may hold at first.                        *)
  MaxTabs, MaxEdits, MaxRefused,   (* Bounds: the writes that fail last.   *)
  None

Filters == {"none", "tuned", "inverted"}

(* What a file may say: the connections, the filter of each tab and the    *)
(* numbers of the tabs the arrangement shows.                              *)
Texts == [settings : [rows : SUBSET Links, tabs : Seq(Filters)],
          layout : {None} \cup SUBSET Nat,
          fits : BOOLEAN]

(* What is asked about, and then done.                                     *)
Actions == {"New", "Open", "Quit"}
Goings == [action : Actions, discard : BOOLEAN]

ASSUME ProjectAssumption ==
  /\ Fronts \subseteq {"desktop", "terminal"}
  /\ {MaxTabs, MaxEdits, MaxRefused} \subseteq Nat
  /\ None \notin Texts /\ None \notin Paths \cup Actions \cup Goings
  /\ \A d \in Disks :
       /\ d \in [Paths -> Texts \cup {None}]
       /\ \A p \in Paths : d[p] # None => d[p].layout = None \/ IsFiniteSet(d[p].layout)

VARIABLES
  front,     (* Chosen once.                                               *)
  disk,      (* What each path says, None where nothing can be read.       *)
  rows,      (* The connections of the session.                            *)
  tabs,      (* The filter of each traffic view, by its number.            *)
  dock,      (* The numbers of the traffic tabs the window shows.          *)
  last,      (* The last number given to a view.                           *)
  carried,   (* The arrangement a terminal read and will write again.      *)
  path, saved,
  pending,   (* What waits for the question about unsaved work.            *)
  going,     (* What goes ahead next, and whether work is discarded.       *)
  leaving, open,
  edits, refused,
  torn       (* History: files a write has cut short and none put right.   *)

shown == <<rows, tabs, dock, last, carried>>
asked == <<pending, going, leaving, open>>
vars == <<front, disk, shown, path, saved, asked, edits, refused, torn>>

-----------------------------------------------------------------------------
(* A filter that only inverts is not "active", and an inactive one is not  *)
(* written down.                                                           *)
Captured(filter) == IF filter = "tuned" THEN "tuned" ELSE "none"
Settings(r, t) ==
  LET ids == Ascending(DOMAIN t)
  IN  [rows |-> r, tabs |-> [i \in DOMAIN ids |-> Captured(t[ids[i]])]]
Snapshot == Settings(rows, tabs)
IsDirty == saved # Snapshot

(* What is written is the settings and an arrangement of tabs; fits is     *)
(* false of a hand-edited file with a setting no port could have.          *)
Text(settings, layout) == [settings |-> settings, layout |-> layout, fits |-> TRUE]
Opens(text) == text # None /\ text.fits

(* Tabs are numbered afresh when they are read.  The window then gives     *)
(* every number of its arrangement a view and drops the views without one. *)
Restored(text) == text.settings.tabs
Reconciled(layout, t) ==
  [id \in layout |-> IF id \in DOMAIN t THEN t[id] ELSE "none"]
OneAtLeast(t) == IF DOMAIN t = {} THEN [id \in {1} |-> "none"] ELSE t
TabsOf(text) ==
  IF front = "desktop" /\ text.layout # None
    THEN Reconciled(text.layout, Restored(text))
    ELSE OneAtLeast(Restored(text))

(* Mutant: numbering resumes after as many tabs as there are.              *)
RestoreMonitorsCounting(t) ==
  /\ tabs' = t
  /\ last' = Cardinality(DOMAIN t)
  /\ dock' = IF front = "desktop" THEN DOMAIN t ELSE {}
(* Numbering resumes after the tabs that were restored.                    *)
RestoreMonitors(t) ==
  /\ tabs' = t
  /\ last' = IF DOMAIN t = {} THEN 0 ELSE Max(DOMAIN t)
  /\ dock' = IF front = "desktop" THEN DOMAIN t ELSE {}

Init == /\ front \in Fronts /\ disk \in Disks
        /\ rows = {} /\ tabs = [id \in {1} |-> "none"] /\ last = 1
        /\ dock = IF front = "desktop" THEN {1} ELSE {}
        /\ carried = None /\ path = None /\ saved = Snapshot
        /\ pending = None /\ going = None /\ leaving = FALSE /\ open = TRUE
        /\ edits = 0 /\ refused = 0 /\ torn = {}

-----------------------------------------------------------------------------
(* Opening.  The window has closed and taken every connection before the   *)
(* file is read; the terminal touches nothing until the file has resolved. *)
Open(p) ==
  IF Opens(disk[p])
    THEN /\ RestoreMonitors(TabsOf(disk[p]))
         /\ rows' = disk[p].settings.rows
         /\ path' = p
         /\ saved' = Settings(rows', tabs')
         /\ carried' = IF front = "terminal" THEN disk[p].layout ELSE None
         /\ torn' = torn \ {p}
    ELSE /\ rows' = IF front = "desktop" THEN {} ELSE rows
         /\ UNCHANGED <<tabs, dock, last, carried, path, saved, torn>>

StartNew == /\ RestoreMonitors([id \in {1} |-> "none"])
            /\ rows' = {} /\ path' = None
            /\ saved' = Settings(rows', tabs')
            /\ UNCHANGED <<carried, torn>>

(* A write empties the file before it fills it: one that fails part way    *)
(* leaves what cannot be read, or as far as it got, the connections first  *)
(* and the arrangement last.                                               *)
CutShort(text) ==
  {None, text}
    \cup {Text([rows |-> r, tabs |-> <<>>], None) : r \in SUBSET text.settings.rows}
    \cup {Text([text.settings EXCEPT !.tabs = SubSeq(@, 1, n)], None) :
             n \in 0 .. Len(text.settings.tabs)}

WriteFile(p, ok) ==
  LET text == Text(Snapshot, IF front = "desktop" THEN dock ELSE carried) IN
  /\ ok \/ refused < MaxRefused
  /\ refused' = IF ok THEN refused ELSE refused + 1
  /\ \E left \in IF ok THEN {text} ELSE {disk[p]} \cup CutShort(text) :
       disk' = [disk EXCEPT ![p] = left]
  /\ torn' = IF ok THEN torn \ {p} ELSE IF disk' = disk THEN torn ELSE torn \cup {p}

(* Mutant: both front ends take the path before the file is written.       *)
SaveToPathFirst(p, ok) ==
  /\ WriteFile(p, ok)
  /\ saved' = IF ok THEN Snapshot ELSE saved
  /\ path' = p
  /\ UNCHANGED shown
(* Saving.  A write may fail; the window has taken the new path by then.   *)
SaveTo(p, ok) ==
  /\ WriteFile(p, ok)
  /\ saved' = IF ok THEN Snapshot ELSE saved
  /\ path' = IF ok \/ front = "desktop" THEN p ELSE path
  /\ UNCHANGED shown

(* Where a save goes: where the project came from, or wherever is chosen.  *)
Destinations == IF path = None THEN Paths ELSE {path}

-----------------------------------------------------------------------------
(* Either front end.  A question of the window is answered before anything *)
(* else but the save key and the window's own close button.                *)
Asking == pending # None
Ready == open /\ ~leaving /\ ~Asking /\ going = None
Going(action, discard) == going' = [action |-> action, discard |-> discard]
Edited == /\ edits < MaxEdits /\ edits' = edits + 1
          /\ UNCHANGED <<front, disk, path, saved, asked, refused, torn>>

EditRows == /\ Ready /\ Edited
            /\ \E id \in Links : rows' = IF id \in rows THEN rows \ {id} ELSE rows \cup {id}
            /\ UNCHANGED <<tabs, dock, last, carried>>
EditFilter == /\ Ready /\ Edited
              /\ \E id \in DOMAIN tabs, filter \in Filters : tabs' = [tabs EXCEPT ![id] = filter]
              /\ UNCHANGED <<rows, dock, last, carried>>
OpenMonitor == /\ Ready /\ Edited /\ Cardinality(DOMAIN tabs) < MaxTabs
               /\ last' = last + 1
               /\ tabs' = [id \in DOMAIN tabs \cup {last'} |->
                             IF id = last' THEN "none" ELSE tabs[id]]
               /\ dock' = IF front = "desktop" THEN dock \cup {last'} ELSE dock
               /\ UNCHANGED <<rows, carried>>
(* The terminal keeps one; the window may close the last of them.          *)
CloseMonitor == /\ Ready /\ Edited
                /\ front = "terminal" => Cardinality(DOMAIN tabs) > 1
                /\ \E gone \in DOMAIN tabs :
                     /\ tabs' = [id \in DOMAIN tabs \ {gone} |-> tabs[id]]
                     /\ dock' = dock \ {gone}
                /\ UNCHANGED <<rows, last, carried>>

Save == /\ open /\ ~leaving /\ going = None
        /\ \E p \in Destinations, ok \in BOOLEAN : SaveTo(p, ok)
        /\ UNCHANGED <<front, asked, edits>>
SaveAs == /\ Ready
          /\ \E p \in Paths, ok \in BOOLEAN : SaveTo(p, ok)
          /\ UNCHANGED <<front, asked, edits>>

-----------------------------------------------------------------------------
(* The window asks before it throws unsaved work away.                     *)
Request == /\ front = "desktop" /\ Ready
           /\ \E action \in {"New", "Open"} :
                IF IsDirty THEN pending' = action /\ UNCHANGED going
                           ELSE Going(action, FALSE) /\ UNCHANGED pending
           /\ UNCHANGED <<front, disk, shown, path, saved, leaving, open, edits, refused, torn>>

CloseRequested == /\ front = "desktop" /\ open /\ going = None
                  /\ IF IsDirty /\ ~leaving
                       THEN pending' = "Quit" /\ UNCHANGED open
                       ELSE open' = FALSE /\ UNCHANGED pending
                  /\ UNCHANGED <<front, disk, shown, path, saved, going, leaving, edits, refused, torn>>

(* Mutant: the question is put away whatever became of the save.           *)
AnswerSaveAnyway == /\ open /\ Asking /\ going = None
                    /\ \E p \in Destinations, ok \in BOOLEAN : SaveTo(p, ok)
                    /\ pending' = None /\ Going(pending, FALSE)
                    /\ UNCHANGED <<front, leaving, open, edits>>
(* Saved first, and only once it is really written: a write that fails     *)
(* leaves the question standing.                                           *)
AnswerSave == /\ open /\ Asking /\ going = None
              /\ \E p \in Destinations, ok \in BOOLEAN :
                   /\ SaveTo(p, ok)
                   /\ IF ok THEN pending' = None /\ Going(pending, FALSE)
                            ELSE UNCHANGED <<pending, going>>
              /\ UNCHANGED <<front, leaving, open, edits>>
AnswerDiscard == /\ open /\ Asking /\ going = None
                 /\ pending' = None /\ Going(pending, TRUE)
                 /\ UNCHANGED <<front, disk, shown, path, saved, leaving, open, edits, refused, torn>>
AnswerCancel == /\ open /\ Asking /\ going = None /\ pending' = None
                /\ UNCHANGED <<front, disk, shown, path, saved, going, leaving, open, edits, refused, torn>>

(* What was agreed to.  The dialog that asks for a file may be cancelled.  *)
GoAhead ==
  /\ open /\ going # None /\ going' = None
  /\ \/ going.action = "New" /\ StartNew /\ UNCHANGED leaving
     \/ going.action = "Open" /\ (\E p \in Paths : Open(p)) /\ UNCHANGED leaving
     \/ going.action = "Open" /\ UNCHANGED <<shown, path, saved, leaving, torn>>
     \/ going.action = "Quit" /\ leaving' = TRUE /\ UNCHANGED <<shown, path, saved, torn>>
  /\ UNCHANGED <<front, disk, pending, open, edits, refused>>

ResetLayout == /\ front = "desktop" /\ Ready /\ Edited
               /\ RestoreMonitors(OneAtLeast(tabs))
               /\ UNCHANGED <<rows, carried>>

(* The terminal does not ask.                                              *)
Browse == /\ front = "terminal" /\ Ready
          /\ \E p \in Paths : Open(p)
          /\ UNCHANGED <<front, disk, asked, edits, refused>>
Quit == /\ front = "terminal" /\ open /\ open' = FALSE
        /\ UNCHANGED <<front, disk, shown, path, saved, pending, going, leaving, edits, refused, torn>>

Next == \/ EditRows \/ EditFilter \/ OpenMonitor \/ CloseMonitor \/ ResetLayout
        \/ Save \/ SaveAs \/ Request \/ CloseRequested \/ AnswerSave \/ AnswerDiscard
        \/ AnswerCancel \/ GoAhead \/ Browse \/ Quit
Spec == Init /\ [][Next]_vars

-----------------------------------------------------------------------------
(* Closing the window, opening another project or starting a new one with  *)
(* unsaved changes asks first (docs/projects.md:45): what was changed     *)
(* since the project was last opened or saved is given up only when told   *)
(* to discard it, whatever save fails or is asked for in between.  Drafts  *)
(* of a frame or a scenario are not part of what is compared.              *)
GivesUp == IsDirty /\ edits' = edits
           /\ (Snapshot' # Snapshot \/ leaving' # leaving \/ open' # open)
AskedFirst == [][front = "desktop" /\ GivesUp
                 => leaving \/ (going # None /\ going.discard)]_vars

(* A tab opened later never takes the number of one that was restored      *)
(* (state.rs:131-132), and a reset costs the layout and nothing else: what *)
(* the other tabs filter stays (app.rs:389-390 of the window).             *)
TabsKept == [][OpenMonitor \/ (ResetLayout /\ DOMAIN tabs # {})
               => \A id \in DOMAIN tabs : id \in DOMAIN tabs' /\ tabs'[id] = tabs[id]]_vars

(* What is not marked as edited is what the file would open as.            *)
Faithful == (path # None /\ ~IsDirty)
            => /\ Opens(disk[path])
               /\ Settings(disk[path].settings.rows, TabsOf(disk[path])) = Snapshot
(* In the terminal, whatever the order of edits, opened files and saves    *)
(* that fail, elsewhere too, until a write cuts its own file short         *)
(* (app.rs:1473-1545).                                                     *)
TerminalFaithful == front = "terminal" /\ path \notin torn => Faithful
(* "compared against on every draw to say whether there is anything to     *)
(* save" (app.rs:1376 of the terminal): after a save that was cut short    *)
(* there is, and nothing says so (project.rs:239).                         *)
NothingLeftToSave == front = "terminal" => Faithful
(* In the window, whose arrangement and tabs are to agree with the file    *)
(* (project.rs:108-109 of the window).                                     *)
WindowFaithful == front = "desktop" => Faithful

(* A file that cannot be used leaves the current session alone instead of  *)
(* half replacing it (project.rs:132-134).                                 *)
LeavesAlone == [][GoAhead /\ path' = path /\ saved' = saved => rows' = rows]_vars
=============================================================================
