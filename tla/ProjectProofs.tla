--------------------------- MODULE ProjectProofs ----------------------------
(***************************************************************************)
(* What is open against what the file says: proofs for any paths, files,   *)
(* connections and bounds.                                                 *)
(***************************************************************************)
EXTENDS Project

(* What is read back of what was written is what was written.              *)
LEMMA WrittenIsRead ==
  ASSUME NEW r, NEW t, DOMAIN t \in SUBSET Nat, IsFiniteSet(DOMAIN t)
  PROVE  LET text == Settings(r, t) IN
         /\ text = [rows |-> r, tabs |-> text.tabs] /\ text.tabs \in Seq(Filters)
         /\ DOMAIN t # {} => Settings(text.rows, OneAtLeast(text.tabs)) = text
<1> DEFINE n == Cardinality(DOMAIN t)
           ids == Ascending(DOMAIN t)
           list == [i \in DOMAIN ids |-> Captured(t[ids[i]])]
<1>1. n \in Nat /\ (DOMAIN t # {} => n # 0)
  BY FS_CardinalityType, FS_EmptySet
<1>2. DOMAIN ids = 1 .. n
  BY AscendingRises
<1>3. Settings(r, t) = [rows |-> r, tabs |-> list]
  BY DEF Settings
<1> HIDE DEF n, ids
<1>4. list \in [1 .. n -> Filters] /\ \A i \in 1 .. n : Captured(list[i]) = list[i]
  BY <1>2 DEF Captured, Filters
<1>5. list \in Seq(Filters) /\ DOMAIN list = 1 .. n
  BY <1>1, <1>4
<1> HIDE DEF list
<1>6. DOMAIN t # {} => OneAtLeast(list) = list
  BY <1>1, <1>5 DEF OneAtLeast
<1> DEFINE again == Ascending(DOMAIN list)
<1>7. DOMAIN again = 1 .. n /\ \A i \in 1 .. n : again[i] = i
  BY <1>1, <1>5, AscendingOfInterval
<1>8. Settings(r, list) = [rows |-> r, tabs |-> [i \in DOMAIN again |-> Captured(list[again[i]])]]
  BY DEF Settings
<1> HIDE DEF again
<1>9. [i \in DOMAIN again |-> Captured(list[again[i]])] = list
  BY <1>4, <1>7
<1> QED
  BY <1>3, <1>5, <1>6, <1>8, <1>9

-----------------------------------------------------------------------------
DiskTypes ==
  /\ disk \in [Paths -> Texts \cup {None}]
  /\ \A p \in Paths : disk[p] # None => disk[p].layout = None \/ IsFiniteSet(disk[p].layout)
  /\ path \in Paths \cup {None} /\ refused \in Nat

ShownTypes ==
  /\ rows \in SUBSET Links
  /\ last \in Nat /\ DOMAIN tabs \subseteq 0 .. last /\ tabs \in [DOMAIN tabs -> Filters]
  /\ dock \subseteq 0 .. last
  /\ carried = None \/ (carried \in SUBSET Nat /\ IsFiniteSet(carried))

AskedTypes ==
  /\ pending \in Actions \cup {None} /\ going \in Goings \cup {None}
  /\ leaving \in BOOLEAN /\ open \in BOOLEAN /\ edits \in Nat

TypeInv == front \in {"desktop", "terminal"} /\ DiskTypes /\ ShownTypes /\ AskedTypes

(* What goes ahead without discarding work has no work to discard: neither *)
(* front end lets an edit in between the answer and what it was for.       *)
AgreedInv == front = "desktop" /\ going # None /\ ~going.discard => ~IsDirty

(* What the terminal takes for saved is what the file would open as, and   *)
(* it never runs out of tabs.                                              *)
FileInv ==
  front = "terminal" =>
    /\ DOMAIN tabs # {}
    /\ path # None /\ path \notin torn =>
         /\ Opens(disk[path])
         /\ saved = Settings(disk[path].settings.rows, TabsOf(disk[path]))

(* What RestoreMonitors asks of the tabs it is given.                      *)
Tabs(t) == DOMAIN t \in SUBSET Nat /\ IsFiniteSet(DOMAIN t) /\ t \in [DOMAIN t -> Filters]

LEMMA TabsAreTabs == TypeInv => Tabs(tabs)
<1> SUFFICES ASSUME TypeInv PROVE Tabs(tabs)
  OBVIOUS
<1>1. last \in Nat
  BY DEF TypeInv, ShownTypes
<1>2. IsFiniteSet(0 .. last) /\ 0 .. last \in SUBSET Nat
  BY <1>1, FS_Interval
<1> QED
  BY <1>2, FS_Subset DEF TypeInv, ShownTypes, Tabs

LEMMA RestoredTypes ==
  ASSUME NEW t, Tabs(t), RestoreMonitors(t)
  PROVE  /\ last' \in Nat /\ DOMAIN tabs' \subseteq 0 .. last' /\ tabs' \in [DOMAIN tabs' -> Filters]
         /\ dock' \subseteq 0 .. last'
<1>1. CASE DOMAIN t = {}
  BY <1>1 DEF RestoreMonitors, Tabs
<1>2. CASE DOMAIN t # {}
  <2>1. Max(DOMAIN t) \in DOMAIN t /\ \A x \in DOMAIN t : x <= Max(DOMAIN t)
    BY <1>2, MaxIsThere DEF Tabs
  <2>2. last' = Max(DOMAIN t) /\ tabs' = t /\ (dock' = DOMAIN t \/ dock' = {})
    BY <1>2 DEF RestoreMonitors
  <2> QED
    BY <2>1, <2>2 DEF Tabs
<1> QED
  BY <1>1, <1>2

LEMMA OneIsTabs ==
  /\ Tabs([id \in {1} |-> "none"])
  /\ \A t : Tabs(t) => Tabs(OneAtLeast(t))
<1>1. IsFiniteSet({1})
  BY FS_Singleton
<1>2. Tabs([id \in {1} |-> "none"])
  BY <1>1 DEF Tabs, Filters
<1> QED
  BY <1>2 DEF OneAtLeast

LEMMA TabsOfType ==
  ASSUME NEW text \in Texts, text.layout = None \/ IsFiniteSet(text.layout)
  PROVE  Tabs(TabsOf(text))
<1> DEFINE list == text.settings.tabs
<1>1. list \in Seq(Filters)
  BY DEF Texts
<1>2. Tabs(list)
  <2> HIDE DEF list
  <2>1. DOMAIN list = 1 .. Len(list) /\ Len(list) \in Nat /\ list \in [1 .. Len(list) -> Filters]
    BY <1>1
  <2>2. IsFiniteSet(1 .. Len(list))
    BY <2>1, FS_Interval
  <2> QED
    BY <2>1, <2>2 DEF Tabs
<1>3. ASSUME text.layout # None
      PROVE  Tabs(Reconciled(text.layout, list))
  <2>1. text.layout \in SUBSET Nat /\ IsFiniteSet(text.layout)
    BY <1>3 DEF Texts
  <2> HIDE DEF list
  <2>2. Reconciled(text.layout, list) \in [text.layout -> Filters]
    BY <1>2 DEF Reconciled, Tabs, Filters
  <2> QED
    BY <2>1, <2>2 DEF Tabs
<1> QED
  BY <1>2, <1>3, OneIsTabs DEF TabsOf, Restored

LEMMA ProjectInit == Init => TypeInv /\ AgreedInv /\ FileInv
<1> SUFFICES ASSUME Init PROVE TypeInv /\ AgreedInv /\ FileInv
  OBVIOUS
<1>1. tabs \in [DOMAIN tabs -> Filters] /\ DOMAIN tabs = {1} /\ last = 1 /\ dock \subseteq {1}
  BY DEF Init, Filters
<1>2. TypeInv
  <2>1. front \in {"desktop", "terminal"}
    BY ProjectAssumption DEF Init
  <2>2. /\ disk \in [Paths -> Texts \cup {None}]
        /\ \A p \in Paths : disk[p] # None => disk[p].layout = None \/ IsFiniteSet(disk[p].layout)
    BY ProjectAssumption DEF Init
  <2>3. last \in Nat /\ DOMAIN tabs \subseteq 0 .. last /\ dock \subseteq 0 .. last
    BY <1>1
  <2> QED
    BY <1>1, <2>1, <2>2, <2>3 DEF Init, TypeInv, DiskTypes, ShownTypes, AskedTypes
<1> QED
  BY <1>1, <1>2 DEF Init, AgreedInv, FileInv

-----------------------------------------------------------------------------
(* What a save, a file that opens, a new project and an edit leave.        *)
LEMMA SavedIsText ==
  ASSUME TypeInv
  PROVE  LET text == Text(Snapshot, IF front = "desktop" THEN dock ELSE carried)
         IN  text \in Texts /\ (text.layout = None \/ IsFiniteSet(text.layout))
<1> DEFINE text == Text(Snapshot, IF front = "desktop" THEN dock ELSE carried)
<1>1. Snapshot = [rows |-> rows, tabs |-> Snapshot.tabs] /\ Snapshot.tabs \in Seq(Filters)
  BY TabsAreTabs, WrittenIsRead DEF Snapshot, Tabs
<1>2. rows \in SUBSET Links
  BY DEF TypeInv, ShownTypes
<1>3. /\ text.layout \in {None} \cup SUBSET Nat
      /\ text.layout = None \/ IsFiniteSet(text.layout)
  <2>1. dock \in SUBSET Nat /\ IsFiniteSet(dock)
    <3>1. last \in Nat /\ dock \subseteq 0 .. last
      BY DEF TypeInv, ShownTypes
    <3>2. IsFiniteSet(0 .. last) /\ 0 .. last \in SUBSET Nat
      BY <3>1, FS_Interval
    <3> QED
      BY <3>1, <3>2, FS_Subset
  <2> QED
    BY <2>1 DEF Text, TypeInv, ShownTypes
<1>4. text \in Texts
  BY <1>1, <1>2, <1>3 DEF Text, Texts
<1> QED
  BY <1>3, <1>4

(* What a write leaves has the form of a file, or of none.                 *)
LEMMA CutShortTypes ==
  ASSUME NEW text \in Texts, text.layout = None \/ IsFiniteSet(text.layout),
         NEW left \in CutShort(text)
  PROVE  left \in Texts \cup {None}
         /\ (left # None => left.layout = None \/ IsFiniteSet(left.layout))
<1>1. /\ text.settings = [rows |-> text.settings.rows, tabs |-> text.settings.tabs]
      /\ text.settings.rows \in SUBSET Links /\ text.settings.tabs \in Seq(Filters)
  BY DEF Texts
<1>2. ASSUME NEW r \in SUBSET Links, NEW t \in Seq(Filters)
      PROVE  Text([rows |-> r, tabs |-> t], None) \in Texts
             /\ Text([rows |-> r, tabs |-> t], None).layout = None
  BY <1>2 DEF Text, Texts
<1>3. CASE left \in {None, text}
  BY <1>3
<1>4. CASE \E r \in SUBSET text.settings.rows : left = Text([rows |-> r, tabs |-> <<>>], None)
  <2>1. PICK r \in SUBSET text.settings.rows : left = Text([rows |-> r, tabs |-> <<>>], None)
    BY <1>4
  <2>2. r \in SUBSET Links /\ <<>> \in Seq(Filters)
    BY <1>1
  <2> QED
    BY <1>2, <2>1, <2>2
<1>5. CASE \E n \in 0 .. Len(text.settings.tabs) :
             left = Text([text.settings EXCEPT !.tabs = SubSeq(@, 1, n)], None)
  <2>1. PICK n \in 0 .. Len(text.settings.tabs) :
           left = Text([text.settings EXCEPT !.tabs = SubSeq(@, 1, n)], None)
    BY <1>5
  <2> DEFINE part == SubSeq(text.settings.tabs, 1, n)
  <2>2. part \in Seq(Filters)
    BY <1>1
  <2>3. left = Text([rows |-> text.settings.rows, tabs |-> part], None)
    BY <1>1, <2>1
  <2> HIDE DEF part
  <2> QED
    BY <1>1, <1>2, <2>2, <2>3
<1> QED
  BY <1>3, <1>4, <1>5 DEF CutShort

LEMMA SaveTypes ==
  ASSUME TypeInv, NEW p \in Paths, NEW ok \in BOOLEAN, SaveTo(p, ok)
  PROVE  DiskTypes' /\ UNCHANGED shown
<1> DEFINE text == Text(Snapshot, IF front = "desktop" THEN dock ELSE carried)
<1>1. text \in Texts /\ (text.layout = None \/ IsFiniteSet(text.layout))
  BY SavedIsText
<1> HIDE DEF text
<1>2. PICK left \in {text, disk[p]} \cup CutShort(text) : disk' = [disk EXCEPT ![p] = left]
  BY DEF SaveTo, WriteFile, text
<1>3. left \in Texts \cup {None} /\ (left # None => left.layout = None \/ IsFiniteSet(left.layout))
  BY <1>1, CutShortTypes DEF TypeInv, DiskTypes
<1>4. /\ disk' \in [Paths -> Texts \cup {None}]
      /\ \A q \in Paths : disk'[q] # None => disk'[q].layout = None \/ IsFiniteSet(disk'[q].layout)
  BY <1>2, <1>3 DEF TypeInv, DiskTypes
<1>5. path' \in Paths \cup {None} /\ refused' \in Nat /\ UNCHANGED shown
  BY DEF SaveTo, WriteFile, TypeInv, DiskTypes
<1> QED
  BY <1>4, <1>5 DEF DiskTypes

LEMMA OpenTypes ==
  ASSUME TypeInv, NEW p \in Paths, Open(p)
  PROVE  ShownTypes' /\ path' \in Paths \cup {None}
<1>1. CASE Opens(disk[p])
  <2>1. /\ disk[p] \in Texts /\ (disk[p].layout = None \/ IsFiniteSet(disk[p].layout))
        /\ disk[p].layout \in {None} \cup SUBSET Nat /\ disk[p].settings.rows \in SUBSET Links
    BY <1>1 DEF TypeInv, DiskTypes, Opens, Texts
  <2>2. RestoreMonitors(TabsOf(disk[p])) /\ Tabs(TabsOf(disk[p]))
    BY <1>1, <2>1, TabsOfType DEF Open
  <2>3. /\ rows' = disk[p].settings.rows /\ path' = p
        /\ carried' = IF front = "terminal" THEN disk[p].layout ELSE None
    BY <1>1 DEF Open
  <2> QED
    BY <2>1, <2>2, <2>3, RestoredTypes DEF ShownTypes
<1>2. CASE ~Opens(disk[p])
  BY <1>2 DEF Open, TypeInv, ShownTypes, DiskTypes
<1> QED
  BY <1>1, <1>2

LEMMA NewTypes ==
  ASSUME TypeInv, StartNew
  PROVE  ShownTypes' /\ path' = None
BY OneIsTabs, RestoredTypes DEF StartNew, ShownTypes, TypeInv

(* An edit changes what is shown, counts, and leaves the rest alone.       *)
LEMMA EditTypes ==
  ASSUME TypeInv, EditRows \/ EditFilter \/ OpenMonitor \/ CloseMonitor \/ ResetLayout
  PROVE  /\ ShownTypes' /\ edits' # edits /\ edits' \in Nat /\ going = None
         /\ UNCHANGED <<front, disk, path, saved, asked, refused, torn>>
<1>1. /\ edits' # edits /\ edits' \in Nat /\ going = None
      /\ UNCHANGED <<front, disk, path, saved, asked, refused, torn>>
  BY DEF EditRows, EditFilter, OpenMonitor, CloseMonitor, ResetLayout, Edited, Ready,
         TypeInv, AskedTypes
<1>2. ASSUME EditRows PROVE ShownTypes'
  BY <1>2 DEF EditRows, TypeInv, ShownTypes
<1>3. ASSUME EditFilter PROVE ShownTypes'
  BY <1>3 DEF EditFilter, TypeInv, ShownTypes
<1>4. ASSUME OpenMonitor PROVE ShownTypes'
  <2>1. last' = last + 1 /\ last \in Nat
    BY <1>4 DEF OpenMonitor, TypeInv, ShownTypes
  <2>2. tabs' = [id \in DOMAIN tabs \cup {last'} |-> IF id = last' THEN "none" ELSE tabs[id]]
    BY <1>4 DEF OpenMonitor
  <2>3. DOMAIN tabs' \subseteq 0 .. last' /\ tabs' \in [DOMAIN tabs' -> Filters]
    BY <2>1, <2>2 DEF TypeInv, ShownTypes, Filters
  <2>4. dock' \subseteq 0 .. last'
    BY <1>4, <2>1 DEF OpenMonitor, TypeInv, ShownTypes
  <2> QED
    BY <1>4, <2>1, <2>3, <2>4 DEF OpenMonitor, TypeInv, ShownTypes
<1>5. ASSUME CloseMonitor PROVE ShownTypes'
  BY <1>5 DEF CloseMonitor, TypeInv, ShownTypes
<1>6. ASSUME ResetLayout PROVE ShownTypes'
  BY <1>6, TabsAreTabs, OneIsTabs, RestoredTypes DEF ResetLayout, TypeInv, ShownTypes
<1> QED
  BY <1>1, <1>2, <1>3, <1>4, <1>5, <1>6

Edits == EditRows \/ EditFilter \/ OpenMonitor \/ CloseMonitor \/ ResetLayout

(* The steps that write, those that only ask, and those that replace.      *)
LEMMA DestinationsArePaths == TypeInv => Destinations \subseteq Paths
BY DEF TypeInv, DiskTypes, Destinations

LEMMA SavingSteps ==
  ASSUME TypeInv, Save \/ SaveAs \/ AnswerSave
  PROVE  /\ \E p \in Paths, ok \in BOOLEAN :
              /\ SaveTo(p, ok)
              /\ AnswerSave => IF ok THEN going' = [action |-> pending, discard |-> FALSE] /\ pending' = None
                                     ELSE UNCHANGED <<pending, going>>
         /\ ~AnswerSave => UNCHANGED <<pending, going>>
         /\ AnswerSave => pending # None
         /\ going = None /\ UNCHANGED <<front, leaving, open, edits>>
<1>1. CASE AnswerSave
  BY <1>1, DestinationsArePaths DEF AnswerSave, Going, Asking
<1>2. CASE ~AnswerSave
  BY <1>2, DestinationsArePaths DEF Save, SaveAs, Ready, asked
<1> QED
  BY <1>1, <1>2

Questions == Request \/ CloseRequested \/ AnswerDiscard \/ AnswerCancel \/ Quit

LEMMA AskingSteps ==
  ASSUME TypeInv, Questions
  PROVE  AskedTypes' /\ UNCHANGED <<front, disk, shown, path, saved, edits, refused, torn>>
<1>1. Request => pending' \in Actions \cup {None} /\ going' \in Goings \cup {None}
  <2>1. \A a \in {"New", "Open"} : a \in Actions /\ [action |-> a, discard |-> FALSE] \in Goings
    BY DEF Actions, Goings
  <2>2. pending \in Actions \cup {None} /\ going \in Goings \cup {None}
    BY DEF TypeInv, AskedTypes
  <2> QED
    BY <2>1, <2>2 DEF Request, Going
<1>2. CloseRequested => pending' \in Actions \cup {None} /\ open' \in BOOLEAN
  BY DEF CloseRequested, Actions, TypeInv, AskedTypes
<1>3. AnswerDiscard => pending' = None /\ going' \in Goings \cup {None}
  BY DEF AnswerDiscard, Asking, Going, Goings, TypeInv, AskedTypes
<1> QED
  BY <1>1, <1>2, <1>3
     DEF Questions, Request, CloseRequested, AnswerDiscard, AnswerCancel, Quit, TypeInv, AskedTypes

Replaces == \/ StartNew
            \/ \E p \in Paths : Open(p)
            \/ UNCHANGED <<shown, path, saved, torn>>

LEMMA ReplacingSteps ==
  ASSUME TypeInv, GoAhead \/ Browse
  PROVE  /\ Replaces /\ AskedTypes' /\ UNCHANGED <<front, disk, edits, refused>>
         /\ GoAhead => going # None /\ going' = None /\ front' = front
         /\ Browse => front = "terminal" /\ \E p \in Paths : Open(p)
BY DEF GoAhead, Browse, Replaces, TypeInv, AskedTypes, asked

LEMMA TypeStep == TypeInv /\ [Next]_vars => TypeInv'
<1> SUFFICES ASSUME TypeInv, [Next]_vars PROVE TypeInv'
  OBVIOUS
<1>1. CASE Edits
  BY <1>1, EditTypes DEF Edits, TypeInv, DiskTypes, AskedTypes, asked
<1>2. CASE Save \/ SaveAs \/ AnswerSave
  <2>1. DiskTypes' /\ UNCHANGED shown
    BY <1>2, SavingSteps, SaveTypes
  <2>2. AskedTypes'
    <3>1. AnswerSave => pending \in Actions
      BY <1>2, SavingSteps DEF TypeInv, AskedTypes
    <3>2. AnswerSave => [action |-> pending, discard |-> FALSE] \in Goings
      BY <3>1 DEF Goings
    <3>3. pending \in Actions \cup {None} /\ going \in Goings \cup {None}
      BY DEF TypeInv, AskedTypes
    <3>4. going' \in Goings \cup {None} /\ pending' \in Actions \cup {None}
      BY <1>2, <3>2, <3>3, SavingSteps
    <3> QED
      BY <1>2, <3>4, SavingSteps DEF TypeInv, AskedTypes
  <2>3. front' = front
    BY <1>2, SavingSteps
  <2> QED
    BY <2>1, <2>2, <2>3 DEF TypeInv, ShownTypes, shown
<1>3. CASE Questions
  BY <1>3, AskingSteps DEF TypeInv, DiskTypes, ShownTypes, shown
<1>4. CASE GoAhead \/ Browse
  <2>1. Replaces /\ AskedTypes' /\ UNCHANGED <<front, disk, edits, refused>>
    BY <1>4, ReplacingSteps
  <2>2. ShownTypes' /\ path' \in Paths \cup {None}
    BY <2>1, OpenTypes, NewTypes DEF Replaces, TypeInv, ShownTypes, DiskTypes, shown
  <2> QED
    BY <2>1, <2>2 DEF TypeInv, DiskTypes
<1>5. CASE UNCHANGED vars
  BY <1>5 DEF vars, shown, asked, TypeInv, DiskTypes, ShownTypes, AskedTypes
<1> QED
  BY <1>1, <1>2, <1>3, <1>4, <1>5 DEF Next, Edits, Questions

(* An answer that lets the work go ahead found or left nothing unsaved.    *)
LEMMA AgreedStep == TypeInv /\ AgreedInv /\ [Next]_vars => AgreedInv'
<1> SUFFICES ASSUME TypeInv, AgreedInv, [Next]_vars PROVE AgreedInv'
  OBVIOUS
<1>1. CASE Edits
  BY <1>1, EditTypes DEF Edits, AgreedInv, asked
<1>2. CASE Save \/ SaveAs \/ AnswerSave
  <2>1. PICK p \in Paths, ok \in BOOLEAN :
          /\ SaveTo(p, ok)
          /\ AnswerSave => IF ok THEN going' = [action |-> pending, discard |-> FALSE] /\ pending' = None
                                 ELSE UNCHANGED <<pending, going>>
    BY <1>2, SavingSteps
  <2>2. ok => saved' = Snapshot /\ Snapshot' = Snapshot
    BY <2>1 DEF SaveTo, Snapshot, shown
  <2>3. going' # None => ok
    BY <1>2, <2>1, SavingSteps
  <2> QED
    BY <2>2, <2>3 DEF AgreedInv, IsDirty
<1>3. CASE Questions
  <2>1. Snapshot' = Snapshot /\ saved' = saved /\ front' = front
    BY <1>3, AskingSteps DEF Snapshot, shown
  <2>2. going' # None /\ ~going'.discard => ~IsDirty \/ (going' = going)
    BY <1>3 DEF Questions, Request, CloseRequested, AnswerDiscard, AnswerCancel, Quit, Going
  <2> QED
    BY <2>1, <2>2 DEF AgreedInv, IsDirty
<1>4. CASE GoAhead \/ Browse
  BY <1>4, ReplacingSteps DEF AgreedInv
<1>5. CASE UNCHANGED vars
  BY <1>5 DEF vars, shown, asked, AgreedInv, IsDirty, Snapshot
<1> QED
  BY <1>1, <1>2, <1>3, <1>4, <1>5 DEF Next, Edits, Questions

(* The terminal: a save and an opened file leave what is on the disk.      *)
LEMMA FileStep == TypeInv /\ FileInv /\ [Next]_vars => FileInv'
<1> DEFINE Agrees == /\ Opens(disk[path])
                     /\ saved = Settings(disk[path].settings.rows, TabsOf(disk[path]))
<1> SUFFICES ASSUME TypeInv, FileInv, [Next]_vars, front' = "terminal"
             PROVE  DOMAIN tabs' # {} /\ (path' # None /\ path' \notin torn' => Agrees')
  BY DEF FileInv
<1>1. front = "terminal"
  BY DEF Next, vars, EditRows, EditFilter, OpenMonitor, CloseMonitor, ResetLayout, Edited,
         Save, SaveAs, Request, CloseRequested, AnswerSave, AnswerDiscard, AnswerCancel,
         GoAhead, Browse, Quit
<1>2. DOMAIN tabs # {} /\ (path # None /\ path \notin torn => Agrees)
  BY <1>1 DEF FileInv
<1>3. ASSUME UNCHANGED <<path, saved>>, torn \subseteq torn',
             path # None /\ path \notin torn' => disk'[path] = disk[path]
      PROVE  path' # None /\ path' \notin torn' => Agrees'
  BY <1>1, <1>2, <1>3 DEF Agrees, TabsOf, Restored, OneAtLeast, Opens
<1>4. CASE Edits
  <2>1. UNCHANGED <<disk, path, saved, torn>>
    BY <1>4, EditTypes DEF Edits
  <2>2. DOMAIN tabs' # {}
    <3>1. CASE CloseMonitor
      <4>1. IsFiniteSet(DOMAIN tabs) /\ Cardinality(DOMAIN tabs) > 1
        BY <1>1, <3>1, TabsAreTabs DEF CloseMonitor, Tabs
      <4>2. PICK gone \in DOMAIN tabs : DOMAIN tabs' = DOMAIN tabs \ {gone}
        BY <3>1 DEF CloseMonitor
      <4>3. DOMAIN tabs # {gone}
        BY <4>1, FS_Singleton
      <4> QED
        BY <4>2, <4>3
    <3>2. CASE ~CloseMonitor
      BY <1>2, <1>4, <3>2 DEF Edits, EditRows, EditFilter, OpenMonitor, ResetLayout,
                              RestoreMonitors, OneAtLeast
    <3> QED
      BY <3>1, <3>2
  <2> QED
    BY <1>3, <2>1, <2>2
<1>5. CASE Save \/ SaveAs \/ AnswerSave
  <2>1. PICK p \in Paths, ok \in BOOLEAN : SaveTo(p, ok)
    BY <1>5, SavingSteps
  <2>2. DOMAIN tabs' # {}
    BY <1>2, <2>1 DEF SaveTo, shown
  <2>3. CASE ok
    <3>1. /\ path' = p /\ saved' = Snapshot
          /\ disk'[p] = Text(Snapshot, carried)
      BY <1>1, <2>1, <2>3 DEF SaveTo, WriteFile, TypeInv, DiskTypes
    <3>2. /\ Snapshot.rows = rows
          /\ Settings(Snapshot.rows, OneAtLeast(Snapshot.tabs)) = Snapshot
      BY <1>2, TabsAreTabs, WrittenIsRead DEF Snapshot, Tabs
    <3>3. Opens(disk'[p])
      <4>1. disk' \in [Paths -> Texts \cup {None}] /\ disk'[p].fits
        BY <2>1, <3>1, SaveTypes DEF Text, DiskTypes
      <4>2. disk'[p] # None
        <5>1. Text(Snapshot, carried) \in Texts
          BY <1>1, SavedIsText
        <5> QED
          BY <3>1, <5>1, ProjectAssumption
      <4> QED
        BY <4>1, <4>2 DEF Opens
    <3>4. TabsOf(disk[path])' = OneAtLeast(Snapshot.tabs)
      BY <1>1, <3>1 DEF TabsOf, Restored, Text
    <3> QED
      BY <2>2, <3>1, <3>2, <3>3, <3>4 DEF Text
  <2>4. CASE ~ok
    <3>1. UNCHANGED <<path, saved>>
      BY <1>1, <2>1, <2>4 DEF SaveTo
    <3>2. PICK left : disk' = [disk EXCEPT ![p] = left]
      BY <2>1 DEF SaveTo, WriteFile
    <3>3. torn' = torn \cup {p} \/ (UNCHANGED <<disk, torn>>)
      BY <2>1, <2>4 DEF SaveTo, WriteFile
    <3>4. path # None /\ path \notin torn' => disk'[path] = disk[path]
      BY <3>2, <3>3 DEF TypeInv, DiskTypes
    <3> QED
      BY <1>3, <2>2, <3>1, <3>3, <3>4
  <2> QED
    BY <2>3, <2>4
<1>6. CASE Questions
  BY <1>2, <1>3, <1>6, AskingSteps DEF shown
<1>7. CASE GoAhead \/ Browse
  <2>1. Replaces /\ UNCHANGED disk
    BY <1>7, ReplacingSteps
  <2>2. CASE StartNew
    BY <2>2 DEF StartNew, RestoreMonitors
  <2>3. CASE \E p \in Paths : Open(p) /\ Opens(disk[p])
    <3>1. PICK p \in Paths : Open(p) /\ Opens(disk[p])
      BY <2>3
    <3>2. /\ path' = p /\ tabs' = TabsOf(disk[p]) /\ rows' = disk[p].settings.rows
          /\ saved' = Settings(rows', tabs')
      BY <3>1 DEF Open, RestoreMonitors
    <3>3. DOMAIN tabs' # {}
      BY <1>1, <3>2 DEF TabsOf, OneAtLeast
    <3>4. TabsOf(disk[path])' = TabsOf(disk[p]) /\ Opens(disk[path])'
      BY <1>1, <2>1, <3>1, <3>2 DEF TabsOf, Restored, OneAtLeast, Opens
    <3> QED
      BY <2>1, <3>2, <3>3, <3>4
  <2>4. CASE \E p \in Paths : Open(p) /\ ~Opens(disk[p])
    BY <1>2, <1>3, <2>1, <2>4 DEF Open
  <2>5. CASE UNCHANGED <<shown, path, saved, torn>>
    BY <1>2, <1>3, <2>1, <2>5 DEF shown
  <2> QED
    BY <2>1, <2>2, <2>3, <2>4, <2>5 DEF Replaces
<1>8. CASE UNCHANGED vars
  BY <1>2, <1>3, <1>8 DEF vars, shown
<1> QED
  BY <1>4, <1>5, <1>6, <1>7, <1>8 DEF Next, Edits, Questions

-----------------------------------------------------------------------------
LEMMA ProjectCorrect == Spec => [](TypeInv /\ AgreedInv /\ FileInv)
BY ProjectInit, TypeStep, AgreedStep, FileStep, PTL DEF Spec

(* What the terminal does not mark as edited is what the file would open   *)
(* as, whatever is opened, edited, saved or fails to be, until a write     *)
(* cuts the file itself short (app.rs:1473-1545).                          *)
THEOREM TerminalShowsTheFile == Spec => []TerminalFaithful
<1>1. TypeInv /\ AgreedInv /\ FileInv => TerminalFaithful
  BY DEF FileInv, TerminalFaithful, Faithful, IsDirty
<1> QED
  BY <1>1, ProjectCorrect, PTL

(* The window gives unsaved work up only when told to discard it           *)
(* (docs/projects.md:45).                                                  *)
THEOREM WindowAsksFirst == Spec => AskedFirst
<1>1. TypeInv /\ AgreedInv /\ FileInv /\ [Next]_vars
        => [front = "desktop" /\ GivesUp => leaving \/ (going # None /\ going.discard)]_vars
  <2> SUFFICES ASSUME TypeInv, AgreedInv, [Next]_vars, front = "desktop", GivesUp
               PROVE  leaving \/ (going # None /\ going.discard)
    OBVIOUS
  <2>1. ~Edits
    BY EditTypes DEF Edits, GivesUp
  <2>2. ~(Save \/ SaveAs \/ AnswerSave)
    <3>1. ASSUME Save \/ SaveAs \/ AnswerSave
          PROVE  UNCHANGED <<shown, leaving, open>>
      BY <3>1, SavingSteps, SaveTypes
    <3> QED
      BY <3>1 DEF GivesUp, Snapshot, shown
  <2>3. CASE Questions
    <3>1. UNCHANGED <<shown, leaving, open>> \/ leaving \/ ~IsDirty
      BY <2>3, AskingSteps DEF Questions, Request, CloseRequested, AnswerDiscard, AnswerCancel, Quit
    <3> QED
      BY <3>1 DEF GivesUp, Snapshot, shown
  <2>4. CASE GoAhead \/ Browse
    BY <2>4, ReplacingSteps DEF AgreedInv, GivesUp
  <2>5. CASE UNCHANGED vars
    BY <2>5 DEF GivesUp, Snapshot, vars, shown, asked
  <2> QED
    BY <2>1, <2>2, <2>3, <2>4, <2>5 DEF Next, Edits, Questions
<1> QED
  BY <1>1, ProjectCorrect, PTL DEF Spec, AskedFirst

(* No number of a traffic view is given twice while it shows, and a reset  *)
(* of the layout costs no filter (state.rs:131-132).                       *)
THEOREM NumbersAreFresh == Spec => TabsKept
<1>1. TypeInv /\ AgreedInv /\ FileInv /\ [Next]_vars
        => [OpenMonitor \/ (ResetLayout /\ DOMAIN tabs # {})
             => \A id \in DOMAIN tabs : id \in DOMAIN tabs' /\ tabs'[id] = tabs[id]]_vars
  <2> SUFFICES ASSUME TypeInv, OpenMonitor \/ (ResetLayout /\ DOMAIN tabs # {}),
                      NEW id \in DOMAIN tabs
               PROVE  id \in DOMAIN tabs' /\ tabs'[id] = tabs[id]
    OBVIOUS
  <2>1. CASE OpenMonitor
    <3>1. id \in 0 .. last /\ last' = last + 1 /\ last \in Nat
      BY <2>1 DEF OpenMonitor, TypeInv, ShownTypes
    <3>2. tabs' = [i \in DOMAIN tabs \cup {last'} |-> IF i = last' THEN "none" ELSE tabs[i]]
      BY <2>1 DEF OpenMonitor
    <3> QED
      BY <3>1, <3>2
  <2>2. CASE ResetLayout /\ DOMAIN tabs # {}
    BY <2>2 DEF ResetLayout, RestoreMonitors, OneAtLeast
  <2> QED
    BY <2>1, <2>2
<1> QED
  BY <1>1, ProjectCorrect, PTL DEF Spec, TabsKept
=============================================================================
