------------------------------ MODULE Library -------------------------------
(***************************************************************************)
(* The folder of frames and of the types they share (frames.rs): what the  *)
(* disk holds, the list read from it, the frame and the type being edited, *)
(* and what saving, renaming and deleting rewrite.                         *)
(*                                                                         *)
(* A frame or a type is the fields it has of its own and at most one field *)
(* stated as a shared type, with what that type put under it when it was   *)
(* read.  The name of a definition and the name of its file are two        *)
(* things: case and punctuation are folded away on the way to the disk.    *)
(*                                                                         *)
(* A group of fields names a type in one of its fields; a subtype names    *)
(* the type it narrows.  The two are read alike and rewritten differently. *)
(***************************************************************************)
EXTENDS Integers, Places, SequencesExt

CONSTANTS
  FrameFile,   (* The file each frame name folds to.                       *)
  TypeFile,    (* The same of the type names.                              *)
  FrameFiles,  (* Every file there may be, in the order they are read.     *)
  TypeFiles,
  Paths,       (* Both folders' files in the order a rewrite goes through. *)
  Owns,        (* Fields of its own that an edit may give.                 *)
  Subtypes,    (* The type names that subtypes have; groups have the rest. *)
  Refused,     (* <<own, under>>: fields of one's own that do not go with  *)
               (* what the type named puts under them: a range that is not *)
               (* within, a checksum whose target is not there.            *)
  Folders,     (* What the disk may hold at first.                         *)
  NewFrame, NewType,   (* Names New tries, in order.                       *)
  MaxEdits,    (* Bound: edits of one draft, and of the one underneath it. *)
  MaxChanges,  (* Bound: saves and deletions.                              *)
  MaxFailures, (* Bound: refused writes, moves and removals, and files     *)
               (* someone else removes.                                    *)
  None

FrameNames == DOMAIN FrameFile
TypeNames == DOMAIN TypeFile
Absent == [name |-> None, own |-> <<>>, of |-> None]
Broken == "broken"

IsTypeFile(text) == /\ text \in Seq(ToSet(text))
                    /\ \A d \in ToSet(text) : d.name \in TypeNames
(* A folder as it can be typed in: a file of a frame holds one, a file of   *)
(* types any number of them.                                               *)
IsFolder(d) ==
  /\ d = [frames |-> d.frames, types |-> d.types]
  /\ d.frames = [f \in ToSet(FrameFiles) |-> d.frames[f]]
  /\ d.types = [f \in ToSet(TypeFiles) |-> d.types[f]]
  /\ \A f \in ToSet(FrameFiles) : d.frames[f] # Absent => d.frames[f].name \in FrameNames
  /\ \A f \in ToSet(TypeFiles) : IsTypeFile(d.types[f])

ASSUME LibraryAssumption ==
  /\ FrameFiles \in Seq(ToSet(FrameFiles)) /\ TypeFiles \in Seq(ToSet(TypeFiles))
  /\ \A n \in FrameNames : FrameFile[n] \in ToSet(FrameFiles)
  /\ \A n \in TypeNames : TypeFile[n] \in ToSet(TypeFiles)
  /\ IsFiniteSet(TypeNames)
  /\ None \notin FrameNames \cup TypeNames \cup ToSet(FrameFiles)
  /\ \A o \in Owns : o \in Seq(ToSet(o)) /\ Broken \notin ToSet(o)
  /\ NewFrame \in Seq(FrameNames) \ {<<>>} /\ NewType \in Seq(TypeNames) \ {<<>>}
  /\ Paths \in Seq(ToSet(Paths)) /\ \A i, j \in DOMAIN Paths : Paths[i] = Paths[j] => i = j
  /\ ToSet(Paths) = {<<"frames", f>> : f \in ToSet(FrameFiles)}
                    \cup {<<"types", f>> : f \in ToSet(TypeFiles)}
  /\ ToSet(NewType) \cap Subtypes = {}
  /\ \A r \in Refused : r[2] # <<>>
  /\ {MaxEdits, MaxChanges, MaxFailures} \subseteq Nat
  /\ \A d \in Folders : IsFolder(d)

VARIABLES
  disk,        (* [frames, types]: the text of each file.                  *)
  entries,     (* The frames in the list, each with its file.              *)
  types,       (* The shared types, by name, as they were read.            *)
  typeEntries, (* Those of them that mean something, each with its file.   *)
  draft,       (* The frame being edited, or None.                         *)
  typeDraft,   (* The shared type being edited, or None.                   *)
  emptied,     (* Paths that are there with nothing left in them.          *)
  spoilt,      (* Whether a definition has been taken from under another.  *)
  changes, failures

loaded == <<entries, types, typeEntries>>
drafts == <<draft, typeDraft>>
vars == <<disk, loaded, drafts, emptied, spoilt, changes, failures>>

Holds(d, p) == IF p[1] = "frames" THEN d.frames[p[2]] # Absent ELSE d.types[p[2]] # <<>>
IsThere(p) == Holds(disk, p) \/ p \in emptied
StillEmpty(d) == {p \in emptied : ~Holds(d, p)}

-----------------------------------------------------------------------------
(* What a type puts on the wire through the types it names in turn: more   *)
(* of them than there are names, and it has come back to one of them.  A   *)
(* type that does not go with what it names is good for nothing either.    *)
Beside(own, under) == IF <<own, under>> \in Refused THEN <<Broken>> ELSE own
Under(library, type) ==
  LET under[left \in 0 .. Cardinality(TypeNames)] ==
        [t \in TypeNames \cup {None} |->
          IF t = None THEN <<>>
          ELSE IF left = 0 \/ t \notin DOMAIN library THEN <<Broken>>
          ELSE Beside(library[t].own, under[left - 1][library[t].of])
               \o under[left - 1][library[t].of]]
  IN under[Cardinality(TypeNames)][type]

Instantiates(library, type) == Broken \notin ToSet(Under(library, type))
Agrees(library, body) == <<body.own, Under(library, body.of)>> \notin Refused
Loads(library, body) == Instantiates(library, body.of) /\ Agrees(library, body)
Read(library, body) == [name |-> body.name, own |-> body.own, of |-> body.of,
                        under |-> Under(library, body.of)]
Definition(library, n) == [Read(library, library[n]) EXCEPT !.name = n]
Text(frame) == [name |-> frame.name, own |-> frame.own, of |-> frame.of]
Wire(frame) == frame.own \o frame.under

(* The entry of a file that answers to a name: the first, or 0.             *)
EntryAt(text, name) == SelectInSeq(text, LAMBDA d : d.name = name)

(* One file at a time, in order: one that defines a name again is left     *)
(* there, with what it had given before.                                   *)
Fresh(library, text) ==
  Cardinality({i \in DOMAIN text :
    /\ \A k \in 1 .. i : text[k].name \notin DOMAIN library
    /\ \A j, k \in 1 .. i : text[j].name = text[k].name => j = k})
With(library, text) ==
  LET taken == SubSeq(text, 1, Fresh(library, text))
  IN [n \in DOMAIN library \cup {taken[i].name : i \in DOMAIN taken} |->
       IF n \in DOMAIN library THEN library[n] ELSE taken[EntryAt(taken, n)]]
Merge(files, order) ==
  LET merged[i \in 0 .. Len(order)] ==
        IF i = 0 THEN <<>> ELSE With(merged[i - 1], files[order[i]])
  IN merged[Len(order)]

(* A file on its own, when it says no name twice, for the types it holds.  *)
Attributed(files, library) ==
  UNION {{[file |-> f, def |-> Definition(library, n)] :
      n \in {m \in DOMAIN library :
        LET text == files[f]
        IN /\ \E i \in DOMAIN text : text[i].name = m
           /\ \A i, j \in DOMAIN text : text[i].name = text[j].name => i = j
           /\ Loads(library, library[m])}} :
    f \in ToSet(TypeFiles)}

ReadFrames(files, library) ==
  {[file |-> f, frame |-> Read(library, files[f])] :
     f \in {g \in ToSet(FrameFiles) : files[g] # Absent /\ Loads(library, files[g])}}

LoadFrom(d) ==
  LET library == Merge(d.types, TypeFiles)
  IN /\ types' = library
     /\ typeEntries' = Attributed(d.types, library)
     /\ entries' = ReadFrames(d.frames, library)

Init == /\ disk \in Folders
        /\ types = Merge(disk.types, TypeFiles)
        /\ typeEntries = Attributed(disk.types, types)
        /\ entries = ReadFrames(disk.frames, types)
        /\ draft = None /\ typeDraft = None /\ emptied = {} /\ spoilt = FALSE
        /\ changes = 0 /\ failures = 0

Idle == draft = None /\ typeDraft = None

Reload == Idle /\ LoadFrom(disk)
          /\ UNCHANGED <<disk, drafts, emptied, spoilt, changes, failures>>

Changing == changes < MaxChanges /\ changes' = changes + 1
Failing == failures < MaxFailures /\ failures' = failures + 1

-----------------------------------------------------------------------------
(* The frame.                                                              *)
Editing(d) ==
  draft' = d /\ UNCHANGED <<disk, loaded, typeDraft, emptied, spoilt, changes, failures>>

BeginEdit == \E e \in entries :
  /\ Idle
  /\ Editing([frame |-> e.frame, edits |-> 0,
              origin |-> IF IsThere(<<"frames", e.file>>) THEN e.file ELSE None])

FreeFrameName(n) ==
  /\ \A e \in entries : e.frame.name # n /\ e.file # FrameFile[n]
  /\ ~IsThere(<<"frames", FrameFile[n]>>)
BeginNew ==
  LET free == SelectInSeq(NewFrame, FreeFrameName)
  IN /\ Idle
     /\ Editing([frame |-> [name |-> NewFrame[IF free = 0 THEN 1 ELSE free],
                            own |-> <<"byte">>, of |-> None, under |-> <<>>],
                 edits |-> 0, origin |-> None])

CancelEdit == draft # None /\ typeDraft = None /\ Editing(None)

EditFrame ==
  LET changed == [draft EXCEPT !.edits = @ + 1]
  IN /\ draft # None /\ typeDraft = None /\ draft.edits < MaxEdits
     /\ \/ \E n \in FrameNames : Editing([changed EXCEPT !.frame.name = n])
        \/ \E own \in Owns : Editing([changed EXCEPT !.frame.own = own])
        \/ \E e \in typeEntries :
             Editing([changed EXCEPT !.frame.of = e.def.name,
                                     !.frame.under = Under(types, e.def.name)])

Dirty == \A e \in entries : e.file = draft.origin => e.frame # draft.frame

NameTaken == \E e \in entries : e.frame.name = draft.frame.name /\ e.file # draft.origin
FileTaken ==
  LET wanted == FrameFile[draft.frame.name]
  IN wanted # draft.origin
     /\ (IsThere(<<"frames", wanted>>) \/ \E e \in entries : e.file = wanted)
(* Written out and read back, it has to be the frame that is shown.        *)
Savable == /\ Read(types, Text(draft.frame)) = draft.frame /\ Loads(types, draft.frame)
           /\ ~NameTaken /\ ~FileTaken

(* Mutant: the entry a renamed frame came from stays in the list.          *)
TakeInBeside(file, d) ==
  entries' = {e \in entries : e.file # file} \cup {[file |-> file, frame |-> d.frame]}
TakeIn(file, d) ==
  entries' = {e \in entries : e.file \notin {file, d.origin}}
             \cup {[file |-> file, frame |-> d.frame]}

(* Written where it was and moved after, when its name has changed.  A     *)
(* write that fails leaves the file as it was, or with nothing in it.      *)
SaveDraft ==
  LET wanted == FrameFile[draft.frame.name]
      home == IF draft.origin = None THEN wanted ELSE draft.origin
      written == [disk.frames EXCEPT ![home] = Text(draft.frame)]
      left == emptied \ {<<"frames", home>>}
  IN /\ draft # None /\ typeDraft = None /\ Dirty /\ Savable /\ Changing
     /\ \/ /\ disk' = [disk EXCEPT !.frames =
                        [written EXCEPT ![home] = Absent, ![wanted] = Text(draft.frame)]]
           /\ TakeIn(wanted, draft) /\ draft' = None
           /\ emptied' = left \ {<<"frames", wanted>>}
           /\ UNCHANGED <<types, typeEntries, failures>>
        \/ /\ Failing /\ UNCHANGED <<loaded, draft>>
           /\ \/ UNCHANGED <<disk, emptied>>
              \/ /\ disk' = [disk EXCEPT !.frames[home] = Absent]
                 /\ emptied' = emptied \cup {<<"frames", home>>}
              \/ /\ wanted # home /\ disk' = [disk EXCEPT !.frames = written]
                 /\ emptied' = left
     /\ UNCHANGED <<typeDraft, spoilt>>

(* Someone else's hand.                                                     *)
RemovedOutside == \E e \in entries :
  /\ Failing /\ disk.frames[e.file] # Absent
  /\ disk' = [disk EXCEPT !.frames[e.file] = Absent]
  /\ UNCHANGED <<loaded, drafts, emptied, spoilt, changes>>

DeleteSelected == \E e \in entries :
  /\ Idle /\ Changing
  /\ \/ /\ disk' = [disk EXCEPT !.frames[e.file] = Absent]
        /\ entries' = {held \in entries : held.file # e.file}
        /\ emptied' = emptied \ {<<"frames", e.file>>}
        /\ UNCHANGED <<types, typeEntries, failures>>
     \/ Failing /\ UNCHANGED <<disk, loaded, emptied>>
  /\ UNCHANGED <<drafts, spoilt>>

-----------------------------------------------------------------------------
(* The shared types.                                                       *)
EditingType(d) ==
  typeDraft' = d /\ UNCHANGED <<disk, loaded, draft, emptied, spoilt, changes, failures>>

EditsBelow == IF draft = None THEN 0 ELSE draft.edits

(* From the list of types, or from a field of the frame underneath.        *)
BeginTypeEdit == \E e \in typeEntries :
  /\ typeDraft = None
  /\ draft # None => draft.frame.of = e.def.name
  /\ EditingType([def |-> e.def, forField |-> FALSE, passed |-> FALSE, edits |-> EditsBelow,
                  origin |-> [file |-> e.file, name |-> e.def.name]])

FreeTypeName(n) ==
  /\ \A e \in typeEntries : e.def.name # n /\ e.file # TypeFile[n]
  /\ ~IsThere(<<"types", TypeFile[n]>>)
BeginNewType ==
  LET free == SelectInSeq(NewType, FreeTypeName)
  IN /\ typeDraft = None
     /\ EditingType([def |-> [name |-> NewType[IF free = 0 THEN 1 ELSE free],
                              own |-> <<>>, of |-> None, under |-> <<>>],
                     forField |-> draft # None, passed |-> FALSE,
                     edits |-> EditsBelow, origin |-> None])

CancelTypeEdit == typeDraft # None /\ EditingType(None)

(* A subtype is given a range or a scalar to narrow, and the whole of its  *)
(* range; a group of fields is given a field of some type.                 *)
EditType ==
  LET changed == [typeDraft EXCEPT !.edits = @ + 1, !.passed = FALSE]
  IN /\ typeDraft # None /\ typeDraft.edits < MaxEdits
     /\ \/ \E n \in TypeNames :
             /\ n \in Subtypes <=> typeDraft.def.name \in Subtypes
             /\ EditingType([changed EXCEPT !.def.name = n])
        \/ \E own \in Owns : EditingType([changed EXCEPT !.def.own = own])
        \/ \E own \in Owns :
             /\ typeDraft.def.name \in Subtypes
             /\ EditingType([changed EXCEPT !.def = [@ EXCEPT !.own = own, !.of = None,
                                                              !.under = <<>>]])
        \/ \E e \in typeEntries :
             /\ e.def.name # typeDraft.def.name /\ typeDraft.def.name \notin Subtypes
             /\ EditingType([changed EXCEPT !.def.of = e.def.name,
                                            !.def.under = Under(types, e.def.name)])

WasNamed == IF typeDraft.origin = None THEN typeDraft.def.name ELSE typeDraft.origin.name
Renamed == WasNamed # typeDraft.def.name

TypeDirty == \A e \in typeEntries : (typeDraft.origin # None /\ e.def.name = WasNamed)
                                    => e.def # typeDraft.def

(* A type written over the entry that answers to a name, or after them.    *)
Put(text, name, def) ==
  IF EntryAt(text, name) = 0 THEN Append(text, def) ELSE [text EXCEPT ![EntryAt(text, name)] = def]

Retype(body, was, now) == IF body.of = was THEN [body EXCEPT !.of = now] ELSE body
InlineIn(body) == [body EXCEPT !.own = Wire(body), !.of = None, !.under = <<>>]

Changed(body, was, now) == IF now = None THEN InlineIn(body) ELSE Retype(body, was, now)

(* Every type and every frame naming the type, made to name another or,    *)
(* given none, written out in full.  A subtype is not among them: only     *)
(* fields are looked at for the type they name.                            *)
Using(kind) == {e \in entries : e.frame.of = kind}
(* Mutant: the types naming the one that changes are left as they are.     *)
NoTypes(kind) == {e \in typeEntries : FALSE}
UsingTypes(kind) ==
  {e \in typeEntries : e.def.of = kind /\ e.def.name # kind /\ e.def.name \notin Subtypes}
Narrowing(kind) ==
  {e \in typeEntries : e.def.of = kind /\ e.def.name # kind /\ e.def.name \in Subtypes}
(* The text a rewrite starts from has to be there.                         *)
Readable(kind) == \A e \in Using(kind) : IsThere(<<"frames", e.file>>)
Cascade(kind, now) ==
  [frames |-> [f \in ToSet(FrameFiles) |->
     IF \E e \in Using(kind) : e.file = f
     THEN Text(Changed((CHOOSE e \in Using(kind) : e.file = f).frame, kind, now))
     ELSE disk.frames[f]],
   types |-> [f \in ToSet(TypeFiles) |->
     LET text == disk.types[f]
         here == {Changed(e.def, kind, now) : e \in {u \in UsingTypes(kind) : u.file = f}}
         gone == {Text(d) : d \in {b \in here : EntryAt(text, b.name) = 0}}
     IN [i \in DOMAIN text |->
          IF \E d \in here : EntryAt(text, d.name) = i
          THEN Text(CHOOSE d \in here : EntryAt(text, d.name) = i) ELSE text[i]]
        \o SetToSeq(gone)]]

PendingForTypeDraft ==
  LET now == typeDraft.def.name
      moved == IF Renamed THEN Cascade(WasNamed, now) ELSE disk
      file == IF typeDraft.origin = None THEN TypeFile[now] ELSE typeDraft.origin.file
  IN [moved EXCEPT !.types[file] =
       IF typeDraft.origin = None THEN <<Text(typeDraft.def)>>
       ELSE Put(@, WasNamed, Text(typeDraft.def))]

(* What an edit does to the rest, its name aside: a frame that would stop  *)
(* loading is warned of and no more, a type is not even warned of.         *)
Breaks ==
  LET revised == [types EXCEPT ![WasNamed] = Text(typeDraft.def)]
  IN /\ typeDraft.origin # None
     /\ \/ \E e \in entries : ~Loads(revised, e.frame)
        \/ \E e \in typeEntries : e.def.name # WasNamed /\ ~Loads(revised, e.def)

(* Worked out once per change of the draft, and kept until the next one.   *)
TypeProblem ==
  LET def == typeDraft.def
      there == {i \in DOMAIN TypeFiles : IsThere(<<"types", TypeFiles[i]>>)}
      (* A file nothing has written yet is read after those that are there. *)
      order == At(TypeFiles, there) \o At(TypeFiles, DOMAIN TypeFiles \ there)
      candidate == Merge(PendingForTypeDraft.types, order)
  IN \/ \E e \in typeEntries :
          e.def.name = def.name /\ (typeDraft.origin = None \/ Renamed)
     \/ def.name \notin Subtypes /\ def.own = <<>> /\ def.of = None
     \/ /\ typeDraft.origin = None
        /\ \/ IsThere(<<"types", TypeFile[def.name]>>)
           \/ \E e \in typeEntries : e.file = TypeFile[def.name]
     \/ Renamed /\ ~Readable(WasNamed)
     \/ def.name \notin DOMAIN candidate
     \/ ~Loads(candidate, def)
     \/ Definition(candidate, def.name) # def

(* Every frame about to be rewritten still encodes the same bytes.         *)
WireSurvives(pending, kind) ==
  LET candidate == Merge(pending.types, TypeFiles)
  IN \A e \in Using(kind) :
       LET text == pending.frames[e.file]
       IN Loads(candidate, text) /\ Wire(Read(candidate, text)) = Wire(e.frame)

(* One path after the other, up to the one that fails: it is left as it    *)
(* was, or with nothing in it.                                             *)
Differs(pending, p) == IF p[1] = "frames" THEN pending.frames[p[2]] # disk.frames[p[2]]
                       ELSE pending.types[p[2]] # disk.types[p[2]]
FirstOf(pending, k) ==
  [frames |-> [f \in ToSet(FrameFiles) |->
     IF \E i \in 1 .. k : Paths[i] = <<"frames", f>> THEN pending.frames[f] ELSE disk.frames[f]],
   types |-> [f \in ToSet(TypeFiles) |->
     IF \E i \in 1 .. k : Paths[i] = <<"types", f>> THEN pending.types[f] ELSE disk.types[f]]]
Cleared(d, p) == IF p[1] = "frames" THEN [d EXCEPT !.frames[p[2]] = Absent]
                 ELSE [d EXCEPT !.types[p[2]] = <<>>]
WriteFails(pending) == \E k \in 0 .. Len(Paths) - 1 :
  LET first == FirstOf(pending, k)
      failing == Paths[k + 1]
  IN /\ Differs(pending, failing)
     /\ \/ disk' = first /\ emptied' = StillEmpty(first)
        \/ disk' = Cleared(first, failing) /\ emptied' = StillEmpty(first) \cup {failing}

(* Mutant: the file is moved whether or not another has the place.         *)
MoveOver(d) ==
  LET from == typeDraft.origin.file
      to == TypeFile[typeDraft.def.name]
  IN IF typeDraft.origin = None \/ ~Renamed
        \/ Cardinality({e \in typeEntries : e.file = from}) # 1 \/ to = from
     THEN d ELSE [d EXCEPT !.types[to] = d.types[from], !.types[from] = <<>>]
(* A file holding this type alone goes by its new name.                    *)
MoveTypeFile(d) ==
  LET from == typeDraft.origin.file
      to == TypeFile[typeDraft.def.name]
  IN IF typeDraft.origin = None \/ ~Renamed
        \/ Cardinality({e \in typeEntries : e.file = from}) # 1
        \/ to = from \/ d.types[to] # <<>> \/ <<"types", to>> \in emptied
     THEN d
     ELSE [d EXCEPT !.types[to] = d.types[from], !.types[from] = <<>>]

(* The frame waiting underneath, its type asked for again.                 *)
Refreshed(d, library) ==
  IF d # None /\ d.frame.of # None /\ Instantiates(library, d.frame.of)
  THEN [d EXCEPT !.frame.under = Under(library, d.frame.of)] ELSE d

HeldRetyped ==
  IF draft # None /\ Renamed
  THEN [draft EXCEPT !.frame = Retype(@, WasNamed, typeDraft.def.name)] ELSE draft

(* The panel asks at every repaint, and is told what it was told before.   *)
ReviewType ==
  /\ typeDraft # None /\ ~typeDraft.passed /\ ~TypeProblem
  /\ EditingType([typeDraft EXCEPT !.passed = TRUE])

SaveTypeDraft ==
  LET pending == PendingForTypeDraft
      after == MoveTypeFile(pending)
      library == Merge(after.types, TypeFiles)
      goes == ~Renamed \/ (Readable(WasNamed) /\ WireSurvives(pending, WasNamed))
      given == IF typeDraft.forField /\ Instantiates(library, typeDraft.def.name)
               THEN [HeldRetyped EXCEPT !.frame.of = typeDraft.def.name]
               ELSE HeldRetyped
  IN /\ typeDraft # None /\ TypeDirty /\ (typeDraft.passed \/ ~TypeProblem) /\ Changing
     /\ \/ /\ goes /\ disk' = after /\ LoadFrom(after)
           /\ emptied' = StillEmpty(pending) \cap StillEmpty(after)
           /\ draft' = Refreshed(given, library) /\ typeDraft' = None
           /\ spoilt' = (spoilt \/ Breaks \/ (Renamed /\ Narrowing(WasNamed) # {}))
           /\ UNCHANGED failures
        \/ /\ ~goes
           /\ draft' = HeldRetyped /\ typeDraft' = [typeDraft EXCEPT !.passed = TRUE]
           /\ UNCHANGED <<disk, loaded, emptied, spoilt, failures>>
        \/ /\ goes /\ Failing
           /\ \/ WriteFails(pending)
              \/ after # pending /\ disk' = pending /\ emptied' = StillEmpty(pending)
           /\ draft' = HeldRetyped /\ typeDraft' = [typeDraft EXCEPT !.passed = TRUE]
           /\ UNCHANGED <<loaded, spoilt>>

(* The panel offers it with nothing open; a frame that is open underneath  *)
(* has the type written out in full as well.                               *)
DeleteSelectedType == \E e \in typeEntries :
  LET kind == e.def.name
      inlined == Cascade(kind, None)
      text == inlined.types[e.file]
      pending == [inlined EXCEPT !.types[e.file] =
                   At(text, {i \in DOMAIN text : text[i].name # kind})]
      library == Merge(pending.types, TypeFiles)
      goes == Readable(kind) /\ WireSurvives(pending, kind)
      held == IF draft # None /\ draft.frame.of = kind
              THEN [draft EXCEPT !.frame = InlineIn(@)] ELSE draft
  IN /\ typeDraft = None /\ Changing /\ UNCHANGED typeDraft
     /\ \/ /\ goes /\ disk' = pending /\ LoadFrom(pending)
           /\ emptied' = StillEmpty(pending) \ {<<"types", e.file>>}
           /\ draft' = Refreshed(held, library)
           /\ spoilt' = (spoilt \/ Narrowing(kind) # {}) /\ UNCHANGED failures
        \/ ~goes /\ UNCHANGED <<disk, loaded, draft, emptied, spoilt, failures>>
        \/ /\ goes /\ Failing
           /\ \/ WriteFails(pending)
              \/ /\ pending.types[e.file] = <<>> /\ disk' = pending
                 /\ emptied' = StillEmpty(pending) \cup {<<"types", e.file>>}
           /\ UNCHANGED <<loaded, draft, spoilt>>

Next == \/ Reload \/ BeginEdit \/ BeginNew \/ CancelEdit \/ EditFrame \/ SaveDraft
        \/ RemovedOutside \/ DeleteSelected \/ BeginTypeEdit \/ BeginNewType \/ CancelTypeEdit
        \/ EditType \/ ReviewType \/ SaveTypeDraft \/ DeleteSelectedType
Spec == Init /\ [][Next]_vars

-----------------------------------------------------------------------------
(* Properties.                                                             *)

(* What the panel lists is what the folder holds: as long as no write was  *)
(* refused and nobody else removed anything, reading the folder again      *)
(* would give the very list that saves, renames and deletions have patched *)
(* (take_in, the reload after a type is saved).                            *)
ListIsDisk ==
  failures = 0 => LET library == Merge(disk.types, TypeFiles)
                  IN /\ types = library
                     /\ typeEntries = Attributed(disk.types, library)
                     /\ entries = ReadFrames(disk.frames, library)

(* What follows is promised for as long as nobody has saved a type that    *)
(* what names it cannot do with, which nothing refuses, nor renamed or     *)
(* deleted one that a subtype narrows, which no rewrite reaches.           *)
Unspoilt == failures = 0 /\ ~spoilt

(* Scenarios and values name the frame they are for: no two files on the   *)
(* disk answer to one name, whichever way they were named and moved.       *)
OneName(files) == \A f, g \in ToSet(FrameFiles) :
  (files[f] # Absent /\ files[f].name = files[g].name) => f = g
NamesUnique == Unspoilt => OneName(disk.frames)

(* A frame that loads goes on loading, whatever becomes of the types it    *)
(* reaches: no renaming and no deletion, no move of a file and no edit     *)
(* that agrees with what names the type leaves a file that no list shows,  *)
(* whose name nobody would see was taken.                                  *)
FramesLoad == Unspoilt =>
  \A f \in ToSet(FrameFiles) : disk.frames[f] # Absent => Loads(types, disk.frames[f])

(* A sound folder: no type is said twice, each is made of what means       *)
(* something, and every type and every frame names a type that is there,   *)
(* if any, along a chain that comes to an end, and agrees with it.         *)
Run(s) == s \in Seq(ToSet(s)) /\ Broken \notin ToSet(s)
WellMade(body) == Run(body.own) /\ body.of \in TypeNames \cup {None}
Said(files) == UNION {ToSet(files[f]) : f \in ToSet(TypeFiles)}
SaidOnce(files) ==
  \A f, g \in ToSet(TypeFiles) : \A i \in DOMAIN files[f], j \in DOMAIN files[g] :
    files[f][i].name = files[g][j].name => f = g /\ i = j
Grounded(library) ==
  /\ \A n \in DOMAIN library : library[n].of \in DOMAIN library \cup {None}
  /\ \A S \in SUBSET DOMAIN library : S # {} => \E n \in S : library[n].of \notin S
Agreed(library) == \A n \in DOMAIN library : Agrees(library, library[n])
Sound(d) ==
  /\ SaidOnce(d.types)
  /\ \A b \in Said(d.types) : WellMade(b)
  /\ Grounded(Merge(d.types, TypeFiles)) /\ Agreed(Merge(d.types, TypeFiles))
  /\ \A f \in ToSet(FrameFiles) : d.frames[f] # Absent =>
       /\ WellMade(d.frames[f]) /\ Agrees(Merge(d.types, TypeFiles), d.frames[f])
       /\ d.frames[f].of \in DOMAIN Merge(d.types, TypeFiles) \cup {None}
DiskSound == Unspoilt => Sound(disk)

(* The list is the folder, and the folder is sound: one file a name, one   *)
(* definition a type, and nothing that does not load                       *)
(* (frames.rs:323-361, 598-743, 1101-1143).                                *)
LibraryHolds == ListIsDisk /\ NamesUnique /\ FramesLoad /\ DiskSound

(* A save that goes through takes no other definition with it, whatever    *)
(* the names fold to and whatever failed before: but for the one that is   *)
(* saved, every frame's file says what it said when a frame is saved.      *)
(* When a type is, every frame's file still holds a frame, of its name or  *)
(* of the name it is listed under, and every file of types the names it    *)
(* held, at their places, unless the whole of it has been moved.           *)
FrameSaved == /\ changes' # changes /\ draft # None /\ draft' = None /\ typeDraft = None
              /\ UNCHANGED <<typeEntries, failures>>
TypeSaved == /\ changes' # changes /\ typeDraft # None /\ typeDraft' = None
             /\ UNCHANGED failures
ListedIn(f) == {e.frame.name : e \in {listed \in entries : listed.file = f}}
SavedOver(f, i) == /\ typeDraft.origin # None /\ f = typeDraft.origin.file
                   /\ i = EntryAt(disk.types[f], WasNamed)
NothingLost == [][
  /\ FrameSaved =>
       /\ disk'.types = disk.types
       /\ \A f \in ToSet(FrameFiles) \ {draft.origin} :
            disk.frames[f] # Absent => disk'.frames[f] = disk.frames[f]
  /\ TypeSaved =>
       /\ \A f \in ToSet(FrameFiles) : disk.frames[f] # Absent =>
            /\ disk'.frames[f] # Absent
            /\ disk'.frames[f].name \in {disk.frames[f].name} \cup ListedIn(f)
       /\ \A f \in ToSet(TypeFiles) : \E g \in {f, TypeFile[typeDraft.def.name]} :
            \A i \in DOMAIN disk.types[f] :
              /\ i \in DOMAIN disk'.types[g]
              /\ SavedOver(f, i) \/ disk'.types[g][i].name = disk.types[f][i].name]_vars

(* Renaming a type and doing nothing else to it, or deleting it, leaves    *)
(* every frame that was loaded loading, as the same bytes: those that name *)
(* the type, and those that reach it through another one.                  *)
OnlyRenames == typeDraft # None /\ typeDraft.origin # None
               /\ \E e \in typeEntries :
                    /\ e.def.name = WasNamed
                    /\ [e.def EXCEPT !.name = typeDraft.def.name] = typeDraft.def
SentAlike == \A e \in entries : disk'.frames[e.file] # Absent
               => \E now \in entries' : now.file = e.file /\ Wire(now.frame) = Wire(e.frame)
WireKept ==
  [][(changes' # changes /\ Unspoilt /\ Unspoilt' /\ ~FrameSaved
      /\ (typeDraft = None \/ OnlyRenames)) => SentAlike]_vars

(* "Every frame and every other type that used it keeps the fields it      *)
(* produced, written in place of the declaration that produced them."      *)
(* (frames.rs:802-804, of a type that is deleted)                          *)
UsersKeepTheFields ==
  [][(changes' # changes /\ Idle /\ failures = 0 /\ failures' = 0) => SentAlike]_vars

(* "The frame waiting underneath still calls the type by the name it had   *)
(* when it was opened. Renaming the type on disk without telling it would  *)
(* leave it naming something that no longer exists." (frames.rs:680-682)   *)
DraftNamesWhatExists ==
  (failures = 0 /\ draft # None /\ draft.frame.of # None) => draft.frame.of \in DOMAIN types
=============================================================================
