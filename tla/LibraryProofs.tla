---------------------------- MODULE LibraryProofs ---------------------------
(***************************************************************************)
(* The folder of frames and types: proofs for any files, any names and any *)
(* way the names fold to files, whatever is edited, written, moved or      *)
(* refused half way.                                                       *)
(***************************************************************************)
EXTENDS Library, SequenceTheorems

(* A frame or a type that answers to one of these names.                   *)
Named(body, names) ==
  /\ body = [name |-> body.name, own |-> body.own, of |-> body.of, under |-> body.under]
  /\ body.name \in names

DraftTyped(d) == d # None =>
  /\ d = [frame |-> d.frame, edits |-> d.edits, origin |-> d.origin]
  /\ Named(d.frame, FrameNames)
  /\ d.origin \in ToSet(FrameFiles) \cup {None}

(* A type opened for a field of the frame underneath is a new one.         *)
TypeDraftTyped(d) == d # None =>
  /\ d = [def |-> d.def, forField |-> d.forField, passed |-> d.passed,
          edits |-> d.edits, origin |-> d.origin]
  /\ Named(d.def, TypeNames)
  /\ d.forField \in BOOLEAN /\ d.passed \in BOOLEAN
  /\ d.origin # None => d.origin.file \in ToSet(TypeFiles)
  /\ d.forField => d.origin = None

FramesListed(list) ==
  \A e \in list : e.file \in ToSet(FrameFiles) /\ Named(e.frame, FrameNames)
TypesListed(list) ==
  /\ IsFiniteSet(list)
  /\ \A e \in list : e.file \in ToSet(TypeFiles) /\ Named(e.def, TypeNames)

(* A new type is written again only where there is nothing yet.            *)
Rewritable ==
  (typeDraft # None /\ typeDraft.passed /\ typeDraft.origin = None)
  => disk.types[TypeFile[typeDraft.def.name]] = <<>>

TypeInv ==
  /\ IsFolder(disk) /\ failures \in Nat
  /\ FramesListed(entries) /\ TypesListed(typeEntries)
  /\ DraftTyped(draft) /\ TypeDraftTyped(typeDraft)
  /\ typeDraft # None => (typeDraft.forField => draft # None)
  /\ Rewritable /\ spoilt \in BOOLEAN

-----------------------------------------------------------------------------
(* Type files.                                                             *)

LEMMA RangeHolds ==
  ASSUME NEW S, NEW s \in Seq(S)
  PROVE  /\ s \in Seq(ToSet(s)) /\ ToSet(s) \subseteq S
         /\ DOMAIN s = 1 .. Len(s) /\ Len(s) \in Nat
<1>1. DOMAIN s = 1 .. Len(s) /\ Len(s) \in Nat /\ \A i \in 1 .. Len(s) : s[i] \in S
  OBVIOUS
<1>2. s = [i \in 1 .. Len(s) |-> s[i]]
  OBVIOUS
<1>3. \A i \in 1 .. Len(s) : s[i] \in ToSet(s)
  BY <1>1 DEF ToSet
<1> QED
  BY <1>1, <1>2, <1>3 DEF ToSet

LEMMA FileOfNamed ==
  ASSUME NEW S, NEW s \in Seq(S), \A d \in S : d.name \in TypeNames
  PROVE  IsTypeFile(s) /\ DOMAIN s = 1 .. Len(s) /\ Len(s) \in Nat
BY RangeHolds DEF IsTypeFile

LEMMA FileHolds ==
  ASSUME NEW s, IsTypeFile(s)
  PROVE  /\ s \in Seq(ToSet(s)) /\ DOMAIN s = 1 .. Len(s) /\ Len(s) \in Nat
         /\ \A i \in DOMAIN s : s[i] \in ToSet(s) /\ s[i].name \in TypeNames
<1>1. s \in Seq(ToSet(s)) /\ \A d \in ToSet(s) : d.name \in TypeNames
  BY DEF IsTypeFile
<1>2. DOMAIN s = 1 .. Len(s) /\ Len(s) \in Nat
  BY <1>1
<1>3. \A i \in DOMAIN s : s[i] \in ToSet(s)
  BY DEF ToSet
<1> QED
  BY <1>1, <1>2, <1>3

LEMMA EmptyFile == IsTypeFile(<<>>) /\ Len(<<>>) = 0
<1>1. <<>> \in Seq(ToSet(<<>>)) /\ Len(<<>>) = 0
  BY EmptySeq, Zenon
<1>2. \A d \in ToSet(<<>>) : d.name \in TypeNames
  BY DEF ToSet
<1> QED
  BY <1>1, <1>2, Zenon DEF IsTypeFile

LEMMA OneEntry ==
  ASSUME NEW d, d.name \in TypeNames
  PROVE  IsTypeFile(<<d>>) /\ Len(<<d>>) = 1
<1> DEFINE S == {d}
<1>1. d \in S /\ \A b \in S : b.name \in TypeNames
  OBVIOUS
<1> HIDE DEF S
<1>2. <<d>> \in Seq(S) /\ Len(<<d>>) = 1
  BY <1>1
<1>3. IsTypeFile(<<d>>)
  BY <1>1, <1>2, FileOfNamed, Zenon
<1> QED
  BY <1>2, <1>3

LEMMA EntryIsThere ==
  ASSUME NEW s, IsTypeFile(s), NEW name
  PROVE  /\ EntryAt(s, name) \in 0 .. Len(s)
         /\ EntryAt(s, name) # 0 => s[EntryAt(s, name)].name = name
<1> DEFINE places == {i \in 1 .. Len(s) : s[i].name = name}
<1>1. EntryAt(s, name) = IF places # {} THEN Min(places) ELSE 0
  BY DEF EntryAt, SelectInSeq
<1>2. Len(s) \in Nat
  BY FileHolds
<1>3. places \in SUBSET Nat
  BY <1>2
<1>4. CASE places # {}
  <2>1. Min(places) \in places
    BY <1>3, <1>4, MinIsThere
  <2> QED
    BY <1>1, <1>2, <1>4, <2>1
<1>5. CASE places = {}
  BY <1>1, <1>2, <1>5
<1> QED
  BY <1>4, <1>5

LEMMA SetToSeqKeeps ==
  ASSUME NEW S, IsFiniteSet(S)
  PROVE  SetToSeq(S) \in Seq(S)
<1> DEFINE n == Cardinality(S)
<1>1. n \in Nat /\ ExistsBijection(1 .. n, S)
  BY FS_CardinalityType
<1>2. PICK f \in Bijection(1 .. n, S) : TRUE
  BY <1>1 DEF ExistsBijection
<1>3. f \in [1 .. n -> S] /\ IsInjective(f)
  BY <1>2 DEF Bijection, Injection, Surjection, IsInjective
<1>4. SetToSeq(S) \in [1 .. n -> S]
  BY <1>3 DEF SetToSeq, IsInjective
<1> QED
  BY <1>1, <1>4

(* A type put into a file replaces one entry or comes after them all.      *)
LEMMA PutKeeps ==
  ASSUME NEW s, IsTypeFile(s), NEW name, NEW def, def.name \in TypeNames
  PROVE  /\ IsTypeFile(Put(s, name, def))
         /\ \A i \in DOMAIN s :
              /\ i \in DOMAIN Put(s, name, def)
              /\ i # EntryAt(s, name) => Put(s, name, def)[i] = s[i]
<1> DEFINE S == ToSet(s) \cup {def}
<1>1. s \in Seq(S) /\ DOMAIN s = 1 .. Len(s) /\ Len(s) \in Nat
  <2>1. s \in Seq(ToSet(s)) /\ DOMAIN s = 1 .. Len(s) /\ Len(s) \in Nat
    BY FileHolds
  <2>2. ToSet(s) \subseteq S
    OBVIOUS
  <2> QED
    BY <2>1, <2>2
<1>2. \A d \in S : d.name \in TypeNames
  BY DEF IsTypeFile
<1>3. EntryAt(s, name) \in 0 .. Len(s)
  BY EntryIsThere
<1>4. def \in S
  OBVIOUS
<1> HIDE DEF S
<1>5. CASE EntryAt(s, name) = 0
  <2>1. Put(s, name, def) = Append(s, def)
    BY <1>5 DEF Put
  <2>2. /\ Append(s, def) \in Seq(S) /\ Len(Append(s, def)) = Len(s) + 1
        /\ \A i \in 1 .. Len(s) : Append(s, def)[i] = s[i]
    BY <1>1, <1>4
  <2>3. IsTypeFile(Put(s, name, def))
    BY <1>2, <2>1, <2>2, FileOfNamed, Zenon
  <2>4. DOMAIN Put(s, name, def) = 1 .. Len(s) + 1
    BY <1>1, <2>1, <2>2
  <2> QED
    BY <1>1, <2>1, <2>2, <2>3, <2>4
<1>6. CASE EntryAt(s, name) # 0
  <2>1. Put(s, name, def) = [s EXCEPT ![EntryAt(s, name)] = def]
    BY <1>6 DEF Put
  <2>2. [s EXCEPT ![EntryAt(s, name)] = def] \in Seq(S)
        /\ Len([s EXCEPT ![EntryAt(s, name)] = def]) = Len(s)
    BY <1>1, <1>3, <1>4, <1>6
  <2>4. /\ DOMAIN [s EXCEPT ![EntryAt(s, name)] = def] = DOMAIN s
        /\ \A i \in DOMAIN s : i # EntryAt(s, name)
                               => [s EXCEPT ![EntryAt(s, name)] = def][i] = s[i]
    OBVIOUS
  <2>3. IsTypeFile(Put(s, name, def))
    BY <1>2, <2>1, <2>2, FileOfNamed, Zenon
  <2> QED
    BY <2>1, <2>3, <2>4
<1> QED
  BY <1>5, <1>6

-----------------------------------------------------------------------------
(* Where a folder holds types: finitely many places.                       *)
TypesHeld(d) == UNION {{f} \X DOMAIN d.types[f] : f \in ToSet(TypeFiles)}

LEMMA FilesFinite ==
  IsFiniteSet(ToSet(FrameFiles)) /\ IsFiniteSet(ToSet(TypeFiles))
<1>1. ASSUME NEW S, NEW s \in Seq(S) PROVE IsFiniteSet(ToSet(s))
  <2>1. DOMAIN s = 1 .. Len(s) /\ Len(s) \in Nat
    OBVIOUS
  <2>2. IsFiniteSet(DOMAIN s)
    BY <2>1, FS_Interval
  <2> DEFINE at == [i \in DOMAIN s |-> s[i]]
  <2>3. at \in Surjection(DOMAIN s, ToSet(s))
    BY DEF Surjection, ToSet
  <2> QED
    BY <2>2, <2>3, FS_Surjection
<1> QED
  BY <1>1, LibraryAssumption

LEMMA TypesHeldFinite ==
  ASSUME NEW d, IsFolder(d)
  PROVE  IsFiniteSet(TypesHeld(d))
<1> DEFINE files == ToSet(TypeFiles)
           places == {{f} \X DOMAIN d.types[f] : f \in files}
           all == [f \in files |-> {f} \X DOMAIN d.types[f]]
<1>1. \A f \in files : IsFiniteSet({f} \X DOMAIN d.types[f])
  <2> SUFFICES ASSUME NEW f \in files PROVE IsFiniteSet({f} \X DOMAIN d.types[f])
    OBVIOUS
  <2>1. IsTypeFile(d.types[f])
    BY DEF IsFolder
  <2>2. DOMAIN d.types[f] = 1 .. Len(d.types[f]) /\ Len(d.types[f]) \in Nat
    BY <2>1, FileHolds
  <2>3. IsFiniteSet(DOMAIN d.types[f])
    BY <2>2, FS_Interval
  <2> QED
    BY <2>3, FS_Singleton, FS_Product
<1>2. all \in Surjection(files, places)
  BY DEF Surjection
<1>3. IsFiniteSet(places)
  BY <1>2, FilesFinite, FS_Surjection
<1>4. IsFiniteSet(UNION places)
  BY <1>1, <1>3, FS_UNION
<1>5. TypesHeld(d) = UNION places
  BY DEF TypesHeld
<1> QED
  BY <1>4, <1>5, FS_CardinalityType

(* Every name of the one text is at the same place of the other.           *)
KeepsNames(text, after) ==
  \A i \in DOMAIN text : i \in DOMAIN after /\ after[i].name = text[i].name
TypesKept(d, c) == \A f \in ToSet(TypeFiles) : KeepsNames(d.types[f], c.types[f])

(* A name is first in both where it is first in the one.                   *)
LEMMA FirstKept ==
  ASSUME NEW text, IsTypeFile(text), NEW after, IsTypeFile(after), KeepsNames(text, after),
         NEW name, NEW i \in DOMAIN text, i = EntryAt(after, name)
  PROVE  i = EntryAt(text, name)
<1> DEFINE places(s) == {j \in 1 .. Len(s) : s[j].name = name}
<1>1. /\ DOMAIN text = 1 .. Len(text) /\ Len(text) \in Nat
      /\ DOMAIN after = 1 .. Len(after) /\ Len(after) \in Nat
  BY FileHolds
<1>2. /\ EntryAt(text, name) = IF places(text) # {} THEN Min(places(text)) ELSE 0
      /\ EntryAt(after, name) = IF places(after) # {} THEN Min(places(after)) ELSE 0
  BY DEF EntryAt, SelectInSeq
<1>3. /\ places(text) \in SUBSET Nat /\ places(after) \in SUBSET Nat
      /\ \A j \in places(text) : j \in places(after)
      /\ i \in places(after) => i \in places(text)
  BY <1>1 DEF KeepsNames
<1>4. i # 0 /\ i \in Nat
  BY <1>1
<1>5. places(after) # {} /\ i = Min(places(after))
  BY <1>2, <1>4
<1> HIDE DEF places
<1>6. i \in places(after) /\ \A j \in places(after) : i <= j
  BY <1>3, <1>5, MinIsThere
<1>7. i \in places(text) /\ \A j \in places(text) : i <= j
  BY <1>3, <1>6
<1>8. Min(places(text)) \in places(text) /\ \A j \in places(text) : Min(places(text)) <= j
  BY <1>3, <1>7, MinIsThere
<1>9. Min(places(text)) \in Nat /\ Min(places(text)) = i
  BY <1>3, <1>4, <1>7, <1>8
<1> QED
  BY <1>2, <1>7, <1>9

-----------------------------------------------------------------------------
(* What a change of a type rewrites.                                       *)

LEMMA ChangedKeepsItsName ==
  ASSUME NEW names, NEW body, Named(body, names), NEW was, NEW now
  PROVE  /\ Changed(body, was, now).name = body.name
         /\ Text(Changed(body, was, now)).name = body.name
         /\ Named(Retype(body, was, now), names)
<1>1. Retype(body, was, now).name = body.name /\ Named(Retype(body, was, now), names)
  BY DEF Named, Retype
<1>2. InlineIn(body).name = body.name
  BY DEF Named, InlineIn
<1> QED
  BY <1>1, <1>2 DEF Changed, Text

LEMMA CascadeFrames ==
  ASSUME IsFolder(disk), FramesListed(entries), NEW kind, NEW now
  PROVE  LET files == Cascade(kind, now).frames IN
         /\ files = [f \in ToSet(FrameFiles) |-> files[f]]
         /\ \A f \in ToSet(FrameFiles) :
              /\ files[f] # Absent => files[f].name \in FrameNames
              /\ disk.frames[f] # Absent => files[f] # Absent
              /\ \/ files[f] = disk.frames[f]
                 \/ \E e \in entries : e.file = f /\ files[f].name = e.frame.name
<1> DEFINE files == Cascade(kind, now).frames
           chosen(f) == CHOOSE e \in Using(kind) : e.file = f
<1>1. files = [f \in ToSet(FrameFiles) |->
        IF \E e \in Using(kind) : e.file = f
        THEN Text(Changed(chosen(f).frame, kind, now)) ELSE disk.frames[f]]
  BY DEF Cascade
<1>2. ASSUME NEW f \in ToSet(FrameFiles)
      PROVE  /\ files[f] # Absent => files[f].name \in FrameNames
             /\ disk.frames[f] # Absent => files[f] # Absent
             /\ \/ files[f] = disk.frames[f]
                \/ \E e \in entries : e.file = f /\ files[f].name = e.frame.name
  <2>1. CASE \E e \in Using(kind) : e.file = f
    <3>1. chosen(f) \in Using(kind) /\ chosen(f).file = f
      BY <2>1
    <3>2. chosen(f) \in entries /\ Named(chosen(f).frame, FrameNames)
      BY <3>1 DEF Using, FramesListed
    <3>3. files[f] = Text(Changed(chosen(f).frame, kind, now))
      BY <1>1, <2>1
    <3>4. files[f].name = chosen(f).frame.name /\ chosen(f).frame.name \in FrameNames
      BY <3>2, <3>3, ChangedKeepsItsName DEF Named
    <3>5. Absent.name = None /\ None \notin FrameNames
      BY LibraryAssumption DEF Absent
    <3> QED
      BY <3>1, <3>2, <3>4, <3>5
  <2>2. CASE ~ \E e \in Using(kind) : e.file = f
    <3>1. files[f] = disk.frames[f]
      BY <1>1, <2>2
    <3> QED
      BY <3>1 DEF IsFolder
  <2> QED
    BY <2>1, <2>2
<1>3. files = [f \in ToSet(FrameFiles) |-> files[f]]
  BY <1>1
<1> QED
  BY <1>2, <1>3

LEMMA CascadeTypes ==
  ASSUME IsFolder(disk), TypesListed(typeEntries), NEW kind, NEW now
  PROVE  LET files == Cascade(kind, now).types IN
         /\ files = [f \in ToSet(TypeFiles) |-> files[f]]
         /\ \A f \in ToSet(TypeFiles) :
              IsTypeFile(files[f]) /\ KeepsNames(disk.types[f], files[f])
<1> DEFINE files == Cascade(kind, now).types
           here(f) == {Changed(e.def, kind, now) : e \in {u \in UsingTypes(kind) : u.file = f}}
           gone(f) == {Text(d) : d \in {b \in here(f) : EntryAt(disk.types[f], b.name) = 0}}
           entry(f, i) == IF \E d \in here(f) : EntryAt(disk.types[f], d.name) = i
                          THEN Text(CHOOSE d \in here(f) : EntryAt(disk.types[f], d.name) = i)
                          ELSE disk.types[f][i]
           kept(f) == [i \in DOMAIN disk.types[f] |-> entry(f, i)]
<1>1. files = [f \in ToSet(TypeFiles) |-> kept(f) \o SetToSeq(gone(f))]
  BY DEF Cascade
<1>2. ASSUME NEW f \in ToSet(TypeFiles)
      PROVE  IsTypeFile(files[f]) /\ KeepsNames(disk.types[f], files[f])
  <2> DEFINE text == disk.types[f]
             S == {d \in {Text(b) : b \in here(f)} \cup ToSet(text) : d.name \in TypeNames}
  <2>1. /\ DOMAIN text = 1 .. Len(text) /\ Len(text) \in Nat
        /\ \A i \in DOMAIN text : text[i] \in ToSet(text) /\ text[i].name \in TypeNames
    BY FileHolds DEF IsFolder
  <2>2. \A d \in here(f) : Text(d) \in S
    <3> SUFFICES ASSUME NEW e \in UsingTypes(kind), e.file = f
                 PROVE  Text(Changed(e.def, kind, now)) \in S
      OBVIOUS
    <3>1. Named(e.def, TypeNames)
      BY DEF UsingTypes, TypesListed
    <3>2. Text(Changed(e.def, kind, now)).name = e.def.name /\ e.def.name \in TypeNames
      BY <3>1, ChangedKeepsItsName DEF Named
    <3>3. Changed(e.def, kind, now) \in here(f)
      OBVIOUS
    <3> QED
      BY <3>2, <3>3
  <2>3. \A i \in DOMAIN text : entry(f, i) \in S /\ entry(f, i).name = text[i].name
    <3> SUFFICES ASSUME NEW i \in DOMAIN text
                 PROVE  entry(f, i) \in S /\ entry(f, i).name = text[i].name
      OBVIOUS
    <3>1. CASE \E d \in here(f) : EntryAt(text, d.name) = i
      <4>1. PICK d \in here(f) : entry(f, i) = Text(d) /\ EntryAt(text, d.name) = i
        BY <3>1
      <4>2. i # 0 /\ IsTypeFile(text)
        BY <2>1 DEF IsFolder
      <4>3. text[i].name = d.name
        BY <4>1, <4>2, EntryIsThere
      <4> QED
        BY <2>2, <4>1, <4>3 DEF Text
    <3>2. CASE ~ \E d \in here(f) : EntryAt(text, d.name) = i
      BY <2>1, <3>2
    <3> QED
      BY <3>1, <3>2
  <2>4. gone(f) \subseteq S
    BY <2>2
  <2>5. IsFiniteSet(gone(f))
    <3> DEFINE using == {u \in UsingTypes(kind) :
                 u.file = f /\ EntryAt(text, Changed(u.def, kind, now).name) = 0}
               written == [u \in using |-> Text(Changed(u.def, kind, now))]
    <3>1. using \in SUBSET typeEntries
      BY DEF UsingTypes
    <3>2. IsFiniteSet(using)
      BY <3>1, FS_Subset DEF TypesListed
    <3>3. gone(f) = {Text(Changed(u.def, kind, now)) : u \in using}
      OBVIOUS
    <3>4. written \in Surjection(using, gone(f))
      BY <3>3 DEF Surjection
    <3> QED
      BY <3>2, <3>4, FS_Surjection
  <2>6. SetToSeq(gone(f)) \in Seq(gone(f))
    BY <2>5, SetToSeqKeeps
  <2>7. files[f] = kept(f) \o SetToSeq(gone(f))
    BY <1>1
  <2>8. kept(f) = [i \in 1 .. Len(text) |-> entry(f, i)]
    BY <2>1
  <2>9. \A d \in S : d.name \in TypeNames
    OBVIOUS
  <2> HIDE DEF S, gone, entry, files
  <2>10. /\ kept(f) \in Seq(S) /\ Len(kept(f)) = Len(text)
         /\ \A i \in 1 .. Len(text) : kept(f)[i].name = text[i].name
    BY <2>1, <2>3, <2>8
  <2>11. SetToSeq(gone(f)) \in Seq(S)
    BY <2>4, <2>6
  <2> HIDE DEF kept, text
  <2> DEFINE first == kept(f)
             last == SetToSeq(gone(f))
  <2> HIDE DEF first, last
  <2>12. /\ files[f] \in Seq(S)
         /\ Len(files[f]) = Len(kept(f)) + Len(SetToSeq(gone(f)))
         /\ \A i \in 1 .. Len(kept(f)) : files[f][i] = kept(f)[i]
    <3>1. first \in Seq(S) /\ last \in Seq(S) /\ files[f] = first \o last
      BY <2>7, <2>10, <2>11 DEF first, last
    <3>2. /\ first \o last \in Seq(S) /\ Len(first \o last) = Len(first) + Len(last)
          /\ \A i \in 1 .. Len(first) : (first \o last)[i] = first[i]
      BY <3>1
    <3> QED
      BY <3>1, <3>2 DEF first, last
  <2>13. IsTypeFile(files[f])
    BY <2>9, <2>12, FileOfNamed, Zenon
  <2>14. Len(SetToSeq(gone(f))) \in Nat
    BY <2>11
  <2>15. DOMAIN files[f] = 1 .. Len(files[f])
    BY <2>12
  <2>16. KeepsNames(text, files[f])
    BY <2>1, <2>10, <2>12, <2>14, <2>15 DEF KeepsNames, text
  <2> QED
    BY <2>13, <2>16 DEF text
<1>3. files = [f \in ToSet(TypeFiles) |-> files[f]]
  BY <1>1
<1> QED
  BY <1>2, <1>3

(* What a rewrite may do to the frames: leave a file as it is, or write    *)
(* the frame the list has of it again under its own name.                  *)
SameFrames(d) == \A f \in ToSet(FrameFiles) :
  /\ disk.frames[f] # Absent => d.frames[f] # Absent
  /\ \/ d.frames[f] = disk.frames[f]
     \/ \E e \in entries : e.file = f /\ d.frames[f].name = e.frame.name

LEMMA CascadeHolds ==
  ASSUME IsFolder(disk), FramesListed(entries), TypesListed(typeEntries), NEW kind, NEW now
  PROVE  /\ IsFolder(Cascade(kind, now)) /\ SameFrames(Cascade(kind, now))
         /\ TypesKept(disk, Cascade(kind, now))
<1>1. Cascade(kind, now) = [frames |-> Cascade(kind, now).frames,
                            types |-> Cascade(kind, now).types]
  BY DEF Cascade
<1>2. /\ Cascade(kind, now).frames = [f \in ToSet(FrameFiles) |-> Cascade(kind, now).frames[f]]
      /\ \A f \in ToSet(FrameFiles) : Cascade(kind, now).frames[f] # Absent
                                      => Cascade(kind, now).frames[f].name \in FrameNames
      /\ SameFrames(Cascade(kind, now))
  BY CascadeFrames DEF SameFrames
<1>3. /\ Cascade(kind, now).types = [f \in ToSet(TypeFiles) |-> Cascade(kind, now).types[f]]
      /\ \A f \in ToSet(TypeFiles) : IsTypeFile(Cascade(kind, now).types[f])
      /\ TypesKept(disk, Cascade(kind, now))
  BY CascadeTypes DEF TypesKept
<1> QED
  BY <1>1, <1>2, <1>3 DEF IsFolder

(* One type file of a folder given another text.                           *)
Rewritten(d, file, text) == [d EXCEPT !.types[file] = text]

LEMMA RewrittenFile ==
  ASSUME NEW d, IsFolder(d), NEW file, NEW text, IsTypeFile(text)
  PROVE  LET c == Rewritten(d, file, text) IN
         /\ IsFolder(c) /\ c.frames = d.frames
         /\ \A f \in ToSet(TypeFiles) : c.types[f] = IF f = file THEN text ELSE d.types[f]
<1> DEFINE c == Rewritten(d, file, text)
<1>1. d = [frames |-> d.frames, types |-> d.types]
      /\ d.types = [f \in ToSet(TypeFiles) |-> d.types[f]]
  BY DEF IsFolder
<1>2. c = [frames |-> d.frames, types |-> [d.types EXCEPT ![file] = text]]
  BY <1>1 DEF Rewritten
<1>3. c.frames = d.frames /\ c.types = [d.types EXCEPT ![file] = text]
  BY <1>2
<1>4. /\ c.types = [f \in ToSet(TypeFiles) |-> c.types[f]]
      /\ \A f \in ToSet(TypeFiles) : c.types[f] = IF f = file THEN text ELSE d.types[f]
  BY <1>1, <1>3
<1>5. c = [frames |-> c.frames, types |-> c.types]
  BY <1>2, <1>3
<1> HIDE DEF c
<1>6. IsFolder(c)
  BY <1>3, <1>4, <1>5 DEF IsFolder
<1> QED
  BY <1>3, <1>4, <1>6 DEF c

LEMMA PendingHolds ==
  ASSUME IsFolder(disk), FramesListed(entries), TypesListed(typeEntries),
         TypeDraftTyped(typeDraft), typeDraft # None,
         typeDraft.origin = None => disk.types[TypeFile[typeDraft.def.name]] = <<>>
  PROVE  LET pending == PendingForTypeDraft IN
         /\ IsFolder(pending) /\ SameFrames(pending)
         /\ \A f \in ToSet(TypeFiles) : \A i \in DOMAIN disk.types[f] :
              /\ i \in DOMAIN pending.types[f]
              /\ SavedOver(f, i) \/ pending.types[f][i].name = disk.types[f][i].name
         /\ typeDraft.origin = None =>
              /\ pending.frames = disk.frames
              /\ \A f \in ToSet(TypeFiles) \ {TypeFile[typeDraft.def.name]} :
                   pending.types[f] = disk.types[f]
<1> DEFINE now == typeDraft.def.name
           moved == IF Renamed THEN Cascade(WasNamed, now) ELSE disk
           file == IF typeDraft.origin = None THEN TypeFile[now] ELSE typeDraft.origin.file
           text == IF typeDraft.origin = None THEN <<Text(typeDraft.def)>>
                   ELSE Put(moved.types[file], WasNamed, Text(typeDraft.def))
           pending == Rewritten(moved, file, text)
<1>1. IsFolder(moved) /\ SameFrames(moved) /\ TypesKept(disk, moved)
  <2>1. SameFrames(disk) /\ TypesKept(disk, disk)
    BY DEF SameFrames, TypesKept, KeepsNames
  <2> QED
    BY <2>1, CascadeHolds
<1>2. now \in TypeNames /\ Text(typeDraft.def).name = now
  BY DEF TypeDraftTyped, Named, Text
<1>3. file \in ToSet(TypeFiles)
  BY <1>2, LibraryAssumption DEF TypeDraftTyped
<1>4. PendingForTypeDraft = pending
  BY DEF PendingForTypeDraft, Rewritten
<1>5. typeDraft.origin = None => moved = disk
  BY DEF Renamed, WasNamed
<1> HIDE DEF moved, file
<1>6. IsTypeFile(moved.types[file]) /\ IsTypeFile(disk.types[file])
  BY <1>1, <1>3 DEF IsFolder
<1>7. /\ IsTypeFile(text)
      /\ typeDraft.origin # None =>
           \A i \in DOMAIN moved.types[file] :
             /\ i \in DOMAIN text
             /\ i # EntryAt(moved.types[file], WasNamed) => text[i] = moved.types[file][i]
  <2>1. CASE typeDraft.origin = None
    <3>1. text = <<Text(typeDraft.def)>>
      BY <2>1
    <3> HIDE DEF text
    <3> QED
      BY <1>2, <2>1, <3>1, OneEntry
  <2>2. CASE typeDraft.origin # None
    <3> DEFINE held == moved.types[file]
               def == Text(typeDraft.def)
    <3>1. text = Put(held, WasNamed, def)
      BY <2>2
    <3>2. IsTypeFile(held) /\ def.name \in TypeNames
      BY <1>2, <1>6
    <3> HIDE DEF held, def, text
    <3> DEFINE name == WasNamed
    <3> HIDE DEF name
    <3>3. /\ IsTypeFile(Put(held, name, def))
          /\ \A i \in DOMAIN held :
               /\ i \in DOMAIN Put(held, name, def)
               /\ i # EntryAt(held, name) => Put(held, name, def)[i] = held[i]
      BY <3>2, PutKeeps
    <3> QED
      BY <2>2, <3>1, <3>3 DEF held, name
  <2> QED
    BY <2>1, <2>2
<1> HIDE DEF text
<1>8. /\ IsFolder(pending) /\ pending.frames = moved.frames
      /\ \A f \in ToSet(TypeFiles) :
           pending.types[f] = IF f = file THEN text ELSE moved.types[f]
  <2>1. IsFolder(moved) /\ IsTypeFile(text)
    BY <1>1, <1>7
  <2> QED
    BY <2>1, RewrittenFile
<1> HIDE DEF pending
<1>9. SameFrames(pending)
  BY <1>1, <1>8 DEF SameFrames
<1>10. ASSUME NEW f \in ToSet(TypeFiles), NEW i \in DOMAIN disk.types[f]
       PROVE  /\ i \in DOMAIN pending.types[f]
              /\ SavedOver(f, i) \/ pending.types[f][i].name = disk.types[f][i].name
  <2>1. i \in DOMAIN moved.types[f] /\ moved.types[f][i].name = disk.types[f][i].name
    BY <1>1 DEF TypesKept, KeepsNames
  <2>2. CASE f # file
    BY <1>8, <2>1, <2>2
  <2>3. CASE f = file /\ typeDraft.origin = None
    <3>1. disk.types[f] = <<>>
      BY <2>3 DEF file
    <3>2. DOMAIN disk.types[f] = {}
      BY <3>1
    <3> QED
      BY <3>2
  <2>4. CASE f = file /\ typeDraft.origin # None
    <3>1. f = typeDraft.origin.file /\ pending.types[f] = text
      BY <1>8, <2>4 DEF file
    <3>2. CASE i # EntryAt(moved.types[file], WasNamed)
      BY <1>7, <2>1, <2>4, <3>1, <3>2
    <3>3. CASE i = EntryAt(moved.types[file], WasNamed)
      <4>1. KeepsNames(disk.types[file], moved.types[file])
        BY <1>1, <1>3 DEF TypesKept
      <4>2. i = EntryAt(disk.types[file], WasNamed)
        BY <1>6, <2>4, <3>3, <4>1, FirstKept
      <4>3. SavedOver(f, i)
        BY <2>4, <3>1, <4>2 DEF SavedOver
      <4> QED
        BY <1>7, <2>1, <2>4, <3>1, <4>3
    <3> QED
      BY <3>2, <3>3
  <2> QED
    BY <2>2, <2>3, <2>4
<1>11. typeDraft.origin = None =>
         /\ pending.frames = disk.frames
         /\ \A f \in ToSet(TypeFiles) \ {TypeFile[now]} : pending.types[f] = disk.types[f]
  BY <1>5, <1>8 DEF file
<1> QED
  BY <1>4, <1>8, <1>9, <1>10, <1>11

(* A file moved keeps all it holds, where nothing was.                     *)
LEMMA MoveHolds ==
  ASSUME NEW d, IsFolder(d), TypeDraftTyped(typeDraft), typeDraft # None
  PROVE  /\ IsFolder(MoveTypeFile(d)) /\ MoveTypeFile(d).frames = d.frames
         /\ \A f \in ToSet(TypeFiles) : d.types[f] # <<>> =>
              \E g \in {f, TypeFile[typeDraft.def.name]} :
                MoveTypeFile(d).types[g] = d.types[f]
<1> DEFINE from == typeDraft.origin.file
           to == TypeFile[typeDraft.def.name]
           stays == \/ typeDraft.origin = None \/ ~Renamed
                    \/ Cardinality({e \in typeEntries : e.file = from}) # 1
                    \/ to = from \/ d.types[to] # <<>> \/ <<"types", to>> \in emptied
           c == [d EXCEPT !.types[to] = d.types[from], !.types[from] = <<>>]
<1>1. CASE stays
  <2>1. MoveTypeFile(d) = d
    BY <1>1 DEF MoveTypeFile
  <2> QED
    BY <2>1
<1>2. CASE ~stays
  <2>1. MoveTypeFile(d) = c
    BY <1>2 DEF MoveTypeFile
  <2>2. typeDraft.origin # None /\ to # from /\ d.types[to] = <<>>
    BY <1>2
  <2>3. from \in ToSet(TypeFiles) /\ to \in ToSet(TypeFiles)
    BY <2>2, LibraryAssumption DEF TypeDraftTyped, Named
  <2> HIDE DEF from, to, stays
  <2>4. IsTypeFile(d.types[from])
    BY <2>3 DEF IsFolder
  <2> DEFINE b == Rewritten(d, to, d.types[from])
  <2>5. /\ IsFolder(b) /\ b.frames = d.frames
        /\ \A f \in ToSet(TypeFiles) :
             b.types[f] = IF f = to THEN d.types[from] ELSE d.types[f]
    BY <2>4, RewrittenFile
  <2>6. /\ IsFolder(c) /\ c.frames = d.frames
        /\ \A f \in ToSet(TypeFiles) :
             c.types[f] = IF f = from THEN <<>>
                          ELSE IF f = to THEN d.types[from] ELSE d.types[f]
    <3>1. c = Rewritten(b, from, <<>>)
      BY DEF Rewritten
    <3> HIDE DEF b, c
    <3>2. IsFolder(b) /\ IsTypeFile(<<>>)
      BY <2>5, EmptyFile
    <3> DEFINE e == Rewritten(b, from, <<>>)
    <3>3. /\ IsFolder(e) /\ e.frames = b.frames
          /\ \A f \in ToSet(TypeFiles) :
               e.types[f] = IF f = from THEN <<>> ELSE b.types[f]
      BY <3>2, RewrittenFile
    <3> HIDE DEF e
    <3> QED
      BY <2>5, <3>1, <3>3 DEF e
  <2> HIDE DEF c
  <2>7. ASSUME NEW f \in ToSet(TypeFiles), d.types[f] # <<>>
        PROVE  \E g \in {f, to} : c.types[g] = d.types[f]
    <3>1. CASE f = from
      BY <2>2, <2>3, <2>6, <3>1
    <3>2. CASE f # from
      BY <2>2, <2>6, <2>7, <3>2
    <3> QED
      BY <3>1, <3>2
  <2> QED
    BY <2>1, <2>6, <2>7 DEF to
<1> QED
  BY <1>1, <1>2

(* The frame files of a folder given other texts.                          *)
LEMMA FrameWritten ==
  ASSUME NEW d, IsFolder(d), NEW files, files = [f \in ToSet(FrameFiles) |-> files[f]],
         \A f \in ToSet(FrameFiles) : files[f] # Absent => files[f].name \in FrameNames
  PROVE  LET c == [d EXCEPT !.frames = files] IN
         IsFolder(c) /\ c.frames = files /\ c.types = d.types
<1> DEFINE c == [d EXCEPT !.frames = files]
<1>1. d = [frames |-> d.frames, types |-> d.types]
  BY DEF IsFolder
<1>2. c = [frames |-> files, types |-> d.types]
  BY <1>1
<1>3. c.frames = files /\ c.types = d.types
  BY <1>2
<1>4. c = [frames |-> c.frames, types |-> c.types]
  BY <1>2, <1>3
<1> HIDE DEF c
<1> QED
  BY <1>3, <1>4 DEF IsFolder, c

LEMMA RemovedHolds ==
  ASSUME NEW d, IsFolder(d), NEW file
  PROVE  LET c == [d EXCEPT !.frames[file] = Absent] IN
         /\ IsFolder(c) /\ c.types = d.types
         /\ \A f \in ToSet(FrameFiles) :
              c.frames[f] = IF f = file THEN Absent ELSE d.frames[f]
<1> DEFINE files == [d.frames EXCEPT ![file] = Absent]
           c == [d EXCEPT !.frames = files]
<1>1. /\ d.frames = [f \in ToSet(FrameFiles) |-> d.frames[f]]
      /\ \A f \in ToSet(FrameFiles) : d.frames[f] # Absent => d.frames[f].name \in FrameNames
  BY DEF IsFolder
<1>2. /\ files = [f \in ToSet(FrameFiles) |-> files[f]]
      /\ \A f \in ToSet(FrameFiles) :
           files[f] = IF f = file THEN Absent ELSE d.frames[f]
  BY <1>1
<1> HIDE DEF files
<1>3. IsFolder(c) /\ c.frames = files /\ c.types = d.types
  BY <1>1, <1>2, FrameWritten
<1> QED
  BY <1>2, <1>3 DEF files

(* A rewrite stopped half way: each file as it was, as it was to be or     *)
(* with nothing in it.  A new type's file, the one that a new type writes, *)
(* has nothing in it for as long as its write has not gone through.        *)
LEMMA FirstHolds ==
  ASSUME NEW pending, IsFolder(disk), IsFolder(pending), NEW k \in Nat
  PROVE  /\ IsFolder(FirstOf(pending, k))
         /\ \A f \in ToSet(TypeFiles) : FirstOf(pending, k).types[f] =
              IF \E i \in 1 .. k : Paths[i] = <<"types", f>>
              THEN pending.types[f] ELSE disk.types[f]
<1> DEFINE d == FirstOf(pending, k)
<1>1. /\ d = [frames |-> d.frames, types |-> d.types]
      /\ d.frames = [f \in ToSet(FrameFiles) |-> d.frames[f]]
      /\ d.types = [f \in ToSet(TypeFiles) |-> d.types[f]]
      /\ \A f \in ToSet(FrameFiles) : d.frames[f] \in {disk.frames[f], pending.frames[f]}
      /\ \A f \in ToSet(TypeFiles) : d.types[f] =
           IF \E i \in 1 .. k : Paths[i] = <<"types", f>>
           THEN pending.types[f] ELSE disk.types[f]
  BY DEF FirstOf
<1> HIDE DEF d
<1>2. \A f \in ToSet(FrameFiles) : d.frames[f] # Absent => d.frames[f].name \in FrameNames
  BY <1>1 DEF IsFolder
<1>3. \A f \in ToSet(TypeFiles) : IsTypeFile(d.types[f])
  BY <1>1 DEF IsFolder
<1>4. IsFolder(d)
  BY <1>1, <1>2, <1>3 DEF IsFolder
<1> QED
  BY <1>1, <1>4 DEF d

LEMMA ClearedHolds ==
  ASSUME NEW d, IsFolder(d), NEW p
  PROVE  /\ IsFolder(Cleared(d, p))
         /\ \A f \in ToSet(TypeFiles) : d.types[f] = <<>> => Cleared(d, p).types[f] = <<>>
<1>1. CASE p[1] = "frames"
  <2>1. Cleared(d, p) = [d EXCEPT !.frames[p[2]] = Absent]
    BY <1>1 DEF Cleared
  <2>2. LET c == [d EXCEPT !.frames[p[2]] = Absent] IN IsFolder(c) /\ c.types = d.types
    BY RemovedHolds
  <2> QED
    BY <2>1, <2>2
<1>2. CASE p[1] # "frames"
  <2>1. Cleared(d, p) = Rewritten(d, p[2], <<>>)
    BY <1>2 DEF Cleared, Rewritten
  <2> QED
    BY <2>1, EmptyFile, RewrittenFile
<1> QED
  BY <1>1, <1>2

LEMMA FailedHolds ==
  ASSUME NEW pending, IsFolder(disk), IsFolder(pending), WriteFails(pending)
  PROVE  /\ IsFolder(disk')
         /\ \A file \in ToSet(TypeFiles) :
              (/\ disk.types[file] = <<>> /\ pending.frames = disk.frames
               /\ \A f \in ToSet(TypeFiles) \ {file} : pending.types[f] = disk.types[f])
              => disk'.types[file] = <<>>
<1>1. PICK k \in 0 .. Len(Paths) - 1 :
        /\ Differs(pending, Paths[k + 1])
        /\ disk' \in {FirstOf(pending, k), Cleared(FirstOf(pending, k), Paths[k + 1])}
  BY DEF WriteFails
<1>2. /\ Paths \in Seq(ToSet(Paths)) /\ Len(Paths) \in Nat /\ DOMAIN Paths = 1 .. Len(Paths)
      /\ \A i, j \in DOMAIN Paths : Paths[i] = Paths[j] => i = j
      /\ ToSet(Paths) = {<<"frames", f>> : f \in ToSet(FrameFiles)}
                        \cup {<<"types", f>> : f \in ToSet(TypeFiles)}
  BY LibraryAssumption, RangeHolds
<1>3. k \in Nat /\ k + 1 \in DOMAIN Paths /\ \A i \in 1 .. k : i \in DOMAIN Paths /\ i # k + 1
  BY <1>1, <1>2
<1> DEFINE first == FirstOf(pending, k)
           failing == Paths[k + 1]
<1>4. /\ IsFolder(first)
      /\ \A f \in ToSet(TypeFiles) : first.types[f] =
           IF \E i \in 1 .. k : Paths[i] = <<"types", f>>
           THEN pending.types[f] ELSE disk.types[f]
  BY <1>3, FirstHolds
<1>5. disk' = first \/ disk' = Cleared(first, failing)
  BY <1>1
<1> HIDE DEF first
<1>6. IsFolder(disk')
  BY <1>4, <1>5, ClearedHolds
<1>7. ASSUME NEW file \in ToSet(TypeFiles), disk.types[file] = <<>>,
             pending.frames = disk.frames,
             \A f \in ToSet(TypeFiles) \ {file} : pending.types[f] = disk.types[f]
      PROVE  disk'.types[file] = <<>>
  <2>1. failing \in ToSet(Paths) /\ \A i \in 1 .. k : Paths[i] # failing
    BY <1>2, <1>3 DEF ToSet
  <2>2. failing = <<"types", file>>
    <3>1. CASE \E f \in ToSet(FrameFiles) : failing = <<"frames", f>>
      BY <1>1, <1>7, <3>1 DEF Differs
    <3>2. CASE \E f \in ToSet(TypeFiles) : failing = <<"types", f>>
      BY <1>1, <1>7, <3>2 DEF Differs
    <3> QED
      BY <1>2, <2>1, <3>1, <3>2
  <2> HIDE DEF failing
  <2>3. first.types[file] = <<>>
    BY <1>4, <1>7, <2>1, <2>2
  <2> QED
    BY <1>4, <1>5, <2>3, ClearedHolds
<1> QED
  BY <1>6, <1>7

LEMMA ReadFramesListed ==
  ASSUME NEW d, IsFolder(d), NEW library
  PROVE  FramesListed(ReadFrames(d.frames, library))
<1> SUFFICES ASSUME NEW f \in ToSet(FrameFiles), d.frames[f] # Absent
             PROVE  Named(Read(library, d.frames[f]), FrameNames)
  BY DEF FramesListed, ReadFrames
<1>1. d.frames[f].name \in FrameNames
  BY DEF IsFolder
<1> QED
  BY <1>1 DEF Named, Read

LEMMA AttributedListed ==
  ASSUME NEW d, IsFolder(d), NEW library
  PROVE  TypesListed(Attributed(d.types, library))
<1> DEFINE list == Attributed(d.types, library)
           asListed(p) == [file |-> p[1], def |-> Definition(library, d.types[p[1]][p[2]].name)]
           read == {p \in TypesHeld(d) : asListed(p) \in list}
           listed == [p \in read |-> asListed(p)]
<1>1. ASSUME NEW e \in list
      PROVE  /\ e.file \in ToSet(TypeFiles) /\ Named(e.def, TypeNames)
             /\ \E p \in TypesHeld(d) : e = asListed(p)
  <2>1. PICK f \in ToSet(TypeFiles), n \in DOMAIN library :
           /\ e = [file |-> f, def |-> Definition(library, n)]
           /\ \E i \in DOMAIN d.types[f] : d.types[f][i].name = n
    BY DEF Attributed
  <2>2. PICK i \in DOMAIN d.types[f] : d.types[f][i].name = n
    BY <2>1
  <2>3. <<f, i>> \in TypesHeld(d)
    BY <2>2 DEF TypesHeld
  <2>4. e = asListed(<<f, i>>)
    BY <2>1, <2>2
  <2>5. n \in TypeNames
    BY <2>2, FileHolds DEF IsFolder
  <2>6. Named(Definition(library, n), TypeNames)
    BY <2>5 DEF Named, Definition, Read
  <2> QED
    BY <2>1, <2>3, <2>4, <2>6
<1>2. IsFiniteSet(read)
  BY TypesHeldFinite, FS_Subset
<1>3. listed \in Surjection(read, list)
  BY <1>1 DEF Surjection
<1>4. IsFiniteSet(list)
  BY <1>2, <1>3, FS_Surjection
<1> QED
  BY <1>1, <1>4 DEF TypesListed

LEMMA LoadedListed ==
  ASSUME NEW d, IsFolder(d), LoadFrom(d)
  PROVE  FramesListed(entries') /\ TypesListed(typeEntries')
BY ReadFramesListed, AttributedListed DEF LoadFrom

(* A type struck from its file.                                            *)
Struck(text, kind) == At(text, {i \in DOMAIN text : text[i].name # kind})

LEMMA StruckHolds ==
  ASSUME NEW text, IsTypeFile(text), NEW kind
  PROVE  IsTypeFile(Struck(text, kind))
<1> DEFINE S == ToSet(text)
           places == {i \in DOMAIN text : text[i].name # kind}
<1>1. text \in Seq(S) /\ \A d \in S : d.name \in TypeNames
  BY DEF IsTypeFile
<1>2. places \in SUBSET DOMAIN text
  OBVIOUS
<1> HIDE DEF S, places
<1>3. At(text, places) \in Seq(S)
  BY <1>1, <1>2, AtKeeps
<1>4. IsTypeFile(At(text, places))
  BY <1>1, <1>3, FileOfNamed, Zenon
<1> QED
  BY <1>4 DEF Struck, places

(* What is at places of a list is all that is there, once each.            *)
LEMMA AtFinds ==
  ASSUME NEW S, NEW s \in Seq(S), NEW places \in SUBSET DOMAIN s
  PROVE  /\ ToSet(At(s, places)) = {s[i] : i \in places}
         /\ \A j, k \in DOMAIN At(s, places) :
              \E a, b \in places : /\ At(s, places)[j] = s[a] /\ At(s, places)[k] = s[b]
                                   /\ a = b => j = k
<1> DEFINE n == Cardinality(places)
           at == Ascending(places)
<1>1. places \in SUBSET Nat /\ IsFiniteSet(places) /\ n \in Nat
  <2>1. DOMAIN s = 1 .. Len(s) /\ Len(s) \in Nat
    OBVIOUS
  <2>2. IsFiniteSet(1 .. Len(s)) /\ places \in SUBSET (1 .. Len(s))
    BY <2>1, FS_Interval
  <2>3. IsFiniteSet(places)
    BY <2>2, FS_Subset
  <2> QED
    BY <2>2, <2>3, FS_CardinalityType
<1>2. at \in [1 .. n -> places] /\ Rising(at)
  BY <1>1, AscendingRises
<1>3. At(s, places) = [k \in 1 .. n |-> s[at[k]]]
  BY DEF At
<1>4. IsFiniteSet(1 .. n) /\ Cardinality(1 .. n) = n
  BY <1>1, FS_Interval
<1>5. Cardinality(1 .. n) = Cardinality(places)
  BY <1>4
<1> HIDE DEF n, at
<1>6. \A j, k \in 1 .. n : at[j] = at[k] => j = k
  <2> SUFFICES ASSUME NEW j \in 1 .. n, NEW k \in 1 .. n, at[j] = at[k] PROVE j = k
    OBVIOUS
  <2>1. at[j] \in Nat
    BY <1>1, <1>2
  <2>2. ~(j < k) /\ ~(k < j)
    BY <1>2, <2>1 DEF Rising
  <2> QED
    BY <1>1, <2>2
<1>7. at \in Injection(1 .. n, places)
  BY <1>2, <1>6 DEF Injection, IsInjective
<1>8. at \in Surjection(1 .. n, places)
  BY <1>1, <1>5, <1>7, FS_Injection
<1>9. \A i \in places : \E k \in 1 .. n : at[k] = i
  BY <1>8 DEF Surjection
<1>10. DOMAIN At(s, places) = 1 .. n /\ \A k \in 1 .. n : At(s, places)[k] = s[at[k]] /\ at[k] \in places
  BY <1>2, <1>3
<1>11. ToSet(At(s, places)) = {s[i] : i \in places}
  BY <1>9, <1>10 DEF ToSet
<1> QED
  BY <1>6, <1>10, <1>11

LEMMA StruckLeaves ==
  ASSUME NEW text, IsTypeFile(text), NEW kind
  PROVE  \A i \in DOMAIN Struck(text, kind) : Struck(text, kind)[i].name # kind
<1> DEFINE S == ToSet(text)
           places == {i \in DOMAIN text : text[i].name # kind}
           struck == At(text, places)
<1>1. text \in Seq(S) /\ places \in SUBSET DOMAIN text
  BY DEF IsTypeFile
<1>2. \A i \in places : text[i].name # kind
  OBVIOUS
<1> HIDE DEF S, places
<1>3. \A j \in DOMAIN struck : \E a \in places : struck[j] = text[a]
  BY <1>1, AtFinds
<1>4. Struck(text, kind) = struck
  BY DEF Struck, places
<1> QED
  BY <1>2, <1>3, <1>4

PendingDelete(e) ==
  LET inlined == Cascade(e.def.name, None)
  IN Rewritten(inlined, e.file, Struck(inlined.types[e.file], e.def.name))

LEMMA DeleteHolds ==
  ASSUME IsFolder(disk), FramesListed(entries), TypesListed(typeEntries), NEW e \in typeEntries
  PROVE  IsFolder(PendingDelete(e)) /\ SameFrames(PendingDelete(e))
<1> DEFINE inlined == Cascade(e.def.name, None)
           text == Struck(inlined.types[e.file], e.def.name)
           pending == Rewritten(inlined, e.file, text)
<1>1. IsFolder(inlined) /\ SameFrames(inlined)
  BY CascadeHolds
<1>2. e.file \in ToSet(TypeFiles)
  BY DEF TypesListed
<1> HIDE DEF inlined
<1>3. IsTypeFile(text)
  BY <1>1, <1>2, StruckHolds DEF IsFolder
<1> HIDE DEF text
<1>4. IsFolder(pending) /\ pending.frames = inlined.frames
  BY <1>1, <1>3, RewrittenFile
<1>5. PendingDelete(e) = pending
  BY DEF PendingDelete, inlined, text
<1> HIDE DEF pending
<1>6. SameFrames(pending)
  BY <1>1, <1>4 DEF SameFrames
<1> QED
  BY <1>4, <1>5, <1>6

-----------------------------------------------------------------------------
(* Types.                                                                  *)

LEMMA NewNames ==
  /\ NewFrame[IF SelectInSeq(NewFrame, FreeFrameName) = 0 THEN 1
              ELSE SelectInSeq(NewFrame, FreeFrameName)] \in FrameNames
  /\ NewType[IF SelectInSeq(NewType, FreeTypeName) = 0 THEN 1
             ELSE SelectInSeq(NewType, FreeTypeName)] \in TypeNames
<1> DEFINE frames == {i \in 1 .. Len(NewFrame) : FreeFrameName(NewFrame[i])}
           kinds == {i \in 1 .. Len(NewType) : FreeTypeName(NewType[i])}
<1>1. /\ \A i \in 1 .. Len(NewFrame) : NewFrame[i] \in FrameNames
      /\ \A i \in 1 .. Len(NewType) : NewType[i] \in TypeNames
      /\ 1 \in 1 .. Len(NewFrame) /\ 1 \in 1 .. Len(NewType)
      /\ Len(NewFrame) \in Nat /\ Len(NewType) \in Nat
  BY LibraryAssumption
<1>2. frames \in SUBSET Nat /\ kinds \in SUBSET Nat
  BY <1>1
<1>3. /\ SelectInSeq(NewFrame, FreeFrameName) = IF frames # {} THEN Min(frames) ELSE 0
      /\ SelectInSeq(NewType, FreeTypeName) = IF kinds # {} THEN Min(kinds) ELSE 0
  BY DEF SelectInSeq
<1>4. /\ frames # {} => Min(frames) \in frames
      /\ kinds # {} => Min(kinds) \in kinds
  BY <1>2, MinIsThere
<1>5. SelectInSeq(NewFrame, FreeFrameName) \in 0 .. Len(NewFrame)
  BY <1>1, <1>3, <1>4
<1>6. SelectInSeq(NewType, FreeTypeName) \in 0 .. Len(NewType)
  BY <1>1, <1>3, <1>4
<1> QED
  BY <1>1, <1>5, <1>6

LEMMA TypeInit == Init => TypeInv
<1> SUFFICES ASSUME Init PROVE TypeInv
  OBVIOUS
<1>1. IsFolder(disk) /\ failures \in Nat
  BY LibraryAssumption DEF Init
<1>2. FramesListed(entries) /\ TypesListed(typeEntries)
  BY <1>1, ReadFramesListed, AttributedListed DEF Init
<1> QED
  BY <1>1, <1>2 DEF Init, TypeInv, DraftTyped, TypeDraftTyped, Rewritable

(* What a draft is of, where it lives and what its file holds.             *)
LEMMA DraftHolds ==
  ASSUME TypeInv, draft # None
  PROVE  /\ draft.frame.name \in FrameNames
         /\ FrameFile[draft.frame.name] \in ToSet(FrameFiles)
         /\ Text(draft.frame) # Absent /\ Text(draft.frame).name = draft.frame.name
         /\ draft.origin \in ToSet(FrameFiles) \cup {None}
<1>1. draft.frame.name \in FrameNames /\ draft.origin \in ToSet(FrameFiles) \cup {None}
  BY DEF TypeInv, DraftTyped, Named
<1>2. Text(draft.frame).name = draft.frame.name
  BY DEF Text
<1>3. Absent.name = None /\ None \notin FrameNames
  BY LibraryAssumption DEF Absent
<1> QED
  BY <1>1, <1>2, <1>3, LibraryAssumption

(* The folder after a save, and after one that stopped in between or whose *)
(* write left nothing.                                                     *)
Home == IF draft.origin = None THEN FrameFile[draft.frame.name] ELSE draft.origin
Written == [disk.frames EXCEPT ![Home] = Text(draft.frame)]
Moved == [Written EXCEPT ![Home] = Absent, ![FrameFile[draft.frame.name]] = Text(draft.frame)]

LEMMA SavedHolds ==
  ASSUME TypeInv, draft # None
  PROVE  /\ Home \in ToSet(FrameFiles)
         /\ \A f \in ToSet(FrameFiles) :
              /\ Written[f] = IF f = Home THEN Text(draft.frame) ELSE disk.frames[f]
              /\ Moved[f] = IF f = FrameFile[draft.frame.name] THEN Text(draft.frame)
                            ELSE IF f = Home THEN Absent ELSE disk.frames[f]
         /\ \A files \in {Written, Moved} :
              LET d == [disk EXCEPT !.frames = files] IN
              IsFolder(d) /\ d.frames = files /\ d.types = disk.types
<1> DEFINE wanted == FrameFile[draft.frame.name]
           text == Text(draft.frame)
<1>1. /\ wanted \in ToSet(FrameFiles) /\ Home \in ToSet(FrameFiles)
      /\ text.name \in FrameNames
  BY DraftHolds DEF Home
<1>2. /\ disk.frames = [f \in ToSet(FrameFiles) |-> disk.frames[f]]
      /\ \A f \in ToSet(FrameFiles) : disk.frames[f] # Absent
                                      => disk.frames[f].name \in FrameNames
  BY DEF TypeInv, IsFolder
<1>3. /\ Written = [f \in ToSet(FrameFiles) |-> Written[f]]
      /\ \A f \in ToSet(FrameFiles) :
           Written[f] = IF f = Home THEN text ELSE disk.frames[f]
  BY <1>1, <1>2 DEF Written
<1>4. Moved = [[Written EXCEPT ![Home] = Absent] EXCEPT ![wanted] = text]
  BY DEF Moved
<1>5. /\ Moved = [f \in ToSet(FrameFiles) |-> Moved[f]]
      /\ \A f \in ToSet(FrameFiles) :
           Moved[f] = IF f = wanted THEN text
                      ELSE IF f = Home THEN Absent ELSE disk.frames[f]
  BY <1>1, <1>3, <1>4
<1>6. IsFolder(disk)
  BY DEF TypeInv
<1>7. LET d == [disk EXCEPT !.frames = Written] IN
      IsFolder(d) /\ d.frames = Written /\ d.types = disk.types
  BY <1>1, <1>2, <1>3, <1>6, FrameWritten
<1>8. LET d == [disk EXCEPT !.frames = Moved] IN
      IsFolder(d) /\ d.frames = Moved /\ d.types = disk.types
  BY <1>1, <1>2, <1>5, <1>6, FrameWritten
<1> QED
  BY <1>1, <1>3, <1>5, <1>7, <1>8

LEMMA FramesStep ==
  ASSUME TypeInv,
         Reload \/ BeginEdit \/ BeginNew \/ CancelEdit \/ EditFrame
         \/ SaveDraft \/ RemovedOutside \/ DeleteSelected
  PROVE  TypeInv'
<1> USE DEF Idle, Editing, loaded, drafts
<1>0. /\ IsFolder(disk) /\ failures \in Nat
      /\ FramesListed(entries) /\ TypesListed(typeEntries)
      /\ DraftTyped(draft) /\ TypeDraftTyped(typeDraft)
  BY DEF TypeInv
<1>1. typeDraft' = typeDraft
  BY DEF Reload, BeginEdit, BeginNew, CancelEdit, EditFrame, SaveDraft, RemovedOutside,
         DeleteSelected
<1>2. typeDraft # None => draft' = draft
  BY DEF Reload, BeginEdit, BeginNew, CancelEdit, EditFrame, SaveDraft, RemovedOutside,
         DeleteSelected
<1>3. failures' \in Nat
  <2>1. failures' = failures \/ Failing
    BY DEF Reload, BeginEdit, BeginNew, CancelEdit, EditFrame, SaveDraft, RemovedOutside,
           DeleteSelected
  <2> QED
    BY <1>0, <2>1 DEF Failing
<1>4. IsFolder(disk') /\ (typeDraft # None => disk'.types = disk.types)
  <2>1. CASE disk' = disk
    BY <1>0, <2>1
  <2>2. CASE SaveDraft
    <3>1. \/ disk' = disk \/ \E file : disk' = [disk EXCEPT !.frames[file] = Absent]
          \/ \E files \in {Written, Moved} : disk' = [disk EXCEPT !.frames = files]
      BY <2>2 DEF SaveDraft, Home, Written, Moved
    <3>2. draft # None
      BY <2>2 DEF SaveDraft
    <3>3. CASE \E file : disk' = [disk EXCEPT !.frames[file] = Absent]
      <4>1. PICK file : disk' = [disk EXCEPT !.frames[file] = Absent]
        BY <3>3
      <4> QED
        BY <1>0, <4>1, RemovedHolds
    <3>4. CASE \E files \in {Written, Moved} : disk' = [disk EXCEPT !.frames = files]
      BY <3>2, <3>4, SavedHolds
    <3> QED
      BY <2>1, <3>1, <3>3, <3>4
  <2>3. CASE RemovedOutside \/ DeleteSelected
    <3>1. \/ disk' = disk
          \/ \E file : disk' = [disk EXCEPT !.frames[file] = Absent]
      BY <2>3 DEF RemovedOutside, DeleteSelected
    <3>2. CASE \E file : disk' = [disk EXCEPT !.frames[file] = Absent]
      <4>1. PICK file : disk' = [disk EXCEPT !.frames[file] = Absent]
        BY <3>2
      <4> QED
        BY <1>0, <4>1, RemovedHolds
    <3> QED
      BY <2>1, <3>1, <3>2
  <2> QED
    BY <2>1, <2>2, <2>3 DEF Reload, BeginEdit, BeginNew, CancelEdit, EditFrame
<1>5. FramesListed(entries') /\ TypesListed(typeEntries')
  <2>1. CASE Reload
    BY <1>0, <2>1, LoadedListed DEF Reload
  <2>2. CASE SaveDraft
    <3>1. typeEntries' = typeEntries
      BY <2>2 DEF SaveDraft
    <3>2. draft # None /\ (entries' = entries \/ TakeIn(FrameFile[draft.frame.name], draft))
      BY <2>2 DEF SaveDraft
    <3>3. FrameFile[draft.frame.name] \in ToSet(FrameFiles) /\ Named(draft.frame, FrameNames)
      BY <3>2, DraftHolds DEF TypeInv, DraftTyped
    <3> QED
      BY <1>0, <3>1, <3>2, <3>3 DEF TakeIn, FramesListed
  <2>3. CASE DeleteSelected
    <3>1. typeEntries' = typeEntries /\ entries' \subseteq entries
      BY <2>3 DEF DeleteSelected
    <3> QED
      BY <1>0, <3>1 DEF FramesListed
  <2>4. CASE entries' = entries /\ typeEntries' = typeEntries
    BY <1>0, <2>4
  <2> QED
    BY <2>1, <2>2, <2>3, <2>4 DEF BeginEdit, BeginNew, CancelEdit, EditFrame, RemovedOutside
<1>6. DraftTyped(draft')
  <2>1. CASE draft' \in {draft, None}
    BY <1>0, <2>1 DEF DraftTyped
  <2>2. CASE BeginEdit
    <3>1. PICK e \in entries : draft' = [frame |-> e.frame, edits |-> 0,
               origin |-> IF IsThere(<<"frames", e.file>>) THEN e.file ELSE None]
      BY <2>2 DEF BeginEdit
    <3>2. e.file \in ToSet(FrameFiles) /\ Named(e.frame, FrameNames)
      BY <1>0 DEF FramesListed
    <3> QED
      BY <3>1, <3>2 DEF DraftTyped
  <2>3. CASE BeginNew
    <3>1. PICK n \in FrameNames : draft' =
            [frame |-> [name |-> n, own |-> <<"byte">>, of |-> None, under |-> <<>>],
             edits |-> 0, origin |-> None]
      BY <2>3, NewNames DEF BeginNew
    <3> QED
      BY <3>1 DEF DraftTyped, Named
  <2>4. CASE EditFrame
    <3> DEFINE changed == [draft EXCEPT !.edits = @ + 1]
    <3>1. /\ draft = [frame |-> draft.frame, edits |-> draft.edits, origin |-> draft.origin]
          /\ draft.frame = [name |-> draft.frame.name, own |-> draft.frame.own,
                            of |-> draft.frame.of, under |-> draft.frame.under]
          /\ draft.frame.name \in FrameNames
          /\ draft.origin \in ToSet(FrameFiles) \cup {None}
      BY <1>0, <2>4 DEF EditFrame, DraftTyped, Named
    <3>2. changed = [frame |-> draft.frame, edits |-> draft.edits + 1, origin |-> draft.origin]
      BY <3>1
    <3>3. \/ \E n \in FrameNames : draft' = [changed EXCEPT !.frame.name = n]
          \/ \E own \in Owns : draft' = [changed EXCEPT !.frame.own = own]
          \/ \E e \in typeEntries :
               draft' = [changed EXCEPT !.frame.of = e.def.name,
                                        !.frame.under = Under(types, e.def.name)]
      BY <2>4 DEF EditFrame
    <3> HIDE DEF changed
    <3>4. PICK frame : /\ draft' = [frame |-> frame, edits |-> draft.edits + 1,
                                    origin |-> draft.origin]
                       /\ Named(frame, FrameNames)
      <4>1. ASSUME NEW n \in FrameNames, draft' = [changed EXCEPT !.frame.name = n]
            PROVE  \E frame : /\ draft' = [frame |-> frame, edits |-> draft.edits + 1,
                                           origin |-> draft.origin]
                              /\ Named(frame, FrameNames)
        <5> DEFINE frame == [name |-> n, own |-> draft.frame.own, of |-> draft.frame.of,
                             under |-> draft.frame.under]
        <5>1. draft' = [frame |-> frame, edits |-> draft.edits + 1, origin |-> draft.origin]
          BY <3>1, <3>2, <4>1
        <5>2. Named(frame, FrameNames)
          BY DEF Named
        <5> QED
          BY <5>1, <5>2
      <4>2. ASSUME NEW own, draft' = [changed EXCEPT !.frame.own = own]
            PROVE  \E frame : /\ draft' = [frame |-> frame, edits |-> draft.edits + 1,
                                           origin |-> draft.origin]
                              /\ Named(frame, FrameNames)
        <5> DEFINE frame == [name |-> draft.frame.name, own |-> own, of |-> draft.frame.of,
                             under |-> draft.frame.under]
        <5>1. draft' = [frame |-> frame, edits |-> draft.edits + 1, origin |-> draft.origin]
          BY <3>1, <3>2, <4>2
        <5>2. Named(frame, FrameNames)
          BY <3>1 DEF Named
        <5> QED
          BY <5>1, <5>2
      <4>3. ASSUME NEW e \in typeEntries,
                   draft' = [changed EXCEPT !.frame.of = e.def.name,
                                            !.frame.under = Under(types, e.def.name)]
            PROVE  \E frame : /\ draft' = [frame |-> frame, edits |-> draft.edits + 1,
                                           origin |-> draft.origin]
                              /\ Named(frame, FrameNames)
        <5> DEFINE frame == [name |-> draft.frame.name, own |-> draft.frame.own,
                             of |-> e.def.name, under |-> Under(types, e.def.name)]
        <5>1. draft' = [frame |-> frame, edits |-> draft.edits + 1, origin |-> draft.origin]
          BY <3>1, <3>2, <4>3
        <5>2. Named(frame, FrameNames)
          BY <3>1 DEF Named
        <5> QED
          BY <5>1, <5>2
      <4> QED
        BY <3>3, <4>1, <4>2, <4>3
    <3> QED
      BY <3>1, <3>4 DEF DraftTyped
  <2> QED
    BY <2>1, <2>2, <2>3, <2>4 DEF Reload, CancelEdit, SaveDraft, RemovedOutside, DeleteSelected
<1>7. (typeDraft' # None => (typeDraft'.forField => draft' # None)) /\ Rewritable'
  BY <1>1, <1>2, <1>4 DEF TypeInv, Rewritable
<1>8. spoilt' \in BOOLEAN
  BY DEF TypeInv, Reload, BeginEdit, BeginNew, CancelEdit, EditFrame, SaveDraft,
         RemovedOutside, DeleteSelected
<1> QED
  BY <1>0, <1>1, <1>3, <1>4, <1>5, <1>6, <1>7, <1>8 DEF TypeInv

LEMMA NewTypeFits ==
  ASSUME TypeInv, SaveTypeDraft \/ ReviewType, typeDraft.origin = None
  PROVE  disk.types[TypeFile[typeDraft.def.name]] = <<>>
<1>1. typeDraft # None /\ (typeDraft.passed \/ ~TypeProblem)
  BY DEF SaveTypeDraft, ReviewType
<1>2. CASE typeDraft.passed
  BY <1>1, <1>2 DEF TypeInv, Rewritable
<1>3. CASE ~TypeProblem
  BY <1>3 DEF TypeProblem, IsThere, Holds
<1> QED
  BY <1>1, <1>2, <1>3

(* What saving a type may leave on the disk: all of it, with its file      *)
(* moved, some of it, or none.  A new type has no file to move.            *)
TypeKept(pending) ==
  \A f \in ToSet(TypeFiles) : \A i \in DOMAIN disk.types[f] :
    /\ i \in DOMAIN pending.types[f]
    /\ SavedOver(f, i) \/ pending.types[f][i].name = disk.types[f][i].name
OnlyWrites(pending, file) ==
  /\ pending.frames = disk.frames
  /\ \A f \in ToSet(TypeFiles) \ {file} : pending.types[f] = disk.types[f]

LEMMA SaveTypeWrites ==
  ASSUME TypeInv, SaveTypeDraft
  PROVE  LET pending == PendingForTypeDraft IN
         /\ IsFolder(pending) /\ SameFrames(pending) /\ TypeKept(pending)
         /\ typeDraft.origin = None
            => OnlyWrites(pending, TypeFile[typeDraft.def.name])
         /\ \/ disk' = MoveTypeFile(pending)
            \/ disk' = disk
            \/ disk' = pending /\ typeDraft.origin # None
            \/ WriteFails(pending)
<1>1. typeDraft # None
  BY DEF SaveTypeDraft
<1>2. /\ IsFolder(disk) /\ FramesListed(entries) /\ TypesListed(typeEntries)
      /\ TypeDraftTyped(typeDraft)
  BY DEF TypeInv
<1>3. typeDraft.origin = None => disk.types[TypeFile[typeDraft.def.name]] = <<>>
  BY NewTypeFits
<1>4. /\ IsFolder(PendingForTypeDraft) /\ SameFrames(PendingForTypeDraft)
      /\ TypeKept(PendingForTypeDraft)
      /\ typeDraft.origin = None
         => OnlyWrites(PendingForTypeDraft, TypeFile[typeDraft.def.name])
  BY <1>1, <1>2, <1>3, PendingHolds DEF TypeKept, OnlyWrites
<1>5. \/ disk' = MoveTypeFile(PendingForTypeDraft) \/ disk' = disk
      \/ /\ disk' = PendingForTypeDraft
         /\ MoveTypeFile(PendingForTypeDraft) # PendingForTypeDraft
      \/ WriteFails(PendingForTypeDraft)
  BY DEF SaveTypeDraft
<1>6. MoveTypeFile(PendingForTypeDraft) # PendingForTypeDraft => typeDraft.origin # None
  BY DEF MoveTypeFile
<1> QED
  BY <1>4, <1>5, <1>6

LEMMA HeldRetypedHolds ==
  ASSUME TypeInv, typeDraft # None
  PROVE  /\ DraftTyped(HeldRetyped)
         /\ typeDraft.forField => HeldRetyped = draft /\ draft # None
<1>1. DraftTyped(draft) /\ TypeDraftTyped(typeDraft)
      /\ (typeDraft.forField => draft # None)
  BY DEF TypeInv
<1>2. CASE draft # None /\ Renamed
  <2> DEFINE frame == Retype(draft.frame, WasNamed, typeDraft.def.name)
  <2>1. Named(frame, FrameNames)
    BY <1>1, <1>2, ChangedKeepsItsName DEF DraftTyped
  <2> HIDE DEF frame
  <2>2. draft = [frame |-> draft.frame, edits |-> draft.edits, origin |-> draft.origin]
        /\ draft.origin \in ToSet(FrameFiles) \cup {None}
    BY <1>1, <1>2 DEF DraftTyped
  <2>3. HeldRetyped = [draft EXCEPT !.frame = frame]
    BY <1>2 DEF HeldRetyped, frame
  <2>4. HeldRetyped = [frame |-> frame, edits |-> draft.edits, origin |-> draft.origin]
    BY <2>2, <2>3
  <2>5. DraftTyped(HeldRetyped)
    BY <2>1, <2>2, <2>4 DEF DraftTyped
  <2>6. typeDraft.origin # None
    BY <1>2 DEF Renamed, WasNamed
  <2> QED
    BY <1>1, <2>5, <2>6 DEF TypeDraftTyped
<1>3. CASE ~(draft # None /\ Renamed)
  BY <1>1, <1>3 DEF HeldRetyped
<1> QED
  BY <1>2, <1>3

LEMMA RefreshedHolds ==
  ASSUME NEW d, DraftTyped(d), NEW library
  PROVE  DraftTyped(Refreshed(d, library))
<1>1. CASE Refreshed(d, library) = d
  BY <1>1
<1>2. CASE d # None /\ Refreshed(d, library) # d
  <2> DEFINE under == Under(library, d.frame.of)
             frame == [name |-> d.frame.name, own |-> d.frame.own, of |-> d.frame.of,
                       under |-> under]
  <2>1. Refreshed(d, library) = [d EXCEPT !.frame.under = under]
    BY <1>2 DEF Refreshed
  <2> HIDE DEF under
  <2>2. /\ d = [frame |-> d.frame, edits |-> d.edits, origin |-> d.origin]
        /\ d.frame = [name |-> d.frame.name, own |-> d.frame.own, of |-> d.frame.of,
                      under |-> d.frame.under]
        /\ d.frame.name \in FrameNames /\ d.origin \in ToSet(FrameFiles) \cup {None}
    BY <1>2 DEF DraftTyped, Named
  <2>3. Refreshed(d, library) = [frame |-> frame, edits |-> d.edits, origin |-> d.origin]
    BY <2>1, <2>2
  <2>4. Named(frame, FrameNames)
    BY <2>2 DEF Named
  <2> HIDE DEF frame
  <2> QED
    BY <2>2, <2>3, <2>4 DEF DraftTyped
<1> QED
  BY <1>1, <1>2 DEF Refreshed

LEMMA GivenHolds ==
  ASSUME TypeInv, typeDraft # None, NEW library
  PROVE  DraftTyped(IF typeDraft.forField /\ Instantiates(library, typeDraft.def.name)
                    THEN [HeldRetyped EXCEPT !.frame.of = typeDraft.def.name]
                    ELSE HeldRetyped)
<1>1. CASE typeDraft.forField /\ Instantiates(library, typeDraft.def.name)
  <2> DEFINE frame == [name |-> draft.frame.name, own |-> draft.frame.own,
                       of |-> typeDraft.def.name, under |-> draft.frame.under]
             given == [draft EXCEPT !.frame.of = typeDraft.def.name]
  <2>1. HeldRetyped = draft /\ draft # None
    BY <1>1, HeldRetypedHolds
  <2>2. /\ draft = [frame |-> draft.frame, edits |-> draft.edits, origin |-> draft.origin]
        /\ draft.frame = [name |-> draft.frame.name, own |-> draft.frame.own,
                          of |-> draft.frame.of, under |-> draft.frame.under]
        /\ draft.frame.name \in FrameNames
        /\ draft.origin \in ToSet(FrameFiles) \cup {None}
    BY <2>1 DEF TypeInv, DraftTyped, Named
  <2>3. given = [frame |-> frame, edits |-> draft.edits, origin |-> draft.origin]
    BY <2>2
  <2>4. Named(frame, FrameNames)
    BY <2>2 DEF Named
  <2> HIDE DEF frame
  <2>5. DraftTyped(given)
    BY <2>2, <2>3, <2>4 DEF DraftTyped
  <2> QED
    BY <1>1, <2>1, <2>5
<1>2. CASE ~(typeDraft.forField /\ Instantiates(library, typeDraft.def.name))
  BY <1>2, HeldRetypedHolds
<1> QED
  BY <1>1, <1>2

LEMMA SaveTypeStep ==
  ASSUME TypeInv, SaveTypeDraft
  PROVE  TypeInv'
<1> USE DEF loaded
<1> DEFINE pending == PendingForTypeDraft
           given(library) ==
             IF typeDraft.forField /\ Instantiates(library, typeDraft.def.name)
             THEN [HeldRetyped EXCEPT !.frame.of = typeDraft.def.name]
             ELSE HeldRetyped
           file == TypeFile[typeDraft.def.name]
<1>0. /\ IsFolder(disk) /\ failures \in Nat
      /\ FramesListed(entries) /\ TypesListed(typeEntries)
      /\ DraftTyped(draft) /\ TypeDraftTyped(typeDraft) /\ typeDraft # None
  BY DEF TypeInv, SaveTypeDraft
<1>1. failures' \in Nat /\ spoilt' \in BOOLEAN
  <2>1. failures' = failures \/ Failing
    BY DEF SaveTypeDraft
  <2>2. \/ spoilt' = spoilt
        \/ spoilt' = (spoilt \/ Breaks \/ (Renamed /\ Narrowing(WasNamed) # {}))
    BY DEF SaveTypeDraft
  <2>3. (spoilt \/ Breaks \/ (Renamed /\ Narrowing(WasNamed) # {})) \in BOOLEAN
    OBVIOUS
  <2>4. spoilt \in BOOLEAN
    BY DEF TypeInv
  <2>5. spoilt' \in BOOLEAN
    BY <2>2, <2>3, <2>4, Zenon
  <2>6. failures' \in Nat
    BY <1>0, <2>1 DEF Failing
  <2> QED
    BY <2>5, <2>6
<1>2. /\ IsFolder(pending)
      /\ typeDraft.origin = None => OnlyWrites(pending, file)
      /\ \/ disk' = MoveTypeFile(pending) \/ disk' = disk
         \/ disk' = pending /\ typeDraft.origin # None
         \/ WriteFails(pending)
  BY SaveTypeWrites
<1>3. IsFolder(disk')
  BY <1>0, <1>2, MoveHolds, FailedHolds
<1>4. \/ /\ disk' = MoveTypeFile(pending) /\ LoadFrom(disk')
         /\ \E library : draft' = Refreshed(given(library), library)
         /\ typeDraft' = None
      \/ /\ draft' = HeldRetyped /\ UNCHANGED loaded
         /\ typeDraft' = [typeDraft EXCEPT !.passed = TRUE]
         /\ \/ disk' = disk
            \/ disk' = pending /\ typeDraft.origin # None
            \/ WriteFails(pending)
  <2>1. MoveTypeFile(pending) # pending => typeDraft.origin # None
    BY DEF MoveTypeFile
  <2> DEFINE after == MoveTypeFile(pending)
             read == Merge(after.types, TypeFiles)
  <2>3. CASE /\ disk' = after /\ LoadFrom(after)
             /\ draft' = Refreshed(given(read), read) /\ typeDraft' = None
    <3>1. \E library : draft' = Refreshed(given(library), library)
      <4> HIDE DEF read, given
      <4> QED
        BY <2>3
    <3>2. LoadFrom(disk')
      <4> HIDE DEF after
      <4> QED
        BY <2>3 DEF LoadFrom
    <3> QED
      BY <2>3, <3>1, <3>2
  <2>4. CASE /\ draft' = HeldRetyped /\ UNCHANGED <<disk, loaded>>
             /\ typeDraft' = [typeDraft EXCEPT !.passed = TRUE]
    <3> HIDE DEF pending
    <3> QED
      BY <2>4
  <2>5. CASE /\ draft' = HeldRetyped /\ UNCHANGED loaded
             /\ typeDraft' = [typeDraft EXCEPT !.passed = TRUE]
             /\ WriteFails(pending) \/ (after # pending /\ disk' = pending)
    <3>1. WriteFails(pending) \/ (disk' = pending /\ typeDraft.origin # None)
      <4> HIDE DEF pending
      <4> QED
        BY <2>1, <2>5
    <3> QED
      BY <2>5, <3>1, Zenon
  <2>6. \/ /\ disk' = after /\ LoadFrom(after)
           /\ draft' = Refreshed(given(read), read) /\ typeDraft' = None
        \/ /\ draft' = HeldRetyped /\ UNCHANGED <<disk, loaded>>
           /\ typeDraft' = [typeDraft EXCEPT !.passed = TRUE]
        \/ /\ draft' = HeldRetyped /\ UNCHANGED loaded
           /\ typeDraft' = [typeDraft EXCEPT !.passed = TRUE]
           /\ WriteFails(pending) \/ (after # pending /\ disk' = pending)
    BY DEF SaveTypeDraft
  <2> HIDE DEF pending, given, after, read
  <2> QED
    BY <2>3, <2>4, <2>5, <2>6
<1> HIDE DEF pending, given, file
<1>5. CASE /\ disk' = MoveTypeFile(pending) /\ LoadFrom(disk')
           /\ \E library : draft' = Refreshed(given(library), library)
           /\ typeDraft' = None
  <2>1. FramesListed(entries') /\ TypesListed(typeEntries')
    BY <1>3, <1>5, LoadedListed
  <2>2. PICK library : draft' = Refreshed(given(library), library)
    BY <1>5
  <2>3. DraftTyped(given(library))
    BY <1>0, GivenHolds DEF given
  <2>4. DraftTyped(draft')
    BY <2>2, <2>3, RefreshedHolds
  <2> QED
    BY <1>1, <1>3, <1>5, <2>1, <2>4 DEF TypeInv, TypeDraftTyped, Rewritable
<1>6. CASE /\ draft' = HeldRetyped /\ UNCHANGED loaded
           /\ typeDraft' = [typeDraft EXCEPT !.passed = TRUE]
           /\ \/ disk' = disk
              \/ disk' = pending /\ typeDraft.origin # None
              \/ WriteFails(pending)
  <2>1. FramesListed(entries') /\ TypesListed(typeEntries')
    BY <1>0, <1>6
  <2>2. /\ DraftTyped(draft')
        /\ typeDraft.forField => draft' # None
    BY <1>0, <1>6, HeldRetypedHolds
  <2>3. typeDraft' = [def |-> typeDraft.def, forField |-> typeDraft.forField, passed |-> TRUE,
                      edits |-> typeDraft.edits, origin |-> typeDraft.origin]
    BY <1>0, <1>6 DEF TypeDraftTyped
  <2>4. TypeDraftTyped(typeDraft')
    BY <1>0, <2>3 DEF TypeDraftTyped
  <2>5. Rewritable'
    <3> SUFFICES ASSUME typeDraft.origin = None
                 PROVE  disk'.types[TypeFile[typeDraft.def.name]] = <<>>
      BY <2>3 DEF Rewritable
    <3>1. file \in ToSet(TypeFiles)
      BY <1>0, LibraryAssumption DEF TypeDraftTyped, Named, file
    <3>2. disk.types[file] = <<>>
      BY NewTypeFits DEF file
    <3>3. OnlyWrites(pending, file)
      BY <1>2
    <3>4. disk'.types[file] = <<>>
      BY <1>0, <1>2, <1>6, <3>1, <3>2, <3>3, FailedHolds DEF OnlyWrites
    <3> QED
      BY <3>4 DEF file
  <2> QED
    BY <1>1, <1>3, <2>1, <2>2, <2>3, <2>4, <2>5 DEF TypeInv
<1> QED
  BY <1>4, <1>5, <1>6

(* The folder a type is deleted from, as the action writes it, and the     *)
(* frame underneath, with the type written out if it named it.             *)
Inlined(e) == IF draft # None /\ draft.frame.of = e.def.name
              THEN [draft EXCEPT !.frame = InlineIn(@)] ELSE draft

LEMMA DeleteTypeWrites ==
  ASSUME TypeInv, DeleteSelectedType
  PROVE  \E e \in typeEntries :
           /\ IsFolder(PendingDelete(e)) /\ SameFrames(PendingDelete(e))
           /\ \/ /\ disk' = PendingDelete(e) /\ LoadFrom(disk') /\ UNCHANGED failures
                 /\ \E library : draft' = Refreshed(Inlined(e), library)
                 /\ spoilt' = (spoilt \/ Narrowing(e.def.name) # {})
              \/ UNCHANGED <<disk, loaded, failures, draft, spoilt>>
              \/ /\ disk' = PendingDelete(e) \/ WriteFails(PendingDelete(e))
                 /\ Failing /\ UNCHANGED <<loaded, draft, spoilt>>
<1>1. PICK e \in typeEntries :
        \/ /\ disk' = PendingDelete(e) /\ LoadFrom(disk') /\ UNCHANGED failures
           /\ \E library : draft' = Refreshed(Inlined(e), library)
           /\ spoilt' = (spoilt \/ Narrowing(e.def.name) # {})
        \/ UNCHANGED <<disk, loaded, failures, draft, spoilt>>
        \/ /\ disk' = PendingDelete(e) \/ WriteFails(PendingDelete(e))
           /\ Failing /\ UNCHANGED <<loaded, draft, spoilt>>
  BY DEF DeleteSelectedType, PendingDelete, Rewritten, Struck, Inlined
<1>2. IsFolder(PendingDelete(e)) /\ SameFrames(PendingDelete(e))
  BY DeleteHolds DEF TypeInv
<1> QED
  BY <1>1, <1>2

LEMMA InlinedHolds ==
  ASSUME TypeInv, NEW e
  PROVE  DraftTyped(Inlined(e))
<1>1. CASE draft # None /\ draft.frame.of = e.def.name
  <2> DEFINE frame == InlineIn(draft.frame)
  <2>1. /\ draft = [frame |-> draft.frame, edits |-> draft.edits, origin |-> draft.origin]
        /\ draft.origin \in ToSet(FrameFiles) \cup {None}
        /\ Named(draft.frame, FrameNames)
    BY <1>1 DEF TypeInv, DraftTyped
  <2>2. Named(frame, FrameNames)
    <3> DEFINE wire == Wire(draft.frame)
    <3>1. frame = [draft.frame EXCEPT !.own = wire, !.of = None, !.under = <<>>]
      BY DEF InlineIn
    <3> HIDE DEF wire, frame
    <3> QED
      BY <2>1, <3>1 DEF Named
  <2>3. Inlined(e) = [draft EXCEPT !.frame = frame]
    BY <1>1 DEF Inlined
  <2> HIDE DEF frame
  <2>4. Inlined(e) = [frame |-> frame, edits |-> draft.edits, origin |-> draft.origin]
    BY <2>1, <2>3
  <2> QED
    BY <2>1, <2>2, <2>4 DEF DraftTyped
<1>2. CASE ~(draft # None /\ draft.frame.of = e.def.name)
  BY <1>2 DEF Inlined, TypeInv
<1> QED
  BY <1>1, <1>2

LEMMA DeleteTypeStep ==
  ASSUME TypeInv, DeleteSelectedType
  PROVE  TypeInv'
<1> USE DEF loaded
<1>0. /\ IsFolder(disk) /\ failures \in Nat /\ spoilt \in BOOLEAN
      /\ FramesListed(entries) /\ TypesListed(typeEntries)
      /\ DraftTyped(draft) /\ TypeDraftTyped(typeDraft)
  BY DEF TypeInv
<1>1. typeDraft' = typeDraft /\ typeDraft = None
  BY DEF DeleteSelectedType
<1>2. PICK e \in typeEntries :
        /\ IsFolder(PendingDelete(e))
        /\ \/ /\ disk' = PendingDelete(e) /\ LoadFrom(disk') /\ UNCHANGED failures
              /\ \E library : draft' = Refreshed(Inlined(e), library)
              /\ spoilt' = (spoilt \/ Narrowing(e.def.name) # {})
           \/ UNCHANGED <<disk, loaded, failures, draft, spoilt>>
           \/ /\ disk' = PendingDelete(e) \/ WriteFails(PendingDelete(e))
              /\ Failing /\ UNCHANGED <<loaded, draft, spoilt>>
  BY DeleteTypeWrites
<1>3. IsFolder(disk')
  BY <1>0, <1>2, FailedHolds
<1>4. failures' \in Nat
  BY <1>0, <1>2 DEF Failing
<1>5. FramesListed(entries') /\ TypesListed(typeEntries')
  BY <1>0, <1>2, <1>3, LoadedListed
<1>6. DraftTyped(draft')
  BY <1>0, <1>2, InlinedHolds, RefreshedHolds
<1>7. spoilt' \in BOOLEAN
  BY <1>0, <1>2
<1> QED
  BY <1>0, <1>1, <1>3, <1>4, <1>5, <1>6, <1>7 DEF TypeInv, Rewritable

LEMMA TypesStep ==
  ASSUME TypeInv,
         BeginTypeEdit \/ BeginNewType \/ CancelTypeEdit \/ EditType \/ ReviewType
  PROVE  TypeInv'
<1> USE DEF EditingType, loaded
<1>0. /\ IsFolder(disk) /\ failures \in Nat
      /\ FramesListed(entries) /\ TypesListed(typeEntries)
      /\ DraftTyped(draft) /\ TypeDraftTyped(typeDraft)
  BY DEF TypeInv
<1>1. /\ disk' = disk /\ failures' = failures /\ draft' = draft
      /\ entries' = entries /\ typeEntries' = typeEntries /\ spoilt' = spoilt
  BY DEF BeginTypeEdit, BeginNewType, CancelTypeEdit, EditType, ReviewType
<1>2. /\ TypeDraftTyped(typeDraft') /\ Rewritable'
      /\ typeDraft' # None => (typeDraft'.forField => draft # None)
  <2>1. CASE BeginTypeEdit
    <3>1. PICK e \in typeEntries : typeDraft' =
            [def |-> e.def, forField |-> FALSE, passed |-> FALSE, edits |-> EditsBelow,
             origin |-> [file |-> e.file, name |-> e.def.name]]
      BY <2>1 DEF BeginTypeEdit
    <3>2. e.file \in ToSet(TypeFiles) /\ Named(e.def, TypeNames)
      BY <1>0 DEF TypesListed
    <3> QED
      BY <3>1, <3>2 DEF TypeDraftTyped, Rewritable
  <2>2. CASE BeginNewType
    <3>1. PICK n \in TypeNames : typeDraft' =
            [def |-> [name |-> n, own |-> <<>>, of |-> None, under |-> <<>>],
             forField |-> draft # None, passed |-> FALSE,
             edits |-> EditsBelow, origin |-> None]
      BY <2>2, NewNames DEF BeginNewType
    <3>2. /\ typeDraft'.def = [name |-> n, own |-> <<>>, of |-> None, under |-> <<>>]
          /\ typeDraft'.passed = FALSE /\ typeDraft'.origin = None
          /\ typeDraft'.forField = (draft # None)
          /\ typeDraft' = [def |-> typeDraft'.def, forField |-> typeDraft'.forField,
                           passed |-> typeDraft'.passed, edits |-> typeDraft'.edits,
                           origin |-> typeDraft'.origin]
      BY <3>1
    <3>3. Named(typeDraft'.def, TypeNames)
      BY <3>2 DEF Named
    <3> QED
      BY <3>2, <3>3 DEF TypeDraftTyped, Rewritable
  <2>3. CASE CancelTypeEdit
    BY <2>3 DEF CancelTypeEdit, TypeDraftTyped, Rewritable
  <2>4. CASE EditType
    <3> DEFINE changed == [typeDraft EXCEPT !.edits = @ + 1, !.passed = FALSE]
    <3>1. /\ typeDraft # None
          /\ typeDraft = [def |-> typeDraft.def, forField |-> typeDraft.forField,
                          passed |-> typeDraft.passed, edits |-> typeDraft.edits,
                          origin |-> typeDraft.origin]
          /\ typeDraft.def = [name |-> typeDraft.def.name, own |-> typeDraft.def.own,
                              of |-> typeDraft.def.of, under |-> typeDraft.def.under]
          /\ typeDraft.def.name \in TypeNames
      BY <1>0, <2>4 DEF EditType, TypeDraftTyped, Named
    <3>2. changed = [def |-> typeDraft.def, forField |-> typeDraft.forField,
                     passed |-> FALSE, edits |-> typeDraft.edits + 1,
                     origin |-> typeDraft.origin]
      <4> DEFINE no == FALSE
      <4>1. typeDraft = [def |-> typeDraft.def, forField |-> typeDraft.forField,
                         passed |-> typeDraft.passed, edits |-> typeDraft.edits,
                         origin |-> typeDraft.origin]
        BY <3>1
      <4>2. changed = [typeDraft EXCEPT !.edits = @ + 1, !.passed = no]
        OBVIOUS
      <4> HIDE DEF no, changed
      <4>3. changed = [def |-> typeDraft.def, forField |-> typeDraft.forField,
                       passed |-> no, edits |-> typeDraft.edits + 1,
                       origin |-> typeDraft.origin]
        BY <4>1, <4>2
      <4> QED
        BY <4>3 DEF no
    <3>3. \/ \E n \in TypeNames : typeDraft' = [changed EXCEPT !.def.name = n]
          \/ \E own \in Owns : typeDraft' = [changed EXCEPT !.def.own = own]
          \/ \E own \in Owns : typeDraft' =
               [changed EXCEPT !.def = [@ EXCEPT !.own = own, !.of = None, !.under = <<>>]]
          \/ \E e \in typeEntries :
               typeDraft' = [changed EXCEPT !.def.of = e.def.name,
                                            !.def.under = Under(types, e.def.name)]
      BY <2>4 DEF EditType
    <3> HIDE DEF changed
    <3> DEFINE edited(def) ==
           [def |-> def, forField |-> typeDraft.forField, passed |-> FALSE,
            edits |-> typeDraft.edits + 1, origin |-> typeDraft.origin]
    <3>4. \E def : typeDraft' = edited(def) /\ Named(def, TypeNames)
      <4>1. ASSUME NEW n \in TypeNames, typeDraft' = [changed EXCEPT !.def.name = n]
            PROVE  \E def : typeDraft' = edited(def) /\ Named(def, TypeNames)
        <5> DEFINE def == [name |-> n, own |-> typeDraft.def.own, of |-> typeDraft.def.of,
                           under |-> typeDraft.def.under]
        <5>1. typeDraft' = edited(def)
          BY <3>1, <3>2, <4>1
        <5>2. Named(def, TypeNames)
          BY DEF Named
        <5> QED
          BY <5>1, <5>2
      <4>2. ASSUME NEW own, typeDraft' = [changed EXCEPT !.def.own = own]
            PROVE  \E def : typeDraft' = edited(def) /\ Named(def, TypeNames)
        <5> DEFINE def == [name |-> typeDraft.def.name, own |-> own, of |-> typeDraft.def.of,
                           under |-> typeDraft.def.under]
        <5>1. typeDraft' = edited(def)
          BY <3>1, <3>2, <4>2
        <5>2. Named(def, TypeNames)
          BY <3>1 DEF Named
        <5> QED
          BY <5>1, <5>2
      <4>4. ASSUME NEW own, typeDraft' =
              [changed EXCEPT !.def = [@ EXCEPT !.own = own, !.of = None, !.under = <<>>]]
            PROVE  \E def : typeDraft' = edited(def) /\ Named(def, TypeNames)
        <5> DEFINE def == [name |-> typeDraft.def.name, own |-> own, of |-> None, under |-> <<>>]
        <5>1. typeDraft' = edited(def)
          BY <3>1, <3>2, <4>4
        <5>2. Named(def, TypeNames)
          BY <3>1 DEF Named
        <5> QED
          BY <5>1, <5>2
      <4>3. ASSUME NEW e \in typeEntries, typeDraft' =
                     [changed EXCEPT !.def.of = e.def.name,
                                     !.def.under = Under(types, e.def.name)]
            PROVE  \E def : typeDraft' = edited(def) /\ Named(def, TypeNames)
        <5> DEFINE def == [name |-> typeDraft.def.name, own |-> typeDraft.def.own,
                           of |-> e.def.name, under |-> Under(types, e.def.name)]
        <5>1. typeDraft' = edited(def)
          BY <3>1, <3>2, <4>3
        <5>2. Named(def, TypeNames)
          BY <3>1 DEF Named
        <5> QED
          BY <5>1, <5>2
      <4> QED
        BY <3>3, <4>1, <4>2, <4>3, <4>4
    <3>5. PICK def : typeDraft' = edited(def) /\ Named(def, TypeNames)
      BY <3>4
    <3>6. /\ typeDraft' = [def |-> typeDraft'.def, forField |-> typeDraft'.forField,
                           passed |-> typeDraft'.passed, edits |-> typeDraft'.edits,
                           origin |-> typeDraft'.origin]
          /\ typeDraft'.def = def /\ typeDraft'.passed = FALSE
          /\ typeDraft'.forField = typeDraft.forField
          /\ typeDraft'.origin = typeDraft.origin
      BY <3>5
    <3>7. /\ typeDraft.forField \in BOOLEAN
          /\ typeDraft.origin # None => typeDraft.origin.file \in ToSet(TypeFiles)
          /\ typeDraft.forField => typeDraft.origin = None
          /\ typeDraft.forField => draft # None
      BY <3>1 DEF TypeInv, TypeDraftTyped
    <3> HIDE DEF edited
    <3>8. TypeDraftTyped(typeDraft')
      BY <3>5, <3>6, <3>7 DEF TypeDraftTyped
    <3>9. Rewritable'
      BY <3>6 DEF Rewritable
    <3> QED
      BY <3>6, <3>7, <3>8, <3>9
  <2>5. CASE ReviewType
    <3>1. /\ typeDraft # None
          /\ typeDraft' = [typeDraft EXCEPT !.passed = TRUE]
      BY <2>5 DEF ReviewType
    <3>2. typeDraft' = [def |-> typeDraft.def, forField |-> typeDraft.forField, passed |-> TRUE,
                        edits |-> typeDraft.edits, origin |-> typeDraft.origin]
      BY <1>0, <3>1 DEF TypeDraftTyped
    <3>3. TypeDraftTyped(typeDraft') /\ (typeDraft'.forField => draft # None)
      BY <1>0, <3>1, <3>2 DEF TypeDraftTyped, TypeInv
    <3>4. Rewritable'
      BY <1>1, <2>5, <3>2, NewTypeFits DEF Rewritable
    <3> QED
      BY <3>3, <3>4
  <2> QED
    BY <2>1, <2>2, <2>3, <2>4, <2>5
<1> QED
  BY <1>0, <1>1, <1>2 DEF TypeInv

LEMMA TypeStep ==
  ASSUME TypeInv, [Next]_vars
  PROVE  TypeInv'
<1>1. CASE Next
  BY <1>1, FramesStep, TypesStep, SaveTypeStep, DeleteTypeStep DEF Next
<1>2. CASE UNCHANGED vars
  BY <1>2 DEF vars, loaded, drafts, TypeInv, Rewritable
<1> QED
  BY <1>1, <1>2

(* Every file, entry and draft of the library has its type, whatever was   *)
(* refused half way or removed by someone else.                            *)
THEOREM LibraryTyped == Spec => []TypeInv
<1>1. Init => TypeInv
  BY TypeInit
<1>2. TypeInv /\ [Next]_vars => TypeInv'
  BY TypeStep
<1> QED
  BY <1>1, <1>2, PTL DEF Spec

-----------------------------------------------------------------------------
(* The list is the folder.                                                 *)

LEMMA ListOfLoaded ==
  ASSUME LoadFrom(disk')
  PROVE  ListIsDisk'
BY DEF LoadFrom, ListIsDisk

LEMMA ListSaved ==
  ASSUME TypeInv, ListIsDisk, SaveDraft, failures' = 0
  PROVE  ListIsDisk'
<1> DEFINE wanted == FrameFile[draft.frame.name]
           shown(f) == Moved[f] # Absent /\ Loads(types, Moved[f])
           was(f) == disk.frames[f] # Absent /\ Loads(types, disk.frames[f])
<1>1. draft # None /\ failures \in Nat
  BY DEF SaveDraft, TypeInv
<1>2. /\ disk' = [disk EXCEPT !.frames = Moved] /\ TakeIn(wanted, draft)
      /\ UNCHANGED <<types, typeEntries, failures>> /\ Savable
  <2>1. ~Failing
    BY <1>1 DEF Failing
  <2> QED
    BY <2>1 DEF SaveDraft, Home, Written, Moved
<1>3. /\ disk'.frames = Moved /\ disk'.types = disk.types
      /\ Home \in ToSet(FrameFiles) /\ wanted \in ToSet(FrameFiles)
      /\ \A f \in ToSet(FrameFiles) :
           Moved[f] = IF f = wanted THEN Text(draft.frame)
                      ELSE IF f = Home THEN Absent ELSE disk.frames[f]
  BY <1>1, <1>2, SavedHolds, DraftHolds
<1>4. /\ types = Merge(disk.types, TypeFiles)
      /\ typeEntries = Attributed(disk.types, types)
      /\ entries = ReadFrames(disk.frames, types)
  BY <1>1, <1>2 DEF ListIsDisk
<1>5. /\ shown(wanted) /\ Read(types, Moved[wanted]) = draft.frame
  <2>1. Text(draft.frame) # Absent /\ Moved[wanted] = Text(draft.frame)
    BY <1>1, <1>3, DraftHolds
  <2>2. Loads(types, draft.frame) /\ Read(types, Text(draft.frame)) = draft.frame
    BY <1>2 DEF Savable
  <2>3. Text(draft.frame).of = draft.frame.of /\ Text(draft.frame).own = draft.frame.own
    BY DEF Text
  <2> QED
    BY <2>1, <2>2, <2>3 DEF Loads, Agrees
<1>6. ASSUME NEW f \in ToSet(FrameFiles)
      PROVE  /\ (f # wanted /\ shown(f)) <=> (f \notin {wanted, draft.origin} /\ was(f))
             /\ (f # wanted /\ shown(f)) => Moved[f] = disk.frames[f]
  <2>1. f # None
    BY LibraryAssumption
  <2>2. f = Home => (f = wanted \/ f = draft.origin)
    BY DEF Home
  <2>3. f = draft.origin => f = Home
    BY <2>1 DEF Home
  <2> QED
    BY <1>3, <2>2, <2>3
<1>7. entries' = {e \in entries : e.file \notin {wanted, draft.origin}}
                 \cup {[file |-> wanted, frame |-> draft.frame]}
  BY <1>2 DEF TakeIn
<1>8. entries = {[file |-> f, frame |-> Read(types, disk.frames[f])] :
                  f \in {g \in ToSet(FrameFiles) : was(g)}}
  BY <1>4 DEF ReadFrames
<1>9. ReadFrames(Moved, types) = {[file |-> f, frame |-> Read(types, Moved[f])] :
                                   f \in {g \in ToSet(FrameFiles) : shown(g)}}
  BY DEF ReadFrames
<1> HIDE DEF shown, was, wanted
<1>10. ASSUME NEW e \in entries' PROVE e \in ReadFrames(Moved, types)
  <2>1. CASE e = [file |-> wanted, frame |-> draft.frame]
    BY <1>3, <1>5, <1>9, <2>1
  <2>2. CASE e \in entries /\ e.file \notin {wanted, draft.origin}
    <3>1. PICK f \in ToSet(FrameFiles) :
             was(f) /\ e = [file |-> f, frame |-> Read(types, disk.frames[f])]
      BY <1>8, <2>2
    <3>2. e.file = f
      BY <3>1
    <3>3. shown(f) /\ Moved[f] = disk.frames[f]
      BY <1>6, <2>2, <3>1, <3>2
    <3> QED
      BY <1>9, <3>1, <3>3
  <2> QED
    BY <1>7, <2>1, <2>2
<1>11. ASSUME NEW e \in ReadFrames(Moved, types) PROVE e \in entries'
  <2>1. PICK f \in ToSet(FrameFiles) :
           shown(f) /\ e = [file |-> f, frame |-> Read(types, Moved[f])]
    BY <1>9
  <2>2. CASE f = wanted
    BY <1>5, <1>7, <2>1, <2>2
  <2>3. CASE f # wanted
    <3>1. was(f) /\ f \notin {wanted, draft.origin} /\ Moved[f] = disk.frames[f]
      BY <1>6, <2>1, <2>3
    <3>2. e \in entries /\ e.file = f
      BY <1>8, <2>1, <3>1
    <3> QED
      BY <1>7, <3>1, <3>2
  <2> QED
    BY <2>2, <2>3
<1>12. entries' = ReadFrames(Moved, types)
  BY <1>10, <1>11
<1> QED
  BY <1>2, <1>3, <1>4, <1>12 DEF ListIsDisk

LEMMA ListDeleted ==
  ASSUME TypeInv, ListIsDisk, DeleteSelected, failures' = 0
  PROVE  ListIsDisk'
<1>1. failures \in Nat
  BY DEF TypeInv
<1>2. PICK e \in entries :
        /\ disk' = [disk EXCEPT !.frames[e.file] = Absent]
        /\ entries' = {held \in entries : held.file # e.file}
        /\ UNCHANGED <<types, typeEntries, failures>>
  BY <1>1 DEF DeleteSelected, Failing
<1>3. /\ types = Merge(disk.types, TypeFiles)
      /\ typeEntries = Attributed(disk.types, types)
      /\ entries = ReadFrames(disk.frames, types)
  BY <1>2 DEF ListIsDisk
<1>4. /\ disk'.types = disk.types
      /\ \A f \in ToSet(FrameFiles) :
           disk'.frames[f] = IF f = e.file THEN Absent ELSE disk.frames[f]
  BY <1>2, RemovedHolds DEF TypeInv
<1>5. {held \in ReadFrames(disk.frames, types) : held.file # e.file}
      = ReadFrames(disk'.frames, types)
  <2>1. ASSUME NEW held \in ReadFrames(disk.frames, types), held.file # e.file
        PROVE  held \in ReadFrames(disk'.frames, types)
    BY <1>4, <2>1 DEF ReadFrames
  <2>2. ASSUME NEW held \in ReadFrames(disk'.frames, types)
        PROVE  held \in ReadFrames(disk.frames, types) /\ held.file # e.file
    BY <1>4, <2>2 DEF ReadFrames
  <2> QED
    BY <2>1, <2>2
<1> QED
  BY <1>2, <1>3, <1>4, <1>5 DEF ListIsDisk

LEMMA ListStep ==
  ASSUME TypeInv, ListIsDisk, [Next]_vars
  PROVE  ListIsDisk'
<1> SUFFICES ASSUME failures' = 0 PROVE ListIsDisk'
  BY DEF ListIsDisk
<1> USE DEF loaded
<1>1. failures \in Nat
  BY DEF TypeInv
<1>2. ~Failing
  BY <1>1 DEF Failing
<1>3. CASE /\ UNCHANGED <<disk, loaded, failures>>
  BY <1>3 DEF ListIsDisk
<1>4. CASE Reload
  BY <1>4, ListOfLoaded DEF Reload
<1>5. CASE SaveDraft
  BY <1>5, ListSaved
<1>6. CASE DeleteSelected
  BY <1>6, ListDeleted
<1>7. CASE SaveTypeDraft
  <2>1. \/ LoadFrom(disk')
        \/ UNCHANGED <<disk, loaded, failures>>
    BY <1>2, <1>7 DEF SaveTypeDraft
  <2> QED
    BY <1>3, <2>1, ListOfLoaded
<1>8. CASE DeleteSelectedType
  BY <1>2, <1>3, <1>8, DeleteTypeWrites, ListOfLoaded
<1>9. CASE BeginEdit \/ BeginNew \/ CancelEdit \/ EditFrame
  BY <1>3, <1>9 DEF BeginEdit, BeginNew, CancelEdit, EditFrame, Editing
<1>10. CASE BeginTypeEdit \/ BeginNewType \/ CancelTypeEdit \/ EditType \/ ReviewType
  BY <1>3, <1>10 DEF BeginTypeEdit, BeginNewType, CancelTypeEdit, EditType, ReviewType,
                     EditingType
<1>11. CASE RemovedOutside
  BY <1>2, <1>11 DEF RemovedOutside
<1>12. CASE UNCHANGED vars
  BY <1>3, <1>12 DEF vars
<1> QED
  BY <1>4, <1>5, <1>6, <1>7, <1>8, <1>9, <1>10, <1>11, <1>12 DEF Next

(* Reading the folder again would give the list that is shown: as long as  *)
(* no write was refused and nobody else removed a file, what the saves,    *)
(* renames and deletions patched is what a reload would read (take_in,     *)
(* reload_keeping_the_frame_draft).                                        *)
THEOREM ListIsTheFolder == Spec => []ListIsDisk
<1>1. Init => TypeInv /\ ListIsDisk
  BY TypeInit DEF Init, ListIsDisk
<1>2. TypeInv /\ ListIsDisk /\ [Next]_vars => (TypeInv /\ ListIsDisk)'
  BY TypeStep, ListStep
<1> QED
  BY <1>1, <1>2, PTL DEF Spec

-----------------------------------------------------------------------------
(* Nothing is written over.                                                *)

LEMMA SavedKeeps ==
  ASSUME TypeInv, SaveDraft, draft' = None
  PROVE  /\ disk'.types = disk.types
         /\ \A f \in ToSet(FrameFiles) \ {draft.origin} :
              disk.frames[f] # Absent => disk'.frames[f] = disk.frames[f]
<1> DEFINE wanted == FrameFile[draft.frame.name]
<1>1. IsFolder(disk) /\ draft # None
  BY DEF SaveDraft, TypeInv
<1>2. disk' = [disk EXCEPT !.frames = Moved] /\ ~FileTaken
  BY <1>1 DEF SaveDraft, Home, Written, Moved, Savable
<1>3. /\ disk'.frames = Moved /\ disk'.types = disk.types
      /\ \A f \in ToSet(FrameFiles) :
           Moved[f] = IF f = wanted THEN Text(draft.frame)
                      ELSE IF f = Home THEN Absent ELSE disk.frames[f]
  BY <1>1, <1>2, SavedHolds
<1>4. ASSUME NEW f \in ToSet(FrameFiles) \ {draft.origin}, disk.frames[f] # Absent
      PROVE  disk'.frames[f] = disk.frames[f]
  <2>1. f # wanted
    BY <1>2, <1>4 DEF FileTaken, IsThere, Holds
  <2>2. f # Home
    BY <2>1, <1>4 DEF Home
  <2> QED
    BY <1>3, <2>1, <2>2
<1> QED
  BY <1>3, <1>4

LEMMA SavedTypeKeeps ==
  ASSUME TypeInv, SaveTypeDraft, failures' = failures
  PROVE  /\ \A f \in ToSet(FrameFiles) : disk.frames[f] # Absent =>
              /\ disk'.frames[f] # Absent
              /\ disk'.frames[f].name \in {disk.frames[f].name} \cup ListedIn(f)
         /\ \A f \in ToSet(TypeFiles) : \E g \in {f, TypeFile[typeDraft.def.name]} :
              \A i \in DOMAIN disk.types[f] :
                /\ i \in DOMAIN disk'.types[g]
                /\ SavedOver(f, i) \/ disk'.types[g][i].name = disk.types[f][i].name
<1> DEFINE pending == PendingForTypeDraft
           to == TypeFile[typeDraft.def.name]
<1>1. /\ typeDraft # None /\ TypeDraftTyped(typeDraft)
  BY DEF SaveTypeDraft, TypeInv
<1>2. /\ IsFolder(pending) /\ SameFrames(pending) /\ TypeKept(pending)
  BY SaveTypeWrites
<1>3. disk' \in {disk, MoveTypeFile(pending)}
  <2>1. ~Failing
    BY DEF Failing, TypeInv
  <2> QED
    BY <2>1 DEF SaveTypeDraft
<1> HIDE DEF pending, to
<1>4. disk' = MoveTypeFile(pending) =>
        /\ disk'.frames = pending.frames
        /\ \A f \in ToSet(TypeFiles) : pending.types[f] # <<>> =>
             \E g \in {f, to} : disk'.types[g] = pending.types[f]
  BY <1>1, <1>2, MoveHolds DEF to
<1>7. CASE disk' = disk
  BY <1>7
<1>5. ASSUME NEW f \in ToSet(FrameFiles), disk.frames[f] # Absent,
             disk' = MoveTypeFile(pending)
      PROVE  /\ disk'.frames[f] # Absent
             /\ disk'.frames[f].name \in {disk.frames[f].name} \cup ListedIn(f)
  BY <1>2, <1>4, <1>5 DEF SameFrames, ListedIn
<1>6. ASSUME NEW f \in ToSet(TypeFiles), disk' = MoveTypeFile(pending)
      PROVE  \E g \in {f, to} : \A i \in DOMAIN disk.types[f] :
               /\ i \in DOMAIN disk'.types[g]
               /\ SavedOver(f, i) \/ disk'.types[g][i].name = disk.types[f][i].name
  <2>1. CASE pending.types[f] # <<>>
    BY <1>2, <1>4, <1>6, <2>1 DEF TypeKept
  <2>2. CASE pending.types[f] = <<>>
    <3>1. DOMAIN pending.types[f] = {}
      BY <2>2
    <3>2. DOMAIN disk.types[f] = {}
      BY <1>2, <3>1 DEF TypeKept
    <3> QED
      BY <3>2
  <2> QED
    BY <2>1, <2>2
<1> QED
  BY <1>3, <1>5, <1>6, <1>7 DEF to

(* A type that is deleted is no longer listed where it was.                *)
LEMMA DeletedIsGone ==
  ASSUME TypeInv, DeleteSelectedType, typeEntries' = typeEntries, failures' = failures
  PROVE  disk' = disk
<1>1. failures \in Nat /\ IsFolder(disk) /\ FramesListed(entries) /\ TypesListed(typeEntries)
  BY DEF TypeInv
<1>2. PICK e \in typeEntries :
        \/ disk' = PendingDelete(e) /\ LoadFrom(disk')
        \/ disk' = disk
  <2>1. ~Failing
    BY <1>1 DEF Failing
  <2> QED
    BY <2>1, DeleteTypeWrites
<1>3. SUFFICES ASSUME disk' = PendingDelete(e), LoadFrom(disk')
               PROVE  FALSE
  BY <1>2
<1> DEFINE kind == e.def.name
           text == Cascade(kind, None).types[e.file]
<1>4. e.file \in ToSet(TypeFiles) /\ IsFolder(Cascade(kind, None))
  BY <1>1, CascadeHolds DEF TypesListed
<1>5. IsTypeFile(text)
  BY <1>4 DEF IsFolder
<1>6. IsTypeFile(Struck(text, kind))
  BY <1>5, StruckHolds
<1>7. disk'.types[e.file] = Struck(text, kind)
  BY <1>3, <1>4, <1>6, RewrittenFile DEF PendingDelete
<1>8. \A i \in DOMAIN Struck(text, kind) : Struck(text, kind)[i].name # kind
  BY <1>5, StruckLeaves
<1>9. e \in Attributed(disk'.types, types')
  BY <1>3 DEF LoadFrom
<1>10. \E i \in DOMAIN disk'.types[e.file] : disk'.types[e.file][i].name = kind
  <2>1. PICK f \in ToSet(TypeFiles), n \in DOMAIN types' :
           /\ e = [file |-> f, def |-> Definition(types', n)]
           /\ \E i \in DOMAIN disk'.types[f] : disk'.types[f][i].name = n
    BY <1>9 DEF Attributed
  <2>2. Definition(types', n).name = n
    BY DEF Definition, Read
  <2> QED
    BY <2>1, <2>2
<1> QED
  BY <1>7, <1>8, <1>10

(* No save takes another definition with it: whatever the names fold to,   *)
(* whatever was refused or removed before and whichever file is moved, a   *)
(* save that goes through leaves every other frame's file saying what it   *)
(* said, and saving a type leaves every frame's file with a frame and      *)
(* every other type where it was or where the whole of its file has gone   *)
(* (file_taken, move_type_file, Rewrites::write).                          *)
THEOREM NothingIsLost == Spec => NothingLost
<1> DEFINE kept ==
      /\ FrameSaved =>
           /\ disk'.types = disk.types
           /\ \A f \in ToSet(FrameFiles) \ {draft.origin} :
                disk.frames[f] # Absent => disk'.frames[f] = disk.frames[f]
      /\ TypeSaved =>
           /\ \A f \in ToSet(FrameFiles) : disk.frames[f] # Absent =>
                /\ disk'.frames[f] # Absent
                /\ disk'.frames[f].name \in {disk.frames[f].name} \cup ListedIn(f)
           /\ \A f \in ToSet(TypeFiles) : \E g \in {f, TypeFile[typeDraft.def.name]} :
                \A i \in DOMAIN disk.types[f] :
                  /\ i \in DOMAIN disk'.types[g]
                  /\ SavedOver(f, i) \/ disk'.types[g][i].name = disk.types[f][i].name
<1>1. TypeInv /\ [Next]_vars => [kept]_vars
  <2> SUFFICES ASSUME TypeInv, Next PROVE kept
    OBVIOUS
  <2>1. ASSUME FrameSaved
        PROVE  /\ disk'.types = disk.types
               /\ \A f \in ToSet(FrameFiles) \ {draft.origin} :
                    disk.frames[f] # Absent => disk'.frames[f] = disk.frames[f]
    <3>1. SaveDraft \/ DeleteSelectedType
      BY <2>1 DEF FrameSaved, Next, Reload, BeginEdit, BeginNew, CancelEdit, EditFrame,
             RemovedOutside, DeleteSelected, BeginTypeEdit, BeginNewType, CancelTypeEdit,
             EditType, ReviewType, SaveTypeDraft, Editing, EditingType, Idle
    <3>2. CASE SaveDraft
      BY <2>1, <3>2, SavedKeeps DEF FrameSaved
    <3>3. CASE DeleteSelectedType
      <4>1. disk' = disk
        BY <2>1, <3>3, DeletedIsGone DEF FrameSaved
      <4> QED
        BY <4>1
    <3> QED
      BY <3>1, <3>2, <3>3
  <2>2. ASSUME TypeSaved
        PROVE  /\ \A f \in ToSet(FrameFiles) : disk.frames[f] # Absent =>
                    /\ disk'.frames[f] # Absent
                    /\ disk'.frames[f].name \in {disk.frames[f].name} \cup ListedIn(f)
               /\ \A f \in ToSet(TypeFiles) : \E g \in {f, TypeFile[typeDraft.def.name]} :
                    \A i \in DOMAIN disk.types[f] :
                      /\ i \in DOMAIN disk'.types[g]
                      /\ SavedOver(f, i) \/ disk'.types[g][i].name = disk.types[f][i].name
    <3>1. SaveTypeDraft
      BY <2>2 DEF TypeSaved, Next, Reload, BeginEdit, BeginNew, CancelEdit, EditFrame, SaveDraft,
             RemovedOutside, DeleteSelected, BeginTypeEdit, BeginNewType, CancelTypeEdit,
             EditType, ReviewType, DeleteSelectedType, Editing, EditingType, Idle
    <3> QED
      BY <2>2, <3>1, SavedTypeKeeps DEF TypeSaved
  <2> QED
    BY <2>1, <2>2
<1>2. Spec => []TypeInv
  BY LibraryTyped
<1> QED
  BY <1>1, <1>2, PTL DEF Spec, NothingLost

=============================================================================
