--------------------------- MODULE ScenarioProofs ---------------------------
(***************************************************************************)
(* The list of scenarios, its drafts and its folder: proofs for any frames *)
(* and links, folders and bounds.                                          *)
(***************************************************************************)
EXTENDS ScenarioList, SequenceTheorems

-----------------------------------------------------------------------------
(* A step as the editor holds it is aimed at links, each once, unless it   *)
(* is a delay.                                                             *)
Fit(step) == Distinct(step.targets) /\ (step.kind = "wait" <=> step.targets = <<>>)
Good == {step \in StepOf : Fit(step)}
Held == [name : DOMAIN Spelled, rest : 0 .. 1, steps : Seq(Good)]
Origins == [file : ToSet(Files), name : DOMAIN Spelled]

DiskType == disk \in [ToSet(Files) -> Seq(Text) \cup {None, Unparsed}]
TypeInv ==
  /\ front \in {"desktop", "terminal"} /\ links \in Seq(Links)
  /\ DiskType /\ misplaced \in BOOLEAN
  /\ entries \in SUBSET [file : ToSet(Files), scenario : Held]
  /\ \A e \in entries : disk[e.file] # None
  /\ draft # None => draft \in [scenario : Held, origin : Origins \cup {None}]

-----------------------------------------------------------------------------
(* Sequences. *)

LEMMA RemoveKeeps ==
  ASSUME NEW S, NEW s \in Seq(S), NEW i \in DOMAIN s
  PROVE  /\ RemoveAt(s, i) \in Seq(S) /\ Len(RemoveAt(s, i)) = Len(s) - 1
         /\ \A k \in 1 .. Len(s) - 1 : RemoveAt(s, i)[k] = IF k < i THEN s[k] ELSE s[k + 1]
<1> DEFINE front0 == SubSeq(s, 1, i - 1)
           back == SubSeq(s, i + 1, Len(s))
<1>1. Len(s) \in Nat /\ i \in 1 .. Len(s) /\ DOMAIN s = 1 .. Len(s)
  OBVIOUS
<1>2. /\ front0 \in Seq(S) /\ Len(front0) = i - 1
      /\ \A k \in 1 .. i - 1 : front0[k] = s[k]
  BY <1>1
<1>3. /\ back \in Seq(S) /\ Len(back) = Len(s) - i
      /\ \A k \in 1 .. Len(s) - i : back[k] = s[i + k]
  BY <1>1
<1>4. RemoveAt(s, i) = front0 \o back
  BY DEF RemoveAt
<1> HIDE DEF front0, back
<1>5. RemoveAt(s, i) \in Seq(S) /\ Len(RemoveAt(s, i)) = Len(s) - 1
  <2>1. front0 \o back \in Seq(S) /\ Len(front0 \o back) = Len(front0) + Len(back)
    BY <1>2, <1>3, ConcatProperties
  <2>2. Len(front0) + Len(back) = Len(s) - 1
    BY <1>1, <1>2, <1>3
  <2> QED
    BY <1>4, <2>1, <2>2
<1>6. ASSUME NEW k \in 1 .. Len(s) - 1
      PROVE  RemoveAt(s, i)[k] = IF k < i THEN s[k] ELSE s[k + 1]
  <2>1. CASE k < i
    BY <1>1, <1>2, <1>3, <1>4, <2>1
  <2>2. CASE k >= i
    <3>1. RemoveAt(s, i)[k] = back[k - (i - 1)]
      BY <1>1, <1>2, <1>3, <1>4, <2>2
    <3>2. k - (i - 1) \in 1 .. Len(s) - i /\ i + (k - (i - 1)) = k + 1
      BY <1>1, <2>2
    <3> QED
      BY <1>1, <1>3, <2>2, <3>1, <3>2
  <2> QED
    BY <1>1, <2>1, <2>2
<1> QED
  BY <1>5, <1>6

LEMMA PlaceIsFirst ==
  ASSUME NEW text \in Seq(Text), NEW name
  PROVE  /\ Place(text, name) # 0 => /\ Place(text, name) \in DOMAIN text
                                     /\ text[Place(text, name)].name = name
         /\ Place(text, name) = 0 => \A i \in DOMAIN text : text[i].name # name
<1> DEFINE I == {i \in 1 .. Len(text) : text[i].name = name}
<1>1. Place(text, name) = IF I # {} THEN Min(I) ELSE 0
  BY DEF Place, SelectInSeq
<1>2. DOMAIN text = 1 .. Len(text) /\ Len(text) \in Nat /\ I \in SUBSET Nat
  OBVIOUS
<1>3. I # {} => Min(I) \in I
  BY <1>2, MinIsThere
<1>4. \A i \in I : i # 0
  BY <1>2
<1> QED
  BY <1>1, <1>2, <1>3, <1>4

-----------------------------------------------------------------------------
(* Steps. *)

LEMMA NamingKeeps ==
  ASSUME NEW f \in Naming
  PROVE  /\ Range(f) \subseteq Words /\ DOMAIN f \subseteq Words
         /\ \A x : Without(f, x) \in Naming
         /\ \A x \in Words, v \in Words : With(f, x, v) \in Naming
         /\ \A kept \in SUBSET DOMAIN f : [x \in kept |-> f[x]] \in Naming
<1>1. PICK named \in SUBSET Words : f \in [named -> Words]
  BY DEF Naming
<1>2. \A g : (\E other \in SUBSET Words : g \in [other -> Words]) => g \in Naming
  BY DEF Naming
<1>3. Range(f) \subseteq Words /\ DOMAIN f = named
  BY <1>1 DEF Range
<1>4. \A kept \in SUBSET DOMAIN f : [x \in kept |-> f[x]] \in Naming
  <2> SUFFICES ASSUME NEW kept \in SUBSET named PROVE [x \in kept |-> f[x]] \in [kept -> Words]
    BY <1>1, <1>2, <1>3
  <2> QED
    BY <1>1
<1>5. \A x : Without(f, x) \in Naming
  BY <1>4 DEF Without
<1>6. ASSUME NEW x \in Words, NEW v \in Words PROVE With(f, x, v) \in Naming
  <2>1. With(f, x, v) \in [named \cup {x} -> Words]
    BY <1>1, <1>6 DEF With
  <2> QED
    BY <1>2, <1>6, <2>1
<1> QED
  BY <1>3, <1>4, <1>5, <1>6

LEMMA EmptyNaming == <<>> \in Naming
<1>1. <<>> \in [{} -> Words]
  OBVIOUS
<1> QED
  BY <1>1 DEF Naming

LEMMA MadeIsGood ==
  ASSUME NEW kind \in {"send", "raw", "wait", "bytes", "frame"}, NEW frame \in Words,
         NEW targets \in Seq(Links), Distinct(targets), kind = "wait" <=> targets = <<>>
  PROVE  Made(kind, frame, targets) \in Good
BY EmptyNaming DEF Made, Good, StepOf, Fit

LEMMA FramesAreWords == Frames \subseteq Words /\ Fields \subseteq Words /\ NoFrame \in Words
BY FileAssumption

LEMMA FirstIsGood ==
  ASSUME links \in Seq(Links), links # <<>>
  PROVE  <<Head(links)>> \in Seq(Links) /\ Distinct(<<Head(links)>>) /\ <<Head(links)>> # <<>>
<1>1. Head(links) \in Links
  OBVIOUS
<1> QED
  BY <1>1 DEF Distinct

(* Another frame, another form, another kind. *)
LEMMA RemadeIsGood ==
  ASSUME NEW step \in Good, NEW frame \in Words
  PROVE  /\ step.kind \in {"send", "frame"} => SetFrame(step, frame) \in Good
         /\ step.kind = "send" => SetFrame([step EXCEPT !.frame = frame], frame) \in Good
         /\ step.kind = "frame" => SetWaitFrame(step, frame) \in Good
         /\ KindOf(step) = "wait_for" => SetWaitByFrame(step, frame) \in Good
<1>1. step \in StepOf /\ Fit(step)
  BY DEF Good
<1>2. step.kind \in {"send", "raw", "wait", "bytes", "frame"} /\ step.targets \in Seq(Links)
  BY <1>1 DEF StepOf
<1>3. \A kind \in {"send", "raw", "bytes", "frame"}, other \in Words :
        step.kind # "wait" => Made(kind, other, step.targets) \in Good
  BY <1>1, <1>2, MadeIsGood DEF Fit
<1>4. [step EXCEPT !.frame = frame] \in Good
  BY <1>1 DEF Good, StepOf, Fit
<1>5. /\ [step EXCEPT !.frame = frame].kind = step.kind
      /\ [step EXCEPT !.frame = frame].frame = frame
  BY <1>1 DEF StepOf
<1> QED
  BY <1>2, <1>3, <1>4, <1>5, FramesAreWords
     DEF SetFrame, SetWaitFrame, SetWaitByFrame, KindOf

LEMMA ActionIsGood ==
  ASSUME NEW step \in Good, NEW kind \in Kinds, links \in Seq(Links)
  PROVE  SetAction(step, kind, links) \in Good
<1>1. step \in StepOf /\ Fit(step) /\ step.targets \in Seq(Links)
  BY DEF Good, StepOf
<1>2. CASE KindOf(step) = kind \/ (NeedsAConnection(kind) /\ links = <<>>)
  BY <1>2 DEF SetAction
<1>3. CASE ~(KindOf(step) = kind \/ (NeedsAConnection(kind) /\ links = <<>>))
  <2> DEFINE targets == IF ~NeedsAConnection(kind) THEN <<>>
                        ELSE IF step.targets = <<>> THEN TargetsFor(kind, links)
                        ELSE step.targets
             real == IF kind = "wait_for" THEN "frame" ELSE kind
  <2>1. SetAction(step, kind, links) = Made(real, NoFrame, targets)
    BY <1>3 DEF SetAction, Blank
  <2>2. targets \in Seq(Links) /\ Distinct(targets) /\ (real = "wait" <=> targets = <<>>)
    <3>1. CASE ~NeedsAConnection(kind)
      BY <3>1 DEF NeedsAConnection, Distinct
    <3>2. CASE NeedsAConnection(kind) /\ step.targets = <<>>
      <4>1. targets = <<Head(links)>> /\ real # "wait"
        BY <1>3, <3>2 DEF TargetsFor, NeedsAConnection, Kinds
      <4> QED
        BY <1>3, <3>2, <4>1, FirstIsGood
    <3>3. CASE NeedsAConnection(kind) /\ step.targets # <<>>
      BY <1>1, <3>3 DEF NeedsAConnection, Fit, Kinds
    <3> QED
      BY <3>1, <3>2, <3>3
  <2>3. real \in {"send", "raw", "wait", "bytes", "frame"}
    BY DEF Kinds
  <2> HIDE DEF real, targets
  <2> QED
    BY <2>1, <2>2, <2>3, MadeIsGood, FramesAreWords
<1> QED
  BY <1>2, <1>3

LEMMA TickIsGood ==
  ASSUME NEW step \in Good, NEW link \in ToSet(links), links \in Seq(Links),
         NeedsAConnection(step.kind)
  PROVE  Tick(step, link, front, links) \in Good
<1>1. step \in StepOf /\ Fit(step) /\ step.targets \in Seq(Links) /\ step.targets # <<>>
      /\ step.kind # "wait"
  BY DEF Good, StepOf, Fit, NeedsAConnection
<1>2. links # <<>> /\ link \in Links
  BY DEF ToSet
<1>3. \A targets \in Seq(Links) : Distinct(targets) /\ targets # <<>>
        => [step EXCEPT !.targets = targets] \in Good
  BY <1>1 DEF Good, StepOf, Fit
<1>4. CASE link \notin ToSet(step.targets)
  <2> DEFINE more == Append(step.targets, link)
  <2>1. more \in Seq(Links) /\ more # <<>>
    BY <1>1, <1>2
  <2>2. /\ DOMAIN more = 1 .. Len(step.targets) + 1 /\ DOMAIN step.targets = 1 .. Len(step.targets)
        /\ Len(step.targets) \in Nat
        /\ \A i \in 1 .. Len(step.targets) : more[i] = step.targets[i] /\ more[i] # link
        /\ more[Len(step.targets) + 1] = link
    BY <1>1, <1>2, <1>4 DEF ToSet
  <2>3. Distinct(more)
    BY <1>1, <2>2 DEF Distinct, Fit
  <2> QED
    BY <1>3, <1>4, <2>1, <2>3 DEF Tick
<1>5. CASE link \in ToSet(step.targets)
  <2> DEFINE others == {i \in DOMAIN step.targets : step.targets[i] # link}
             left == At(step.targets, others)
  <2>1. left \in Seq(Links) /\ Distinct(left)
    <3>1. others \in SUBSET DOMAIN step.targets
      OBVIOUS
    <3>2. \A i, j \in others : step.targets[i] = step.targets[j] => i = j
      BY <1>1 DEF Fit, Distinct
    <3> HIDE DEF others
    <3> QED
      BY <1>1, <3>1, <3>2, AtKeeps
  <2>2. Tick(step, link, front, links)
          = IF left # <<>> THEN [step EXCEPT !.targets = left]
            ELSE IF front = "desktop" THEN [step EXCEPT !.targets = <<Head(links)>>]
            ELSE step
    BY <1>5 DEF Tick, Untick
  <2> HIDE DEF left
  <2> QED
    BY <1>2, <1>3, <2>1, <2>2, FirstIsGood
<1> QED
  BY <1>4, <1>5

(* What is said of a field. *)
LEMMA SaidIsGood ==
  ASSUME NEW step \in Good, NEW x \in Words, NEW v \in Words
  PROVE  /\ Hold(step, x) \in Good /\ SetCounter(step, x) \in Good
         /\ TakeFrom(step, x, v) \in Good /\ TakeFromNothing(step, x) \in Good
         /\ Capture(step, x) \in Good /\ RenameCapture(step, x, v) \in Good
<1>1. step \in StepOf /\ Fit(step)
  BY DEF Good
<1>2. step.from \in Naming /\ step.capture \in Naming
  BY <1>1 DEF StepOf
<1>3. \A held \in SUBSET Words, counted \in SUBSET Words, from \in Naming, capture \in Naming :
        [step EXCEPT !.held = held, !.counted = counted, !.from = from, !.capture = capture]
          \in Good
  BY <1>1 DEF Good, StepOf, Fit
<1>4. /\ Without(step.from, x) \in Naming /\ With(step.from, x, v) \in Naming
      /\ Without(step.capture, x) \in Naming /\ With(step.capture, x, x) \in Naming
  BY <1>2, NamingKeeps
<1>5. /\ step.held \in SUBSET Words /\ step.counted \in SUBSET Words
      /\ step.held \ {x} \in SUBSET Words /\ step.counted \ {x} \in SUBSET Words
      /\ step.held \cup {x} \in SUBSET Words /\ step.counted \cup {x} \in SUBSET Words
  BY <1>1 DEF StepOf
<1>6. x \in DOMAIN step.capture => [step.capture EXCEPT ![x] = v] \in Naming
  <2>1. PICK named \in SUBSET Words : step.capture \in [named -> Words]
    BY <1>2 DEF Naming
  <2>2. [step.capture EXCEPT ![x] = v] \in [named -> Words]
    BY <2>1
  <2> QED
    BY <2>2 DEF Naming
<1>7. Hold(step, x) \in Good
  BY <1>1, <1>4, <1>5 DEF Hold, Good, StepOf, Fit
<1>8. SetCounter(step, x) \in Good
  BY <1>1, <1>4, <1>5 DEF SetCounter, Good, StepOf, Fit
<1>9. TakeFrom(step, x, v) \in Good /\ TakeFromNothing(step, x) \in Good
  BY <1>1, <1>4, <1>5 DEF TakeFrom, TakeFromNothing, Good, StepOf, Fit
<1>10. Capture(step, x) \in Good
  BY <1>1, <1>4 DEF Capture, Good, StepOf, Fit
<1>11. RenameCapture(step, x, v) \in Good
  BY <1>1, <1>6 DEF RenameCapture, Good, StepOf, Fit
<1> QED
  BY <1>7, <1>8, <1>9, <1>10, <1>11

(* A move leaves every step what it was, but for what it reads.            *)
LEMMA PruneKeeps ==
  ASSUME NEW steps \in Seq(Good)
  PROVE  PruneDanglingCaptures(steps) \in Seq(Good) /\ NoGap(PruneDanglingCaptures(steps))
<1> DEFINE kept(i) == {x \in DOMAIN steps[i].from : steps[i].from[x] \in CapturedBefore(steps, i)}
           less(i) == [x \in kept(i) |-> steps[i].from[x]]
           pruned == PruneDanglingCaptures(steps)
<1>1. /\ DOMAIN steps = 1 .. Len(steps) /\ Len(steps) \in Nat
      /\ \A i \in 1 .. Len(steps) : steps[i] \in Good
  OBVIOUS
<1>2. pruned = [i \in 1 .. Len(steps) |-> [steps[i] EXCEPT !.from = less(i)]]
  BY <1>1 DEF PruneDanglingCaptures
<1>3. ASSUME NEW i \in 1 .. Len(steps)
      PROVE  /\ pruned[i] \in Good /\ pruned[i].from = less(i)
             /\ pruned[i].capture = steps[i].capture
  <2>1. steps[i] \in Good /\ steps[i] \in StepOf /\ steps[i].from \in Naming
    BY <1>1 DEF Good, StepOf
  <2>2. less(i) \in Naming
    <3>1. kept(i) \in SUBSET DOMAIN steps[i].from
      OBVIOUS
    <3> HIDE DEF kept
    <3> QED
      BY <2>1, <3>1, NamingKeeps
  <2>3. pruned[i] = [steps[i] EXCEPT !.from = less(i)]
    BY <1>2
  <2> HIDE DEF less, pruned
  <2> QED
    BY <2>1, <2>2, <2>3 DEF Good, StepOf, Fit
<1>4. \A i \in 1 .. Len(steps) : CapturedBefore(pruned, i) = CapturedBefore(steps, i)
  <2> SUFFICES ASSUME NEW i \in 1 .. Len(steps)
               PROVE  CapturedBefore(pruned, i) = CapturedBefore(steps, i)
    OBVIOUS
  <2>1. \A j \in 1 .. i - 1 : j \in 1 .. Len(steps)
    BY <1>1
  <2> HIDE DEF pruned, less
  <2>2. \A j \in 1 .. i - 1 : pruned[j].capture = steps[j].capture
    BY <1>3, <2>1
  <2> QED
    BY <2>2 DEF CapturedBefore
<1>5. \A i \in 1 .. Len(steps) : Range(less(i)) \subseteq CapturedBefore(steps, i)
  BY DEF Range
<1>6. DOMAIN pruned = 1 .. Len(steps) /\ pruned = [i \in 1 .. Len(steps) |-> pruned[i]]
  BY <1>2
<1> HIDE DEF pruned, less
<1>7. pruned \in Seq(Good)
  <2>1. \A i \in 1 .. Len(steps) : pruned[i] \in Good
    BY <1>3
  <2> QED
    BY <1>1, <1>6, <2>1
<1>8. NoGap(pruned)
  BY <1>3, <1>4, <1>5, <1>6 DEF NoGap
<1> QED
  BY <1>7, <1>8 DEF pruned

-----------------------------------------------------------------------------
(* The links most steps share. *)

LEMMA TopExists ==
  ASSUME NEW S, IsFiniteSet(S), S # {}, NEW count \in [S -> Nat], NEW first \in [S -> Nat]
  PROVE  \E t \in S : \A u \in S :
           count[t] > count[u] \/ (count[t] = count[u] /\ first[t] >= first[u])
<1> DEFINE wins(t, u) == count[t] > count[u] \/ (count[t] = count[u] /\ first[t] >= first[u])
           bad == {T \in SUBSET S : T # {} /\ ~ \E t \in T : \A u \in T : wins(t, u)}
<1>1. \A t, u, v \in S : /\ wins(t, t) /\ (wins(t, u) \/ wins(u, t))
                         /\ wins(t, u) /\ wins(u, v) => wins(t, v)
  <2> SUFFICES ASSUME NEW t \in S, NEW u \in S, NEW v \in S
               PROVE  /\ wins(t, t) /\ (wins(t, u) \/ wins(u, t))
                      /\ wins(t, u) /\ wins(u, v) => wins(t, v)
    OBVIOUS
  <2>1. /\ count[t] \in Nat /\ count[u] \in Nat /\ count[v] \in Nat
        /\ first[t] \in Nat /\ first[u] \in Nat /\ first[v] \in Nat
    OBVIOUS
  <2> QED
    BY <2>1
<1>2. bad = {}
  <2> HIDE DEF wins
  <2> SUFFICES ASSUME bad # {} PROVE FALSE
    OBVIOUS
  <2>1. bad \in SUBSET SUBSET S
    OBVIOUS
  <2>2. PICK part \in bad : \A x \in part : part \ {x} \notin bad
    <3> HIDE DEF bad
    <3> QED
      BY <2>1, SmallestPart
  <2>3. PICK x \in part : TRUE
    OBVIOUS
  <2>4. part \subseteq S /\ x \in S
    OBVIOUS
  <2>5. CASE part \ {x} = {}
    <3>1. \A y \in part : wins(x, y)
      BY <1>1, <2>4, <2>5
    <3> QED
      BY <2>3, <3>1
  <2>6. CASE part \ {x} # {}
    <3>1. PICK m \in part \ {x} : \A y \in part \ {x} : wins(m, y)
      BY <2>2, <2>3, <2>6
    <3>2. \E top \in {m, x} : \A y \in part : wins(top, y)
      BY <1>1, <2>4, <3>1
    <3> QED
      BY <2>3, <3>1, <3>2
  <2> QED
    BY <2>5, <2>6
<1> QED
  BY <1>2

LEMMA CommonestIsLinks ==
  ASSUME NEW steps \in Seq(StepOf)
  PROVE  CommonestTargets(steps) \in Seq(Links)
<1> DEFINE aims == {steps[i].targets : i \in DOMAIN steps} \ {<<>>}
           with(t) == {i \in DOMAIN steps : steps[i].targets = t}
           count(t) == Cardinality(with(t))
           first(t) == CHOOSE i \in DOMAIN steps :
                         steps[i].targets = t /\ \A j \in 1 .. i - 1 : steps[j].targets # t
           wins(t, u) == count(t) > count(u) \/ (count(t) = count(u) /\ first(t) >= first(u))
<1>1. CommonestTargets(steps)
        = IF aims = {} THEN <<>> ELSE CHOOSE t \in aims : \A u \in aims : wins(t, u)
  BY DEF CommonestTargets
<1>2. /\ DOMAIN steps = 1 .. Len(steps) /\ Len(steps) \in Nat /\ IsFiniteSet(1 .. Len(steps))
      /\ \A i \in 1 .. Len(steps) : steps[i] \in StepOf
  <2>1. DOMAIN steps = 1 .. Len(steps) /\ Len(steps) \in Nat
    OBVIOUS
  <2> QED
    BY <2>1, FS_Interval
<1>3. IsFiniteSet(aims)
  <2> DEFINE all == {steps[i].targets : i \in DOMAIN steps}
             f == [i \in 1 .. Len(steps) |-> steps[i].targets]
  <2>1. f \in [1 .. Len(steps) -> all] /\ \A t \in all : \E i \in 1 .. Len(steps) : f[i] = t
    BY <1>2
  <2>2. f \in Surjection(1 .. Len(steps), all)
    <3> HIDE DEF f, all
    <3> QED
      BY <2>1 DEF Surjection
  <2>3. IsFiniteSet(all)
    <3> HIDE DEF f, all
    <3> QED
      BY <1>2, <2>2, FS_Surjection
  <2> QED
    BY <2>3, FS_Subset
<1>4. ASSUME NEW t \in aims
      PROVE  count(t) \in Nat /\ first(t) \in Nat
  <2>1. with(t) \in SUBSET (1 .. Len(steps)) /\ with(t) \in SUBSET Nat /\ with(t) # {}
    BY <1>2, <1>4
  <2>2. count(t) \in Nat
    <3> HIDE DEF with
    <3> QED
      BY <1>2, <2>1, FS_Subset, FS_CardinalityType
  <2>3. Min(with(t)) \in with(t) /\ \A i \in with(t) : Min(with(t)) <= i
    <3> HIDE DEF with
    <3> QED
      BY <2>1, MinIsThere
  <2>4. \E i \in DOMAIN steps :
          steps[i].targets = t /\ \A j \in 1 .. i - 1 : steps[j].targets # t
    <3> DEFINE i == Min(with(t))
    <3>1. i \in 1 .. Len(steps) /\ steps[i].targets = t
      BY <1>2, <2>3
    <3>2. ASSUME NEW j \in 1 .. i - 1 PROVE steps[j].targets # t
      <4>1. j \in 1 .. Len(steps) /\ ~(i <= j)
        BY <1>2, <3>1
      <4> QED
        BY <1>2, <2>3, <4>1
    <3> HIDE DEF i
    <3> QED
      BY <1>2, <3>1, <3>2
  <2>5. first(t) \in DOMAIN steps
    BY <2>4
  <2> QED
    BY <1>2, <2>2, <2>5
<1>5. ASSUME aims # {}
      PROVE  (CHOOSE t \in aims : \A u \in aims : wins(t, u)) \in aims
  <2> DEFINE c == [t \in aims |-> count(t)]
             f == [t \in aims |-> first(t)]
  <2> HIDE DEF count, first
  <2>1. c \in [aims -> Nat] /\ f \in [aims -> Nat]
    BY <1>4
  <2>2. \E t \in aims : \A u \in aims : c[t] > c[u] \/ (c[t] = c[u] /\ f[t] >= f[u])
    <3> HIDE DEF aims, c, f
    <3> QED
      BY <1>3, <1>5, <2>1, TopExists
  <2>3. \E t \in aims : \A u \in aims : wins(t, u)
    <3> HIDE DEF aims
    <3> QED
      BY <2>2
  <2> HIDE DEF aims, wins
  <2> QED
    BY <2>3
<1>6. \A t \in aims : t \in Seq(Links)
  BY <1>2 DEF StepOf
<1>7. <<>> \in Seq(Links)
  OBVIOUS
<1> HIDE DEF aims, wins
<1> QED
  BY <1>1, <1>5, <1>6, <1>7

(* What is written down is a text.                                         *)
LEMMA LowerIsText ==
  ASSUME NEW scenario \in Held
  PROVE  /\ Lower(scenario) \in Text
         /\ Lower(scenario).name = scenario.name
         /\ Lower(scenario).on = CommonestTargets(scenario.steps)
         /\ DOMAIN Lower(scenario).steps = DOMAIN scenario.steps
<1> DEFINE default == CommonestTargets(scenario.steps)
<1>1. scenario.steps \in Seq(Good) /\ scenario.name \in DOMAIN Spelled /\ scenario.rest \in 0 .. 1
  BY DEF Held
<1>2. \A i \in DOMAIN scenario.steps : scenario.steps[i] \in StepOf
  BY <1>1 DEF Good
<1>3. scenario.steps \in Seq(StepOf) /\ DOMAIN scenario.steps = 1 .. Len(scenario.steps)
      /\ Len(scenario.steps) \in Nat
  BY <1>1, <1>2
<1>4. default \in Seq(Links)
  BY <1>3, CommonestIsLinks
<1> HIDE DEF default
<1>5. ASSUME NEW i \in 1 .. Len(scenario.steps)
      PROVE  LowerStep(scenario.steps[i], default) \in StepOf
  <2>1. scenario.steps[i] \in StepOf /\ <<>> \in Seq(Links)
    BY <1>2, <1>3
  <2> QED
    BY <2>1 DEF LowerStep, StepOf
<1>6. [i \in DOMAIN scenario.steps |-> LowerStep(scenario.steps[i], default)] \in Seq(StepOf)
  BY <1>3, <1>5
<1>7. Lower(scenario)
        = [name |-> scenario.name, rest |-> scenario.rest, on |-> default,
           steps |-> [i \in DOMAIN scenario.steps |-> LowerStep(scenario.steps[i], default)]]
  BY DEF Lower, default
<1> QED
  BY <1>1, <1>4, <1>6, <1>7 DEF Text, default

(* Writing a scenario with the links most of its steps share said once for *)
(* all of them, and reading it back, gives the scenario: no step loses its *)
(* links or takes another's (scenario.rs:696-709, 917-1004).               *)
THEOREM LowerBuilds ==
  ASSUME NEW scenario \in Held, Spelled[scenario.name] = scenario.name
  PROVE  Build(Lower(scenario)) = scenario
<1> DEFINE default == CommonestTargets(scenario.steps)
           raw == Lower(scenario)
           steps == scenario.steps
<1>1. steps \in Seq(Good) /\ DOMAIN steps = 1 .. Len(steps) /\ Len(steps) \in Nat
      /\ \A i \in DOMAIN steps : steps[i] \in Good
  BY DEF Held
<1>2. raw = [name |-> scenario.name, rest |-> scenario.rest, on |-> default,
             steps |-> [i \in DOMAIN steps |-> LowerStep(steps[i], default)]]
  BY DEF Lower
<1>3. /\ raw.name = scenario.name /\ raw.rest = scenario.rest /\ raw.on = default
      /\ DOMAIN raw.steps = DOMAIN steps
      /\ \A i \in DOMAIN steps : raw.steps[i] = LowerStep(steps[i], default)
  <2> HIDE DEF raw, default, steps
  <2> QED
    BY <1>2
<1>4. ASSUME NEW i \in DOMAIN steps
      PROVE  [raw.steps[i] EXCEPT !.targets =
                IF raw.steps[i].kind = "wait" THEN <<>> ELSE Aimed(raw, raw.steps[i])] = steps[i]
  <2> DEFINE was == steps[i]
             step == raw.steps[i]
  <2>0. step = LowerStep(was, default) /\ raw.on = default
    <3> HIDE DEF raw, default
    <3> QED
      BY <1>3, <1>4
  <2>1. was \in StepOf /\ Fit(was) /\ was.targets \in Seq(Links)
    BY <1>1, <1>4 DEF Good, StepOf
  <2>2. Once(was.targets) = was.targets
    BY <2>1, OnceKeeps DEF Fit
  <2> HIDE DEF was, raw, default, step
  <2>4. step.kind = was.kind
    BY <2>0, <2>1 DEF LowerStep, StepOf
  <2>5. CASE was.targets = default /\ was.kind # "wait"
    <3>1. step = [was EXCEPT !.targets = <<>>] /\ step.targets = <<>>
      BY <2>0, <2>1, <2>5 DEF LowerStep, StepOf
    <3>2. Aimed(raw, step) = was.targets
      BY <2>0, <2>2, <2>5, <3>1 DEF Aimed
    <3>3. [step EXCEPT !.targets = was.targets] = was
      BY <2>1, <3>1 DEF StepOf
    <3> QED
      BY <2>4, <2>5, <3>2, <3>3 DEF was, step
  <2>6. CASE was.targets # default /\ was.kind # "wait"
    <3>1. step = was /\ step.targets # <<>>
      BY <2>0, <2>1, <2>6 DEF LowerStep, Fit
    <3>2. Aimed(raw, step) = was.targets
      BY <2>2, <3>1 DEF Aimed
    <3> QED
      BY <2>1, <2>4, <2>6, <3>1, <3>2 DEF was, step, StepOf
  <2>7. CASE was.kind = "wait"
    <3>1. was.targets = <<>>
      BY <2>1, <2>7 DEF Fit
    <3>2. step = was
      BY <2>0, <2>1, <3>1 DEF LowerStep, StepOf
    <3> QED
      BY <2>1, <2>4, <2>7, <3>1, <3>2 DEF was, step, StepOf
  <2> QED
    BY <2>5, <2>6, <2>7
<1>5. Build(raw) = [name |-> scenario.name, rest |-> scenario.rest,
                    steps |-> [i \in DOMAIN steps |-> steps[i]]]
  <2> HIDE DEF raw, default, steps
  <2> QED
    BY <1>3, <1>4 DEF Build
<1>6. steps = [i \in DOMAIN steps |-> steps[i]]
  BY <1>1
<1> QED
  BY <1>5, <1>6 DEF Held

LEMMA BuildIsHeld ==
  ASSUME NEW raw \in Text, Reads(raw)
  PROVE  Build(raw) \in Held /\ Build(raw).name = Spelled[raw.name]
<1> DEFINE steps == raw.steps
           aim(i) == IF steps[i].kind = "wait" THEN <<>> ELSE Aimed(raw, steps[i])
<1>1. /\ steps \in Seq(StepOf) /\ raw.on \in Seq(Links) /\ raw.rest \in 0 .. 1
      /\ raw.name \in DOMAIN Spelled
  BY DEF Text
<1>2. DOMAIN steps = 1 .. Len(steps) /\ Len(steps) \in Nat /\ \A i \in 1 .. Len(steps) : steps[i] \in StepOf
  BY <1>1
<1>3. ASSUME NEW i \in 1 .. Len(steps)
      PROVE  [steps[i] EXCEPT !.targets = aim(i)] \in Good
  <2>1. steps[i] \in StepOf /\ steps[i].targets \in Seq(Links)
    BY <1>2 DEF StepOf
  <2>2. StepReads(raw, i)
    BY <1>2 DEF Reads
  <2>3. aim(i) \in Seq(Links) /\ Distinct(aim(i)) /\ (steps[i].kind = "wait" <=> aim(i) = <<>>)
    <3>1. CASE steps[i].kind = "wait"
      <4>1. aim(i) = <<>>
        BY <3>1
      <4>2. Distinct(<<>>) /\ <<>> \in Seq(Links)
        BY DEF Distinct
      <4> HIDE DEF aim
      <4> QED
        BY <3>1, <4>1, <4>2
    <3>2. CASE steps[i].kind # "wait"
      <4>1. aim(i) = Aimed(raw, steps[i]) /\ aim(i) # <<>>
        BY <2>2, <3>2 DEF StepReads
      <4>2. Aimed(raw, steps[i]) \in Seq(Links) /\ Distinct(Aimed(raw, steps[i]))
        BY <1>1, <2>1, OnceKeeps DEF Aimed
      <4> HIDE DEF aim
      <4> QED
        BY <3>2, <4>1, <4>2
    <3> QED
      BY <3>1, <3>2
  <2> HIDE DEF aim, steps
  <2> QED
    BY <2>1, <2>3 DEF Good, StepOf, Fit
<1>4. [i \in DOMAIN steps |-> [steps[i] EXCEPT !.targets = aim(i)]] \in Seq(Good)
  <2> HIDE DEF aim, steps
  <2> QED
    BY <1>2, <1>3
<1>5. Build(raw) = [name |-> Spelled[raw.name], rest |-> raw.rest,
                    steps |-> [i \in DOMAIN steps |-> [steps[i] EXCEPT !.targets = aim(i)]]]
  BY DEF Build
<1>6. Spelled[raw.name] \in DOMAIN Spelled
  BY <1>1, FileAssumption
<1> HIDE DEF aim, steps
<1> QED
  BY <1>1, <1>4, <1>5, <1>6 DEF Held

LEMMA ReadIsText ==
  ASSUME NEW d \in [ToSet(Files) -> Seq(Text) \cup {None, Unparsed}], NEW f \in ToSet(Files),
         d[f] \notin {None, Unparsed}
  PROVE  /\ d[f] \in Seq(Text) /\ DOMAIN d[f] = 1 .. Len(d[f]) /\ Len(d[f]) \in Nat
         /\ \A i \in DOMAIN d[f] : d[f][i] \in Text
<1>1. d[f] \in Seq(Text)
  OBVIOUS
<1> HIDE DEF Text
<1> QED
  BY <1>1

LEMMA LoadIsHeld ==
  ASSUME NEW d \in [ToSet(Files) -> Seq(Text) \cup {None, Unparsed}]
  PROVE  /\ LoadFrom(d) \in SUBSET [file : ToSet(Files), scenario : Held]
         /\ \A e \in LoadFrom(d) : d[e.file] # None
<1> DEFINE at == UNION {{<<f, i>> : i \in DOMAIN d[f]} : f \in {g \in ToSet(Files) : FileReads(d[g])}}
<1>1. \A e \in LoadFrom(d) : \E p \in at : e = [file |-> p[1], scenario |-> Build(d[p[1]][p[2]])]
  BY DEF LoadFrom
<1>2. ASSUME NEW p \in at
      PROVE  /\ d[p[1]] # None
             /\ [file |-> p[1], scenario |-> Build(d[p[1]][p[2]])]
                  \in [file : ToSet(Files), scenario : Held]
  <2>1. p[1] \in ToSet(Files) /\ FileReads(d[p[1]]) /\ p[2] \in DOMAIN d[p[1]]
    OBVIOUS
  <2>2. d[p[1]] \notin {None, Unparsed} /\ Reads(d[p[1]][p[2]])
    BY <2>1 DEF FileReads
  <2>3. d[p[1]][p[2]] \in Text
    BY <2>1, <2>2, ReadIsText
  <2>4. Build(d[p[1]][p[2]]) \in Held
    BY <2>2, <2>3, BuildIsHeld
  <2> QED
    BY <2>1, <2>2, <2>4
<1> HIDE DEF at
<1> QED
  BY <1>1, <1>2

-----------------------------------------------------------------------------
(* Types. *)

LEMMA TypeInit == Init => TypeInv
<1> SUFFICES ASSUME Init PROVE TypeInv
  OBVIOUS
<1>1. DiskType
  BY ListAssumption DEF Init, DiskType
<1>2. /\ entries \in SUBSET [file : ToSet(Files), scenario : Held]
      /\ \A e \in entries : disk[e.file] # None
  BY <1>1, LoadIsHeld DEF Init, DiskType
<1>3. front \in {"desktop", "terminal"} /\ links \in Seq(Links)
  BY ListAssumption DEF Init
<1> QED
  BY <1>1, <1>2, <1>3 DEF Init, TypeInv

(* An edit leaves the disk and the list alone; of the copy, what it        *)
(* changes is one step, which is good, or all of them.                     *)
LEMMA BecomesKeeps ==
  ASSUME TypeInv, Editing, NEW steps \in Seq(Good), Becomes(steps)
  PROVE  TypeInv'
<1>1. draft \in [scenario : Held, origin : Origins \cup {None}]
  BY DEF TypeInv, Editing
<1>2. [draft.scenario EXCEPT !.steps = steps] \in Held
  BY <1>1 DEF Held
<1>3. draft' = [draft EXCEPT !.scenario = [draft.scenario EXCEPT !.steps = steps]]
  BY <1>1 DEF Becomes, Held
<1>4. draft' \in [scenario : Held, origin : Origins \cup {None}]
  BY <1>1, <1>2, <1>3
<1> QED
  BY <1>4 DEF TypeInv, Editing, library, engine, DiskType

LEMMA StepsAreGood ==
  ASSUME TypeInv, draft # None
  PROVE  /\ Steps \in Seq(Good) /\ DOMAIN Steps = 1 .. Len(Steps) /\ Len(Steps) \in Nat
         /\ \A i \in DOMAIN Steps : Steps[i] \in Good
<1>1. Steps \in Seq(Good)
  BY DEF TypeInv, Steps, Held
<1> QED
  BY <1>1

LEMMA TurnKeeps ==
  ASSUME TypeInv, Editing, NEW i \in DOMAIN Steps, NEW step \in Good, Turn(i, step)
  PROVE  TypeInv'
<1>1. Steps \in Seq(Good)
  BY StepsAreGood DEF Editing
<1>2. [Steps EXCEPT ![i] = step] \in Seq(Good)
  BY <1>1
<1> QED
  BY <1>2, BecomesKeeps DEF Turn

LEMMA MovedIsGood ==
  ASSUME TypeInv, draft # None
  PROVE  /\ \A i \in DOMAIN Steps : RemoveAt(Steps, i) \in Seq(Good)
         /\ \A i \in 1 .. Len(Steps) - 1 :
              [Steps EXCEPT ![i] = Steps[i + 1], ![i + 1] = Steps[i]] \in Seq(Good)
<1>1. Steps \in Seq(Good) /\ DOMAIN Steps = 1 .. Len(Steps) /\ Len(Steps) \in Nat
  BY StepsAreGood
<1>2. \A i \in DOMAIN Steps : RemoveAt(Steps, i) \in Seq(Good)
  BY <1>1, RemoveKeeps
<1>3. ASSUME NEW i \in 1 .. Len(Steps) - 1
      PROVE  [Steps EXCEPT ![i] = Steps[i + 1], ![i + 1] = Steps[i]] \in Seq(Good)
  <2>1. i \in DOMAIN Steps /\ i + 1 \in DOMAIN Steps
    BY <1>1
  <2>2. Steps[i] \in Good /\ Steps[i + 1] \in Good
    BY <1>1, <2>1
  <2>3. [Steps EXCEPT ![i] = Steps[i + 1]] \in Seq(Good)
    BY <1>1, <2>1, <2>2
  <2> QED
    BY <1>1, <2>1, <2>2, <2>3
<1> QED
  BY <1>2, <1>3

LEMMA EditKeepsType ==
  ASSUME TypeInv, EditStep
  PROVE  TypeInv'
<1>1. Editing /\ draft # None
  BY DEF EditStep, Editing, AddStep, RemoveStep, MoveStep, SetKind, Aim, PickFrame,
         PickWaitFrame, WaitByFrame, HoldField, CountField, TakeField, CaptureField, NameVariable
<1>2. /\ Steps \in Seq(Good) /\ DOMAIN Steps = 1 .. Len(Steps) /\ Len(Steps) \in Nat
      /\ \A i \in DOMAIN Steps : Steps[i] \in Good
  BY <1>1, StepsAreGood
<1>3. links \in Seq(Links)
  BY DEF TypeInv
<1>4. \A x \in Fields : x \in Words
  BY FramesAreWords
<1>5. CASE AddStep
  <2> DEFINE kind == IF links = <<>> THEN "wait" ELSE "raw"
             new == Blank(kind, TargetsFor(kind, links))
  <2>1. new \in Good
    <3>1. CASE links = <<>>
      <4>1. new = Made("wait", NoFrame, <<>>)
        BY <3>1 DEF Blank, TargetsFor, NeedsAConnection
      <4>2. Distinct(<<>>) /\ <<>> \in Seq(Links)
        BY DEF Distinct
      <4> QED
        BY <4>1, <4>2, MadeIsGood, FramesAreWords
    <3>2. CASE links # <<>>
      <4>1. new = Made("raw", NoFrame, <<Head(links)>>)
        BY <3>2 DEF Blank, TargetsFor, NeedsAConnection
      <4> QED
        BY <1>3, <3>2, <4>1, FirstIsGood, MadeIsGood, FramesAreWords
    <3> QED
      BY <3>1, <3>2
  <2>2. Becomes(Append(Steps, new))
    BY <1>5 DEF AddStep
  <2> HIDE DEF new
  <2>3. Append(Steps, new) \in Seq(Good)
    BY <1>2, <2>1
  <2> QED
    BY <1>1, <2>2, <2>3, BecomesKeeps
<1>6. CASE RemoveStep
  <2>1. PICK i \in DOMAIN Steps : Becomes(PruneDanglingCaptures(RemoveAt(Steps, i)))
    BY <1>6 DEF RemoveStep
  <2> QED
    BY <1>1, <2>1, MovedIsGood, PruneKeeps, BecomesKeeps
<1>7. CASE MoveStep
  <2>1. PICK i \in 1 .. Len(Steps) - 1 :
          Becomes(PruneDanglingCaptures([Steps EXCEPT ![i] = Steps[i + 1], ![i + 1] = Steps[i]]))
    BY <1>7 DEF MoveStep
  <2>2. [Steps EXCEPT ![i] = Steps[i + 1], ![i + 1] = Steps[i]] \in Seq(Good)
    BY <1>1, MovedIsGood
  <2> QED
    BY <1>1, <2>1, <2>2, PruneKeeps, BecomesKeeps
<1>8. CASE SetKind
  <2>1. PICK i \in DOMAIN Steps, kind \in Kinds : Turn(i, SetAction(Steps[i], kind, links))
    BY <1>8 DEF SetKind
  <2>2. SetAction(Steps[i], kind, links) \in Good
    BY <1>2, <1>3, ActionIsGood
  <2> QED
    BY <1>1, <2>1, <2>2, TurnKeeps
<1>9. CASE Aim
  <2>1. PICK i \in DOMAIN Steps, link \in ToSet(links) :
          NeedsAConnection(Steps[i].kind) /\ Turn(i, Tick(Steps[i], link, front, links))
    BY <1>9 DEF Aim
  <2>2. Tick(Steps[i], link, front, links) \in Good
    BY <1>2, <1>3, <2>1, TickIsGood
  <2> QED
    BY <1>1, <2>1, <2>2, TurnKeeps
<1>10. CASE PickFrame
  <2>1. PICK i \in DOMAIN Steps, frame \in Frames :
          /\ Steps[i].kind = "send"
          /\ Turn(i, IF front = "desktop" THEN SetFrame(Steps[i], frame)
                     ELSE SetFrame([Steps[i] EXCEPT !.frame = frame], frame))
    BY <1>10 DEF PickFrame
  <2>2. Steps[i] \in Good /\ frame \in Words
    BY <1>2, FramesAreWords
  <2>3. /\ SetFrame(Steps[i], frame) \in Good
        /\ SetFrame([Steps[i] EXCEPT !.frame = frame], frame) \in Good
    BY <2>1, <2>2, RemadeIsGood
  <2> QED
    BY <1>1, <2>1, <2>3, TurnKeeps
<1>11. CASE PickWaitFrame
  <2>1. PICK i \in DOMAIN Steps, frame \in Frames :
          Steps[i].kind = "frame" /\ Turn(i, SetWaitFrame(Steps[i], frame))
    BY <1>11 DEF PickWaitFrame
  <2>2. Steps[i] \in Good /\ frame \in Words
    BY <1>2, FramesAreWords
  <2>3. SetWaitFrame(Steps[i], frame) \in Good
    BY <2>1, <2>2, RemadeIsGood
  <2> QED
    BY <1>1, <2>1, <2>3, TurnKeeps
<1>12. CASE WaitByFrame
  <2> DEFINE first == IF FrameOrder = <<>> THEN NoFrame ELSE Head(FrameOrder)
  <2>1. PICK i \in DOMAIN Steps :
          KindOf(Steps[i]) = "wait_for" /\ Turn(i, SetWaitByFrame(Steps[i], first))
    BY <1>12 DEF WaitByFrame
  <2>2. first \in Words
    <3>1. FrameOrder \in Seq(Frames)
      BY ListAssumption
    <3>2. FrameOrder # <<>> => Head(FrameOrder) \in Frames
      BY <3>1
    <3> QED
      BY <3>2, FramesAreWords
  <2> HIDE DEF first
  <2>3. SetWaitByFrame(Steps[i], first) \in Good
    BY <1>2, <2>1, <2>2, RemadeIsGood
  <2> QED
    BY <1>1, <2>1, <2>3, TurnKeeps
<1>13. CASE HoldField
  <2>1. PICK i \in DOMAIN Steps, x \in Fields : Turn(i, Hold(Steps[i], x))
    BY <1>13 DEF HoldField
  <2>2. Hold(Steps[i], x) \in Good
    BY <1>2, <1>4, SaidIsGood
  <2> QED
    BY <1>1, <2>1, <2>2, TurnKeeps
<1>14. CASE CountField
  <2>1. PICK i \in DOMAIN Steps, x \in Fields : Turn(i, SetCounter(Steps[i], x))
    BY <1>14 DEF CountField
  <2>2. SetCounter(Steps[i], x) \in Good
    BY <1>2, <1>4, SaidIsGood
  <2> QED
    BY <1>1, <2>1, <2>2, TurnKeeps
<1>15. CASE TakeField
  <2>1. PICK i \in DOMAIN Steps, x \in Fields :
          \/ \E v \in CapturedBefore(Steps, i) : Turn(i, TakeFrom(Steps[i], x, v))
          \/ Turn(i, TakeFromNothing(Steps[i], x))
    BY <1>15 DEF TakeField
  <2>2. CapturedBefore(Steps, i) \subseteq Words
    <3>1. \A j \in 1 .. i - 1 : j \in DOMAIN Steps
      BY <1>2
    <3>2. \A j \in 1 .. i - 1 : Steps[j].capture \in Naming
      BY <1>2, <3>1 DEF Good, StepOf
    <3>3. \A j \in 1 .. i - 1 : Range(Steps[j].capture) \subseteq Words
      BY <3>2, NamingKeeps
    <3> QED
      BY <3>3 DEF CapturedBefore
  <2>3. /\ \A v \in CapturedBefore(Steps, i) : TakeFrom(Steps[i], x, v) \in Good
        /\ TakeFromNothing(Steps[i], x) \in Good
    BY <1>2, <1>4, <2>2, SaidIsGood
  <2> QED
    BY <1>1, <2>1, <2>3, TurnKeeps
<1>16. CASE CaptureField
  <2>1. PICK i \in DOMAIN Steps, x \in Fields : Turn(i, Capture(Steps[i], x))
    BY <1>16 DEF CaptureField
  <2>2. Capture(Steps[i], x) \in Good
    BY <1>2, <1>4, SaidIsGood
  <2> QED
    BY <1>1, <2>1, <2>2, TurnKeeps
<1>17. CASE NameVariable
  <2>1. PICK i \in DOMAIN Steps, x \in Fields, v \in Variables :
          Turn(i, RenameCapture(Steps[i], x, v))
    BY <1>17 DEF NameVariable
  <2>2. v \in Words
    BY ListAssumption
  <2>3. RenameCapture(Steps[i], x, v) \in Good
    BY <1>2, <1>4, <2>2, SaidIsGood
  <2> QED
    BY <1>1, <2>1, <2>3, TurnKeeps
<1> QED
  BY <1>5, <1>6, <1>7, <1>8, <1>9, <1>10, <1>11, <1>12, <1>13, <1>14, <1>15, <1>16, <1>17
     DEF EditStep

-----------------------------------------------------------------------------
(* A document rendered is texts again, or nothing that can be parsed.      *)

LEMMA ImageIsFinite ==
  ASSUME NEW S, IsFiniteSet(S), NEW f, DOMAIN f = S
  PROVE  IsFiniteSet({f[x] : x \in S})
<1> DEFINE T == {f[x] : x \in S}
           g == [x \in S |-> f[x]]
<1>1. g \in Surjection(S, T)
  BY DEF Surjection
<1> HIDE DEF g, T
<1>2. IsFiniteSet(T)
  BY <1>1, FS_Surjection
<1> QED
  BY <1>2 DEF T

LEMMA HeadersAre ==
  ASSUME NEW text \in Seq(Text)
  PROVE  /\ IsFiniteSet(Headers(text))
         /\ \A h \in Headers(text) :
              /\ h[1] \in DOMAIN text
              /\ h[2] # 0 => h[2] \in DOMAIN text[h[1]].steps
<1> DEFINE steps(k) == text[k].steps
           maps(k, i) == {<<k, i, p>> : p \in {0} \cup Owned(steps(k)[i])}
           under(k) == UNION {maps(k, i) : i \in DOMAIN steps(k)}
           of(k) == {<<k, 0, 0>>} \cup under(k)
<1>1. \A k \in DOMAIN text : steps(k) \in Seq(StepOf)
  <2>1. \A k \in DOMAIN text : text[k] \in Text
    OBVIOUS
  <2> QED
    BY <2>1 DEF Text
<1>2. \A k, i : IsFiniteSet(maps(k, i))
  <2> SUFFICES ASSUME NEW k, NEW i PROVE IsFiniteSet(maps(k, i))
    OBVIOUS
  <2> DEFINE whole == {0} \cup Owned(steps(k)[i])
  <2>1. Owned(steps(k)[i]) \subseteq 1 .. 2
    BY DEF Owned
  <2>2. IsFiniteSet(whole)
    <3> HIDE DEF steps
    <3>1. whole \in SUBSET Nat /\ \A p \in whole : p <= 2
      BY <2>1
    <3> HIDE DEF whole
    <3> QED
      BY <3>1, FS_BoundedSetOfNaturals
  <2>3. IsFiniteSet({<<k, i, p>> : p \in whole})
    <3> HIDE DEF whole
    <3> DEFINE f == [p \in whole |-> <<k, i, p>>]
    <3>1. {f[p] : p \in whole} = {<<k, i, p>> : p \in whole} /\ DOMAIN f = whole
      OBVIOUS
    <3> HIDE DEF f
    <3>2. IsFiniteSet({f[p] : p \in whole})
      BY <2>2, <3>1, ImageIsFinite
    <3> QED
      BY <3>1, <3>2
  <2> QED
    BY <2>3
<1>3. \A k \in DOMAIN text : IsFiniteSet(under(k))
  <2> SUFFICES ASSUME NEW k \in DOMAIN text PROVE IsFiniteSet(under(k))
    OBVIOUS
  <2>1. IsFiniteSet(DOMAIN steps(k))
    <3>1. DOMAIN steps(k) = 1 .. Len(steps(k)) /\ Len(steps(k)) \in Nat
      BY <1>1
    <3> QED
      BY <3>1, FS_Interval
  <2> DEFINE all == {maps(k, i) : i \in DOMAIN steps(k)}
  <2>2. IsFiniteSet(all)
    <3> HIDE DEF maps, steps
    <3> DEFINE f == [i \in DOMAIN steps(k) |-> maps(k, i)]
    <3>1. {f[i] : i \in DOMAIN steps(k)} = all /\ DOMAIN f = DOMAIN steps(k)
      OBVIOUS
    <3> HIDE DEF f, all
    <3>2. IsFiniteSet({f[i] : i \in DOMAIN steps(k)})
      BY <2>1, <3>1, ImageIsFinite
    <3> QED
      BY <3>1, <3>2
  <2>3. \A part \in all : IsFiniteSet(part)
    <3> HIDE DEF maps, steps
    <3> QED
      BY <1>2
  <2> HIDE DEF all
  <2>4. IsFiniteSet(UNION all)
    BY <2>2, <2>3, FS_UNION
  <2> QED
    BY <2>4 DEF all
<1>4. \A k \in DOMAIN text : IsFiniteSet(of(k))
  <2> SUFFICES ASSUME NEW k \in DOMAIN text PROVE IsFiniteSet(of(k))
    OBVIOUS
  <2> HIDE DEF under
  <2>1. IsFiniteSet({<<k, 0, 0>>}) /\ IsFiniteSet(under(k))
    BY <1>3, FS_Singleton
  <2> QED
    BY <2>1, FS_Union
<1>5. IsFiniteSet(UNION {of(k) : k \in DOMAIN text})
  <2> DEFINE all == {of(k) : k \in DOMAIN text}
  <2>1. IsFiniteSet(DOMAIN text)
    <3>1. DOMAIN text = 1 .. Len(text) /\ Len(text) \in Nat
      OBVIOUS
    <3> QED
      BY <3>1, FS_Interval
  <2> HIDE DEF of
  <2>2. IsFiniteSet(all) /\ \A part \in all : IsFiniteSet(part)
    <3> DEFINE f == [k \in DOMAIN text |-> of(k)]
    <3>1. {f[k] : k \in DOMAIN text} = all /\ DOMAIN f = DOMAIN text
      OBVIOUS
    <3>2. \A part \in all : IsFiniteSet(part)
      BY <1>4
    <3> HIDE DEF f, all
    <3>3. IsFiniteSet({f[k] : k \in DOMAIN text})
      BY <2>1, <3>1, ImageIsFinite
    <3> QED
      BY <3>1, <3>2, <3>3
  <2> HIDE DEF all
  <2>3. IsFiniteSet(UNION all)
    BY <2>2, FS_UNION
  <2> QED
    BY <2>3 DEF all
<1>6. Headers(text) = UNION {of(k) : k \in DOMAIN text}
  BY DEF Headers
<1>7. ASSUME NEW h \in Headers(text)
      PROVE  h[1] \in DOMAIN text /\ (h[2] # 0 => h[2] \in DOMAIN text[h[1]].steps)
  <2>1. PICK k \in DOMAIN text : h \in of(k)
    BY <1>6
  <2>2. CASE h = <<k, 0, 0>>
    BY <2>2
  <2>3. ASSUME NEW i \in DOMAIN steps(k), h \in maps(k, i)
        PROVE  h[1] = k /\ h[2] = i
    BY <2>3
  <2> QED
    BY <2>1, <2>2, <2>3
<1> QED
  BY <1>5, <1>6, <1>7

LEMMA RemappedIsStep ==
  ASSUME NEW step \in StepOf, NEW from \in Naming, NEW capture \in Naming
  PROVE  [step EXCEPT !.from = from, !.capture = capture] \in StepOf
BY DEF StepOf

LEMMA StepReadIsStep ==
  ASSUME NEW doc, doc.text \in Seq(Text), DOMAIN doc.at = Headers(doc.text),
         NEW g \in StepHeaders(doc)
  PROVE  StepRead(doc, g) \in StepOf
<1>1. \A h \in StepHeaders(doc) \cup MapHeaders(doc) :
        h \in Headers(doc.text) /\ (h \in StepHeaders(doc) => h[2] # 0)
  BY DEF StepHeaders, MapHeaders
<1>2. \A h \in Headers(doc.text) : h[2] # 0 => doc.text[h[1]].steps[h[2]] \in StepOf
  <2> SUFFICES ASSUME NEW h \in Headers(doc.text), h[2] # 0
               PROVE  doc.text[h[1]].steps[h[2]] \in StepOf
    OBVIOUS
  <2>1. h[1] \in DOMAIN doc.text /\ h[2] \in DOMAIN doc.text[h[1]].steps
    BY HeadersAre
  <2>2. doc.text[h[1]] \in Text
    BY <2>1
  <2>3. doc.text[h[1]].steps \in Seq(StepOf)
    BY <2>2 DEF Text
  <2> QED
    BY <2>1, <2>3
<1>3. \A h \in MapHeaders(doc) : h[2] # 0
  <2> SUFFICES ASSUME NEW h \in Headers(doc.text), h[3] # 0 PROVE h[2] # 0
    BY DEF MapHeaders
  <2>1. PICK k \in DOMAIN doc.text :
          h = <<k, 0, 0>> \/ \E i \in DOMAIN doc.text[k].steps : \E p \in 0 .. 2 : h = <<k, i, p>>
    BY DEF Headers, Owned
  <2>2. doc.text[k].steps \in Seq(StepOf)
    <3>1. doc.text[k] \in Text
      OBVIOUS
    <3> QED
      BY <3>1 DEF Text
  <2>3. \A i \in DOMAIN doc.text[k].steps : i # 0
    BY <2>2
  <2> QED
    BY <2>1, <2>3
<1> DEFINE step == doc.text[g[1]].steps[g[2]]
           map(p) == IF step.kind # "send" THEN MapOf(step, p)
                     ELSE IF MapsUnder(doc, g, p) = {} THEN <<>>
                     ELSE LET h == CHOOSE h \in MapsUnder(doc, g, p) : TRUE
                          IN MapOf(doc.text[h[1]].steps[h[2]], p)
<1>4. step \in StepOf
  BY <1>1, <1>2
<1>5. \A s \in StepOf : \A p : MapOf(s, p) \in Naming
  BY DEF MapOf, StepOf
<1>6. \A p : map(p) \in Naming
  <2> SUFFICES ASSUME NEW p PROVE map(p) \in Naming
    OBVIOUS
  <2> HIDE DEF step
  <2>1. CASE step.kind # "send"
    BY <1>4, <1>5, <2>1
  <2>2. CASE step.kind = "send" /\ MapsUnder(doc, g, p) = {}
    BY <2>2, EmptyNaming
  <2>3. CASE step.kind = "send" /\ MapsUnder(doc, g, p) # {}
    <3> DEFINE h == CHOOSE h \in MapsUnder(doc, g, p) : TRUE
    <3>1. h \in MapHeaders(doc)
      BY <2>3 DEF MapsUnder
    <3>2. doc.text[h[1]].steps[h[2]] \in StepOf
      <4> HIDE DEF h
      <4> QED
        BY <1>1, <1>2, <1>3, <3>1
    <3>3. map(p) = MapOf(doc.text[h[1]].steps[h[2]], p)
      BY <2>3
    <3> HIDE DEF h, map
    <3> QED
      BY <1>5, <3>2, <3>3
  <2> QED
    BY <2>1, <2>2, <2>3
<1> DEFINE from == map(1)
           capture == map(2)
<1>7. StepRead(doc, g) = [step EXCEPT !.from = from, !.capture = capture]
  BY DEF StepRead
<1> HIDE DEF step, map
<1>8. from \in Naming /\ capture \in Naming
  BY <1>6
<1> HIDE DEF from, capture
<1>9. [step EXCEPT !.from = from, !.capture = capture] \in StepOf
  BY <1>4, <1>8, RemappedIsStep
<1> QED
  BY <1>7, <1>9

LEMMA ScenarioReadIsText ==
  ASSUME NEW text \in Seq(Text), NEW doc, doc.text = text, DOMAIN doc.at = Headers(text),
         NEW s \in DOMAIN text
  PROVE  ScenarioRead(doc, s) \in Text
<1> DEFINE under == StepsUnder(doc, s)
           turns == {Turns(doc, g) : g \in under}
           n == Cardinality(turns)
           nth(k) == CHOOSE g \in under : Turns(doc, g) = Ascending(turns)[k]
<1>1. under \subseteq StepHeaders(doc) /\ under \subseteq Headers(text)
  BY DEF StepsUnder, StepHeaders
<1>2. IsFiniteSet(under)
  BY <1>1, HeadersAre, FS_Subset
<1>3. \A g : Turns(doc, g) \in Nat
  <2> SUFFICES ASSUME NEW g PROVE Turns(doc, g) \in Nat
    OBVIOUS
  <2> DEFINE before == {o \in DOMAIN doc.at : Precedes(doc, o, g)}
  <2>1. IsFiniteSet(before)
    <3>1. before \subseteq Headers(text)
      OBVIOUS
    <3> QED
      BY <3>1, HeadersAre, FS_Subset
  <2> QED
    BY <2>1, FS_CardinalityType DEF Turns
<1>4. IsFiniteSet(turns) /\ turns \in SUBSET Nat
  <2> HIDE DEF under
  <2>1. IsFiniteSet(turns)
    <3> DEFINE f == [g \in under |-> Turns(doc, g)]
    <3>1. {f[g] : g \in under} = turns /\ DOMAIN f = under
      OBVIOUS
    <3> HIDE DEF f, turns
    <3>2. IsFiniteSet({f[g] : g \in under})
      BY <1>2, <3>1, ImageIsFinite
    <3> QED
      BY <3>1, <3>2
  <2> QED
    BY <1>3, <2>1
<1>5. n \in Nat
  <2> HIDE DEF turns
  <2> QED
    BY <1>4, FS_CardinalityType
<1>6. Ascending(turns) \in [1 .. n -> turns]
  <2> HIDE DEF turns
  <2> QED
    BY <1>4, AscendingRises
<1>7. ASSUME NEW k \in 1 .. n PROVE StepRead(doc, nth(k)) \in StepOf
  <2>1. Ascending(turns)[k] \in turns
    <3> HIDE DEF turns, n
    <3> QED
      BY <1>6, <1>7
  <2>2. \E g \in under : Turns(doc, g) = Ascending(turns)[k]
    <3> HIDE DEF under
    <3> QED
      BY <2>1
  <2>3. nth(k) \in under
    <3> HIDE DEF under, turns
    <3> QED
      BY <2>2
  <2>4. nth(k) \in StepHeaders(doc)
    <3> HIDE DEF nth
    <3> QED
      BY <1>1, <2>3
  <2> HIDE DEF nth
  <2> QED
    BY <2>4, StepReadIsStep
<1> DEFINE steps == [k \in 1 .. n |-> StepRead(doc, nth(k))]
<1>8. steps \in Seq(StepOf)
  <2> HIDE DEF nth, n
  <2> QED
    BY <1>5, <1>7
<1>9. ScenarioRead(doc, s) = [text[s] EXCEPT !.steps = steps]
  BY DEF ScenarioRead
<1> HIDE DEF steps
<1>10. text[s] \in Text
  OBVIOUS
<1> QED
  BY <1>8, <1>9, <1>10 DEF Text

LEMMA RenderedIsText ==
  ASSUME NEW text \in Seq(Text), NEW k \in DOMAIN text, NEW fresh \in Text
  PROVE  Rendered(Merge(text, k, fresh)) \in Seq(Text) \cup {Unparsed}
<1> DEFINE merged == [text EXCEPT ![k] = fresh]
           doc == Merge(text, k, fresh)
<1>1. merged \in Seq(Text) /\ doc.text = merged /\ DOMAIN doc.at = Headers(merged)
  BY DEF Merge
<1> HIDE DEF doc, merged
<1>2. \A s \in DOMAIN merged : ScenarioRead(doc, s) \in Text
  BY <1>1, ScenarioReadIsText
<1>3. [s \in DOMAIN merged |-> ScenarioRead(doc, s)] \in Seq(Text)
  <2>1. DOMAIN merged = 1 .. Len(merged) /\ Len(merged) \in Nat
    BY <1>1
  <2> QED
    BY <1>2, <2>1
<1> QED
  BY <1>1, <1>3 DEF Rendered, doc

(* What is written of the draft in the place it has.                       *)
LEMMA WrittenIsText ==
  ASSUME TypeInv, draft # None, InFile(Home)
  PROVE  Home \in ToSet(Files) /\ Written(Home) \in Seq(Text) \cup {Unparsed}
<1>1. draft \in [scenario : Held, origin : Origins \cup {None}]
  BY DEF TypeInv
<1>2. draft.scenario \in Held /\ draft.scenario.name \in DOMAIN Spelled
      /\ (draft.origin # None => draft.origin \in Origins)
  BY <1>1 DEF Held
<1>3. Home \in ToSet(Files)
  BY <1>2, ListAssumption DEF Home, Origins
<1> DEFINE fresh == Lower(draft.scenario)
           text == disk[Home]
<1>4. fresh \in Text
  BY <1>2, LowerIsText
<1>5. text # None => text \in Seq(Text)
  BY <1>3 DEF TypeInv, DiskType, InFile
<1> HIDE DEF fresh, text
<1>6. CASE text = None
  <2>1. Written(Home) = <<fresh>>
    BY <1>6 DEF Written, fresh, text
  <2> QED
    BY <1>3, <1>4, <2>1
<1>7. CASE text # None /\ draft.origin = None
  <2>1. Written(Home) = Append(text, fresh)
    BY <1>7 DEF Written, fresh, text
  <2> QED
    BY <1>3, <1>4, <1>5, <1>7, <2>1
<1>8. CASE text # None /\ draft.origin # None
  <2> DEFINE at == Place(text, draft.origin.name)
  <2>1. Written(Home) = Rendered(Merge(text, at, fresh))
    BY <1>8 DEF Written, Patched, fresh, text
  <2>2. at # 0
    BY <1>8 DEF InFile, IsPatched, text
  <2>3. at \in DOMAIN text
    BY <1>5, <1>8, <2>2, PlaceIsFirst
  <2> HIDE DEF at
  <2> QED
    BY <1>3, <1>4, <1>5, <1>8, <2>1, <2>3, RenderedIsText
<1> QED
  BY <1>6, <1>7, <1>8

LEMMA NextKeepsType ==
  ASSUME TypeInv, [Next]_vars
  PROVE  TypeInv'
<1>1. CASE UNCHANGED vars
  BY <1>1 DEF TypeInv, DiskType, vars, library
<1>2. CASE Reload
  BY <1>2, LoadIsHeld DEF Reload, TypeInv, DiskType, engine
<1>3. CASE BeginNew
  <2> DEFINE first == [name |-> NewName, rest |-> 0, steps |-> <<Blank("wait", <<>>)>>]
  <2>1. Blank("wait", <<>>) \in Good
    <3>1. Distinct(<<>>) /\ <<>> \in Seq(Links)
      BY DEF Distinct
    <3> QED
      BY <3>1, MadeIsGood, FramesAreWords DEF Blank
  <2>2. first \in Held
    BY <2>1, ListAssumption DEF Held
  <2>3. draft' = [scenario |-> first, origin |-> None]
    BY <1>3 DEF BeginNew, Draft
  <2> HIDE DEF first
  <2> QED
    BY <1>3, <2>2, <2>3 DEF BeginNew, TypeInv, DiskType, library
<1>4. CASE CancelEdit
  BY <1>4 DEF CancelEdit, TypeInv, DiskType, library
<1>5. CASE EditName \/ EditHeader
  <2>1. draft \in [scenario : Held, origin : Origins \cup {None}]
    BY <1>5 DEF EditName, EditHeader, Editing, TypeInv
  <2>2. \/ \E n \in DOMAIN Spelled : draft' = [draft EXCEPT !.scenario.name = n]
        \/ \E r \in 0 .. 1 : draft' = [draft EXCEPT !.scenario.rest = r]
    BY <1>5 DEF EditName, EditHeader
  <2>3. draft' \in [scenario : Held, origin : Origins \cup {None}]
    BY <2>1, <2>2 DEF Held
  <2> QED
    BY <1>5, <2>3 DEF EditName, EditHeader, Editing, TypeInv, DiskType, library
<1>6. CASE EditStep
  BY <1>6, EditKeepsType
<1>7. CASE SaveDraft
  <2>1. draft # None /\ InFile(Home) /\ draft \in [scenario : Held, origin : Origins \cup {None}]
    BY <1>7 DEF SaveDraft, TypeInv
  <2>2. Home \in ToSet(Files) /\ Written(Home) \in Seq(Text) \cup {Unparsed}
    BY <2>1, WrittenIsText
  <2>3. DiskType'
    BY <1>7, <2>2 DEF SaveDraft, TypeInv, DiskType
  <2>4. entries' \in SUBSET [file : ToSet(Files), scenario : Held]
    BY <1>7, <2>1, <2>2 DEF SaveDraft, TypeInv
  <2>6. \A e \in entries' : disk'[e.file] # None
    <3>1. Written(Home) # None
      BY <2>2, ListAssumption
    <3>2. \A e \in entries' : e \in entries \/ e.file = Home
      BY <1>7 DEF SaveDraft
    <3>3. \A f \in ToSet(Files) : disk'[f] = IF f = Home THEN Written(Home) ELSE disk[f]
      BY <1>7, <2>2 DEF SaveDraft, TypeInv, DiskType
    <3> QED
      BY <2>4, <3>1, <3>2, <3>3 DEF TypeInv
  <2>5. draft' \in [scenario : Held, origin : Origins \cup {None}]
    BY <1>7, <2>1, <2>2 DEF SaveDraft, Draft, Origin, Origins, Held
  <2> QED
    BY <1>7, <2>3, <2>4, <2>5, <2>6 DEF SaveDraft, TypeInv
<1>8. CASE HeardStarted \/ HeardEnded
  BY <1>8 DEF HeardStarted, HeardEnded, TypeInv, DiskType, library
<1>9. ASSUME NEW e \in entries, BeginEdit(e) PROVE TypeInv'
  <2>1. e \in [file : ToSet(Files), scenario : Held]
    BY DEF TypeInv
  <2>2. draft' \in [scenario : Held, origin : Origins \cup {None}]
    BY <1>9, <2>1 DEF BeginEdit, Draft, Origin, Origins, Held
  <2> QED
    BY <1>9, <2>2 DEF BeginEdit, TypeInv, DiskType, library
<1>10. ASSUME NEW e \in entries, DeleteSelected(e) PROVE TypeInv'
  <2>1. e \in [file : ToSet(Files), scenario : Held]
    BY DEF TypeInv
  <2> DEFINE text == disk[e.file]
             at == Place(text, e.scenario.name)
  <2>2. at # 0 /\ disk' = [disk EXCEPT ![e.file] = RemoveAt(text, at)]
    BY <1>10 DEF DeleteSelected
  <2>3. text \in Seq(Text)
    BY <1>10, <2>1 DEF TypeInv, DiskType, DeleteSelected
  <2>4. at \in DOMAIN text
    BY <2>2, <2>3, PlaceIsFirst
  <2> HIDE DEF text, at
  <2>5. RemoveAt(text, at) \in Seq(Text) /\ RemoveAt(text, at) # None
    BY <2>3, <2>4, RemoveKeeps, ListAssumption
  <2>6. DiskType' /\ \A f \in ToSet(Files) : disk[f] # None => disk'[f] # None
    BY <2>1, <2>2, <2>5 DEF TypeInv, DiskType
  <2>7. entries' \in SUBSET entries
    BY <1>10 DEF DeleteSelected
  <2>8. \A e2 \in entries' : disk'[e2.file] # None
    BY <2>6, <2>7 DEF TypeInv
  <2> QED
    BY <1>10, <2>6, <2>7, <2>8 DEF DeleteSelected, TypeInv
<1>11. ASSUME NEW e \in entries, Start(e) PROVE TypeInv'
  BY <1>11 DEF Start, TypeInv, DiskType, library
<1> QED
  BY <1>1, <1>2, <1>3, <1>4, <1>5, <1>6, <1>7, <1>8, <1>9, <1>10, <1>11 DEF Next

(* For every folder of texts, whatever names it spells and however many    *)
(* times: what is held stays what the loader could have built, and what is *)
(* written is a text.                                                      *)
THEOREM TypesHold == Spec => []TypeInv
<1>1. Init => TypeInv
  BY TypeInit
<1>2. TypeInv /\ [Next]_vars => TypeInv'
  BY NextKeepsType
<1> QED
  BY <1>1, <1>2, PTL DEF Spec

-----------------------------------------------------------------------------
(* Whatever step of however long a scenario is moved or removed, none is   *)
(* left reading a variable that only a later one, or none, remembers       *)
(* (scenarios.rs:700-733).                                                 *)
THEOREM NoMoveLeavesAGap == Spec => MovesLeaveNoGap
<1> DEFINE Moves == draft # None /\ draft' # None /\ (MoveStep \/ RemoveStep)
                      => NoGap(draft'.scenario.steps)
<1>1. TypeInv => [Moves]_vars
  <2> SUFFICES ASSUME TypeInv, draft # None, MoveStep \/ RemoveStep
               PROVE  NoGap(draft'.scenario.steps)
    OBVIOUS
  <2>1. draft \in [scenario : Held, origin : Origins \cup {None}]
    BY DEF TypeInv
  <2>2. \A steps : Becomes(steps) => draft'.scenario.steps = steps
    BY <2>1 DEF Becomes, Held
  <2>3. CASE RemoveStep
    <3>1. PICK i \in DOMAIN Steps : Becomes(PruneDanglingCaptures(RemoveAt(Steps, i)))
      BY <2>3 DEF RemoveStep
    <3> QED
      BY <2>2, <3>1, MovedIsGood, PruneKeeps
  <2>4. CASE MoveStep
    <3>1. PICK i \in 1 .. Len(Steps) - 1 :
            Becomes(PruneDanglingCaptures([Steps EXCEPT ![i] = Steps[i + 1], ![i + 1] = Steps[i]]))
      BY <2>4 DEF MoveStep
    <3>2. [Steps EXCEPT ![i] = Steps[i + 1], ![i + 1] = Steps[i]] \in Seq(Good)
      BY MovedIsGood
    <3> QED
      BY <2>2, <3>1, <3>2, PruneKeeps
  <2> QED
    BY <2>3, <2>4
<1> QED
  BY <1>1, TypesHold, PTL DEF MovesLeaveNoGap, Moves

-----------------------------------------------------------------------------
(* What saving and deleting do to the text of one file.                    *)

LEMMA AppendReads ==
  ASSUME NEW text \in Seq(Text), FileReads(text), NEW raw \in Text, Reads(raw)
  PROVE  FileReads(Append(text, raw))
<1>1. DOMAIN text = 1 .. Len(text) /\ Len(text) \in Nat
      /\ DOMAIN Append(text, raw) = 1 .. Len(text) + 1
  OBVIOUS
<1>2. \A i \in 1 .. Len(text) + 1 : Append(text, raw)[i] = IF i = Len(text) + 1 THEN raw ELSE text[i]
  BY <1>1
<1>3. Append(text, raw) \notin {None, Unparsed}
  <2>1. Append(text, raw) \in Seq(Text)
    OBVIOUS
  <2> QED
    BY <2>1, ListAssumption, UnparsedAssumption
<1>4. \A i \in 1 .. Len(text) + 1 : i # Len(text) + 1 => i \in DOMAIN text
  BY <1>1
<1> QED
  BY <1>1, <1>2, <1>3, <1>4 DEF FileReads

LEMMA ReplaceReads ==
  ASSUME NEW text \in Seq(Text), FileReads(text), NEW raw \in Text, Reads(raw),
         NEW at \in DOMAIN text
  PROVE  FileReads([text EXCEPT ![at] = raw])
<1> DEFINE new == [text EXCEPT ![at] = raw]
<1>1. new \in Seq(Text) /\ DOMAIN new = DOMAIN text
      /\ \A i \in DOMAIN text : new[i] = IF i = at THEN raw ELSE text[i]
  OBVIOUS
<1> HIDE DEF new
<1>2. new \notin {None, Unparsed}
  BY <1>1, ListAssumption, UnparsedAssumption
<1> QED
  BY <1>1, <1>2 DEF FileReads, new

LEMMA RemoveReads ==
  ASSUME NEW text \in Seq(Text), FileReads(text), NEW at \in DOMAIN text
  PROVE  FileReads(RemoveAt(text, at))
<1> DEFINE new == RemoveAt(text, at)
<1>1. Len(text) \in Nat /\ DOMAIN text = 1 .. Len(text)
  OBVIOUS
<1>2. /\ new \in Seq(Text) /\ Len(new) = Len(text) - 1
      /\ \A k \in 1 .. Len(text) - 1 : new[k] = IF k < at THEN text[k] ELSE text[k + 1]
  BY RemoveKeeps
<1> HIDE DEF new
<1>3. DOMAIN new = 1 .. Len(text) - 1 /\ new \notin {None, Unparsed}
  BY <1>2, ListAssumption, UnparsedAssumption
<1>4. ASSUME NEW k \in 1 .. Len(text) - 1 PROVE Reads(new[k])
  <2>1. k \in DOMAIN text /\ k + 1 \in DOMAIN text
    BY <1>1
  <2>2. new[k] = text[k] \/ new[k] = text[k + 1]
    BY <1>2
  <2> QED
    BY <2>1, <2>2 DEF FileReads
<1> QED
  BY <1>3, <1>4 DEF FileReads, new

LEMMA SavedText ==
  ASSUME TypeInv, SaveDraft
  PROVE  /\ draft \in [scenario : Held, origin : Origins \cup {None}]
         /\ Home \in ToSet(Files) /\ Written(Home) \in Seq(Text) \cup {Unparsed}
         /\ disk' = [disk EXCEPT ![Home] = Written(Home)]
         /\ Lower(draft.scenario) \in Text /\ Reads(Lower(draft.scenario))
         /\ Lower(draft.scenario).name = draft.scenario.name
         /\ disk[Home] # None => disk[Home] \in Seq(Text)
         /\ disk[Home] # None /\ draft.origin # None
              => Place(disk[Home], draft.origin.name) \in DOMAIN disk[Home]
         /\ ~misplaced' /\ disk[Home] # None /\ draft.origin # None
              => Written(Home) = [disk[Home] EXCEPT ![Place(disk[Home], draft.origin.name)]
                                    = Lower(draft.scenario)]
<1>1. draft # None /\ draft \in [scenario : Held, origin : Origins \cup {None}] /\ InFile(Home)
  BY DEF SaveDraft, TypeInv
<1>2. Home \in ToSet(Files) /\ Written(Home) \in Seq(Text) \cup {Unparsed}
  BY <1>1, WrittenIsText
<1>3. Lower(draft.scenario) \in Text /\ Lower(draft.scenario).name = draft.scenario.name
  BY <1>1, LowerIsText
<1>4. Reads(Lower(draft.scenario))
  BY DEF SaveDraft, Problem
<1>5. disk[Home] # None => disk[Home] \in Seq(Text)
  BY <1>1, <1>2 DEF TypeInv, DiskType, InFile
<1>6. disk[Home] # None /\ draft.origin # None
        => Place(disk[Home], draft.origin.name) \in DOMAIN disk[Home]
  BY <1>1, <1>5, PlaceIsFirst DEF InFile, IsPatched
<1>7. ASSUME ~misplaced', disk[Home] # None, draft.origin # None
      PROVE  Written(Home) = [disk[Home] EXCEPT ![Place(disk[Home], draft.origin.name)]
                                = Lower(draft.scenario)]
  <2>1. InOrder(Patched(Home))
    BY <1>7 DEF SaveDraft, IsPatched
  <2>2. Written(Home) = Rendered(Patched(Home))
    BY <1>7 DEF Written
  <2> QED
    BY <2>1, <2>2 DEF Rendered, Patched, Merge
<1>8. disk' = [disk EXCEPT ![Home] = Written(Home)]
  BY DEF SaveDraft
<1> QED
  BY <1>1, <1>2, <1>3, <1>4, <1>5, <1>6, <1>7, <1>8

LEMMA DeletedText ==
  ASSUME TypeInv, NEW e \in entries, DeleteSelected(e)
  PROVE  LET text == disk[e.file]
             at == Place(text, e.scenario.name)
         IN /\ e.file \in ToSet(Files) /\ text \in Seq(Text) /\ at \in DOMAIN text
            /\ text[at].name = e.scenario.name
            /\ disk' = [disk EXCEPT ![e.file] = RemoveAt(text, at)]
<1> DEFINE text == disk[e.file]
           at == Place(text, e.scenario.name)
<1>1. e.file \in ToSet(Files) /\ text # None
  BY DEF TypeInv
<1>2. text \in Seq(Text)
  BY <1>1 DEF TypeInv, DiskType, DeleteSelected
<1>3. at # 0 /\ disk' = [disk EXCEPT ![e.file] = RemoveAt(text, at)]
  BY DEF DeleteSelected
<1>4. at \in DOMAIN text /\ text[at].name = e.scenario.name
  <2> HIDE DEF text
  <2> QED
    BY <1>2, <1>3, PlaceIsFirst
<1> QED
  BY <1>1, <1>2, <1>3, <1>4

LEMMA WrittenReads ==
  ASSUME TypeInv, SaveDraft, ~misplaced', FileReads(disk[Home])
  PROVE  FileReads(Written(Home))
<1> DEFINE text == disk[Home]
           fresh == Lower(draft.scenario)
           at == Place(text, draft.origin.name)
<1>1. text # None
  BY DEF FileReads
<1>2. /\ fresh \in Text /\ Reads(fresh) /\ text \in Seq(Text)
      /\ draft.origin # None => at \in DOMAIN text
  BY <1>1, SavedText
<1>3. Written(Home) = IF draft.origin = None THEN Append(text, fresh)
                      ELSE [text EXCEPT ![at] = fresh]
  BY <1>1, SavedText DEF Written
<1>4. FileReads(text)
  OBVIOUS
<1> HIDE DEF text, fresh, at
<1>5. CASE draft.origin = None
  BY <1>2, <1>3, <1>4, <1>5, AppendReads
<1>6. CASE draft.origin # None
  BY <1>2, <1>3, <1>4, <1>6, ReplaceReads
<1> QED
  BY <1>5, <1>6

LEMMA HeadersCount ==
  ASSUME NEW text \in Seq(Text), NEW h \in Headers(text)
  PROVE  h[1] \in Nat /\ h[2] \in Nat /\ h[3] \in Nat
<1>1. PICK k \in DOMAIN text :
        \/ h = <<k, 0, 0>>
        \/ \E i \in DOMAIN text[k].steps : \E p \in {0} \cup Owned(text[k].steps[i]) : h = <<k, i, p>>
  BY DEF Headers
<1>2. text[k] \in Text /\ k \in Nat
  OBVIOUS
<1>3. text[k].steps \in Seq(StepOf)
  BY <1>2 DEF Text
<1>4. DOMAIN text[k].steps \subseteq Nat
  BY <1>3
<1>5. \A step : \A p \in {0} \cup Owned(step) : p \in Nat
  BY DEF Owned
<1> QED
  BY <1>1, <1>2, <1>4, <1>5

(* What is read earlier is numbered lower. *)
LEMMA FiledRises ==
  ASSUME NEW text \in Seq(Text), NEW g, NEW h, Earlier(g, h),
         g[1] \in Nat, g[2] \in Nat, g[3] \in Nat, h[1] \in Nat, h[2] \in Nat, h[3] \in Nat
  PROVE  FiledAt(text, g) <= FiledAt(text, h)
<1> DEFINE before(x) == {o \in Headers(text) : Earlier(o, x)}
<1>1. IsFiniteSet(before(h)) /\ IsFiniteSet(before(g))
  BY HeadersAre, FS_Subset
<1>2. before(g) \in SUBSET before(h)
  <2> SUFFICES ASSUME NEW o \in Headers(text), Earlier(o, g) PROVE Earlier(o, h)
    OBVIOUS
  <2>1. o[1] \in Nat /\ o[2] \in Nat /\ o[3] \in Nat
    BY HeadersCount
  <2> QED
    BY <2>1 DEF Earlier
<1>3. FiledAt(text, g) = 1 + Cardinality(before(g)) /\ FiledAt(text, h) = 1 + Cardinality(before(h))
  BY DEF FiledAt
<1> HIDE DEF before
<1>4. Cardinality(before(g)) <= Cardinality(before(h))
  BY <1>1, <1>2, FS_Subset
<1>5. Cardinality(before(g)) \in Nat /\ Cardinality(before(h)) \in Nat
  BY <1>1, FS_CardinalityType
<1> QED
  BY <1>3, <1>4, <1>5

LEMMA PlainIsInOrder ==
  ASSUME NEW text \in Seq(Text), NEW k \in DOMAIN text, NEW fresh \in Text,
         AddsNoSection(text[k].steps, fresh.steps)
  PROVE  InOrder(Merge(text, k, fresh))
<1> DEFINE merged == [text EXCEPT ![k] = fresh]
<1>1. merged \in Seq(Text) /\ merged[k] = fresh
  OBVIOUS
<1>2. fresh.steps \in Seq(StepOf) /\ text[k].steps \in Seq(StepOf)
  <2>1. text[k] \in Text
    OBVIOUS
  <2> QED
    BY <2>1 DEF Text
<1>3. ASSUME NEW h \in Headers(merged) PROVE MergedAt(text, k, fresh, h) = FiledAt(text, h)
  <2>1. PICK m \in DOMAIN merged :
          \/ h = <<m, 0, 0>>
          \/ \E i \in DOMAIN merged[m].steps : \E p \in {0} \cup Owned(merged[m].steps[i]) :
               h = <<m, i, p>>
    BY DEF Headers
  <2> HIDE DEF merged
  <2>2. CASE h[1] # k \/ h[2] = 0
    BY <2>2 DEF MergedAt
  <2>3. CASE h[1] = k /\ h[2] # 0
    <3>1. PICK i \in DOMAIN fresh.steps : \E p \in {0} \cup Owned(fresh.steps[i]) : h = <<k, i, p>>
      BY <1>1, <2>1, <2>3
    <3>2. PICK p \in {0} \cup Owned(fresh.steps[i]) : h = <<k, i, p>>
      BY <3>1
    <3>3. ~(i > Len(text[k].steps))
      BY <1>2 DEF AddsNoSection
    <3>4. p = 0 \/ (p \in Owned(text[k].steps[i])
                   /\ MapOf(text[k].steps[i], p) = MapOf(fresh.steps[i], p))
      BY <3>2 DEF AddsNoSection
    <3>5. h[1] = k /\ h[2] = i /\ h[3] = p
      BY <3>2
    <3> QED
      BY <2>3, <3>3, <3>4, <3>5 DEF MergedAt
  <2> QED
    BY <2>2, <2>3
<1>4. DOMAIN Merge(text, k, fresh).at = Headers(merged)
      /\ \A h \in Headers(merged) : Merge(text, k, fresh).at[h] = MergedAt(text, k, fresh, h)
  BY DEF Merge
<1> HIDE DEF merged
<1>5. \A g, h \in Headers(merged) : Earlier(g, h) => FiledAt(text, g) <= FiledAt(text, h)
  BY <1>1, HeadersCount, FiledRises
<1> QED
  BY <1>3, <1>4, <1>5 DEF InOrder

(* For every file and every draft of it: a save that adds no section       *)
(* leaves every section under the header it was under (scenario.rs:608-644).*)
THEOREM PlainSavesMisplaceNothing == Spec => PlainSavesStayPut
<1> DEFINE Stays == /\ draft # None /\ SaveDraft /\ IsPatched(Home)
                    /\ AddsNoSection(disk[Home][Place(disk[Home], draft.origin.name)].steps,
                                     Lower(draft.scenario).steps)
                    => misplaced' = misplaced
<1>1. TypeInv => [Stays]_vars
  <2> SUFFICES ASSUME TypeInv, SaveDraft, IsPatched(Home),
                      AddsNoSection(disk[Home][Place(disk[Home], draft.origin.name)].steps,
                                    Lower(draft.scenario).steps)
               PROVE  misplaced' = misplaced
    OBVIOUS
  <2> DEFINE text == disk[Home]
             at == Place(text, draft.origin.name)
             fresh == Lower(draft.scenario)
  <2>1. text \in Seq(Text) /\ at \in DOMAIN text /\ fresh \in Text
    BY SavedText DEF IsPatched
  <2>2. InOrder(Merge(text, at, fresh))
    <3>1. AddsNoSection(text[at].steps, fresh.steps)
      OBVIOUS
    <3> HIDE DEF text, at, fresh
    <3> QED
      BY <2>1, <3>1, PlainIsInOrder
  <2>3. misplaced \in BOOLEAN
    BY DEF TypeInv
  <2>4. misplaced' = (misplaced \/ (IsPatched(Home) /\ ~InOrder(Patched(Home))))
    BY DEF SaveDraft
  <2>5. InOrder(Patched(Home))
    BY <2>2 DEF Patched
  <2> QED
    BY <2>3, <2>4, <2>5
<1> QED
  BY <1>1, TypesHold, PTL DEF PlainSavesStayPut, Stays

(* For every folder and every scenario, however it was edited, until a     *)
(* save has put a section under another header: no save and no deletion    *)
(* makes a file that loads stop loading, which would take all its          *)
(* scenarios down at the next Reload (scenarios.rs:362-368).               *)
THEOREM NoFileTakenDown == Spec => NothingTakenDown
<1> DEFINE Stays == ~misplaced' => \A f \in ToSet(Files) : FileReads(disk[f]) => FileReads(disk'[f])
<1>1. TypeInv /\ [Next]_vars => [Stays]_vars
  <2> SUFFICES ASSUME TypeInv, Next, ~misplaced', NEW f \in ToSet(Files), FileReads(disk[f])
               PROVE  FileReads(disk'[f])
    OBVIOUS
  <2>1. CASE UNCHANGED disk
    BY <2>1
  <2>2. CASE SaveDraft
    <3>1. /\ Home \in ToSet(Files)
          /\ disk' = [disk EXCEPT ![Home] = Written(Home)]
      BY <2>2, SavedText
    <3>2. disk'[f] = IF f = Home THEN Written(Home) ELSE disk[f]
      BY <3>1 DEF TypeInv, DiskType
    <3> QED
      BY <2>2, <3>2, WrittenReads
  <2>3. ASSUME NEW e \in entries, DeleteSelected(e)
        PROVE  FileReads(disk'[f])
    <3> DEFINE text == disk[e.file]
               at == Place(text, e.scenario.name)
    <3>1. /\ e.file \in ToSet(Files) /\ text \in Seq(Text) /\ at \in DOMAIN text
          /\ disk' = [disk EXCEPT ![e.file] = RemoveAt(text, at)]
      BY <2>3, DeletedText
    <3>2. disk'[f] = IF f = e.file THEN RemoveAt(text, at) ELSE disk[f]
      BY <3>1 DEF TypeInv, DiskType
    <3>3. FileReads(text) => FileReads(RemoveAt(text, at))
      <4> HIDE DEF text, at
      <4> QED
        BY <3>1, RemoveReads
    <3> QED
      BY <3>2, <3>3
  <2> QED
    BY <2>1, <2>2, <2>3
       DEF Next, Reload, BeginNew, CancelEdit, EditName, EditHeader, EditStep, Editing, AddStep,
           RemoveStep, MoveStep, SetKind, Aim, PickFrame, PickWaitFrame, WaitByFrame, HoldField,
           CountField, TakeField, CaptureField, NameVariable, HeardStarted, HeardEnded,
           BeginEdit, Start, library
<1> QED
  BY <1>1, TypesHold, PTL DEF NothingTakenDown, Stays, Spec

-----------------------------------------------------------------------------
(* The list and the disk.  What is asked of the folder at first: the files *)
(* that load say no name twice, and the file a new scenario would go to    *)
(* is not there yet or loads.  A name is what the loader makes of it: with *)
(* spaces around it, it comes back as another.                             *)
NamesAsSpelled == \A n \in DOMAIN Spelled : Spelled[n] = n
NamesOnce(text) == \A i, j \in DOMAIN text : text[i].name = text[j].name => i = j

Of(f, text) == {[file |-> f, scenario |-> Build(text[i])] : i \in DOMAIN text}
Loaded(d) == UNION {Of(f, d[f]) : f \in {g \in ToSet(Files) : FileReads(d[g])}}
Tidy(d) ==
  /\ \A f \in ToSet(Files) : FileReads(d[f]) => NamesOnce(d[f])
  /\ \A e1, e2 \in Loaded(d) : e1.scenario.name = e2.scenario.name => e1.file = e2.file
  /\ \A n \in DOMAIN Spelled : d[FileOf[n]] = None \/ FileReads(d[FileOf[n]])

ListInv ==
  /\ TypeInv
  /\ Tidy(disk)
  /\ entries = Loaded(disk)
  /\ draft # None /\ draft.origin # None => \E e \in entries : IsOrigin(e)

LEMMA OfNames ==
  ASSUME NamesAsSpelled, NEW f, NEW text \in Seq(Text), FileReads(text), NEW i \in DOMAIN text
  PROVE  /\ Reads(text[i]) /\ text[i] \in Text
         /\ [file |-> f, scenario |-> Build(text[i])] \in Of(f, text)
         /\ Build(text[i]).name = text[i].name
<1>1. Reads(text[i])
  BY DEF FileReads
<1>2. text[i] \in Text
  OBVIOUS
<1>3. Build(text[i]).name = Spelled[text[i].name]
  BY <1>1, <1>2, BuildIsHeld
<1>4. text[i].name \in DOMAIN Spelled
  BY <1>2 DEF Text
<1> QED
  BY <1>1, <1>2, <1>3, <1>4 DEF Of, NamesAsSpelled

LEMMA LoadedOf ==
  ASSUME NEW d, NEW e
  PROVE  e \in Loaded(d) <=> /\ e.file \in ToSet(Files) /\ FileReads(d[e.file])
                             /\ e \in Of(e.file, d[e.file])
<1>1. \A f, text : e \in Of(f, text) => e.file = f
  BY DEF Of
<1> QED
  BY <1>1 DEF Loaded

(* Where no name is said twice, the first of a name is each. *)
LEMMA TidyLoads ==
  ASSUME NamesAsSpelled, NEW d \in [ToSet(Files) -> Seq(Text) \cup {None, Unparsed}], Tidy(d)
  PROVE  LoadFrom(d) = Loaded(d)
<1> DEFINE at == UNION {{<<f, i>> : i \in DOMAIN d[f]} : f \in {g \in ToSet(Files) : FileReads(d[g])}}
           name(p) == Spelled[d[p[1]][p[2]].name]
           place(p) == SelectInSeq(Files, LAMBDA f : f = p[1])
           before(p, q) == place(p) < place(q) \/ (place(p) = place(q) /\ p[2] < q[2])
           entry(p) == [file |-> p[1], scenario |-> Build(d[p[1]][p[2]])]
<1>1. LoadFrom(d)
        = {entry(p) : p \in {q \in at : ~ \E other \in at : name(other) = name(q) /\ before(other, q)}}
  BY DEF LoadFrom
<1>2. ASSUME NEW p \in at
      PROVE  /\ p = <<p[1], p[2]>> /\ p[1] \in ToSet(Files) /\ FileReads(d[p[1]])
             /\ p[2] \in DOMAIN d[p[1]] /\ p[2] \in Nat
             /\ d[p[1]][p[2]].name = name(p)
             /\ entry(p) \in Loaded(d) /\ entry(p).scenario.name = name(p)
  <2>1. PICK f \in ToSet(Files) : FileReads(d[f]) /\ \E i \in DOMAIN d[f] : p = <<f, i>>
    OBVIOUS
  <2>2. d[f] \notin {None, Unparsed}
    BY <2>1 DEF FileReads
  <2>3. d[f] \in Seq(Text) /\ DOMAIN d[f] = 1 .. Len(d[f]) /\ Len(d[f]) \in Nat
    BY <2>2, ReadIsText
  <2>4. PICK i \in DOMAIN d[f] : p = <<f, i>>
    BY <2>1
  <2>5. /\ Build(d[f][i]).name = d[f][i].name /\ d[f][i] \in Text
        /\ [file |-> f, scenario |-> Build(d[f][i])] \in Of(f, d[f])
    BY <2>1, <2>3, OfNames
  <2>6. Spelled[d[f][i].name] = d[f][i].name
    BY <2>5 DEF Text, NamesAsSpelled
  <2> QED
    BY <2>1, <2>3, <2>4, <2>5, <2>6 DEF Loaded
<1>3. ASSUME NEW p \in at, NEW q \in at, name(p) = name(q)
      PROVE  p = q
  <2>1. p[1] = q[1]
    <3>1. entry(p).file = p[1] /\ entry(q).file = q[1]
      OBVIOUS
    <3> HIDE DEF entry, at, name
    <3> QED
      BY <1>2, <1>3, <3>1 DEF Tidy
  <2>2. p[2] = q[2]
    <3>1. NamesOnce(d[p[1]])
      BY <1>2 DEF Tidy
    <3>2. /\ p[2] \in DOMAIN d[p[1]] /\ q[2] \in DOMAIN d[p[1]]
          /\ d[p[1]][p[2]].name = name(p) /\ d[p[1]][q[2]].name = name(q)
      <4> HIDE DEF at, name
      <4> QED
        BY <1>2, <2>1
    <3> HIDE DEF at, name
    <3> QED
      BY <1>3, <3>1, <3>2 DEF NamesOnce
  <2> HIDE DEF at, name
  <2> QED
    BY <1>2, <2>1, <2>2
<1>4. ASSUME NEW p \in at PROVE ~before(p, p)
  <2>1. place(p) \in Nat
    <3> DEFINE I == {i \in 1 .. Len(Files) : Files[i] = p[1]}
    <3>1. place(p) = IF I # {} THEN Min(I) ELSE 0
      BY DEF SelectInSeq
    <3>2. I \in SUBSET Nat
      BY ListAssumption
    <3> HIDE DEF I
    <3> QED
      BY <3>1, <3>2, MinIsThere
  <2>2. p[2] \in Nat
    BY <1>2
  <2> HIDE DEF place
  <2> QED
    BY <2>1, <2>2
<1>5. LoadFrom(d) = {entry(p) : p \in at}
  <2> HIDE DEF at, name, before, entry
  <2> QED
    BY <1>1, <1>3, <1>4
<1>6. {entry(p) : p \in at} = Loaded(d)
  <2>1. \A p \in at : entry(p) \in Loaded(d)
    BY <1>2
  <2>2. ASSUME NEW e \in Loaded(d) PROVE \E p \in at : e = entry(p)
    <3>1. PICK f \in ToSet(Files) : FileReads(d[f]) /\ e \in Of(f, d[f])
      BY DEF Loaded
    <3>2. PICK i \in DOMAIN d[f] : e = [file |-> f, scenario |-> Build(d[f][i])]
      BY <3>1 DEF Of
    <3>3. <<f, i>> \in at
      BY <3>1, <3>2
    <3>4. e = entry(<<f, i>>)
      BY <3>2
    <3> HIDE DEF at, entry
    <3> QED
      BY <3>3, <3>4
  <2> HIDE DEF at, entry
  <2> QED
    BY <2>1, <2>2
<1> QED
  BY <1>5, <1>6

(* One file written.                                                       *)
LEMMA LoadedAfter ==
  ASSUME NEW d \in [ToSet(Files) -> Seq(Text) \cup {None, Unparsed}], NEW f \in ToSet(Files),
         NEW text \in Seq(Text), FileReads(text), NamesOnce(text), Tidy(d),
         \A e1 \in Of(f, text), e2 \in Loaded(d) : e2.file # f => e1.scenario.name # e2.scenario.name
  PROVE  LET after == [d EXCEPT ![f] = text]
         IN /\ Loaded(after) = {e \in Loaded(d) : e.file # f} \cup Of(f, text)
            /\ Tidy(after)
<1> DEFINE after == [d EXCEPT ![f] = text]
<1>1. \A g \in ToSet(Files) : after[g] = IF g = f THEN text ELSE d[g]
  OBVIOUS
<1>2. \A e, g, other : e \in Of(g, other) => e.file = g
  BY DEF Of
<1> HIDE DEF after
<1>3. ASSUME NEW e
      PROVE  e \in Loaded(after) <=> (e \in Loaded(d) /\ e.file # f) \/ e \in Of(f, text)
  <2>1. CASE e.file = f
    BY <1>1, <1>2, <2>1, LoadedOf
  <2>2. CASE e.file # f
    <3>1. e.file \in ToSet(Files) => after[e.file] = d[e.file]
      BY <1>1, <2>2
    <3>2. e \notin Of(f, text)
      BY <1>2, <2>2
    <3> QED
      BY <2>2, <3>1, <3>2, LoadedOf
  <2> QED
    BY <2>1, <2>2
<1>4. Loaded(after) = {e \in Loaded(d) : e.file # f} \cup Of(f, text)
  BY <1>3
<1>5. \A g \in ToSet(Files) : FileReads(after[g]) => NamesOnce(after[g])
  BY <1>1 DEF Tidy
<1>6. \A n \in DOMAIN Spelled : after[FileOf[n]] = None \/ FileReads(after[FileOf[n]])
  BY <1>1, ListAssumption DEF Tidy
<1>7. ASSUME NEW e1 \in Loaded(after), NEW e2 \in Loaded(after),
             e1.scenario.name = e2.scenario.name
      PROVE  e1.file = e2.file
  <2>1. \/ e1 \in Loaded(d) /\ e1.file # f
        \/ e1 \in Of(f, text) /\ e1.file = f
    BY <1>2, <1>4
  <2>2. \/ e2 \in Loaded(d) /\ e2.file # f
        \/ e2 \in Of(f, text) /\ e2.file = f
    BY <1>2, <1>4
  <2> QED
    BY <1>7, <2>1, <2>2 DEF Tidy
<1> QED
  BY <1>4, <1>5, <1>6, <1>7 DEF after, Tidy

(* What is listed of a file, when a text of it is added, replaced or       *)
(* removed.                                                                *)
LEMMA OfAppended ==
  ASSUME NEW f, NEW text \in Seq(Text), NEW raw
  PROVE  Of(f, Append(text, raw)) = Of(f, text) \cup {[file |-> f, scenario |-> Build(raw)]}
<1> DEFINE new == Append(text, raw)
           n == Len(text)
<1>1. /\ n \in Nat /\ DOMAIN text = 1 .. n /\ DOMAIN new = 1 .. n + 1
      /\ \A i \in 1 .. n : new[i] = text[i]
      /\ new[n + 1] = raw
  OBVIOUS
<1> HIDE DEF new, n
<1>2. \A i \in 1 .. n + 1 : i \in 1 .. n \/ i = n + 1
  BY <1>1
<1>3. \A i \in 1 .. n : i \in 1 .. n + 1
  BY <1>1
<1>4. n + 1 \in 1 .. n + 1
  BY <1>1
<1> QED
  BY <1>1, <1>2, <1>3, <1>4 DEF Of, new

LEMMA OfReplaced ==
  ASSUME NamesAsSpelled, NEW f, NEW text \in Seq(Text), FileReads(text), NamesOnce(text),
         NEW raw, NEW at \in DOMAIN text
  PROVE  Of(f, [text EXCEPT ![at] = raw])
           = {e \in Of(f, text) : e.scenario.name # text[at].name}
             \cup {[file |-> f, scenario |-> Build(raw)]}
<1> DEFINE new == [text EXCEPT ![at] = raw]
           entry(i) == [file |-> f, scenario |-> Build(text[i])]
<1>1. DOMAIN new = DOMAIN text /\ new[at] = raw /\ \A i \in DOMAIN text : i # at => new[i] = text[i]
  OBVIOUS
<1>2. \A i \in DOMAIN text : entry(i) \in Of(f, text) /\ entry(i).scenario.name = text[i].name
  BY OfNames
<1>3. \A e \in Of(f, text) : \E i \in DOMAIN text : e = entry(i)
  BY DEF Of
<1>4. \A i \in DOMAIN text : i # at => text[i].name # text[at].name
  BY DEF NamesOnce
<1> HIDE DEF new
<1>5. ASSUME NEW e
      PROVE  e \in Of(f, new)
               <=> \/ e \in Of(f, text) /\ e.scenario.name # text[at].name
                   \/ e = [file |-> f, scenario |-> Build(raw)]
  <2>1. e \in Of(f, new) <=> \E i \in DOMAIN text : e = [file |-> f, scenario |-> Build(new[i])]
    BY <1>1 DEF Of
  <2>2. \A i \in DOMAIN text :
          [file |-> f, scenario |-> Build(new[i])]
            = IF i = at THEN [file |-> f, scenario |-> Build(raw)] ELSE entry(i)
    BY <1>1
  <2> HIDE DEF entry
  <2>3. (\E i \in DOMAIN text : i # at /\ e = entry(i))
          <=> e \in Of(f, text) /\ e.scenario.name # text[at].name
    BY <1>2, <1>3, <1>4
  <2> QED
    BY <2>1, <2>2, <2>3
<1> QED
  BY <1>5 DEF new

LEMMA OfRemoved ==
  ASSUME NamesAsSpelled, NEW f, NEW text \in Seq(Text), FileReads(text), NamesOnce(text),
         NEW at \in DOMAIN text
  PROVE  /\ Of(f, RemoveAt(text, at)) = {e \in Of(f, text) : e.scenario.name # text[at].name}
         /\ NamesOnce(RemoveAt(text, at))
<1> DEFINE new == RemoveAt(text, at)
           entry(i) == [file |-> f, scenario |-> Build(text[i])]
           was(k) == IF k < at THEN k ELSE k + 1
<1>1. Len(text) \in Nat /\ DOMAIN text = 1 .. Len(text) /\ at \in 1 .. Len(text)
  OBVIOUS
<1>2. /\ DOMAIN new = 1 .. Len(text) - 1
      /\ \A k \in 1 .. Len(text) - 1 : new[k] = text[was(k)]
  <2>1. /\ new \in Seq(Text) /\ Len(new) = Len(text) - 1
        /\ \A k \in 1 .. Len(text) - 1 : new[k] = IF k < at THEN text[k] ELSE text[k + 1]
    BY RemoveKeeps
  <2> HIDE DEF new
  <2> QED
    BY <2>1
<1>3. \A k \in 1 .. Len(text) - 1 : was(k) \in 1 .. Len(text) /\ was(k) # at
  BY <1>1
<1>4. \A i \in 1 .. Len(text) : i # at => \E k \in 1 .. Len(text) - 1 : was(k) = i
  <2> SUFFICES ASSUME NEW i \in 1 .. Len(text), i # at
               PROVE  \E k \in 1 .. Len(text) - 1 : was(k) = i
    OBVIOUS
  <2>1. CASE i < at
    <3>1. i \in 1 .. Len(text) - 1 /\ was(i) = i
      BY <1>1, <2>1
    <3> QED
      BY <3>1
  <2>2. CASE i > at
    <3>1. i - 1 \in 1 .. Len(text) - 1 /\ was(i - 1) = i
      BY <1>1, <2>2
    <3> QED
      BY <3>1
  <2> QED
    BY <1>1, <2>1, <2>2
<1>5. \A j, k \in 1 .. Len(text) - 1 : was(j) = was(k) => j = k
  BY <1>1
<1>6. \A i \in DOMAIN text : entry(i) \in Of(f, text) /\ entry(i).scenario.name = text[i].name
  BY OfNames
<1>7. \A e \in Of(f, text) : \E i \in DOMAIN text : e = entry(i)
  BY DEF Of
<1>8. \A i \in DOMAIN text : i # at => text[i].name # text[at].name
  BY DEF NamesOnce
<1> HIDE DEF new, was
<1>9. ASSUME NEW e
      PROVE  e \in Of(f, new) <=> e \in Of(f, text) /\ e.scenario.name # text[at].name
  <2>1. e \in Of(f, new) <=> \E k \in 1 .. Len(text) - 1 : e = entry(was(k))
    BY <1>2 DEF Of
  <2> HIDE DEF entry
  <2>2. e \in Of(f, new) <=> \E i \in DOMAIN text : i # at /\ e = entry(i)
    BY <1>1, <1>3, <1>4, <2>1
  <2> QED
    BY <1>6, <1>7, <1>8, <2>2
<1>10. NamesOnce(new)
  <2> SUFFICES ASSUME NEW j \in 1 .. Len(text) - 1, NEW k \in 1 .. Len(text) - 1,
                      new[j].name = new[k].name
               PROVE  j = k
    BY <1>2 DEF NamesOnce
  <2>1. was(j) = was(k)
    BY <1>1, <1>2, <1>3 DEF NamesOnce
  <2> QED
    BY <1>5, <2>1
<1> QED
  BY <1>9, <1>10 DEF new

LEMMA DiskOf ==
  ASSUME NamesAsSpelled, ListInv, NEW f \in ToSet(Files), FileReads(disk[f])
  PROVE  /\ disk[f] # None /\ disk[f] \in Seq(Text) /\ NamesOnce(disk[f])
         /\ Of(f, disk[f]) = {e \in entries : e.file = f}
         /\ \A i \in DOMAIN disk[f] :
              \E e \in entries : e.file = f /\ e.scenario.name = disk[f][i].name
<1>1. disk[f] # None /\ disk[f] \in Seq(Text)
  BY DEF FileReads, ListInv, TypeInv, DiskType
<1>2. NamesOnce(disk[f])
  BY DEF ListInv, Tidy
<1>3. \A e : e \in Of(f, disk[f]) => e.file = f
  BY DEF Of
<1>4. Of(f, disk[f]) = {e \in entries : e.file = f}
  BY <1>3, LoadedOf DEF ListInv
<1>5. ASSUME NEW i \in DOMAIN disk[f]
      PROVE  \E e \in entries : e.file = f /\ e.scenario.name = disk[f][i].name
  <2> DEFINE e == [file |-> f, scenario |-> Build(disk[f][i])]
  <2>1. e \in Of(f, disk[f]) /\ Build(disk[f][i]).name = disk[f][i].name
    BY <1>1, OfNames
  <2>2. e.scenario.name = disk[f][i].name
    BY <2>1
  <2> HIDE DEF e
  <2> QED
    BY <1>4, <2>1, <2>2
<1> QED
  BY <1>1, <1>2, <1>4, <1>5

(* A copy saved: what its file says then is what was listed of it, less    *)
(* what the copy is of, and the copy.                                      *)
LEMMA SavedFile ==
  ASSUME NamesAsSpelled, ListInv, SaveDraft, ~misplaced'
  PROVE  /\ FileReads(Written(Home)) /\ NamesOnce(Written(Home))
         /\ Of(Home, Written(Home))
              = {e \in entries : e.file = Home /\ ~IsOrigin(e)}
                \cup {[file |-> Home, scenario |-> draft.scenario]}
<1> DEFINE text == disk[Home]
           fresh == Lower(draft.scenario)
           at == Place(text, draft.origin.name)
           new == [file |-> Home, scenario |-> draft.scenario]
<1>1. TypeInv /\ draft # None /\ ~NameTaken
  BY DEF ListInv, SaveDraft
<1>2. /\ draft \in [scenario : Held, origin : Origins \cup {None}]
      /\ Home \in ToSet(Files) /\ fresh \in Text /\ Reads(fresh)
      /\ fresh.name = draft.scenario.name
      /\ text # None => text \in Seq(Text)
      /\ text # None /\ draft.origin # None => at \in DOMAIN text
  BY <1>1, SavedText
<1>3. draft.scenario \in Held /\ draft.scenario.name \in DOMAIN Spelled
  BY <1>2 DEF Held
<1>4. Build(fresh) = draft.scenario
  <2>1. Spelled[draft.scenario.name] = draft.scenario.name
    BY <1>3 DEF NamesAsSpelled
  <2> QED
    BY <1>3, <2>1, LowerBuilds
<1>5. \A e \in entries : e.scenario.name = draft.scenario.name
        => draft.origin # None /\ draft.origin.name = draft.scenario.name
  BY <1>1 DEF NameTaken
<1>6. Written(Home) = IF text = None THEN <<fresh>>
                      ELSE IF draft.origin = None THEN Append(text, fresh)
                      ELSE [text EXCEPT ![at] = fresh]
  BY <1>1, SavedText DEF Written
<1> HIDE DEF fresh
<1>7. CASE draft.origin = None /\ text = None
  <2>1. Written(Home) = <<fresh>>
    BY <1>6, <1>7
  <2>2. <<fresh>> \in Seq(Text) /\ DOMAIN <<fresh>> = {1} /\ <<fresh>>[1] = fresh
    BY <1>2
  <2>3. FileReads(<<fresh>>)
    BY <1>2, <2>2, ListAssumption, UnparsedAssumption DEF FileReads
  <2>4. NamesOnce(<<fresh>>)
    BY <2>2 DEF NamesOnce
  <2>5. Of(Home, <<fresh>>) = {new}
    BY <1>4, <2>2 DEF Of
  <2>6. {e \in entries : e.file = Home} = {}
    <3>1. ~FileReads(disk[Home])
      BY <1>7 DEF FileReads
    <3> QED
      BY <3>1, LoadedOf DEF ListInv
  <2> HIDE DEF text, at
  <2> QED
    BY <2>1, <2>3, <2>4, <2>5, <2>6
<1>8. CASE draft.origin = None /\ text # None
  <2>1. Written(Home) = Append(text, fresh)
    BY <1>6, <1>8
  <2>2. FileReads(text)
    <3>1. Home = FileOf[draft.scenario.name]
      BY <1>8 DEF Home
    <3> QED
      BY <1>3, <1>8, <3>1 DEF ListInv, Tidy
  <2>3. /\ NamesOnce(text) /\ Of(Home, text) = {e \in entries : e.file = Home}
        /\ \A i \in DOMAIN text : \E e \in entries : e.scenario.name = text[i].name
    BY <1>2, <2>2, DiskOf
  <2>4. \A i \in DOMAIN text : text[i].name # fresh.name
    BY <1>2, <1>5, <1>8, <2>3
  <2>5. \A e \in entries : ~IsOrigin(e)
    BY <1>8 DEF IsOrigin
  <2> HIDE DEF text, at
  <2>6. text \in Seq(Text) /\ fresh \in Text
    BY <1>2, <1>8
  <2>7. FileReads(Append(text, fresh))
    BY <1>2, <2>2, <2>6, AppendReads
  <2>8. NamesOnce(Append(text, fresh))
    <3>1. /\ Len(text) \in Nat /\ DOMAIN text = 1 .. Len(text)
          /\ DOMAIN Append(text, fresh) = 1 .. Len(text) + 1
          /\ \A i \in 1 .. Len(text) : Append(text, fresh)[i] = text[i]
          /\ Append(text, fresh)[Len(text) + 1] = fresh
      BY <2>6
    <3>2. \A i \in 1 .. Len(text) + 1 : i \in 1 .. Len(text) \/ i = Len(text) + 1
      BY <3>1
    <3> QED
      BY <2>3, <2>4, <3>1, <3>2 DEF NamesOnce
  <2>9. Of(Home, Append(text, fresh)) = Of(Home, text) \cup {new}
    BY <1>4, <2>6, OfAppended
  <2> QED
    BY <2>1, <2>3, <2>5, <2>7, <2>8, <2>9
<1>9. CASE draft.origin # None
  <2>1. /\ Home = draft.origin.file /\ draft.origin \in Origins
        /\ \E e \in entries : e.file = Home /\ e.scenario.name = draft.origin.name
    BY <1>1, <1>2, <1>9 DEF Home, ListInv, IsOrigin
  <2>2. FileReads(text)
    BY <2>1, LoadedOf DEF ListInv
  <2>3. /\ text # None /\ text \in Seq(Text) /\ NamesOnce(text)
        /\ Of(Home, text) = {e \in entries : e.file = Home}
        /\ \A i \in DOMAIN text : \E e \in entries : e.scenario.name = text[i].name
    BY <1>2, <2>2, DiskOf
  <2>4. at \in DOMAIN text
    BY <1>2, <1>9, <2>3
  <2> HIDE DEF text
  <2>5. text[at].name = draft.origin.name
    <3>1. at # 0
      BY <2>3, <2>4
    <3> QED
      BY <2>3, <3>1, PlaceIsFirst
  <2>6. \A i \in DOMAIN text : text[i].name = fresh.name => i = at
    <3> SUFFICES ASSUME NEW i \in DOMAIN text, text[i].name = fresh.name PROVE i = at
      OBVIOUS
    <3>1. draft.origin.name = draft.scenario.name
      BY <1>2, <1>5, <2>3
    <3>2. text[i].name = text[at].name
      BY <1>2, <2>5, <3>1
    <3> HIDE DEF at
    <3> QED
      BY <2>3, <2>4, <3>2 DEF NamesOnce
  <2>7. Written(Home) = [text EXCEPT ![at] = fresh]
    BY <1>6, <1>9, <2>3
  <2>8. \A e \in entries : IsOrigin(e) <=> e.file = Home /\ e.scenario.name = draft.origin.name
    BY <1>9, <2>1 DEF IsOrigin
  <2> HIDE DEF at
  <2>9. FileReads([text EXCEPT ![at] = fresh])
    BY <1>2, <2>2, <2>3, <2>4, ReplaceReads
  <2>10. NamesOnce([text EXCEPT ![at] = fresh])
    BY <2>3, <2>4, <2>6 DEF NamesOnce
  <2>11. Of(Home, [text EXCEPT ![at] = fresh])
           = {e \in Of(Home, text) : e.scenario.name # text[at].name} \cup {new}
    BY <1>4, <2>2, <2>3, <2>4, OfReplaced
  <2>12. {e \in Of(Home, text) : e.scenario.name # text[at].name}
           = {e \in entries : e.file = Home /\ ~IsOrigin(e)}
    BY <2>3, <2>5, <2>8
  <2> QED
    BY <2>7, <2>9, <2>10, <2>11, <2>12
<1> QED
  BY <1>7, <1>8, <1>9

LEMMA SaveKeepsList ==
  ASSUME NamesAsSpelled, ListInv, SaveDraft, ~misplaced'
  PROVE  Tidy(disk)' /\ entries' = Loaded(disk)' /\ (\E e \in entries : IsOrigin(e))'
<1> DEFINE text == Written(Home)
           new == [file |-> Home, scenario |-> draft.scenario]
<1>1. /\ TypeInv /\ Tidy(disk) /\ entries = Loaded(disk) /\ draft # None /\ ~NameTaken
      /\ entries' = {e \in entries : ~IsOrigin(e)} \cup {new}
      /\ draft' = Draft(draft.scenario, Origin(Home, draft.scenario.name))
  BY DEF ListInv, SaveDraft
<1>0. FileReads(text)
  BY SavedFile
<1>2. /\ disk \in [ToSet(Files) -> Seq(Text) \cup {None, Unparsed}]
      /\ Home \in ToSet(Files) /\ text \in Seq(Text) /\ disk' = [disk EXCEPT ![Home] = text]
      /\ draft \in [scenario : Held, origin : Origins \cup {None}]
  BY <1>0, <1>1, SavedText DEF TypeInv, DiskType, FileReads
<1>3. /\ FileReads(text) /\ NamesOnce(text)
      /\ Of(Home, text) = {e \in entries : e.file = Home /\ ~IsOrigin(e)} \cup {new}
  BY SavedFile
<1>4. \A e \in entries : IsOrigin(e) => e.file = Home
  BY <1>2 DEF IsOrigin, Home
<1>5. ASSUME NEW e1 \in Of(Home, text), NEW e2 \in Loaded(disk), e2.file # Home
      PROVE  e1.scenario.name # e2.scenario.name
  <2>1. CASE e1 = new
    <3> SUFFICES ASSUME e2.scenario.name = draft.scenario.name PROVE FALSE
      BY <2>1
    <3>1. draft.origin # None /\ draft.origin.name = draft.scenario.name
      BY <1>1 DEF NameTaken
    <3>2. PICK e \in entries : IsOrigin(e)
      BY <1>1, <3>1 DEF ListInv
    <3>3. e.file = Home /\ e.scenario.name = e2.scenario.name
      BY <1>4, <3>1, <3>2 DEF IsOrigin
    <3> QED
      BY <1>1, <1>5, <3>3 DEF Tidy
  <2>2. CASE e1 \in entries /\ e1.file = Home
    BY <1>1, <1>5, <2>2 DEF Tidy
  <2> QED
    BY <1>3, <2>1, <2>2
<1> HIDE DEF text
<1>6. /\ Loaded(disk') = {e \in Loaded(disk) : e.file # Home} \cup Of(Home, text)
      /\ Tidy(disk')
  BY <1>1, <1>2, <1>3, <1>5, LoadedAfter
<1>7. entries' = Loaded(disk')
  BY <1>1, <1>3, <1>4, <1>6
<1>8. (\E e \in entries : IsOrigin(e))'
  <2>1. draft' = [scenario |-> draft.scenario,
                  origin |-> [file |-> Home, name |-> draft.scenario.name]]
    BY <1>1 DEF Draft, Origin
  <2>2. [file |-> Home, name |-> draft.scenario.name] \in Origins
    BY <1>2 DEF Origins, Held
  <2>3. draft'.origin # None
    BY <2>1, <2>2, ListAssumption DEF Origins
  <2>4. new \in entries'
    BY <1>1
  <2> QED
    BY <2>1, <2>3, <2>4 DEF IsOrigin
<1> QED
  BY <1>6, <1>7, <1>8 DEF Loaded

LEMMA DeleteKeepsList ==
  ASSUME NamesAsSpelled, ListInv, NEW e \in entries, DeleteSelected(e)
  PROVE  Tidy(disk)' /\ entries' = Loaded(disk)'
<1> DEFINE text == disk[e.file]
           at == Place(text, e.scenario.name)
           less == RemoveAt(text, at)
           f == e.file
<1>1. /\ TypeInv /\ Tidy(disk) /\ entries = Loaded(disk)
      /\ disk \in [ToSet(Files) -> Seq(Text) \cup {None, Unparsed}]
      /\ entries' = {held \in entries : held.file # f \/ held.scenario.name # e.scenario.name}
  BY DEF ListInv, DeleteSelected, TypeInv, DiskType
<1>2. /\ f \in ToSet(Files) /\ text \in Seq(Text) /\ at \in DOMAIN text
      /\ text[at].name = e.scenario.name
      /\ disk' = [disk EXCEPT ![f] = less]
  BY <1>1, DeletedText
<1>3. FileReads(text)
  BY <1>1, LoadedOf
<1>4. NamesOnce(text) /\ Of(f, text) = {held \in entries : held.file = f}
  BY <1>2, <1>3, DiskOf
<1> HIDE DEF text, at, f
<1>5. less \in Seq(Text) /\ FileReads(less)
  BY <1>2, <1>3, RemoveKeeps, RemoveReads
<1>6. Of(f, less) = {held \in Of(f, text) : held.scenario.name # text[at].name} /\ NamesOnce(less)
  BY <1>2, <1>3, <1>4, OfRemoved
<1> HIDE DEF less
<1>7. \A e1 \in Of(f, less), e2 \in Loaded(disk) :
        e2.file # f => e1.scenario.name # e2.scenario.name
  BY <1>1, <1>4, <1>6 DEF Tidy
<1>8. /\ Loaded(disk') = {held \in Loaded(disk) : held.file # f} \cup Of(f, less)
      /\ Tidy(disk')
  BY <1>1, <1>2, <1>5, <1>6, <1>7, LoadedAfter
<1>9. entries' = Loaded(disk')
  BY <1>1, <1>2, <1>4, <1>6, <1>8
<1> QED
  BY <1>8, <1>9 DEF Loaded

(* Under any number of edits, saves, renames, deletions and reloads of a   *)
(* tidy folder, the list is what a reload would read (scenarios.rs:201-215)*)
(* for as long as no save has put a section under another header:          *)
(* what is written, the links of its steps taken out where they are the    *)
(* scenario's, is built into what was held, and no name is said twice.     *)
THEOREM ListIsTheDisk ==
  ASSUME NamesAsSpelled, \A d \in Folders : Tidy(d)
  PROVE  Spec => []ListIsDisk
<1> DEFINE Inv == TypeInv /\ (misplaced \/ ListInv)
<1>1. Init => ListInv
  <2> SUFFICES ASSUME Init PROVE ListInv
    OBVIOUS
  <2>1. TypeInv /\ Tidy(disk)
    BY TypeInit DEF Init
  <2>2. entries = Loaded(disk)
    BY <2>1, TidyLoads DEF Init, TypeInv, DiskType
  <2> QED
    BY <2>1, <2>2 DEF Init, ListInv
<1>2. ListInv /\ [Next]_vars /\ ~misplaced' => ListInv'
  <2> SUFFICES ASSUME ListInv, [Next]_vars, ~misplaced' PROVE ListInv'
    OBVIOUS
  <2>1. TypeInv /\ TypeInv' /\ Tidy(disk) /\ entries = Loaded(disk)
    BY NextKeepsType DEF ListInv
  <2>2. CASE SaveDraft
    BY <2>1, <2>2, SaveKeepsList DEF ListInv
  <2>3. ASSUME NEW e \in entries, DeleteSelected(e) PROVE ListInv'
    <3>1. draft' = None
      BY <2>3 DEF DeleteSelected
    <3> QED
      BY <2>1, <2>3, <3>1, DeleteKeepsList DEF ListInv
  <2>4. CASE Reload
    <3>1. disk' = disk /\ entries' = Loaded(disk) /\ draft' = None
      BY <2>1, <2>4, TidyLoads DEF Reload, TypeInv, DiskType
    <3> QED
      BY <2>1, <3>1 DEF ListInv, Tidy, Loaded
  <2>5. ASSUME NEW e \in entries, BeginEdit(e) PROVE ListInv'
    <3>1. disk' = disk /\ entries' = entries
          /\ draft' = [scenario |-> e.scenario, origin |-> [file |-> e.file, name |-> e.scenario.name]]
      BY <2>5 DEF BeginEdit, Draft, Origin, library
    <3>2. (\E held \in entries : IsOrigin(held))' \/ draft'.origin = None
      BY <3>1 DEF IsOrigin
    <3> QED
      BY <2>1, <3>1, <3>2 DEF ListInv, Tidy, Loaded
  <2>6. ASSUME UNCHANGED library, draft' = None \/ draft'.origin = None
                                  \/ (draft # None /\ draft'.origin = draft.origin)
        PROVE  ListInv'
    <3>1. disk' = disk /\ entries' = entries
      BY <2>6 DEF library
    <3>2. draft' # None /\ draft'.origin # None => (\E e \in entries : IsOrigin(e))'
      BY <2>6, <3>1 DEF ListInv, IsOrigin
    <3> QED
      BY <2>1, <3>1, <3>2 DEF ListInv, Tidy, Loaded
  <2>7. CASE UNCHANGED draft /\ UNCHANGED library
    BY <2>6, <2>7
  <2>8. CASE EditStep \/ EditName \/ EditHeader
    <3>1. draft # None /\ UNCHANGED library
      BY <2>8 DEF EditName, EditHeader, EditStep, Editing, AddStep, RemoveStep, MoveStep, SetKind,
           Aim, PickFrame, PickWaitFrame, WaitByFrame, HoldField, CountField, TakeField,
           CaptureField, NameVariable
    <3>2. draft \in [scenario : Held, origin : Origins \cup {None}]
      BY <2>1, <3>1 DEF TypeInv
    <3>3. draft'.origin = draft.origin
      BY <2>8, <3>2
         DEF EditName, EditHeader, EditStep, AddStep, RemoveStep, MoveStep, SetKind,
           Aim, PickFrame, PickWaitFrame, WaitByFrame, HoldField, CountField, TakeField,
           CaptureField, NameVariable, Turn, Becomes
    <3> QED
      BY <2>6, <3>1, <3>3
  <2>9. CASE BeginNew \/ CancelEdit
    <3>1. UNCHANGED library /\ (draft' = None \/ draft'.origin = None)
      BY <2>9 DEF BeginNew, CancelEdit, Draft
    <3> QED
      BY <2>6, <3>1
  <2> QED
    BY <2>2, <2>3, <2>4, <2>5, <2>7, <2>8, <2>9
       DEF Next, HeardStarted, HeardEnded, Start, vars
<1>3. ListInv => ListIsDisk
  BY TidyLoads DEF ListInv, ListIsDisk, TypeInv, DiskType
<1>4. TypeInv /\ [Next]_vars => (misplaced => misplaced')
  BY DEF Next, vars, library, Reload, BeginNew, CancelEdit, EditName, EditHeader, EditStep,
         Editing, AddStep, RemoveStep, MoveStep, SetKind, Aim, PickFrame, PickWaitFrame,
         WaitByFrame, HoldField, CountField, TakeField, CaptureField, NameVariable, SaveDraft,
         HeardStarted, HeardEnded, BeginEdit, DeleteSelected, Start
<1>5. Init => Inv
  BY <1>1, TypeInit
<1>6. Inv /\ [Next]_vars => Inv'
  BY <1>2, <1>4, NextKeepsType
<1>7. Inv => ListIsDisk
  BY <1>3 DEF ListIsDisk
<1> QED
  BY <1>5, <1>6, <1>7, PTL DEF Spec
=============================================================================
