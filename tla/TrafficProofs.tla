--------------------------- MODULE TrafficProofs ---------------------------
(***************************************************************************)
(* A traffic view over a buffer of any length: proofs for any frames,      *)
(* definitions, filters and bounds.                                        *)
(***************************************************************************)
EXTENDS Traffic, SequenceTheorems, FiniteSetTheorems, WellFoundedInduction, TLAPS

Entries == [seq : Nat, frame : Frames]
Views == [since : Nat, pausedAt : Nat \cup {None}, selected : Nat \cup {None},
          follow : BOOLEAN, filter : Filters \cup {Plain}, decodeAs : Defs \cup {None}]

TypeInv ==
  /\ front \in {"desktop", "terminal"}
  /\ nextSeq \in Nat
  /\ log \in Seq(Entries)
  /\ view \in Views

(* Nothing shown or read has a place not yet given, and a view is frozen   *)
(* no later than it would be now.                                          *)
Given(v) ==
  /\ v.selected # None => v.selected < nextSeq
  /\ v.pausedAt # None => v.pausedAt <= FrozenAt
PlacesGiven == Given(view) /\ \A entry \in Range(log) : entry.seq < nextSeq

LEMMA Kept ==
  ASSUME NEW S, NEW l \in Seq(S)
  PROVE  /\ Range(l) \subseteq S
         /\ l # <<>> => Tail(l) \in Seq(S) /\ Range(Tail(l)) \subseteq Range(l)
         /\ \A x \in S : Append(l, x) \in Seq(S) /\ Range(Append(l, x)) \subseteq Range(l) \cup {x}
<1>1. DOMAIN l = 1 .. Len(l) /\ Len(l) \in Nat /\ \A i \in 1 .. Len(l) : l[i] \in S
  OBVIOUS
<1>2. ASSUME l # <<>>
      PROVE  Tail(l) \in Seq(S) /\ Range(Tail(l)) \subseteq Range(l)
  <2>1. /\ Tail(l) \in Seq(S) /\ Len(Tail(l)) = Len(l) - 1
        /\ \A i \in 1 .. Len(Tail(l)) : Tail(l)[i] = l[i + 1]
    BY <1>2
  <2>2. DOMAIN Tail(l) = 1 .. Len(Tail(l))
    BY <2>1
  <2> QED
    BY <1>1, <2>1, <2>2 DEF Range
<1>3. ASSUME NEW x \in S
      PROVE  Append(l, x) \in Seq(S) /\ Range(Append(l, x)) \subseteq Range(l) \cup {x}
  <2>1. /\ Append(l, x) \in Seq(S) /\ DOMAIN Append(l, x) = 1 .. Len(l) + 1
        /\ \A i \in 1 .. Len(l) : Append(l, x)[i] = l[i]
        /\ Append(l, x)[Len(l) + 1] = x
    OBVIOUS
  <2>2. \A i \in 1 .. Len(l) + 1 : i = Len(l) + 1 \/ i \in 1 .. Len(l)
    BY <1>1
  <2> QED
    BY <1>1, <2>1, <2>2 DEF Range
<1> QED
  BY <1>1, <1>2, <1>3 DEF Range

LEMMA EndsAreThere ==
  ASSUME NEW S \in SUBSET Nat, S # {}, NEW bound \in Nat, \A x \in S : x < bound
  PROVE  Max(S) \in S /\ Min(S) \in S
<1> DEFINE R == OpToRel(<, Nat)
           mirror == {bound - x : x \in S}
<1>1. ASSUME NEW T \in SUBSET Nat, T # {}
      PROVE  \E m \in T : \A x \in T : m <= x
  <2>1. PICK m \in T : \A x \in T : <<x, m>> \notin R
    <3> HIDE DEF R
    <3> QED
      BY <1>1, NatLessThanWellFounded, WFMin DEF R
  <2>2. \A x \in T : ~(x < m)
    BY <1>1, <2>1 DEF OpToRel
  <2> QED
    BY <1>1, <2>2
<1>2. \E m \in S : \A x \in S : m >= x
  <2>1. mirror \in SUBSET Nat /\ mirror # {}
    <3>1. \A x \in S : bound - x \in Nat
      OBVIOUS
    <3> QED
      BY <3>1
  <2>2. PICK n \in mirror : \A y \in mirror : n <= y
    <3> HIDE DEF mirror, R
    <3> QED
      BY <1>1, <2>1
  <2>3. PICK m \in S : n = bound - m
    OBVIOUS
  <2>4. \A x \in S : bound - m <= bound - x
    BY <2>2, <2>3
  <2> QED
    BY <2>4
<1>3. \E m \in S : \A x \in S : m =< x
  BY <1>1
<1> QED
  BY <1>2, <1>3 DEF Max, Min

LEMMA FrameIsThere ==
  ASSUME NEW seq \in Seqs(Range(log))
  PROVE  FrameOf(seq) \in FrameAt(log, seq)
BY DEF Seqs, FrameAt, FrameOf

(* A choice lapses only on a row of another length.                        *)
LEMMA PickKeeps ==
  ASSUME NEW chosen \in Defs \cup {None}, NEW frame
  PROVE  /\ Pick(chosen, frame) \in Defs \cup {None}
         /\ chosen # None /\ Pick(chosen, frame) # chosen => Size[frame] # Size[chosen]
<1> DEFINE fitting == Candidates(frame)
<1>1. fitting \subseteq Defs
  BY DEF Candidates
<1>2. Cardinality(fitting) = 1 => (CHOOSE d \in fitting : TRUE) \in fitting
  <2>1. Cardinality(fitting) = 1 => fitting # {}
    BY FS_EmptySet
  <2> QED
    BY <2>1
<1>3. Pick(chosen, frame) \in fitting \cup {None}
  BY <1>2 DEF Pick
<1>4. chosen \in fitting => Pick(chosen, frame) = chosen
  BY <1>1, TrafficAssumption DEF Pick
<1>5. chosen # None /\ chosen \notin fitting => Size[chosen] # Size[frame]
  BY DEF Candidates
<1> HIDE DEF fitting
<1> QED
  BY <1>1, <1>3, <1>4, <1>5

(* What drawing a view leaves of it.                                       *)
LEMMA DrawnKeeps ==
  ASSUME log \in Seq(Entries), NEW v \in Views
  PROVE  LET w == Drawn(v) IN
         /\ w \in Views
         /\ w.since = v.since /\ w.pausedAt = v.pausedAt /\ w.filter = v.filter
         /\ w.selected = v.selected \/ w.selected = None
         /\ v.decodeAs # None /\ w.decodeAs # v.decodeAs =>
              \E frame \in FrameAt(log, v.selected) : Size[frame] # Size[v.decodeAs]
<1> DEFINE Good(w, u) == /\ w \in Views
                         /\ w.since = u.since /\ w.pausedAt = u.pausedAt /\ w.filter = u.filter
                         /\ w.selected = u.selected
                         /\ u.decodeAs # None /\ w.decodeAs # u.decodeAs =>
                              \E frame \in FrameAt(log, u.selected) : Size[frame] # Size[u.decodeAs]
<1>1. \A u \in Views : Good(Read(u), u)
  <2> SUFFICES ASSUME NEW u \in Views PROVE Good(Read(u), u)
    OBVIOUS
  <2>1. CASE u.selected \in Seqs(Range(log))
    <3> DEFINE d == Pick(u.decodeAs, FrameOf(u.selected))
    <3>1. Read(u) = [u EXCEPT !.decodeAs = d]
      BY <2>1 DEF Read
    <3>2. u.decodeAs \in Defs \cup {None}
      BY DEF Views
    <3>3. d \in Defs \cup {None} /\ (u.decodeAs # None /\ d # u.decodeAs
                                      => Size[FrameOf(u.selected)] # Size[u.decodeAs])
      BY <3>2, PickKeeps
    <3>4. FrameOf(u.selected) \in FrameAt(log, u.selected)
      BY <2>1, FrameIsThere
    <3> HIDE DEF d
    <3> QED
      BY <3>1, <3>3, <3>4 DEF Views
  <2>2. CASE u.selected \notin Seqs(Range(log))
    BY <2>2 DEF Read
  <2> QED
    BY <2>1, <2>2
<1>2. CASE front = "terminal"
  BY <1>1, <1>2 DEF Drawn
<1>3. CASE front # "terminal" /\ RowsOf(log, v) = {}
  BY <1>3 DEF Drawn
<1>4. CASE front # "terminal" /\ RowsOf(log, v) # {}
  <2> DEFINE seqs == Seqs(RowsOf(log, v))
             u == [v EXCEPT !.selected = IF @ \in seqs THEN @ ELSE None]
  <2>1. Drawn(v) = Read(u)
    BY <1>4 DEF Drawn
  <2> HIDE DEF seqs
  <2>2. /\ u \in Views /\ u.selected \in {v.selected, None}
        /\ u.since = v.since /\ u.pausedAt = v.pausedAt /\ u.filter = v.filter
        /\ u.decodeAs = v.decodeAs
    BY DEF Views
  <2> HIDE DEF u
  <2>3. Good(Read(u), u)
    BY <1>1, <2>2
  <2>4. FrameAt(log, None) = {}
    <3>1. Range(log) \subseteq Entries
      BY Kept
    <3>2. \A entry \in Range(log) : entry.seq \in Nat
      BY <3>1 DEF Entries
    <3> QED
      BY <3>2, TrafficAssumption DEF FrameAt
  <2> QED
    BY <2>1, <2>2, <2>3, <2>4
<1> QED
  BY <1>2, <1>3, <1>4

-----------------------------------------------------------------------------
LEMMA SeqsAreGiven ==
  ASSUME TypeInv, PlacesGiven
  PROVE  /\ \A entry \in Range(log) : entry.seq \in Nat /\ entry.seq < nextSeq
         /\ Seqs(Rows) \in SUBSET Nat
         /\ \A seq \in Seqs(Rows) : seq < nextSeq
<1>1. \A entry \in Range(log) : entry.seq \in Nat /\ entry.seq < nextSeq
  <2>1. Range(log) \subseteq Entries
    BY Kept DEF TypeInv
  <2> QED
    BY <2>1 DEF PlacesGiven, Entries
<1>2. Seqs(Rows) \in SUBSET Nat /\ \A seq \in Seqs(Rows) : seq < nextSeq
  BY <1>1 DEF Seqs, Rows, RowsOf
<1> QED
  BY <1>1, <1>2

(* The view a step draws, of those that draw one.                          *)
Asked(w) ==
  /\ w \in Views /\ Given(w)
  /\ w.pausedAt # None /\ w.pausedAt = view.pausedAt => w.since = view.since
  /\ w.decodeAs = view.decodeAs \/ w.selected = None \/ ReadAs

Drawing == Repaint \/ Pause \/ Clear \/ Follow \/ Retune \/ OpenAnother \/ Restore \/ Step \/ ReadAs

LEMMA FreshIsGiven ==
  ASSUME TypeInv, NEW since \in Nat, NEW filter \in Filters \cup {Plain}
  PROVE  LET w == [Fresh(since) EXCEPT !.filter = filter]
         IN  w \in Views /\ Given(w) /\ w.pausedAt = None /\ w.selected = None
BY DEF Fresh, Views, Given

LEMMA DrawingSteps ==
  ASSUME TypeInv, PlacesGiven, Drawing
  PROVE  \E w : Asked(w) /\ Draws(w)
<1>1. view \in Views /\ Given(view) /\ nextSeq \in Nat
  BY DEF TypeInv, PlacesGiven
<1>2. CASE Repaint
  BY <1>1, <1>2 DEF Repaint, Asked
<1>3. CASE Pause
  <2> DEFINE w == [view EXCEPT !.pausedAt = IF @ = None THEN FrozenAt ELSE None]
  <2>1. w \in Views /\ Given(w)
    BY <1>1 DEF Views, Given, FrozenAt
  <2>2. w.decodeAs = view.decodeAs /\ (w.pausedAt # None => w.since = view.since)
    BY <1>1 DEF Views
  <2>3. Draws(w)
    BY <1>3 DEF Pause
  <2> QED
    BY <2>1, <2>2, <2>3 DEF Asked
<1>4. CASE Clear
  <2> DEFINE w == [view EXCEPT !.since = nextSeq, !.pausedAt = None]
  <2>1. w \in Views /\ Given(w) /\ w.pausedAt = None /\ w.decodeAs = view.decodeAs
    BY <1>1 DEF Views, Given
  <2>2. Draws(w)
    BY <1>4 DEF Clear
  <2> QED
    BY <2>1, <2>2 DEF Asked
<1>5. CASE Follow
  <2> DEFINE w == [view EXCEPT !.follow = ~@]
  <2>1. w \in Views /\ Given(w) /\ w.since = view.since /\ w.decodeAs = view.decodeAs
    BY <1>1 DEF Views, Given
  <2>2. Draws(w)
    BY <1>5 DEF Follow
  <2> QED
    BY <2>1, <2>2 DEF Asked
<1>6. CASE Retune
  <2>1. PICK filter \in Filters : Draws([view EXCEPT !.filter = filter])
    BY <1>6 DEF Retune
  <2> DEFINE w == [view EXCEPT !.filter = filter]
  <2>2. w \in Views /\ Given(w) /\ w.since = view.since /\ w.decodeAs = view.decodeAs
    BY <1>1 DEF Views, Given
  <2> QED
    BY <2>1, <2>2 DEF Asked
<1>7. CASE OpenAnother
  <2>1. Fresh(nextSeq) \in Views /\ Given(Fresh(nextSeq))
        /\ Fresh(nextSeq).pausedAt = None /\ Fresh(nextSeq).selected = None
    BY <1>1 DEF Fresh, Views, Given
  <2> QED
    BY <1>7, <2>1 DEF OpenAnother, Asked
<1>8. CASE Restore
  <2>1. PICK filter \in Filters : Draws([Fresh(0) EXCEPT !.filter = filter])
    BY <1>8 DEF Restore
  <2> QED
    BY <2>1, FreshIsGiven DEF Asked
<1>9. CASE Step
  <2> DEFINE seqs == Seqs(Rows)
             read == view.selected
             near(up) == {seq \in seqs : IF up THEN seq < read ELSE seq > read}
             to(up) == IF read \notin seqs THEN Max(seqs)
                       ELSE IF near(up) = {} THEN read
                       ELSE IF up THEN Max(near(up)) ELSE Min(near(up))
  <2>1. PICK up \in BOOLEAN : Draws([view EXCEPT !.selected = to(up), !.follow = FALSE])
    BY <1>9 DEF Step
  <2>2. seqs # {} /\ seqs \in SUBSET Nat /\ \A seq \in seqs : seq < nextSeq
    BY <1>9, SeqsAreGiven DEF Step, Seqs
  <2>3. to(up) \in seqs
    <3> HIDE DEF seqs, read
    <3>1. \A part \in SUBSET seqs : part # {} => Max(part) \in part /\ Min(part) \in part
      BY <1>1, <2>2, EndsAreThere
    <3> QED
      BY <2>2, <3>1
  <2> DEFINE w == [view EXCEPT !.selected = to(up), !.follow = FALSE]
  <2> HIDE DEF seqs, read, to
  <2>4. w \in Views /\ Given(w) /\ w.since = view.since /\ w.decodeAs = view.decodeAs
    BY <1>1, <2>2, <2>3 DEF Views, Given
  <2> QED
    BY <2>1, <2>4 DEF Asked
<1>10. CASE ReadAs
  <2>1. PICK d \in Candidates(FrameOf(view.selected)) : Draws([view EXCEPT !.decodeAs = d])
    BY <1>10 DEF ReadAs
  <2> DEFINE w == [view EXCEPT !.decodeAs = d]
  <2>2. w \in Views /\ Given(w) /\ w.since = view.since
    BY <1>1 DEF Views, Given, Candidates
  <2> QED
    BY <1>10, <2>1, <2>2 DEF Asked
<1> QED
  BY <1>2, <1>3, <1>4, <1>5, <1>6, <1>7, <1>8, <1>9, <1>10 DEF Drawing

Reading == Click \/ PutAway

LEMMA ReadingSteps ==
  ASSUME TypeInv, PlacesGiven, Reading
  PROVE  /\ UNCHANGED <<front, log, nextSeq>>
         /\ view' \in Views /\ Given(view')
         /\ view'.since = view.since /\ view'.pausedAt = view.pausedAt
         /\ view'.filter = view.filter
         /\ view'.decodeAs = Drawn(view).decodeAs
<1> DEFINE now == Drawn(view)
<1>1. /\ now \in Views /\ now.since = view.since /\ now.pausedAt = view.pausedAt
      /\ now.filter = view.filter
  BY DrawnKeeps DEF TypeInv
<1> HIDE DEF now
<1>2. PICK seq \in Seqs(Rows) \cup {None} :
        view' = [now EXCEPT !.selected = seq]
          \/ view' = [now EXCEPT !.selected = seq, !.follow = FALSE]
  BY DEF Reading, Click, PutAway, now
<1>3. seq # None => seq \in Nat /\ seq < nextSeq
  BY SeqsAreGiven
<1>4. /\ view' \in Views /\ view'.since = now.since /\ view'.pausedAt = now.pausedAt
      /\ view'.filter = now.filter /\ view'.decodeAs = now.decodeAs /\ view'.selected = seq
  BY <1>1, <1>2, <1>3 DEF Views
<1>5. Given(view)
  BY DEF PlacesGiven
<1>6. Given(view')
  BY <1>1, <1>3, <1>4, <1>5 DEF Given
<1>7. UNCHANGED <<front, log, nextSeq>>
  BY DEF Reading, Click, PutAway
<1> QED
  BY <1>1, <1>4, <1>6, <1>7 DEF now

LEMMA ArriveStep ==
  ASSUME TypeInv, PlacesGiven, Arrive
  PROVE  \E frame \in Frames :
           /\ log' \in Seq(Entries)
           /\ Range(log') \subseteq Range(log) \cup {[seq |-> nextSeq, frame |-> frame]}
           /\ nextSeq' = nextSeq + 1 /\ UNCHANGED <<front, view>>
<1> DEFINE left == IF Len(log) = MaxLog THEN Tail(log) ELSE log
<1>1. PICK frame \in Frames : log' = Append(left, Stamp(frame))
  BY DEF Arrive
<1>2. Stamp(frame) = [seq |-> nextSeq, frame |-> frame] /\ Stamp(frame) \in Entries
  BY DEF Stamp, TypeInv, Entries
<1>3. left \in Seq(Entries) /\ Range(left) \subseteq Range(log)
  <2>1. log \in Seq(Entries) /\ (Len(log) = MaxLog => log # <<>>)
    BY TrafficAssumption DEF TypeInv
  <2> QED
    BY <2>1, Kept
<1> HIDE DEF left
<1>4. log' \in Seq(Entries) /\ Range(log') \subseteq Range(left) \cup {Stamp(frame)}
  BY <1>1, <1>2, <1>3, Kept
<1>5. nextSeq' = nextSeq + 1 /\ UNCHANGED <<front, view>>
  BY DEF Arrive
<1> QED
  BY <1>2, <1>3, <1>4, <1>5

LEMMA TrafficInit == Init => TypeInv /\ PlacesGiven
<1> SUFFICES ASSUME Init PROVE TypeInv /\ PlacesGiven
  OBVIOUS
<1>1. front \in {"desktop", "terminal"} /\ nextSeq = 0 /\ log = <<>>
  BY TrafficAssumption DEF Init
<1>2. view \in Views /\ view.selected = None /\ view.pausedAt = None
  BY DEF Init, Fresh, Views
<1>3. Range(log) = {}
  BY <1>1 DEF Range
<1> QED
  BY <1>1, <1>2, <1>3 DEF TypeInv, PlacesGiven, Given

LEMMA TrafficStep == TypeInv /\ PlacesGiven /\ [Next]_vars => (TypeInv /\ PlacesGiven)'
<1> SUFFICES ASSUME TypeInv, PlacesGiven, [Next]_vars PROVE TypeInv' /\ PlacesGiven'
  OBVIOUS
<1>1. CASE Arrive
  <2>1. PICK frame \in Frames :
          /\ log' \in Seq(Entries)
          /\ Range(log') \subseteq Range(log) \cup {[seq |-> nextSeq, frame |-> frame]}
          /\ nextSeq' = nextSeq + 1 /\ UNCHANGED <<front, view>>
    BY <1>1, ArriveStep
  <2>2. nextSeq \in Nat /\ view \in Views /\ Given(view)
    BY DEF TypeInv, PlacesGiven
  <2>3. Given(view)'
    <3>1. FrozenAt <= FrozenAt' /\ FrozenAt \in Nat /\ FrozenAt' \in Nat
      BY <2>1, <2>2 DEF FrozenAt
    <3> HIDE DEF FrozenAt
    <3> QED
      BY <2>1, <2>2, <3>1 DEF Given, Views
  <2>4. \A entry \in Range(log)' : entry.seq < nextSeq'
    <3>1. \A entry \in Range(log) : entry.seq \in Nat /\ entry.seq < nextSeq
      BY SeqsAreGiven
    <3> QED
      BY <2>1, <2>2, <3>1
  <2> QED
    BY <2>1, <2>2, <2>3, <2>4 DEF TypeInv, PlacesGiven
<1>2. ASSUME UNCHANGED <<front, log, nextSeq>>, view' \in Views, Given(view')
      PROVE  TypeInv' /\ PlacesGiven'
  <2>1. FrozenAt' = FrozenAt
    BY <1>2 DEF FrozenAt
  <2>2. Given(view)'
    <3> HIDE DEF FrozenAt
    <3> QED
      BY <1>2, <2>1 DEF Given
  <2>3. (\A entry \in Range(log) : entry.seq < nextSeq)'
    BY <1>2 DEF PlacesGiven
  <2> QED
    BY <1>2, <2>2, <2>3 DEF TypeInv, PlacesGiven
<1>3. CASE Drawing
  <2>1. PICK w : Asked(w) /\ Draws(w)
    BY <1>3, DrawingSteps
  <2>2. /\ Drawn(w) \in Views /\ Drawn(w).pausedAt = w.pausedAt
        /\ Drawn(w).selected = w.selected \/ Drawn(w).selected = None
    BY <2>1, DrawnKeeps DEF Asked, TypeInv
  <2>3. Given(Drawn(w))
    BY <2>1, <2>2 DEF Asked, Given
  <2>4. view' = Drawn(w) /\ UNCHANGED <<front, log, nextSeq>>
    BY <2>1 DEF Draws
  <2> QED
    BY <1>2, <2>2, <2>3, <2>4
<1>4. CASE Reading
  BY <1>2, <1>4, ReadingSteps
<1>5. CASE UNCHANGED vars
  BY <1>2, <1>5 DEF vars, TypeInv, PlacesGiven
<1> QED
  BY <1>1, <1>3, <1>4, <1>5 DEF Next, Drawing, Reading

LEMMA TrafficCorrect == Spec => [](TypeInv /\ PlacesGiven)
<1>1. Init => TypeInv /\ PlacesGiven
  BY TrafficInit
<1>2. TypeInv /\ PlacesGiven /\ [Next]_vars => (TypeInv /\ PlacesGiven)'
  BY TrafficStep
<1> QED
  BY <1>1, <1>2, PTL DEF Spec

-----------------------------------------------------------------------------
(* A frozen view lets nothing in while frames go on arriving.              *)
LEMMA NothingSlipsIn ==
  ASSUME TypeInv, PlacesGiven, [Next]_vars, nextSeq > 0, Still
  PROVE  Rows' \subseteq Rows
<1> USE DEF Still
<1>1. ASSUME log' = log, view'.since = view.since
      PROVE  Rows' \subseteq Rows
  BY <1>1 DEF Rows, RowsOf, InWindow, Keeps
<1>2. CASE Arrive
  <2>1. PICK frame \in Frames :
          /\ Range(log') \subseteq Range(log) \cup {[seq |-> nextSeq, frame |-> frame]}
          /\ view' = view
    BY <1>2, ArriveStep
  <2> DEFINE new == [seq |-> nextSeq, frame |-> frame]
  <2>2. view.pausedAt \in Nat /\ view.pausedAt < nextSeq
    BY DEF TypeInv, Views, PlacesGiven, Given, FrozenAt
  <2>3. ~InWindow(view, new)
    BY <2>2 DEF InWindow, TypeInv
  <2> HIDE DEF new
  <2>4. \A entry \in Range(log') : InWindow(view, entry) => entry \in Range(log)
    BY <2>1, <2>3 DEF new
  <2>5. Rows' = {entry \in Range(log') : InWindow(view, entry) /\ Keeps(view.filter, entry)}
    BY <2>1 DEF Rows, RowsOf, InWindow, Keeps
  <2> QED
    BY <2>4, <2>5 DEF Rows, RowsOf
<1>3. CASE Drawing
  <2>1. PICK w : Asked(w) /\ Draws(w)
    BY <1>3, DrawingSteps
  <2>2. Drawn(w).since = w.since /\ Drawn(w).pausedAt = w.pausedAt
    BY <2>1, DrawnKeeps DEF Asked, TypeInv
  <2> QED
    BY <1>1, <2>1, <2>2 DEF Asked, Draws
<1>4. CASE Reading
  BY <1>1, <1>4, ReadingSteps
<1>5. CASE UNCHANGED vars
  BY <1>1, <1>5 DEF vars
<1> QED
  BY <1>2, <1>3, <1>4, <1>5 DEF Next, Drawing, Reading

(* Pausing freezes the view: whatever arrives, whatever the buffer forgets *)
(* and whatever is read meanwhile, no row is shown that was not.           *)
THEOREM FrozenStaysFrozen == Spec => FrozenHolds
<1>1. TypeInv /\ PlacesGiven /\ [Next]_vars
        => [nextSeq > 0 /\ Still => Rows' \subseteq Rows]_vars
  BY NothingSlipsIn
<1> QED
  BY <1>1, TrafficCorrect, PTL DEF Spec, FrozenHolds

-----------------------------------------------------------------------------
(* The row being read is the one frame of its place.                       *)
LEMMA FrameStays ==
  ASSUME TypeInv, PlacesGiven, [Next]_vars, view.selected # None
  PROVE  FrameAt(log', view.selected) \subseteq FrameAt(log, view.selected)
<1>1. CASE Arrive
  <2>1. PICK frame \in Frames :
          Range(log') \subseteq Range(log) \cup {[seq |-> nextSeq, frame |-> frame]}
    BY <1>1, ArriveStep
  <2>2. view.selected # nextSeq
    BY DEF TypeInv, Views, PlacesGiven, Given
  <2> QED
    BY <2>1, <2>2 DEF FrameAt
<1>2. log' = log => FrameAt(log', view.selected) = FrameAt(log, view.selected)
  BY DEF FrameAt
<1>3. CASE Drawing
  <2>1. PICK w : Asked(w) /\ Draws(w)
    BY <1>3, DrawingSteps
  <2> QED
    BY <1>2, <2>1 DEF Draws
<1>4. CASE Reading
  BY <1>2, <1>4, ReadingSteps
<1>5. CASE UNCHANGED vars
  BY <1>2, <1>5 DEF vars
<1> QED
  BY <1>1, <1>3, <1>4, <1>5 DEF Next, Drawing, Reading

LEMMA ChoiceStays ==
  ASSUME TypeInv, PlacesGiven, [Next]_vars,
         view.decodeAs # None, view'.decodeAs # view.decodeAs, view'.selected # None, ~ReadAs
  PROVE  \E frame \in FrameAt(log, view.selected) \cup FrameAt(log, view'.selected) :
           Size[frame] # Size[view.decodeAs]
<1>1. view' # view
  OBVIOUS
<1>2. CASE Drawing
  <2>1. PICK w : Asked(w) /\ Draws(w)
    BY <1>2, DrawingSteps
  <2>2. view' = Drawn(w)
    BY <2>1 DEF Draws
  <2>3. /\ Drawn(w).selected = w.selected \/ Drawn(w).selected = None
        /\ w.decodeAs # None /\ Drawn(w).decodeAs # w.decodeAs =>
             \E frame \in FrameAt(log, w.selected) : Size[frame] # Size[w.decodeAs]
    BY <2>1, DrawnKeeps DEF Asked, TypeInv
  <2>4. view'.selected = w.selected /\ w.decodeAs = view.decodeAs
    BY <2>1, <2>2, <2>3 DEF Asked
  <2> QED
    BY <2>2, <2>3, <2>4
<1>3. CASE Reading
  <2>1. view'.decodeAs = Drawn(view).decodeAs
    BY <1>3, ReadingSteps
  <2>2. view.decodeAs # None /\ Drawn(view).decodeAs # view.decodeAs =>
          \E frame \in FrameAt(log, view.selected) : Size[frame] # Size[view.decodeAs]
    BY DrawnKeeps DEF TypeInv
  <2> QED
    BY <2>1, <2>2
<1>4. CASE Arrive
  BY <1>1, <1>4 DEF Arrive
<1>5. CASE UNCHANGED vars
  BY <1>1, <1>5 DEF vars
<1> QED
  BY <1>2, <1>3, <1>4, <1>5 DEF Next, Drawing, Reading

(* What is being read, and what as, changes only at the reader's hand: the *)
(* row stays the frame it is, the definition lapses only on a row of       *)
(* another length.                                                         *)
THEOREM ReadingIsTheReaders == Spec => ReadingHolds
<1>1. TypeInv /\ PlacesGiven /\ [Next]_vars
        => [view.selected # None /\ view'.selected = view.selected
              => FrameAt(log', view.selected) \subseteq FrameAt(log, view.selected)]_vars
  BY FrameStays
<1>2. TypeInv /\ PlacesGiven /\ [Next]_vars
        => [view.decodeAs # None /\ view'.decodeAs # view.decodeAs /\ view'.selected # None
              /\ ~ReadAs
              => \E frame \in FrameAt(log, view.selected) \cup FrameAt(log, view'.selected) :
                   Size[frame] # Size[view.decodeAs]]_vars
  BY ChoiceStays
<1>3. Spec => ReadStaysTheSame
  BY <1>1, TrafficCorrect, PTL DEF Spec, ReadStaysTheSame
<1>4. Spec => ChoiceKept
  BY <1>2, TrafficCorrect, PTL DEF Spec, ChoiceKept
<1> QED
  BY <1>3, <1>4 DEF ReadingHolds
=============================================================================
