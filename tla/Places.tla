------------------------------- MODULE Places -------------------------------
(***************************************************************************)
(* What of a sequence is at some of its places, in their order: the        *)
(* numbers of a set from the least up, and what the proofs need of them.   *)
(***************************************************************************)
EXTENDS Naturals, Sequences, FiniteSets, FiniteSetsExt,
        FunctionTheorems, FiniteSetTheorems, WellFoundedInduction, TLAPS

Rising(s) == \A i, j \in DOMAIN s : i < j => s[i] < s[j]
Ascending(ids) == CHOOSE s \in [1 .. Cardinality(ids) -> ids] : Rising(s)
(* What a filter over a list keeps. *)
At(s, places) == [k \in 1 .. Cardinality(places) |-> s[Ascending(places)[k]]]
(* Each once, where it is first.                                           *)
Once(s) == At(s, {i \in DOMAIN s : \A j \in 1 .. i - 1 : s[j] # s[i]})
-----------------------------------------------------------------------------
(* Induction over the parts of a finite set: of those that lack something, *)
(* one lacks it while all it has but one element does not.                 *)

LEMMA SmallestPart ==
  ASSUME NEW S, IsFiniteSet(S), NEW bad \in SUBSET SUBSET S, bad # {}
  PROVE  \E part \in bad : \A x \in part : part \ {x} \notin bad
<1> DEFINE R == StrictSubsetOrdering(S)
<1>1. IsWellFoundedOn(R, FiniteSubsetsOf(S))
  BY FS_StrictSubsetOrderingWellFounded
<1>2. FiniteSubsetsOf(S) = SUBSET S
  BY FS_FiniteSubsetsOfFinite
<1>3. PICK part \in bad : \A other \in bad : <<other, part>> \notin R
  <2> HIDE DEF R
  <2> QED
    BY <1>1, <1>2, WFMin
<1>4. ASSUME NEW x \in part, part \ {x} \in bad
      PROVE  FALSE
  <2>1. <<part \ {x}, part>> \in R
    BY <1>4 DEF StrictSubsetOrdering
  <2> QED
    BY <1>3, <1>4, <2>1
<1> QED
  BY <1>3, <1>4

LEMMA MaxIsThere ==
  ASSUME NEW S \in SUBSET Nat, IsFiniteSet(S), S # {}
  PROVE  Max(S) \in S /\ \A x \in S : x <= Max(S)
<1> DEFINE bad == {T \in SUBSET S : T # {} /\ ~ \E m \in T : \A x \in T : m >= x}
<1>1. bad = {}
  <2> SUFFICES ASSUME bad # {} PROVE FALSE
    OBVIOUS
  <2>1. bad \in SUBSET SUBSET S
    OBVIOUS
  <2>2. PICK part \in bad : \A x \in part : part \ {x} \notin bad
    <3> HIDE DEF bad
    <3> QED
      BY <2>1, SmallestPart
  <2>3. PICK x \in part : TRUE
    OBVIOUS
  <2>4. part \subseteq Nat /\ x \in Nat
    OBVIOUS
  <2>5. CASE part \ {x} = {}
    <3>1. \A y \in part : x >= y
      BY <2>4, <2>5
    <3> QED
      BY <2>3, <3>1
  <2>6. CASE part \ {x} # {}
    <3>1. PICK m \in part \ {x} : \A y \in part \ {x} : m >= y
      BY <2>2, <2>3, <2>6
    <3>2. \E top \in {m, x} : \A y \in part : top >= y
      BY <2>4, <3>1
    <3> QED
      BY <2>3, <3>1, <3>2
  <2> QED
    BY <2>5, <2>6
<1>2. \E m \in S : \A x \in S : m >= x
  BY <1>1
<1>3. Max(S) \in S /\ \A x \in S : Max(S) >= x
  BY <1>2 DEF Max
<1> QED
  BY <1>3

LEMMA MinIsThere ==
  ASSUME NEW S \in SUBSET Nat, S # {}
  PROVE  Min(S) \in S /\ \A x \in S : Min(S) <= x
<1> DEFINE R == OpToRel(<, Nat)
<1>1. PICK m \in S : \A x \in S : <<x, m>> \notin R
  <2> HIDE DEF R
  <2> QED
    BY NatLessThanWellFounded, WFMin DEF R
<1>2. \A x \in S : m <= x
  <2> SUFFICES ASSUME NEW x \in S, x < m PROVE FALSE
    OBVIOUS
  <2>1. <<x, m>> \in OpToRel(<, Nat)
    BY DEF OpToRel
  <2> QED
    BY <1>1, <2>1
<1>3. \E least \in S : \A x \in S : least <= x
  BY <1>2
<1> QED
  BY <1>3 DEF Min

LEMMA RisingExists ==
  ASSUME NEW S \in SUBSET Nat, IsFiniteSet(S)
  PROVE  \E s \in [1 .. Cardinality(S) -> S] : Rising(s)
<1> DEFINE bad == {T \in SUBSET S : ~ \E s \in [1 .. Cardinality(T) -> T] : Rising(s)}
<1>1. bad = {}
  <2> SUFFICES ASSUME bad # {} PROVE FALSE
    OBVIOUS
  <2>1. bad \in SUBSET SUBSET S
    OBVIOUS
  <2>2. PICK part \in bad : \A x \in part : part \ {x} \notin bad
    <3> HIDE DEF bad
    <3> QED
      BY <2>1, SmallestPart
  <2>3. part \in SUBSET Nat /\ part \in SUBSET S /\ IsFiniteSet(part) /\ Cardinality(part) \in Nat
    BY FS_Subset, FS_CardinalityType
  <2>4. CASE part = {}
    <3>1. Cardinality(part) = 0
      BY <2>4, FS_EmptySet
    <3>2. <<>> \in [1 .. 0 -> part] /\ Rising(<<>>)
      BY DEF Rising
    <3> QED
      BY <3>1, <3>2
  <2>5. CASE part # {}
    <3> DEFINE top == Max(part)
               n == Cardinality(part)
    <3>1. top \in part /\ \A x \in part : x <= top
      BY <2>3, <2>5, MaxIsThere
    <3>2. n - 1 = Cardinality(part \ {top}) /\ n - 1 \in Nat /\ n \in Nat \ {0}
      <4>1. IsFiniteSet(part \ {top}) /\ Cardinality(part \ {top}) = n - 1
        BY <2>3, <3>1, FS_RemoveElement
      <4> QED
        BY <2>3, <4>1, FS_CardinalityType
    <3>3. PICK s \in [1 .. n - 1 -> part \ {top}] : Rising(s)
      BY <2>2, <2>3, <3>1, <3>2
    <3> DEFINE t == [i \in 1 .. n |-> IF i = n THEN top ELSE s[i]]
    <3> HIDE DEF n, top
    <3>4. t \in [1 .. n -> part]
      BY <3>1, <3>2, <3>3
    <3>5. Rising(t)
      <4> SUFFICES ASSUME NEW i \in 1 .. n, NEW j \in 1 .. n, i < j
                   PROVE  t[i] < t[j]
        BY <3>4 DEF Rising
      <4>1. i \in 1 .. n - 1 /\ t[i] = s[i] /\ s[i] \in part \ {top} /\ s[i] \in Nat /\ top \in Nat
        <5>1. i \in 1 .. n - 1 /\ i # n
          BY <3>2
        <5>2. s[i] \in part \ {top}
          BY <3>3, <5>1
        <5> QED
          BY <2>3, <3>1, <5>1, <5>2 DEF t
      <4>2. CASE j = n
        BY <3>1, <4>1, <4>2
      <4>3. CASE j # n
        BY <3>2, <3>3, <4>1, <4>3 DEF Rising
      <4> QED
        BY <4>2, <4>3
    <3> HIDE DEF t
    <3> QED
      BY <2>3, <3>4, <3>5 DEF n
  <2> QED
    BY <2>4, <2>5
<1> QED
  BY <1>1

LEMMA RisingOfInterval ==
  ASSUME NEW n \in Nat, NEW s \in [1 .. n -> 1 .. n], Rising(s)
  PROVE  \A i \in 1 .. n : s[i] = i
<1> DEFINE off == {i \in 1 .. n : s[i] # i}
           R == OpToRel(<, Nat)
<1> SUFFICES ASSUME off # {} PROVE FALSE
  OBVIOUS
<1>1. PICK i \in off : \A j \in off : ~(j < i)
  <2>1. off \subseteq Nat
    OBVIOUS
  <2>2. PICK i \in off : \A j \in off : <<j, i>> \notin R
    <3> HIDE DEF off, R
    <3> QED
      BY <2>1, NatLessThanWellFounded, WFMin DEF R
  <2>3. \A j \in off : j < i => <<j, i>> \in R
    <3> HIDE DEF off
    <3> QED
      BY <2>1, <2>2 DEF OpToRel
  <2> QED
    BY <2>2, <2>3
<1>2. i \in 1 .. n /\ s[i] # i /\ s[i] \in 1 .. n
  OBVIOUS
<1>3. \A j \in 1 .. n : j < i => s[j] = j
  BY <1>1
<1>4. s[i] > i
  <2>1. ASSUME s[i] < i PROVE FALSE
    <3>1. s[s[i]] = s[i]
      BY <1>2, <1>3, <2>1
    <3>2. s[s[i]] < s[i]
      BY <1>2, <2>1 DEF Rising
    <3> QED
      BY <1>2, <3>1, <3>2
  <2> QED
    BY <1>2, <2>1
<1>5. s \in Surjection(1 .. n, 1 .. n)
  <2>1. \A j, k \in 1 .. n : s[j] = s[k] => j = k
    <3> SUFFICES ASSUME NEW j \in 1 .. n, NEW k \in 1 .. n, s[j] = s[k], j # k
                 PROVE  FALSE
      OBVIOUS
    <3>1. s[j] \in Nat /\ (j < k \/ k < j)
      OBVIOUS
    <3>2. s[j] < s[k] \/ s[k] < s[j]
      BY <3>1 DEF Rising
    <3> QED
      BY <3>1, <3>2
  <2>2. s \in Injection(1 .. n, 1 .. n)
    BY <2>1 DEF Injection, IsInjective
  <2>3. IsFiniteSet(1 .. n)
    BY FS_Interval
  <2> QED
    BY <2>2, <2>3, FS_Injection
<1>6. PICK j \in 1 .. n : s[j] = i
  BY <1>2, <1>5 DEF Surjection
<1>7. CASE j < i
  BY <1>2, <1>3, <1>6, <1>7
<1>8. CASE j = i
  BY <1>2, <1>6, <1>8
<1>9. CASE j > i
  <2>1. s[i] < s[j]
    BY <1>2, <1>9 DEF Rising
  <2> QED
    BY <1>2, <1>4, <1>6, <2>1
<1> QED
  BY <1>2, <1>7, <1>8, <1>9

LEMMA AscendingRises ==
  ASSUME NEW S \in SUBSET Nat, IsFiniteSet(S)
  PROVE  Ascending(S) \in [1 .. Cardinality(S) -> S] /\ Rising(Ascending(S))
BY RisingExists DEF Ascending, Rising

LEMMA AscendingOfInterval ==
  ASSUME NEW n \in Nat
  PROVE  /\ DOMAIN Ascending(1 .. n) = 1 .. n
         /\ \A i \in 1 .. n : Ascending(1 .. n)[i] = i
<1>1. IsFiniteSet(1 .. n) /\ Cardinality(1 .. n) = n /\ 1 .. n \in SUBSET Nat
  BY FS_Interval
<1>2. Ascending(1 .. n) \in [1 .. n -> 1 .. n] /\ Rising(Ascending(1 .. n))
  BY <1>1, AscendingRises
<1> QED
  BY <1>2, RisingOfInterval

-----------------------------------------------------------------------------
Distinct(s) == \A i, j \in DOMAIN s : s[i] = s[j] => i = j

LEMMA AtKeeps ==
  ASSUME NEW S, NEW s \in Seq(S), NEW places \in SUBSET DOMAIN s
  PROVE  /\ At(s, places) \in Seq(S)
         /\ At(s, places) = <<>> => places = {}
         /\ (\A i, j \in places : s[i] = s[j] => i = j) => Distinct(At(s, places))
<1> DEFINE n == Cardinality(places)
           at == Ascending(places)
<1>1. places \in SUBSET Nat /\ IsFiniteSet(places) /\ n \in Nat
  <2>1. DOMAIN s = 1 .. Len(s) /\ Len(s) \in Nat
    OBVIOUS
  <2>2. IsFiniteSet(1 .. Len(s)) /\ places \in SUBSET (1 .. Len(s))
    BY <2>1, FS_Interval
  <2>3. IsFiniteSet(places)
    BY <2>2, FS_Subset
  <2> QED
    BY <2>2, <2>3, FS_CardinalityType
<1>2. at \in [1 .. n -> places] /\ Rising(at)
  BY <1>1, AscendingRises
<1>3. places # {} => n # 0
  BY <1>1, FS_EmptySet
<1>4. At(s, places) = [k \in 1 .. n |-> s[at[k]]]
  BY DEF At
<1> HIDE DEF n, at
<1>5. \A k \in 1 .. n : at[k] \in places /\ at[k] \in DOMAIN s /\ s[at[k]] \in S
  <2>1. \A i \in DOMAIN s : s[i] \in S
    OBVIOUS
  <2> QED
    BY <1>2, <2>1
<1>6. At(s, places) \in Seq(S)
  BY <1>1, <1>4, <1>5
<1>7. At(s, places) = <<>> => places = {}
  <2>1. Len(At(s, places)) = n
    BY <1>1, <1>4, <1>6
  <2>2. Len(<<>>) = 0
    OBVIOUS
  <2> QED
    BY <1>3, <2>1, <2>2
<1>8. ASSUME \A i, j \in places : s[i] = s[j] => i = j
      PROVE  Distinct(At(s, places))
  <2> SUFFICES ASSUME NEW k \in 1 .. n, NEW m \in 1 .. n, s[at[k]] = s[at[m]]
               PROVE  k = m
    BY <1>4 DEF Distinct
  <2>1. at[k] = at[m] /\ at[k] \in Nat
    BY <1>1, <1>5, <1>8
  <2>2. ~(k < m) /\ ~(m < k)
    BY <1>2, <2>1 DEF Rising
  <2> QED
    BY <1>1, <2>2
<1> QED
  BY <1>6, <1>7, <1>8

LEMMA OnceKeeps ==
  ASSUME NEW S, NEW s \in Seq(S)
  PROVE  /\ Once(s) \in Seq(S) /\ Distinct(Once(s))
         /\ Once(s) = <<>> => s = <<>>
         /\ Distinct(s) => Once(s) = s
<1> DEFINE places == {i \in DOMAIN s : \A j \in 1 .. i - 1 : s[j] # s[i]}
<1>1. DOMAIN s = 1 .. Len(s) /\ Len(s) \in Nat
  OBVIOUS
<1>2. \A i, j \in places : s[i] = s[j] => i = j
  <2> SUFFICES ASSUME NEW i \in places, NEW j \in places, s[i] = s[j], i # j
               PROVE  FALSE
    OBVIOUS
  <2>1. i \in Nat /\ j \in Nat /\ i >= 1 /\ j >= 1
    BY <1>1
  <2>2. i \in 1 .. j - 1 \/ j \in 1 .. i - 1
    BY <2>1
  <2> QED
    BY <2>2
<1>3. ASSUME Distinct(s) PROVE Once(s) = s
  <2>1. places = 1 .. Len(s)
    <3> SUFFICES ASSUME NEW i \in 1 .. Len(s), NEW j \in 1 .. i - 1 PROVE s[j] # s[i]
      BY <1>1
    <3>1. j \in 1 .. Len(s) /\ j # i
      BY <1>1
    <3> QED
      BY <1>1, <1>3, <3>1 DEF Distinct
  <2>2. Cardinality(1 .. Len(s)) = Len(s)
    BY <1>1, FS_Interval
  <2>3. \A k \in 1 .. Len(s) : Ascending(1 .. Len(s))[k] = k
    BY <1>1, AscendingOfInterval
  <2>4. Once(s) = [k \in 1 .. Len(s) |-> s[Ascending(1 .. Len(s))[k]]]
    BY <2>1, <2>2 DEF Once, At
  <2>5. Once(s) = [k \in 1 .. Len(s) |-> s[k]]
    BY <2>3, <2>4
  <2> QED
    BY <1>1, <2>5
<1>4. Once(s) = At(s, places)
  BY DEF Once
<1>6. places = {} => s = <<>>
  <2>1. s # <<>> => 1 \in places
    BY <1>1
  <2> QED
    BY <2>1
<1> HIDE DEF places
<1>5. places \in SUBSET DOMAIN s
  BY DEF places
<1> QED
  BY <1>2, <1>3, <1>4, <1>5, <1>6, AtKeeps
=============================================================================
