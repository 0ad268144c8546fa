---------------------------- MODULE RunnerProofs ----------------------------
(***************************************************************************)
(* A running scenario: proofs for any scenarios, links, frames and         *)
(* capacity of the subscription.                                           *)
(***************************************************************************)
EXTENDS RunnerProperties, CounterRun, SequenceTheorems, FiniteSetTheorems, TLAPS

Busy == {"announce", "act", "posting", "listening"}
Sends(s) == s.do \in {"send", "raw"}

(* What the awaits say of the step the task is at, and where the frames    *)
(* come from.                                                              *)
Situated ==
  /\ outcome = "running" <=> at # "over"
  /\ at = "listening" => Now.do = "wait_for" /\ pending # {} /\ pending \subseteq Targets
  /\ at = "posting" => Sends(Now) /\ frame \in [Fields -> Values]
  /\ arrivals \in Seq(Arriving) /\ received \in Seq(Arriving)

TypeInv == TypeOK /\ Situated

(* A pass is only started while there is one left.                         *)
PassesLeft ==
  /\ outcome = "completed" => at = "over"
  /\ script.repeats /\ script.times # None =>
       /\ at # "over" => pass <= script.times
       /\ at \in Busy => pass < script.times
       /\ outcome = "completed" => pass = script.times

(* A target the wait has struck off has answered it.                       *)
StruckOff ==
  at = "listening" =>
    \A link \in Targets \ pending : \E m \in Examined : m.link = link /\ Matches(m, frame)

(* While a send is posted, what it keeps is in the frame.                  *)
Sourced(v) ==
  \E f \in Fields :
    \/ \E m \in Examined : m.values[f] = variables[v]
    \/ \E i \in DOMAIN posted : posted[i].values[f] = variables[v]
    \/ at = "posting" /\ frame[f] = variables[v]

VariablesSourced == at \in Busy => \A v \in Variables : variables[v] # None => Sourced(v)

(* The sends of the steps behind are all posted, of this one the targets   *)
(* already served, and nothing of the steps ahead.                         *)
PostedSoFar ==
  at \in Busy =>
    /\ \A p \in DOMAIN posted : posted[p].step <= step
    /\ \A i \in 1 .. step - 1 :
         Sends(script.steps[i]) => Cardinality(PostsOf(i)) = Len(script.steps[i].to)
    /\ Cardinality(PostsOf(step)) = IF at = "posting" THEN next - 1 ELSE 0
    /\ at = "posting" => \A p \in PostsOf(step) : posted[p].values = frame

PostInv == SameBytesToAll /\ PostedSoFar

(* What a wait captures comes from its one target, and what that target    *)
(* says decodes.                                                           *)
AnswersDecode ==
  \A s \in Scripts, m \in Arriving : \A i \in DOMAIN s.steps :
    s.steps[i].do = "wait_for" /\ Keeps(s.steps[i]) # {} /\ m.link = s.steps[i].to[1] => m.whole

(* Whatever the steps behind keep is there.                                *)
Held(s) == \A v \in Keeps(s) : variables[v] # None

CapturedSoFar ==
  /\ NeverUnset
  /\ at \in Busy => \A i \in 1 .. step - 1 : Held(script.steps[i])
  /\ at = "posting" => Held(Now)

RunInv ==
  TypeInv /\ NothingMissed /\ PassesLeft /\ StruckOff /\ VariablesSourced /\ PostInv

-----------------------------------------------------------------------------
(* Counters. *)

LEMMA CounterParts ==
  ASSUME NEW c \in Counters, NEW turns \in Nat
  PROVE  /\ c.from \in 0 .. Top /\ c.step \in 0 .. Top
         /\ c.wrap \in 0 .. Top \cup {NoWrap}
         /\ Top \in Nat \ {0}
         /\ Advanced(c, turns) \in 0 .. Top
<1>1. /\ c.from \in 0 .. Top /\ c.step \in 0 .. Top
      /\ c.wrap \in 0 .. Top \cup {NoWrap}
      /\ Top \in Nat \ {0}
  BY WidthsAssumption DEF Counters
<1>2. c.step * turns \in Nat
  BY <1>1
<1>3. \A n \in Nat : Saturated(n) \in 0 .. Top
  BY <1>1 DEF Saturated
<1> QED
  BY <1>1, <1>2, <1>3 DEF Advanced

(* What Euclid's division leaves. *)
LEMMA Remainder == \A a \in Nat, n \in Nat \ {0} : a % n \in 0 .. n - 1
OBVIOUS

LEMMA CounterStays ==
  ASSUME NEW c \in Counters, NEW turns \in Nat
  PROVE  /\ CounterAt(c, turns) \in 0 .. Top
         /\ Wraps(c) => CounterAt(c, turns) \in c.from .. c.wrap
<1> DEFINE ahead == Advanced(c, turns)
<1>1. /\ c.from \in 0 .. Top /\ ahead \in 0 .. Top /\ Top \in Nat \ {0}
      /\ c.wrap # NoWrap => c.wrap \in 0 .. Top
  BY CounterParts
<1>2. CASE ~Wraps(c)
  <2>1. CounterAt(c, turns) = Saturated(c.from + ahead)
    BY <1>2 DEF CounterAt
  <2> HIDE DEF ahead
  <2> QED
    BY <1>1, <1>2, <2>1 DEF Saturated
<1>3. CASE Wraps(c) /\ Span(c) > Top
  <2>1. CounterAt(c, turns) = (c.from + ahead) % (Top + 1)
    BY <1>3 DEF CounterAt
  <2>2. c.from = 0 /\ c.wrap = Top
    BY <1>1, <1>3 DEF Wraps, Span
  <2> HIDE DEF ahead
  <2>3. c.from + ahead \in Nat /\ Top + 1 \in Nat \ {0}
    BY <1>1
  <2>4. (c.from + ahead) % (Top + 1) \in 0 .. (Top + 1) - 1
    BY <2>3, Remainder
  <2> QED
    BY <1>1, <2>1, <2>2, <2>4
<1>4. CASE Wraps(c) /\ ~(Span(c) > Top)
  <2>1. CounterAt(c, turns) = c.from + (ahead % Span(c))
    BY <1>4 DEF CounterAt
  <2>2. c.wrap \in c.from .. Top /\ Span(c) \in Nat \ {0} /\ Span(c) = c.wrap - c.from + 1
    BY <1>1, <1>4 DEF Wraps, Span
  <2> HIDE DEF ahead
  <2>3. ahead \in Nat
    BY <1>1
  <2>4. ahead % Span(c) \in 0 .. Span(c) - 1
    BY <2>2, <2>3, Remainder
  <2> QED
    BY <1>1, <2>1, <2>2, <2>4
<1> QED
  BY <1>2, <1>3, <1>4

LEMMA CounterTypes == CounterSpec => []CounterTypeOK
<1>1. CounterInit => CounterTypeOK
  BY WidthsAssumption DEF CounterInit, CounterTypeOK
<1>2. CounterTypeOK /\ [CounterNext]_<<counter, passed>> => CounterTypeOK'
  BY WidthsAssumption DEF CounterTypeOK, CounterNext, PassAfter
<1> QED
  BY <1>1, <1>2, PTL DEF CounterSpec

(* Whatever its bounds, its step and the width, and however often the      *)
(* scenario repeats, a counter stays inside its span.                      *)
THEOREM CounterIsBounded == CounterSpec => []InsideItsSpan
<1>1. CounterTypeOK => InsideItsSpan
  BY CounterStays, WidthsAssumption DEF CounterTypeOK, InsideItsSpan, Value
<1> QED
  BY CounterTypes, <1>1, PTL

LEMMA Division ==
  ASSUME NEW a \in Nat, NEW n \in Nat \ {0}
  PROVE  a = (a \div n) * n + (a % n) /\ a \div n \in Nat
OBVIOUS

(* One quotient and one remainder. *)
LEMMA OneQuotient ==
  ASSUME NEW q \in Nat, NEW p \in Nat, NEW n \in Nat \ {0},
         NEW r \in 0 .. n - 1, NEW s \in 0 .. n - 1, q * n + r = p * n + s
  PROVE  r = s
<1>1. ASSUME NEW x \in Nat, NEW y \in Nat, x < y PROVE x * n + n <= y * n
  <2> DEFINE d == y - x - 1
  <2>1. d \in Nat /\ y = x + 1 + d
    BY <1>1
  <2> HIDE DEF d
  <2>2. y * n = x * n + n + d * n
    BY <2>1
  <2>3. d * n \in Nat /\ x * n \in Nat
    BY <2>1
  <2> QED
    BY <2>2, <2>3
<1>2. q * n \in Nat /\ p * n \in Nat
  OBVIOUS
<1>3. CASE q < p
  <2>1. q * n + n <= p * n
    BY <1>1, <1>3
  <2> DEFINE u == q * n
             v == p * n
  <2>2. u \in Nat /\ v \in Nat /\ u + n <= v /\ u + r = v + s
    BY <1>2, <2>1
  <2> HIDE DEF u, v
  <2> QED
    BY <2>2
<1>4. CASE p < q
  <2>1. p * n + n <= q * n
    BY <1>1, <1>4
  <2> DEFINE u == q * n
             v == p * n
  <2>2. u \in Nat /\ v \in Nat /\ v + n <= u /\ u + r = v + s
    BY <1>2, <2>1
  <2> HIDE DEF u, v
  <2> QED
    BY <2>2
<1>5. CASE p = q
  BY <1>2, <1>5
<1> QED
  BY <1>3, <1>4, <1>5

(* Counting a pass more goes on from the remainder there was, and once     *)
(* round is a whole number of times.                                       *)
LEMMA Laps ==
  ASSUME NEW a \in Nat, NEW b \in Nat, NEW n \in Nat \ {0}
  PROVE  \E laps \in 0 .. (a % n) + b : ((a + b) % n) + laps * n = (a % n) + b
<1>1. PICK q \in Nat, r \in 0 .. n - 1 : a = q * n + r /\ r = a % n
  BY Division, Remainder
<1>2. PICK laps \in Nat, s \in 0 .. n - 1 : r + b = laps * n + s
  <2>1. r + b \in Nat
    OBVIOUS
  <2> QED
    BY <2>1, Division, Remainder
<1>3. PICK p \in Nat, t \in 0 .. n - 1 : a + b = p * n + t /\ t = (a + b) % n
  <2>1. a + b \in Nat
    OBVIOUS
  <2> QED
    BY <2>1, Division, Remainder
<1>4. (q + laps) * n + s = p * n + t
  <2>1. (q + laps) * n = q * n + laps * n
    OBVIOUS
  <2>2. q * n \in Nat /\ laps * n \in Nat
    OBVIOUS
  <2> QED
    BY <1>1, <1>2, <1>3, <2>1, <2>2
<1>5. s = t
  <2>1. q + laps \in Nat
    OBVIOUS
  <2> QED
    BY <1>4, <2>1, OneQuotient
<1>6. laps <= laps * n /\ laps * n \in Nat
  OBVIOUS
<1>7. laps \in 0 .. r + b
  BY <1>2, <1>6
<1>8. t + laps * n = r + b
  BY <1>2, <1>5, <1>6
<1>9. \E rounds \in 0 .. r + b : t + rounds * n = r + b
  BY <1>7, <1>8
<1>10. r = a % n /\ t = (a + b) % n
  BY <1>1, <1>3
<1> QED
  BY <1>9, <1>10, Zenon

(* As long as the distance fits, a counter is its start and a remainder.   *)
LEMMA CounterFolds ==
  ASSUME NEW c \in Counters, NEW turns \in Nat, Wraps(c), c.step * turns <= Top
  PROVE  /\ CounterAt(c, turns) = c.from + ((c.step * turns) % Span(c))
         /\ Span(c) \in Nat \ {0}
<1> DEFINE far == c.step * turns
<1>1. /\ c.from \in 0 .. Top /\ c.wrap \in c.from .. Top /\ Top \in Nat \ {0}
      /\ c.step \in Nat
  BY CounterParts DEF Wraps
<1>2. far \in 0 .. Top
  BY <1>1
<1>3. Advanced(c, turns) = far
  BY <1>1, <1>2 DEF Advanced, Saturated
<1>4. Span(c) = c.wrap - c.from + 1 /\ Span(c) \in Nat \ {0}
  BY <1>1 DEF Span
<1>5. CASE Span(c) > Top
  <2> DEFINE span == Span(c)
  <2>0. span = c.wrap - c.from + 1 /\ span > Top
    BY <1>4, <1>5
  <2>1. c.from = 0 /\ Span(c) = Top + 1
    <3> HIDE DEF span, far
    <3>1. c.from = 0 /\ span = Top + 1
      BY <1>1, <2>0
    <3> QED
      BY <3>1 DEF span
  <2>2. CounterAt(c, turns) = (c.from + far) % (Top + 1)
    BY <1>3, <1>5 DEF CounterAt
  <2> HIDE DEF far
  <2>3. c.from + far = far
    BY <1>2, <2>1
  <2>4. far % Span(c) \in Nat
    BY <1>2, <1>4, Remainder
  <2>5. CounterAt(c, turns) = c.from + (far % Span(c))
    BY <2>1, <2>2, <2>3, <2>4
  <2> QED
    BY <1>4, <2>5 DEF far
<1>6. CASE ~(Span(c) > Top)
  BY <1>3, <1>4, <1>6 DEF CounterAt
<1> QED
  BY <1>5, <1>6

LEMMA StepsAhead ==
  ASSUME CounterTypeOK, CounterNext, passed' # passed,
         Wraps(counter), counter.step * passed' <= Top
  PROVE  \E laps \in 0 .. Value + counter.step :
           Value' + laps * (counter.wrap + 1 - counter.from) = Value + counter.step
<1> DEFINE c == counter
           far == c.step * passed
<1>1. /\ c \in Counters /\ passed \in Nat /\ c' = c /\ passed' = passed + 1
      /\ PassCeiling \in Nat
  BY WidthsAssumption DEF CounterTypeOK, CounterNext, PassAfter
<1>2. /\ c.from \in Nat /\ c.step \in Nat /\ c.wrap \in Nat /\ Top \in Nat
      /\ Wraps(c) /\ c.step * (passed + 1) <= Top
  <2>1. /\ c.from \in 0 .. Top /\ c.step \in 0 .. Top /\ c.wrap \in 0 .. Top \cup {NoWrap}
        /\ Top \in Nat
    BY <1>1, CounterParts
  <2> QED
    BY <1>1, <2>1 DEF Wraps
<1>3. c.step * (passed + 1) = far + c.step /\ far \in Nat /\ far <= Top
  BY <1>1, <1>2
<1>4. /\ Value = c.from + (far % Span(c)) /\ Span(c) \in Nat \ {0}
  BY <1>1, <1>2, <1>3, CounterFolds DEF Value
<1>5. Value' = c.from + ((far + c.step) % Span(c))
  <2>1. CounterAt(c, passed + 1) = c.from + ((c.step * (passed + 1)) % Span(c))
    BY <1>1, <1>2, CounterFolds
  <2>2. Value' = CounterAt(c, passed + 1)
    BY <1>1 DEF Value
  <2> QED
    BY <1>3, <2>1, <2>2
<1>6. Span(c) = c.wrap + 1 - c.from
  BY <1>2 DEF Span
<1> HIDE DEF far
<1>7. PICK laps \in 0 .. (far % Span(c)) + c.step :
        ((far + c.step) % Span(c)) + laps * Span(c) = (far % Span(c)) + c.step
  BY <1>2, <1>3, <1>4, Laps
<1>8. /\ far % Span(c) \in Nat /\ (far + c.step) % Span(c) \in Nat
      /\ laps * Span(c) \in Nat
  <2>1. far + c.step \in Nat /\ laps \in Int
    BY <1>2, <1>3
  <2>2. /\ far % Span(c) \in 0 .. Span(c) - 1
        /\ (far + c.step) % Span(c) \in 0 .. Span(c) - 1
    BY <1>3, <1>4, <2>1, Remainder
  <2>3. far % Span(c) \in Nat /\ (far + c.step) % Span(c) \in Nat
    BY <1>4, <2>2
  <2>4. laps \in Nat
    BY <1>2, <2>3
  <2> QED
    BY <1>4, <2>3, <2>4
<1>9. laps \in 0 .. Value + c.step
  BY <1>2, <1>4, <1>7, <1>8
<1>10. Value' + laps * Span(c) = Value + c.step
  BY <1>2, <1>4, <1>5, <1>7, <1>8
<1> QED
  BY <1>6, <1>9, <1>10

LEMMA StepsUp ==
  ASSUME CounterTypeOK, CounterNext, passed' # passed, ~Wraps(counter)
  PROVE  Value' >= Value /\ (Value' = Value => counter.step = 0 \/ Value = Top)
<1> DEFINE c == counter
           far == c.step * passed
<1>1. /\ c \in Counters /\ passed \in Nat /\ c' = c /\ passed' = passed + 1
  BY WidthsAssumption DEF CounterTypeOK, CounterNext, PassAfter
<1>2. c.from \in 0 .. Top /\ c.step \in 0 .. Top /\ Top \in Nat \ {0}
  BY <1>1, CounterParts
<1>3. c.step * (passed + 1) = far + c.step /\ far \in Nat
  BY <1>1, <1>2
<1>4. Value = Saturated(c.from + Saturated(far))
  BY <1>1 DEF Value, CounterAt, Advanced
<1>5. Value' = Saturated(c.from + Saturated(far + c.step))
  <2>1. Value' = CounterAt(c, passed + 1) /\ ~Wraps(c)
    BY <1>1 DEF Value
  <2> QED
    BY <1>3, <2>1 DEF CounterAt, Advanced
<1> HIDE DEF far
<1> QED
  BY <1>2, <1>3, <1>4, <1>5 DEF Saturated

(* Of whatever width, from wherever and by whatever step it counts, and    *)
(* however often the scenario repeats: a counter that wraps goes on by its *)
(* step, round its span, as long as the distance fits, and one that does   *)
(* not goes up to the top and never back.                                  *)
THEOREM CounterGoesOn == CounterSpec => CountsOn
<1>1. CounterTypeOK /\ CounterNext /\ ~ UNCHANGED <<counter, passed>>
      => /\ Wraps(counter) /\ counter.step * passed' <= Top =>
              LET ahead == Value + counter.step
                  span  == counter.wrap + 1 - counter.from
              IN  \E laps \in 0 .. ahead : Value' + laps * span = ahead
         /\ ~Wraps(counter) =>
              Value' >= Value /\ (Value' = Value => counter.step = 0 \/ Value = Top)
  <2> SUFFICES ASSUME CounterTypeOK, CounterNext, ~ UNCHANGED <<counter, passed>>
               PROVE  /\ Wraps(counter) /\ counter.step * passed' <= Top =>
                           LET ahead == Value + counter.step
                               span  == counter.wrap + 1 - counter.from
                           IN  \E laps \in 0 .. ahead : Value' + laps * span = ahead
                      /\ ~Wraps(counter) =>
                           Value' >= Value
                           /\ (Value' = Value => counter.step = 0 \/ Value = Top)
    OBVIOUS
  <2>1. passed' # passed
    BY DEF CounterNext
  <2> QED
    BY <2>1, StepsAhead, StepsUp
<1> QED
  BY <1>1, CounterTypes, PTL DEF CounterSpec, CountsOn, StepByStep, NeverFallsBack

-----------------------------------------------------------------------------
(* Scenarios, steps and frames. *)

LEMMA Constants ==
  /\ Top \in Nat \ {0} /\ PassCeiling \in Nat /\ FieldMax \in Values
  /\ HeardCapacity \in Nat \ {0} /\ None \notin Values /\ None \notin Variables
  /\ None \notin Counters
BY WidthsAssumption, RunnerAssumption

LEMMA ScriptIs ==
  ASSUME NEW s \in Scripts
  PROVE  /\ s.steps \in Seq(Step) /\ s.steps # <<>> /\ Loaded(s)
         /\ s.repeats \in BOOLEAN /\ s.times \in Nat \cup {None}
         /\ DOMAIN s.steps = 1 .. Len(s.steps) /\ Len(s.steps) \in Nat \ {0}
         /\ \A i \in DOMAIN s.steps : s.steps[i] \in Step
<1>1. Loaded(s)
  BY RunnerAssumption
<1>2. s.steps \in Seq(Step) /\ s.steps # <<>>
  BY <1>1 DEF Loaded
<1>3. s.repeats \in BOOLEAN /\ s.times \in Nat \cup {None}
  BY <1>1 DEF Loaded
<1>4. /\ DOMAIN s.steps = 1 .. Len(s.steps) /\ Len(s.steps) \in Nat
      /\ \A i \in 1 .. Len(s.steps) : s.steps[i] \in Step
  BY <1>2, LenProperties, ElementOfSeq
<1>5. Len(s.steps) # 0
  BY <1>2, EmptySeq
<1> QED
  BY <1>1, <1>2, <1>3, <1>4, <1>5

LEMMA StepIs ==
  ASSUME NEW s \in Step
  PROVE  /\ s.to \in Seq(Links)
         /\ s.do \in {"send", "raw", "wait", "wait_for"}
         /\ s.do = "send" => s \in SendStep
         /\ s.do = "raw" => s.values \in [Fields -> Values]
         /\ s.do = "wait_for" => s \in WaitForStep
<1>1. <<>> \in Seq(Links)
  BY EmptySeq
<1>2. CASE s \in SendStep
  BY <1>2 DEF SendStep
<1>3. CASE s \in RawStep
  BY <1>3 DEF RawStep
<1>4. CASE s \in WaitStep
  BY <1>1, <1>4 DEF WaitStep
<1>5. CASE s \in WaitForStep
  BY <1>5 DEF WaitForStep
<1> QED
  BY <1>2, <1>3, <1>4, <1>5 DEF Step

(* What the current step is, and that it is aimed somewhere.               *)
LEMMA NowIs ==
  ASSUME TypeOK
  PROVE  /\ Now \in Step /\ step \in 1 .. Len(script.steps) /\ Len(script.steps) \in Nat \ {0}
         /\ DOMAIN script.steps = 1 .. Len(script.steps)
         /\ DOMAIN Now.to = 1 .. Len(Now.to) /\ Len(Now.to) \in Nat
         /\ \A i \in DOMAIN Now.to : Now.to[i] \in Links
         /\ Now.do # "wait" => Len(Now.to) > 0
         /\ Targets \subseteq Links
<1>1. script \in Scripts /\ step \in DOMAIN script.steps
  BY DEF TypeOK
<1>2. Now \in Step /\ Now.to \in Seq(Links)
  BY <1>1, ScriptIs, StepIs DEF Now
<1>3. /\ DOMAIN Now.to = 1 .. Len(Now.to) /\ Len(Now.to) \in Nat
      /\ \A i \in DOMAIN Now.to : Now.to[i] \in Links
  BY <1>2, LenProperties, ElementOfSeq
<1>4. Now.do # "wait" => Now.to # <<>>
  BY <1>1, ScriptIs DEF Loaded, Now
<1>5. Now.to # <<>> => Len(Now.to) > 0
  BY <1>2, <1>3, EmptySeq
<1> QED
  BY <1>1, <1>2, <1>3, <1>4, <1>5, ScriptIs DEF Targets

LEMMA SendIs ==
  ASSUME TypeOK, Now.do = "send"
  PROVE  /\ Now.with \in Optional(Values) /\ Now.count \in Optional(Counters)
         /\ Now.fill \in Optional(Variables) /\ Now.keep \in Optional(Variables)
<1>1. Now \in SendStep
  BY NowIs, StepIs
<1> QED
  BY <1>1 DEF SendStep

LEMMA WaitIs ==
  ASSUME TypeOK, Now.do = "wait_for"
  PROVE  /\ Now.match \in Optional(Values) /\ Now.matchFrom \in Optional(Variables)
         /\ Now.keep \in Optional(Variables) /\ Now.onTimeout \in {"fail", "continue"}
<1>1. Now \in WaitForStep
  BY NowIs, StepIs
<1> QED
  BY <1>1 DEF WaitForStep

LEMMA FrameIs ==
  ASSUME NEW m \in Arriving
  PROVE  m \in Heard /\ m.link \in Links /\ m.values \in [Fields -> Values] /\ m.whole \in BOOLEAN
BY RunnerAssumption DEF Heard

(* A send whose variables are all there is encoded, whatever was set from  *)
(* outside and on whatever pass.                                           *)
LEMMA EncodedTyped ==
  ASSUME TypeOK, Now.do = "send", ~Unset
  PROVE  Encoded \in [Fields -> Values]
<1> SUFFICES ASSUME NEW f \in Fields PROVE Filled(f) \in Values
  BY DEF Encoded
<1>1. /\ Now.with[f] \in Values \cup {None} /\ Now.count[f] \in Counters \cup {None}
      /\ Now.fill[f] \in Variables \cup {None}
  BY SendIs DEF Optional
<1>2. overrides[step][f] \in Values \cup {None}
  BY DEF TypeOK, Optional
<1>3. pass \in Nat
  BY Constants DEF TypeOK
<1>4. CASE Now.count[f] # None
  BY <1>1, <1>3, <1>4, CounterStays DEF Filled, Values
<1>5. CASE Now.count[f] = None /\ Now.fill[f] # None
  <2>1. Now.fill[f] \in Reads(Now) /\ Now.fill[f] \in Variables
    BY <1>1, <1>5 DEF Reads
  <2> QED
    BY <1>5, <2>1 DEF Filled, Unset, TypeOK
<1>6. CASE Now.count[f] = None /\ Now.fill[f] = None
  BY <1>1, <1>2, <1>6, Constants DEF Filled, Set, Default, Values
<1> QED
  BY <1>4, <1>5, <1>6

LEMMA Remembered ==
  ASSUME TypeOK, NEW keep, NEW values \in [Fields -> Values]
  PROVE  /\ Remember(keep, values) \in [Variables -> Values \cup {None}]
         /\ \A v \in Variables :
              \/ Remember(keep, values)[v] = variables[v] /\ \A f \in Fields : keep[f] # v
              \/ \E f \in Fields : keep[f] = v /\ Remember(keep, values)[v] = values[f]
<1> SUFFICES ASSUME NEW v \in Variables
             PROVE  \/ /\ Remember(keep, values)[v] = variables[v]
                       /\ \A f \in Fields : keep[f] # v
                    \/ \E f \in Fields : keep[f] = v /\ Remember(keep, values)[v] = values[f]
  BY DEF TypeOK, Remember
<1>1. CASE \E f \in Fields : keep[f] = v
  <2> DEFINE g == CHOOSE f \in Fields : keep[f] = v
  <2>1. g \in Fields /\ keep[g] = v
    BY <1>1
  <2>2. Remember(keep, values)[v] = values[g]
    BY <1>1 DEF Remember
  <2> QED
    BY <2>1, <2>2
<1>2. CASE ~\E f \in Fields : keep[f] = v
  BY <1>2 DEF Remember
<1> QED
  BY <1>1, <1>2

-----------------------------------------------------------------------------
(* Types. *)

Outcomes == {"running", "completed", "stopped", "aborted", "silent", "unset", "unfit"}

(* Where the task may go from an await.                                    *)
Moved ==
  /\ at' \in {"tick", "announce", "over"} /\ outcome' \in Outcomes
  /\ outcome' = "running" <=> at' # "over"
  /\ pass' \in 0 .. PassCeiling /\ step' \in DOMAIN script.steps

LEMMA PassEndsMoves == ASSUME TypeInv, at # "over", PassEnds PROVE Moved
<1>1. pass \in 0 .. PassCeiling /\ step \in DOMAIN script.steps /\ outcome = "running"
  BY DEF TypeInv, TypeOK, Situated
<1>2. PassAfter(pass) \in 0 .. PassCeiling
  BY <1>1, Constants DEF PassAfter
<1> QED
  BY <1>1, <1>2 DEF PassEnds, End, Moved, Outcomes

LEMMA StepEndsMoves == ASSUME TypeInv, at # "over", StepEnds PROVE Moved
<1>1. CASE step < Len(script.steps) /\ at' = "announce" /\ step' = step + 1
             /\ UNCHANGED <<outcome, pass>>
  BY <1>1, NowIs DEF TypeInv, TypeOK, Situated, Moved, Outcomes
<1>2. CASE PassEnds
  BY <1>2, PassEndsMoves
<1> QED
  BY <1>1, <1>2 DEF StepEnds

LEMMA FailsMoves ==
  ASSUME TypeInv, NEW why \in Outcomes \ {"running"}, Fails(why)
  PROVE  Moved /\ at' = "over" /\ outcome' = why /\ UNCHANGED <<pass, step>>
BY DEF TypeInv, TypeOK, Fails, End, Moved, Outcomes

LEMMA MovedTyped ==
  ASSUME TypeInv, Moved, UNCHANGED <<script, next, overrides>>,
         frame' \in Optional(Values), pending' \subseteq Links,
         variables' \in [Variables -> Values \cup {None}],
         received' \in Seq(Heard), Len(received') <= HeardCapacity,
         gone' \in BOOLEAN, arrivals' \in Seq(Heard), examined' \in 0 .. Len(arrivals'),
         lagged' \in BOOLEAN, posted' \in Seq(Post),
         arrivals' \in Seq(Arriving), received' \in Seq(Arriving)
  PROVE  TypeInv'
<1>1. /\ script' \in Scripts /\ next' \in Nat
      /\ overrides' \in [DOMAIN script'.steps -> Optional(Values)]
      /\ step' \in DOMAIN script'.steps
  BY DEF TypeInv, TypeOK, Moved
<1>2. /\ at' \in {"tick", "announce", "act", "posting", "listening", "over"}
      /\ at' # "posting" /\ at' # "listening"
      /\ outcome' \in Outcomes
      /\ outcome' = "running" <=> at' # "over"
      /\ pass' \in 0 .. PassCeiling
  BY DEF Moved
<1>3. TypeOK'
  BY <1>1, <1>2 DEF TypeOK, Outcomes
<1>4. Situated'
  BY <1>2 DEF Situated
<1> QED
  BY <1>3, <1>4 DEF TypeInv

LEMMA InitTyped == Init => TypeInv
<1> SUFFICES ASSUME Init PROVE TypeInv
  OBVIOUS
<1>1. /\ script \in Scripts /\ 1 \in DOMAIN script.steps /\ step = 1
      /\ Len(<<>>) = 0
  BY ScriptIs DEF Init
<1>2. NoFrame \in Optional(Values) /\ Nothing \in [Variables -> Values \cup {None}]
  BY DEF NoFrame, Nothing, Optional
<1>3. /\ <<>> \in Seq(Heard) /\ <<>> \in Seq(Post) /\ <<>> \in Seq(Arriving)
  BY EmptySeq
<1>4. TypeOK
  <2>1. overrides \in [DOMAIN script.steps -> Optional(Values)]
    BY <1>2 DEF Init
  <2>2. /\ pass \in 0 .. PassCeiling /\ {} \subseteq Links /\ next = 1
        /\ Len(received) <= HeardCapacity /\ examined \in 0 .. Len(arrivals)
    BY <1>1, Constants DEF Init
  <2>3. /\ at = "tick" /\ outcome = "running" /\ frame = NoFrame /\ pending = {}
        /\ variables = Nothing /\ received = <<>> /\ gone = FALSE
        /\ arrivals = <<>> /\ lagged = FALSE /\ posted = <<>>
    BY DEF Init
  <2> QED
    BY <1>1, <1>2, <1>3, <2>1, <2>2, <2>3 DEF TypeOK
<1>5. Situated
  <2>1. at = "tick" /\ outcome = "running" /\ arrivals = <<>> /\ received = <<>>
    BY DEF Init
  <2>2. outcome = "running" <=> at # "over"
    BY <2>1
  <2>3. at # "listening" /\ at # "posting"
    BY <2>1
  <2> QED
    BY <1>3, <2>1, <2>2, <2>3 DEF Situated
<1> QED
  BY <1>4, <1>5 DEF TypeInv

(* Frames taken from the subscription, and frames added to it.             *)
LEMMA TakenTyped ==
  ASSUME TypeInv, received # <<>>
  PROVE  /\ Head(received) \in Arriving /\ Tail(received) \in Seq(Arriving)
         /\ Tail(received) \in Seq(Heard) /\ Len(Tail(received)) = Len(received) - 1
         /\ Len(received) \in Nat \ {0}
BY HeadTailProperties, LenProperties, EmptySeq DEF TypeInv, TypeOK, Situated

(* Every step keeps the types, and says of the await it comes to what      *)
(* Situated says.                                                          *)
LEMMA StepTyped == TypeInv /\ NothingMissed /\ [Next]_vars => TypeInv'
<1> SUFFICES ASSUME TypeInv, NothingMissed, [Next]_vars PROVE TypeInv'
  OBVIOUS
<1> USE DEF outside, history
<1>0. /\ TypeOK /\ script \in Scripts /\ step \in DOMAIN script.steps /\ next \in Nat
      /\ frame \in Optional(Values) /\ pending \subseteq Links
      /\ variables \in [Variables -> Values \cup {None}]
      /\ overrides \in [DOMAIN script.steps -> Optional(Values)]
      /\ received \in Seq(Heard) /\ Len(received) <= HeardCapacity /\ gone \in BOOLEAN
      /\ arrivals \in Seq(Heard) /\ examined \in 0 .. Len(arrivals) /\ lagged \in BOOLEAN
      /\ posted \in Seq(Post) /\ arrivals \in Seq(Arriving) /\ received \in Seq(Arriving)
  BY DEF TypeInv, TypeOK, Situated
<1>1. CASE PassesOver
  <2>1. Moved
    BY <1>1, FailsMoves DEF PassesOver, Outcomes
  <2> QED
    BY <1>0, <1>1, <2>1, MovedTyped DEF PassesOver
<1>2. CASE PassStarts
  <2>1. Moved
    BY <1>0, <1>2, ScriptIs DEF PassStarts, Moved, TypeInv, TypeOK, Situated, Outcomes
  <2>2. /\ <<>> \in Seq(Heard) /\ <<>> \in Seq(Post) /\ <<>> \in Seq(Arriving)
        /\ Len(<<>>) = 0
    BY EmptySeq
  <2>3. /\ variables' \in [Variables -> Values \cup {None}]
        /\ received' = <<>> /\ arrivals' = <<>> /\ posted' = <<>>
        /\ examined' = 0 /\ lagged' = FALSE
        /\ UNCHANGED <<script, next, overrides, frame, pending, gone>>
    BY <1>2 DEF PassStarts, Forgotten, Nothing, Resubscribed
  <2>4. Len(received') <= HeardCapacity /\ examined' \in 0 .. Len(arrivals')
    BY <2>2, <2>3, Constants
  <2> QED
    BY <1>0, <2>1, <2>2, <2>3, <2>4, MovedTyped
<1>3. CASE Announced
  <2>1. /\ at' = "act" /\ outcome = "running" /\ outcome' = "running"
        /\ UNCHANGED <<script, pass, step, next, frame, pending, variables, received,
                       outside, history>>
    BY <1>3 DEF Announced, TypeInv, Situated
  <2>2. TypeOK'
    BY <1>0, <2>1 DEF TypeOK
  <2>3. Situated'
    BY <1>0, <2>1 DEF Situated
  <2> QED
    BY <2>2, <2>3 DEF TypeInv
<1>4. CASE Slept
  <2>1. Moved
    BY <1>4, StepEndsMoves DEF Slept
  <2> QED
    BY <1>0, <1>4, <2>1, MovedTyped DEF Slept
<1>5. CASE Encode
  <2>1. CASE at' = "posting"
    <3>1. /\ frame' = Encoded /\ variables' = Remember(Now.keep, Encoded) /\ next' = 1
          /\ ~Unset /\ Now.do = "send" /\ at = "act"
          /\ UNCHANGED <<script, outcome, pass, step, pending, received, outside, history>>
      BY <1>5, <2>1 DEF Encode, Fails, End
    <3>2. Encoded \in [Fields -> Values]
      BY <1>0, <3>1, EncodedTyped
    <3>3. variables' \in [Variables -> Values \cup {None}]
      BY <1>0, <3>1, <3>2, Remembered
    <3>4. Now' = Now /\ 1 \in DOMAIN Now.to
      BY <1>0, <3>1, NowIs DEF Now
    <3>5. Encoded \in Optional(Values)
      BY <3>2 DEF Optional
    <3>6. TypeOK'
      BY <1>0, <2>1, <3>1, <3>3, <3>4, <3>5 DEF TypeOK
    <3>7. Situated'
      <4>1. outcome' = "running" /\ at' # "over"
        BY <2>1, <3>1 DEF TypeInv, Situated
      <4> QED
        BY <1>0, <2>1, <3>1, <3>2, <3>4, <4>1 DEF Situated, Sends
    <3> QED
      BY <3>6, <3>7 DEF TypeInv
  <2>2. CASE at' # "posting"
    <3>1. Moved
      BY <1>5, <2>2, FailsMoves DEF Encode, Outcomes
    <3>2. UNCHANGED <<script, next, frame, variables, pending, received, outside, history>>
      BY <1>5, <2>2 DEF Encode
    <3> QED
      BY <1>0, <3>1, <3>2, MovedTyped
  <2> QED
    BY <2>1, <2>2
<1>6. CASE SendRaw
  <2>1. /\ frame' = Now.values /\ next' = 1 /\ at' = "posting" /\ at = "act" /\ Now.do = "raw"
        /\ UNCHANGED <<script, outcome, pass, step, pending, variables, received, outside,
                       history>>
    BY <1>6 DEF SendRaw
  <2>2. Now' = Now /\ 1 \in DOMAIN Now.to
    BY <1>0, <2>1, NowIs DEF Now
  <2>3. frame' \in [Fields -> Values] /\ frame' \in Optional(Values)
    BY <1>0, <2>1, NowIs, StepIs DEF Optional
  <2>4. TypeOK'
    BY <1>0, <2>1, <2>2, <2>3 DEF TypeOK
  <2>5. Situated'
    <3>1. outcome' = "running" /\ at' # "over"
      BY <2>1 DEF TypeInv, Situated
    <3> QED
      BY <1>0, <2>1, <2>2, <2>3, <3>1 DEF Situated, Sends
  <2> QED
    BY <2>4, <2>5 DEF TypeInv
<1>7. CASE PostSend
  <2> DEFINE p == [step |-> step, link |-> Now.to[next], values |-> frame]
  <2>1. p \in Post
    BY <1>0, <1>7, NowIs DEF PostSend, Post, TypeInv, TypeOK, Situated
  <2>2. posted' = Append(posted, p)
    BY <1>7 DEF PostSend, Carried
  <2> HIDE DEF p
  <2>3. posted' \in Seq(Post)
    BY <1>0, <2>1, <2>2, AppendProperties
  <2>4. CASE LastTarget /\ StepEnds /\ UNCHANGED next
    <3>1. Moved
      BY <1>7, <2>4, StepEndsMoves DEF PostSend
    <3> QED
      BY <1>0, <1>7, <2>3, <2>4, <3>1, MovedTyped DEF PostSend
  <2>5. CASE ~LastTarget /\ next' = next + 1 /\ UNCHANGED <<at, outcome, pass, step>>
    <3>1. /\ at = "posting" /\ next \in DOMAIN Now.to
          /\ UNCHANGED <<script, frame, pending, variables, received, outside, arrivals,
                         examined, lagged>>
      BY <1>7 DEF PostSend, TypeInv, TypeOK
    <3>2. Now' = Now /\ next' \in DOMAIN Now.to
      BY <1>0, <2>5, <3>1, NowIs DEF LastTarget, Now
    <3>3. TypeOK'
      BY <1>0, <2>3, <2>5, <3>1, <3>2 DEF TypeOK
    <3>4. Situated'
      BY <2>5, <3>1, <3>2 DEF TypeInv, Situated
    <3> QED
      BY <3>3, <3>4 DEF TypeInv
  <2> QED
    BY <1>7, <2>4, <2>5 DEF PostSend
<1>8. CASE NowhereToSend
  <2>1. Moved
    BY <1>8, FailsMoves DEF NowhereToSend, Outcomes
  <2> QED
    BY <1>0, <1>8, <2>1, MovedTyped DEF NowhereToSend
<1>9. CASE Resolve
  <2>1. CASE at' = "listening"
    <3>1. /\ frame' = Wanted /\ pending' = Targets /\ at = "act" /\ Now.do = "wait_for" /\ ~Unset
          /\ UNCHANGED <<script, outcome, pass, step, next, variables, received, outside,
                         history>>
      BY <1>9, <2>1 DEF Resolve, Fails, End, Awaited
    <3>2. Wanted \in Optional(Values)
      <4> SUFFICES ASSUME NEW f \in Fields
                   PROVE  (IF Now.matchFrom[f] # None THEN variables[Now.matchFrom[f]]
                                                      ELSE Now.match[f]) \in Values \cup {None}
        BY DEF Wanted, Optional
      <4>1. /\ Now.match[f] \in Values \cup {None}
            /\ Now.matchFrom[f] \in Variables \cup {None}
        BY <1>0, <3>1, WaitIs DEF Optional
      <4> QED
        BY <1>0, <4>1
    <3>3. Now' = Now /\ Targets' = Targets
      BY <3>1 DEF Now, Targets
    <3>4. Targets \subseteq Links /\ Targets # {}
      <4>1. 1 \in DOMAIN Now.to
        BY <1>0, <3>1, NowIs
      <4>2. Now.to[1] \in Targets
        BY <4>1 DEF Targets
      <4> QED
        BY <1>0, <4>2, NowIs
    <3>5. TypeOK'
      BY <1>0, <2>1, <3>1, <3>2, <3>3, <3>4 DEF TypeOK
    <3>6. Situated'
      <4>1. outcome' = "running" /\ at' # "over"
        BY <2>1, <3>1 DEF TypeInv, Situated
      <4> QED
        BY <1>0, <2>1, <3>1, <3>3, <3>4, <4>1 DEF Situated
    <3> QED
      BY <3>5, <3>6 DEF TypeInv
  <2>2. CASE at' # "listening"
    <3>1. Moved
      BY <1>9, <2>2, FailsMoves DEF Resolve, Outcomes
    <3>2. UNCHANGED <<script, next, frame, variables, pending, received, outside, history>>
      BY <1>9, <2>2 DEF Resolve
    <3> QED
      BY <1>0, <3>1, <3>2, MovedTyped
  <2> QED
    BY <2>1, <2>2

<1>10. CASE Hear
  <2> DEFINE m == Head(received)
  <2>1. /\ m \in Arriving /\ Tail(received) \in Seq(Arriving) /\ Tail(received) \in Seq(Heard)
        /\ Len(Tail(received)) <= HeardCapacity /\ m.values \in [Fields -> Values]
    BY <1>0, <1>10, TakenTyped, FrameIs, Constants, LenProperties DEF Hear
  <2>2. /\ at = "listening" /\ examined' = examined + 1 /\ received' = Tail(received)
        /\ pending' \subseteq pending
        /\ variables' \in {variables, Remember(Now.keep, m.values)}
        /\ UNCHANGED <<script, next, frame, outside, arrivals, lagged, posted>>
    BY <1>10 DEF Hear
  <2> HIDE DEF m
  <2>3. variables' \in [Variables -> Values \cup {None}]
    BY <1>0, <2>1, <2>2, Remembered
  <2>4. examined' \in 0 .. Len(arrivals')
    <3>1. Len(arrivals) - Len(received) \in Nat /\ examined <= Len(arrivals) - Len(received)
      BY DEF NothingMissed
    <3>2. Len(received) \in Nat \ {0} /\ Len(arrivals) \in Nat /\ examined \in Nat
      BY <1>0, <1>10, TakenTyped, LenProperties DEF Hear
    <3> QED
      BY <2>2, <3>1, <3>2
  <2>5. CASE pending' = {} /\ StepEnds
    <3>1. Moved
      BY <2>2, <2>5, StepEndsMoves
    <3> QED
      BY <1>0, <2>1, <2>2, <2>3, <2>4, <3>1, MovedTyped
  <2>6. CASE pending' # {} /\ Stays
    <3>1. Now' = Now /\ Targets' = Targets
      BY <2>2, <2>6 DEF Stays, Now, Targets
    <3>2. TypeOK'
      BY <1>0, <2>1, <2>2, <2>3, <2>4, <2>6 DEF TypeOK, Stays
    <3>3. Situated'
      BY <1>0, <2>1, <2>2, <2>6, <3>1 DEF TypeInv, Situated, Stays
    <3> QED
      BY <3>2, <3>3 DEF TypeInv
  <2> QED
    BY <1>10, <2>5, <2>6 DEF Hear
<1>11. CASE NobodyToHear
  <2>1. Moved
    BY <1>11, FailsMoves DEF NobodyToHear, Outcomes
  <2> QED
    BY <1>0, <1>11, <2>1, MovedTyped DEF NobodyToHear
<1>12. CASE Expire
  <2>1. Moved
    BY <1>12, FailsMoves, PassEndsMoves DEF Expire, Outcomes
  <2> QED
    BY <1>0, <1>12, <2>1, MovedTyped DEF Expire
<1>13. ASSUME NEW m \in Arriving, Arrive(m) PROVE TypeInv'
  <2>1. /\ UNCHANGED <<script, at, outcome, pass, step, next, frame, pending, variables,
                       outside, examined, posted>>
        /\ Now' = Now /\ Targets' = Targets
    BY <1>13 DEF Arrive, Now, Targets
  <2>2. /\ arrivals' \in Seq(Heard) /\ arrivals' \in Seq(Arriving)
        /\ Len(arrivals') = Len(arrivals) + 1
    BY <1>0, <1>13, FrameIs, AppendProperties DEF Arrive
  <2>3. /\ received' \in Seq(Heard) /\ received' \in Seq(Arriving)
        /\ Len(received') <= HeardCapacity /\ lagged' \in BOOLEAN
    <3> DEFINE longer == Append(received, m)
    <3>1. /\ longer \in Seq(Heard) /\ longer \in Seq(Arriving) /\ longer # <<>>
          /\ Len(longer) = Len(received) + 1 /\ Len(received) \in Nat
      BY <1>0, FrameIs, AppendProperties, LenProperties
    <3> HIDE DEF longer
    <3>2. CASE Len(received) < HeardCapacity /\ received' = longer /\ UNCHANGED lagged
      BY <1>0, <3>1, <3>2, Constants
    <3>3. CASE Len(received) = HeardCapacity /\ received' = Tail(longer) /\ lagged' = TRUE
      BY <1>0, <3>1, <3>3, Constants, HeadTailProperties
    <3> QED
      BY <1>13, <3>2, <3>3 DEF Arrive, longer
  <2>4. examined' \in 0 .. Len(arrivals')
    BY <1>0, <2>1, <2>2, LenProperties
  <2>5. TypeOK'
    BY <1>0, <2>1, <2>2, <2>3, <2>4 DEF TypeOK
  <2>6. Situated'
    BY <2>1, <2>2, <2>3 DEF TypeInv, Situated
  <2> QED
    BY <2>5, <2>6 DEF TypeInv
<1>14. ASSUME NEW s \in Settings, SetValue(s) PROVE TypeInv'
  <2>1. /\ UNCHANGED <<script, at, outcome, pass, step, next, frame, pending, variables,
                       received, gone, history>>
        /\ Now' = Now /\ Targets' = Targets /\ s.step \in DOMAIN script.steps
        /\ overrides' = [overrides EXCEPT ![s.step][s.field] = s.value]
    BY <1>14 DEF SetValue, Now, Targets
  <2>2. s.field \in Fields /\ s.value \in Values
    BY RunnerAssumption DEF Setting
  <2>3. [overrides[s.step] EXCEPT ![s.field] = s.value] \in Optional(Values)
    BY <1>0, <2>1, <2>2 DEF Optional
  <2>4. overrides' \in [DOMAIN script.steps -> Optional(Values)]
    BY <1>0, <2>1, <2>3
  <2>5. TypeOK'
    BY <1>0, <2>1, <2>4 DEF TypeOK
  <2>6. Situated'
    BY <2>1 DEF TypeInv, Situated
  <2> QED
    BY <2>5, <2>6 DEF TypeInv
<1>15. CASE EngineStops
  <2>1. /\ UNCHANGED <<script, at, outcome, pass, step, next, frame, pending, variables,
                       received, overrides, history>>
        /\ Now' = Now /\ Targets' = Targets /\ gone' \in BOOLEAN
    BY <1>15 DEF EngineStops, Now, Targets
  <2>2. TypeOK'
    BY <1>0, <2>1 DEF TypeOK
  <2>3. Situated'
    BY <2>1 DEF TypeInv, Situated
  <2> QED
    BY <2>2, <2>3 DEF TypeInv
<1>16. CASE Abort
  <2>1. Moved
    BY <1>16, FailsMoves DEF Abort, Outcomes
  <2> QED
    BY <1>0, <1>16, <2>1, MovedTyped DEF Abort
<1>17. CASE UNCHANGED vars
  <2>1. Now' = Now /\ Targets' = Targets
    BY <1>17 DEF vars, Now, Targets
  <2>2. TypeOK'
    BY <1>0, <1>17, <2>1 DEF vars, TypeOK
  <2>3. Situated'
    BY <1>17, <2>1 DEF vars, TypeInv, Situated
  <2> QED
    BY <2>2, <2>3 DEF TypeInv
<1> QED
  BY <1>1, <1>2, <1>3, <1>4, <1>5, <1>6, <1>7, <1>8, <1>9, <1>10, <1>11, <1>12, <1>13, <1>14,
     <1>15, <1>16, <1>17 DEF Next, Run, World, Over

-----------------------------------------------------------------------------
(* The subscription. *)

LEMMA InitMissed == Init => NothingMissed
<1> SUFFICES ASSUME Init PROVE NothingMissed
  OBVIOUS
<1>1. arrivals = <<>> /\ received = <<>> /\ examined = 0
  BY DEF Init
<1>2. Len(<<>>) = 0 /\ SubSeq(<<>>, 1, 0) = <<>>
  BY SubSeqEmpty, EmptySeq
<1> QED
  BY <1>1, <1>2 DEF NothingMissed

(* A frame taken, and a frame heard, with and without room for it.         *)
LEMMA SuffixTaken ==
  ASSUME NEW S, NEW heard \in Seq(S), NEW n \in 0 .. Len(heard) - 1
  PROVE  /\ Head(SubSeq(heard, n + 1, Len(heard))) = heard[n + 1]
         /\ Tail(SubSeq(heard, n + 1, Len(heard))) = SubSeq(heard, n + 2, Len(heard))
BY HeadTailOfSubSeq, LenProperties

LEMMA SuffixGrown ==
  ASSUME NEW S, NEW heard \in Seq(S), NEW n \in 0 .. Len(heard), NEW m \in S
  PROVE  Append(SubSeq(heard, n + 1, Len(heard)), m)
           = SubSeq(Append(heard, m), n + 1, Len(heard) + 1)
<1> DEFINE longer == Append(heard, m)
<1>1. /\ longer \in Seq(S) /\ Len(longer) = Len(heard) + 1 /\ Len(heard) \in Nat
      /\ \A i \in 1 .. Len(heard) : longer[i] = heard[i]
      /\ longer[Len(heard) + 1] = m
  BY AppendProperties, LenProperties
<1> HIDE DEF longer
<1> DEFINE before == SubSeq(heard, n + 1, Len(heard))
           after == SubSeq(longer, n + 1, Len(heard) + 1)
<1>2. /\ before \in Seq(S) /\ Len(before) = Len(heard) - n
      /\ \A i \in 1 .. Len(heard) - n : before[i] = heard[n + i]
  BY <1>1, SubSeqProperties, LenProperties
<1>3. /\ after \in Seq(S) /\ Len(after) = Len(heard) + 1 - n
      /\ \A i \in 1 .. Len(heard) + 1 - n : after[i] = longer[n + i]
  BY <1>1, SubSeqProperties
<1> HIDE DEF before, after
<1> DEFINE grown == Append(before, m)
<1>4. /\ grown \in Seq(S) /\ Len(grown) = Len(heard) - n + 1
      /\ \A i \in 1 .. Len(heard) - n : grown[i] = before[i]
      /\ grown[Len(heard) - n + 1] = m
  BY <1>1, <1>2, AppendProperties
<1> HIDE DEF grown
<1>5. \A i \in 1 .. Len(heard) + 1 - n : grown[i] = after[i]
  <2> SUFFICES ASSUME NEW i \in 1 .. Len(heard) + 1 - n PROVE grown[i] = after[i]
    OBVIOUS
  <2>1. CASE i \in 1 .. Len(heard) - n
    <3>1. n + i \in 1 .. Len(heard)
      BY <1>1, <2>1
    <3>2. after[i] = longer[n + i]
      BY <1>3
    <3>3. longer[n + i] = heard[n + i]
      BY <1>1, <3>1
    <3>4. heard[n + i] = before[i] /\ before[i] = grown[i]
      BY <1>2, <1>4, <2>1
    <3> QED
      BY <3>2, <3>3, <3>4
  <2>2. CASE i = Len(heard) + 1 - n
    <3>1. n + i = Len(heard) + 1 /\ i = Len(heard) - n + 1
      BY <1>1, <2>2
    <3>2. after[i] = longer[n + i]
      BY <1>3
    <3> QED
      BY <1>1, <1>4, <3>1, <3>2
  <2> QED
    BY <1>1, <2>1, <2>2
<1>6. grown = after
  <2>1. Len(grown) = Len(after)
    BY <1>1, <1>3, <1>4
  <2>2. \A i \in 1 .. Len(grown) : grown[i] = after[i]
    BY <1>1, <1>4, <1>5
  <2> QED
    BY <1>3, <1>4, <2>1, <2>2, SeqEqual
<1> QED
  BY <1>6 DEF before, after, longer, grown

LEMMA StepMissed == TypeInv /\ NothingMissed /\ [Next]_vars => NothingMissed'
<1> SUFFICES ASSUME TypeInv, NothingMissed, [Next]_vars PROVE NothingMissed'
  OBVIOUS
<1> USE DEF outside, history
<1> DEFINE Rest(heard, n) == SubSeq(heard, n + 1, Len(heard))
           looked == Len(arrivals) - Len(received)
<1>0. /\ arrivals \in Seq(Heard) /\ received \in Seq(Heard)
      /\ Len(arrivals) \in Nat /\ Len(received) \in Nat
      /\ looked \in 0 .. Len(arrivals) /\ examined \in 0 .. looked
      /\ ~lagged => examined = looked
  BY LenProperties DEF TypeInv, TypeOK, NothingMissed
<1>a. received = Rest(arrivals, looked)
  BY DEF NothingMissed
<1>b. ASSUME Len(arrivals') - Len(received') \in Nat,
             received' = Rest(arrivals', Len(arrivals') - Len(received')),
             examined' <= Len(arrivals') - Len(received'),
             ~lagged' => examined' = Len(arrivals') - Len(received')
      PROVE  NothingMissed'
  BY <1>b DEF NothingMissed
<1>c. ASSUME NEW heard \in Seq(Heard), NEW n \in 0 .. Len(heard) - 1
      PROVE  Tail(Rest(heard, n)) = Rest(heard, n + 1)
  <2>1. Tail(Rest(heard, n)) = SubSeq(heard, n + 2, Len(heard)) /\ n + 2 = (n + 1) + 1
    BY SuffixTaken
  <2> QED
    BY <2>1
<1>d. ASSUME NEW heard \in Seq(Heard), NEW n \in 0 .. Len(heard), NEW m \in Heard
      PROVE  Append(Rest(heard, n), m) = Rest(Append(heard, m), n)
  <2>1. Len(Append(heard, m)) = Len(heard) + 1
    BY AppendProperties
  <2> QED
    BY <2>1, SuffixGrown
<1> HIDE DEF Rest
<1>1. CASE UNCHANGED <<arrivals, received, examined, lagged>>
  BY <1>0, <1>a, <1>b, <1>1
<1>2. CASE PassStarts
  <2>1. arrivals' = <<>> /\ received' = <<>> /\ examined' = 0
    BY <1>2 DEF PassStarts, Resubscribed
  <2>2. Len(<<>>) = 0 /\ SubSeq(<<>>, 1, 0) = <<>>
    BY SubSeqEmpty, EmptySeq
  <2> QED
    BY <2>1, <2>2 DEF NothingMissed
<1>3. CASE Hear
  <2>1. /\ received # <<>> /\ received' = Tail(received) /\ examined' = examined + 1
        /\ UNCHANGED <<arrivals, lagged>>
    BY <1>3 DEF Hear
  <2>2. Len(received') = Len(received) - 1 /\ Len(received) > 0
    BY <1>0, <2>1, TakenTyped
  <2>3. Len(arrivals') - Len(received') = looked + 1 /\ looked \in 0 .. Len(arrivals) - 1
    BY <1>0, <2>1, <2>2
  <2> HIDE DEF looked
  <2>4. received' = Rest(arrivals', looked + 1)
    BY <1>0, <1>a, <1>c, <2>1, <2>3
  <2>5. Len(arrivals') - Len(received') \in Nat /\ examined' <= Len(arrivals') - Len(received')
    BY <1>0, <2>1, <2>3
  <2>6. ~lagged' => examined' = Len(arrivals') - Len(received')
    BY <1>0, <2>1, <2>3
  <2>7. received' = Rest(arrivals', Len(arrivals') - Len(received'))
    BY <2>3, <2>4
  <2> QED
    BY <1>b, <2>5, <2>6, <2>7
<1>4. ASSUME NEW m \in Arriving, Arrive(m) PROVE NothingMissed'
  <2>1. arrivals' = Append(arrivals, m) /\ UNCHANGED examined /\ m \in Heard
    BY <1>4, FrameIs DEF Arrive
  <2>2. /\ Len(arrivals') = Len(arrivals) + 1
        /\ arrivals' \in Seq(Heard)
    BY <1>0, <2>1, AppendProperties
  <2> DEFINE longer == Append(received, m)
  <2>3. longer = Rest(arrivals', looked)
    BY <1>0, <1>a, <1>d, <2>1
  <2>4. Len(longer) = Len(received) + 1 /\ longer \in Seq(Heard) /\ longer # <<>>
    BY <1>0, <2>1, AppendProperties
  <2>5. \/ received' = longer /\ UNCHANGED lagged
        \/ received' = Tail(longer) /\ lagged' = TRUE
    BY <1>4 DEF Arrive
  <2> HIDE DEF longer
  <2>6. CASE received' = longer /\ UNCHANGED lagged
    <3>1. Len(received') = Len(received) + 1
      BY <2>4, <2>6
    <3>2. Len(arrivals') - Len(received') = looked
      BY <1>0, <2>2, <3>1
    <3> HIDE DEF looked
    <3>3. received' = Rest(arrivals', Len(arrivals') - Len(received'))
      BY <2>3, <2>6, <3>2
    <3>4. Len(arrivals') - Len(received') \in Nat /\ examined' <= Len(arrivals') - Len(received')
      BY <1>0, <2>1, <3>2
    <3>5. ~lagged' => examined' = Len(arrivals') - Len(received')
      BY <1>0, <2>1, <2>6, <3>2
    <3> QED
      BY <1>b, <3>3, <3>4, <3>5
  <2>7. CASE received' = Tail(longer) /\ lagged' = TRUE
    <3>1. Len(received') = Len(longer) - 1
      BY <2>4, <2>7, HeadTailProperties
    <3>2. Len(arrivals') - Len(received') = looked + 1 /\ looked \in 0 .. Len(arrivals') - 1
      BY <1>0, <2>2, <2>4, <3>1
    <3> HIDE DEF looked
    <3>3. received' = Rest(arrivals', looked + 1)
      BY <1>c, <2>2, <2>3, <2>7, <3>2
    <3>4. Len(arrivals') - Len(received') \in Nat /\ examined' <= Len(arrivals') - Len(received')
      BY <1>0, <2>1, <3>2
    <3>5. received' = Rest(arrivals', Len(arrivals') - Len(received'))
      BY <3>2, <3>3
    <3> QED
      BY <1>b, <2>7, <3>4, <3>5
  <2> QED
    BY <2>5, <2>6, <2>7
<1>5. CASE PassesOver \/ Announced \/ Slept \/ Encode \/ SendRaw
  BY <1>1, <1>5 DEF PassesOver, Announced, Slept, Encode, SendRaw
<1>6. CASE PostSend \/ NowhereToSend \/ Resolve \/ NobodyToHear \/ Expire
  BY <1>1, <1>6 DEF PostSend, NowhereToSend, Resolve, NobodyToHear, Expire
<1>7. CASE (\E s \in Settings : SetValue(s)) \/ EngineStops \/ Abort \/ UNCHANGED vars
  BY <1>1, <1>7 DEF SetValue, EngineStops, Abort, vars
<1> QED
  BY <1>2, <1>3, <1>4, <1>5, <1>6, <1>7 DEF Next, Run, World, Over

-----------------------------------------------------------------------------
(* The count of passes. *)

LEMMA InitPasses == Init => PassesLeft
<1> SUFFICES ASSUME Init PROVE PassesLeft
  OBVIOUS
<1>1. script.times \in Nat \cup {None}
  BY ScriptIs DEF Init
<1>2. pass = 0 /\ at = "tick" /\ outcome = "running"
  BY DEF Init
<1> QED
  BY <1>1, <1>2 DEF PassesLeft, Busy

LEMMA PassEndsLeft ==
  ASSUME TypeInv, PassesLeft, at \in Busy, UNCHANGED script, PassEnds
  PROVE  PassesLeft'
<1>1. script.times \in Nat \cup {None} /\ pass \in Nat
  BY ScriptIs, Constants DEF TypeInv, TypeOK
<1>2. CASE ~script.repeats /\ End("completed") /\ UNCHANGED <<pass, step>>
  BY <1>2 DEF PassesLeft, End
<1>3. CASE script.repeats /\ at' = "tick" /\ pass' = PassAfter(pass) /\ UNCHANGED <<outcome, step>>
  <2>1. outcome' = "running"
    BY <1>3 DEF TypeInv, Situated, Busy
  <2>2. script.times # None => pass' <= script.times
    BY <1>1, <1>3, Constants DEF PassesLeft, PassAfter
  <2> QED
    BY <1>3, <2>1, <2>2 DEF PassesLeft, Busy
<1> QED
  BY <1>2, <1>3 DEF PassEnds

LEMMA StepEndsLeft ==
  ASSUME TypeInv, PassesLeft, at \in Busy, UNCHANGED script, StepEnds
  PROVE  PassesLeft'
<1>1. CASE PassEnds
  BY <1>1, PassEndsLeft
<1>2. CASE at' = "announce" /\ UNCHANGED <<outcome, pass>>
  BY <1>2 DEF PassesLeft, Busy, TypeInv, Situated
<1> QED
  BY <1>1, <1>2 DEF StepEnds

LEMMA FailsLeft ==
  ASSUME PassesLeft, UNCHANGED script, NEW why \in Outcomes \ {"completed"}, Fails(why)
  PROVE  PassesLeft'
BY DEF PassesLeft, Fails, End, Busy

LEMMA StepPasses == TypeInv /\ PassesLeft /\ [Next]_vars => PassesLeft'
<1> SUFFICES ASSUME TypeInv, PassesLeft, [Next]_vars PROVE PassesLeft'
  OBVIOUS
<1> USE DEF outside, history
<1>0. /\ script.times \in Nat \cup {None} /\ pass \in Nat
      /\ outcome = "running" <=> at # "over"
  BY ScriptIs, Constants DEF TypeInv, TypeOK, Situated
<1>1. CASE PassesOver
  <2>1. /\ script.repeats /\ script.times # None /\ pass >= script.times /\ at = "tick"
        /\ at' = "over" /\ outcome' = "completed" /\ UNCHANGED <<script, pass>>
    BY <1>1 DEF PassesOver, AllPassesRun, Fails, End
  <2>2. pass = script.times
    BY <1>0, <2>1 DEF PassesLeft
  <2> QED
    BY <2>1, <2>2 DEF PassesLeft, Busy
<1>2. CASE PassStarts
  <2>1. /\ at = "tick" /\ at' = "announce" /\ UNCHANGED <<script, outcome, pass>> /\ ~AllPassesRun
    BY <1>2 DEF PassStarts
  <2>2. script.repeats /\ script.times # None => pass < script.times
    BY <1>0, <2>1 DEF AllPassesRun
  <2>3. outcome' # "completed"
    BY <1>0, <2>1
  <2> QED
    BY <2>1, <2>2, <2>3 DEF PassesLeft, Busy
<1>3. ASSUME UNCHANGED <<script, outcome, pass>>, at \in Busy, at' \in Busy PROVE PassesLeft'
  BY <1>0, <1>3 DEF PassesLeft, Busy
<1>4. ASSUME UNCHANGED <<script, at, outcome, pass>> PROVE PassesLeft'
  BY <1>4 DEF PassesLeft
<1>5. CASE Announced
  BY <1>3, <1>5 DEF Announced, Busy
<1>6. CASE Slept
  BY <1>6, StepEndsLeft DEF Slept, Busy
<1>7. CASE Encode
  <2>1. UNCHANGED script /\ at \in Busy
    BY <1>7 DEF Encode, Busy
  <2>2. \/ at' = "posting" /\ UNCHANGED <<outcome, pass>>
        \/ Fails("unset") \/ Fails("unfit")
    BY <1>7 DEF Encode
  <2> QED
    BY <1>3, <2>1, <2>2, FailsLeft DEF Busy, Outcomes
<1>8. CASE SendRaw
  BY <1>3, <1>8 DEF SendRaw, Busy
<1>9. CASE PostSend
  <2>1. UNCHANGED script /\ at \in Busy
    BY <1>9 DEF PostSend, Busy
  <2>2. StepEnds \/ UNCHANGED <<at, outcome, pass>>
    BY <1>9 DEF PostSend
  <2> QED
    BY <1>4, <2>1, <2>2, StepEndsLeft
<1>10. CASE Resolve
  <2>1. UNCHANGED script /\ at \in Busy
    BY <1>10 DEF Resolve, Busy
  <2>2. \/ at' = "listening" /\ UNCHANGED <<outcome, pass>>
        \/ Fails("unset") \/ Fails("unfit")
    BY <1>10 DEF Resolve
  <2> QED
    BY <1>3, <2>1, <2>2, FailsLeft DEF Busy, Outcomes
<1>11. CASE Hear
  <2>1. UNCHANGED script /\ at \in Busy
    BY <1>11 DEF Hear, Busy
  <2>2. StepEnds \/ UNCHANGED <<at, outcome, pass>>
    BY <1>11 DEF Hear, Stays
  <2> QED
    BY <1>4, <2>1, <2>2, StepEndsLeft
<1>12. CASE Expire
  <2>1. UNCHANGED script /\ at \in Busy /\ (Fails("silent") \/ PassEnds)
    BY <1>12 DEF Expire, Busy
  <2> QED
    BY <2>1, FailsLeft, PassEndsLeft DEF Outcomes
<1>13. CASE NowhereToSend \/ NobodyToHear \/ Abort
  BY <1>13, FailsLeft DEF NowhereToSend, NobodyToHear, Abort, Outcomes
<1>14. CASE World \/ UNCHANGED vars
  <2>1. Abort \/ UNCHANGED <<script, at, outcome, pass>>
    BY <1>14 DEF World, Arrive, SetValue, EngineStops, vars
  <2> QED
    BY <1>4, <1>13, <2>1
<1> QED
  BY <1>1, <1>2, <1>5, <1>6, <1>7, <1>8, <1>9, <1>10, <1>11, <1>12, <1>13, <1>14
  DEF Next, Run, Over

-----------------------------------------------------------------------------
(* The targets of a wait. *)

LEMMA LookedAt ==
  ASSUME TypeInv, NothingMissed
  PROVE  /\ Len(arrivals) \in Nat /\ Len(received) \in Nat
         /\ Len(arrivals) - Len(received) \in 0 .. Len(arrivals)
         /\ Examined \subseteq Arriving
         /\ \A i \in 1 .. Len(arrivals) : arrivals[i] \in Arriving
<1>1. /\ Len(arrivals) \in Nat /\ Len(received) \in Nat
      /\ Len(arrivals) - Len(received) \in 0 .. Len(arrivals)
  BY LenProperties DEF TypeInv, TypeOK, NothingMissed
<1>2. \A i \in 1 .. Len(arrivals) : arrivals[i] \in Arriving
  BY <1>1, ElementOfSeq DEF TypeInv, Situated
<1> QED
  BY <1>1, <1>2 DEF Examined

(* What was looked at stays looked at as more is heard.                    *)
LEMMA ArriveExamines ==
  ASSUME TypeInv, NothingMissed, NEW m \in Arriving, Arrive(m)
  PROVE  Examined \subseteq Examined'
<1>0. /\ arrivals \in Seq(Heard) /\ received \in Seq(Heard) /\ m \in Heard
      /\ Len(arrivals) \in Nat /\ Len(received) \in Nat
      /\ Len(arrivals) - Len(received) \in 0 .. Len(arrivals)
  BY LookedAt, FrameIs DEF TypeInv, TypeOK
<1>1. /\ Len(arrivals') = Len(arrivals) + 1
      /\ \A i \in 1 .. Len(arrivals) : arrivals'[i] = arrivals[i]
  BY <1>0, AppendProperties DEF Arrive
<1>2. Len(received') \in {Len(received), Len(received) + 1}
  <2> DEFINE longer == Append(received, m)
  <2>1. longer \in Seq(Heard) /\ longer # <<>> /\ Len(longer) = Len(received) + 1
    BY <1>0, AppendProperties
  <2>2. received' = longer \/ received' = Tail(longer)
    BY DEF Arrive
  <2> HIDE DEF longer
  <2> QED
    BY <1>0, <2>1, <2>2, HeadTailProperties
<1> QED
  BY <1>0, <1>1, <1>2 DEF Examined

LEMMA HearExamines ==
  ASSUME TypeInv, NothingMissed, Hear
  PROVE  /\ Examined' = Examined \cup {Head(received)}
         /\ Head(received) \in Arriving
<1>0. /\ Len(arrivals) \in Nat /\ Len(received) \in Nat \ {0}
      /\ Len(received') = Len(received) - 1 /\ arrivals' = arrivals /\ received # <<>>
      /\ Head(received) \in Arriving /\ arrivals \in Seq(Heard)
  BY LookedAt, TakenTyped DEF Hear, TypeInv, TypeOK
<1> DEFINE looked == Len(arrivals) - Len(received)
<1>1. looked \in 0 .. Len(arrivals) - 1 /\ received = SubSeq(arrivals, looked + 1, Len(arrivals))
  BY <1>0 DEF NothingMissed
<1>2. Head(received) = arrivals[looked + 1]
  BY <1>0, <1>1, SuffixTaken
<1>3. Examined = {arrivals[i] : i \in 1 .. looked}
  BY DEF Examined
<1>4. Len(arrivals') - Len(received') = looked + 1
  BY <1>0
<1> HIDE DEF looked
<1>5. Examined' = {arrivals[i] : i \in 1 .. looked + 1}
  BY <1>0, <1>4 DEF Examined
<1>6. 1 .. looked + 1 = (1 .. looked) \cup {looked + 1}
  BY <1>1, <1>0
<1> QED
  BY <1>0, <1>2, <1>3, <1>5, <1>6

(* A frame that is taken strikes off only the link that answers with it.   *)
LEMMA HearAnswers ==
  ASSUME TypeInv, NothingMissed, StruckOff, Hear
  PROVE  \A link \in Targets \ pending' : \E m \in Examined' : m.link = link /\ Matches(m, frame)
<1> SUFFICES ASSUME NEW link \in Targets, link \notin pending'
             PROVE  \E m \in Examined' : m.link = link /\ Matches(m, frame)
  OBVIOUS
<1> DEFINE answer == Head(received)
<1>1. Examined' = Examined \cup {answer}
  BY HearExamines
<1>2. at = "listening" /\ pending' = IF Matches(answer, frame) THEN pending \ {answer.link} ELSE pending
  BY DEF Hear
<1> HIDE DEF answer
<1>3. CASE link \notin pending
  BY <1>1, <1>2, <1>3 DEF StruckOff
<1>4. CASE link \in pending
  <2>1. Matches(answer, frame) /\ answer.link = link
    BY <1>2, <1>4
  <2> QED
    BY <1>1, <2>1
<1> QED
  BY <1>3, <1>4

LEMMA StepStruck == TypeInv /\ NothingMissed /\ StruckOff /\ [Next]_vars => StruckOff'
<1> SUFFICES ASSUME TypeInv, NothingMissed, StruckOff, [Next]_vars, at' = "listening"
             PROVE  \A link \in Targets' \ pending' :
                      \E m \in Examined' : m.link = link /\ Matches(m, frame)'
  BY DEF StruckOff
<1> USE DEF outside, history
<1>1. CASE Resolve
  <2>1. pending' = Targets /\ UNCHANGED <<script, step>>
    BY <1>1 DEF Resolve, Fails, End, Awaited
  <2> QED
    BY <2>1 DEF Targets, Now
<1>2. CASE Hear
  <2>1. UNCHANGED <<script, step, frame>>
    BY <1>2 DEF Hear, StepEnds, PassEnds, End, Stays
  <2>2. Targets' = Targets
    BY <2>1 DEF Targets, Now
  <2>3. \A m : Matches(m, frame)' = Matches(m, frame)
    BY <2>1 DEF Matches
  <2> QED
    BY <1>2, <2>2, <2>3, HearAnswers
<1>3. ASSUME UNCHANGED <<script, at, step, frame, pending>>, Examined \subseteq Examined'
      PROVE  \A link \in Targets' \ pending' :
               \E m \in Examined' : m.link = link /\ Matches(m, frame)'
  <2>1. Targets' = Targets
    BY <1>3 DEF Targets, Now
  <2>2. \A m : Matches(m, frame)' = Matches(m, frame)
    BY <1>3 DEF Matches
  <2> QED
    BY <1>3, <2>1, <2>2 DEF StruckOff
<1>4. ASSUME NEW m \in Arriving, Arrive(m)
      PROVE  \A link \in Targets' \ pending' :
               \E n \in Examined' : n.link = link /\ Matches(n, frame)'
  BY <1>3, <1>4, ArriveExamines DEF Arrive
<1>5. CASE (\E s \in Settings : SetValue(s)) \/ EngineStops \/ UNCHANGED vars
  <2>1. UNCHANGED <<script, at, step, frame, pending, arrivals, received>>
    BY <1>5 DEF SetValue, EngineStops, vars
  <2>2. Examined' = Examined
    BY <2>1 DEF Examined
  <2> QED
    BY <1>3, <2>1, <2>2
<1>6. ~PassesOver /\ ~PassStarts /\ ~Announced /\ ~Slept /\ ~Abort
  BY DEF PassesOver, PassStarts, Announced, Slept, StepEnds, PassEnds, Fails, End, Abort
<1>7. ~Encode /\ ~SendRaw /\ ~PostSend /\ ~NowhereToSend
  BY DEF Encode, SendRaw, PostSend, NowhereToSend, StepEnds, PassEnds, Fails, End
<1>8. ~NobodyToHear /\ ~Expire
  BY DEF NobodyToHear, Expire, PassEnds, Fails, End
<1> QED
  BY <1>1, <1>2, <1>4, <1>5, <1>6, <1>7, <1>8 DEF Next, Run, World, Over

LEMMA AnsweredThenOn ==
  ASSUME TypeInv, NothingMissed, StruckOff, [Next]_vars, at = "listening", step' = step + 1
  PROVE  \A link \in Targets : \E m \in Examined' : m.link = link /\ Matches(m, frame)
<1> USE DEF outside, history
<1>1. step \in Nat /\ step' # step
  BY NowIs DEF TypeInv
<1>2. Hear /\ pending' = {}
  <2>1. ~World /\ ~UNCHANGED vars
    BY <1>1 DEF World, Arrive, SetValue, EngineStops, Abort, Fails, vars
  <2>2. ~Expire /\ ~NobodyToHear
    BY <1>1 DEF Expire, NobodyToHear, Fails, PassEnds
  <2>3. Hear
    BY <2>1, <2>2 DEF Next, Run, Over, PassesOver, PassStarts, Announced, Slept, Encode, SendRaw,
                      PostSend, NowhereToSend, Resolve
  <2> QED
    BY <1>1, <2>3 DEF Hear, Stays
<1> QED
  BY <1>2, HearAnswers

-----------------------------------------------------------------------------
(* Where the values of the variables come from. *)

LEMMA PostIs ==
  ASSUME TypeInv, PostSend
  PROVE  /\ DOMAIN posted = 1 .. Len(posted) /\ Len(posted) \in Nat
         /\ DOMAIN posted' = 1 .. Len(posted) + 1
         /\ \A i \in 1 .. Len(posted) : posted'[i] = posted[i]
         /\ posted'[Len(posted) + 1] = [step |-> step, link |-> Now.to[next], values |-> frame]
         /\ next \in DOMAIN Now.to /\ at = "posting"
<1> DEFINE p == [step |-> step, link |-> Now.to[next], values |-> frame]
<1>1. next \in DOMAIN Now.to /\ at = "posting" /\ posted' = Append(posted, p)
  BY DEF PostSend, Carried, TypeInv, TypeOK
<1>2. p \in Post /\ posted \in Seq(Post)
  BY <1>1, NowIs DEF Post, TypeInv, TypeOK, Situated
<1> HIDE DEF p
<1>3. /\ Len(posted') = Len(posted) + 1 /\ Len(posted) \in Nat /\ posted' \in Seq(Post)
      /\ \A i \in 1 .. Len(posted) : posted'[i] = posted[i]
      /\ posted'[Len(posted) + 1] = p
  BY <1>1, <1>2, AppendProperties, LenProperties
<1>4. DOMAIN posted = 1 .. Len(posted) /\ DOMAIN posted' = 1 .. Len(posted')
  BY <1>2, <1>3, LenProperties
<1> QED
  BY <1>1, <1>3, <1>4 DEF p

LEMMA StepSourced == TypeInv /\ NothingMissed /\ VariablesSourced /\ [Next]_vars => VariablesSourced'
<1> SUFFICES ASSUME TypeInv, NothingMissed, VariablesSourced, [Next]_vars, at' \in Busy
             PROVE  \A v \in Variables : variables'[v] # None => Sourced(v)'
  BY DEF VariablesSourced
<1> USE DEF outside, history
<1>a. ASSUME at \in Busy, UNCHANGED posted, Examined \subseteq Examined',
             at # "posting" \/ (at' = "posting" /\ UNCHANGED frame),
             NEW v \in Variables, variables'[v] = variables[v]
      PROVE  variables'[v] # None => Sourced(v)'
  <2> SUFFICES ASSUME variables'[v] # None PROVE Sourced(v)'
    OBVIOUS
  <2>1. Sourced(v)
    BY <1>a DEF VariablesSourced
  <2>2. PICK f \in Fields : \/ \E m \in Examined : m.values[f] = variables[v]
                            \/ \E i \in DOMAIN posted : posted[i].values[f] = variables[v]
                            \/ at = "posting" /\ frame[f] = variables[v]
    BY <2>1 DEF Sourced
  <2>3. CASE \E m \in Examined : m.values[f] = variables[v]
    BY <1>a, <2>3 DEF Sourced
  <2>4. CASE \E i \in DOMAIN posted : posted[i].values[f] = variables[v]
    BY <1>a, <2>4 DEF Sourced
  <2>5. CASE at = "posting" /\ frame[f] = variables[v]
    BY <1>a, <2>5 DEF Sourced
  <2> QED
    BY <2>2, <2>3, <2>4, <2>5
<1>b. ASSUME UNCHANGED <<arrivals, received>> PROVE Examined' = Examined
  BY <1>b DEF Examined
<1>1. CASE PassStarts
  BY <1>1 DEF PassStarts, Forgotten, Nothing
<1>2. CASE Announced \/ Slept \/ SendRaw \/ Resolve
  <2>1. /\ UNCHANGED <<variables, arrivals, received, posted>>
        /\ at \in Busy /\ at # "posting"
    BY <1>2 DEF Announced, Slept, SendRaw, Resolve, Busy
  <2> QED
    BY <1>a, <1>b, <2>1
<1>3. CASE Encode
  <2>1. /\ at = "act" /\ at' = "posting" /\ frame' = Encoded /\ ~Unset /\ Now.do = "send"
        /\ variables' = Remember(Now.keep, Encoded)
        /\ UNCHANGED <<arrivals, received, posted>>
    BY <1>3 DEF Encode, Fails, End, Busy
  <2>2. Encoded \in [Fields -> Values]
    BY <2>1, EncodedTyped DEF TypeInv
  <2> SUFFICES ASSUME NEW v \in Variables, variables'[v] # None PROVE Sourced(v)'
    OBVIOUS
  <2>3. CASE variables'[v] = variables[v]
    BY <1>a, <1>b, <2>1, <2>3 DEF Busy
  <2>4. CASE \E f \in Fields : variables'[v] = Encoded[f]
    BY <2>1, <2>4 DEF Sourced
  <2> QED
    BY <2>1, <2>2, <2>3, <2>4, Remembered DEF TypeInv
<1>4. CASE PostSend
  <2>1. UNCHANGED <<variables, frame, arrivals, received>> /\ at \in Busy
    BY <1>4 DEF PostSend, Busy
  <2> SUFFICES ASSUME NEW v \in Variables, variables'[v] # None PROVE Sourced(v)'
    OBVIOUS
  <2>2. PICK f \in Fields : \/ \E m \in Examined : m.values[f] = variables[v]
                            \/ \E i \in DOMAIN posted : posted[i].values[f] = variables[v]
                            \/ at = "posting" /\ frame[f] = variables[v]
    BY <2>1 DEF VariablesSourced, Sourced
  <2>3. CASE \E m \in Examined : m.values[f] = variables[v]
    BY <1>b, <2>1, <2>3 DEF Sourced
  <2>4. CASE \E i \in DOMAIN posted : posted[i].values[f] = variables[v]
    <3>1. PICK i \in 1 .. Len(posted) : posted[i].values[f] = variables[v]
      BY <1>4, <2>4, PostIs
    <3>2. i \in DOMAIN posted' /\ posted'[i].values[f] = variables'[v]
      BY <1>4, <2>1, <3>1, PostIs
    <3> QED
      BY <3>2 DEF Sourced
  <2>5. CASE frame[f] = variables[v]
    <3>1. Len(posted) + 1 \in DOMAIN posted'
      BY <1>4, PostIs
    <3>2. posted'[Len(posted) + 1].values[f] = variables'[v]
      BY <1>4, <2>1, <2>5, PostIs
    <3> QED
      BY <3>1, <3>2 DEF Sourced
  <2> QED
    BY <2>2, <2>3, <2>4, <2>5
<1>5. CASE Hear
  <2> DEFINE m == Head(received)
  <2>1. /\ Examined' = Examined \cup {m} /\ m.values \in [Fields -> Values]
    BY <1>5, HearExamines, FrameIs
  <2>2. /\ at = "listening" /\ UNCHANGED posted
        /\ variables' \in {variables, Remember(Now.keep, m.values)}
    BY <1>5 DEF Hear
  <2> HIDE DEF m
  <2> SUFFICES ASSUME NEW v \in Variables, variables'[v] # None PROVE Sourced(v)'
    OBVIOUS
  <2>3. CASE variables'[v] = variables[v]
    BY <1>a, <2>1, <2>2, <2>3 DEF Busy
  <2>4. CASE \E f \in Fields : variables'[v] = m.values[f]
    BY <2>1, <2>4 DEF Sourced
  <2> QED
    BY <2>1, <2>2, <2>3, <2>4, Remembered DEF TypeInv
<1>6. ASSUME NEW m \in Arriving, Arrive(m)
      PROVE  \A v \in Variables : variables'[v] # None => Sourced(v)'
  <2>1. UNCHANGED <<at, frame, variables, posted>>
    BY <1>6 DEF Arrive
  <2> QED
    BY <1>a, <1>6, <2>1, ArriveExamines
<1>7. CASE (\E s \in Settings : SetValue(s)) \/ EngineStops \/ UNCHANGED vars
  <2>1. UNCHANGED <<at, frame, variables, posted, arrivals, received>>
    BY <1>7 DEF SetValue, EngineStops, vars
  <2> QED
    BY <1>a, <1>b, <2>1
<1>8. ~PassesOver /\ ~NowhereToSend /\ ~NobodyToHear /\ ~Abort /\ ~Expire
  BY DEF PassesOver, NowhereToSend, NobodyToHear, Abort, Expire, PassEnds, Fails, End, Busy
<1> QED
  BY <1>1, <1>2, <1>3, <1>4, <1>5, <1>6, <1>7, <1>8 DEF Next, Run, World, Over

-----------------------------------------------------------------------------
(* The sends of a pass. *)

PostsIn(sent, i) == {p \in DOMAIN sent : sent[p].step = i}
TurnIn(sent, p) == Cardinality({q \in 1 .. p : sent[q].step = sent[p].step})

LEMMA PostedTyped ==
  ASSUME TypeInv, NEW p \in DOMAIN posted PROVE posted[p] \in Post /\ posted[p].step \in Nat
<1>1. posted \in Seq(Post)
  BY DEF TypeInv, TypeOK
<1>2. p \in 1 .. Len(posted)
  BY <1>1, LenProperties
<1>3. posted[p] \in Post
  BY <1>1, <1>2, ElementOfSeq
<1> QED
  BY <1>3 DEF Post

LEMMA PostsFinite ==
  ASSUME TypeInv, NEW i
  PROVE  /\ IsFiniteSet(PostsOf(i)) /\ PostsOf(i) \subseteq 1 .. Len(posted)
         /\ Cardinality(PostsOf(i)) = 0 <=> PostsOf(i) = {}
         /\ Cardinality(PostsOf(i)) \in Nat
<1>1. DOMAIN posted = 1 .. Len(posted) /\ Len(posted) \in Nat
  BY LenProperties DEF TypeInv, TypeOK
<1>2. PostsOf(i) \subseteq 1 .. Len(posted)
  BY <1>1 DEF PostsOf
<1>3. IsFiniteSet(1 .. Len(posted))
  BY <1>1, FS_Interval
<1>4. IsFiniteSet(PostsOf(i))
  BY <1>2, <1>3, FS_Subset
<1> QED
  BY <1>2, <1>4, FS_EmptySet, FS_CardinalityType

LEMMA PostedMore ==
  ASSUME TypeInv, PostSend
  PROVE  /\ \A i : i # step => PostsIn(posted', i) = PostsIn(posted, i)
         /\ PostsIn(posted', step) = PostsIn(posted, step) \cup {Len(posted) + 1}
         /\ Cardinality(PostsIn(posted', step)) = Cardinality(PostsIn(posted, step)) + 1
         /\ \A p \in 1 .. Len(posted) : TurnIn(posted', p) = TurnIn(posted, p)
         /\ TurnIn(posted', Len(posted) + 1) = Cardinality(PostsIn(posted', step))
<1> DEFINE n == Len(posted)
<1>1. /\ n \in Nat /\ DOMAIN posted = 1 .. n /\ DOMAIN posted' = 1 .. n + 1
      /\ \A i \in 1 .. n : posted'[i] = posted[i]
      /\ posted'[n + 1].step = step
  BY PostIs
<1> HIDE DEF n
<1>2. 1 .. n + 1 = (1 .. n) \cup {n + 1} /\ n + 1 \notin 1 .. n
  BY <1>1
<1>3. \A i : i # step => PostsIn(posted', i) = PostsIn(posted, i)
  BY <1>1, <1>2 DEF PostsIn
<1>4. PostsIn(posted', step) = PostsIn(posted, step) \cup {n + 1}
  BY <1>1, <1>2 DEF PostsIn
<1>5. Cardinality(PostsIn(posted', step)) = Cardinality(PostsIn(posted, step)) + 1
  <2>1. PostsIn(posted, step) = PostsOf(step)
    BY DEF PostsIn, PostsOf
  <2>2. IsFiniteSet(PostsIn(posted, step))
    BY <2>1, PostsFinite
  <2>3. n + 1 \notin PostsIn(posted, step)
    BY <1>1, <1>2 DEF PostsIn
  <2> QED
    BY <1>4, <2>2, <2>3, FS_AddElement
<1>6. ASSUME NEW p \in 1 .. n PROVE TurnIn(posted', p) = TurnIn(posted, p)
  <2>1. \A q \in 1 .. p : q \in 1 .. n
    BY <1>1
  <2>2. {q \in 1 .. p : posted'[q].step = posted'[p].step}
          = {q \in 1 .. p : posted[q].step = posted[p].step}
    BY <1>1, <2>1
  <2> QED
    BY <2>2 DEF TurnIn
<1>7. TurnIn(posted', n + 1) = Cardinality(PostsIn(posted', step))
  <2>1. {q \in 1 .. n + 1 : posted'[q].step = posted'[n + 1].step} = PostsIn(posted', step)
    BY <1>1 DEF PostsIn
  <2> QED
    BY <2>1 DEF TurnIn
<1> QED
  BY <1>3, <1>4, <1>5, <1>6, <1>7 DEF n

LEMMA InitPosts == Init => PostInv
<1> SUFFICES ASSUME Init PROVE PostInv
  OBVIOUS
<1>1. posted = <<>> /\ at = "tick"
  BY DEF Init
<1>2. DOMAIN posted = {}
  BY <1>1
<1> QED
  BY <1>1, <1>2 DEF PostInv, SameBytesToAll, PostedSoFar, Busy

(* What stays as it was while nothing is posted.                           *)
LEMMA SameBytesStay ==
  ASSUME SameBytesToAll, UNCHANGED <<script, posted>> PROVE SameBytesToAll'
BY DEF SameBytesToAll, Turn, PostsOf

LEMMA PostedStays ==
  ASSUME TypeInv, PostInv, UNCHANGED <<script, posted, step>>, at \in Busy,
         \/ at # "posting" /\ at' # "posting"
         \/ at # "posting" /\ at' = "posting" /\ next' = 1
         \/ UNCHANGED <<at, next, frame>>
  PROVE  PostInv'
<1>1. SameBytesToAll'
  BY SameBytesStay DEF PostInv
<1>2. /\ \A p \in DOMAIN posted : posted[p].step <= step
      /\ \A i \in 1 .. step - 1 :
           Sends(script.steps[i]) => Cardinality(PostsOf(i)) = Len(script.steps[i].to)
      /\ Cardinality(PostsOf(step)) = IF at = "posting" THEN next - 1 ELSE 0
      /\ at = "posting" => \A p \in PostsOf(step) : posted[p].values = frame
  BY DEF PostInv, PostedSoFar
<1>3. PostsOf(step)' = PostsOf(step) /\ \A i : PostsOf(i)' = PostsOf(i)
  BY DEF PostsOf
<1>4. Cardinality(PostsOf(step)') = IF at' = "posting" THEN next' - 1 ELSE 0
  BY <1>2, <1>3
<1>5. at' = "posting" => \A p \in PostsOf(step)' : posted'[p].values = frame'
  BY <1>2, <1>3, PostsFinite
<1> QED
  BY <1>1, <1>2, <1>3, <1>4, <1>5 DEF PostInv, PostedSoFar

LEMMA NothingAhead ==
  ASSUME TypeInv, \A p \in DOMAIN posted : posted[p].step <= step
  PROVE  PostsOf(step + 1) = {}
<1>1. step \in Nat
  BY NowIs DEF TypeInv
<1>2. \A p \in DOMAIN posted : posted[p].step # step + 1
  <2>1. \A p \in DOMAIN posted : posted[p].step \in Nat
    BY PostedTyped
  <2> QED
    BY <1>1, <2>1
<1> QED
  BY <1>2 DEF PostsOf

(* A step that sends nothing is over.                                      *)
LEMMA PostedOnward ==
  ASSUME TypeInv, PostInv, UNCHANGED <<script, posted>>, at \in Busy, ~Sends(Now),
         at' = "announce", step' = step + 1
  PROVE  PostInv'
<1>1. SameBytesToAll'
  BY SameBytesStay DEF PostInv
<1>2. /\ \A p \in DOMAIN posted : posted[p].step <= step
      /\ \A i \in 1 .. step - 1 :
           Sends(script.steps[i]) => Cardinality(PostsOf(i)) = Len(script.steps[i].to)
      /\ step \in Nat
  BY NowIs DEF TypeInv, PostInv, PostedSoFar
<1>3. \A p \in DOMAIN posted : posted[p].step \in Nat
  BY PostedTyped
<1>4. \A i : PostsOf(i)' = PostsOf(i)
  BY DEF PostsOf
<1>5. PostsOf(step)' = {}
  <2>1. PostsOf(step)' = PostsOf(step + 1)
    BY DEF PostsOf
  <2> QED
    BY <1>2, <2>1, NothingAhead
<1>6. ASSUME NEW i \in 1 .. step' - 1, Sends(script'.steps[i])
      PROVE  Cardinality(PostsOf(i)') = Len(script'.steps[i].to)
  <2>1. i # step
    BY <1>6 DEF Now
  <2> QED
    BY <1>2, <1>4, <1>6, <2>1
<1>7. \A p \in DOMAIN posted' : posted'[p].step <= step'
  BY <1>2, <1>3
<1> QED
  BY <1>1, <1>5, <1>6, <1>7, FS_EmptySet DEF PostInv, PostedSoFar

LEMMA PostedAtRest ==
  ASSUME PostInv, UNCHANGED <<script, posted>>, at' \notin Busy PROVE PostInv'
BY SameBytesStay DEF PostInv, PostedSoFar

(* One more target is served: it is its turn, and it gets the same frame.  *)
LEMMA PostKeepsBytes == ASSUME TypeInv, PostInv, PostSend PROVE SameBytesToAll'
<1> DEFINE n == Len(posted)
<1>1. /\ n \in Nat /\ DOMAIN posted = 1 .. n /\ DOMAIN posted' = 1 .. n + 1
      /\ \A i \in 1 .. n : posted'[i] = posted[i]
      /\ posted'[n + 1] = [step |-> step, link |-> Now.to[next], values |-> frame]
      /\ next \in DOMAIN Now.to /\ at = "posting" /\ next \in Nat
  BY PostIs, NowIs DEF TypeInv, TypeOK
<1>2. /\ \A i : i # step => PostsIn(posted', i) = PostsIn(posted, i)
      /\ PostsIn(posted', step) = PostsIn(posted, step) \cup {n + 1}
      /\ Cardinality(PostsIn(posted', step)) = Cardinality(PostsIn(posted, step)) + 1
      /\ \A p \in 1 .. n : TurnIn(posted', p) = TurnIn(posted, p)
      /\ TurnIn(posted', n + 1) = Cardinality(PostsIn(posted', step))
  BY PostedMore
<1> HIDE DEF n
<1>3. /\ Cardinality(PostsIn(posted, step)) = next - 1
      /\ \A p \in PostsIn(posted, step) : posted[p].values = frame
  BY <1>1 DEF PostInv, PostedSoFar, PostsOf, PostsIn, Busy
<1>4. \A p \in 1 .. n :
        /\ TurnIn(posted, p) \in DOMAIN script.steps[posted[p].step].to
        /\ posted[p].link = script.steps[posted[p].step].to[TurnIn(posted, p)]
        /\ \A q \in PostsIn(posted, posted[p].step) : posted[q].values = posted[p].values
  BY <1>1 DEF PostInv, SameBytesToAll, Turn, TurnIn, PostsOf, PostsIn
<1> DEFINE Kept(p) ==
      /\ TurnIn(posted', p) \in DOMAIN script.steps[posted'[p].step].to
      /\ posted'[p].link = script.steps[posted'[p].step].to[TurnIn(posted', p)]
      /\ \A q \in PostsIn(posted', posted'[p].step) : posted'[q].values = posted'[p].values
<1>5. PostsIn(posted, step) \subseteq 1 .. n
  BY <1>1 DEF PostsIn
<1>6. \A q \in PostsIn(posted', step) : posted'[q].values = frame
  BY <1>1, <1>2, <1>3, <1>5
<1>7. Kept(n + 1)
  <2>1. TurnIn(posted', n + 1) = next
    BY <1>1, <1>2, <1>3
  <2> QED
    BY <1>1, <1>6, <2>1 DEF Now
<1>8. ASSUME NEW p \in 1 .. n PROVE Kept(p)
  <2>1. posted'[p] = posted[p] /\ TurnIn(posted', p) = TurnIn(posted, p)
    BY <1>1, <1>2
  <2>2. CASE posted[p].step = step
    <3>1. p \in PostsIn(posted, step)
      BY <1>1, <2>2 DEF PostsIn
    <3>2. posted[p].values = frame
      BY <1>3, <3>1
    <3>3. \A q \in PostsIn(posted', posted'[p].step) : posted'[q].values = posted'[p].values
      BY <1>6, <2>1, <2>2, <3>2
    <3>4. /\ TurnIn(posted', p) \in DOMAIN script.steps[posted'[p].step].to
          /\ posted'[p].link = script.steps[posted'[p].step].to[TurnIn(posted', p)]
      BY <1>4, <2>1
    <3> QED
      BY <3>3, <3>4
  <2>3. CASE posted[p].step # step
    <3>1. PostsIn(posted', posted[p].step) = PostsIn(posted, posted[p].step)
      BY <1>2, <2>3
    <3>2. PostsIn(posted, posted[p].step) \subseteq 1 .. n
      BY <1>1 DEF PostsIn
    <3> QED
      BY <1>1, <1>4, <2>1, <3>1, <3>2
  <2> QED
    BY <2>2, <2>3
<1>9. \A p \in 1 .. n + 1 : Kept(p)
  <2>1. \A p \in 1 .. n + 1 : p \in 1 .. n \/ p = n + 1
    BY <1>1
  <2> HIDE DEF Kept
  <2> QED
    BY <1>7, <1>8, <2>1
<1>10. script' = script
  BY DEF PostSend
<1> QED
  BY <1>1, <1>9, <1>10 DEF SameBytesToAll, Turn, TurnIn, PostsOf, PostsIn

LEMMA PostKeepsOrder ==
  ASSUME TypeInv, PostInv, PostSend
  PROVE  /\ PostedSoFar'
         /\ \A i \in 1 .. step - 1 :
              Sends(script.steps[i]) => Cardinality(PostsOf(i)') = Len(script.steps[i].to)
         /\ LastTarget => Cardinality(PostsIn(posted', step)) = Len(Now.to)
<1> DEFINE n == Len(posted)
<1>1. /\ n \in Nat /\ DOMAIN posted = 1 .. n /\ DOMAIN posted' = 1 .. n + 1
      /\ \A i \in 1 .. n : posted'[i] = posted[i]
      /\ posted'[n + 1] = [step |-> step, link |-> Now.to[next], values |-> frame]
      /\ next \in DOMAIN Now.to /\ at = "posting" /\ next \in Nat /\ step \in Nat
      /\ UNCHANGED <<script, frame>>
  BY PostIs, NowIs DEF TypeInv, TypeOK, PostSend
<1>2. /\ \A i : i # step => PostsIn(posted', i) = PostsIn(posted, i)
      /\ PostsIn(posted', step) = PostsIn(posted, step) \cup {n + 1}
      /\ Cardinality(PostsIn(posted', step)) = Cardinality(PostsIn(posted, step)) + 1
  BY PostedMore
<1> HIDE DEF n
<1>3. /\ \A p \in DOMAIN posted : posted[p].step <= step
      /\ \A i \in 1 .. step - 1 :
           Sends(script.steps[i]) => Cardinality(PostsIn(posted, i)) = Len(script.steps[i].to)
      /\ Cardinality(PostsIn(posted, step)) = next - 1
      /\ \A p \in PostsIn(posted, step) : posted[p].values = frame
  BY <1>1 DEF PostInv, PostedSoFar, PostsOf, PostsIn, Busy
<1>4. Cardinality(PostsIn(posted', step)) = next
  BY <1>1, <1>2, <1>3
<1>5. ASSUME NEW i \in 1 .. step - 1, Sends(script.steps[i])
      PROVE  Cardinality(PostsIn(posted', i)) = Len(script.steps[i].to)
  <2>1. i # step
    BY <1>1
  <2> QED
    BY <1>2, <1>3, <1>5, <2>1
<1>6. \A p \in DOMAIN posted' : posted'[p].step <= step
  BY <1>1, <1>3
<1>7. PostsIn(posted, step) \subseteq 1 .. n
  BY <1>1 DEF PostsIn
<1>8. \A q \in PostsIn(posted', step) : posted'[q].values = frame
  BY <1>1, <1>2, <1>3, <1>7
<1>9. ASSUME UNCHANGED <<at, step>>, next' = next + 1 PROVE PostedSoFar'
  <2>1. next' - 1 = next
    BY <1>1, <1>9
  <2>2. PostsOf(step)' = PostsIn(posted', step)
    BY <1>9 DEF PostsOf, PostsIn
  <2>3. \A i : PostsOf(i)' = PostsIn(posted', i)
    BY DEF PostsOf, PostsIn
  <2> QED
    BY <1>1, <1>4, <1>5, <1>6, <1>8, <1>9, <2>1, <2>2, <2>3 DEF PostedSoFar
<1>10. ASSUME LastTarget, at' = "announce", step' = step + 1 PROVE PostedSoFar'
  <2>1. PostsOf(step)' = {}
    <3>1. \A p \in DOMAIN posted' : posted'[p].step # step'
      <4>1. \A p \in DOMAIN posted : posted[p].step \in Nat
        BY PostedTyped
      <4> QED
        BY <1>1, <1>3, <1>10, <4>1
    <3> QED
      BY <3>1 DEF PostsOf
  <2>2. \A i : PostsOf(i)' = PostsIn(posted', i)
    BY DEF PostsOf, PostsIn
  <2>3. \A i \in 1 .. step' - 1 :
          Sends(script'.steps[i]) => Cardinality(PostsOf(i)') = Len(script'.steps[i].to)
    <3>1. SUFFICES ASSUME NEW i \in 1 .. step' - 1, Sends(script.steps[i])
                   PROVE  Cardinality(PostsIn(posted', i)) = Len(script.steps[i].to)
      BY <1>1, <2>2
    <3>2. CASE i \in 1 .. step - 1
      BY <1>5, <3>1, <3>2
    <3>3. CASE i = step
      BY <1>4, <1>10, <3>3 DEF LastTarget, Now
    <3> QED
      BY <1>1, <1>10, <3>2, <3>3
  <2>4. \A p \in DOMAIN posted' : posted'[p].step <= step'
    <3>1. \A p \in DOMAIN posted : posted[p].step \in Nat
      BY PostedTyped
    <3> QED
      BY <1>1, <1>3, <1>10, <3>1
  <2> QED
    BY <1>10, <2>1, <2>3, <2>4, FS_EmptySet DEF PostedSoFar
<1>11. ASSUME at' \notin Busy PROVE PostedSoFar'
  BY <1>11 DEF PostedSoFar
<1>12. \/ UNCHANGED <<at, step>> /\ next' = next + 1
       \/ LastTarget /\ at' = "announce" /\ step' = step + 1
       \/ at' \notin Busy
  BY DEF PostSend, StepEnds, PassEnds, End, Busy
<1>13. LastTarget => Cardinality(PostsIn(posted', step)) = Len(Now.to)
  BY <1>4 DEF LastTarget
<1>14. \A i : PostsOf(i)' = PostsIn(posted', i)
  BY DEF PostsOf, PostsIn
<1>15. PostedSoFar'
  BY <1>9, <1>10, <1>11, <1>12
<1> QED
  BY <1>5, <1>13, <1>14, <1>15

LEMMA StepPosts == TypeInv /\ PostInv /\ [Next]_vars => PostInv'
<1> SUFFICES ASSUME TypeInv, PostInv, [Next]_vars PROVE PostInv'
  OBVIOUS
<1> USE DEF outside, history
<1>1. CASE PassStarts
  <2>1. posted' = <<>> /\ step' = 1 /\ at' = "announce" /\ DOMAIN posted' = {}
    BY <1>1 DEF PassStarts
  <2>2. PostsOf(step)' = {}
    BY <2>1 DEF PostsOf
  <2>3. SameBytesToAll'
    BY <2>1 DEF SameBytesToAll
  <2>4. Cardinality(PostsOf(step)') = 0
    BY <2>2, FS_EmptySet
  <2>5. \A i : i \notin 1 .. step' - 1
    BY <2>1
  <2> QED
    BY <2>1, <2>3, <2>4, <2>5 DEF PostInv, PostedSoFar
<1>2. CASE PostSend
  BY <1>2, PostKeepsBytes, PostKeepsOrder DEF PostInv
<1>3. CASE Slept
  <2>1. UNCHANGED <<script, posted>> /\ at \in Busy /\ ~Sends(Now)
    BY <1>3 DEF Slept, Sends, Busy
  <2>2. (at' = "announce" /\ step' = step + 1) \/ at' \notin Busy
    BY <1>3 DEF Slept, StepEnds, PassEnds, End, Busy
  <2> QED
    BY <2>1, <2>2, PostedOnward, PostedAtRest
<1>4. CASE Hear
  <2>1. UNCHANGED <<script, posted, frame, next>> /\ at = "listening" /\ ~Sends(Now)
    BY <1>4 DEF Hear, Sends, TypeInv, Situated
  <2>2. \/ UNCHANGED <<at, step>>
        \/ at' = "announce" /\ step' = step + 1
        \/ at' \notin Busy
    BY <1>4 DEF Hear, Stays, StepEnds, PassEnds, End, Busy
  <2> QED
    BY <2>1, <2>2, PostedStays, PostedOnward, PostedAtRest DEF Busy
<1>5. CASE Encode \/ SendRaw \/ Resolve
  <2>1. /\ UNCHANGED <<script, posted, step>> /\ at = "act"
        /\ \/ at' = "posting" /\ next' = 1
           \/ at' \in {"listening", "over"}
    BY <1>5 DEF Encode, SendRaw, Resolve, Fails, End
  <2> QED
    BY <2>1, PostedStays, PostedAtRest DEF Busy
<1>6. CASE Announced
  BY <1>6, PostedStays DEF Announced, Busy
<1>7. CASE PassesOver \/ NowhereToSend \/ NobodyToHear \/ Expire \/ Abort
  <2>1. UNCHANGED <<script, posted>> /\ at' \notin Busy
    BY <1>7 DEF PassesOver, NowhereToSend, NobodyToHear, Expire, Abort, PassEnds, Fails, End, Busy
  <2> QED
    BY <2>1, PostedAtRest
<1>8. CASE \/ \E m \in Arriving : Arrive(m)
           \/ \E s \in Settings : SetValue(s)
           \/ EngineStops \/ UNCHANGED vars
  <2>1. UNCHANGED <<script, posted, step, at, next, frame>>
    BY <1>8 DEF Arrive, SetValue, EngineStops, vars
  <2> QED
    BY <2>1, PostedStays, PostedAtRest
<1> QED
  BY <1>1, <1>2, <1>3, <1>4, <1>5, <1>6, <1>7, <1>8 DEF Next, Run, World, Over

(* A pass that comes to its end has every send of its script behind it.    *)
LEMMA AllSentAtTheEnd ==
  ASSUME TypeInv, PostInv, [Next]_vars, PassComesToItsEnd
  PROVE  \A i \in DOMAIN script.steps :
           script.steps[i].do \in {"send", "raw"} =>
             Cardinality(PostsOf(i)') = Len(script.steps[i].to)
<1> USE DEF outside, history
<1>0. /\ at \in {"act", "posting", "listening"} /\ at \in Busy /\ pending' = {}
      /\ at' = "tick" \/ outcome' = "completed"
      /\ outcome = "running" /\ (at = "listening" => pending # {})
      /\ step \in 1 .. Len(script.steps) /\ DOMAIN script.steps = 1 .. Len(script.steps)
      /\ Len(script.steps) \in Nat
  BY NowIs DEF PassComesToItsEnd, Busy, TypeInv, Situated
<1>1. \A i \in 1 .. step - 1 :
        Sends(script.steps[i]) => Cardinality(PostsOf(i)) = Len(script.steps[i].to)
  BY <1>0 DEF PostInv, PostedSoFar
<1>2. CASE Slept \/ Hear
  <2>1. UNCHANGED posted /\ ~Sends(Now)
    BY <1>2 DEF Slept, Hear, Sends, TypeInv, Situated
  <2>2. step = Len(script.steps)
    BY <1>0, <1>2 DEF Slept, Hear, Stays, StepEnds
  <2>3. \A i : PostsOf(i)' = PostsOf(i)
    BY <2>1 DEF PostsOf
  <2> SUFFICES ASSUME NEW i \in 1 .. Len(script.steps), Sends(script.steps[i])
               PROVE  Cardinality(PostsOf(i)') = Len(script.steps[i].to)
    BY <1>0 DEF Sends
  <2>4. i # step
    BY <2>1 DEF Now
  <2>5. i \in 1 .. step - 1
    BY <1>0, <2>2, <2>4
  <2> QED
    BY <1>1, <2>3, <2>5
<1>3. CASE PostSend
  <2>1. step = Len(script.steps) /\ LastTarget
    BY <1>0, <1>3 DEF PostSend, StepEnds
  <2>2. /\ \A i \in 1 .. step - 1 :
             Sends(script.steps[i]) => Cardinality(PostsOf(i)') = Len(script.steps[i].to)
        /\ Cardinality(PostsIn(posted', step)) = Len(Now.to)
    BY <1>3, <2>1, PostKeepsOrder
  <2> SUFFICES ASSUME NEW i \in 1 .. Len(script.steps), Sends(script.steps[i])
               PROVE  Cardinality(PostsOf(i)') = Len(script.steps[i].to)
    BY <1>0 DEF Sends
  <2>3. CASE i = step
    BY <2>2, <2>3 DEF PostsOf, PostsIn, Now
  <2>4. CASE i \in 1 .. step - 1
    BY <2>2, <2>4
  <2> QED
    BY <1>0, <2>1, <2>3, <2>4
<1>4. ~Expire
  BY <1>0 DEF Expire, Fails, End, PassEnds
<1>5. ~Encode /\ ~SendRaw /\ ~NowhereToSend /\ ~Resolve /\ ~NobodyToHear
  BY <1>0 DEF Encode, SendRaw, NowhereToSend, Resolve, NobodyToHear, Fails, End
<1>6. ~PassesOver /\ ~PassStarts /\ ~Announced /\ ~Over
  BY <1>0 DEF PassesOver, PassStarts, Announced, Over
<1>7. ~World /\ ~UNCHANGED vars
  BY <1>0 DEF World, Arrive, SetValue, EngineStops, Abort, Fails, End, vars
<1> QED
  BY <1>2, <1>3, <1>4, <1>5, <1>6, <1>7 DEF Next, Run

-----------------------------------------------------------------------------
(* What a step reads. *)

LEMMA KeepsAre ==
  ASSUME TypeInv, NEW i \in DOMAIN script.steps
  PROVE  Keeps(script.steps[i]) \subseteq Variables
<1>1. script.steps[i] \in Step
  BY ScriptIs DEF TypeInv, TypeOK
<1>2. ActsOnFrame(script.steps[i]) => script.steps[i].keep \in Optional(Variables)
  BY <1>1, StepIs DEF ActsOnFrame, SendStep, WaitForStep
<1> QED
  BY <1>2 DEF Keeps, Optional

(* The loader has let nothing through that reads what is not kept before.  *)
LEMMA NothingUnset == ASSUME TypeInv, CapturedSoFar, at \in Busy PROVE ~Unset
<1> SUFFICES ASSUME NEW v \in Reads(Now) PROVE variables[v] # None
  BY DEF Unset
<1>1. script \in Scripts /\ step \in DOMAIN script.steps
  BY DEF TypeInv, TypeOK
<1>2. Reads(Now) \subseteq UNION {Keeps(script.steps[j]) : j \in 1 .. step - 1}
  BY <1>1, ScriptIs DEF Loaded, Now
<1>3. PICK j \in 1 .. step - 1 : v \in Keeps(script.steps[j])
  BY <1>2
<1> QED
  BY <1>3 DEF CapturedSoFar, Held

(* What is remembered is a value, and nothing is forgotten for it.         *)
LEMMA RememberKeeps ==
  ASSUME TypeInv, ActsOnFrame(Now), NEW values \in [Fields -> Values]
  PROVE  /\ \A v \in Variables : variables[v] # None => Remember(Now.keep, values)[v] # None
         /\ \A v \in Keeps(Now) : Remember(Now.keep, values)[v] # None
<1>1. \A f \in Fields : values[f] # None
  BY Constants
<1>2. \A v \in Variables :
        \/ Remember(Now.keep, values)[v] = variables[v] /\ \A f \in Fields : Now.keep[f] # v
        \/ \E f \in Fields : Now.keep[f] = v /\ Remember(Now.keep, values)[v] = values[f]
  BY Remembered DEF TypeInv
<1>3. ASSUME NEW v \in Keeps(Now) PROVE Remember(Now.keep, values)[v] # None
  <2>1. v \in Variables
    BY KeepsAre DEF Now, TypeInv, TypeOK
  <2>2. \E f \in Fields : Now.keep[f] = v
    BY <1>3 DEF Keeps
  <2> QED
    BY <1>1, <1>2, <2>1, <2>2
<1> QED
  BY <1>1, <1>2, <1>3

(* A wait that captures is over once its one target has answered, with     *)
(* something that decodes.                                                 *)
LEMMA LastAnswerCounts ==
  ASSUME AnswersDecode, TypeInv, NothingMissed, Hear, pending' = {}
  PROVE  \A v \in Keeps(Now) : variables'[v] # None
<1> SUFFICES ASSUME NEW v \in Keeps(Now) PROVE variables'[v] # None
  OBVIOUS
<1> DEFINE m == Head(received)
<1>1. /\ m \in Arriving /\ at = "listening" /\ pending # {} /\ pending \subseteq Targets
      /\ Now.do = "wait_for" /\ script \in Scripts /\ step \in DOMAIN script.steps
  BY HearExamines DEF Hear, TypeInv, TypeOK, Situated
<1>2. /\ pending' = IF Matches(m, frame) THEN pending \ {m.link} ELSE pending
      /\ variables' = IF Matches(m, frame) /\ m.whole THEN Remember(Now.keep, m.values)
                                                      ELSE variables
  BY DEF Hear
<1> HIDE DEF m
<1>3. Matches(m, frame) /\ m.link \in Targets
  BY <1>1, <1>2
<1>4. Len(Now.to) = 1
  BY <1>1, ScriptIs DEF Loaded, Now
<1>5. m.link = Now.to[1]
  <2>1. DOMAIN Now.to = 1 .. 1
    BY <1>4, NowIs DEF TypeInv
  <2> QED
    BY <1>3, <2>1 DEF Targets
<1>6. m.whole
  BY <1>1, <1>5 DEF AnswersDecode, Now
<1>7. m.values \in [Fields -> Values] /\ ActsOnFrame(Now)
  BY <1>1, FrameIs DEF ActsOnFrame
<1> QED
  BY <1>2, <1>3, <1>6, <1>7, RememberKeeps

LEMMA StepCaptures ==
  AnswersDecode /\ TypeInv /\ NothingMissed /\ CapturedSoFar /\ [Next]_vars => CapturedSoFar'
<1> SUFFICES ASSUME AnswersDecode, TypeInv, NothingMissed, CapturedSoFar, [Next]_vars
             PROVE  CapturedSoFar'
  OBVIOUS
<1> USE DEF outside, history
<1> DEFINE Behind == \A i \in 1 .. step - 1 : Held(script.steps[i])
<1>0. /\ outcome # "unset" /\ (at \in Busy => Behind) /\ (at = "posting" => Held(Now))
      /\ step \in 1 .. Len(script.steps) /\ Len(script.steps) \in Nat
      /\ DOMAIN script.steps = 1 .. Len(script.steps)
      /\ \A i \in DOMAIN script.steps : Keeps(script.steps[i]) \subseteq Variables
  BY NowIs, KeepsAre DEF CapturedSoFar, NeverUnset, TypeInv
<1>a. ASSUME UNCHANGED <<script, step>>, outcome' # "unset", at \in Busy,
             \A v \in Variables : variables[v] # None => variables'[v] # None,
             at' = "posting" => at = "posting" \/ \A v \in Keeps(Now) : variables'[v] # None
      PROVE  CapturedSoFar'
  <2>1. \A i \in 1 .. step' - 1 : \A v \in Keeps(script'.steps[i]) : variables'[v] # None
    BY <1>0, <1>a DEF Held
  <2>2. at' = "posting" => \A v \in Keeps(Now) : variables'[v] # None
    BY <1>0, <1>a DEF Held, Now
  <2>3. Now' = Now
    BY <1>a DEF Now
  <2> QED
    BY <1>a, <2>1, <2>2, <2>3 DEF CapturedSoFar, NeverUnset, Held
<1>b. ASSUME UNCHANGED script, step' = step + 1, at' = "announce", at \in Busy, outcome' # "unset",
             \A v \in Variables : variables[v] # None => variables'[v] # None,
             \A v \in Keeps(Now) : variables'[v] # None
      PROVE  CapturedSoFar'
  <2> SUFFICES ASSUME NEW i \in 1 .. step, NEW v \in Keeps(script.steps[i])
               PROVE  variables'[v] # None
    BY <1>0, <1>b DEF CapturedSoFar, NeverUnset, Held
  <2>1. CASE i = step
    BY <1>b, <2>1 DEF Now
  <2>2. CASE i \in 1 .. step - 1
    BY <1>0, <1>b, <2>2 DEF Held
  <2> QED
    BY <1>0, <2>1, <2>2
<1>c. ASSUME at' \notin Busy, outcome' # "unset" PROVE CapturedSoFar'
  BY <1>c DEF CapturedSoFar, NeverUnset, Busy
<1>d. StepEnds => \/ at' = "announce" /\ step' = step + 1 /\ UNCHANGED outcome
                  \/ at' \notin Busy /\ outcome' \in {outcome, "completed"}
  BY DEF StepEnds, PassEnds, End, Busy
<1>1. CASE PassStarts
  <2>1. step' = 1 /\ at' = "announce" /\ UNCHANGED outcome
    BY <1>1 DEF PassStarts
  <2>2. \A i : i \notin 1 .. step' - 1
    BY <2>1
  <2> QED
    BY <1>0, <2>1, <2>2 DEF CapturedSoFar, NeverUnset
<1>2. CASE Slept
  <2>1. UNCHANGED <<script, variables>> /\ at \in Busy /\ Keeps(Now) = {} /\ StepEnds
    BY <1>2 DEF Slept, Keeps, ActsOnFrame, Busy
  <2> QED
    BY <1>0, <1>b, <1>c, <1>d, <2>1
<1>3. CASE Encode
  <2>1. at = "act" /\ at \in Busy /\ UNCHANGED script /\ Now.do = "send"
    BY <1>3 DEF Encode, Busy
  <2>2. ~Unset
    BY <2>1, NothingUnset
  <2>3. CASE Fails("unfit")
    BY <1>c, <2>3 DEF Fails, End, Busy
  <2>4. CASE at' = "posting" /\ variables' = Remember(Now.keep, Encoded)
               /\ UNCHANGED <<outcome, step>>
    <3>1. Encoded \in [Fields -> Values] /\ ActsOnFrame(Now)
      BY <2>1, <2>2, EncodedTyped DEF TypeInv, ActsOnFrame
    <3> QED
      BY <1>0, <1>a, <2>1, <2>4, <3>1, RememberKeeps
  <2> QED
    BY <1>3, <2>2, <2>3, <2>4 DEF Encode
<1>4. CASE SendRaw
  <2>1. UNCHANGED <<script, step, variables, outcome>> /\ at \in Busy /\ Keeps(Now) = {}
    BY <1>4 DEF SendRaw, Keeps, ActsOnFrame, Busy
  <2> QED
    BY <1>0, <1>a, <2>1
<1>5. CASE PostSend
  <2>1. UNCHANGED <<script, variables>> /\ at = "posting"
    BY <1>5 DEF PostSend
  <2>2. \A v \in Keeps(Now) : variables'[v] # None
    BY <1>0, <2>1 DEF Held
  <2>3. CASE UNCHANGED <<at, outcome, step>>
    BY <1>0, <1>a, <2>1, <2>3 DEF Busy
  <2>4. CASE StepEnds
    BY <1>0, <1>b, <1>c, <1>d, <2>1, <2>2, <2>4 DEF Busy
  <2> QED
    BY <1>5, <2>3, <2>4 DEF PostSend
<1>6. CASE Resolve
  <2>1. at = "act" /\ at \in Busy /\ UNCHANGED <<script, variables>>
    BY <1>6 DEF Resolve, Busy
  <2>2. ~Unset
    BY <2>1, NothingUnset
  <2>3. \/ Fails("unfit")
        \/ at' = "listening" /\ UNCHANGED <<outcome, step>>
    BY <1>6, <2>2 DEF Resolve
  <2>4. CASE Fails("unfit")
    BY <1>c, <2>4 DEF Fails, End, Busy
  <2> QED
    BY <1>0, <1>a, <2>1, <2>3, <2>4
<1>7. CASE Hear
  <2> DEFINE m == Head(received)
  <2>1. /\ at = "listening" /\ UNCHANGED script /\ m.values \in [Fields -> Values]
        /\ variables' \in {variables, Remember(Now.keep, m.values)} /\ ActsOnFrame(Now)
    BY <1>7, HearExamines, FrameIs DEF Hear, TypeInv, Situated, ActsOnFrame
  <2> HIDE DEF m
  <2>2. \A v \in Variables : variables[v] # None => variables'[v] # None
    BY <2>1, RememberKeeps
  <2>3. CASE Stays
    BY <1>0, <1>a, <2>1, <2>2, <2>3 DEF Stays, Busy
  <2>4. CASE pending' = {} /\ StepEnds
    <3>1. \A v \in Keeps(Now) : variables'[v] # None
      BY <1>7, <2>4, LastAnswerCounts
    <3> QED
      BY <1>0, <1>b, <1>c, <1>d, <2>1, <2>2, <2>4, <3>1 DEF Busy
  <2> QED
    BY <1>7, <2>3, <2>4 DEF Hear
<1>8. CASE Announced
  BY <1>0, <1>a, <1>8 DEF Announced, TypeInv, Situated, Busy
<1>9. CASE PassesOver \/ NowhereToSend \/ NobodyToHear \/ Expire \/ Abort
  <2>1. at' \notin Busy /\ outcome' # "unset"
    BY <1>0, <1>9 DEF PassesOver, NowhereToSend, NobodyToHear, Expire, Abort, PassEnds, Fails, End, Busy
  <2> QED
    BY <1>c, <2>1
<1>10. CASE \/ \E m \in Arriving : Arrive(m)
            \/ \E s \in Settings : SetValue(s)
            \/ EngineStops \/ UNCHANGED vars
  <2>1. UNCHANGED <<script, step, at, variables, outcome>>
    BY <1>10 DEF Arrive, SetValue, EngineStops, vars
  <2> QED
    BY <1>0, <1>a, <1>c, <2>1
<1> QED
  BY <1>1, <1>2, <1>3, <1>4, <1>5, <1>6, <1>7, <1>8, <1>9, <1>10 DEF Next, Run, World, Over

-----------------------------------------------------------------------------
(* What holds of every run. *)

LEMMA RunHolds == Spec => []RunInv
<1>1. Init => RunInv
  <2> SUFFICES ASSUME Init PROVE RunInv
    OBVIOUS
  <2>1. at = "tick"
    BY DEF Init
  <2>2. StruckOff /\ VariablesSourced
    BY <2>1 DEF StruckOff, VariablesSourced, Busy
  <2> QED
    BY <2>2, InitTyped, InitMissed, InitPasses, InitPosts DEF RunInv
<1>2. RunInv /\ [Next]_vars => RunInv'
  BY StepTyped, StepMissed, StepPasses, StepStruck, StepSourced, StepPosts DEF RunInv
<1> QED
  BY <1>1, <1>2, PTL DEF Spec

(* Every target of a send gets the same bytes, each once and in the order  *)
(* of the file, whatever is set, captured or heard while they are posted.  *)
THEOREM SameBytes == Spec => []SameBytesToAll
<1>1. RunInv => SameBytesToAll
  BY DEF RunInv, PostInv
<1> QED
  BY RunHolds, <1>1, PTL

(* A scenario that says how often it repeats completes after just so many  *)
(* passes, and starts none beyond them.                                    *)
THEOREM PassesAreCounted == Spec => []AsManyPassesAsAsked
<1>1. RunInv => AsManyPassesAsAsked
  BY DEF RunInv, PassesLeft, AsManyPassesAsAsked, Busy
<1> QED
  BY RunHolds, <1>1, PTL

(* No wait is got past before each of its targets has answered it in this  *)
(* pass, however many other frames come and are lost.                      *)
THEOREM WaitsAreAnswered == Spec => EveryTargetAnswered
<1>1. RunInv /\ [Next]_vars =>
        [at = "listening" /\ step' = step + 1 =>
           \A link \in Targets : \E m \in Examined' : m.link = link /\ Matches(m, frame)]_vars
  BY AnsweredThenOn DEF RunInv
<1> QED
  BY RunHolds, <1>1, PTL DEF Spec, EveryTargetAnswered

(* A pass that comes to its end has posted every send to every target.     *)
THEOREM EverySendIsPosted == Spec => NothingLeftUnsent
<1>1. RunInv /\ [Next]_vars =>
        [PassComesToItsEnd =>
           \A i \in DOMAIN script.steps :
             script.steps[i].do \in {"send", "raw"} =>
               Cardinality(PostsOf(i)') = Len(script.steps[i].to)]_vars
  BY AllSentAtTheEnd DEF RunInv
<1> QED
  BY RunHolds, <1>1, PTL DEF Spec, NothingLeftUnsent

(* A pass is about itself: what waits to be looked at, and what a variable *)
(* holds, was heard or sent in it.  As long as what answers a capture      *)
(* decodes, nothing a step reads is missing either.                        *)
THEOREM PassIsItsOwn == Spec => [](TypeOK /\ NothingMissed /\ VariablesFromThisPass)
<1>1. RunInv => VariablesFromThisPass
  BY DEF RunInv, VariablesSourced, Sourced, VariablesFromThisPass, Busy
<1>2. RunInv => TypeOK /\ NothingMissed
  BY DEF RunInv, TypeInv
<1> QED
  BY RunHolds, <1>1, <1>2, PTL

(* What a pass heeds, captures and sends is its own, and it reads nothing  *)
(* that was not captured (runner.rs:92-103), as long as what answers a     *)
(* wait that captures decodes.                                             *)
THEOREM PassHolds == ASSUME AnswersDecode PROVE Spec => []PassInv
<1>1. Init => CapturedSoFar
  BY DEF Init, CapturedSoFar, NeverUnset, Busy
<1>2. RunInv /\ CapturedSoFar /\ [Next]_vars => CapturedSoFar'
  BY StepCaptures DEF RunInv
<1>3. CapturedSoFar => NeverUnset
  BY DEF CapturedSoFar
<1> QED
  BY RunHolds, PassIsItsOwn, <1>1, <1>2, <1>3, PTL DEF Spec, PassInv
=============================================================================
