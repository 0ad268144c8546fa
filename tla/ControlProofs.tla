--------------------------- MODULE ControlProofs ----------------------------
(***************************************************************************)
(* A value a client was told is taken counts: proofs for any number of     *)
(* clients, fields, steps and links, and channels of any size.             *)
(***************************************************************************)
EXTENDS Control, SequenceTheorems, TLAPS

LinkStates == {"none", "opening", "trying", "ready", "up", "writing", "away", "gone"}

SetCommand == [op : {"set"}, step : DOMAIN Steps, field : Declared, value : Live]

Command ==
  [op : {"connect"}, link : Links] \cup [op : {"start"}] \cup SetCommand
    \cup [op : {"send"}]

Event ==
  [kind : {"error"}, why : {"no such scenario", "not up", "cannot open", "lost"}]
    \cup [kind : {"connection"}]
    \cup [kind : {"step"}, step : DOMAIN Steps, pass : 0 .. Times]
    \cup [kind : {"finished"}, outcome : {None, "completed", "failed"}]
    \cup [kind : {"sent", "received"}]

(* What the queues hold, and what a client is being served with: a request *)
(* that was found fit, of whose fields some are still to be posted.        *)
HeldTypes ==
  /\ commands \in Seq(Command) /\ events \in Seq(Event) /\ saying \in Seq(Event)
  /\ outcome \in {None, "completed", "failed"}
  /\ asking \in [Clients -> Posts \cup {None}]
  /\ todo \in [Clients -> SUBSET Fields]
  /\ \A c \in Clients :
       asking[c] # None => ~Refused(asking[c]) /\ todo[c] \subseteq FieldsOf(asking[c])

(* A task that has steps before it has passes before it.                   *)
PassesLeft == task # "over" => pass < Times

TypeInv == TypeOK /\ HeldTypes /\ PassesLeft

(* The slot a queued command fills, if it fills one.                       *)
IsStart(c) == c.op = "start"
IsSet(c) == c.op = "set"
Fills(c, s) == IsSet(c) /\ <<c.step, c.field>> = s

(* The scenario is started once, and unless the start was refused it is    *)
(* queued before anything a client posts.                                  *)
StartFirst ==
  /\ known = "unknown" <=> task = "none"
  /\ \A i \in DOMAIN commands : IsStart(commands[i]) => known = "unknown" /\ ~refused
  /\ \A i, j \in DOMAIN commands : IsStart(commands[i]) /\ IsStart(commands[j]) => i = j
  /\ refused => known = "unknown"
  /\ main \in {"loading", "connecting"} =>
       /\ known = "unknown" /\ ~refused
       /\ \A i \in DOMAIN commands : ~IsStart(commands[i]) /\ ~IsSet(commands[i])
  /\ main \in {"loading", "connecting", "opening"} => \A c \in Clients : asking[c] = None
  /\ main \in {"opening", "watching"} /\ known = "unknown" /\ ~refused =>
       \E j \in DOMAIN commands :
         IsStart(commands[j]) /\ \A i \in DOMAIN commands : IsSet(commands[i]) => j < i

(* What is on its way to a slot, or has reached it, is what was posted     *)
(* last, as long as the loop may still take it.                            *)
OnItsWay(s) ==
  \/ /\ \A i \in DOMAIN commands : ~Fills(commands[i], s)
     /\ overrides[s] = lastPosted[s]
  \/ \E k \in DOMAIN commands :
       /\ Fills(commands[k], s) /\ commands[k].value = lastPosted[s]
       /\ \A i \in DOMAIN commands : Fills(commands[i], s) => i <= k

LastOnItsWay == known # "freed" /\ ~refused => \A s \in Slots : OnItsWay(s)

ControlInv == TypeInv /\ StartFirst /\ LastOnItsWay /\ FirstOverrideCounts
-----------------------------------------------------------------------------
LEMMA QueueTail ==
  ASSUME NEW S, NEW queue \in Seq(S), queue # <<>>
  PROVE  /\ Head(queue) = queue[1] /\ Head(queue) \in S
         /\ Tail(queue) \in Seq(S)
         /\ Len(queue) \in Nat \ {0} /\ Len(Tail(queue)) = Len(queue) - 1
         /\ DOMAIN queue = 1 .. Len(queue) /\ DOMAIN Tail(queue) = 1 .. Len(queue) - 1
         /\ \A i \in 1 .. Len(queue) - 1 : Tail(queue)[i] = queue[i + 1]
BY HeadTailProperties, EmptySeq, LenProperties

LEMMA QueueAppend ==
  ASSUME NEW S, NEW queue \in Seq(S), NEW x \in S
  PROVE  /\ Append(queue, x) \in Seq(S)
         /\ Len(queue) \in Nat /\ Len(Append(queue, x)) = Len(queue) + 1
         /\ DOMAIN queue = 1 .. Len(queue) /\ DOMAIN Append(queue, x) = 1 .. Len(queue) + 1
         /\ \A i \in 1 .. Len(queue) : Append(queue, x)[i] = queue[i]
         /\ Append(queue, x)[Len(queue) + 1] = x
BY AppendProperties, LenProperties

LEMMA QueueOfOne ==
  ASSUME NEW S, NEW x \in S
  PROVE  <<x>> \in Seq(S) /\ Len(<<x>>) <= 1
OBVIOUS

LEMMA StepsType == DOMAIN Steps = 1 .. Len(Steps) /\ Len(Steps) \in Nat \ {0}
BY ControlAssumption, EmptySeq, LenProperties

LEMMA SayTypes ==
  ASSUME TypeInv, NEW e \in Event, Say(e)
  PROVE  events' \in Seq(Event) /\ Len(events') <= EventCapacity
BY QueueAppend, ControlAssumption DEF TypeInv, HeldTypes, Say, RoomForEvent

LEMMA PostTypes ==
  ASSUME TypeInv, NEW c \in Command, Post(c)
  PROVE  commands' \in Seq(Command) /\ Len(commands') <= CommandCapacity
BY QueueAppend, ControlAssumption DEF TypeInv, HeldTypes, Post, RoomForCommand

LEMMA OfferTypes ==
  ASSUME TypeInv, NEW c \in Command, Offer(c)
  PROVE  commands' \in Seq(Command) /\ Len(commands') <= CommandCapacity
<1>1. CASE RoomForCommand
  BY <1>1, PostTypes DEF Offer, Post
<1>2. CASE ~RoomForCommand
  BY <1>2 DEF Offer, TypeInv, TypeOK, HeldTypes
<1> QED
  BY <1>1, <1>2

LEMMA TypeInit == Init => TypeInv
<1> SUFFICES ASSUME Init PROVE TypeInv
  OBVIOUS
<1>1. TypeOK
  <2>1. /\ offered \in 0 .. Autoconnect /\ pass \in 0 .. Times /\ step \in DOMAIN Steps
        /\ queued \in 0 .. OutgoingCapacity /\ falls \in 0 .. MaxFalls
        /\ Len(commands) <= CommandCapacity /\ Len(events) <= EventCapacity /\ Len(saying) <= 1
    BY ControlAssumption, StepsType, EmptySeq DEF Init
  <2>2. /\ overrides \in [Slots -> Live \cup {None}] /\ lastPosted \in [Slots -> Live \cup {None}]
    BY DEF Init
  <2> QED
    BY <2>1, <2>2 DEF Init, TypeOK
<1>2. HeldTypes
  BY DEF Init, HeldTypes
<1>3. PassesLeft
  BY ControlAssumption DEF Init, PassesLeft
<1> QED
  BY <1>1, <1>2, <1>3 DEF TypeInv

-----------------------------------------------------------------------------
(* The main thread. *)

LEMMA LoadType ==
  ASSUME TypeInv, Load
  PROVE  TypeInv'
BY DEF Load, Exit, TypeInv, TypeOK, HeldTypes, PassesLeft, starting, channels, loopVars,
       taskVars, linkVars, clientVars

LEMMA OfferConnectType ==
  ASSUME TypeInv, OfferConnect
  PROVE  TypeInv'
<1>1. offered' \in 0 .. Autoconnect /\ offered' \in Links
  BY ControlAssumption DEF OfferConnect, TypeInv, TypeOK, Links
<1>2. [op |-> "connect", link |-> offered'] \in Command
  BY <1>1 DEF Command
<1>3. commands' \in Seq(Command) /\ Len(commands') <= CommandCapacity
  BY <1>2, OfferTypes DEF OfferConnect
<1> QED
  BY <1>1, <1>3 DEF OfferConnect, TypeInv, TypeOK, HeldTypes, PassesLeft, loopVars,
                    taskVars, linkVars, clientVars

LEMMA OfferStartType ==
  ASSUME TypeInv, OfferStart
  PROVE  TypeInv'
<1>1. [op |-> "start"] \in Command
  BY DEF Command
<1>2. commands' \in Seq(Command) /\ Len(commands') <= CommandCapacity
  BY <1>1, OfferTypes DEF OfferStart, TypeInv, TypeOK, HeldTypes
<1> QED
  BY <1>2 DEF OfferStart, Exit, TypeInv, TypeOK, HeldTypes, PassesLeft, loopVars,
              taskVars, linkVars, clientVars

LEMMA OpenSocketType ==
  ASSUME TypeInv, OpenSocket
  PROVE  TypeInv'
BY DEF OpenSocket, Exit, TypeInv, TypeOK, HeldTypes, PassesLeft, starting, channels,
       loopVars, taskVars, linkVars, clientVars

LEMMA WatchType ==
  ASSUME TypeInv, Watch
  PROVE  TypeInv'
<1>1. events' \in Seq(Event) /\ Len(events') <= EventCapacity
  BY QueueTail, ControlAssumption DEF Watch, TypeInv, TypeOK, HeldTypes
<1>2. /\ main' \in {"loading", "connecting", "opening", "watching", "exited"}
      /\ code' \in {None, 0, 1}
  BY DEF Watch, Exit, TypeInv, TypeOK
<1> QED
  BY <1>1, <1>2 DEF Watch, TypeInv, TypeOK, HeldTypes, PassesLeft, starting, loopVars,
                    taskVars, linkVars, clientVars

-----------------------------------------------------------------------------
(* The loop. *)

LEMMA HandleCommandType ==
  ASSUME TypeInv, StartFirst, HandleCommand
  PROVE  TypeInv'
<1> DEFINE c == Head(commands)
<1>1. /\ c \in Command /\ commands' \in Seq(Command) /\ Len(commands') <= CommandCapacity
  BY QueueTail, ControlAssumption DEF HandleCommand, TypeInv, TypeOK, HeldTypes
<1>6. UNCHANGED <<main, code, starting, status, events, step, pass, outcome, queued, falls,
                  heard, clientVars>>
  BY DEF HandleCommand, mainVars
<1>7. /\ c.op = "connect" => ConnectHandled(c)
      /\ c.op = "start" => StartHandled
      /\ c.op = "set" => SetHandled(c)
      /\ c.op = "send" => SendHandled
  BY DEF HandleCommand
<1> HIDE DEF c
<1>2. CASE c.op = "connect" /\ ConnectHandled(c)
  <2>1. c.link \in Links
    BY <1>1, <1>2 DEF Command, SetCommand
  <2>2. link' \in [Links -> LinkStates]
    BY <1>2, <2>1 DEF ConnectHandled, LinkStates, TypeInv, TypeOK
  <2> QED
    BY <1>1, <1>2, <2>2, <1>6 DEF ConnectHandled, LinkStates, TypeInv, TypeOK, HeldTypes, PassesLeft,
                            starting, loopVars, clientVars
<1>3. CASE c.op = "start" /\ StartHandled
  <2>1. task # "over"
    BY <1>1, <1>3, QueueTail DEF c, HandleCommand, StartFirst, IsStart, TypeInv, HeldTypes
  <2> QED
    BY <1>1, <1>3, <2>1, <1>6 DEF StartHandled, TypeInv, TypeOK, HeldTypes, PassesLeft,
                            starting, clientVars
<1>4. CASE c.op = "set" /\ SetHandled(c)
  <2>1. c \in SetCommand
    BY <1>1, <1>4 DEF Command, SetCommand
  <2>2. overrides' \in [Slots -> Live \cup {None}]
    BY <1>4, <2>1 DEF SetCommand, SetHandled, Overridden, Slots, TypeInv, TypeOK
  <2>3. saying' \in Seq(Event) /\ Len(saying') <= 1
    <3>1. Failing("no such scenario") \in Event
      BY DEF Failing, Event
    <3> DEFINE told == <<Failing("no such scenario")>>
    <3>2. told \in Seq(Event) /\ Len(told) <= 1
      BY <3>1, QueueOfOne
    <3>3. saying' = told \/ saying' = saying
      BY <1>4 DEF SetHandled
    <3>4. saying \in Seq(Event) /\ Len(saying) <= 1
      BY DEF TypeInv, TypeOK, HeldTypes
    <3> HIDE DEF told
    <3> QED
      BY <3>2, <3>3, <3>4
  <2>4. UNCHANGED <<held, known, task, link>>
    BY <1>4 DEF SetHandled
  <2> QED
    BY <1>1, <2>2, <2>3, <2>4, <1>6 DEF TypeInv, TypeOK, HeldTypes, PassesLeft,
                            starting, clientVars
<1>5. CASE c.op = "send" /\ SendHandled
  <2>2. held' \in BOOLEAN
    BY <1>5 DEF SendHandled, TypeInv, TypeOK
  <2>3. saying' \in Seq(Event) /\ Len(saying') <= 1
    <3>1. Failing("not up") \in Event
      BY DEF Failing, Event
    <3> DEFINE told == <<Failing("not up")>>
    <3>2. told \in Seq(Event) /\ Len(told) <= 1
      BY <3>1, QueueOfOne
    <3>3. saying' = told \/ saying' = saying
      BY <1>5 DEF SendHandled
    <3>4. saying \in Seq(Event) /\ Len(saying) <= 1
      BY DEF TypeInv, TypeOK, HeldTypes
    <3> HIDE DEF told
    <3> QED
      BY <3>2, <3>3, <3>4
  <2>4. UNCHANGED <<known, overrides, task, link>>
    BY <1>5 DEF SendHandled
  <2> QED
    BY <1>1, <2>2, <2>3, <2>4, <1>6 DEF TypeInv, TypeOK, HeldTypes, PassesLeft,
                            starting, clientVars
<1> QED
  <2>1. c.op \in {"connect", "start", "set", "send"}
    BY <1>1 DEF Command, SetCommand
  <2>2. CASE c.op = "connect"
    BY <2>2, <1>2, <1>7, Zenon
  <2>3. CASE c.op = "start"
    BY <2>3, <1>3, <1>7, Zenon
  <2>4. CASE c.op = "set"
    BY <2>4, <1>4, <1>7, Zenon
  <2>5. CASE c.op = "send"
    BY <2>5, <1>5, <1>7, Zenon
  <2> QED
    BY <2>1, <2>2, <2>3, <2>4, <2>5

LEMMA EnqueueType ==
  ASSUME TypeInv, Enqueue
  PROVE  TypeInv'
<1>1. queued' \in 0 .. OutgoingCapacity
  <2>1. queued' = queued \/ (queued < OutgoingCapacity /\ queued' = queued + 1)
    BY DEF Enqueue
  <2>2. queued \in 0 .. OutgoingCapacity /\ OutgoingCapacity \in Nat
    BY ControlAssumption DEF TypeInv, TypeOK
  <2> QED
    BY <2>1, <2>2
<1>2. Failing("not up") \in Event
  BY DEF Failing, Event
<1> DEFINE told == <<Failing("not up")>>
<1>3. told \in Seq(Event) /\ Len(told) <= 1
  BY <1>2, QueueOfOne
<1>4. saying' = told \/ saying' = saying
  BY DEF Enqueue
<1> HIDE DEF told
<1>5. saying' \in Seq(Event) /\ Len(saying') <= 1
  BY <1>3, <1>4 DEF TypeInv, TypeOK, HeldTypes
<1> QED
  BY <1>1, <1>5 DEF Enqueue, TypeInv, TypeOK, HeldTypes, PassesLeft, mainVars, starting, channels,
                    taskVars, clientVars

LEMMA HandleFinishedType ==
  ASSUME TypeInv, NEW l \in Links, HandleFinished(l)
  PROVE  TypeInv'
<1>1. [kind |-> "connection"] \in Event
  BY DEF Event
<1>2. <<[kind |-> "connection"]>> \in Seq(Event) /\ Len(<<[kind |-> "connection"]>>) <= 1
  BY <1>1, QueueOfOne
<1> QED
  BY <1>2 DEF HandleFinished, TypeInv, TypeOK, HeldTypes, PassesLeft, mainVars, starting, channels,
              taskVars, clientVars

LEMMA HandleEndedType ==
  ASSUME TypeInv, HandleEnded
  PROVE  TypeInv'
<1>1. [kind |-> "finished", outcome |-> outcome] \in Event
  BY DEF Event, TypeInv, HeldTypes
<1>2. /\ <<[kind |-> "finished", outcome |-> outcome]>> \in Seq(Event)
      /\ Len(<<[kind |-> "finished", outcome |-> outcome]>>) <= 1
  BY <1>1, QueueOfOne
<1> QED
  BY <1>2 DEF HandleEnded, TypeInv, TypeOK, HeldTypes, PassesLeft, mainVars, starting, channels, taskVars, linkVars, clientVars

LEMMA AnnounceType ==
  ASSUME TypeInv, Announce
  PROVE  TypeInv'
<1>1. Head(saying) \in Event /\ saying' \in Seq(Event) /\ Len(saying') <= 1
  BY QueueTail DEF Announce, TypeInv, TypeOK, HeldTypes
<1>2. events' \in Seq(Event) /\ Len(events') <= EventCapacity
  BY <1>1, SayTypes DEF Announce
<1> QED
  BY <1>1, <1>2 DEF Announce, TypeInv, TypeOK, HeldTypes, PassesLeft, mainVars, starting, taskVars, linkVars, clientVars

-----------------------------------------------------------------------------
(* The task of the scenario. *)

LEMMA StepDoneType ==
  ASSUME TypeInv, task # "over", StepDone
  PROVE  /\ step' \in DOMAIN Steps /\ pass' \in 0 .. Times
         /\ task' \in {"announcing", "over"} /\ outcome' \in {None, "completed", "failed"}
         /\ PassesLeft'
<1>1. step \in 1 .. Len(Steps) /\ Len(Steps) \in Nat \ {0} /\ Times \in Nat
      /\ pass \in 0 .. Times /\ pass < Times
  BY StepsType, ControlAssumption DEF TypeInv, TypeOK, PassesLeft
<1>2. step' \in 1 .. Len(Steps)
  BY <1>1 DEF StepDone
<1>3. pass' \in 0 .. Times
  BY <1>1 DEF StepDone
<1>4. /\ task' \in {"announcing", "over"} /\ outcome' \in {None, "completed", "failed"}
      /\ task' # "over" => pass' # Times
  BY DEF StepDone, Ends, TypeInv, HeldTypes
<1>5. PassesLeft'
  BY <1>1, <1>3, <1>4 DEF PassesLeft
<1> QED
  BY <1>2, <1>3, <1>4, <1>5, StepsType

LEMMA AnnounceStepType ==
  ASSUME TypeInv, AnnounceStep
  PROVE  TypeInv'
<1>1. [kind |-> "step", step |-> step, pass |-> pass] \in Event
  BY DEF Event, TypeInv, TypeOK
<1>2. events' \in Seq(Event) /\ Len(events') <= EventCapacity
  BY <1>1, SayTypes DEF AnnounceStep
<1> QED
  BY <1>2 DEF AnnounceStep, TypeInv, TypeOK, HeldTypes, PassesLeft, mainVars, starting, loopVars, linkVars, clientVars

LEMMA EncodeType ==
  ASSUME TypeInv, Encode
  PROVE  TypeInv'
<1>1. /\ task' \in {"over", "posting"} /\ outcome' \in {None, "completed", "failed"}
      /\ task # "over"
  BY DEF Encode, Ends, TypeInv, HeldTypes
<1> QED
  BY <1>1 DEF Encode, TypeInv, TypeOK, HeldTypes, PassesLeft, mainVars, starting,
                    channels, loopVars, linkVars, clientVars

LEMMA WaitType ==
  ASSUME TypeInv, Wait
  PROVE  TypeInv'
BY StepDoneType DEF Wait, TypeInv, TypeOK, HeldTypes, mainVars, starting, channels,
                    loopVars, linkVars, clientVars

LEMMA PostFrameType ==
  ASSUME TypeInv, PostFrame
  PROVE  TypeInv'
<1>1. [op |-> "send"] \in Command
  BY DEF Command
<1>2. commands' \in Seq(Command) /\ Len(commands') <= CommandCapacity
  BY <1>1, PostTypes DEF PostFrame
<1> QED
  BY <1>2, StepDoneType DEF PostFrame, TypeInv, TypeOK, HeldTypes, mainVars, starting, loopVars, linkVars, clientVars

-----------------------------------------------------------------------------
(* The tasks of the links. *)

LEMMA LinkGoesType ==
  ASSUME TypeInv, NEW l \in Links, NEW from, NEW to \in LinkStates, LinkGoes(l, from, to),
         events' \in Seq(Event), Len(events') <= EventCapacity,
         queued' \in 0 .. OutgoingCapacity, falls' \in 0 .. MaxFalls
  PROVE  TypeInv'
BY DEF LinkGoes, LinkStates, TypeInv, TypeOK, HeldTypes, PassesLeft, mainVars, starting, loopVars,
       taskVars, clientVars

LEMMA LinkSaysType ==
  ASSUME TypeInv, NEW l \in Links, NEW from, NEW event \in Event, NEW to \in LinkStates,
         LinkSays(l, from, to, event), UNCHANGED falls \/ Fallen
  PROVE  TypeInv'
<1>1. events' \in Seq(Event) /\ Len(events') <= EventCapacity
  BY SayTypes DEF LinkSays
<1>2. queued' \in 0 .. OutgoingCapacity
  BY DEF LinkSays, TypeInv, TypeOK
<1>3. falls' \in 0 .. MaxFalls
  BY ControlAssumption DEF Fallen, TypeInv, TypeOK
<1> QED
  BY <1>1, <1>2, <1>3, LinkGoesType DEF LinkSays

LEMMA LinkGoesQuietly ==
  ASSUME TypeInv, NEW l \in Links, NEW from, NEW to \in LinkStates, LinkGoes(l, from, to),
         UNCHANGED <<events, falls>>, queued' \in 0 .. OutgoingCapacity
  PROVE  TypeInv'
BY LinkGoesType DEF TypeInv, TypeOK, HeldTypes

LEMMA TargetIsALink == Links # {} => Target \in Links
BY ControlAssumption DEF Links, Target

LEMMA LinkType ==
  ASSUME TypeInv, NEW l \in Links, Link(l)
  PROVE  TypeInv'
<1> USE DEF LinkStates
<1>1. queued \in 0 .. OutgoingCapacity /\ 0 \in 0 .. OutgoingCapacity
  BY ControlAssumption DEF TypeInv, TypeOK
<1>2. /\ [kind |-> "connection"] \in Event
      /\ Failing("cannot open") \in Event /\ Failing("lost") \in Event
  BY DEF Event, Failing
<1>3. CASE Connecting(l) \/ Connected(l)
  BY <1>2, <1>3, LinkSaysType DEF Connecting, Connected
<1>4. CASE OpenFails(l) \/ Lost(l)
  BY <1>2, <1>4, LinkSaysType DEF OpenFails, Lost
<1>5. CASE Opened(l) \/ Retried(l) \/ GivenUp(l)
  BY <1>1, <1>5, LinkGoesQuietly DEF Opened, Retried, GivenUp
<1> QED
  BY <1>3, <1>4, <1>5 DEF Link, Runs

LEMMA TakeType ==
  ASSUME TypeInv, Links # {}, Take
  PROVE  TypeInv'
<1>1. queued' \in 0 .. OutgoingCapacity
  BY ControlAssumption DEF Take, TypeInv, TypeOK
<1> QED
  BY <1>1, TargetIsALink, LinkGoesQuietly DEF Take, LinkStates

LEMMA WrittenType ==
  ASSUME TypeInv, Links # {}, Written
  PROVE  TypeInv'
BY TargetIsALink, LinkSaysType DEF Written, Event, LinkStates

LEMMA HearType ==
  ASSUME TypeInv, Hear
  PROVE  TypeInv'
<1>1. [kind |-> "received"] \in Event
  BY DEF Event
<1>2. events' \in Seq(Event) /\ Len(events') <= EventCapacity
  BY <1>1, SayTypes DEF Hear
<1> QED
  BY <1>2 DEF Hear, TypeInv, TypeOK, HeldTypes, PassesLeft, mainVars, starting, loopVars, taskVars, clientVars

-----------------------------------------------------------------------------
(* The thread of a client. *)

LEMMA AskToSetType ==
  ASSUME TypeInv, NEW c \in Clients, NEW r \in Requests[c], AskToSet(c, r)
  PROVE  TypeInv'
<1>1. r \in Posts /\ r # None
  BY ControlAssumption
<1>2. FieldsOf(r) \subseteq Fields
  BY <1>1 DEF Posts, FieldsOf
<1>3. CASE UNCHANGED <<asking, todo>>
  BY <1>3 DEF AskToSet, TypeInv, TypeOK, HeldTypes, PassesLeft, mainVars, starting, channels, loopVars, taskVars, linkVars
<1>4. CASE /\ ~Refused(r) /\ FieldsOf(r) # {}
           /\ asking' = [asking EXCEPT ![c] = r] /\ todo' = [todo EXCEPT ![c] = FieldsOf(r)]
  <2>1. FieldsOf(r) \subseteq Declared
    BY <1>4 DEF Refused
  <2>2. asking' \in [Clients -> Posts \cup {None}] /\ todo' \in [Clients -> SUBSET Fields]
    BY <1>1, <1>2, <1>4 DEF TypeInv, HeldTypes
  <2>3. \A d \in Clients : asking'[d] = (IF d = c THEN r ELSE asking[d])
                           /\ todo'[d] = (IF d = c THEN FieldsOf(r) ELSE todo[d])
    BY <1>4 DEF TypeInv, HeldTypes
  <2>4. \A d \in Clients : asking'[d] # None =>
                ~Refused(asking'[d]) /\ todo'[d] \subseteq FieldsOf(asking'[d])
    BY <1>1, <1>4, <2>3 DEF TypeInv, HeldTypes
  <2>5. \A d \in Clients : todo'[d] \subseteq Declared /\ (todo'[d] = {} <=> asking'[d] = None)
    BY <1>1, <1>4, <2>1, <2>3 DEF TypeInv, TypeOK
  <2> QED
    BY <2>2, <2>4, <2>5 DEF AskToSet, TypeInv, TypeOK, HeldTypes, PassesLeft, mainVars, starting,
                      channels, loopVars, taskVars, linkVars
<1> QED
  BY <1>3, <1>4 DEF AskToSet

(* What a field of a request that was found fit is posted as.              *)
LEMMA PostedIsFit ==
  ASSUME TypeInv, NEW c \in Clients, asking[c] # None, NEW f \in todo[c]
  PROVE  /\ asking[c].step \in DOMAIN Steps /\ f \in Declared
         /\ asking[c].values[f] \in Live
         /\ [op |-> "set", step |-> asking[c].step, field |-> f,
             value |-> asking[c].values[f]] \in SetCommand
         /\ <<asking[c].step, f>> \in Slots
<1> DEFINE r == asking[c]
<1>1. r \in Posts /\ ~Refused(r) /\ f \in FieldsOf(r)
  BY DEF TypeInv, HeldTypes
<1>2. PICK S \in SUBSET Fields : r.values \in [S -> Live]
  BY <1>1 DEF Posts
<1>3. r.values[f] \in Live
  BY <1>1, <1>2 DEF FieldsOf
<1>4. r.step \in DOMAIN Steps /\ f \in Declared
  BY <1>1 DEF Refused
<1> QED
  BY <1>3, <1>4 DEF SetCommand, Slots

LEMMA PostFieldType ==
  ASSUME TypeInv, NEW c \in Clients, NEW f, PostField(c, f)
  PROVE  TypeInv'
<1> DEFINE r == asking[c]
           command == [op |-> "set", step |-> r.step, field |-> f, value |-> r.values[f]]
<1>1. /\ r # None /\ f \in todo[c] /\ Post(command)
      /\ lastPosted' = [lastPosted EXCEPT ![<<r.step, f>>] = r.values[f]]
      /\ todo' = [todo EXCEPT ![c] = @ \ {f}]
  BY DEF PostField
<1>2. command \in SetCommand /\ <<r.step, f>> \in Slots /\ r.values[f] \in Live
  BY <1>1, PostedIsFit
<1>3. commands' \in Seq(Command) /\ Len(commands') <= CommandCapacity
  BY <1>1, <1>2, PostTypes DEF Command
<1>4. lastPosted' \in [Slots -> Live \cup {None}]
  BY <1>1, <1>2 DEF TypeInv, TypeOK
<1>5. /\ todo' \in [Clients -> SUBSET Fields]
      /\ \A d \in Clients : todo'[d] = IF d = c THEN todo[c] \ {f} ELSE todo[d]
  BY <1>1 DEF TypeInv, HeldTypes
<1>6. /\ asking' \in [Clients -> Posts \cup {None}]
      /\ \A d \in Clients : asking'[d] = IF d = c /\ todo'[c] = {} THEN None ELSE asking[d]
  BY DEF PostField, TypeInv, HeldTypes
<1>7. \A d \in Clients :
        /\ todo'[d] \subseteq Declared /\ (todo'[d] = {} <=> asking'[d] = None)
        /\ asking'[d] # None =>
             ~Refused(asking'[d]) /\ todo'[d] \subseteq FieldsOf(asking'[d])
  BY <1>1, <1>5, <1>6 DEF TypeInv, TypeOK, HeldTypes
<1> QED
  BY <1>3, <1>4, <1>5, <1>6, <1>7 DEF PostField, TypeInv, TypeOK, HeldTypes, PassesLeft, mainVars,
                                      starting, loopVars, taskVars, linkVars

LEMMA ReadType ==
  ASSUME TypeInv, NEW c \in Clients, Read(c)
  PROVE  TypeInv'
BY DEF Read, TypeInv, TypeOK, HeldTypes, PassesLeft, mainVars, starting, channels,
       loopVars, taskVars, linkVars

LEMMA StutterType ==
  ASSUME TypeInv, UNCHANGED vars
  PROVE  TypeInv'
BY DEF vars, TypeInv, TypeOK, HeldTypes, PassesLeft, mainVars, starting, channels,
       loopVars, taskVars, linkVars, clientVars

LEMMA TypeStep == TypeInv /\ StartFirst /\ [Next]_vars => TypeInv'
BY LoadType, OfferConnectType, OfferStartType, OpenSocketType, WatchType, HandleCommandType,
   HandleEndedType, AnnounceType, AnnounceStepType, EncodeType, WaitType, PostFrameType,
   EnqueueType, HandleFinishedType, LinkType, TakeType, WrittenType, HearType, AskToSetType, PostFieldType, ReadType, StutterType
   DEF Next, Main, Loop, Task, Client

-----------------------------------------------------------------------------
(* The start comes first. *)

BeforeStart == main \in {"loading", "connecting"}
BeforeClients == main \in {"loading", "connecting", "opening"}
Offered == main \in {"opening", "watching"}

(* No step goes back to before the start, nor to before the clients.       *)
NeverBack ==
  /\ BeforeStart' => BeforeStart
  /\ BeforeClients' => BeforeClients /\ UNCHANGED asking
  /\ Offered' => Offered

LEMMA StartInit == Init => StartFirst
BY DEF Init, StartFirst, IsStart, IsSet

LEMMA StartAside ==
  ASSUME StartFirst, NeverBack, UNCHANGED <<commands, known, refused>>, task' = "none" <=> task = "none"
  PROVE  StartFirst'
BY DEF StartFirst, NeverBack, BeforeStart, BeforeClients, Offered, IsStart, IsSet

LEMMA StartAppend ==
  ASSUME TypeInv, StartFirst, NEW c \in Command, commands' = Append(commands, c), c.op # "start",
         c.op = "set" => main = "watching",
         UNCHANGED <<main, known, refused>>, main # "watching" => UNCHANGED asking,
         task' = "none" <=> task = "none"
  PROVE  StartFirst'
<1>1. /\ Len(commands) \in Nat
      /\ DOMAIN commands = 1 .. Len(commands) /\ DOMAIN commands' = 1 .. Len(commands) + 1
      /\ \A i \in 1 .. Len(commands) : commands'[i] = commands[i]
      /\ commands'[Len(commands) + 1] = c
  BY QueueAppend DEF TypeInv, HeldTypes
<1>2. \A i \in DOMAIN commands' : IsStart(commands'[i]) => i \in DOMAIN commands /\ IsStart(commands[i])
  BY <1>1 DEF IsStart
<1>3. /\ known' = "unknown" <=> task' = "none"
      /\ \A i \in DOMAIN commands' : IsStart(commands'[i]) => known' = "unknown" /\ ~refused'
      /\ \A i, j \in DOMAIN commands' : IsStart(commands'[i]) /\ IsStart(commands'[j]) => i = j
      /\ refused' => known' = "unknown"
  BY <1>2 DEF StartFirst
<1>4. ASSUME main' \in {"loading", "connecting"}
      PROVE  /\ known' = "unknown" /\ ~refused'
             /\ \A i \in DOMAIN commands' : ~IsStart(commands'[i]) /\ ~IsSet(commands'[i])
  BY <1>1, <1>2, <1>4 DEF StartFirst, IsSet
<1>5. ASSUME main' \in {"opening", "watching"}, known' = "unknown", ~refused'
      PROVE  \E j \in DOMAIN commands' :
               IsStart(commands'[j]) /\ \A i \in DOMAIN commands' : IsSet(commands'[i]) => j < i
  <2>1. PICK j \in DOMAIN commands :
           IsStart(commands[j]) /\ \A i \in DOMAIN commands : IsSet(commands[i]) => j < i
    BY <1>5 DEF StartFirst
  <2>2. j \in DOMAIN commands' /\ IsStart(commands'[j]) /\ j < Len(commands) + 1
    BY <1>1, <2>1 DEF IsStart
  <2>3. \A i \in DOMAIN commands' : IsSet(commands'[i]) => j < i
    BY <1>1, <2>1, <2>2 DEF IsSet
  <2> QED
    BY <2>2, <2>3
<1> QED
  BY <1>3, <1>4, <1>5 DEF StartFirst

LEMMA OfferStartFirst ==
  ASSUME TypeInv, StartFirst, OfferStart
  PROVE  StartFirst'
<1>1. /\ main = "connecting" /\ known = "unknown" /\ ~refused
      /\ \A i \in DOMAIN commands : ~IsStart(commands[i]) /\ ~IsSet(commands[i])
      /\ \A c \in Clients : asking[c] = None
      /\ UNCHANGED <<known, task, asking>>
  BY DEF OfferStart, StartFirst, loopVars, taskVars, clientVars
<1>2. CASE main' = "exited"
  BY <1>1, <1>2 DEF OfferStart, StartFirst, IsStart, IsSet
<1>3. CASE main' = "opening" /\ ~RoomForCommand
  BY <1>1, <1>3 DEF OfferStart, Offer, Exit, StartFirst, IsStart, IsSet
<1>4. CASE main' = "opening" /\ RoomForCommand
  <2>1. commands' = Append(commands, [op |-> "start"]) /\ ~refused'
    BY <1>4 DEF OfferStart, Offer, Exit
  <2>2. [op |-> "start"] \in Command
    BY DEF Command
  <2>3. /\ Len(commands) \in Nat
        /\ DOMAIN commands = 1 .. Len(commands) /\ DOMAIN commands' = 1 .. Len(commands) + 1
        /\ \A i \in 1 .. Len(commands) : commands'[i] = commands[i]
        /\ commands'[Len(commands) + 1] = [op |-> "start"]
    BY <2>1, <2>2, QueueAppend DEF TypeInv, HeldTypes
  <2>4. \A i \in DOMAIN commands' : ~IsSet(commands'[i]) /\ (IsStart(commands'[i]) <=> i = Len(commands) + 1)
    BY <1>1, <2>3 DEF IsStart, IsSet
  <2> QED
    BY <1>1, <1>4, <2>1, <2>3, <2>4 DEF StartFirst
<1> QED
  BY <1>2, <1>3, <1>4 DEF OfferStart, Exit

LEMMA HandleCommandStart ==
  ASSUME TypeInv, StartFirst, HandleCommand
  PROVE  StartFirst'
<1> DEFINE c == Head(commands)
<1>1. /\ Len(commands) \in Nat \ {0} /\ c = commands[1] /\ c \in Command
      /\ DOMAIN commands = 1 .. Len(commands) /\ DOMAIN commands' = 1 .. Len(commands) - 1
      /\ \A i \in 1 .. Len(commands) - 1 : commands'[i] = commands[i + 1]
  BY QueueTail DEF HandleCommand, TypeInv, HeldTypes
<1> HIDE DEF c
<1>2. \A i \in DOMAIN commands' :
        /\ i + 1 \in DOMAIN commands
        /\ IsStart(commands'[i]) <=> IsStart(commands[i + 1])
        /\ IsSet(commands'[i]) <=> IsSet(commands[i + 1])
  BY <1>1 DEF IsStart, IsSet
<1>3. 1 \in DOMAIN commands
  BY <1>1
<1>4. UNCHANGED <<main, refused, asking>>
  BY DEF HandleCommand, mainVars, starting, clientVars
<1>5. CASE c.op = "start"
  <2>1. IsStart(commands[1]) /\ known = "unknown" /\ ~refused /\ ~BeforeStart
    BY <1>1, <1>3, <1>5 DEF StartFirst, IsStart, BeforeStart
  <2>2. known' = "known" /\ task' = "announcing"
    BY <1>5 DEF c, HandleCommand, StartHandled
  <2>3. \A i \in DOMAIN commands' : ~IsStart(commands'[i])
    <3> SUFFICES ASSUME NEW i \in DOMAIN commands', IsStart(commands'[i]) PROVE FALSE
      OBVIOUS
    <3>1. i + 1 = 1
      BY <1>2, <1>3, <2>1 DEF StartFirst
    <3> QED
      BY <1>1, <3>1
  <2> QED
    BY <1>4, <2>1, <2>2, <2>3 DEF StartFirst, BeforeStart
<1>6. CASE c.op # "start"
  <2>1. UNCHANGED <<known, task>>
    BY <1>1, <1>6 DEF c, HandleCommand, ConnectHandled, SetHandled, SendHandled, loopVars, Command,
                      SetCommand
  <2>2. /\ \A i \in DOMAIN commands' : IsStart(commands'[i]) => known' = "unknown" /\ ~refused'
        /\ \A i \in DOMAIN commands' : main' \in {"loading", "connecting"} =>
              ~IsStart(commands'[i]) /\ ~IsSet(commands'[i])
    BY <1>2, <1>4, <2>1 DEF StartFirst
  <2>3. ASSUME NEW i \in DOMAIN commands', NEW j \in DOMAIN commands', IsStart(commands'[i]), IsStart(commands'[j])
        PROVE  i = j
    <3>1. i + 1 = j + 1
      BY <1>2, <2>3 DEF StartFirst
    <3> QED
      BY <1>1, <3>1
  <2>4. ASSUME main' \in {"opening", "watching"}, known' = "unknown", ~refused'
        PROVE  \E j \in DOMAIN commands' :
                 IsStart(commands'[j]) /\ \A i \in DOMAIN commands' : IsSet(commands'[i]) => j < i
    <3>1. PICK j \in DOMAIN commands :
             IsStart(commands[j]) /\ \A i \in DOMAIN commands : IsSet(commands[i]) => j < i
      BY <1>4, <2>1, <2>4 DEF StartFirst
    <3>2. j # 1
      BY <1>1, <1>6, <3>1 DEF IsStart
    <3>3. j - 1 \in DOMAIN commands' /\ (j - 1) + 1 = j
      BY <1>1, <3>2
    <3>4. \A i \in DOMAIN commands' : IsSet(commands'[i]) => j < i + 1
      BY <1>2, <3>1
    <3>5. \A i \in DOMAIN commands' : IsSet(commands'[i]) => j - 1 < i
      BY <1>1, <3>4
    <3> QED
      BY <1>2, <3>1, <3>3, <3>5
  <2> QED
    BY <1>4, <2>1, <2>2, <2>3, <2>4 DEF StartFirst
<1> QED
  BY <1>5, <1>6

(* A client that posts is being served: the start was queued before.       *)
LEMMA PostingIsServed ==
  ASSUME StartFirst, TypeInv, NEW c \in Clients, NEW f, PostField(c, f)
  PROVE  main = "watching"
BY DEF PostField, Alive, StartFirst, TypeInv, TypeOK

LEMMA StartStep == TypeInv /\ StartFirst /\ [Next]_vars => StartFirst'
<1> SUFFICES ASSUME TypeInv, StartFirst, [Next]_vars PROVE StartFirst'
  OBVIOUS
<1> USE DEF mainVars, starting, channels, loopVars, taskVars, linkVars, clientVars
<1>1. CASE Load \/ OpenSocket \/ Watch
  BY <1>1, StartAside DEF Load, OpenSocket, Watch, Watching, Exit, NeverBack, BeforeStart,
                          BeforeClients, Offered
<1>2. CASE OfferConnect
  <2>1. offered' \in Links
    BY <1>2, ControlAssumption DEF OfferConnect, TypeInv, TypeOK, Links
  <2>2. [op |-> "connect", link |-> offered'] \in Command
    BY <2>1 DEF Command
  <2>3. CASE RoomForCommand
    BY <1>2, <2>2, <2>3, StartAppend DEF OfferConnect, Offer
  <2>4. CASE ~RoomForCommand
    BY <1>2, <2>4, StartAside DEF OfferConnect, Offer, NeverBack, BeforeStart, BeforeClients, Offered
  <2> QED
    BY <2>3, <2>4
<1>3. CASE HandleEnded
  BY <1>3 DEF HandleEnded, StartFirst, IsStart, IsSet
<1>4. CASE Announce \/ Enqueue \/ AnnounceStep \/ Encode \/ Wait \/ Take \/ Written \/ Hear
  BY <1>4, StartAside DEF Announce, Enqueue, AnnounceStep, Encode, Wait, StepDone, Ends, Take,
                          Written, LinkGoes, LinkSays, Hear,
                          NeverBack, BeforeStart, BeforeClients, Offered
<1>5. CASE PostFrame
  <2>1. [op |-> "send"] \in Command
    BY DEF Command
  <2> QED
    BY <1>5, <2>1, StartAppend DEF PostFrame, Post, StepDone, Ends
<1>6. ASSUME NEW l \in Links, Link(l) \/ HandleFinished(l)
      PROVE  StartFirst'
  BY <1>6, StartAside DEF HandleFinished, Link, Runs, Connecting, OpenFails, Connected, Opened, Lost,
                          Retried, GivenUp, LinkGoes, LinkSays,
                          NeverBack, BeforeStart, BeforeClients, Offered
<1>7. ASSUME NEW c \in Clients, NEW f, PostField(c, f)
      PROVE  StartFirst'
  <2>1. main = "watching"
    BY <1>7, PostingIsServed
  <2>2. [op |-> "set", step |-> asking[c].step, field |-> f, value |-> asking[c].values[f]]
          \in SetCommand
    BY <1>7, PostedIsFit DEF PostField
  <2> QED
    BY <1>7, <2>1, <2>2, StartAppend DEF PostField, Post, Command
<1>8. ASSUME NEW c \in Clients, (\E r \in Requests[c] : AskToSet(c, r)) \/ Read(c)
      PROVE  StartFirst'
  BY <1>8, StartAside DEF AskToSet, Read, MayAsk, Serving, NeverBack, BeforeStart, BeforeClients, Offered
<1>9. CASE UNCHANGED vars
  BY <1>9, StartAside DEF vars, NeverBack, BeforeStart, BeforeClients, Offered
<1> QED
  BY <1>1, <1>2, <1>3, <1>4, <1>5, <1>6, <1>7, <1>8, <1>9, OfferStartFirst, HandleCommandStart
     DEF Next, Main, Loop, Task, Client

-----------------------------------------------------------------------------
(* What was posted last is on its way.                                     *)

LEMMA LastInit == Init => LastOnItsWay
BY DEF Init, LastOnItsWay, OnItsWay

LEMMA LastAside ==
  ASSUME LastOnItsWay, UNCHANGED <<commands, overrides, lastPosted, refused>>,
         known' = "freed" \/ known # "freed"
  PROVE  LastOnItsWay'
BY DEF LastOnItsWay, OnItsWay

(* A command that fills no slot stands in nobody's way.                    *)
LEMMA LastAppend ==
  ASSUME TypeInv, LastOnItsWay, NEW c \in Command, commands' = Append(commands, c), ~IsSet(c),
         UNCHANGED <<overrides, lastPosted, known>>, refused' \/ ~refused
  PROVE  LastOnItsWay'
<1>1. /\ Len(commands) \in Nat
      /\ DOMAIN commands = 1 .. Len(commands) /\ DOMAIN commands' = 1 .. Len(commands) + 1
      /\ \A i \in 1 .. Len(commands) : commands'[i] = commands[i]
      /\ commands'[Len(commands) + 1] = c
  BY QueueAppend DEF TypeInv, HeldTypes
<1>2. \A s \in Slots, i \in DOMAIN commands' :
        Fills(commands'[i], s) => i \in DOMAIN commands /\ Fills(commands[i], s)
  BY <1>1 DEF Fills
<1>3. SUFFICES ASSUME NEW s \in Slots, OnItsWay(s)
               PROVE  \/ /\ \A i \in DOMAIN commands' : ~Fills(commands'[i], s)
                         /\ overrides'[s] = lastPosted'[s]
                      \/ \E k \in DOMAIN commands' :
                           /\ Fills(commands'[k], s) /\ commands'[k].value = lastPosted'[s]
                           /\ \A i \in DOMAIN commands' : Fills(commands'[i], s) => i <= k
  BY DEF LastOnItsWay, OnItsWay
<1>4. CASE /\ \A i \in DOMAIN commands : ~Fills(commands[i], s)
           /\ overrides[s] = lastPosted[s]
  BY <1>2, <1>4
<1>5. CASE \E k \in DOMAIN commands :
             /\ Fills(commands[k], s) /\ commands[k].value = lastPosted[s]
             /\ \A i \in DOMAIN commands : Fills(commands[i], s) => i <= k
  BY <1>1, <1>2, <1>5
<1> QED
  BY <1>3, <1>4, <1>5 DEF OnItsWay

LEMMA PostFieldLast ==
  ASSUME TypeInv, LastOnItsWay, NEW c \in Clients, NEW f, PostField(c, f)
  PROVE  LastOnItsWay'
<1> DEFINE r == asking[c]
           command == [op |-> "set", step |-> r.step, field |-> f, value |-> r.values[f]]
           slot == <<r.step, f>>
<1>1. /\ r # None /\ f \in todo[c] /\ commands' = Append(commands, command)
      /\ lastPosted' = [lastPosted EXCEPT ![slot] = r.values[f]]
      /\ UNCHANGED <<known, refused, overrides>>
  BY DEF PostField, Post, loopVars, mainVars, starting
<1>2. command \in SetCommand /\ slot \in Slots
  BY <1>1, PostedIsFit
<1>3. IsSet(command) /\ command.value = r.values[f] /\ \A s : Fills(command, s) <=> s = slot
  BY DEF IsSet, Fills
<1>4. \A s \in Slots : lastPosted'[s] = IF s = slot THEN r.values[f] ELSE lastPosted[s]
  BY <1>1, <1>2 DEF TypeInv, TypeOK
<1>5. command \in Command
  BY <1>2 DEF Command
<1> HIDE DEF command, slot
<1>6. /\ Len(commands) \in Nat
      /\ DOMAIN commands = 1 .. Len(commands) /\ DOMAIN commands' = 1 .. Len(commands) + 1
      /\ \A i \in 1 .. Len(commands) : commands'[i] = commands[i]
      /\ commands'[Len(commands) + 1] = command
  BY <1>1, <1>5, QueueAppend DEF TypeInv, HeldTypes
<1>7. SUFFICES ASSUME NEW s \in Slots, OnItsWay(s)
               PROVE  \/ /\ \A i \in DOMAIN commands' : ~Fills(commands'[i], s)
                         /\ overrides'[s] = lastPosted'[s]
                      \/ \E k \in DOMAIN commands' :
                           /\ Fills(commands'[k], s) /\ commands'[k].value = lastPosted'[s]
                           /\ \A i \in DOMAIN commands' : Fills(commands'[i], s) => i <= k
  BY <1>1 DEF LastOnItsWay, OnItsWay
<1>8. CASE s = slot
  <2>1. /\ Len(commands) + 1 \in DOMAIN commands'
        /\ Fills(commands'[Len(commands) + 1], s)
        /\ commands'[Len(commands) + 1].value = lastPosted'[s]
        /\ \A i \in DOMAIN commands' : i <= Len(commands) + 1
    BY <1>3, <1>4, <1>6, <1>8
  <2> QED
    BY <2>1
<1>9. CASE s # slot
  <2>1. /\ lastPosted'[s] = lastPosted[s] /\ overrides'[s] = overrides[s]
        /\ \A i \in DOMAIN commands' :
             Fills(commands'[i], s) => i \in DOMAIN commands /\ Fills(commands[i], s)
    BY <1>1, <1>3, <1>4, <1>6, <1>9
  <2>2. CASE /\ \A i \in DOMAIN commands : ~Fills(commands[i], s)
             /\ overrides[s] = lastPosted[s]
    BY <2>1, <2>2
  <2>3. CASE \E k \in DOMAIN commands :
               /\ Fills(commands[k], s) /\ commands[k].value = lastPosted[s]
               /\ \A i \in DOMAIN commands : Fills(commands[i], s) => i <= k
    BY <1>6, <2>1, <2>3
  <2> QED
    BY <1>7, <2>2, <2>3 DEF OnItsWay
<1> QED
  BY <1>8, <1>9

(* The loop takes what is posted to a slot in the order it was posted in.  *)
LEMMA HandleCommandLast ==
  ASSUME TypeInv, StartFirst, LastOnItsWay, Alive, HandleCommand
  PROVE  LastOnItsWay'
<1> DEFINE c == Head(commands)
<1>1. /\ Len(commands) \in Nat \ {0} /\ c = commands[1] /\ c \in Command
      /\ DOMAIN commands = 1 .. Len(commands) /\ DOMAIN commands' = 1 .. Len(commands) - 1
      /\ \A i \in 1 .. Len(commands) - 1 : commands'[i] = commands[i + 1]
  BY QueueTail DEF HandleCommand, TypeInv, HeldTypes
<1>2. UNCHANGED <<refused, lastPosted>> /\ (known' = "freed" \/ known # "freed" \/ IsStart(c))
  BY <1>1 DEF HandleCommand, mainVars, starting, clientVars, ConnectHandled, SetHandled, SendHandled,
              loopVars, Command, SetCommand, IsStart
<1>3. IsStart(c) => known = "unknown"
  BY <1>1 DEF StartFirst
<1>4. IsSet(c) => c \in SetCommand
  BY <1>1 DEF IsSet, Command, SetCommand
<1>5. IsSet(c) /\ known # "freed" /\ ~refused => known = "known"
  <2> SUFFICES ASSUME IsSet(c), known = "unknown", ~refused PROVE FALSE
    BY DEF TypeInv, TypeOK
  <2>1. 1 \in DOMAIN commands /\ IsSet(commands[1]) /\ ~IsStart(commands[1])
    BY <1>1 DEF IsSet, IsStart
  <2>2. main \in {"opening", "watching"}
    BY <2>1 DEF Alive, StartFirst, TypeInv, TypeOK
  <2>3. PICK j \in DOMAIN commands :
           IsStart(commands[j]) /\ \A i \in DOMAIN commands : IsSet(commands[i]) => j < i
    BY <2>2 DEF StartFirst
  <2> QED
    BY <1>1, <2>1, <2>3
<1>6. \A s \in Slots : overrides'[s] =
        IF Fills(c, s) /\ known = "known" THEN c.value ELSE overrides[s]
  <2>1. CASE IsSet(c)
    <3>1. <<c.step, c.field>> \in Slots
      BY <1>4, <2>1 DEF SetCommand, Slots
    <3>2. c.op = "set" /\ SetHandled(c)
      BY <2>1 DEF HandleCommand, IsSet
    <3>3. overrides \in [Slots -> Live \cup {None}]
      BY DEF TypeInv, TypeOK
    <3> HIDE DEF c
    <3> QED
      BY <2>1, <3>1, <3>2, <3>3 DEF SetHandled, Overridden, Fills
  <2>2. CASE ~IsSet(c)
    BY <1>1, <2>2 DEF HandleCommand, ConnectHandled, StartHandled, SendHandled, loopVars,
                      Command, SetCommand, IsSet, Fills
  <2> QED
    BY <2>1, <2>2
<1> HIDE DEF c
<1>7. SUFFICES ASSUME NEW s \in Slots, known # "freed", ~refused, OnItsWay(s)
               PROVE  \/ /\ \A i \in DOMAIN commands' : ~Fills(commands'[i], s)
                         /\ overrides'[s] = lastPosted'[s]
                      \/ \E k \in DOMAIN commands' :
                           /\ Fills(commands'[k], s) /\ commands'[k].value = lastPosted'[s]
                           /\ \A i \in DOMAIN commands' : Fills(commands'[i], s) => i <= k
  BY <1>2, <1>3 DEF LastOnItsWay, OnItsWay
<1>8. CASE /\ \A i \in DOMAIN commands : ~Fills(commands[i], s)
           /\ overrides[s] = lastPosted[s]
  <2>1. ~Fills(c, s)
    BY <1>1, <1>8
  <2>2. overrides'[s] = lastPosted'[s]
    BY <1>2, <1>6, <1>8, <2>1
  <2>3. \A i \in DOMAIN commands' : i + 1 \in DOMAIN commands /\ commands'[i] = commands[i + 1]
    BY <1>1
  <2>4. \A i \in DOMAIN commands' : ~Fills(commands'[i], s)
    BY <1>8, <2>3
  <2> QED
    BY <2>2, <2>4
<1>9. ASSUME NEW k \in DOMAIN commands, Fills(commands[k], s), commands[k].value = lastPosted[s],
             \A i \in DOMAIN commands : Fills(commands[i], s) => i <= k
      PROVE  \/ /\ \A i \in DOMAIN commands' : ~Fills(commands'[i], s)
                /\ overrides'[s] = lastPosted'[s]
             \/ \E m \in DOMAIN commands' :
                  /\ Fills(commands'[m], s) /\ commands'[m].value = lastPosted'[s]
                  /\ \A i \in DOMAIN commands' : Fills(commands'[i], s) => i <= m
  <2>1. CASE k = 1
    <3>1. \A i \in DOMAIN commands' : ~Fills(commands'[i], s)
      <4> SUFFICES ASSUME NEW i \in DOMAIN commands', Fills(commands[i + 1], s) PROVE FALSE
        BY <1>1
      <4>1. i + 1 \in DOMAIN commands /\ ~(i + 1 <= 1)
        BY <1>1
      <4> QED
        BY <1>9, <2>1, <4>1
    <3>2. overrides'[s] = lastPosted'[s]
      BY <1>1, <1>2, <1>5, <1>6, <1>7, <1>9, <2>1 DEF Fills
    <3> QED
      BY <3>1, <3>2
  <2>2. CASE k # 1
    <3>1. k - 1 \in DOMAIN commands' /\ commands'[k - 1] = commands[k]
      BY <1>1, <2>2
    <3>2. \A i \in DOMAIN commands' : Fills(commands'[i], s) => i + 1 <= k
      BY <1>1, <1>9
    <3>3. \A i \in DOMAIN commands' : Fills(commands'[i], s) => i <= k - 1
      BY <1>1, <3>2
    <3> QED
      BY <1>2, <1>9, <3>1, <3>3
  <2> QED
    BY <2>1, <2>2
<1> QED
  BY <1>7, <1>8, <1>9 DEF OnItsWay

LEMMA LastStep == TypeInv /\ StartFirst /\ LastOnItsWay /\ [Next]_vars => LastOnItsWay'
<1> SUFFICES ASSUME TypeInv, StartFirst, LastOnItsWay, [Next]_vars PROVE LastOnItsWay'
  OBVIOUS
<1> USE DEF mainVars, starting, channels, loopVars, taskVars, linkVars, clientVars
<1>1. CASE Load \/ OpenSocket \/ Watch
  BY <1>1, LastAside DEF Load, OpenSocket, Watch, TypeInv, TypeOK
<1>2. CASE OfferConnect
  <2>1. offered' \in Links
    BY <1>2, ControlAssumption DEF OfferConnect, TypeInv, TypeOK, Links
  <2>2. [op |-> "connect", link |-> offered'] \in Command
    BY <2>1 DEF Command
  <2>3. CASE RoomForCommand
    BY <1>2, <2>2, <2>3, LastAppend DEF OfferConnect, Offer, IsSet
  <2>4. CASE ~RoomForCommand
    BY <1>2, <2>4, LastAside DEF OfferConnect, Offer
  <2> QED
    BY <2>3, <2>4
<1>3. CASE OfferStart
  <2>1. [op |-> "start"] \in Command
    BY DEF Command
  <2>2. CASE main' = "opening" /\ RoomForCommand
    <3>1. commands' = Append(commands, [op |-> "start"]) /\ ~IsSet([op |-> "start"])
      BY <1>3, <2>2 DEF OfferStart, Exit, Offer, IsSet
    <3>2. UNCHANGED <<overrides, lastPosted, known>> /\ ~refused
      BY <1>3, <2>2 DEF OfferStart, StartFirst
    <3> QED
      BY <2>1, <3>1, <3>2, LastAppend
  <2>3. CASE main' = "opening" /\ ~RoomForCommand
    BY <1>3, <2>3 DEF OfferStart, Exit, LastOnItsWay
  <2>4. CASE main' = "exited"
    BY <1>3, <2>4, LastAside DEF OfferStart
  <2> QED
    BY <1>3, <2>2, <2>3, <2>4 DEF OfferStart, Exit
<1>4. CASE HandleCommand
  BY <1>4, HandleCommandLast DEF HandleCommand, Idle
<1>5. CASE \/ HandleEnded \/ Announce \/ Enqueue \/ AnnounceStep \/ Encode \/ Wait
           \/ Take \/ Written \/ Hear
  BY <1>5, LastAside DEF HandleEnded, Announce, Enqueue, AnnounceStep, Encode, Wait, Take, Written,
                         LinkGoes, LinkSays, Hear
<1>6. CASE PostFrame
  <2>1. [op |-> "send"] \in Command
    BY DEF Command
  <2> QED
    BY <1>6, <2>1, LastAppend DEF PostFrame, Post, IsSet
<1>7. ASSUME NEW l \in Links, Link(l) \/ HandleFinished(l)
      PROVE  LastOnItsWay'
  BY <1>7, LastAside DEF HandleFinished, Link, Runs, Connecting, OpenFails, Connected, Opened, Lost,
                         Retried, GivenUp, LinkGoes, LinkSays
<1>8. ASSUME NEW c \in Clients, (\E r \in Requests[c] : AskToSet(c, r)) \/ Read(c)
      PROVE  LastOnItsWay'
  BY <1>8, LastAside DEF AskToSet, Read
<1>9. CASE UNCHANGED vars
  BY <1>9, LastAside DEF vars
<1> QED
  BY <1>1, <1>2, <1>3, <1>4, <1>5, <1>6, <1>7, <1>8, <1>9, PostFieldLast
     DEF Next, Main, Loop, Task, Client

-----------------------------------------------------------------------------
(* What is said.                                                           *)

Items(queue) == {queue[i] : i \in DOMAIN queue}
Dropped == Failing("no such scenario")

LEMMA ItemsAppend ==
  ASSUME NEW S, NEW queue \in Seq(S), NEW x \in S
  PROVE  Items(Append(queue, x)) = Items(queue) \cup {x}
<1>1. 1 .. Len(queue) + 1 = 1 .. Len(queue) \cup {Len(queue) + 1}
  BY LenProperties
<1> QED
  BY <1>1, QueueAppend DEF Items

LEMMA ItemsOfOne == ASSUME NEW x PROVE Items(<<x>>) = {x}
<1>1. DOMAIN <<x>> = {1} /\ <<x>>[1] = x
  OBVIOUS
<1> QED
  BY <1>1 DEF Items

LEMMA ItemsTail ==
  ASSUME NEW S, NEW queue \in Seq(S), queue # <<>>
  PROVE  Items(Tail(queue)) \subseteq Items(queue) /\ Head(queue) \in Items(queue)
<1>1. \A i \in DOMAIN Tail(queue) : i + 1 \in DOMAIN queue /\ Tail(queue)[i] = queue[i + 1]
  BY QueueTail
<1>2. 1 \in DOMAIN queue /\ Head(queue) = queue[1]
  BY QueueTail
<1> QED
  BY <1>1, <1>2 DEF Items

LEMMA SaidIs == Said = Items(saying) \cup Items(events)
BY DEF Said, Items

LEMMA CountsAside ==
  ASSUME FirstOverrideCounts, Dropped \in Said' => Dropped \in Said,
         known = "freed" => known' = "freed", refused => refused'
  PROVE  FirstOverrideCounts'
BY DEF FirstOverrideCounts, Dropped

LEMMA SayAside ==
  ASSUME TypeInv, NEW e \in Event, Say(e), UNCHANGED saying
  PROVE  Said' = Said \cup {e}
<1>1. Items(events') = Items(events) \cup {e}
  BY ItemsAppend DEF TypeInv, HeldTypes, Say
<1>2. Said' = Items(saying') \cup Items(events')
  BY DEF Said, Items
<1>3. Items(saying') = Items(saying)
  BY DEF Items
<1> QED
  BY <1>1, <1>2, <1>3, SaidIs

(* What the loop takes up to say is about a link.                          *)
LEMMA SaidNow ==
  ASSUME UNCHANGED events,
         \/ UNCHANGED saying
         \/ saying' = <<Failing("not up")>>
         \/ saying' = <<[kind |-> "connection"]>>
  PROVE  Dropped \in Said' => Dropped \in Said
<1>1. Items(events') = Items(events) /\ Said' = Items(saying') \cup Items(events')
  BY DEF Said, Items
<1>2. Failing("not up") # Dropped /\ [kind |-> "connection"] # Dropped
  BY DEF Failing, Dropped
<1>3. CASE UNCHANGED saying
  BY <1>1, <1>3, SaidIs DEF Items
<1>4. CASE saying' = <<Failing("not up")>>
  <2>1. Items(saying') = {Failing("not up")}
    BY <1>4, ItemsOfOne DEF Items
  <2> QED
    BY <1>1, <1>2, <2>1, SaidIs
<1>5. CASE saying' = <<[kind |-> "connection"]>>
  <2>1. Items(saying') = {[kind |-> "connection"]}
    BY <1>5, ItemsOfOne DEF Items
  <2> QED
    BY <1>1, <1>2, <2>1, SaidIs
<1> QED
  BY <1>3, <1>4, <1>5

LEMMA HandleCommandCounts ==
  ASSUME TypeInv, StartFirst, FirstOverrideCounts, HandleCommand
  PROVE  FirstOverrideCounts'
<1> DEFINE c == Head(commands)
<1>1. /\ Len(commands) \in Nat \ {0} /\ c = commands[1] /\ c \in Command
      /\ DOMAIN commands = 1 .. Len(commands)
  BY QueueTail DEF HandleCommand, TypeInv, HeldTypes
<1>2. UNCHANGED <<events, refused>> /\ saying = <<>> /\ Alive
  BY DEF HandleCommand, Idle, mainVars, starting
<1>3. CASE UNCHANGED saying
  <2>1. Said' = Said
    BY <1>2, <1>3 DEF Said
  <2>2. IsStart(c) => known = "unknown"
    BY <1>1 DEF StartFirst
  <2>3. c.op # "start" => UNCHANGED known
    BY <1>1 DEF HandleCommand, ConnectHandled, SetHandled, SendHandled, loopVars,
                Command, SetCommand
  <2>4. known = "freed" => known' = "freed"
    BY <2>2, <2>3 DEF IsStart
  <2> QED
    BY <1>2, <2>1, <2>4, CountsAside
<1>4. CASE c.op = "set" /\ known # "known" /\ UNCHANGED known
  <2>1. CASE known = "freed"
    BY <1>4, <2>1 DEF FirstOverrideCounts
  <2>2. CASE known = "unknown"
    <3>1. 1 \in DOMAIN commands /\ IsSet(commands[1]) /\ ~IsStart(commands[1])
      BY <1>1, <1>4 DEF IsSet, IsStart
    <3>2. main \in {"opening", "watching"}
      BY <1>2, <3>1 DEF Alive, StartFirst, TypeInv, TypeOK
    <3>3. refused
      <4> SUFFICES ASSUME ~refused PROVE FALSE
        OBVIOUS
      <4>1. PICK j \in DOMAIN commands :
               IsStart(commands[j]) /\ \A i \in DOMAIN commands : IsSet(commands[i]) => j < i
        BY <2>2, <3>2 DEF StartFirst
      <4> QED
        BY <1>1, <3>1, <4>1
    <3> QED
      BY <1>2, <3>3 DEF FirstOverrideCounts
  <2> QED
    BY <1>4, <2>1, <2>2 DEF TypeInv, TypeOK
<1>5. CASE saying' = <<Failing("not up")>> /\ UNCHANGED known
  <2>1. Items(saying') = {Failing("not up")} /\ Failing("not up") # Dropped
    <3>1. Items(<<Failing("not up")>>) = {Failing("not up")}
      BY ItemsOfOne
    <3>2. Failing("not up") # Dropped
      BY DEF Failing, Dropped
    <3> QED
      BY <1>5, <3>1, <3>2 DEF Items
  <2>2. Said' = Items(saying') \cup Items(events') /\ Items(events') = Items(events)
    BY <1>2 DEF Said, Items
  <2>3. Dropped \in Said' => Dropped \in Said
    BY <2>1, <2>2, SaidIs
  <2> QED
    BY <1>2, <1>5, <2>3, CountsAside
<1>6. \/ UNCHANGED saying
      \/ c.op = "set" /\ known # "known" /\ UNCHANGED known
      \/ saying' = <<Failing("not up")>> /\ UNCHANGED known
  BY <1>1 DEF HandleCommand, ConnectHandled, StartHandled, SetHandled, SendHandled, loopVars,
              Command, SetCommand
<1> QED
  BY <1>3, <1>4, <1>5, <1>6

LEMMA CountsStep ==
  TypeInv /\ StartFirst /\ FirstOverrideCounts /\ [Next]_vars => FirstOverrideCounts'
<1> SUFFICES ASSUME TypeInv, StartFirst, FirstOverrideCounts, [Next]_vars PROVE FirstOverrideCounts'
  OBVIOUS
<1> USE DEF mainVars, starting, channels, loopVars, taskVars, linkVars, clientVars
<1>1. CASE Load \/ OpenSocket
  BY <1>1, CountsAside DEF Load, OpenSocket, Said
<1>2. CASE Watch
  <2>1. Items(events') \subseteq Items(events)
    BY <1>2, ItemsTail DEF Watch, TypeInv, HeldTypes
  <2>2. Said' \subseteq Said
    BY <1>2, <2>1 DEF Watch, Said, Items
  <2> QED
    BY <1>2, <2>2, CountsAside DEF Watch
<1>3. CASE OfferConnect \/ OfferStart
  BY <1>3, CountsAside DEF OfferConnect, OfferStart, StartFirst, Said
<1>4. CASE HandleEnded
  BY <1>4 DEF HandleEnded, FirstOverrideCounts
<1>5. CASE Announce
  <2>1. Head(saying) \in Event /\ Head(saying) \in Items(saying) /\ Items(saying') \subseteq Items(saying)
    BY <1>5, QueueTail, ItemsTail DEF Announce, TypeInv, HeldTypes
  <2>2. Items(events') = Items(events) \cup {Head(saying)}
    BY <1>5, <2>1, ItemsAppend DEF Announce, Say, TypeInv, HeldTypes
  <2>3. Said' \subseteq Said
    BY <2>1, <2>2 DEF Said, Items
  <2> QED
    BY <1>5, <2>3, CountsAside DEF Announce
<1>6. CASE Encode \/ Wait \/ PostFrame
  BY <1>6, CountsAside DEF Encode, Wait, PostFrame, Said
<1>7. ASSUME NEW e \in Event, e # Dropped, Say(e), UNCHANGED <<saying, known, refused>>
      PROVE  FirstOverrideCounts'
  BY <1>7, SayAside, CountsAside
<1>8. CASE AnnounceStep
  <2>1. [kind |-> "step", step |-> step, pass |-> pass] \in Event
    BY DEF Event, TypeInv, TypeOK
  <2> QED
    BY <1>7, <1>8, <2>1 DEF AnnounceStep, Dropped, Failing
<1>9. CASE Take
  BY <1>9, CountsAside DEF Take, LinkGoes, Said
<1>10. CASE Written \/ Hear
  <2>1. /\ [kind |-> "sent"] \in Event /\ [kind |-> "sent"] # Dropped
        /\ [kind |-> "received"] \in Event /\ [kind |-> "received"] # Dropped
    BY DEF Event, Dropped, Failing
  <2> QED
    BY <1>7, <1>10, <2>1 DEF Written, LinkSays, LinkGoes, Hear
<1>11. ASSUME NEW l \in Links, Link(l)
       PROVE  FirstOverrideCounts'
  <2>1. [kind |-> "connection"] \in Event /\ [kind |-> "connection"] # Dropped
        /\ Failing("cannot open") \in Event /\ Failing("cannot open") # Dropped
        /\ Failing("lost") \in Event /\ Failing("lost") # Dropped
    BY DEF Event, Failing, Dropped
  <2>2. CASE Connecting(l) \/ Connected(l)
    BY <1>7, <2>1, <2>2 DEF Connecting, Connected, LinkSays, LinkGoes
  <2>3. CASE OpenFails(l) \/ Lost(l)
    BY <1>7, <2>1, <2>3 DEF OpenFails, Lost, LinkSays, LinkGoes
  <2>4. CASE Opened(l) \/ Retried(l) \/ GivenUp(l)
    BY <2>4, CountsAside DEF Opened, Retried, GivenUp, LinkGoes, Said
  <2> QED
    BY <1>11, <2>2, <2>3, <2>4 DEF Link, Runs
<1>14. CASE Enqueue
  BY <1>14, SaidNow, CountsAside DEF Enqueue
<1>15. ASSUME NEW l \in Links, HandleFinished(l)
       PROVE  FirstOverrideCounts'
  BY <1>15, SaidNow, CountsAside DEF HandleFinished
<1>12. ASSUME NEW c \in Clients,
              \/ \E f \in Fields : PostField(c, f)
              \/ \E r \in Requests[c] : AskToSet(c, r)
              \/ Read(c)
       PROVE  FirstOverrideCounts'
  <2>1. UNCHANGED <<saying, events, known, refused>>
    BY <1>12 DEF PostField, AskToSet, Read
  <2>2. Said' = Said
    BY <2>1 DEF Said
  <2> QED
    BY <2>1, <2>2, CountsAside
<1>13. CASE UNCHANGED vars
  BY <1>13, CountsAside DEF vars, Said
<1> QED
  BY <1>1, <1>2, <1>3, <1>4, <1>5, <1>6, <1>8, <1>9, <1>10, <1>11, <1>12, <1>13, <1>14,
     <1>15, HandleCommandCounts DEF Next, Main, Loop, Task, Client

-----------------------------------------------------------------------------
LEMMA ControlCorrect == Spec => []ControlInv
<1>1. Init => ControlInv
  <2>1. Init => FirstOverrideCounts
    BY DEF Init, FirstOverrideCounts, Said
  <2> QED
    BY <2>1, TypeInit, StartInit, LastInit DEF ControlInv
<1>2. ControlInv /\ [Next]_vars => ControlInv'
  BY TypeStep, StartStep, LastStep, CountsStep DEF ControlInv
<1> QED
  BY <1>1, <1>2, PTL DEF Spec

(* What a client was told is taken is never dropped for want of a scenario *)
(* before the run is over, unless the full channel refused the start, and  *)
(* the run holds what was posted last (control.rs:217-313): for any number *)
(* of clients, fields and steps, and whatever the channels hold.           *)
THEOREM ToldIsTaken == Spec => []ValuesCount
<1>1. ControlInv => LastPostWins
  <2> SUFFICES ASSUME ControlInv, NEW s \in Slots, known = "known",
                      \A i \in DOMAIN commands :
                        commands[i].op = "set" => <<commands[i].step, commands[i].field>> # s
               PROVE  overrides[s] = lastPosted[s]
    BY DEF LastPostWins
  <2>1. OnItsWay(s)
    BY DEF ControlInv, LastOnItsWay, StartFirst
  <2> QED
    BY <2>1 DEF OnItsWay, Fills, IsSet
<1>2. ControlInv => ValuesCount
  BY <1>1 DEF ControlInv, TypeInv, ValuesCount
<1> QED
  BY ControlCorrect, <1>2, PTL
=============================================================================
