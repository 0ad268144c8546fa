---------------------------- MODULE EngineProofs ----------------------------
(***************************************************************************)
(* Proofs about the engine for any names, configurations, capacities and   *)
(* bounds: types, who holds a name, and what its steps add up to, which is *)
(* that an end is the last word of a task, that the engine implements      *)
(* NameSlots, that a send is refused without a peer and that a link is     *)
(* tried no more often than its policy allows.  Then about the session     *)
(* that watches it: what the front end shows is what there is.             *)
(***************************************************************************)
EXTENDS Session, SequenceTheorems, TLAPS

(* What a task says and where it goes on belong to their types. *)
LEMMA SpeakingTypes ==
  ASSUME NEW p \in Speaking
  PROVE  Speaks[p] \in EventKind /\ Resumes[p] \in PCs
BY DEF Speaking, Speaks, Resumes, EventKind, PCs

TypeInv == TypeOK /\ StartsAreBounded /\ PendingNamed /\ Owned

LEMMA TypeInit == Init => TypeInv
<1> SUFFICES ASSUME Init PROVE TypeInv
  OBVIOUS
<1> USE ConstantsAssumption DEF Init
<1>1. commands \in Seq(Command) /\ events \in Seq(Event)
  OBVIOUS
<1>2. finished \in Seq(Notice(Ids)) /\ ended \in Seq(Notice(Scenarios))
  OBVIOUS
<1>3. pending \in [kind : EventKind, name : Names \cup {None},
                   generation : Generations \cup {None}]
  BY DEF NoEvent, EventKind
<1>4. nextGeneration \in 0 .. MaxGenerations
  OBVIOUS
<1>5. connections \in [Ids -> Generations \cup {None}]
      /\ scenarios \in [Scenarios -> Generations \cup {None}]
      /\ owner \in [Generations -> Names \cup {None}]
      /\ config \in [Generations -> Configs \cup {None}]
  OBVIOUS
<1>6. pc \in [Generations -> PCs]
  BY DEF PCs
<1>7. aborted \in [Generations -> BOOLEAN] /\ connected \in [Generations -> BOOLEAN]
      /\ failures \in [Generations -> 0 .. FailureCeiling]
      /\ outgoing \in [Generations -> Seq(Nat)]
      /\ links \in [Generations -> 0 .. MaxLinks]
  OBVIOUS
<1>8. loop \in {"idle", "emitting", "queueing", "stopped"} /\ closed \in BOOLEAN
  OBVIOUS
<1>9. StartsAreBounded /\ PendingNamed /\ Owned
  BY DEF StartsAreBounded, PendingNamed, Owned
<1> QED
  BY <1>1, <1>2, <1>3, <1>4, <1>5, <1>6, <1>7, <1>8, <1>9 DEF TypeInv, TypeOK

LEMMA GoesType ==
  ASSUME TypeOK, NEW g \in Generations, NEW from, NEW to \in PCs, Goes(g, from, to)
  PROVE  pc' \in [Generations -> PCs]
BY DEF TypeOK, Goes

LEMMA EmitType ==
  ASSUME TypeOK, NEW e \in Event, Emit(e)
  PROVE  events' \in Seq(Event)
<1>1. events \in Seq(Event)
  BY DEF TypeOK
<1>2. Append(events, e) \in Seq(Event)
  BY <1>1, AppendProperties
<1> QED
  BY <1>1, <1>2 DEF Emit

(* A step of a task that touches nothing outside it. *)
Quiet(g) ==
  /\ \E from, to \in PCs \ {"unborn", "done"} : Goes(g, from, to)
  /\ UNCHANGED <<channels, loopVars, birth, aborted>>

LEMMA LinkStepIsQuiet ==
  ASSUME NEW g \in Generations, LinkStep(g)
  PROVE  Quiet(g)
<1> USE DEF Quiet, PCs, Speaking
<1>1. CASE Opened(g)           BY <1>1 DEF Opened
<1>2. CASE OpenFails(g)        BY <1>2 DEF OpenFails
<1>3. CASE Accepted(g)         BY <1>3 DEF Accepted
<1>4. CASE AcceptFails(g)      BY <1>4 DEF AcceptFails
<1>5. CASE NothingToAccept(g)  BY <1>5 DEF NothingToAccept
<1>6. CASE Take(g)             BY <1>6 DEF Take
<1>7. CASE Written(g)          BY <1>7 DEF Written
<1>8. CASE WriteFails(g)       BY <1>8 DEF WriteFails
<1>9. CASE Heard(g)            BY <1>9 DEF Heard
<1>10. CASE ReceiveFails(g)    BY <1>10 DEF ReceiveFails
<1>11. CASE LetGo(g)           BY <1>11 DEF LetGo
<1>12. CASE PeerLost(g)        BY <1>12 DEF PeerLost
<1>13. CASE LinkEnds(g)        BY <1>13 DEF LinkEnds
<1>14. CASE Wake(g)            BY <1>14 DEF Wake
<1> QED
  BY <1>1, <1>2, <1>3, <1>4, <1>5, <1>6, <1>7, <1>8, <1>9, <1>10, <1>11, <1>12,
     <1>13, <1>14 DEF LinkStep

LinkTypes ==
  /\ connected \in [Generations -> BOOLEAN]
  /\ failures \in [Generations -> 0 .. FailureCeiling]
  /\ outgoing \in [Generations -> Seq(Nat)]
  /\ links \in [Generations -> 0 .. MaxLinks]

LEMMA LinkUpTypes ==
  ASSUME TypeOK, NEW g \in Generations, LinkUp(g)
  PROVE  /\ connected' \in [Generations -> BOOLEAN]
         /\ links' \in [Generations -> 0 .. MaxLinks]
<1>1. /\ connected \in [Generations -> BOOLEAN]
      /\ links \in [Generations -> 0 .. MaxLinks]
      /\ MaxLinks \in Nat
  BY ConstantsAssumption DEF TypeOK
<1>2. links[g] + 1 \in 0 .. MaxLinks
  BY <1>1 DEF LinkUp
<1> QED
  BY <1>1, <1>2 DEF LinkUp

LEMMA LinkStepTypes ==
  ASSUME TypeOK, NEW g \in Generations, LinkStep(g)
  PROVE  LinkTypes'
<1>0. LinkTypes /\ FailureCeiling \in Nat
  BY ConstantsAssumption DEF TypeOK, LinkTypes
<1> USE <1>0 DEF LinkTypes, linkVars
<1>1. CASE Opened(g)
  <2>1. failures' \in [Generations -> 0 .. FailureCeiling]
    BY <1>1 DEF Opened
  <2>2. connected' \in [Generations -> BOOLEAN] /\ links' \in [Generations -> 0 .. MaxLinks]
    BY <1>1, LinkUpTypes DEF Opened
  <2> QED
    BY <1>1, <2>1, <2>2 DEF Opened
<1>2. CASE OpenFails(g)        BY <1>2 DEF OpenFails
<1>3. CASE Accepted(g)         BY <1>3, LinkUpTypes DEF Accepted
<1>4. CASE AcceptFails(g)      BY <1>4 DEF AcceptFails
<1>5. CASE NothingToAccept(g)  BY <1>5 DEF NothingToAccept
<1>6. CASE Take(g)
  <2>1. Tail(outgoing[g]) \in Seq(Nat)
    BY <1>6, HeadTailProperties DEF Take
  <2> QED
    BY <1>6, <2>1 DEF Take
<1>7. CASE Written(g)          BY <1>7 DEF Written
<1>8. CASE WriteFails(g)       BY <1>8 DEF WriteFails
<1>9. CASE Heard(g)            BY <1>9 DEF Heard
<1>10. CASE ReceiveFails(g)    BY <1>10 DEF ReceiveFails
<1>11. CASE LetGo(g)           BY <1>11 DEF LetGo, FlagDown
<1>12. CASE PeerLost(g)        BY <1>12 DEF PeerLost, FlagDown
<1>13. CASE LinkEnds(g)        BY <1>13 DEF LinkEnds, FlagDown
<1>14. CASE Wake(g)            BY <1>14 DEF Wake, OneMore
<1> QED
  BY <1>1, <1>2, <1>3, <1>4, <1>5, <1>6, <1>7, <1>8, <1>9, <1>10, <1>11, <1>12,
     <1>13, <1>14 DEF LinkStep

LEMMA QuietType ==
  ASSUME TypeInv, NEW g \in Generations, Quiet(g), LinkTypes'
  PROVE  TypeInv'
<1>1. PICK from, to \in PCs \ {"unborn", "done"} : Goes(g, from, to)
  BY DEF Quiet
<1>2. pc' \in [Generations -> PCs]
  BY <1>1, GoesType DEF TypeInv
<1>3. \A h \in Generations : pc[h] # "unborn" <=> pc'[h] # "unborn"
  BY <1>1 DEF Goes, TypeInv, TypeOK
<1>4. Owned'
  BY <1>3 DEF Quiet, TypeInv, TypeOK, Owned, birth, loopVars
<1> QED
  BY <1>2, <1>4 DEF TypeInv, TypeOK, StartsAreBounded, PendingNamed, Quiet, LinkTypes, channels,
              loopVars, birth

LEMMA SpeakType ==
  ASSUME TypeInv, NEW g \in Generations, Speak(g)
  PROVE  TypeInv'
<1>1. Saying(Speaks[pc[g]], owner[g], g) \in Event
  BY SpeakingTypes DEF Speak, Saying, Event, TypeInv, Owned, Speaking
<1>2. events' \in Seq(Event)
  BY <1>1, EmitType DEF Speak, TypeInv
<1>3. pc' \in [Generations -> PCs]
  BY SpeakingTypes, GoesType DEF Speak, TypeInv
<1>4. Resumes[pc[g]] # "unborn" /\ pc[g] # "unborn"
  BY DEF Speak, Speaking, Resumes
<1>5. Owned'
  BY <1>4 DEF Speak, TypeInv, TypeOK, Owned, Goes, birth, loopVars
<1> QED
  BY <1>2, <1>3, <1>5 DEF Speak, TypeInv, TypeOK, StartsAreBounded, PendingNamed, loopVars,
                          birth, linkVars

LEMMA PostType ==
  ASSUME TypeInv, NEW c \in Command, Post(c), UNCHANGED nextGeneration,
         c.op \in {"Connect", "Start"} => nextGeneration + Len(commands) < MaxGenerations
  PROVE  commands' \in Seq(Command) /\ StartsAreBounded'
<1>1. commands \in Seq(Command) /\ commands' = Append(commands, c)
  BY DEF TypeInv, TypeOK, Post
<1>2. commands' \in Seq(Command) /\ Len(commands') = Len(commands) + 1
      /\ commands'[Len(commands) + 1] = c
      /\ \A i \in 1 .. Len(commands) : commands'[i] = commands[i]
  BY <1>1, AppendProperties
<1>3. ASSUME NEW i \in DOMAIN commands', commands'[i].op \in {"Connect", "Start"}
      PROVE  nextGeneration + i <= MaxGenerations
  <2>1. i \in 1 .. Len(commands) + 1 /\ Len(commands) \in Nat
    BY <1>1, <1>2, LenProperties
  <2>2. CASE i = Len(commands) + 1
    BY <1>2, <1>3, <2>2, ConstantsAssumption, <2>1 DEF TypeInv, TypeOK
  <2>3. CASE i \in 1 .. Len(commands)
    BY <1>1, <1>2, <1>3, <2>3, LenProperties DEF TypeInv, StartsAreBounded
  <2> QED
    BY <2>1, <2>2, <2>3
<1> QED
  BY <1>2, <1>3 DEF StartsAreBounded

LEMMA ScenarioStepIsQuiet ==
  ASSUME NEW g \in Generations, ScenarioStep(g)
  PROVE  (Quiet(g) /\ UNCHANGED linkVars) \/ PostSend(g)
<1> USE DEF Quiet, PCs, Speaking
<1>1. CASE NextStep(g)      BY <1>1 DEF NextStep
<1>2. CASE StepDone(g)      BY <1>2 DEF StepDone
<1>3. CASE Upgrade(g)       BY <1>3 DEF Upgrade
<1>4. CASE ScenarioEnds(g)  BY <1>4 DEF ScenarioEnds
<1> QED
  BY <1>1, <1>2, <1>3, <1>4 DEF ScenarioStep

LEMMA ScenarioStepType ==
  ASSUME TypeInv, NEW g \in Generations, ScenarioStep(g)
  PROVE  TypeInv'
<1>1. CASE Quiet(g) /\ UNCHANGED linkVars
  BY <1>1, QuietType DEF LinkTypes, TypeInv, TypeOK, linkVars
<1>2. CASE PostSend(g)
  <2>1. PICK id \in Ids : Post([op |-> "SendRaw", name |-> id, config |-> None])
    BY <1>2 DEF PostSend
  <2>2. [op |-> "SendRaw", name |-> id, config |-> None] \in Command
    BY DEF Command
  <2>3. commands' \in Seq(Command) /\ StartsAreBounded'
    BY <1>2, <2>1, <2>2, PostType DEF PostSend, loopVars
  <2>4. pc' \in [Generations -> PCs] /\ Owned'
    BY <1>2, GoesType DEF PostSend, PCs, TypeInv, TypeOK, Owned, Goes, birth, loopVars
  <2> QED
    BY <1>2, <2>3, <2>4 DEF PostSend, TypeInv, TypeOK, PendingNamed, loopVars, birth, linkVars
<1> QED
  BY <1>1, <1>2, ScenarioStepIsQuiet

LEMMA GoneType ==
  ASSUME TypeInv, NEW g \in Generations, Gone(g), pc[g] # "unborn",
         UNCHANGED <<birth, aborted, loopVars>>
  PROVE  pc' \in [Generations -> PCs] /\ Owned' /\ LinkTypes'
<1>1. pc' \in [Generations -> PCs] /\ Owned'
  BY GoesType DEF Gone, PCs, TypeInv, TypeOK, Owned, Goes, birth, loopVars
<1>2. LinkTypes'
  BY ConstantsAssumption DEF Gone, TypeInv, TypeOK, LinkTypes
<1> QED
  BY <1>1, <1>2

LEMMA NotifyType ==
  ASSUME TypeInv, NEW g \in Generations, Notify(g)
  PROVE  TypeInv'
<1>1. pc' \in [Generations -> PCs] /\ Owned' /\ LinkTypes'
  BY GoneType DEF Notify
<1> DEFINE notice == [name |-> owner[g], generation |-> g]
<1>2. finished' \in Seq(Notice(Ids)) /\ ended' \in Seq(Notice(Scenarios))
  <2>1. CASE owner[g] \in Ids /\ finished' = Append(finished, notice) /\ UNCHANGED ended
    BY <2>1, AppendProperties DEF TypeInv, TypeOK, Notice
  <2>2. CASE owner[g] \in Scenarios /\ ended' = Append(ended, notice) /\ UNCHANGED finished
    BY <2>2, AppendProperties DEF TypeInv, TypeOK, Notice
  <2> QED
    BY <2>1, <2>2 DEF Notify
<1> QED
  BY <1>1, <1>2 DEF Notify, TypeInv, TypeOK, LinkTypes, StartsAreBounded, PendingNamed,
                    loopVars, birth

LEMMA ReapType ==
  ASSUME TypeInv, NEW g \in Generations, Reap(g)
  PROVE  TypeInv'
<1>1. pc' \in [Generations -> PCs] /\ Owned' /\ LinkTypes'
  BY GoneType DEF Reap, TypeInv, Owned
<1> QED
  BY <1>1 DEF Reap, TypeInv, TypeOK, LinkTypes, StartsAreBounded, PendingNamed,
              channels, loopVars, birth

-----------------------------------------------------------------------------
(* The loop. *)

LEMMA SuspendTypes ==
  ASSUME NEW kind \in EventKind, NEW name \in Names, NEW g \in Generations \cup {None},
         Suspend(kind, name, g)
  PROVE  /\ loop' = "emitting"
         /\ pending' \in Event
         /\ pending' \in [kind : EventKind, name : Names \cup {None},
                          generation : Generations \cup {None}]
         /\ PendingNamed'
BY DEF Suspend, Saying, Event, PendingNamed

(* The command a handler takes is off the queue, and one that starts a     *)
(* task finds a generation left for it.                                    *)
LEMMA HandlingTypes ==
  ASSUME TypeInv, NEW op, Handling(op),
         nextGeneration' \in {nextGeneration, nextGeneration + 1}
  PROVE  /\ commands' \in Seq(Command)
         /\ StartsAreBounded'
         /\ Head(commands) \in Command /\ Head(commands).op = op
         /\ op \in {"Connect", "Start"} => nextGeneration \in Generations
<1>1. commands \in Seq(Command) /\ commands # <<>> /\ nextGeneration \in Nat
      /\ MaxGenerations \in Nat
  BY ConstantsAssumption DEF TypeInv, TypeOK, Handling
<1>2. /\ Head(commands) \in Command /\ Head(commands) = commands[1]
      /\ Tail(commands) \in Seq(Command) /\ Len(Tail(commands)) = Len(commands) - 1
      /\ \A i \in 1 .. Len(Tail(commands)) : Tail(commands)[i] = commands[i + 1]
      /\ Len(commands) \in Nat \ {0}
  BY <1>1, HeadTailProperties, EmptySeq, LenProperties
<1>3. DOMAIN commands = 1 .. Len(commands)
      /\ DOMAIN commands' = 1 .. Len(commands) - 1
      /\ \A i \in DOMAIN commands' : commands'[i] = commands[i + 1]
  BY <1>1, <1>2, LenProperties DEF Handling
<1>4. ASSUME NEW i \in DOMAIN commands', commands'[i].op \in {"Connect", "Start"}
      PROVE  nextGeneration' + i <= MaxGenerations
  <2>1. i \in Nat /\ i + 1 \in DOMAIN commands /\ commands'[i] = commands[i + 1]
    BY <1>2, <1>3, <1>4
  <2>2. nextGeneration + (i + 1) <= MaxGenerations
    BY <1>4, <2>1 DEF TypeInv, StartsAreBounded
  <2> QED
    BY <1>1, <2>1, <2>2
<1>5. ASSUME op \in {"Connect", "Start"}
      PROVE  nextGeneration \in Generations
  <2>1. 1 \in DOMAIN commands /\ commands[1].op = op
    BY <1>2, <1>3 DEF Handling
  <2>2. nextGeneration + 1 <= MaxGenerations
    BY <1>5, <2>1 DEF TypeInv, StartsAreBounded
  <2> QED
    BY <1>1, <2>2 DEF Generations
<1> QED
  BY <1>2, <1>4, <1>5 DEF Handling, StartsAreBounded

LEMMA SpawnTypes ==
  ASSUME TypeInv, nextGeneration \in Generations,
         NEW name \in Names, NEW cfg \in Configs \cup {None},
         NEW start \in PCs \ {"unborn"}, Spawn(name, cfg, start)
  PROVE  /\ nextGeneration' \in 0 .. MaxGenerations
         /\ owner' \in [Generations -> Names \cup {None}]
         /\ config' \in [Generations -> Configs \cup {None}]
         /\ pc' \in [Generations -> PCs]
         /\ pc'[nextGeneration] # "unborn"
         /\ \A g \in Generations : pc[g] # "unborn" => pc'[g] # "unborn"
         /\ \A g \in Generations : pc'[g] # "unborn" => owner'[g] \in Names
<1>1. nextGeneration' \in 0 .. MaxGenerations
  BY ConstantsAssumption DEF Spawn, Generations
<1>2. /\ owner' \in [Generations -> Names \cup {None}]
      /\ config' \in [Generations -> Configs \cup {None}]
      /\ pc' \in [Generations -> PCs]
  BY DEF Spawn, Begin, TypeInv, TypeOK
<1>3. \A g \in Generations :
        /\ pc'[g] = IF g = nextGeneration THEN start ELSE pc[g]
        /\ owner'[g] = IF g = nextGeneration THEN name ELSE owner[g]
  BY DEF Spawn, Begin, TypeInv, TypeOK
<1> QED
  BY <1>1, <1>2, <1>3 DEF TypeInv, Owned

LEMMA HandleConnectType ==
  ASSUME TypeInv, HandleConnect
  PROVE  TypeInv'
<1> DEFINE id == Head(commands).name
<1>1. nextGeneration' \in {nextGeneration, nextGeneration + 1}
  BY DEF HandleConnect, Spawn
<1>2. commands' \in Seq(Command) /\ StartsAreBounded' /\ Head(commands) \in Command
      /\ nextGeneration \in Generations /\ Head(commands).op = "Connect"
  BY <1>1, HandlingTypes DEF HandleConnect
<1>3. id \in Ids /\ id \in Names /\ Head(commands).config \in Configs
  BY <1>2 DEF Command, Names
<1>4. CASE Suspend("Error", id, None) /\ UNCHANGED <<connections, nextGeneration, birth, pc>>
  <2>1. PendingNamed' /\ loop' = "emitting"
        /\ pending' \in [kind : EventKind, name : Names \cup {None},
                         generation : Generations \cup {None}]
    BY <1>3, <1>4, SuspendTypes DEF EventKind
  <2> QED
    BY <1>2, <1>4, <2>1 DEF HandleConnect, TypeInv, TypeOK, Owned, birth, linkVars
<1>5. CASE /\ Spawn(id, Head(commands).config, "connecting")
           /\ connections' = [connections EXCEPT ![id] = nextGeneration]
           /\ UNCHANGED <<loop, pending>>
  <2>1. "connecting" \in PCs \ {"unborn"}
    BY DEF PCs, Speaking
  <2>2. /\ nextGeneration' \in 0 .. MaxGenerations
        /\ owner' \in [Generations -> Names \cup {None}]
        /\ config' \in [Generations -> Configs \cup {None}]
        /\ pc' \in [Generations -> PCs]
        /\ pc'[nextGeneration] # "unborn"
        /\ \A g \in Generations : pc[g] # "unborn" => pc'[g] # "unborn"
        /\ \A g \in Generations : pc'[g] # "unborn" => owner'[g] \in Names
    BY <1>2, <1>3, <1>5, <2>1, SpawnTypes
  <2>3. connections' \in [Ids -> Generations \cup {None}]
    BY <1>2, <1>3, <1>5 DEF TypeInv, TypeOK
  <2>4. Owned'
    BY <1>2, <1>3, <1>5, <2>2 DEF HandleConnect, TypeInv, TypeOK, Owned
  <2>5. PendingNamed'
    BY <1>5 DEF TypeInv, PendingNamed
  <2> QED
    BY <1>2, <1>5, <2>2, <2>3, <2>4, <2>5 DEF HandleConnect, TypeInv, TypeOK, linkVars
<1> QED
  BY <1>4, <1>5 DEF HandleConnect

LEMMA HandleStartType ==
  ASSUME TypeInv, HandleStart
  PROVE  TypeInv'
<1> DEFINE s == Head(commands).name
<1>1. nextGeneration' \in {nextGeneration, nextGeneration + 1}
  BY DEF HandleStart, Spawn
<1>2. commands' \in Seq(Command) /\ StartsAreBounded' /\ Head(commands) \in Command
      /\ nextGeneration \in Generations /\ Head(commands).op = "Start"
  BY <1>1, HandlingTypes DEF HandleStart
<1>3. s \in Scenarios /\ s \in Names
  BY <1>2 DEF Command, Names
<1>4. CASE Suspend("Error", s, None) /\ UNCHANGED <<scenarios, nextGeneration, birth, pc>>
  <2>1. PendingNamed' /\ loop' = "emitting"
        /\ pending' \in [kind : EventKind, name : Names \cup {None},
                         generation : Generations \cup {None}]
    BY <1>3, <1>4, SuspendTypes DEF EventKind
  <2> QED
    BY <1>2, <1>4, <2>1 DEF HandleStart, TypeInv, TypeOK, Owned, birth, linkVars
<1>5. CASE /\ Spawn(s, None, "pass")
           /\ scenarios' = [scenarios EXCEPT ![s] = nextGeneration]
           /\ UNCHANGED <<loop, pending>>
  <2>1. "pass" \in PCs \ {"unborn"}
    BY DEF PCs
  <2>2. /\ nextGeneration' \in 0 .. MaxGenerations
        /\ owner' \in [Generations -> Names \cup {None}]
        /\ config' \in [Generations -> Configs \cup {None}]
        /\ pc' \in [Generations -> PCs]
        /\ pc'[nextGeneration] # "unborn"
        /\ \A g \in Generations : pc[g] # "unborn" => pc'[g] # "unborn"
        /\ \A g \in Generations : pc'[g] # "unborn" => owner'[g] \in Names
    BY <1>2, <1>3, <1>5, <2>1, SpawnTypes
  <2>3. scenarios' \in [Scenarios -> Generations \cup {None}]
    BY <1>2, <1>3, <1>5 DEF TypeInv, TypeOK
  <2>4. Owned'
    BY <1>2, <1>3, <1>5, <2>2 DEF HandleStart, TypeInv, TypeOK, Owned
  <2>5. PendingNamed'
    BY <1>5 DEF TypeInv, PendingNamed
  <2> QED
    BY <1>2, <1>5, <2>2, <2>3, <2>4, <2>5 DEF HandleStart, TypeInv, TypeOK, linkVars
<1> QED
  BY <1>4, <1>5 DEF HandleStart

LEMMA HandleDisconnectType ==
  ASSUME TypeInv, HandleDisconnect
  PROVE  TypeInv'
<1> DEFINE id == Head(commands).name
<1>1. commands' \in Seq(Command) /\ StartsAreBounded' /\ Head(commands) \in Command
      /\ Head(commands).op = "Disconnect"
  BY HandlingTypes DEF HandleDisconnect
<1>2. id \in Ids /\ id \in Names
  BY <1>1 DEF Command, Names
<1>3. CASE Suspend("Error", id, None) /\ UNCHANGED <<connections, aborted>>
  <2>1. PendingNamed' /\ loop' = "emitting"
        /\ pending' \in [kind : EventKind, name : Names \cup {None},
                         generation : Generations \cup {None}]
    BY <1>2, <1>3, SuspendTypes DEF EventKind
  <2> QED
    BY <1>1, <1>3, <2>1 DEF HandleDisconnect, TypeInv, TypeOK, Owned, birth, linkVars
<1>4. CASE /\ connections[id] # None
           /\ connections' = Vacate(connections, id)
           /\ aborted' = [aborted EXCEPT ![connections[id]] = TRUE]
           /\ Suspend("Disconnected", id, connections[id])
  <2>1. connections[id] \in Generations
    BY <1>2, <1>4 DEF TypeInv, TypeOK
  <2>2. PendingNamed' /\ loop' = "emitting"
        /\ pending' \in [kind : EventKind, name : Names \cup {None},
                         generation : Generations \cup {None}]
    BY <1>2, <1>4, <2>1, SuspendTypes DEF EventKind
  <2>3. connections' \in [Ids -> Generations \cup {None}]
        /\ aborted' \in [Generations -> BOOLEAN]
    BY <1>2, <1>4, <2>1 DEF Vacate, TypeInv, TypeOK
  <2>4. Owned'
    BY <1>2, <1>4, <2>1 DEF HandleDisconnect, Vacate, TypeInv, TypeOK, Owned, birth
  <2> QED
    BY <1>1, <2>2, <2>3, <2>4 DEF HandleDisconnect, TypeInv, TypeOK, birth, linkVars
<1> QED
  BY <1>3, <1>4 DEF HandleDisconnect

LEMMA HandleStopType ==
  ASSUME TypeInv, HandleStop
  PROVE  TypeInv'
<1> DEFINE s == Head(commands).name
<1>1. commands' \in Seq(Command) /\ StartsAreBounded' /\ Head(commands) \in Command
      /\ Head(commands).op = "Stop"
  BY HandlingTypes DEF HandleStop
<1>2. s \in Scenarios /\ s \in Names
  BY <1>1 DEF Command, Names
<1>3. CASE Suspend("Error", s, None) /\ UNCHANGED <<scenarios, aborted>>
  <2>1. PendingNamed' /\ loop' = "emitting"
        /\ pending' \in [kind : EventKind, name : Names \cup {None},
                         generation : Generations \cup {None}]
    BY <1>2, <1>3, SuspendTypes DEF EventKind
  <2> QED
    BY <1>1, <1>3, <2>1 DEF HandleStop, TypeInv, TypeOK, Owned, birth, linkVars
<1>4. CASE /\ scenarios[s] # None
           /\ scenarios' = Vacate(scenarios, s)
           /\ aborted' = [aborted EXCEPT ![scenarios[s]] = TRUE]
           /\ Suspend("Finished", s, scenarios[s])
  <2>1. scenarios[s] \in Generations
    BY <1>2, <1>4 DEF TypeInv, TypeOK
  <2>2. PendingNamed' /\ loop' = "emitting"
        /\ pending' \in [kind : EventKind, name : Names \cup {None},
                         generation : Generations \cup {None}]
    BY <1>2, <1>4, <2>1, SuspendTypes DEF EventKind
  <2>3. scenarios' \in [Scenarios -> Generations \cup {None}]
        /\ aborted' \in [Generations -> BOOLEAN]
    BY <1>2, <1>4, <2>1 DEF Vacate, TypeInv, TypeOK
  <2>4. Owned'
    BY <1>2, <1>4, <2>1 DEF HandleStop, Vacate, TypeInv, TypeOK, Owned, birth
  <2> QED
    BY <1>1, <2>2, <2>3, <2>4 DEF HandleStop, TypeInv, TypeOK, birth, linkVars
<1> QED
  BY <1>3, <1>4 DEF HandleStop

LEMMA HandleSendRawType ==
  ASSUME TypeInv, HandleSendRaw
  PROVE  TypeInv'
<1> DEFINE id == Head(commands).name
           g  == connections[id]
<1>1. commands' \in Seq(Command) /\ StartsAreBounded' /\ Head(commands) \in Command
      /\ Head(commands).op = "SendRaw"
  BY HandlingTypes DEF HandleSendRaw
<1>2. id \in Ids /\ id \in Names
  BY <1>1 DEF Command, Names
<1>3. /\ loop' \in {"emitting", "queueing"} /\ PendingNamed'
      /\ pending' \in [kind : EventKind, name : Names \cup {None},
                       generation : Generations \cup {None}]
  <2>1. CASE g # None /\ loop' = "queueing" /\ pending' = Saying("Sent", id, g)
    <3>1. g \in Generations
      BY <1>2, <2>1 DEF TypeInv, TypeOK
    <3> QED
      BY <1>2, <2>1, <3>1 DEF Saying, EventKind, Event, PendingNamed
  <2>2. CASE Suspend("Error", id, None)
    BY <1>2, <2>2, SuspendTypes DEF EventKind
  <2> QED
    BY <2>1, <2>2 DEF HandleSendRaw
<1> QED
  BY <1>1, <1>3 DEF HandleSendRaw, TypeInv, TypeOK, Owned, taskVars, birth, linkVars

LEMMA HandleSetValueType ==
  ASSUME TypeInv, HandleSetValue
  PROVE  TypeInv'
<1> DEFINE s == Head(commands).name
<1>1. commands' \in Seq(Command) /\ StartsAreBounded' /\ Head(commands) \in Command
      /\ Head(commands).op = "SetValue"
  BY HandlingTypes DEF HandleSetValue
<1>2. s \in Names
  BY <1>1 DEF Command, Names
<1>3. CASE Suspend("Error", s, None)
  <2>1. PendingNamed' /\ loop' = "emitting"
        /\ pending' \in [kind : EventKind, name : Names \cup {None},
                         generation : Generations \cup {None}]
    BY <1>2, <1>3, SuspendTypes DEF EventKind
  <2> QED
    BY <1>1, <2>1 DEF HandleSetValue, TypeInv, TypeOK, Owned, taskVars, birth, linkVars
<1>4. CASE UNCHANGED <<loop, pending>>
  BY <1>1, <1>4
     DEF HandleSetValue, TypeInv, TypeOK, Owned, PendingNamed, taskVars, birth, linkVars
<1> QED
  BY <1>3, <1>4 DEF HandleSetValue

(* A queue that loses its head keeps its type. *)
LEMMA TailType ==
  ASSUME NEW S, NEW queue \in Seq(S), queue # <<>>
  PROVE  Tail(queue) \in Seq(S) /\ Head(queue) \in S
BY HeadTailProperties

LEMMA FinishedNoticeType ==
  ASSUME TypeInv, FinishedNotice
  PROVE  TypeInv'
<1> DEFINE notice == Head(finished)
<1>1. finished' \in Seq(Notice(Ids)) /\ notice \in Notice(Ids)
  BY TailType DEF FinishedNotice, TypeInv, TypeOK
<1>2. notice.name \in Ids /\ notice.name \in Names /\ notice.generation \in Generations
  BY <1>1 DEF Notice, Names
<1>3. CASE /\ connections' = Vacate(connections, notice.name)
           /\ Suspend("Disconnected", notice.name, notice.generation)
  <2>1. PendingNamed' /\ loop' = "emitting"
        /\ pending' \in [kind : EventKind, name : Names \cup {None},
                         generation : Generations \cup {None}]
    BY <1>2, <1>3, SuspendTypes DEF EventKind
  <2>2. connections' \in [Ids -> Generations \cup {None}] /\ Owned'
    BY <1>2, <1>3 DEF FinishedNotice, Vacate, TypeInv, TypeOK, Owned, taskVars, birth
  <2> QED
    BY <1>1, <2>1, <2>2 DEF FinishedNotice, TypeInv, TypeOK, StartsAreBounded, taskVars,
                            birth, linkVars
<1>4. CASE UNCHANGED <<connections, loop, pending>>
  BY <1>1, <1>4 DEF FinishedNotice, TypeInv, TypeOK, StartsAreBounded, PendingNamed, Owned,
                    taskVars, birth, linkVars
<1> QED
  BY <1>3, <1>4 DEF FinishedNotice

LEMMA EndedNoticeType ==
  ASSUME TypeInv, EndedNotice
  PROVE  TypeInv'
<1> DEFINE notice == Head(ended)
<1>1. ended' \in Seq(Notice(Scenarios)) /\ notice \in Notice(Scenarios)
  BY TailType DEF EndedNotice, TypeInv, TypeOK
<1>2. notice.name \in Scenarios /\ notice.name \in Names /\ notice.generation \in Generations
  BY <1>1 DEF Notice, Names
<1>3. CASE /\ scenarios' = Vacate(scenarios, notice.name)
           /\ Suspend("Finished", notice.name, notice.generation)
  <2>1. PendingNamed' /\ loop' = "emitting"
        /\ pending' \in [kind : EventKind, name : Names \cup {None},
                         generation : Generations \cup {None}]
    BY <1>2, <1>3, SuspendTypes DEF EventKind
  <2>2. scenarios' \in [Scenarios -> Generations \cup {None}] /\ Owned'
    BY <1>2, <1>3 DEF EndedNotice, Vacate, TypeInv, TypeOK, Owned, taskVars, birth
  <2> QED
    BY <1>1, <2>1, <2>2 DEF EndedNotice, TypeInv, TypeOK, StartsAreBounded, taskVars,
                            birth, linkVars
<1>4. CASE UNCHANGED <<scenarios, loop, pending>>
  BY <1>1, <1>4 DEF EndedNotice, TypeInv, TypeOK, StartsAreBounded, PendingNamed, Owned,
                    taskVars, birth, linkVars
<1> QED
  BY <1>3, <1>4 DEF EndedNotice

LEMMA AnnounceType ==
  ASSUME TypeInv, Announce
  PROVE  TypeInv'
<1>1. events' \in Seq(Event)
  BY EmitType DEF Announce, TypeInv, PendingNamed
<1>2. pending' \in [kind : EventKind, name : Names \cup {None},
                    generation : Generations \cup {None}]
  BY DEF Announce, NoEvent, EventKind
<1> QED
  BY <1>1, <1>2 DEF Announce, TypeInv, TypeOK, StartsAreBounded, PendingNamed, Owned,
                    taskVars, birth, linkVars

LEMMA EnqueueType ==
  ASSUME TypeInv, Enqueue
  PROVE  TypeInv'
<1> DEFINE g == pending.generation
<1>1. g \in Generations /\ pending.name \in Names
  BY DEF Enqueue, TypeInv, PendingNamed, Event
<1>2. CASE /\ outgoing' = [outgoing EXCEPT ![g] = Append(@, links[g])]
           /\ loop' = "idle" /\ pending' = NoEvent
  <2>1. links[g] \in Nat /\ outgoing[g] \in Seq(Nat)
    BY <1>1, ConstantsAssumption DEF TypeInv, TypeOK
  <2>2. Append(outgoing[g], links[g]) \in Seq(Nat)
    BY <2>1, AppendProperties
  <2>3. outgoing' \in [Generations -> Seq(Nat)]
    BY <1>1, <1>2, <2>2 DEF TypeInv, TypeOK
  <2>4. pending' \in [kind : EventKind, name : Names \cup {None},
                      generation : Generations \cup {None}]
    BY <1>2 DEF NoEvent, EventKind
  <2> QED
    BY <1>2, <2>3, <2>4 DEF Enqueue, TypeInv, TypeOK, StartsAreBounded, PendingNamed, Owned,
                            channels, birth
<1>3. CASE Suspend("Error", pending.name, None) /\ UNCHANGED outgoing
  <2>1. PendingNamed' /\ loop' = "emitting"
        /\ pending' \in [kind : EventKind, name : Names \cup {None},
                         generation : Generations \cup {None}]
    BY <1>1, <1>3, SuspendTypes DEF EventKind
  <2> QED
    BY <1>3, <2>1 DEF Enqueue, TypeInv, TypeOK, StartsAreBounded, Owned, channels, birth
<1> QED
  BY <1>2, <1>3 DEF Enqueue

LEMMA ShutdownType ==
  ASSUME TypeInv, Shutdown
  PROVE  TypeInv'
<1>1. aborted' \in [Generations -> BOOLEAN]
      /\ \A g \in Generations : aborted'[g] => pc[g] # "unborn"
  BY DEF Shutdown, TypeInv, TypeOK, Owned
<1> QED
  BY <1>1 DEF Shutdown, TypeInv, TypeOK, StartsAreBounded, PendingNamed, Owned, channels,
              birth, linkVars

LEMMA FrontEndType ==
  ASSUME TypeInv, FrontEnd
  PROVE  TypeInv'
<1>1. CASE \E c \in Offered : Issue(c)
  <2>1. PICK c \in Offered : Issue(c)
    BY <1>1
  <2>2. c \in Command
    BY ConstantsAssumption
  <2>3. commands' \in Seq(Command) /\ StartsAreBounded'
    BY <2>1, <2>2, PostType DEF Issue, loopVars
  <2> QED
    BY <2>1, <2>3 DEF Issue, TypeInv, TypeOK, PendingNamed, Owned, loopVars, taskVars, birth,
                      linkVars
<1>2. CASE Receive
  <2>1. events' \in Seq(Event)
    BY <1>2, TailType DEF Receive, TypeInv, TypeOK
  <2> QED
    BY <1>2, <2>1 DEF Receive, TypeInv, TypeOK, StartsAreBounded, PendingNamed, Owned,
                      loopVars, taskVars, birth, linkVars
<1>3. CASE Quit
  BY <1>3 DEF Quit, TypeInv, TypeOK, StartsAreBounded, PendingNamed, Owned,
              loopVars, taskVars, birth, linkVars
<1> QED
  BY <1>1, <1>2, <1>3 DEF FrontEnd

LEMMA StutterType ==
  ASSUME TypeInv, UNCHANGED vars
  PROVE  TypeInv'
BY DEF TypeInv, TypeOK, StartsAreBounded, PendingNamed, Owned, vars, channels, loopVars,
       taskVars, birth, linkVars

LEMMA TypeStep == TypeInv /\ [Next]_vars => TypeInv'
<1> SUFFICES ASSUME TypeInv, [Next]_vars PROVE TypeInv'
  OBVIOUS
<1>1. CASE Loop
  BY <1>1, HandleConnectType, HandleDisconnectType, HandleSendRawType, HandleStartType,
     HandleStopType, HandleSetValueType, FinishedNoticeType, EndedNoticeType, AnnounceType,
     EnqueueType, ShutdownType DEF Loop, HandleCommand
<1>2. CASE FrontEnd
  BY <1>2, FrontEndType
<1>3. ASSUME NEW g \in Generations, Task(g)
      PROVE  TypeInv'
  <2>1. CASE LinkStep(g)
    BY <2>1, LinkStepIsQuiet, LinkStepTypes, QuietType DEF TypeInv
  <2> QED
    BY <1>3, <2>1, SpeakType, ScenarioStepType, NotifyType, ReapType DEF Task
<1>4. CASE Over \/ UNCHANGED vars
  BY <1>4, StutterType DEF Over
<1> QED
  BY <1>1, <1>2, <1>3, <1>4 DEF Next

(* Every variable of the engine has its type in every state, whatever the  *)
(* names, the capacities and the number of tasks ever started.             *)
THEOREM TypeCorrect == Spec => []TypeOK
<1>1. TypeInv => TypeOK
  BY DEF TypeInv
<1> QED
  BY TypeInit, TypeStep, <1>1, PTL DEF Spec
-----------------------------------------------------------------------------
(* Who holds a name. *)

LEMMA ItemsAppend ==
  ASSUME NEW S, NEW queue \in Seq(S), NEW x \in S
  PROVE  Items(Append(queue, x)) = Items(queue) \cup {x}
<1>1. /\ DOMAIN queue = 1 .. Len(queue) /\ Len(queue) \in Nat
      /\ DOMAIN Append(queue, x) = 1 .. Len(queue) + 1
      /\ \A i \in 1 .. Len(queue) : Append(queue, x)[i] = queue[i]
      /\ Append(queue, x)[Len(queue) + 1] = x
  BY AppendProperties, LenProperties
<1>2. 1 .. Len(queue) + 1 = 1 .. Len(queue) \cup {Len(queue) + 1}
  BY <1>1
<1> QED
  BY <1>1, <1>2 DEF Items

LEMMA ItemsTail ==
  ASSUME NEW S, NEW queue \in Seq(S), queue # <<>>
  PROVE  Items(queue) = Items(Tail(queue)) \cup {Head(queue)}
<1>1. /\ DOMAIN queue = 1 .. Len(queue) /\ Len(queue) \in Nat \ {0}
      /\ DOMAIN Tail(queue) = 1 .. Len(queue) - 1
      /\ Head(queue) = queue[1]
      /\ \A i \in 1 .. Len(queue) - 1 : Tail(queue)[i] = queue[i + 1]
  BY HeadTailProperties, EmptySeq, LenProperties
<1>2. Items(queue) \subseteq Items(Tail(queue)) \cup {Head(queue)}
  <2> SUFFICES ASSUME NEW i \in 1 .. Len(queue), i # 1
               PROVE  queue[i] \in Items(Tail(queue))
    BY <1>1 DEF Items
  <2>1. i - 1 \in 1 .. Len(queue) - 1 /\ (i - 1) + 1 = i
    BY <1>1
  <2>2. Tail(queue)[i - 1] = queue[i]
    BY <1>1, <2>1
  <2> QED
    BY <1>1, <2>1, <2>2 DEF Items
<1>3. Items(Tail(queue)) \cup {Head(queue)} \subseteq Items(queue)
  <2>1. \A i \in 1 .. Len(queue) - 1 : i + 1 \in 1 .. Len(queue)
    BY <1>1
  <2>2. 1 \in 1 .. Len(queue)
    BY <1>1
  <2> QED
    BY <1>1, <2>1, <2>2 DEF Items
<1> QED
  BY <1>2, <1>3

LEMMA ItemsType ==
  ASSUME NEW S, NEW queue \in Seq(S)
  PROVE  Items(queue) \subseteq S
BY DEF Items

(* Freeing or giving a name changes who holds that name only. *)
LEMMA HolderOfConnection ==
  ASSUME TypeInv, NEW id \in Ids, NEW v,
         connections' = [connections EXCEPT ![id] = v], UNCHANGED scenarios
  PROVE  \A n \in Names : Holder(n)' = IF n = id THEN v ELSE Holder(n)
BY ConstantsAssumption DEF Holder, Names, TypeInv, TypeOK

LEMMA HolderOfScenario ==
  ASSUME TypeInv, NEW s \in Scenarios, NEW v,
         scenarios' = [scenarios EXCEPT ![s] = v], UNCHANGED connections
  PROVE  \A n \in Names : Holder(n)' = IF n = s THEN v ELSE Holder(n)
BY ConstantsAssumption DEF Holder, Names, TypeInv, TypeOK

LEMMA HolderType ==
  ASSUME TypeInv
  PROVE  /\ \A n \in Names : Holder(n) \in Generations \cup {None}
         /\ \A n \in Names : Holder(n) # None => pc[Holder(n)] # "unborn"
         /\ None \notin Generations
<1>1. None \notin Generations
  BY ConstantsAssumption DEF Generations
<1> QED
  BY <1>1 DEF Holder, Names, TypeInv, TypeOK, Owned

LEMMA NoticesType ==
  ASSUME TypeInv, NEW n \in Notices
  PROVE  n.name \in Names /\ n.generation \in Generations
         /\ n = [name |-> n.name, generation |-> n.generation]
<1>1. n \in Notice(Ids) \/ n \in Notice(Scenarios)
  BY ItemsType DEF Notices, TypeInv, TypeOK
<1> QED
  BY <1>1 DEF Notice, Names

LEMMA SlotInit == Init => SlotInv
<1> SUFFICES ASSUME Init PROVE SlotInv
  OBVIOUS
<1>1. Items(events) = {} /\ Items(finished) = {} /\ Items(ended) = {}
  BY DEF Init, Items
<1>2. Born
  BY ConstantsAssumption DEF Init, Born, Generations
<1>3. NoticesTrue /\ AnnouncedAreGone
  BY <1>1 DEF Init, NoticesTrue, AnnouncedAreGone, Notices, Announcements
<1>4. \A n \in Names : Holder(n) = None
  BY DEF Init, Holder, Names
<1>5. NoOrphanTask /\ NoDeadHolder
  BY <1>4 DEF Init, NoOrphanTask, NoDeadHolder, Live
<1> QED
  BY <1>2, <1>3, <1>5 DEF SlotInv

-----------------------------------------------------------------------------
(* The ways a step can disturb the invariant, one lemma each. *)

(* It gives and frees no name, starts and ends no task. *)
LEMMA SlotsKept ==
  ASSUME TypeInv, SlotInv,
         UNCHANGED <<connections, scenarios, nextGeneration, owner, aborted>>,
         Notices' = Notices,
         loop' = "stopped" <=> loop = "stopped",
         \A h \in Generations : /\ pc'[h] = "unborn" <=> pc[h] = "unborn"
                                /\ pc'[h] = "done" <=> pc[h] = "done",
         \A e \in Announcements' : e.kind \in Ending => e \in Announcements
  PROVE  SlotInv'
<1>1. \A n \in Names : Holder(n)' = Holder(n)
  BY DEF Holder
<1>2. Born'
  BY DEF SlotInv, Born
<1>3. NoticesTrue'
  BY NoticesType DEF SlotInv, NoticesTrue
<1>4. AnnouncedAreGone'
  BY <1>1 DEF SlotInv, AnnouncedAreGone
<1>5. NoOrphanTask'
  BY <1>1 DEF SlotInv, NoOrphanTask, Live, TypeInv, Owned
<1>6. NoDeadHolder'
  BY <1>1, HolderType DEF SlotInv, NoDeadHolder, Live
<1> QED
  BY <1>2, <1>3, <1>4, <1>5, <1>6 DEF SlotInv

(* A free name is given to a task that was never there before. *)
LEMMA SlotsGiven ==
  ASSUME TypeInv, SlotInv, nextGeneration \in Generations, NEW name \in Names,
         Holder(name) = None, NEW cfg, NEW start \in PCs \ {"unborn", "done"},
         Spawn(name, cfg, start),
         \A n \in Names : Holder(n)' = IF n = name THEN nextGeneration ELSE Holder(n),
         UNCHANGED <<loop, pending, events, finished, ended, aborted>>
  PROVE  SlotInv'
<1>1. \A h \in Generations :
        /\ pc'[h] = IF h = nextGeneration THEN start ELSE pc[h]
        /\ owner'[h] = IF h = nextGeneration THEN name ELSE owner[h]
  BY DEF Spawn, Begin, TypeInv, TypeOK
<1>2. pc[nextGeneration] = "unborn" /\ ~aborted[nextGeneration]
  <2>1. pc[nextGeneration] = "unborn"
    BY DEF SlotInv, Born, Generations
  <2> QED
    BY <2>1 DEF TypeInv, Owned
<1>3. Notices' = Notices /\ Announcements' = Announcements
  BY DEF Notices, Announcements, Items
<1>4. Born'
  BY <1>1, ConstantsAssumption DEF SlotInv, Born, Spawn, Generations
<1>5. NoticesTrue'
  BY <1>1, <1>2, <1>3, NoticesType DEF SlotInv, NoticesTrue
<1>6. AnnouncedAreGone'
  BY <1>1, <1>2, <1>3 DEF SlotInv, AnnouncedAreGone
<1>7. NoOrphanTask'
  BY <1>1, <1>2, HolderType DEF SlotInv, NoOrphanTask, Live, TypeInv, Owned
<1>8. NoDeadHolder'
  BY <1>1, <1>2, <1>3, HolderType DEF SlotInv, NoDeadHolder, Live
<1> QED
  BY <1>4, <1>5, <1>6, <1>7, <1>8 DEF SlotInv

(* A name is freed and its end is about to be announced: its task was      *)
(* aborted, or is gone and has given notice.                               *)
LEMMA SlotsFreed ==
  ASSUME TypeInv, SlotInv, loop # "stopped", NEW name \in Names, NEW kind,
         Holder(name) # None, Suspend(kind, name, Holder(name)),
         \A n \in Names : Holder(n)' = IF n = name THEN None ELSE Holder(n),
         UNCHANGED <<events, owner, pc, nextGeneration>>,
         \A h \in Generations : aborted[h] => aborted'[h],
         \A h \in Generations : aborted'[h] => aborted[h] \/ h = Holder(name),
         aborted'[Holder(name)] \/ pc[Holder(name)] = "done",
         Notices' \subseteq Notices,
         \A n \in Notices : n \in Notices' \/ n.generation = Holder(name)
  PROVE  SlotInv'
<1> DEFINE g == Holder(name)
<1>1. g \in Generations /\ pc[g] # "unborn" /\ None \notin Generations /\ owner[g] = name
  BY HolderType DEF SlotInv, NoDeadHolder
<1>2. Born'
  BY DEF SlotInv, Born
<1>3. NoticesTrue'
  BY NoticesType DEF SlotInv, NoticesTrue
<1>4. AnnouncedAreGone'
  <2>1. \A e \in Announcements' : e \in Announcements \/ e = Saying(kind, name, g)
    BY DEF Announcements, Items, Suspend
  <2>2. ASSUME NEW e \in Announcements', e.kind \in Ending
        PROVE  /\ e.name \in Names /\ e.generation \in Generations
               /\ pc[e.generation] # "unborn" /\ Holder(e.name)' # e.generation
    <3>1. CASE e = Saying(kind, name, g)
      BY <1>1, <3>1 DEF Saying
    <3>2. CASE e \in Announcements
      BY <1>1, <2>2, <3>2 DEF SlotInv, AnnouncedAreGone
    <3> QED
      BY <2>1, <2>2, <3>1, <3>2
  <2> QED
    BY <2>2 DEF AnnouncedAreGone
<1>5. NoOrphanTask'
  <2> SUFFICES ASSUME NEW h \in Generations, Live(h), ~aborted'[h]
               PROVE  Holder(owner[h])' = h
    BY DEF NoOrphanTask, Live
  <2>1. Holder(owner[h]) = h /\ owner[h] \in Names
    BY DEF SlotInv, NoOrphanTask, TypeInv, Owned, Live
  <2>2. owner[h] # name
    BY <2>1 DEF Live
  <2> QED
    BY <2>1, <2>2
<1>6. NoDeadHolder'
  <2> SUFFICES ASSUME NEW n \in Names, n # name, Holder(n) # None
               PROVE  /\ owner[Holder(n)] = n
                      /\ ~aborted'[Holder(n)]
                      /\ \/ Live(Holder(n))
                         \/ [name |-> n, generation |-> Holder(n)] \in Notices'
    BY DEF NoDeadHolder, Live
  <2>1. /\ owner[Holder(n)] = n /\ ~aborted[Holder(n)] /\ Holder(n) \in Generations
        /\ Live(Holder(n)) \/ [name |-> n, generation |-> Holder(n)] \in Notices
    BY HolderType DEF SlotInv, NoDeadHolder
  <2>2. Holder(n) # g
    BY <1>1, <2>1
  <2> QED
    BY <2>1, <2>2
<1> QED
  BY <1>2, <1>3, <1>4, <1>5, <1>6 DEF SlotInv

(* A notice from a task that no longer holds its name is dropped. *)
LEMMA SlotsStale ==
  ASSUME TypeInv, SlotInv, NEW notice \in Notices, Holder(notice.name) # notice.generation,
         Notices' \subseteq Notices, Notices \subseteq Notices' \cup {notice},
         UNCHANGED <<events, loopVars, birth, pc, aborted>>
  PROVE  SlotInv'
<1>1. \A n \in Names : Holder(n)' = Holder(n)
  BY DEF Holder, loopVars
<1>2. Born' /\ NoticesTrue' /\ NoOrphanTask'
  BY <1>1, NoticesType
     DEF SlotInv, Born, NoticesTrue, NoOrphanTask, Live, loopVars, birth, TypeInv, Owned
<1>3. AnnouncedAreGone'
  BY <1>1 DEF SlotInv, AnnouncedAreGone, Announcements, Items, loopVars
<1>4. NoDeadHolder'
  <2>1. ASSUME NEW n \in Names, [name |-> n, generation |-> Holder(n)] \in Notices
        PROVE  [name |-> n, generation |-> Holder(n)] \in Notices'
    BY <2>1
  <2> QED
    BY <1>1, <2>1 DEF SlotInv, NoDeadHolder, Live, loopVars, birth
<1> QED
  BY <1>2, <1>3, <1>4 DEF SlotInv

(* A task is gone, leaving a notice unless it was aborted. *)
LEMMA SlotsGone ==
  ASSUME TypeInv, SlotInv, NEW g \in Generations, Gone(g), pc[g] # "unborn",
         UNCHANGED <<events, loopVars, birth, aborted>>,
         NEW notice, notice = [name |-> owner[g], generation |-> g],
         Notices \subseteq Notices', Notices' \subseteq Notices \cup {notice},
         aborted[g] \/ notice \in Notices'
  PROVE  SlotInv'
<1>1. \A n \in Names : Holder(n)' = Holder(n)
  BY DEF Holder, loopVars
<1>2. \A h \in Generations : pc'[h] = IF h = g THEN "done" ELSE pc[h]
  BY DEF Gone, Goes, TypeInv, TypeOK
<1>3. Born' /\ NoOrphanTask'
  BY <1>1, <1>2 DEF SlotInv, Born, NoOrphanTask, Live, loopVars, birth, TypeInv, Owned
<1>4. NoticesTrue'
  BY <1>2, NoticesType DEF SlotInv, NoticesTrue, birth
<1>5. AnnouncedAreGone'
  BY <1>1, <1>2 DEF SlotInv, AnnouncedAreGone, Announcements, Items, loopVars
<1>6. NoDeadHolder'
  BY <1>1, <1>2, HolderType DEF SlotInv, NoDeadHolder, Live, loopVars, birth
<1> QED
  BY <1>3, <1>4, <1>5, <1>6 DEF SlotInv

-----------------------------------------------------------------------------
(* The actions. *)

(* An error is reported and nothing else changes. *)
LEMMA SlotsOnError ==
  ASSUME TypeInv, SlotInv, loop # "stopped", NEW name, Suspend("Error", name, None),
         UNCHANGED <<connections, scenarios, nextGeneration, owner, aborted, pc, events,
                     finished, ended>>
  PROVE  SlotInv'
<1>1. Notices' = Notices
  BY DEF Notices, Items
<1>2. \A e \in Announcements' : e.kind \in Ending => e \in Announcements
  BY DEF Announcements, Items, Suspend, Saying, Ending
<1> QED
  BY <1>1, <1>2, SlotsKept DEF Suspend

LEMMA SlotsConnect ==
  ASSUME TypeInv, SlotInv, HandleConnect
  PROVE  SlotInv'
<1> DEFINE id == Head(commands).name
<1>1. nextGeneration' \in {nextGeneration, nextGeneration + 1} /\ loop = "idle"
  BY DEF HandleConnect, Spawn, Handling
<1>2. Head(commands) \in Command /\ Head(commands).op = "Connect"
      /\ nextGeneration \in Generations
  BY <1>1, HandlingTypes DEF HandleConnect
<1>3. id \in Ids /\ id \in Names
  BY <1>2 DEF Command, Names
<1>4. CASE Suspend("Error", id, None) /\ UNCHANGED <<connections, nextGeneration, birth, pc>>
  BY <1>1, <1>4, SlotsOnError DEF HandleConnect, birth
<1>5. CASE /\ connections[id] = None
           /\ Spawn(id, Head(commands).config, "connecting")
           /\ connections' = [connections EXCEPT ![id] = nextGeneration]
           /\ UNCHANGED <<loop, pending>>
  <2>1. "connecting" \in PCs \ {"unborn", "done"}
    BY DEF PCs, Speaking
  <2>2. \A n \in Names : Holder(n)' = IF n = id THEN nextGeneration ELSE Holder(n)
    BY <1>3, <1>5, HolderOfConnection DEF HandleConnect
  <2>3. Holder(id) = None
    BY <1>3, <1>5 DEF Holder
  <2> QED
    BY <1>2, <1>3, <1>5, <2>1, <2>2, <2>3, SlotsGiven DEF HandleConnect
<1> QED
  BY <1>4, <1>5 DEF HandleConnect

LEMMA SlotsStart ==
  ASSUME TypeInv, SlotInv, HandleStart
  PROVE  SlotInv'
<1> DEFINE s == Head(commands).name
<1>1. nextGeneration' \in {nextGeneration, nextGeneration + 1} /\ loop = "idle"
  BY DEF HandleStart, Spawn, Handling
<1>2. Head(commands) \in Command /\ Head(commands).op = "Start"
      /\ nextGeneration \in Generations
  BY <1>1, HandlingTypes DEF HandleStart
<1>3. s \in Scenarios /\ s \in Names /\ s \notin Ids
  BY <1>2, ConstantsAssumption DEF Command, Names
<1>4. CASE Suspend("Error", s, None) /\ UNCHANGED <<scenarios, nextGeneration, birth, pc>>
  BY <1>1, <1>4, SlotsOnError DEF HandleStart, birth
<1>5. CASE /\ scenarios[s] = None
           /\ Spawn(s, None, "pass")
           /\ scenarios' = [scenarios EXCEPT ![s] = nextGeneration]
           /\ UNCHANGED <<loop, pending>>
  <2>1. "pass" \in PCs \ {"unborn", "done"}
    BY DEF PCs
  <2>2. \A n \in Names : Holder(n)' = IF n = s THEN nextGeneration ELSE Holder(n)
    BY <1>3, <1>5, HolderOfScenario DEF HandleStart
  <2>3. Holder(s) = None
    BY <1>3, <1>5 DEF Holder
  <2> QED
    BY <1>2, <1>3, <1>5, <2>1, <2>2, <2>3, SlotsGiven DEF HandleStart
<1> QED
  BY <1>4, <1>5 DEF HandleStart

LEMMA SlotsDisconnect ==
  ASSUME TypeInv, SlotInv, HandleDisconnect
  PROVE  SlotInv'
<1> DEFINE id == Head(commands).name
<1>1. loop = "idle" /\ Head(commands) \in Command /\ Head(commands).op = "Disconnect"
  BY HandlingTypes DEF HandleDisconnect, Handling
<1>2. id \in Ids /\ id \in Names
  BY <1>1 DEF Command, Names
<1>3. CASE Suspend("Error", id, None) /\ UNCHANGED <<connections, aborted>>
  BY <1>1, <1>3, SlotsOnError DEF HandleDisconnect, birth
<1>4. CASE /\ connections[id] # None
           /\ connections' = Vacate(connections, id)
           /\ aborted' = [aborted EXCEPT ![connections[id]] = TRUE]
           /\ Suspend("Disconnected", id, connections[id])
  <2>1. Holder(id) = connections[id] /\ Holder(id) # None /\ Holder(id) \in Generations
    BY <1>2, <1>4, HolderType DEF Holder
  <2>2. \A n \in Names : Holder(n)' = IF n = id THEN None ELSE Holder(n)
    BY <1>2, <1>4, HolderOfConnection DEF HandleDisconnect, Vacate
  <2>3. Notices' = Notices
    BY DEF HandleDisconnect, Notices, Items
  <2>4. /\ \A h \in Generations : aborted[h] => aborted'[h]
        /\ \A h \in Generations : aborted'[h] => aborted[h] \/ h = Holder(id)
        /\ aborted'[Holder(id)]
    BY <1>4, <2>1 DEF TypeInv, TypeOK
  <2>5. Suspend("Disconnected", id, Holder(id))
    BY <1>4, <2>1
  <2>6. UNCHANGED <<events, owner, pc, nextGeneration>> /\ loop # "stopped"
    BY <1>1 DEF HandleDisconnect, birth
  <2> QED
    BY <1>2, <2>1, <2>2, <2>3, <2>4, <2>5, <2>6, SlotsFreed
<1> QED
  BY <1>3, <1>4 DEF HandleDisconnect

LEMMA SlotsStop ==
  ASSUME TypeInv, SlotInv, HandleStop
  PROVE  SlotInv'
<1> DEFINE s == Head(commands).name
<1>1. loop = "idle" /\ Head(commands) \in Command /\ Head(commands).op = "Stop"
  BY HandlingTypes DEF HandleStop, Handling
<1>2. s \in Scenarios /\ s \in Names /\ s \notin Ids
  BY <1>1, ConstantsAssumption DEF Command, Names
<1>3. CASE Suspend("Error", s, None) /\ UNCHANGED <<scenarios, aborted>>
  BY <1>1, <1>3, SlotsOnError DEF HandleStop, birth
<1>4. CASE /\ scenarios[s] # None
           /\ scenarios' = Vacate(scenarios, s)
           /\ aborted' = [aborted EXCEPT ![scenarios[s]] = TRUE]
           /\ Suspend("Finished", s, scenarios[s])
  <2>1. Holder(s) = scenarios[s] /\ Holder(s) # None /\ Holder(s) \in Generations
    BY <1>2, <1>4, HolderType DEF Holder
  <2>2. \A n \in Names : Holder(n)' = IF n = s THEN None ELSE Holder(n)
    BY <1>2, <1>4, HolderOfScenario DEF HandleStop, Vacate
  <2>3. Notices' = Notices
    BY DEF HandleStop, Notices, Items
  <2>4. /\ \A h \in Generations : aborted[h] => aborted'[h]
        /\ \A h \in Generations : aborted'[h] => aborted[h] \/ h = Holder(s)
        /\ aborted'[Holder(s)]
    BY <1>4, <2>1 DEF TypeInv, TypeOK
  <2>5. Suspend("Finished", s, Holder(s))
    BY <1>4, <2>1
  <2>6. UNCHANGED <<events, owner, pc, nextGeneration>> /\ loop # "stopped"
    BY <1>1 DEF HandleStop, birth
  <2> QED
    BY <1>2, <2>1, <2>2, <2>3, <2>4, <2>5, <2>6, SlotsFreed
<1> QED
  BY <1>3, <1>4 DEF HandleStop

LEMMA SlotsFinished ==
  ASSUME TypeInv, SlotInv, FinishedNotice
  PROVE  SlotInv'
<1> DEFINE notice == Head(finished)
<1>1. Items(finished) = Items(finished') \cup {notice} /\ notice \in Notice(Ids)
  BY ItemsTail, TailType DEF FinishedNotice, TypeInv, TypeOK
<1>2. /\ notice.name \in Ids /\ notice.name \in Names /\ notice.generation \in Generations
      /\ notice \in Notices /\ pc[notice.generation] = "done" /\ loop = "idle"
      /\ Holder(notice.name) = connections[notice.name]
  BY <1>1 DEF Notice, Names, Notices, SlotInv, NoticesTrue, FinishedNotice, Holder
<1>3. Notices' \subseteq Notices /\ Notices \subseteq Notices' \cup {notice}
  BY <1>1 DEF Notices, FinishedNotice, Items
<1>4. CASE Current(connections, notice)
  <2>1. Holder(notice.name) = notice.generation /\ Holder(notice.name) # None
    BY <1>2, <1>4, HolderType DEF Current
  <2>2. \A n \in Names : Holder(n)' = IF n = notice.name THEN None ELSE Holder(n)
    BY <1>2, <1>4, HolderOfConnection DEF FinishedNotice, Vacate
  <2>3. Suspend("Disconnected", notice.name, Holder(notice.name))
    BY <1>4, <2>1 DEF FinishedNotice
  <2>4. UNCHANGED <<events, owner, pc, nextGeneration, aborted>> /\ loop # "stopped"
    BY <1>2 DEF FinishedNotice, taskVars, birth
  <2>5. \A n \in Notices : n \in Notices' \/ n.generation = Holder(notice.name)
    BY <1>3, <2>1
  <2> QED
    BY <1>2, <1>3, <2>1, <2>2, <2>3, <2>4, <2>5, SlotsFreed
<1>5. CASE ~Current(connections, notice)
  BY <1>2, <1>3, <1>5, SlotsStale DEF FinishedNotice, Current, loopVars, taskVars
<1> QED
  BY <1>4, <1>5

LEMMA SlotsEnded ==
  ASSUME TypeInv, SlotInv, EndedNotice
  PROVE  SlotInv'
<1> DEFINE notice == Head(ended)
<1>1. Items(ended) = Items(ended') \cup {notice} /\ notice \in Notice(Scenarios)
  BY ItemsTail, TailType DEF EndedNotice, TypeInv, TypeOK
<1>2. /\ notice.name \in Scenarios /\ notice.name \in Names
      /\ notice.generation \in Generations /\ notice \in Notices
      /\ pc[notice.generation] = "done" /\ loop = "idle"
      /\ Holder(notice.name) = scenarios[notice.name]
  BY <1>1, ConstantsAssumption
     DEF Notice, Names, Notices, SlotInv, NoticesTrue, EndedNotice, Holder
<1>3. Notices' \subseteq Notices /\ Notices \subseteq Notices' \cup {notice}
  BY <1>1 DEF Notices, EndedNotice, Items
<1>4. CASE Current(scenarios, notice)
  <2>1. Holder(notice.name) = notice.generation /\ Holder(notice.name) # None
    BY <1>2, <1>4, HolderType DEF Current
  <2>2. \A n \in Names : Holder(n)' = IF n = notice.name THEN None ELSE Holder(n)
    BY <1>2, <1>4, HolderOfScenario DEF EndedNotice, Vacate
  <2>3. Suspend("Finished", notice.name, Holder(notice.name))
    BY <1>4, <2>1 DEF EndedNotice
  <2>4. UNCHANGED <<events, owner, pc, nextGeneration, aborted>> /\ loop # "stopped"
    BY <1>2 DEF EndedNotice, taskVars, birth
  <2>5. \A n \in Notices : n \in Notices' \/ n.generation = Holder(notice.name)
    BY <1>3, <2>1
  <2> QED
    BY <1>2, <1>3, <2>1, <2>2, <2>3, <2>4, <2>5, SlotsFreed
<1>5. CASE ~Current(scenarios, notice)
  BY <1>2, <1>3, <1>5, SlotsStale DEF EndedNotice, Current, loopVars, taskVars
<1> QED
  BY <1>4, <1>5

LEMMA SlotsShutdown ==
  ASSUME TypeInv, SlotInv, Shutdown
  PROVE  SlotInv'
<1>1. \A n \in Names : Holder(n)' = Holder(n)
  BY DEF Shutdown, Holder
<1>2. NoOrphanTask' /\ NoDeadHolder'
  BY DEF Shutdown, NoOrphanTask, NoDeadHolder, Live
<1>3. Born' /\ NoticesTrue'
  BY DEF Shutdown, SlotInv, Born, NoticesTrue, Notices, Items, channels, birth
<1>4. AnnouncedAreGone'
  BY <1>1 DEF Shutdown, SlotInv, AnnouncedAreGone, Announcements, Items, channels
<1> QED
  BY <1>2, <1>3, <1>4 DEF SlotInv

(* What the loop says leaves it for the queue, what a task says never      *)
(* speaks of an end, and what the front end takes is forgotten.            *)
LEMMA SlotsAnnounce ==
  ASSUME TypeInv, SlotInv, Announce
  PROVE  SlotInv'
<1>1. Announcements' \subseteq Announcements
  <2>1. CASE UNCHANGED events
    BY <2>1 DEF Announce, Announcements, Items
  <2>2. CASE events' = Append(events, pending)
    <3>1. pending \in Event /\ events \in Seq(Event)
      BY DEF Announce, TypeInv, TypeOK, PendingNamed
    <3>2. Items(events') = Items(events) \cup {pending}
      BY <2>2, <3>1, ItemsAppend
    <3> QED
      BY <3>2 DEF Announce, Announcements
  <2> QED
    BY <2>1, <2>2 DEF Announce, Emit
<1>2. Notices' = Notices
  BY DEF Announce, Notices, Items
<1> QED
  BY <1>1, <1>2, SlotsKept DEF Announce, taskVars, birth

LEMMA SlotsSpeak ==
  ASSUME TypeInv, SlotInv, NEW g \in Generations, Speak(g)
  PROVE  SlotInv'
<1> DEFINE e == Saying(Speaks[pc[g]], owner[g], g)
<1>1. e \in Event /\ e.kind \notin Ending
  BY SpeakingTypes
     DEF Speak, Saying, Event, TypeInv, Owned, Speaking, Speaks, Ending
<1>2. \A a \in Announcements' : a.kind \in Ending => a \in Announcements
  <2>1. CASE UNCHANGED events
    BY <2>1 DEF Speak, Announcements, Items, loopVars
  <2>2. CASE events' = Append(events, e)
    <3>1. Items(events') = Items(events) \cup {e}
      BY <1>1, <2>2, ItemsAppend DEF TypeInv, TypeOK
    <3> QED
      BY <1>1, <3>1 DEF Speak, Announcements, loopVars
  <2> QED
    BY <2>1, <2>2 DEF Speak, Emit
<1>3. Notices' = Notices
  BY DEF Speak, Notices, Items
<1>4. Resumes[pc[g]] \notin {"unborn", "done"} /\ pc[g] \notin {"unborn", "done"}
  BY DEF Speak, Speaking, Resumes
<1>5. \A h \in Generations : /\ pc'[h] = "unborn" <=> pc[h] = "unborn"
                             /\ pc'[h] = "done" <=> pc[h] = "done"
  BY <1>4 DEF Speak, Goes, TypeInv, TypeOK
<1> QED
  BY <1>2, <1>3, <1>5, SlotsKept DEF Speak, loopVars, birth

LEMMA SlotsReceive ==
  ASSUME TypeInv, SlotInv, Receive
  PROVE  SlotInv'
<1>1. Items(events') \subseteq Items(events)
  BY ItemsTail DEF Receive, TypeInv, TypeOK
<1>2. Announcements' \subseteq Announcements /\ Notices' = Notices
  BY <1>1 DEF Receive, Announcements, Notices, Items, loopVars
<1> QED
  BY <1>2, SlotsKept DEF Receive, loopVars, taskVars, birth

LEMMA SlotsQuit ==
  ASSUME TypeInv, SlotInv, Quit
  PROVE  SlotInv'
<1>1. Announcements' \subseteq Announcements /\ Notices' = Notices
  BY DEF Quit, Announcements, Notices, Items, loopVars
<1> QED
  BY <1>1, SlotsKept DEF Quit, loopVars, taskVars, birth

(* A step that leaves the announcements, the notices and the names alone.  *)
LEMMA SlotsAside ==
  ASSUME TypeInv, SlotInv,
         UNCHANGED <<events, finished, ended, connections, scenarios, nextGeneration,
                     owner, aborted>>,
         loop' = "stopped" <=> loop = "stopped",
         loop' = "emitting" => loop = "emitting" /\ pending' = pending,
         \A h \in Generations : /\ pc'[h] = "unborn" <=> pc[h] = "unborn"
                                /\ pc'[h] = "done" <=> pc[h] = "done"
  PROVE  SlotInv'
<1>1. Notices' = Notices /\ Announcements' \subseteq Announcements
  BY DEF Notices, Announcements, Items
<1> QED
  BY <1>1, SlotsKept

LEMMA SlotsQuiet ==
  ASSUME TypeInv, SlotInv, NEW g \in Generations, Quiet(g) \/ PostSend(g)
  PROVE  SlotInv'
<1>1. PICK from, to \in PCs \ {"unborn", "done"} : Goes(g, from, to)
  BY DEF Quiet, PostSend, PCs
<1>2. \A h \in Generations : /\ pc'[h] = "unborn" <=> pc[h] = "unborn"
                             /\ pc'[h] = "done" <=> pc[h] = "done"
  BY <1>1 DEF Goes, TypeInv, TypeOK
<1> QED
  BY <1>2, SlotsAside DEF Quiet, PostSend, channels, loopVars, birth

LEMMA SlotsNotify ==
  ASSUME TypeInv, SlotInv, NEW g \in Generations, Notify(g)
  PROVE  SlotInv'
<1> DEFINE notice == [name |-> owner[g], generation |-> g]
<1>1. Notices' = Notices \cup {notice}
  <2>1. CASE owner[g] \in Ids /\ finished' = Append(finished, notice) /\ UNCHANGED ended
    <3>1. notice \in Notice(Ids)
      BY <2>1 DEF Notice
    <3>2. Items(finished') = Items(finished) \cup {notice}
      BY <2>1, <3>1, ItemsAppend DEF TypeInv, TypeOK
    <3> QED
      BY <2>1, <3>2 DEF Notices, Items
  <2>2. CASE owner[g] \in Scenarios /\ ended' = Append(ended, notice) /\ UNCHANGED finished
    <3>1. notice \in Notice(Scenarios)
      BY <2>2 DEF Notice
    <3>2. Items(ended') = Items(ended) \cup {notice}
      BY <2>2, <3>1, ItemsAppend DEF TypeInv, TypeOK
    <3> QED
      BY <2>2, <3>2 DEF Notices, Items
  <2> QED
    BY <2>1, <2>2 DEF Notify
<1> QED
  BY <1>1, SlotsGone DEF Notify

LEMMA SlotsReap ==
  ASSUME TypeInv, SlotInv, NEW g \in Generations, Reap(g)
  PROVE  SlotInv'
<1> DEFINE notice == [name |-> owner[g], generation |-> g]
<1>1. Notices' = Notices
  BY DEF Reap, Notices, Items, channels
<1>2. pc[g] # "unborn"
  BY DEF Reap, TypeInv, Owned
<1> QED
  BY <1>1, <1>2, SlotsGone DEF Reap, channels

LEMMA SlotStep == TypeInv /\ SlotInv /\ [Next]_vars => SlotInv'
<1> SUFFICES ASSUME TypeInv, SlotInv, [Next]_vars PROVE SlotInv'
  OBVIOUS
<1>1. CASE HandleSendRaw
  <2> DEFINE id == Head(commands).name
  <2>1. loop = "idle"
    BY <1>1 DEF HandleSendRaw, Handling
  <2>2. CASE Suspend("Error", id, None)
    BY <1>1, <2>1, <2>2, SlotsOnError DEF HandleSendRaw, taskVars, birth
  <2>3. CASE loop' = "queueing"
    BY <1>1, <2>1, <2>3, SlotsAside DEF HandleSendRaw, taskVars, birth
  <2> QED
    BY <1>1, <2>2, <2>3 DEF HandleSendRaw
<1>2. CASE HandleSetValue
  <2>1. loop = "idle"
    BY <1>2 DEF HandleSetValue, Handling
  <2>2. CASE Suspend("Error", Head(commands).name, None)
    BY <1>2, <2>1, <2>2, SlotsOnError DEF HandleSetValue, taskVars, birth
  <2>3. CASE UNCHANGED <<loop, pending>>
    BY <1>2, <2>1, <2>3, SlotsAside DEF HandleSetValue, taskVars, birth
  <2> QED
    BY <1>2, <2>2, <2>3 DEF HandleSetValue
<1>3. CASE Enqueue
  <2>1. loop = "queueing"
    BY <1>3 DEF Enqueue
  <2>2. CASE Suspend("Error", pending.name, None)
    BY <1>3, <2>1, <2>2, SlotsOnError DEF Enqueue, channels, birth
  <2>3. CASE loop' = "idle"
    BY <1>3, <2>1, <2>3, SlotsAside DEF Enqueue, channels, birth
  <2> QED
    BY <1>3, <2>2, <2>3 DEF Enqueue
<1>4. CASE Loop
  BY <1>1, <1>2, <1>3, <1>4, SlotsConnect, SlotsStart, SlotsDisconnect, SlotsStop,
     SlotsFinished, SlotsEnded, SlotsAnnounce, SlotsShutdown DEF Loop, HandleCommand
<1>5. CASE FrontEnd
  <2>1. CASE \E c \in Offered : Issue(c)
    BY <2>1, SlotsAside DEF Issue, loopVars, taskVars, birth
  <2> QED
    BY <1>5, <2>1, SlotsReceive, SlotsQuit DEF FrontEnd
<1>6. ASSUME NEW g \in Generations, Task(g)
      PROVE  SlotInv'
  BY <1>6, SlotsSpeak, SlotsQuiet, LinkStepIsQuiet, ScenarioStepIsQuiet, SlotsNotify,
     SlotsReap DEF Task
<1>7. CASE Over \/ UNCHANGED vars
  BY <1>7, SlotsAside DEF Over, vars, channels, loopVars, taskVars, birth
<1> QED
  BY <1>4, <1>5, <1>6, <1>7 DEF Next

LEMMA SlotsCorrect == Spec => [](TypeInv /\ SlotInv)
<1>1. Init => TypeInv /\ SlotInv
  BY TypeInit, SlotInit
<1>2. (TypeInv /\ SlotInv) /\ [Next]_vars => (TypeInv /\ SlotInv)'
  BY TypeStep, SlotStep
<1> QED
  BY <1>1, <1>2, PTL DEF Spec

(* No task of the engine runs on that nobody can stop: every task that     *)
(* runs and was not aborted holds the name it was started for.             *)
THEOREM NoTaskIsOrphan == Spec => []NoOrphanTask
<1>1. SlotInv => NoOrphanTask
  BY DEF SlotInv
<1> QED
  BY SlotsCorrect, <1>1, PTL

(* No name stays with a task that is gone and has given no notice.         *)
THEOREM NoNameIsLost == Spec => []NoDeadHolder
<1>1. SlotInv => NoDeadHolder
  BY DEF SlotInv
<1> QED
  BY SlotsCorrect, <1>1, PTL

(* Whoever hears of an end finds the name free of the task that ended.     *)
THEOREM FreedFirst == Spec => []FreedBeforeAnnounced
<1>1. SlotInv => FreedBeforeAnnounced
  BY DEF SlotInv, AnnouncedAreGone, FreedBeforeAnnounced
<1> QED
  BY SlotsCorrect, <1>1, PTL

-----------------------------------------------------------------------------
(* What the loop says, and what becomes of the names.                      *)

(* A name was just freed, and the loop is about to say so. *)
Ended(n) ==
  /\ loop' = "emitting" /\ Holder(n) # None /\ Holder(n)' = None
  /\ pending' = Saying(IF n \in Ids THEN "Disconnected" ELSE "Finished", n, Holder(n))
  /\ aborted'[Holder(n)] \/ pc[Holder(n)] = "done"

(* A free name was just given to a task that was not there before. *)
Given(n) ==
  /\ Holder(n) = None /\ Holder(n)' = nextGeneration
  /\ owner'[nextGeneration] = n /\ nextGeneration' = nextGeneration + 1
  /\ loop' # "emitting"

Reported == loop' = "emitting" /\ pending'.kind = "Error" /\ pending'.generation = None

Untouched == \A n \in Names : Holder(n)' = Holder(n)

LoopStep ==
  /\ UNCHANGED events
  /\ \A h \in Generations :
       /\ aborted[h] => aborted'[h]
       /\ pc[h] # "unborn" => pc'[h] = pc[h] /\ owner'[h] = owner[h]
  /\ \/ /\ loop' # "emitting" \/ Reported
        /\ Untouched /\ UNCHANGED <<nextGeneration, owner>>
     \/ \E n \in Names :
          /\ Ended(n) /\ UNCHANGED <<nextGeneration, owner>>
          /\ \A m \in Names \ {n} : Holder(m)' = Holder(m)
     \/ \E n \in Names :
          /\ Given(n) /\ \A m \in Names \ {n} : Holder(m)' = Holder(m)

LEMMA ReportStep ==
  ASSUME NEW name, Suspend("Error", name, None),
         UNCHANGED <<events, connections, scenarios, nextGeneration, owner, pc, aborted>>
  PROVE  LoopStep
BY DEF Suspend, Saying, Reported, LoopStep, Untouched, Holder

LEMMA EndStep ==
  ASSUME TypeInv, SlotInv, NEW n \in Names, Holder(n) # None,
         Suspend(IF n \in Ids THEN "Disconnected" ELSE "Finished", n, Holder(n)),
         \A m \in Names : Holder(m)' = IF m = n THEN None ELSE Holder(m),
         UNCHANGED <<events, nextGeneration, owner, pc>>,
         \A h \in Generations : aborted[h] => aborted'[h],
         aborted'[Holder(n)] \/ pc[Holder(n)] = "done"
  PROVE  LoopStep
BY DEF LoopStep, Ended, Suspend

LEMMA GiveStep ==
  ASSUME TypeInv, SlotInv, NEW n \in Names, Holder(n) = None, nextGeneration \in Generations,
         NEW cfg, NEW start, Spawn(n, cfg, start),
         \A m \in Names : Holder(m)' = IF m = n THEN nextGeneration ELSE Holder(m),
         UNCHANGED <<events, aborted, loop>>, loop = "idle"
  PROVE  LoopStep
<1>1. pc[nextGeneration] = "unborn"
  BY DEF SlotInv, Born, Generations
<1>2. \A h \in Generations : pc[h] # "unborn" => pc'[h] = pc[h] /\ owner'[h] = owner[h]
  BY <1>1 DEF Spawn, Begin, TypeInv, TypeOK
<1>3. owner'[nextGeneration] = n
  BY DEF Spawn, Begin, TypeInv, TypeOK
<1> QED
  BY <1>2, <1>3 DEF LoopStep, Given, Spawn

LEMMA ConnectSteps ==
  ASSUME TypeInv, SlotInv, HandleConnect \/ HandleDisconnect
  PROVE  LoopStep
<1> DEFINE id == Head(commands).name
<1>1. /\ loop = "idle" /\ id \in Ids /\ id \in Names
      /\ HandleConnect => nextGeneration \in Generations
  BY HandlingTypes DEF HandleConnect, HandleDisconnect, Handling, Spawn, Command, Names
<1>2. CASE Suspend("Error", id, None) /\ UNCHANGED <<connections, nextGeneration, birth, pc, aborted>>
  BY <1>2, ReportStep DEF HandleConnect, HandleDisconnect, birth
<1>3. CASE HandleConnect /\ Spawn(id, Head(commands).config, "connecting") /\ connections[id] = None
  <2>1. UNCHANGED <<events, aborted, loop, scenarios>>
        /\ connections' = [connections EXCEPT ![id] = nextGeneration]
    BY <1>3 DEF HandleConnect
  <2>2. Holder(id) = None
    BY <1>1, <1>3 DEF Holder
  <2>3. \A m \in Names : Holder(m)' = IF m = id THEN nextGeneration ELSE Holder(m)
    BY <1>1, <2>1, HolderOfConnection
  <2> QED
    BY <1>1, <1>3, <2>1, <2>2, <2>3, GiveStep
<1>4. CASE /\ HandleDisconnect /\ connections[id] # None
           /\ connections' = Vacate(connections, id)
           /\ aborted' = [aborted EXCEPT ![connections[id]] = TRUE]
           /\ Suspend("Disconnected", id, connections[id])
  <2>1. Holder(id) = connections[id] /\ Holder(id) # None /\ Holder(id) \in Generations
    BY <1>1, <1>4, HolderType DEF Holder
  <2>2. \A m \in Names : Holder(m)' = IF m = id THEN None ELSE Holder(m)
    BY <1>1, <1>4, HolderOfConnection DEF HandleDisconnect, Vacate
  <2>3. (\A h \in Generations : aborted[h] => aborted'[h]) /\ aborted'[Holder(id)]
    BY <1>4, <2>1 DEF TypeInv, TypeOK
  <2>4. Suspend(IF id \in Ids THEN "Disconnected" ELSE "Finished", id, Holder(id))
    BY <1>1, <1>4, <2>1
  <2>5. UNCHANGED <<events, nextGeneration, owner, pc>>
    BY <1>4 DEF HandleDisconnect, birth
  <2> QED
    BY <1>1, <2>1, <2>2, <2>3, <2>4, <2>5, EndStep
<1> QED
  BY <1>2, <1>3, <1>4 DEF HandleConnect, HandleDisconnect

LEMMA StartSteps ==
  ASSUME TypeInv, SlotInv, HandleStart \/ HandleStop
  PROVE  LoopStep
<1> DEFINE s == Head(commands).name
<1>1. /\ loop = "idle" /\ s \in Scenarios /\ s \in Names /\ s \notin Ids
      /\ HandleStart => nextGeneration \in Generations
  BY HandlingTypes, ConstantsAssumption
     DEF HandleStart, HandleStop, Handling, Spawn, Command, Names
<1>2. CASE Suspend("Error", s, None) /\ UNCHANGED <<scenarios, nextGeneration, birth, pc, aborted>>
  BY <1>2, ReportStep DEF HandleStart, HandleStop, birth
<1>3. CASE HandleStart /\ Spawn(s, None, "pass") /\ scenarios[s] = None
  <2>1. UNCHANGED <<events, aborted, loop, connections>>
        /\ scenarios' = [scenarios EXCEPT ![s] = nextGeneration]
    BY <1>3 DEF HandleStart
  <2>2. Holder(s) = None
    BY <1>1, <1>3 DEF Holder
  <2>3. \A m \in Names : Holder(m)' = IF m = s THEN nextGeneration ELSE Holder(m)
    BY <1>1, <2>1, HolderOfScenario
  <2> QED
    BY <1>1, <1>3, <2>1, <2>2, <2>3, GiveStep
<1>4. CASE /\ HandleStop /\ scenarios[s] # None
           /\ scenarios' = Vacate(scenarios, s)
           /\ aborted' = [aborted EXCEPT ![scenarios[s]] = TRUE]
           /\ Suspend("Finished", s, scenarios[s])
  <2>1. Holder(s) = scenarios[s] /\ Holder(s) # None /\ Holder(s) \in Generations
    BY <1>1, <1>4, HolderType DEF Holder
  <2>2. \A m \in Names : Holder(m)' = IF m = s THEN None ELSE Holder(m)
    BY <1>1, <1>4, HolderOfScenario DEF HandleStop, Vacate
  <2>3. (\A h \in Generations : aborted[h] => aborted'[h]) /\ aborted'[Holder(s)]
    BY <1>4, <2>1 DEF TypeInv, TypeOK
  <2>4. Suspend(IF s \in Ids THEN "Disconnected" ELSE "Finished", s, Holder(s))
    BY <1>1, <1>4, <2>1
  <2>5. UNCHANGED <<events, nextGeneration, owner, pc>>
    BY <1>4 DEF HandleStop, birth
  <2> QED
    BY <1>1, <2>1, <2>2, <2>3, <2>4, <2>5, EndStep
<1> QED
  BY <1>2, <1>3, <1>4 DEF HandleStart, HandleStop

(* A step of the loop that says nothing and gives and frees no name. *)
LEMMA NothingSaid ==
  ASSUME UNCHANGED <<events, connections, scenarios, nextGeneration, owner, pc>>,
         \A h \in Generations : aborted[h] => aborted'[h],
         loop' # "emitting"
  PROVE  LoopStep
BY DEF LoopStep, Untouched, Holder

LEMMA NoticeSteps ==
  ASSUME TypeInv, SlotInv, FinishedNotice \/ EndedNotice
  PROVE  LoopStep
<1>1. ASSUME NEW notice, NEW slots, notice \in Notices, Holder(notice.name) = slots[notice.name],
             Current(slots, notice),
             Suspend(IF notice.name \in Ids THEN "Disconnected" ELSE "Finished", notice.name,
                     notice.generation),
             \A m \in Names : Holder(m)' = IF m = notice.name THEN None ELSE Holder(m)
      PROVE  LoopStep
  <2>1. /\ notice.name \in Names /\ Holder(notice.name) = notice.generation
        /\ Holder(notice.name) # None /\ pc[notice.generation] = "done"
    BY <1>1, NoticesType, HolderType DEF Current, SlotInv, NoticesTrue
  <2>2. UNCHANGED <<events, nextGeneration, owner, pc, aborted>>
    BY DEF FinishedNotice, EndedNotice, taskVars, birth
  <2> QED
    BY <1>1, <2>1, <2>2, EndStep
<1>2. CASE FinishedNotice
  <2> DEFINE notice == Head(finished)
  <2>1. notice \in Notice(Ids) /\ notice \in Notices
    BY <1>2, ItemsTail, TailType DEF FinishedNotice, Notices, TypeInv, TypeOK
  <2>2. notice.name \in Ids /\ loop = "idle" /\ Holder(notice.name) = connections[notice.name]
    BY <1>2, <2>1 DEF FinishedNotice, Notice, Holder
  <2>3. CASE Current(connections, notice)
    <3>1. Suspend("Disconnected", notice.name, notice.generation)
          /\ connections' = Vacate(connections, notice.name) /\ UNCHANGED scenarios
      BY <1>2, <2>3 DEF FinishedNotice
    <3>2. \A m \in Names : Holder(m)' = IF m = notice.name THEN None ELSE Holder(m)
      BY <2>2, <3>1, HolderOfConnection DEF Vacate
    <3> QED
      BY <1>1, <2>1, <2>2, <2>3, <3>1, <3>2
  <2>4. CASE ~Current(connections, notice)
    BY <1>2, <2>2, <2>4, NothingSaid DEF FinishedNotice, taskVars, birth
  <2> QED
    BY <2>3, <2>4
<1>3. CASE EndedNotice
  <2> DEFINE notice == Head(ended)
  <2>1. notice \in Notice(Scenarios) /\ notice \in Notices
    BY <1>3, ItemsTail, TailType DEF EndedNotice, Notices, TypeInv, TypeOK
  <2>2. /\ notice.name \in Scenarios /\ notice.name \notin Ids /\ loop = "idle"
        /\ Holder(notice.name) = scenarios[notice.name]
    BY <1>3, <2>1, ConstantsAssumption DEF EndedNotice, Notice, Holder
  <2>3. CASE Current(scenarios, notice)
    <3>1. Suspend("Finished", notice.name, notice.generation)
          /\ scenarios' = Vacate(scenarios, notice.name) /\ UNCHANGED connections
      BY <1>3, <2>3 DEF EndedNotice
    <3>2. \A m \in Names : Holder(m)' = IF m = notice.name THEN None ELSE Holder(m)
      BY <2>2, <3>1, HolderOfScenario DEF Vacate
    <3> QED
      BY <1>1, <2>1, <2>2, <2>3, <3>1, <3>2
  <2>4. CASE ~Current(scenarios, notice)
    BY <1>3, <2>2, <2>4, NothingSaid DEF EndedNotice, taskVars, birth
  <2> QED
    BY <2>3, <2>4
<1> QED
  BY <1>2, <1>3

LEMMA LoopSteps ==
  ASSUME TypeInv, SlotInv, Loop, ~Announce
  PROVE  LoopStep /\ loop \in {"idle", "queueing"}
<1>0. loop \in {"idle", "queueing"}
  BY DEF Loop, HandleCommand, HandleConnect, HandleDisconnect, HandleSendRaw, HandleStart,
         HandleStop, HandleSetValue, Handling, FinishedNotice, EndedNotice, Enqueue, Shutdown
<1>1. CASE HandleSendRaw \/ HandleSetValue
  <2> DEFINE name == Head(commands).name
  <2>1. UNCHANGED <<events, connections, scenarios, nextGeneration, owner, pc, aborted>>
    BY <1>1 DEF HandleSendRaw, HandleSetValue, taskVars, birth
  <2>2. Suspend("Error", name, None) \/ loop' # "emitting"
    BY <1>1 DEF HandleSendRaw, HandleSetValue, Handling
  <2>3. CASE Suspend("Error", name, None)
    BY <1>0, <2>1, <2>3, ReportStep
  <2>4. CASE loop' # "emitting"
    BY <1>0, <2>1, <2>4, NothingSaid
  <2> QED
    BY <2>2, <2>3, <2>4
<1>2. CASE Enqueue
  <2>1. UNCHANGED <<events, connections, scenarios, nextGeneration, owner, pc, aborted>>
    BY <1>2 DEF Enqueue, channels, birth
  <2>2. Suspend("Error", pending.name, None) \/ loop' # "emitting"
    BY <1>2 DEF Enqueue
  <2>3. CASE Suspend("Error", pending.name, None)
    BY <1>0, <2>1, <2>3, ReportStep
  <2>4. CASE loop' # "emitting"
    BY <1>0, <2>1, <2>4, NothingSaid
  <2> QED
    BY <2>2, <2>3, <2>4
<1>3. CASE Shutdown
  BY <1>3, NothingSaid DEF Shutdown, channels, birth
<1> QED
  BY <1>0, <1>1, <1>2, <1>3, ConnectSteps, StartSteps, NoticeSteps DEF Loop, HandleCommand

-----------------------------------------------------------------------------
(* The last word of a task that ended by itself.                           *)

(* What is announced is told of the task it happened to, and the end of a  *)
(* task that was not aborted only once that task is gone.                  *)
TellsTruth(e) ==
  /\ e.kind # "Error" =>
       /\ e.generation \in Generations
       /\ pc[e.generation] # "unborn" /\ owner[e.generation] = e.name
  /\ e.kind \in Ending /\ ~aborted[e.generation] => pc[e.generation] = "done"

WordsTrue == \A e \in Announcements : TellsTruth(e)

(* What the loop is about to say comes from no task whose end was told.    *)
NotToldYet ==
  loop = "emitting" =>
    \A i \in DOMAIN events :
      events[i].kind \in Ending /\ ~aborted[events[i].generation]
        => pending.generation # events[i].generation

WordInv == WordsTrue /\ NotToldYet /\ LastWord

LEMMA WordInit == Init => WordInv
BY DEF Init, WordInv, WordsTrue, NotToldYet, LastWord, Announcements, Items

LEMMA WordLoop ==
  ASSUME TypeInv, SlotInv, WordInv, LoopStep, loop # "stopped"
  PROVE  WordInv'
<1>1. Items(events') = Items(events) /\ Items(events) \subseteq Announcements
  BY DEF LoopStep, Items, Announcements
<1>2. ASSUME NEW n \in Names, Ended(n)
      PROVE  /\ pending'.kind \in Ending /\ pending'.name = n /\ pending'.generation = Holder(n)
             /\ Holder(n) \in Generations /\ pc[Holder(n)] # "unborn" /\ owner[Holder(n)] = n
             /\ aborted'[Holder(n)] \/ pc[Holder(n)] = "done"
  BY <1>2, HolderType DEF Ended, Saying, Ending, SlotInv, NoDeadHolder
<1>3. loop' = "emitting" => Reported \/ \E n \in Names : Ended(n)
  BY DEF LoopStep, Given
<1>4. WordsTrue'
  <2>1. ASSUME NEW e \in Items(events)
        PROVE  TellsTruth(e)'
    <3>1. TellsTruth(e)
      BY <1>1, <2>1 DEF WordInv, WordsTrue
    <3> QED
      BY <3>1 DEF TellsTruth, LoopStep, Ending
  <2>2. loop' = "emitting" => TellsTruth(pending)'
    <3>1. CASE Reported
      BY <3>1 DEF Reported, TellsTruth, Ending
    <3>2. ASSUME NEW n \in Names, Ended(n)
          PROVE  TellsTruth(pending)'
      <4>1. /\ pending'.generation \in Generations
            /\ pc'[pending'.generation] # "unborn" /\ owner'[pending'.generation] = pending'.name
            /\ ~aborted'[pending'.generation] => pc'[pending'.generation] = "done"
        BY <1>2, <3>2 DEF LoopStep
      <4> QED
        BY <4>1 DEF TellsTruth
    <3> QED
      BY <1>3, <3>1, <3>2
  <2>3. \A e \in Announcements' : e \in Items(events) \/ (loop' = "emitting" /\ e = pending')
    BY <1>1 DEF Announcements
  <2> QED
    BY <2>1, <2>2, <2>3 DEF WordsTrue
<1>5. NotToldYet'
  <2> SUFFICES ASSUME loop' = "emitting", NEW i \in DOMAIN events, events[i].kind \in Ending,
                      ~aborted'[events[i].generation]
               PROVE  pending'.generation # events[i].generation
    BY DEF NotToldYet, LoopStep
  <2>1. events[i] \in Announcements /\ TellsTruth(events[i]) /\ events[i].kind # "Error"
    BY <1>1 DEF Items, WordInv, WordsTrue, Ending
  <2>2. /\ events[i].generation \in Generations /\ owner[events[i].generation] = events[i].name
        /\ Holder(events[i].name) # events[i].generation
    BY <2>1 DEF TellsTruth, SlotInv, AnnouncedAreGone
  <2>3. CASE Reported
    BY <2>2, <2>3, HolderType DEF Reported
  <2>4. ASSUME NEW n \in Names, Ended(n)
        PROVE  pending'.generation # events[i].generation
    BY <1>2, <2>2, <2>4
  <2> QED
    BY <1>3, <2>3, <2>4
<1>6. LastWord'
  <2> SUFFICES ASSUME NEW i \in DOMAIN events, NEW j \in DOMAIN events, i < j,
                      events[i].kind \in Ending, ~aborted'[events[i].generation]
               PROVE  events[j].generation # events[i].generation
    BY DEF LastWord, LoopStep
  <2>1. events[i] \in Announcements /\ TellsTruth(events[i]) /\ events[i].kind # "Error"
    BY <1>1 DEF Items, WordInv, WordsTrue, Ending
  <2>2. ~aborted[events[i].generation]
    BY <2>1 DEF TellsTruth, LoopStep
  <2> QED
    BY <2>2 DEF WordInv, LastWord
<1> QED
  BY <1>4, <1>5, <1>6 DEF WordInv

(* A step that says nothing, and after which every task that was gone is.  *)
LEMMA WordAside ==
  ASSUME TypeInv, WordInv, UNCHANGED <<events, loop, pending, owner, aborted>>,
         \A h \in Generations : /\ pc'[h] = "unborn" => pc[h] = "unborn"
                                /\ pc[h] = "done" => pc'[h] = "done"
  PROVE  WordInv'
<1>1. Announcements' = Announcements
  BY DEF Announcements, Items
<1>2. ASSUME NEW e \in Announcements
      PROVE  TellsTruth(e)'
  BY <1>2 DEF TellsTruth, WordInv, WordsTrue, Ending
<1>3. WordsTrue'
  BY <1>1, <1>2 DEF WordsTrue
<1>4. NotToldYet' /\ LastWord'
  BY DEF WordInv, NotToldYet, LastWord
<1> QED
  BY <1>3, <1>4 DEF WordInv

(* Something true is appended that comes from no task whose end was told.  *)
LEMMA WordAppend ==
  ASSUME TypeInv, WordInv, NEW e \in Event, events' = Append(events, e), TellsTruth(e),
         \A i \in DOMAIN events :
           events[i].kind \in Ending /\ ~aborted[events[i].generation]
             => e.generation # events[i].generation,
         loop' # "emitting" \/ (loop' = loop /\ pending' = pending
                                /\ (loop = "emitting" => e.kind \notin Ending)),
         UNCHANGED <<owner, aborted>>,
         \A h \in Generations : /\ pc'[h] = "unborn" => pc[h] = "unborn"
                                /\ pc[h] = "done" => pc'[h] = "done"
  PROVE  WordInv'
<1>1. /\ DOMAIN events = 1 .. Len(events) /\ Len(events) \in Nat
      /\ DOMAIN events' = 1 .. Len(events) + 1
      /\ \A i \in 1 .. Len(events) : events'[i] = events[i]
      /\ events'[Len(events) + 1] = e
  BY AppendProperties, LenProperties DEF TypeInv, TypeOK
<1>2. Items(events') = Items(events) \cup {e}
  BY ItemsAppend DEF TypeInv, TypeOK
<1>3. WordsTrue'
  <2>1. ASSUME NEW a, TellsTruth(a)
        PROVE  TellsTruth(a)'
    BY <2>1 DEF TellsTruth, Ending
  <2>2. \A a \in Announcements' : a \in Announcements \/ a = e
    BY <1>2 DEF Announcements
  <2> QED
    BY <2>1, <2>2 DEF WordInv, WordsTrue
<1>4. NotToldYet'
  BY <1>1 DEF WordInv, NotToldYet
<1>5. LastWord'
  <2> SUFFICES ASSUME NEW i \in DOMAIN events', NEW j \in DOMAIN events', i < j,
                      events'[i].kind \in Ending, ~aborted[events'[i].generation]
               PROVE  events'[j].generation # events'[i].generation
    BY DEF LastWord
  <2>1. i \in DOMAIN events /\ events'[i] = events[i]
    BY <1>1
  <2>2. CASE j \in DOMAIN events
    BY <1>1, <2>1, <2>2 DEF WordInv, LastWord
  <2>3. CASE j = Len(events) + 1
    BY <1>1, <2>1, <2>3
  <2> QED
    BY <1>1, <2>2, <2>3
<1> QED
  BY <1>3, <1>4, <1>5 DEF WordInv

LEMMA WordAnnounce ==
  ASSUME TypeInv, WordInv, Announce
  PROVE  WordInv'
<1>1. loop = "emitting" /\ loop' = "idle" /\ pending \in Announcements /\ pending \in Event
      /\ UNCHANGED <<owner, aborted, pc>>
  BY DEF Announce, Announcements, taskVars, birth, TypeInv, PendingNamed
<1>2. CASE events' = Append(events, pending)
  BY <1>1, <1>2, WordAppend DEF WordInv, WordsTrue, NotToldYet
<1>3. CASE UNCHANGED events
  <2>1. WordsTrue'
    BY <1>1, <1>3 DEF WordInv, WordsTrue, TellsTruth, Announcements, Items
  <2> QED
    BY <1>1, <1>3, <2>1 DEF WordInv, NotToldYet, LastWord
<1> QED
  BY <1>2, <1>3 DEF Announce, Emit

LEMMA WordSpeak ==
  ASSUME TypeInv, WordInv, NEW g \in Generations, Speak(g)
  PROVE  WordInv'
<1> DEFINE e == Saying(Speaks[pc[g]], owner[g], g)
<1>1. e \in Event /\ e.kind \notin Ending /\ e.generation = g /\ e.name = owner[g]
  BY SpeakingTypes
     DEF Speak, Saying, Event, TypeInv, Owned, Speaking, Speaks, Ending
<1>2. pc[g] \notin {"unborn", "done"} /\ Resumes[pc[g]] \notin {"unborn", "done"}
  BY DEF Speak, Speaking, Resumes
<1>3. \A h \in Generations : /\ pc'[h] = "unborn" => pc[h] = "unborn"
                             /\ pc[h] = "done" => pc'[h] = "done"
  BY <1>2 DEF Speak, Goes, TypeInv, TypeOK
<1>4. UNCHANGED <<loop, pending, owner, aborted>>
  BY DEF Speak, loopVars, birth
<1>5. CASE UNCHANGED events
  BY <1>3, <1>4, <1>5, WordAside
<1>6. CASE events' = Append(events, e)
  <2>1. TellsTruth(e)
    BY <1>1, <1>2 DEF TellsTruth
  <2>2. ASSUME NEW i \in DOMAIN events, events[i].kind \in Ending, ~aborted[events[i].generation]
        PROVE  e.generation # events[i].generation
    <3>1. TellsTruth(events[i])
      BY DEF WordInv, WordsTrue, Announcements, Items
    <3> QED
      BY <1>1, <1>2, <2>2, <3>1 DEF TellsTruth
  <2> HIDE DEF e
  <2> QED
    BY <1>1, <1>3, <1>4, <1>6, <2>1, <2>2, WordAppend
<1> QED
  BY <1>5, <1>6 DEF Speak, Emit

LEMMA WordReceive ==
  ASSUME TypeInv, WordInv, Receive
  PROVE  WordInv'
<1>1. /\ DOMAIN events = 1 .. Len(events) /\ Len(events) \in Nat \ {0}
      /\ DOMAIN events' = 1 .. Len(events) - 1
      /\ \A i \in 1 .. Len(events) - 1 : events'[i] = events[i + 1]
  BY HeadTailProperties, EmptySeq, LenProperties DEF Receive, TypeInv, TypeOK
<1>2. UNCHANGED <<loop, pending, owner, aborted, pc>>
  BY DEF Receive, loopVars, taskVars, birth
<1>3. \A i \in DOMAIN events' : i + 1 \in DOMAIN events /\ events'[i] = events[i + 1]
  BY <1>1
<1>4. Announcements' \subseteq Announcements
  BY <1>2, <1>3 DEF Announcements, Items
<1>5. WordsTrue'
  BY <1>2, <1>4 DEF WordInv, WordsTrue, TellsTruth
<1>6. NotToldYet'
  BY <1>2, <1>3 DEF WordInv, NotToldYet
<1>7. LastWord'
  <2> SUFFICES ASSUME NEW i \in DOMAIN events', NEW j \in DOMAIN events', i < j,
                      events'[i].kind \in Ending, ~aborted[events'[i].generation]
               PROVE  events'[j].generation # events'[i].generation
    BY <1>2 DEF LastWord
  <2>1. i + 1 < j + 1
    BY <1>1
  <2> QED
    BY <1>3, <2>1 DEF WordInv, LastWord
<1> QED
  BY <1>5, <1>6, <1>7 DEF WordInv

LEMMA WordQuit ==
  ASSUME TypeInv, WordInv, Quit
  PROVE  WordInv'
<1>1. UNCHANGED <<loop, pending, owner, aborted, pc>> /\ events' = <<>>
  BY DEF Quit, loopVars, taskVars, birth
<1>2. Announcements' \subseteq Announcements
  BY <1>1 DEF Announcements, Items
<1>3. WordsTrue'
  BY <1>1, <1>2 DEF WordInv, WordsTrue, TellsTruth
<1> QED
  BY <1>1, <1>3 DEF WordInv, NotToldYet, LastWord

LEMMA WordStep == TypeInv /\ SlotInv /\ WordInv /\ [Next]_vars => WordInv'
<1> SUFFICES ASSUME TypeInv, SlotInv, WordInv, [Next]_vars PROVE WordInv'
  OBVIOUS
<1>1. CASE Loop /\ ~Announce
  BY <1>1, LoopSteps, WordLoop
<1>2. CASE \E c \in Offered : Issue(c)
  BY <1>2, WordAside DEF Issue, loopVars, taskVars, birth
<1>3. ASSUME NEW g \in Generations, Quiet(g) \/ PostSend(g) \/ Notify(g) \/ Reap(g)
      PROVE  WordInv'
  <2>1. PICK from \in PCs \ {"done"}, to \in PCs \ {"unborn"} : Goes(g, from, to)
    BY <1>3 DEF Quiet, PostSend, Notify, Reap, Gone, PCs, TypeInv, TypeOK
  <2>2. \A h \in Generations : /\ pc'[h] = "unborn" => pc[h] = "unborn"
                               /\ pc[h] = "done" => pc'[h] = "done"
    BY <2>1 DEF Goes, TypeInv, TypeOK
  <2> QED
    BY <1>3, <2>2, WordAside DEF Quiet, PostSend, Notify, Reap, channels, loopVars, birth
<1>4. ASSUME NEW g \in Generations, Task(g)
      PROVE  WordInv'
  BY <1>3, <1>4, WordSpeak, LinkStepIsQuiet, ScenarioStepIsQuiet DEF Task
<1>5. CASE Over \/ UNCHANGED vars
  BY <1>5, WordAside DEF Over, vars, channels, loopVars, taskVars, birth
<1> QED
  BY <1>1, <1>2, <1>4, <1>5, WordAnnounce, WordReceive, WordQuit DEF Next, FrontEnd

LEMMA WordsCorrect == Spec => [](TypeInv /\ SlotInv /\ WordInv)
<1>1. Init => TypeInv /\ SlotInv /\ WordInv
  BY TypeInit, SlotInit, WordInit
<1>2. (TypeInv /\ SlotInv /\ WordInv) /\ [Next]_vars => (TypeInv /\ SlotInv /\ WordInv)'
  BY TypeStep, SlotStep, WordStep
<1> QED
  BY <1>1, <1>2, PTL DEF Spec

(* Nothing is heard of a task after the announcement that it has ended by  *)
(* itself (engine.rs:341-372): its announcement is the last of its events. *)
THEOREM EndIsLast == Spec => []LastWord
<1>1. WordInv => LastWord
  BY DEF WordInv
<1> QED
  BY WordsCorrect, <1>1, PTL
-----------------------------------------------------------------------------
(* The engine implements NameSlots: every step claims one name, releases   *)
(* one, announces what was released, or changes nothing NameSlots sees.    *)

SlotHolder == [name \in Names |-> Holder(name)]
Owed == IF loop = "emitting" /\ pending.kind \in Ending THEN pending.generation ELSE None

(* The abstract actions, read through the mapping. *)
ClaimOf(n) ==
  /\ Owed = None
  /\ Holder(n) = None
  /\ SlotHolder' = [SlotHolder EXCEPT ![n] = nextGeneration]
  /\ nextGeneration' = nextGeneration + 1
  /\ Owed' = Owed

ReleaseOf(n) ==
  /\ Owed = None
  /\ Holder(n) # None
  /\ Owed' = Holder(n)
  /\ SlotHolder' = [SlotHolder EXCEPT ![n] = None]
  /\ UNCHANGED nextGeneration

AnnouncedOf ==
  /\ Owed # None
  /\ Owed' = None
  /\ UNCHANGED <<SlotHolder, nextGeneration>>

Unseen == UNCHANGED <<SlotHolder, Owed, nextGeneration>>

AbstractStep == (\E n \in Names : ClaimOf(n) \/ ReleaseOf(n)) \/ AnnouncedOf \/ Unseen

(* Nothing is owed unless the loop is about to announce an end. *)
LEMMA OwedWhenNot == loop # "emitting" => Owed = None
BY DEF Owed

LEMMA OwedAfterError ==
  ASSUME NEW name, Suspend("Error", name, None)
  PROVE  Owed' = None
BY DEF Owed, Suspend, Saying, Ending

LEMMA HolderIsHeld ==
  ASSUME NEW name \in Names, NEW v, TypeInv,
         \A n \in Names : Holder(n)' = IF n = name THEN v ELSE Holder(n)
  PROVE  SlotHolder' = [SlotHolder EXCEPT ![name] = v]
BY DEF SlotHolder

LEMMA HoldersKept ==
  ASSUME UNCHANGED <<connections, scenarios>>
  PROVE  UNCHANGED SlotHolder
BY DEF SlotHolder, Holder

(* A step from and to states that owe nothing, with no name touched. *)
LEMMA UnseenStep ==
  ASSUME UNCHANGED <<connections, scenarios, nextGeneration>>, Owed = None, Owed' = None
  PROVE  Unseen
BY HoldersKept DEF Unseen

LEMMA ConnectClaims ==
  ASSUME TypeInv, SlotInv, HandleConnect
  PROVE  AbstractStep
<1> DEFINE id == Head(commands).name
<1>1. nextGeneration' \in {nextGeneration, nextGeneration + 1} /\ Owed = None
  BY OwedWhenNot DEF HandleConnect, Spawn, Handling
<1>2. id \in Ids /\ id \in Names
  BY <1>1, HandlingTypes DEF HandleConnect, Command, Names
<1>3. CASE Suspend("Error", id, None) /\ UNCHANGED <<connections, nextGeneration>>
  BY <1>1, <1>3, OwedWhenNot, OwedAfterError, UnseenStep DEF HandleConnect, AbstractStep
<1>4. CASE /\ connections[id] = None
           /\ Spawn(id, Head(commands).config, "connecting")
           /\ connections' = [connections EXCEPT ![id] = nextGeneration]
           /\ UNCHANGED <<loop, pending>>
  <2>1. \A n \in Names : Holder(n)' = IF n = id THEN nextGeneration ELSE Holder(n)
    BY <1>2, <1>4, HolderOfConnection DEF HandleConnect
  <2>2. Holder(id) = None /\ nextGeneration' = nextGeneration + 1 /\ Owed' = Owed
    BY <1>2, <1>4 DEF Holder, Spawn, Owed
  <2>3. SlotHolder' = [SlotHolder EXCEPT ![id] = nextGeneration]
    BY <1>2, <2>1, HolderIsHeld
  <2> QED
    BY <1>1, <1>2, <2>2, <2>3 DEF ClaimOf, AbstractStep
<1> QED
  BY <1>3, <1>4 DEF HandleConnect

LEMMA StartClaims ==
  ASSUME TypeInv, SlotInv, HandleStart
  PROVE  AbstractStep
<1> DEFINE s == Head(commands).name
<1>1. nextGeneration' \in {nextGeneration, nextGeneration + 1} /\ Owed = None
  BY OwedWhenNot DEF HandleStart, Spawn, Handling
<1>2. s \in Scenarios /\ s \in Names /\ s \notin Ids
  BY <1>1, HandlingTypes, ConstantsAssumption DEF HandleStart, Command, Names
<1>3. CASE Suspend("Error", s, None) /\ UNCHANGED <<scenarios, nextGeneration>>
  BY <1>1, <1>3, OwedWhenNot, OwedAfterError, UnseenStep DEF HandleStart, AbstractStep
<1>4. CASE /\ scenarios[s] = None
           /\ Spawn(s, None, "pass")
           /\ scenarios' = [scenarios EXCEPT ![s] = nextGeneration]
           /\ UNCHANGED <<loop, pending>>
  <2>1. \A n \in Names : Holder(n)' = IF n = s THEN nextGeneration ELSE Holder(n)
    BY <1>2, <1>4, HolderOfScenario DEF HandleStart
  <2>2. Holder(s) = None /\ nextGeneration' = nextGeneration + 1 /\ Owed' = Owed
    BY <1>2, <1>4 DEF Holder, Spawn, Owed
  <2>3. SlotHolder' = [SlotHolder EXCEPT ![s] = nextGeneration]
    BY <1>2, <2>1, HolderIsHeld
  <2> QED
    BY <1>1, <1>2, <2>2, <2>3 DEF ClaimOf, AbstractStep
<1> QED
  BY <1>3, <1>4 DEF HandleStart

(* A name is freed for its holder and the loop suspends on that end. *)
LEMMA FreeingReleases ==
  ASSUME TypeInv, NEW name \in Names, NEW kind \in Ending, Owed = None,
         Holder(name) # None, Suspend(kind, name, Holder(name)),
         \A n \in Names : Holder(n)' = IF n = name THEN None ELSE Holder(n),
         UNCHANGED nextGeneration
  PROVE  AbstractStep
<1>1. Owed' = Holder(name)
  BY DEF Owed, Suspend, Saying
<1>2. SlotHolder' = [SlotHolder EXCEPT ![name] = None]
  BY HolderIsHeld
<1> QED
  BY <1>1, <1>2 DEF ReleaseOf, AbstractStep

LEMMA DisconnectReleases ==
  ASSUME TypeInv, HandleDisconnect
  PROVE  AbstractStep
<1> DEFINE id == Head(commands).name
<1>1. id \in Ids /\ id \in Names /\ Owed = None
  BY HandlingTypes, OwedWhenNot DEF HandleDisconnect, Handling, Command, Names
<1>2. CASE Suspend("Error", id, None) /\ UNCHANGED connections
  BY <1>1, <1>2, OwedWhenNot, OwedAfterError, UnseenStep DEF HandleDisconnect, AbstractStep
<1>3. CASE /\ connections[id] # None
           /\ connections' = Vacate(connections, id)
           /\ Suspend("Disconnected", id, connections[id])
  <2>1. Holder(id) = connections[id]
    BY <1>1 DEF Holder
  <2>2. \A n \in Names : Holder(n)' = IF n = id THEN None ELSE Holder(n)
    BY <1>1, <1>3, HolderOfConnection DEF HandleDisconnect, Vacate
  <2> QED
    BY <1>1, <1>3, <2>1, <2>2, FreeingReleases DEF HandleDisconnect, Ending
<1> QED
  BY <1>2, <1>3 DEF HandleDisconnect

LEMMA StopReleases ==
  ASSUME TypeInv, HandleStop
  PROVE  AbstractStep
<1> DEFINE s == Head(commands).name
<1>1. s \in Scenarios /\ s \in Names /\ s \notin Ids /\ Owed = None
  BY HandlingTypes, OwedWhenNot, ConstantsAssumption
     DEF HandleStop, Handling, Command, Names
<1>2. CASE Suspend("Error", s, None) /\ UNCHANGED scenarios
  BY <1>1, <1>2, OwedWhenNot, OwedAfterError, UnseenStep DEF HandleStop, AbstractStep
<1>3. CASE /\ scenarios[s] # None
           /\ scenarios' = Vacate(scenarios, s)
           /\ Suspend("Finished", s, scenarios[s])
  <2>1. Holder(s) = scenarios[s]
    BY <1>1 DEF Holder
  <2>2. \A n \in Names : Holder(n)' = IF n = s THEN None ELSE Holder(n)
    BY <1>1, <1>3, HolderOfScenario DEF HandleStop, Vacate
  <2> QED
    BY <1>1, <1>3, <2>1, <2>2, FreeingReleases DEF HandleStop, Ending
<1> QED
  BY <1>2, <1>3 DEF HandleStop

LEMMA FinishedReleases ==
  ASSUME TypeInv, FinishedNotice
  PROVE  AbstractStep
<1> DEFINE notice == Head(finished)
<1>1. notice \in Notice(Ids)
  BY TailType DEF FinishedNotice, TypeInv, TypeOK
<1>2. /\ notice.name \in Ids /\ notice.name \in Names /\ notice.generation # None
      /\ Owed = None
  BY <1>1, HolderType, OwedWhenNot DEF Notice, Names, FinishedNotice
<1>3. CASE Current(connections, notice)
  <2>1. Holder(notice.name) = notice.generation
    BY <1>2, <1>3 DEF Current, Holder
  <2>2. \A n \in Names : Holder(n)' = IF n = notice.name THEN None ELSE Holder(n)
    BY <1>2, <1>3, HolderOfConnection DEF FinishedNotice, Vacate
  <2> QED
    BY <1>2, <1>3, <2>1, <2>2, FreeingReleases DEF FinishedNotice, Ending
<1>4. CASE UNCHANGED <<connections, loop, pending>>
  BY <1>4, HoldersKept DEF FinishedNotice, Owed, Unseen, AbstractStep
<1> QED
  BY <1>3, <1>4 DEF FinishedNotice

LEMMA EndedReleases ==
  ASSUME TypeInv, EndedNotice
  PROVE  AbstractStep
<1> DEFINE notice == Head(ended)
<1>1. notice \in Notice(Scenarios)
  BY TailType DEF EndedNotice, TypeInv, TypeOK
<1>2. /\ notice.name \in Scenarios /\ notice.name \in Names /\ notice.name \notin Ids
      /\ notice.generation # None /\ Owed = None
  BY <1>1, HolderType, OwedWhenNot, ConstantsAssumption DEF Notice, Names, EndedNotice
<1>3. CASE Current(scenarios, notice)
  <2>1. Holder(notice.name) = notice.generation
    BY <1>2, <1>3 DEF Current, Holder
  <2>2. \A n \in Names : Holder(n)' = IF n = notice.name THEN None ELSE Holder(n)
    BY <1>2, <1>3, HolderOfScenario DEF EndedNotice, Vacate
  <2> QED
    BY <1>2, <1>3, <2>1, <2>2, FreeingReleases DEF EndedNotice, Ending
<1>4. CASE UNCHANGED <<scenarios, loop, pending>>
  BY <1>4, HoldersKept DEF EndedNotice, Owed, Unseen, AbstractStep
<1> QED
  BY <1>3, <1>4 DEF EndedNotice

LEMMA AnnounceAnnounces ==
  ASSUME TypeInv, SlotInv, Announce
  PROVE  AbstractStep
<1>1. UNCHANGED <<SlotHolder, nextGeneration>> /\ Owed' = None
  BY HoldersKept DEF Announce, Owed
<1>2. CASE pending.kind \in Ending
  <2>1. pending \in Announcements
    BY DEF Announce, Announcements
  <2>2. Owed = pending.generation /\ pending.generation \in Generations
    BY <1>2, <2>1 DEF Announce, Owed, SlotInv, AnnouncedAreGone
  <2> QED
    BY <1>1, <2>2, HolderType DEF AnnouncedOf, AbstractStep
<1>3. CASE pending.kind \notin Ending
  BY <1>1, <1>3 DEF Owed, Unseen, AbstractStep
<1> QED
  BY <1>2, <1>3

LEMMA EveryStepIsAbstract ==
  ASSUME TypeInv, SlotInv, [Next]_vars
  PROVE  AbstractStep
<1>1. CASE UNCHANGED <<loop, pending, connections, scenarios, nextGeneration>>
  BY <1>1, HoldersKept DEF Owed, Unseen, AbstractStep
<1>2. CASE HandleSendRaw
  <2>1. Owed = None
    BY <1>2, OwedWhenNot DEF HandleSendRaw, Handling
  <2>2. loop' = "queueing" \/ Suspend("Error", Head(commands).name, None)
    BY <1>2 DEF HandleSendRaw
  <2>3. Owed' = None
    BY <2>2, OwedAfterError DEF Owed
  <2> QED
    BY <1>2, <2>1, <2>3, UnseenStep DEF HandleSendRaw, AbstractStep
<1>3. CASE HandleSetValue
  <2>1. Owed = None
    BY <1>3, OwedWhenNot DEF HandleSetValue, Handling
  <2>2. Owed' = None
    BY <1>3, <2>1, OwedAfterError DEF HandleSetValue, Owed
  <2> QED
    BY <1>3, <2>1, <2>2, UnseenStep DEF HandleSetValue, AbstractStep
<1>4. CASE Enqueue
  <2>1. Owed = None /\ Owed' = None
    BY <1>4, OwedWhenNot, OwedAfterError DEF Enqueue, Owed
  <2> QED
    BY <1>4, <2>1, UnseenStep DEF Enqueue, AbstractStep
<1>5. CASE Shutdown
  <2>1. Owed = None /\ Owed' = None
    BY <1>5 DEF Shutdown, Owed
  <2> QED
    BY <1>5, <2>1, UnseenStep DEF Shutdown, AbstractStep
<1>6. CASE Loop
  BY <1>2, <1>3, <1>4, <1>5, <1>6, ConnectClaims, StartClaims, DisconnectReleases,
     StopReleases, FinishedReleases, EndedReleases, AnnounceAnnounces
     DEF Loop, HandleCommand
<1>7. CASE FrontEnd
  BY <1>1, <1>7 DEF FrontEnd, Issue, Receive, Quit, loopVars
<1>8. ASSUME NEW g \in Generations, Task(g)
      PROVE  UNCHANGED loopVars
  <2>1. CASE LinkStep(g) \/ ScenarioStep(g)
    BY <2>1, LinkStepIsQuiet, ScenarioStepIsQuiet DEF Quiet, PostSend
  <2> QED
    BY <1>8, <2>1 DEF Task, Speak, Notify, Reap
<1>9. CASE Over \/ UNCHANGED vars
  BY <1>1, <1>9 DEF Over, vars, loopVars
<1> QED
  BY <1>1, <1>6, <1>7, <1>8, <1>9 DEF Next, loopVars

(* The engine keeps the promise NameSlots makes about names, through the   *)
(* two maps of the loop and the announcement it is suspended on.           *)
THEOREM EngineKeepsSlots == Spec => KeepsSlots
<1>1. Init => Slots!SlotInit
  BY DEF Init, Slots!SlotInit, Holder, Names
<1>2. TypeInv /\ SlotInv /\ [Next]_vars => [Slots!SlotNext]_(Slots!slotVars)
  <2> SUFFICES ASSUME TypeInv, SlotInv, [Next]_vars
               PROVE  [Slots!SlotNext]_(Slots!slotVars)
    OBVIOUS
  <2>1. AbstractStep
    BY EveryStepIsAbstract
  <2>2. ASSUME NEW n \in Names, ClaimOf(n) PROVE Slots!Claim(n)
    BY <2>2 DEF ClaimOf, Slots!Claim, SlotHolder, Owed
  <2>3. ASSUME NEW n \in Names, ReleaseOf(n) PROVE Slots!Release(n)
    BY <2>3 DEF ReleaseOf, Slots!Release, SlotHolder, Owed
  <2>4. ASSUME AnnouncedOf PROVE Slots!Announced
    BY <2>4 DEF AnnouncedOf, Slots!Announced, SlotHolder, Owed
  <2>5. ASSUME Unseen PROVE UNCHANGED Slots!slotVars
    BY <2>5 DEF Unseen, Slots!slotVars, SlotHolder, Owed
  <2> QED
    BY <2>1, <2>2, <2>3, <2>4, <2>5 DEF AbstractStep, Slots!SlotNext
<1> QED
  BY <1>1, <1>2, SlotsCorrect, PTL DEF Spec, KeepsSlots, Slots!SlotSpec
-----------------------------------------------------------------------------
(* When a send is refused, for any number of connections, any policy and   *)
(* any failure ceiling.                                                    *)

(* The first part of LinkInv: no transport, no flag.                       *)
FlagsTrue == \A g \in Generations : pc[g] \in NoTransport => ~connected[g]

(* The loop tells errors and ends; nothing is left unread by nobody.       *)
LoopTells == loop = "emitting" => pending.kind \in {"Error"} \cup Ending
NothingUnread == closed => events = <<>>

(* The last part, one task at a time.                                      *)
Between(g) == SaidDown(g) => pc[g] \in BetweenLinks /\ (connected[g] => pc[g] = "connected")

LEMMA LinkParts ==
  LinkInv <=> FlagsTrue /\ LoopTells /\ NothingUnread /\ \A g \in Generations : Between(g)
BY DEF LinkInv, FlagsTrue, LoopTells, NothingUnread, Between

LEMMA LinkPartsNext ==
  FlagsTrue' /\ LoopTells' /\ NothingUnread' /\ (\A g \in Generations : Between(g)') => LinkInv'
BY DEF LinkInv, FlagsTrue, LoopTells, NothingUnread, Between

LEMMA LinkInit == Init => LinkInv
BY DEF Init, LinkInv, SaidDown

-----------------------------------------------------------------------------
(* What was said of a task, by what becomes of the queue.                  *)

LEMMA SaidKept ==
  ASSUME UNCHANGED events, NEW h \in Generations
  PROVE  SaidDown(h)' <=> SaidDown(h)
BY DEF SaidDown

LEMMA SaidRead ==
  ASSUME TypeInv, events # <<>>, events' = Tail(events), NEW h \in Generations, SaidDown(h)'
  PROVE  SaidDown(h)
<1>1. events \in Seq(Event)
  BY DEF TypeInv, TypeOK
<1>2. /\ Len(events') = Len(events) - 1 /\ Len(events) \in Nat
      /\ DOMAIN events' = 1 .. Len(events')
      /\ \A i \in DOMAIN events' : events'[i] = events[i + 1]
  BY <1>1
<1>3. PICK i \in DOMAIN events' :
        /\ events'[i].generation = h
        /\ events'[i].kind \in {"Connecting", "Listening"}
        /\ \A j \in i + 1 .. Len(events') :
             events'[j].generation = h => events'[j].kind # "Connected"
  BY DEF SaidDown
<1>4. i + 1 \in DOMAIN events /\ events[i + 1] = events'[i]
  BY <1>1, <1>2
<1>5. ASSUME NEW j \in (i + 1) + 1 .. Len(events), events[j].generation = h
      PROVE  events[j].kind # "Connected"
  <2>1. j - 1 \in i + 1 .. Len(events') /\ events'[j - 1] = events[j]
    BY <1>2, <1>5
  <2> QED
    BY <1>3, <1>5, <2>1
<1> QED
  BY <1>3, <1>4, <1>5 DEF SaidDown

(* One more event: of another task or of no link it leaves what was said,  *)
(* Connected takes it back.                                                *)
LEMMA SaidMore ==
  ASSUME TypeInv, NEW e \in Event, events' = Append(events, e), NEW h \in Generations,
         SaidDown(h)'
  PROVE  /\ e.generation # h \/ e.kind # "Connected"
         /\ e.generation # h \/ e.kind \notin {"Connecting", "Listening"} => SaidDown(h)
<1>1. events \in Seq(Event)
  BY DEF TypeInv, TypeOK
<1>2. /\ Len(events') = Len(events) + 1 /\ Len(events) \in Nat
      /\ DOMAIN events' = 1 .. Len(events')
      /\ \A i \in 1 .. Len(events) : events'[i] = events[i]
      /\ events'[Len(events) + 1] = e
      /\ DOMAIN events = 1 .. Len(events)
  BY <1>1
<1>3. PICK i \in DOMAIN events' :
        /\ events'[i].generation = h
        /\ events'[i].kind \in {"Connecting", "Listening"}
        /\ \A j \in i + 1 .. Len(events') :
             events'[j].generation = h => events'[j].kind # "Connected"
  BY DEF SaidDown
<1>4. CASE i = Len(events) + 1
  BY <1>2, <1>3, <1>4
<1>5. CASE i \in 1 .. Len(events)
  <2>1. Len(events) + 1 \in i + 1 .. Len(events')
    BY <1>2, <1>5
  <2>2. e.generation # h \/ e.kind # "Connected"
    BY <1>2, <1>3, <2>1
  <2>3. \A j \in i + 1 .. Len(events) : j \in i + 1 .. Len(events') /\ events'[j] = events[j]
    BY <1>2, <1>5
  <2>4. SaidDown(h)
    BY <1>2, <1>3, <1>5, <2>3 DEF SaidDown
  <2> QED
    BY <2>2, <2>4
<1> QED
  BY <1>2, <1>4, <1>5

-----------------------------------------------------------------------------
(* Steps that leave the queue of events and the loop alone.                *)

Silent == UNCHANGED <<events, closed, loop, pending>>

LEMMA UntouchedStaysBetween ==
  ASSUME NEW h \in Generations, Between(h), SaidDown(h)' => SaidDown(h),
         pc'[h] = pc[h], connected'[h] = connected[h]
  PROVE  Between(h)'
BY DEF Between

LEMMA OneTaskStaysBetween ==
  ASSUME LinkInv, Silent, NEW g \in Generations,
         \A h \in Generations \ {g} : pc'[h] = pc[h] /\ connected'[h] = connected[h],
         pc'[g] \in NoTransport => ~connected'[g],
         SaidDown(g) => pc'[g] \in BetweenLinks /\ (connected'[g] => pc'[g] = "connected")
  PROVE  LinkInv'
<1>1. FlagsTrue' /\ LoopTells' /\ NothingUnread'
  BY LinkParts DEF FlagsTrue, LoopTells, NothingUnread, Silent
<1>2. \A h \in Generations : SaidDown(h)' <=> SaidDown(h)
  BY SaidKept DEF Silent
<1>3. Between(g)'
  BY <1>2 DEF Between
<1>4. \A h \in Generations : Between(h)'
  BY <1>2, <1>3, LinkParts, UntouchedStaysBetween
<1> QED
  BY <1>1, <1>4, LinkPartsNext

(* A step of a task from one state to another, with its flag as it was,    *)
(* raised or taken down.                                                   *)
LEMMA MoveStaysSound ==
  ASSUME TypeInv, LinkInv, Silent, NEW g \in Generations, NEW from, NEW to, Goes(g, from, to),
         NEW flag \in BOOLEAN, connected' = [connected EXCEPT ![g] = flag],
         to \in NoTransport => ~flag,
         from \in BetweenLinks => to \in BetweenLinks /\ (flag => to = "connected")
  PROVE  LinkInv'
<1>1. pc[g] = from /\ pc'[g] = to /\ \A h \in Generations \ {g} : pc'[h] = pc[h]
  BY DEF Goes, TypeInv, TypeOK
<1>2. connected'[g] = flag /\ \A h \in Generations \ {g} : connected'[h] = connected[h]
  BY DEF TypeInv, TypeOK
<1>3. SaidDown(g) => from \in BetweenLinks
  BY <1>1, LinkParts DEF Between
<1> QED
  BY <1>1, <1>2, <1>3, OneTaskStaysBetween

LEMMA StayStaysSound ==
  ASSUME TypeInv, LinkInv, Silent, NEW g \in Generations, NEW from, NEW to, Goes(g, from, to),
         UNCHANGED connected,
         to \in NoTransport => from \in NoTransport,
         from \in BetweenLinks => from # "connected" /\ to \in BetweenLinks
  PROVE  LinkInv'
<1>1. pc[g] = from /\ connected[g] \in BOOLEAN
  BY DEF Goes, TypeInv, TypeOK
<1>2. pc'[g] = to /\ \A h \in Generations \ {g} : pc'[h] = pc[h]
  BY DEF Goes, TypeInv, TypeOK
<1>3. from \in NoTransport => ~connected[g]
  BY <1>1, LinkParts DEF FlagsTrue
<1>4. SaidDown(g) => to \in BetweenLinks /\ ~connected[g]
  BY <1>1, LinkParts DEF Between
<1> QED
  BY <1>1, <1>2, <1>3, <1>4, OneTaskStaysBetween

LEMMA LinkStepIsSilent ==
  ASSUME NEW g \in Generations, LinkStep(g)
  PROVE  Silent
BY LinkStepIsQuiet DEF Quiet, Silent, channels, loopVars

LEMMA LinkStepStaysSound ==
  ASSUME TypeInv, LinkInv, NEW g \in Generations, LinkStep(g)
  PROVE  LinkInv'
<1> USE LinkStepIsSilent DEF NoTransport, BetweenLinks
<1>1. CASE OpenFails(g) \/ AcceptFails(g) \/ NothingToAccept(g)
  BY <1>1, StayStaysSound DEF OpenFails, AcceptFails, NothingToAccept, linkVars
<1>2. CASE Take(g) \/ Written(g) \/ WriteFails(g)
  BY <1>2, StayStaysSound DEF Take, Written, WriteFails, linkVars
<1>3. CASE Heard(g) \/ ReceiveFails(g)
  BY <1>3, StayStaysSound DEF Heard, ReceiveFails, linkVars
<1>4. CASE Wake(g)
  BY <1>4, StayStaysSound DEF Wake
<1>5. CASE Opened(g)
  <2>1. CASE Goes(g, "opening", "connected") /\ LinkUp(g)
    BY <2>1, MoveStaysSound DEF LinkUp
  <2>2. CASE Goes(g, "opening", "listening") /\ UNCHANGED connected
    BY <2>2, StayStaysSound
  <2> QED
    BY <1>5, <2>1, <2>2 DEF Opened
<1>6. CASE Accepted(g)
  <2>1. Goes(g, "accepting", "connected") /\ connected' = [connected EXCEPT ![g] = TRUE]
    BY <1>6 DEF Accepted, LinkUp
  <2> QED
    BY <2>1, MoveStaysSound
<1>7. CASE LetGo(g)
  BY <1>7, MoveStaysSound DEF LetGo, FlagDown
<1>8. CASE PeerLost(g)
  BY <1>8, MoveStaysSound DEF PeerLost, FlagDown
<1>9. CASE LinkEnds(g)
  <2>1. PICK to \in {"backoff", "notifying"} : Goes(g, "down", to)
    BY <1>9 DEF LinkEnds
  <2> QED
    BY <1>9, <2>1, MoveStaysSound DEF LinkEnds, FlagDown
<1> QED
  BY <1>1, <1>2, <1>3, <1>4, <1>5, <1>6, <1>7, <1>8, <1>9 DEF LinkStep

LEMMA ScenarioStepStaysSound ==
  ASSUME TypeInv, LinkInv, NEW g \in Generations, ScenarioStep(g)
  PROVE  LinkInv'
<1>1. PICK from \in {"pass", "acting", "posting"},
           to \in {"step", "pass", "posting", "notifying", "acting"} : Goes(g, from, to)
  BY DEF ScenarioStep, NextStep, StepDone, Upgrade, PostSend, ScenarioEnds, Goes
<1>2. UNCHANGED connected /\ Silent
  BY DEF ScenarioStep, NextStep, StepDone, Upgrade, PostSend, ScenarioEnds, linkVars,
         Silent, channels, loopVars
<1> QED
  BY <1>1, <1>2, StayStaysSound DEF NoTransport, BetweenLinks

LEMMA GoneStaysSound ==
  ASSUME TypeInv, LinkInv, Silent, NEW g \in Generations, Gone(g)
  PROVE  LinkInv'
BY MoveStaysSound DEF Gone, NoTransport, BetweenLinks

(* A fresh task takes a number never used.                                 *)
LEMMA SpawnStaysSound ==
  ASSUME TypeInv, SlotInv, LinkInv, Silent, nextGeneration \in Generations, NEW name, NEW cfg,
         NEW start \in {"connecting", "pass"}, Spawn(name, cfg, start), UNCHANGED connected
  PROVE  LinkInv'
<1>0. PICK g \in Generations : g = nextGeneration
  OBVIOUS
<1>1. pc[g] = "unborn"
  BY <1>0 DEF SlotInv, Born, Generations
<1>2. Goes(g, "unborn", start)
  BY <1>0, <1>1 DEF Spawn, Begin, Goes
<1> QED
  BY <1>2, StayStaysSound DEF NoTransport, BetweenLinks

-----------------------------------------------------------------------------
(* Steps that say something, or read it.                                   *)

LEMMA AsideStaysSound ==
  ASSUME LinkInv, UNCHANGED <<pc, connected, events, closed>>, LoopTells'
  PROVE  LinkInv'
<1>1. \A h \in Generations : SaidDown(h)' <=> SaidDown(h)
  BY SaidKept
<1>2. \A h \in Generations : Between(h)'
  BY <1>1, LinkParts DEF Between
<1>3. FlagsTrue' /\ NothingUnread'
  BY LinkParts DEF FlagsTrue, NothingUnread
<1> QED
  BY <1>2, <1>3, LinkPartsNext

LEMMA AnnounceStaysSound ==
  ASSUME TypeInv, LinkInv, Announce
  PROVE  LinkInv'
<1>1. UNCHANGED <<pc, connected, closed>> /\ loop' = "idle" /\ loop = "emitting"
  BY DEF Announce, taskVars, linkVars
<1>2. CASE UNCHANGED events
  BY <1>1, <1>2, AsideStaysSound DEF LoopTells
<1>3. CASE ~closed /\ events' = Append(events, pending)
  <2>1. pending \in Event /\ pending.kind \in {"Error"} \cup Ending
    BY <1>1, LinkParts DEF LoopTells, TypeInv, PendingNamed
  <2>2. \A h \in Generations : SaidDown(h)' => SaidDown(h)
    BY <1>3, <2>1, SaidMore DEF Ending
  <2>3. \A h \in Generations : Between(h)'
    BY <1>1, <2>2, LinkParts, UntouchedStaysBetween
  <2>4. FlagsTrue' /\ LoopTells' /\ NothingUnread'
    BY <1>1, <1>3, LinkParts DEF FlagsTrue, LoopTells, NothingUnread
  <2> QED
    BY <2>3, <2>4, LinkPartsNext
<1> QED
  BY <1>2, <1>3 DEF Announce, Emit

(* What a task says and where it goes on: Connected is said on the way to  *)
(* the pump, and from no state between two links does it get there else.   *)
LEMMA SpeakStaysSound ==
  ASSUME TypeInv, LinkInv, NEW g \in Generations, Speak(g)
  PROVE  LinkInv'
<1> DEFINE e == Saying(Speaks[pc[g]], owner[g], g)
<1>1. /\ UNCHANGED <<closed, connected, loop, pending>>
      /\ pc'[g] = Resumes[pc[g]] /\ \A h \in Generations \ {g} : pc'[h] = pc[h]
  BY DEF Speak, Goes, TypeInv, TypeOK, loopVars, linkVars
<1>2. Resumes[pc[g]] \in NoTransport => pc[g] \in NoTransport
  BY DEF Speak, Speaking, Resumes, NoTransport
<1>3. /\ pc[g] \in BetweenLinks /\ pc[g] # "connected" => Resumes[pc[g]] \in BetweenLinks
      /\ pc[g] = "connected" => Speaks[pc[g]] = "Connected"
      /\ Speaks[pc[g]] \in {"Connecting", "Listening"} => pc[g] \in NoTransport
  BY DEF Speak, Speaking, Speaks, Resumes, NoTransport, BetweenLinks
<1>4. e \in Event
  BY SpeakingTypes DEF Speak, Saying, Event, TypeInv, Owned, Speaking
<1>5. FlagsTrue' /\ LoopTells'
  BY <1>1, <1>2, LinkParts DEF FlagsTrue, LoopTells
<1>6. CASE closed /\ UNCHANGED events
  <2>1. events = <<>> /\ events' = <<>>
    BY <1>6, LinkParts DEF NothingUnread
  <2>2. \A h \in Generations : ~SaidDown(h)'
    BY <2>1 DEF SaidDown
  <2> QED
    BY <1>5, <2>1, <2>2, LinkPartsNext DEF Between, NothingUnread
<1>7. CASE ~closed /\ events' = Append(events, e)
  <2>1. ASSUME NEW h \in Generations \ {g}
        PROVE  Between(h)'
    <3>1. SaidDown(h)' => SaidDown(h)
      BY <1>4, <1>7, SaidMore DEF Saying
    <3> QED
      BY <1>1, <3>1, LinkParts, UntouchedStaysBetween
  <2>2. Between(g)'
    <3> SUFFICES ASSUME SaidDown(g)'
                 PROVE  pc'[g] \in BetweenLinks /\ ~connected[g]
      BY <1>1 DEF Between
    <3>1. Speaks[pc[g]] # "Connected"
      BY <1>4, <1>7, SaidMore DEF Saying
    <3>2. CASE Speaks[pc[g]] \in {"Connecting", "Listening"}
      <4>1. pc[g] \in NoTransport /\ pc[g] # "connected"
        BY <1>3, <3>2 DEF NoTransport
      <4> QED
        BY <1>1, <1>3, <4>1, LinkParts DEF FlagsTrue, BetweenLinks
    <3>3. CASE Speaks[pc[g]] \notin {"Connecting", "Listening"}
      <4>1. SaidDown(g)
        BY <1>4, <1>7, <3>3, SaidMore DEF Saying
      <4>2. pc[g] \in BetweenLinks /\ pc[g] # "connected" /\ ~connected[g]
        BY <1>3, <3>1, <4>1, LinkParts DEF Between, TypeInv, TypeOK
      <4> QED
        BY <1>1, <1>3, <4>2
    <3> QED
      BY <3>2, <3>3
  <2>3. \A h \in Generations : Between(h)'
    BY <2>1, <2>2
  <2>4. NothingUnread'
    BY <1>1, <1>7 DEF NothingUnread
  <2> QED
    BY <1>5, <2>3, <2>4, LinkPartsNext
<1> QED
  BY <1>6, <1>7 DEF Speak, Emit

LEMMA FrontEndStaysSound ==
  ASSUME TypeInv, LinkInv, FrontEnd
  PROVE  LinkInv'
<1>0. UNCHANGED <<pc, connected, loop, pending>> /\ FlagsTrue' /\ LoopTells'
  <2>1. UNCHANGED <<pc, connected, loop, pending>>
    BY DEF FrontEnd, Issue, Receive, Quit, taskVars, linkVars, loopVars
  <2> QED
    BY <2>1, LinkParts DEF FlagsTrue, LoopTells
<1>1. CASE \E c \in Offered : Issue(c)
  BY <1>0, <1>1, AsideStaysSound DEF Issue
<1>2. CASE Receive
  <2>1. \A h \in Generations : Between(h)'
    BY <1>0, <1>2, SaidRead, LinkParts, UntouchedStaysBetween DEF Receive
  <2> QED
    BY <1>0, <1>2, <2>1, LinkPartsNext DEF Receive, NothingUnread
<1>3. CASE Quit
  BY <1>0, <1>3, LinkPartsNext DEF Quit, NothingUnread, Between, SaidDown
<1> QED
  BY <1>1, <1>2, <1>3 DEF FrontEnd

LEMMA LoopStaysSound ==
  ASSUME TypeInv, SlotInv, LinkInv, Loop, ~Announce
  PROVE  LinkInv'
<1>0. LoopTells' /\ UNCHANGED events
  BY LoopSteps DEF LoopStep, LoopTells, Reported, Ended, Given, Saying, Ending
<1>1. UNCHANGED <<closed, connected>>
  BY DEF Loop, HandleCommand, HandleConnect, HandleDisconnect, HandleSendRaw, HandleStart,
         HandleStop, HandleSetValue, FinishedNotice, EndedNotice, Enqueue, Shutdown,
         taskVars, linkVars, channels
<1>2. CASE UNCHANGED pc
  BY <1>0, <1>1, <1>2, AsideStaysSound
<1>3. CASE pc' # pc
  <2> DEFINE c == Head(commands)
  <2>0. HandleConnect \/ HandleStart
    BY <1>3 DEF Loop, HandleCommand, HandleDisconnect, HandleSendRaw, HandleStop,
         HandleSetValue, FinishedNotice, EndedNotice, Announce, Enqueue, Shutdown, taskVars
  <2>1. PICK name, cfg, start :
          /\ start \in {"connecting", "pass"}
          /\ Spawn(name, cfg, start) /\ UNCHANGED <<loop, pending>>
          /\ Handling("Connect") \/ Handling("Start")
    <3>1. CASE HandleConnect
      <4>1. Spawn(c.name, c.config, "connecting") /\ UNCHANGED <<loop, pending>>
        BY <1>3, <3>1 DEF HandleConnect
      <4>2. Handling("Connect")
        BY <3>1 DEF HandleConnect
      <4> QED
        BY <4>1, <4>2
    <3>2. CASE HandleStart
      <4>1. Spawn(c.name, None, "pass") /\ UNCHANGED <<loop, pending>>
        BY <1>3, <3>2 DEF HandleStart
      <4>2. Handling("Start")
        BY <3>2 DEF HandleStart
      <4> QED
        BY <4>1, <4>2
    <3> QED
      BY <2>0, <3>1, <3>2
  <2>2. nextGeneration \in Generations
    BY <2>1, HandlingTypes DEF Spawn
  <2> QED
    BY <1>0, <1>1, <2>1, <2>2, SpawnStaysSound DEF Silent
<1> QED
  BY <1>2, <1>3

LEMMA LinkStepInductive == TypeInv /\ SlotInv /\ LinkInv /\ [Next]_vars => LinkInv'
<1> SUFFICES ASSUME TypeInv, SlotInv, LinkInv, [Next]_vars PROVE LinkInv'
  OBVIOUS
<1>1. ASSUME NEW g \in Generations, Task(g)
      PROVE  LinkInv'
  <2>1. CASE Notify(g) \/ Reap(g)
    BY <2>1, GoneStaysSound DEF Notify, Reap, Silent, channels, loopVars
  <2> QED
    BY <1>1, <2>1, SpeakStaysSound, LinkStepStaysSound, ScenarioStepStaysSound DEF Task
<1>2. CASE Over \/ UNCHANGED vars
  <2>1. UNCHANGED <<pc, connected, events, closed, loop, pending>>
    BY <1>2 DEF Over, vars, channels, loopVars, taskVars, linkVars
  <2>2. LoopTells'
    BY <2>1, LinkParts DEF LoopTells
  <2> QED
    BY <2>1, <2>2, AsideStaysSound
<1> QED
  BY <1>1, <1>2, LoopStaysSound, AnnounceStaysSound, FrontEndStaysSound DEF Next

LEMMA LinksCorrect == Spec => [](TypeInv /\ SlotInv /\ LinkInv)
<1>1. Init => TypeInv /\ SlotInv /\ LinkInv
  BY TypeInit, SlotInit, LinkInit
<1>2. (TypeInv /\ SlotInv /\ LinkInv) /\ [Next]_vars => (TypeInv /\ SlotInv /\ LinkInv)'
  BY TypeStep, SlotStep, LinkStepInductive
<1> QED
  BY <1>1, <1>2, PTL DEF Spec

(* Whatever the order of commands, failures and peers, between two links   *)
(* of a task a send is refused rather than kept for the next one, and once *)
(* a task is said to be opening or to listen nothing is accepted for it    *)
(* before it is about to be said up (engine.rs:277-288).                   *)
THEOREM NoPeerNoSend == Spec => []RefusedWithoutPeer
<1>1. LinkInv => RefusedWithoutPeer
  BY DEF LinkInv, RefusedWithoutPeer, NoTransport
<1> QED
  BY LinksCorrect, <1>1, PTL
-----------------------------------------------------------------------------
(* The session: what the front end shows of the engine, for any number of  *)
(* names, tasks, commands and events under way.                            *)

Connects(id) == {c \in Command : c.op = "Connect" /\ c.name = id}
Ends(n) == {e \in Event : e.kind \in Ending /\ e.name = n}

Occurs(queue, S) == \E i \in DOMAIN queue : queue[i] \in S
Once(queue, S) == \A i, j \in DOMAIN queue : queue[i] \in S /\ queue[j] \in S => i = j

(* Only a task of a scenario takes steps, and what is announced of a       *)
(* connection is never told of a scenario.                                 *)
Stepping == {"pass", "step", "acting", "posting"}

KindTrue(e) ==
  /\ e.kind \in {"Step", "Finished"} => e.name \in Scenarios
  /\ e.kind = "Disconnected" => e.name \in Ids

KindsTrue ==
  /\ \A g \in Generations : pc[g] \in Stepping => owner[g] \in Scenarios
  /\ \A e \in Announcements : KindTrue(e)

(* A row that is down, or about to be told it is, has no link behind it    *)
(* and none on its way; a name is asked to be opened once at a time, and   *)
(* never while it is held; and its end is under way once at most.          *)
Down(id) == row[id] \in {None, "Disconnected"}
Asked(id) == Occurs(commands, Connects(id))
AboutToEnd(id) == loop = "emitting" /\ pending \in Ends(id)
EndUnderWay(id) == Occurs(events, Ends(id)) \/ AboutToEnd(id)

Seen(id) ==
  /\ Down(id) => ~EndUnderWay(id)
  /\ Down(id) \/ EndUnderWay(id) => connections[id] = None
  /\ Down(id) \/ EndUnderWay(id) \/ connections[id] # None => ~Asked(id)
  /\ Once(commands, Connects(id)) /\ Once(events, Ends(id))
  /\ AboutToEnd(id) => ~Occurs(events, Ends(id))

EngineInv == TypeInv /\ SlotInv /\ WordInv

ViewInv == EngineInv /\ SessionTypes /\ KindsTrue /\ \A id \in Ids : Seen(id)

(* Whatever was started still holds its name, or its end is under way, or  *)
(* has been read; and what is shown is backed by one of these.             *)
Accounted ==
  \A g \in Generations : pc[g] # "unborn" =>
    \/ g \in buried
    \/ \E n \in Names : owner[g] = n /\ Holder(n) = g
    \/ \E e \in Announcements : e.kind \in Ending /\ e.generation = g

Shown(n) == IF n \in Ids THEN row[n] \in Up ELSE n \in running

Backed(n) ==
  \/ Holder(n) # None \/ n \in haunted
  \/ n \in Ids /\ Asked(n)
  \/ \E e \in Announcements : e.kind \in Ending /\ e.name = n

Backing == \A n \in Names : Shown(n) => Backed(n)

BackInv == ~closed => Accounted /\ Backing

-----------------------------------------------------------------------------
(* What occurs in a queue. *)

LEMMA TailOccurs ==
  ASSUME NEW T, NEW queue \in Seq(T), queue # <<>>, NEW S
  PROVE  /\ Occurs(Tail(queue), S) => Occurs(queue, S)
         /\ Head(queue) \in S => Occurs(queue, S)
         /\ Occurs(queue, S) /\ Head(queue) \notin S => Occurs(Tail(queue), S)
         /\ Once(queue, S) => Once(Tail(queue), S)
         /\ Once(queue, S) /\ Head(queue) \in S => ~Occurs(Tail(queue), S)
<1>1. /\ DOMAIN queue = 1 .. Len(queue) /\ Len(queue) \in Nat \ {0}
      /\ DOMAIN Tail(queue) = 1 .. Len(queue) - 1
      /\ Head(queue) = queue[1]
      /\ \A i \in 1 .. Len(queue) - 1 : Tail(queue)[i] = queue[i + 1]
  BY HeadTailProperties, EmptySeq, LenProperties
<1>2. \A i \in DOMAIN Tail(queue) : /\ i + 1 \in DOMAIN queue /\ i + 1 # 1 /\ i \in Int
                                    /\ Tail(queue)[i] = queue[i + 1]
  BY <1>1
<1>3. \A i \in DOMAIN queue : i = 1 \/ (i - 1 \in DOMAIN Tail(queue) /\ Tail(queue)[i - 1] = queue[i])
  <2> SUFFICES ASSUME NEW i \in DOMAIN queue, i # 1
               PROVE  i - 1 \in DOMAIN Tail(queue) /\ Tail(queue)[i - 1] = queue[i]
    OBVIOUS
  <2>1. i - 1 \in 1 .. Len(queue) - 1 /\ (i - 1) + 1 = i
    BY <1>1
  <2> QED
    BY <1>1, <2>1
<1>4. 1 \in DOMAIN queue
  BY <1>1
<1>5. Occurs(Tail(queue), S) => Occurs(queue, S)
  BY <1>2 DEF Occurs
<1>6. Head(queue) \in S => Occurs(queue, S)
  BY <1>1, <1>4 DEF Occurs
<1>7. Occurs(queue, S) /\ Head(queue) \notin S => Occurs(Tail(queue), S)
  BY <1>1, <1>3 DEF Occurs
<1>8. Once(queue, S) => Once(Tail(queue), S)
  <2> SUFFICES ASSUME Once(queue, S), NEW i \in DOMAIN Tail(queue), NEW j \in DOMAIN Tail(queue),
                      Tail(queue)[i] \in S, Tail(queue)[j] \in S
               PROVE  i = j
    BY DEF Once
  <2>1. i + 1 = j + 1
    BY <1>2 DEF Once
  <2> QED
    BY <1>2, <2>1
<1>9. Once(queue, S) /\ Head(queue) \in S => ~Occurs(Tail(queue), S)
  BY <1>1, <1>2, <1>4 DEF Once, Occurs
<1> QED
  BY <1>5, <1>6, <1>7, <1>8, <1>9

LEMMA AppendOccurs ==
  ASSUME NEW T, NEW queue \in Seq(T), NEW x \in T, NEW S
  PROVE  /\ Occurs(Append(queue, x), S) <=> Occurs(queue, S) \/ x \in S
         /\ Once(queue, S) /\ ~(Occurs(queue, S) /\ x \in S) => Once(Append(queue, x), S)
<1> DEFINE longer == Append(queue, x)
<1>1. /\ DOMAIN queue = 1 .. Len(queue) /\ Len(queue) \in Nat
      /\ DOMAIN longer = 1 .. Len(queue) + 1
      /\ \A i \in 1 .. Len(queue) : longer[i] = queue[i]
      /\ longer[Len(queue) + 1] = x
  BY AppendProperties, LenProperties
<1> HIDE DEF longer
<1>2. /\ \A i \in DOMAIN queue : i \in DOMAIN longer /\ longer[i] = queue[i]
      /\ Len(queue) + 1 \in DOMAIN longer
      /\ \A i \in DOMAIN longer : i \in DOMAIN queue \/ i = Len(queue) + 1
  BY <1>1
<1>3. Occurs(longer, S) <=> Occurs(queue, S) \/ x \in S
  BY <1>1, <1>2 DEF Occurs
<1>4. Once(queue, S) /\ ~(Occurs(queue, S) /\ x \in S) => Once(longer, S)
  BY <1>1, <1>2 DEF Occurs, Once
<1> QED
  BY <1>3, <1>4 DEF longer

LEMMA ItemOccurs ==
  ASSUME TypeInv, NEW n
  PROVE  (\E e \in Announcements : e.kind \in Ending /\ e.name = n) <=>
           (Occurs(events, Ends(n)) \/ (loop = "emitting" /\ pending \in Ends(n)))
<1>1. \A e \in Announcements : e \in Event
  BY ItemsType DEF Announcements, TypeInv, TypeOK, PendingNamed
<1> QED
  BY <1>1 DEF Ends, Occurs, Announcements, Items

-----------------------------------------------------------------------------
(* The steps of the user. *)

Untold == ~closed /\ UNCHANGED vars
Told(c) ==
  /\ ~closed /\ commands' = Append(commands, c)
  /\ UNCHANGED <<events, finished, ended, closed, loopVars, taskVars>>
  /\ StartsAreBounded'

LEMMA QueueOfOne == ASSUME NEW S, NEW x \in S PROVE <<x>> \in Seq(S)
OBVIOUS

(* A command that is offered is queued, or the channel was found full.     *)
LEMMA TellOne ==
  ASSUME TypeInv, NEW c \in Command, Tell(<<c>>)
  PROVE  Told(c) \/ (MayRefuse /\ Untold)
<1> DEFINE room == CommandCapacity - Len(commands)
<1>1. room \in Int /\ Len(<<c>>) = 1 /\ commands \in Seq(Command)
  BY ConstantsAssumption DEF TypeInv, TypeOK
<1>2. CASE 1 <= room
  <2>1. SubSeq(<<c>>, 1, 1) = <<c>>
    BY <1>1, SubSeqFull, QueueOfOne
  <2>2. commands \o <<c>> = Append(commands, c)
    BY <1>1, AppendIsConcat
  <2> QED
    BY <1>1, <1>2, <2>1, <2>2 DEF Tell, Told
<1>3. CASE ~(1 <= room)
  <2>1. SubSeq(<<c>>, 1, room) = <<>>
    BY <1>1, <1>3
  <2>2. commands \o <<>> = commands
    BY <1>1
  <2> QED
    BY <1>1, <1>3, <2>1, <2>2 DEF Tell, Untold, vars, channels
<1> QED
  BY <1>2, <1>3

LEMMA ToldEngine ==
  ASSUME EngineInv, NEW c \in Command, Told(c)
  PROVE  EngineInv'
<1> USE DEF EngineInv
<1>1. TypeInv'
  <2>1. commands' \in Seq(Command)
    BY AppendProperties DEF Told, TypeInv, TypeOK
  <2> QED
    BY <2>1 DEF Told, TypeInv, TypeOK, PendingNamed, Owned, loopVars, taskVars, birth, linkVars
<1>2. SlotInv'
  BY SlotsAside DEF Told, loopVars, taskVars, birth
<1>3. WordInv'
  BY WordAside DEF Told, loopVars, taskVars, birth
<1> QED
  BY <1>1, <1>2, <1>3

LEMMA EngineStep ==
  ASSUME EngineInv, [Next]_vars
  PROVE  EngineInv'
BY TypeStep, SlotStep, WordStep DEF EngineInv

(* What the user does: a row that is down asks for its link, or goes; or   *)
(* something else is asked for, or nothing.                                *)
Opens(id, c) ==
  /\ Down(id) /\ c \in Configs /\ (row[id] # None => c = setting[id])
  /\ Told(Say("Connect", id, c)) \/ (MayRefuse /\ Untold)
  /\ row' = [row EXCEPT ![id] = "Connecting"] /\ setting' = [setting EXCEPT ![id] = c]
  /\ UNCHANGED <<running, buried, haunted>>

OtherCommand == {c \in Command : c.op # "Connect"}

OtherWish ==
  /\ (\E c \in OtherCommand : Told(c)) \/ Untold
  /\ UNCHANGED sessionVars

LEMMA UserSteps ==
  ASSUME TypeInv, SessionTypes, User
  PROVE  \/ \E id \in Ids, c \in Configs : Opens(id, c)
         \/ OtherWish
         \/ \E id \in Ids : Remove(id)
<1>1. ASSUME NEW c \in OtherCommand, Tell(<<c>>), UNCHANGED sessionVars
      PROVE  OtherWish
  <2>1. c \in Command
    BY DEF OtherCommand
  <2> QED
    BY <1>1, <2>1, TellOne DEF OtherWish
<1>2. ASSUME NEW id \in Ids, NEW c \in Configs, Tell(<<Say("Connect", id, c)>>)
      PROVE  Told(Say("Connect", id, c)) \/ (MayRefuse /\ Untold)
  <2>1. Say("Connect", id, c) \in Command
    BY DEF Say, Command
  <2> HIDE DEF Say
  <2> QED
    BY <1>2, <2>1, TellOne
<1>3. ASSUME NEW id \in Ids, NEW c \in Configs, Submit(id, c)
      PROVE  Opens(id, c)
  BY <1>2, <1>3 DEF Submit, Opens, Down, Shows
<1>4. ASSUME NEW id \in Ids, Reconnect(id)
      PROVE  Opens(id, setting[id])
  <2>1. row[id] # None /\ row[id] = "Disconnected"
    BY <1>4, SessionAssumption DEF Reconnect, Statuses
  <2>2. setting[id] \in Configs /\ setting' = [setting EXCEPT ![id] = setting[id]]
    BY <1>4, <2>1 DEF Reconnect, SessionTypes
  <2>3. Tell(<<Say("Connect", id, setting[id])>>)
    BY <1>4 DEF Reconnect
  <2> QED
    BY <1>2, <1>4, <2>1, <2>2, <2>3 DEF Reconnect, Opens, Down, Shows
<1>5. ASSUME NEW id \in Ids, HangUp(id)
      PROVE  OtherWish
  <2>1. Say("Disconnect", id, None) \in OtherCommand
    BY DEF Say, Command, OtherCommand
  <2> QED
    BY <1>1, <1>5, <2>1 DEF HangUp
<1>6. ASSUME NEW s \in Scenarios, Play(s) \/ Halt(s)
      PROVE  OtherWish
  <2>1. Say("Start", s, None) \in OtherCommand /\ Say("Stop", s, None) \in OtherCommand
    BY DEF Say, Command, OtherCommand
  <2> QED
    BY <1>1, <1>6, <2>1 DEF Play, Halt
<1>7. \A id \in Ids : Reconnect(id) => setting[id] \in Configs
  BY SessionAssumption DEF SessionTypes, Reconnect, Statuses
<1> QED
  BY <1>3, <1>4, <1>5, <1>6, <1>7 DEF User

LEMMA UserEngine ==
  ASSUME EngineInv, SessionTypes, User
  PROVE  EngineInv'
<1>1. ASSUME NEW id \in Ids, NEW c \in Configs, Opens(id, c)
      PROVE  EngineInv'
  <2>1. Say("Connect", id, c) \in Command
    BY DEF Say, Command
  <2> QED
    BY <1>1, <2>1, ToldEngine, EngineStep DEF Opens, Untold
<1>2. CASE OtherWish
  BY <1>2, ToldEngine, EngineStep DEF OtherWish, OtherCommand, Untold
<1>3. ASSUME NEW id \in Ids, Remove(id)
      PROVE  EngineInv'
  BY <1>3, EngineStep DEF Remove, NotTold
<1> QED
  BY <1>1, <1>2, <1>3, UserSteps DEF EngineInv

-----------------------------------------------------------------------------
(* Each name: links seen. *)

(* Nothing becomes of a link, and it is asked for from a row that is down. *)
LEMMA SeenAside ==
  ASSUME TypeInv, NEW id \in Ids, Seen(id), Down(id)' => Down(id),
         UNCHANGED <<events, loop, pending, connections>>,
         \/ UNCHANGED commands
         \/ \E c \in Command : /\ commands' = Append(commands, c)
                               /\ c \in Connects(id) => Down(id) /\ ~Down(id)'
  PROVE  Seen(id)'
<1>1. CASE UNCHANGED commands
  BY <1>1 DEF Seen, EndUnderWay, AboutToEnd, Asked
<1>2. ASSUME NEW c \in Command, commands' = Append(commands, c),
             c \in Connects(id) => Down(id) /\ ~Down(id)'
      PROVE  Seen(id)'
  <2>1. commands \in Seq(Command)
    BY DEF TypeInv, TypeOK
  <2>2. /\ Asked(id)' <=> Asked(id) \/ c \in Connects(id)
        /\ Once(commands, Connects(id)) /\ ~(Asked(id) /\ c \in Connects(id))
             => Once(commands', Connects(id))
    BY <1>2, <2>1, AppendOccurs DEF Asked
  <2> QED
    BY <1>2, <2>2 DEF Seen, EndUnderWay, AboutToEnd
<1> QED
  BY <1>1, <1>2

(* The loop takes a command for a name, or another, or none.               *)
LEMMA CommandsTaken ==
  ASSUME TypeInv, Loop, NEW id \in Ids
  PROVE  \/ UNCHANGED commands /\ connections'[id] \in {connections[id], None}
         \/ /\ commands # <<>> /\ commands' = Tail(commands) /\ Head(commands) \notin Connects(id)
            /\ connections'[id] \in {connections[id], None}
         \/ /\ commands # <<>> /\ commands' = Tail(commands) /\ Head(commands) \in Connects(id)
            /\ connections'[id] # None
<1>0. connections \in [Ids -> Generations \cup {None}] /\ None \notin Generations
  BY ConstantsAssumption DEF TypeInv, TypeOK, Generations
<1>1. CASE HandleConnect
  <2>1. /\ commands # <<>> /\ commands' = Tail(commands)
        /\ Head(commands) \in Command /\ Head(commands).op = "Connect"
        /\ nextGeneration \in Generations
    BY <1>1, HandlingTypes DEF HandleConnect, Handling, Spawn
  <2>2. Head(commands) \in Connects(id) <=> Head(commands).name = id
    BY <2>1 DEF Connects
  <2>3. IF Head(commands).name = id THEN connections'[id] # None
                                    ELSE connections'[id] = connections[id]
    BY <1>0, <1>1, <2>1 DEF HandleConnect
  <2> QED
    BY <2>1, <2>2, <2>3
<1>2. CASE HandleDisconnect
  <2>1. commands # <<>> /\ commands' = Tail(commands) /\ Head(commands).op = "Disconnect"
    BY <1>2 DEF HandleDisconnect, Handling
  <2>2. connections'[id] \in {connections[id], None}
    BY <1>0, <1>2 DEF HandleDisconnect, Vacate
  <2> QED
    BY <2>1, <2>2 DEF Connects
<1>3. CASE HandleSendRaw \/ HandleStart \/ HandleStop \/ HandleSetValue
  <2>1. /\ commands # <<>> /\ commands' = Tail(commands) /\ Head(commands).op # "Connect"
        /\ UNCHANGED connections
    BY <1>3 DEF HandleSendRaw, HandleStart, HandleStop, HandleSetValue, Handling
  <2> QED
    BY <2>1 DEF Connects
<1>4. CASE FinishedNotice
  <2>1. UNCHANGED commands /\ connections'[id] \in {connections[id], None}
    BY <1>0, <1>4 DEF FinishedNotice, Vacate
  <2> QED
    BY <2>1
<1>5. CASE EndedNotice \/ Announce \/ Enqueue \/ Shutdown
  BY <1>5 DEF EndedNotice, Announce, Enqueue, Shutdown, channels
<1> QED
  BY <1>1, <1>2, <1>3, <1>4, <1>5 DEF Loop, HandleCommand

LEMMA SeenLoop ==
  ASSUME EngineInv, NEW id \in Ids, Seen(id), Loop, ~Announce, UNCHANGED row
  PROVE  Seen(id)'
<1>1. LoopStep /\ loop # "emitting"
  BY LoopSteps DEF EngineInv
<1>2. Down(id)' <=> Down(id)
  BY DEF Down
<1>3. /\ Occurs(events', Ends(id)) <=> Occurs(events, Ends(id))
      /\ Once(events, Ends(id)) => Once(events', Ends(id))
  BY <1>1 DEF LoopStep
<1>4. ~AboutToEnd(id)
  BY <1>1 DEF AboutToEnd
<1>5. id \in Names /\ Holder(id) = connections[id] /\ Holder(id)' = connections'[id]
  BY DEF Names, Holder
<1>6. AboutToEnd(id)' => connections[id] # None /\ connections'[id] = None
  <2>1. ASSUME AboutToEnd(id)'
        PROVE  Ended(id)
    <3>1. loop' = "emitting" /\ pending'.kind \in Ending /\ pending'.name = id
      BY <2>1 DEF AboutToEnd, Ends
    <3>2. ~Reported
      BY <3>1 DEF Reported, Ending
    <3>3. \A n \in Names : Ended(n) => n = id
      BY <3>1 DEF Ended, Saying
    <3> QED
      BY <1>1, <3>1, <3>2, <3>3 DEF LoopStep, Given
  <2> QED
    BY <1>5, <2>1 DEF Ended
<1>7. /\ Asked(id)' => Asked(id)
      /\ Once(commands, Connects(id)) => Once(commands', Connects(id))
      /\ connections'[id] # None => connections'[id] = connections[id]
                                    \/ (Asked(id) /\ (Once(commands, Connects(id)) => ~Asked(id)'))
  <2>1. commands \in Seq(Command)
    BY DEF EngineInv, TypeInv, TypeOK
  <2>2. TypeInv
    BY DEF EngineInv
  <2> QED
    BY <2>1, <2>2, CommandsTaken, TailOccurs DEF Asked
<1> QED
  <2>1. /\ Down(id) => ~Occurs(events, Ends(id)) /\ connections[id] = None
        /\ Occurs(events, Ends(id)) => connections[id] = None
        /\ Down(id) \/ Occurs(events, Ends(id)) \/ connections[id] # None => ~Asked(id)
        /\ Once(commands, Connects(id)) /\ Once(events, Ends(id))
    BY DEF Seen, EndUnderWay
  <2>2. Down(id)' => ~EndUnderWay(id)'
    BY <1>2, <1>3, <1>6, <2>1 DEF EndUnderWay
  <2>3. Down(id)' \/ EndUnderWay(id)' => connections'[id] = None
    BY <1>2, <1>3, <1>6, <1>7, <2>1 DEF EndUnderWay
  <2>4. Down(id)' \/ EndUnderWay(id)' \/ connections'[id] # None => ~Asked(id)'
    BY <1>2, <1>3, <1>6, <1>7, <2>1 DEF EndUnderWay
  <2>5. AboutToEnd(id)' => ~Occurs(events', Ends(id))
    BY <1>3, <1>6, <2>1
  <2>6. Once(commands', Connects(id)) /\ Once(events', Ends(id))
    BY <1>3, <1>7, <2>1
  <2> QED
    BY <2>2, <2>3, <2>4, <2>5, <2>6 DEF Seen

(* What the loop was about to say is under way. *)
LEMMA SeenAnnounce ==
  ASSUME EngineInv, NEW id \in Ids, Seen(id), Announce, UNCHANGED row
  PROVE  Seen(id)'
<1>1. /\ events \in Seq(Event) /\ pending \in Event /\ loop = "emitting"
      /\ loop' = "idle" /\ UNCHANGED <<commands, connections>>
  BY DEF EngineInv, TypeInv, TypeOK, PendingNamed, Announce
<1>2. /\ Down(id)' <=> Down(id)
      /\ Asked(id)' <=> Asked(id)
      /\ Once(commands, Connects(id)) => Once(commands', Connects(id))
  BY <1>1 DEF Down, Asked
<1>3. ~AboutToEnd(id)'
  BY <1>1 DEF AboutToEnd
<1>4. /\ Occurs(events', Ends(id)) => EndUnderWay(id)
      /\ Once(events', Ends(id))
  <2>1. CASE UNCHANGED events
    BY <2>1 DEF EndUnderWay, Seen
  <2>2. CASE events' = Append(events, pending)
    <3>1. AboutToEnd(id) <=> pending \in Ends(id)
      BY <1>1 DEF AboutToEnd
    <3> QED
      BY <1>1, <2>2, <3>1, AppendOccurs DEF EndUnderWay, Seen
  <2> QED
    BY <2>1, <2>2 DEF Announce, Emit
<1> QED
  BY <1>1, <1>2, <1>3, <1>4 DEF Seen, EndUnderWay

(* A task speaks of something else than an end. *)
LEMMA SeenSpeak ==
  ASSUME EngineInv, NEW id \in Ids, Seen(id), NEW g \in Generations, Speak(g), UNCHANGED row
  PROVE  Seen(id)'
<1> DEFINE e == Saying(Speaks[pc[g]], owner[g], g)
<1>1. e \in Event /\ e \notin Ends(id) /\ events \in Seq(Event)
  BY SpeakingTypes
     DEF Speak, Saying, Event, EngineInv, TypeInv, TypeOK, Owned, Speaking, Speaks, Ending, Ends
<1>2. UNCHANGED <<commands, loop, pending, connections>>
  BY DEF Speak, loopVars
<1>3. CASE UNCHANGED events
  BY <1>2, <1>3, SeenAside DEF EngineInv, Down
<1>4. CASE events' = Append(events, e)
  <2> HIDE DEF e
  <2>1. /\ Occurs(events', Ends(id)) <=> Occurs(events, Ends(id))
        /\ Once(events, Ends(id)) => Once(events', Ends(id))
    BY <1>1, <1>4, AppendOccurs
  <2>2. /\ Down(id)' <=> Down(id)
        /\ Asked(id)' <=> Asked(id)
        /\ AboutToEnd(id)' <=> AboutToEnd(id)
        /\ Once(commands, Connects(id)) => Once(commands', Connects(id))
    BY <1>2 DEF Down, Asked, AboutToEnd
  <2> QED
    BY <1>2, <2>1, <2>2 DEF Seen, EndUnderWay
<1> QED
  BY <1>3, <1>4 DEF Speak, Emit

LEMMA SeenQuit ==
  ASSUME EngineInv, NEW id \in Ids, Seen(id), Quit, UNCHANGED row
  PROVE  Seen(id)'
<1>1. UNCHANGED <<commands, loop, pending, connections>> /\ events' = <<>>
  BY DEF Quit, loopVars
<1>2. ~Occurs(events', Ends(id)) /\ Once(events', Ends(id))
  BY <1>1 DEF Occurs, Once
<1>3. /\ Down(id)' <=> Down(id)
      /\ Asked(id)' <=> Asked(id)
      /\ AboutToEnd(id)' <=> AboutToEnd(id)
      /\ Once(commands, Connects(id)) => Once(commands', Connects(id))
  BY <1>1 DEF Down, Asked, AboutToEnd
<1> QED
  BY <1>1, <1>2, <1>3 DEF Seen, EndUnderWay

(* A row is down once the end of its link is read, of which there is one.  *)
LEMMA SeenRead ==
  ASSUME EngineInv, KindsTrue, SessionTypes, NEW id \in Ids, Seen(id), Read
  PROVE  Seen(id)'
<1> DEFINE e == Head(events)
<1>1. /\ events \in Seq(Event) /\ events # <<>> /\ events' = Tail(events) /\ e \in Event
      /\ UNCHANGED <<commands, loop, pending, connections>> /\ row' = RowsAfter(e)
  BY HeadTailProperties
     DEF Read, Receive, EngineInv, TypeInv, TypeOK, loopVars
<1>2. e \in Announcements
  BY <1>1, ItemsTail DEF Announcements
<1> HIDE DEF e
<1>3. /\ Occurs(events', Ends(id)) => Occurs(events, Ends(id))
      /\ Once(events, Ends(id)) => Once(events', Ends(id))
      /\ e \in Ends(id) => Occurs(events, Ends(id))
      /\ e \in Ends(id) /\ Once(events, Ends(id)) => ~Occurs(events', Ends(id))
  BY <1>1, TailOccurs DEF e
<1>4. /\ Asked(id)' <=> Asked(id)
      /\ AboutToEnd(id)' <=> AboutToEnd(id)
      /\ Once(commands, Connects(id)) => Once(commands', Connects(id))
  BY <1>1 DEF Asked, AboutToEnd
<1>5. Down(id)' => Down(id) \/ e \in Ends(id)
  <2>1. CASE row'[id] = row[id]
    BY <2>1 DEF Down
  <2>2. CASE row'[id] # row[id]
    <3>1. e.name = id /\ row'[id] = e.kind /\ e.kind \in Statuses
      BY <1>1, <2>2 DEF RowsAfter, IsStatus, SessionTypes
    <3>2. Down(id)' => e.kind = "Disconnected"
      BY <3>1, SessionAssumption DEF Down
    <3> QED
      BY <1>1, <3>1, <3>2 DEF Ends, Ending
  <2> QED
    BY <2>1, <2>2
<1>6. CASE e \in Ends(id)
  <2>1. /\ ~EndUnderWay(id)' /\ connections'[id] = None /\ ~Asked(id)'
    BY <1>1, <1>3, <1>4, <1>6 DEF Seen, EndUnderWay
  <2> QED
    BY <1>3, <1>4, <2>1 DEF Seen, EndUnderWay
<1>7. CASE e \notin Ends(id)
  <2>1. Down(id)' => Down(id)
    BY <1>5, <1>7
  <2> QED
    BY <1>1, <1>3, <1>4, <2>1 DEF Seen, EndUnderWay
<1> QED
  BY <1>6, <1>7

LEMMA SeenEngine ==
  ASSUME EngineInv, NEW id \in Ids, Seen(id), Engines
  PROVE  Seen(id)'
<1>0. UNCHANGED row /\ (Down(id)' => Down(id))
  BY DEF Engines, sessionVars, Down
<1>1. CASE Loop
  BY <1>0, <1>1, SeenLoop, SeenAnnounce
<1>2. ASSUME NEW g \in Generations, Quiet(g) \/ Notify(g) \/ Reap(g)
      PROVE  Seen(id)'
  BY <1>0, <1>2, SeenAside DEF EngineInv, Quiet, Notify, Reap, channels, loopVars
<1>3. ASSUME NEW g \in Generations, PostSend(g)
      PROVE  Seen(id)'
  <2>1. PICK to \in Ids : commands' = Append(commands, [op |-> "SendRaw", name |-> to, config |-> None])
    BY <1>3 DEF PostSend, Post
  <2> DEFINE c == [op |-> "SendRaw", name |-> to, config |-> None]
  <2>2. c \in Command /\ c \notin Connects(id)
    BY DEF Command, Connects
  <2>3. UNCHANGED <<events, loop, pending, connections>>
    BY <1>3 DEF PostSend, loopVars
  <2> HIDE DEF c
  <2>4. commands' = Append(commands, c)
    BY <2>1 DEF c
  <2> QED
    BY <1>0, <2>2, <2>3, <2>4, SeenAside DEF EngineInv
<1>4. ASSUME NEW g \in Generations, Task(g)
      PROVE  Seen(id)'
  BY <1>0, <1>2, <1>3, <1>4, SeenSpeak, LinkStepIsQuiet, ScenarioStepIsQuiet DEF Task
<1>5. CASE Over
  BY <1>0, <1>5, SeenAside DEF Over, EngineInv, vars, channels, loopVars
<1> QED
  BY <1>0, <1>1, <1>4, <1>5, SeenQuit DEF Engines

LEMMA SeenUser ==
  ASSUME EngineInv, SessionTypes, NEW id \in Ids, Seen(id), User
  PROVE  Seen(id)'
<1> USE DEF EngineInv
<1>1. ASSUME NEW other \in Ids, NEW c \in Configs, Opens(other, c)
      PROVE  Seen(id)'
  <2> DEFINE said == Say("Connect", other, c)
  <2>1. said \in Command /\ (said \in Connects(id) => id = other)
    BY DEF Say, Command, Connects
  <2>2. row'[id] = IF id = other THEN "Connecting" ELSE row[id]
    BY <1>1 DEF Opens, SessionTypes
  <2>3. (Down(id)' => Down(id)) /\ (id = other => Down(id) /\ ~Down(id)')
    BY <1>1, <2>2, SessionAssumption DEF Opens, Down, Statuses
  <2> HIDE DEF said
  <2>4. CASE Told(said)
    BY <2>1, <2>3, <2>4, SeenAside DEF Told, loopVars
  <2>5. CASE Untold
    BY <2>3, <2>5, SeenAside DEF Untold, vars, channels, loopVars
  <2> QED
    BY <1>1, <2>4, <2>5 DEF Opens, said
<1>2. CASE OtherWish
  <2>1. Down(id)' => Down(id)
    BY <1>2 DEF OtherWish, sessionVars, Down
  <2>2. ASSUME NEW c \in OtherCommand, Told(c)
        PROVE  Seen(id)'
    BY <2>1, <2>2, SeenAside DEF Told, loopVars, OtherCommand, Connects
  <2>3. CASE Untold
    BY <2>1, <2>3, SeenAside DEF Untold, vars, channels, loopVars
  <2> QED
    BY <1>2, <2>2, <2>3 DEF OtherWish
<1>3. ASSUME NEW other \in Ids, Remove(other)
      PROVE  Seen(id)'
  <2>1. Down(id)' => Down(id)
    BY <1>3 DEF Remove, Removable, Shows, Down, SessionTypes
  <2> QED
    BY <1>3, <2>1, SeenAside DEF Remove, NotTold, vars, channels, loopVars
<1> QED
  BY <1>1, <1>2, <1>3, UserSteps

-----------------------------------------------------------------------------
(* Each kind of event is told of its kind of name. *)

LEMMA KindsAside ==
  ASSUME KindsTrue, TypeInv, UNCHANGED owner,
         \A e \in Announcements' : e \in Announcements \/ KindTrue(e),
         \A h \in Generations : pc'[h] \in Stepping => pc[h] \in Stepping
  PROVE  KindsTrue'
BY DEF KindsTrue, KindTrue

LEMMA LinkStepStays ==
  ASSUME NEW g \in Generations, LinkStep(g)
  PROVE  \E from \in PCs, to \in PCs \ Stepping : Goes(g, from, to)
<1> USE DEF PCs, Speaking, Stepping
<1>1. CASE Opened(g)           BY <1>1 DEF Opened
<1>2. CASE OpenFails(g)        BY <1>2 DEF OpenFails
<1>3. CASE Accepted(g)         BY <1>3 DEF Accepted
<1>4. CASE AcceptFails(g)      BY <1>4 DEF AcceptFails
<1>5. CASE NothingToAccept(g)  BY <1>5 DEF NothingToAccept
<1>6. CASE Take(g)             BY <1>6 DEF Take
<1>7. CASE Written(g)          BY <1>7 DEF Written
<1>8. CASE WriteFails(g)       BY <1>8 DEF WriteFails
<1>9. CASE Heard(g)            BY <1>9 DEF Heard
<1>10. CASE ReceiveFails(g)    BY <1>10 DEF ReceiveFails
<1>11. CASE LetGo(g)           BY <1>11 DEF LetGo
<1>12. CASE PeerLost(g)        BY <1>12 DEF PeerLost
<1>13. CASE LinkEnds(g)        BY <1>13 DEF LinkEnds
<1>14. CASE Wake(g)            BY <1>14 DEF Wake
<1> QED
  BY <1>1, <1>2, <1>3, <1>4, <1>5, <1>6, <1>7, <1>8, <1>9, <1>10, <1>11, <1>12,
     <1>13, <1>14 DEF LinkStep

(* A task that takes steps took some before, or was just started.          *)
LEMMA TaskStays ==
  ASSUME TypeInv, NEW g \in Generations, Task(g)
  PROVE  \A h \in Generations : pc'[h] \in Stepping => pc[h] \in Stepping
<1>1. ASSUME NEW from, NEW to, Goes(g, from, to), to \in Stepping => from \in Stepping
      PROVE  \A h \in Generations : pc'[h] \in Stepping => pc[h] \in Stepping
  BY <1>1 DEF Goes, TypeInv, TypeOK
<1>2. CASE Speak(g)
  <2>1. Resumes[pc[g]] \in Stepping => pc[g] \in Stepping
    BY <1>2 DEF Speak, Speaking, Resumes, Stepping
  <2> QED
    BY <1>1, <1>2, <2>1 DEF Speak
<1>3. CASE LinkStep(g)
  BY <1>1, <1>3, LinkStepStays
<1>4. CASE ScenarioStep(g)
  <2>1. pc[g] \in Stepping /\ \E from, to : Goes(g, from, to)
    BY <1>4 DEF ScenarioStep, NextStep, StepDone, Upgrade, PostSend, ScenarioEnds, Goes, Stepping
  <2> QED
    BY <1>1, <2>1 DEF Goes
<1>5. CASE Notify(g) \/ Reap(g)
  <2>1. "done" \notin Stepping
    BY DEF Stepping
  <2> QED
    BY <1>1, <1>5, <2>1 DEF Notify, Reap, Gone
<1> QED
  BY <1>2, <1>3, <1>4, <1>5 DEF Task

(* A task that is started for a connection opens it first. *)
LEMMA StartedStepping ==
  ASSUME TypeInv, SlotInv, Loop, NEW h \in Generations, pc[h] \notin Stepping, pc'[h] \in Stepping
  PROVE  owner'[h] \in Scenarios
<1>1. CASE HandleStart
  <2>1. Head(commands) \in Command /\ Head(commands).op = "Start"
    BY <1>1, HandlingTypes DEF HandleStart, Spawn
  <2>2. Head(commands).name \in Scenarios
    BY <2>1 DEF Command
  <2> QED
    BY <1>1, <2>2 DEF HandleStart, Spawn, Begin, TypeInv, TypeOK
<1>2. CASE HandleConnect
  BY <1>2 DEF HandleConnect, Spawn, Begin, TypeInv, TypeOK, Stepping
<1>3. UNCHANGED pc \/ HandleStart \/ HandleConnect
  BY DEF Loop, HandleCommand, HandleDisconnect, HandleSendRaw, HandleStop, HandleSetValue,
         FinishedNotice, EndedNotice, Announce, Enqueue, Shutdown, taskVars
<1> QED
  BY <1>1, <1>2, <1>3

LEMMA KindsLoop ==
  ASSUME EngineInv, KindsTrue, Loop, ~Announce
  PROVE  KindsTrue'
<1> USE DEF EngineInv
<1>1. LoopStep
  BY LoopSteps
<1>2. ASSUME NEW h \in Generations, pc'[h] \in Stepping
      PROVE  owner'[h] \in Scenarios
  <2>1. CASE pc[h] \in Stepping
    BY <1>1, <2>1 DEF LoopStep, KindsTrue, Stepping
  <2>2. CASE pc[h] \notin Stepping
    BY <1>2, <2>2, StartedStepping
  <2> QED
    BY <2>1, <2>2
<1>3. ASSUME NEW e \in Announcements'
      PROVE  KindTrue(e)
  <2>1. e \in Announcements \/ (loop' = "emitting" /\ e = pending')
    BY <1>1 DEF Announcements, Items, LoopStep
  <2>2. CASE Reported /\ e = pending'
    BY <2>2 DEF Reported, KindTrue
  <2>3. ASSUME NEW n \in Names, Ended(n), e = pending'
        PROVE  KindTrue(e)
    BY <2>3 DEF Ended, Saying, KindTrue, Names
  <2> QED
    BY <1>1, <2>1, <2>2, <2>3 DEF LoopStep, Given, KindsTrue
<1> QED
  BY <1>2, <1>3 DEF KindsTrue, KindTrue

LEMMA KindsSpeak ==
  ASSUME EngineInv, KindsTrue, NEW g \in Generations, Speak(g)
  PROVE  KindsTrue'
<1> DEFINE e == Saying(Speaks[pc[g]], owner[g], g)
<1>1. e \in Event /\ KindTrue(e)
  <2>1. e \in Event
    BY SpeakingTypes DEF Speak, Saying, Event, EngineInv, TypeInv, Owned, Speaking
  <2>2. Speaks[pc[g]] \notin Ending /\ (Speaks[pc[g]] = "Step" => pc[g] = "step")
    BY DEF Speak, Speaking, Speaks, Ending
  <2> QED
    BY <2>1, <2>2 DEF KindTrue, Saying, KindsTrue, Stepping, Ending
<1>2. \A a \in Announcements' : a \in Announcements \/ KindTrue(a)
  <2>1. CASE UNCHANGED events
    BY <2>1 DEF Speak, Announcements, Items, loopVars
  <2>2. CASE events' = Append(events, e)
    <3>1. Items(events') = Items(events) \cup {e}
      BY <1>1, <2>2, ItemsAppend DEF EngineInv, TypeInv, TypeOK
    <3> QED
      BY <1>1, <3>1 DEF Speak, Announcements, loopVars
  <2> QED
    BY <2>1, <2>2 DEF Speak, Emit
<1>3. Task(g) /\ UNCHANGED owner
  BY DEF Speak, birth, Task
<1> QED
  BY <1>2, <1>3, TaskStays, KindsAside DEF EngineInv

LEMMA KindsEngine ==
  ASSUME EngineInv, KindsTrue, Engines
  PROVE  KindsTrue'
<1> USE DEF EngineInv
<1>1. CASE Announce
  <2>1. Announcements' \subseteq Announcements /\ UNCHANGED <<pc, owner>>
    <3>1. CASE UNCHANGED events
      BY <1>1, <3>1 DEF Announce, Announcements, Items, taskVars, birth
    <3>2. CASE events' = Append(events, pending)
      <4>1. Items(events') = Items(events) \cup {pending}
        BY <1>1, <3>2, ItemsAppend DEF Announce, TypeInv, TypeOK, PendingNamed
      <4> QED
        BY <1>1, <4>1 DEF Announce, Announcements, taskVars, birth
    <3> QED
      BY <1>1, <3>1, <3>2 DEF Announce, Emit
  <2> QED
    BY <2>1, KindsAside
<1>2. ASSUME NEW g \in Generations, Task(g)
      PROVE  KindsTrue'
  <2>1. CASE ~Speak(g)
    <3>1. UNCHANGED <<events, loop, pending, owner>>
      BY <1>2, <2>1, LinkStepIsQuiet, ScenarioStepIsQuiet
         DEF Task, Quiet, PostSend, Notify, Reap, channels, loopVars, birth
    <3>2. Announcements' = Announcements
      BY <3>1 DEF Announcements, Items
    <3> QED
      BY <1>2, <3>1, <3>2, TaskStays, KindsAside
  <2> QED
    BY <2>1, KindsSpeak
<1>3. CASE Quit \/ Over
  <2>1. Announcements' \subseteq Announcements /\ UNCHANGED <<pc, owner>>
    BY <1>3 DEF Quit, Over, vars, channels, loopVars, taskVars, birth, Announcements, Items
  <2> QED
    BY <2>1, KindsAside
<1> QED
  BY <1>1, <1>2, <1>3, KindsLoop DEF Engines

-----------------------------------------------------------------------------
(* The whole step. *)

LEMMA ReadEvent ==
  ASSUME EngineInv, KindsTrue, Read
  PROVE  /\ events # <<>> /\ events \in Seq(Event) /\ events' = Tail(events)
         /\ Head(events) \in Event /\ Head(events) \in Announcements
         /\ TellsTruth(Head(events)) /\ KindTrue(Head(events))
         /\ Announcements' \subseteq Announcements
         /\ \A e \in Announcements : e = Head(events) \/ e \in Announcements'
         /\ UNCHANGED <<commands, closed, loopVars, taskVars>>
<1>1. /\ events # <<>> /\ events \in Seq(Event) /\ events' = Tail(events)
      /\ UNCHANGED <<commands, closed, loopVars, taskVars>>
  BY DEF Read, Receive, EngineInv, TypeInv, TypeOK
<1>2. Head(events) \in Event /\ Items(events) = Items(events') \cup {Head(events)}
  BY <1>1, HeadTailProperties, ItemsTail
<1>3. /\ Announcements' \subseteq Announcements
      /\ \A e \in Announcements : e = Head(events) \/ e \in Announcements'
      /\ Head(events) \in Announcements
  BY <1>1, <1>2 DEF Announcements, loopVars
<1>4. TellsTruth(Head(events)) /\ KindTrue(Head(events))
  BY <1>3 DEF EngineInv, WordInv, WordsTrue, KindsTrue
<1> QED
  BY <1>1, <1>2, <1>3, <1>4

LEMMA SessionTypesStep ==
  ASSUME EngineInv, KindsTrue, SessionTypes, SessionNext
  PROVE  SessionTypes'
<1>1. ASSUME NEW id \in Ids, NEW c \in Configs, Opens(id, c)
      PROVE  SessionTypes'
  <2>1. row' \in [Ids -> Statuses \cup {None}] /\ setting' \in [Ids -> Configs \cup {None}]
    BY <1>1 DEF Opens, SessionTypes, Statuses
  <2>2. \A i \in Ids : row'[i] # None <=> setting'[i] # None
    BY <1>1, SessionAssumption, ConstantsAssumption DEF Opens, SessionTypes, Statuses
  <2> QED
    BY <1>1, <2>1, <2>2 DEF Opens, SessionTypes
<1>2. ASSUME NEW id \in Ids, Remove(id)
      PROVE  SessionTypes'
  BY <1>2 DEF Remove, Shows, SessionTypes
<1>3. CASE OtherWish \/ Engines
  BY <1>3 DEF OtherWish, Engines, sessionVars, SessionTypes
<1>4. CASE Read
  <2> DEFINE e == Head(events)
  <2>1. e \in Event /\ e \in Announcements /\ KindTrue(e)
    BY <1>4, ReadEvent
  <2>2. e.kind \in Ending => e.generation \in Generations
    BY <2>1 DEF EngineInv, SlotInv, AnnouncedAreGone
  <2>3. row' = RowsAfter(e) /\ UNCHANGED setting
    BY <1>4 DEF Read
  <2>4. running' = RunningAfter(e) /\ haunted' = Haunting(e)
        /\ buried' = IF e.kind \in Ending THEN buried \cup {e.generation} ELSE buried
    BY <1>4 DEF Read
  <2> HIDE DEF e
  <2>5. /\ row' \in [Ids -> Statuses \cup {None}]
        /\ \A i \in Ids : row'[i] # None <=> setting'[i] # None
    BY <2>3, SessionAssumption DEF RowsAfter, IsStatus, SessionTypes
  <2>6. running' \subseteq Scenarios
    BY <2>1, <2>4 DEF RunningAfter, KindTrue, SessionTypes
  <2>7. haunted' \subseteq Names
    BY <2>1, <2>4 DEF Haunting, Event, SessionTypes
  <2>8. buried' \subseteq Generations
    BY <2>2, <2>4 DEF SessionTypes
  <2> QED
    BY <2>3, <2>5, <2>6, <2>7, <2>8 DEF SessionTypes
<1> QED
  BY <1>1, <1>2, <1>3, <1>4, UserSteps DEF SessionNext, EngineInv

LEMMA EnginesStep ==
  ASSUME Engines \/ Read
  PROVE  Next
BY DEF Engines, Read, Next, FrontEnd

LEMMA ViewInit == SessionInit => ViewInv
<1> SUFFICES ASSUME SessionInit PROVE ViewInv
  OBVIOUS
<1>1. EngineInv
  BY TypeInit, SlotInit, WordInit DEF SessionInit, EngineInv
<1>2. SessionTypes
  BY DEF SessionInit, SessionTypes
<1>3. KindsTrue
  BY DEF SessionInit, Init, KindsTrue, Stepping, Announcements, Items
<1>4. \A id \in Ids : Seen(id)
  BY DEF SessionInit, Init, Seen, Down, EndUnderWay, AboutToEnd, Asked, Occurs, Once
<1> QED
  BY <1>1, <1>2, <1>3, <1>4 DEF ViewInv

LEMMA ViewStep == ViewInv /\ [SessionNext]_sessionAll => ViewInv'
<1> SUFFICES ASSUME ViewInv, [SessionNext]_sessionAll PROVE ViewInv'
  OBVIOUS
<1> USE DEF ViewInv
<1>1. CASE SessionNext
  <2>1. EngineInv'
    BY <1>1, UserEngine, EnginesStep, EngineStep DEF SessionNext
  <2>2. SessionTypes'
    BY <1>1, SessionTypesStep
  <2>3. KindsTrue'
    <3>1. CASE User
      <4>1. UNCHANGED <<events, loop, pending, pc, owner>>
        BY <3>1, UserSteps
           DEF EngineInv, Opens, OtherWish, Remove, NotTold, Told, Untold, vars, channels,
               loopVars, taskVars, birth
      <4>2. Announcements' = Announcements
        BY <4>1 DEF Announcements, Items
      <4> QED
        BY <4>1, <4>2, KindsAside DEF EngineInv
    <3>2. CASE Read
      BY <3>2, ReadEvent, KindsAside DEF EngineInv, taskVars, birth
    <3> QED
      BY <1>1, <3>1, <3>2, KindsEngine DEF SessionNext
  <2>4. \A id \in Ids : Seen(id)'
    BY <1>1, SeenUser, SeenRead, SeenEngine DEF SessionNext
  <2> QED
    BY <2>1, <2>2, <2>3, <2>4
<1>2. CASE UNCHANGED sessionAll
  <2>1. EngineInv'
    BY <1>2, EngineStep DEF sessionAll
  <2>2. SessionTypes'
    BY <1>2 DEF sessionAll, sessionVars, SessionTypes
  <2>3. UNCHANGED <<events, loop, pending, pc, owner, commands, connections, row>>
    BY <1>2 DEF sessionAll, sessionVars, vars, channels, loopVars, taskVars, birth
  <2>4. KindsTrue'
    <3>1. Announcements' = Announcements
      BY <2>3 DEF Announcements, Items
    <3> QED
      BY <2>3, <3>1, KindsAside DEF EngineInv
  <2>5. \A id \in Ids : Seen(id)'
    BY <2>3, SeenAside DEF EngineInv, Down
  <2> QED
    BY <2>1, <2>2, <2>4, <2>5
<1> QED
  BY <1>1, <1>2

LEMMA ViewCorrect == SessionSpec => []ViewInv
<1> QED
  BY ViewInit, ViewStep, PTL DEF SessionSpec

(* No link is open, nor about to be, behind a row that says it is down or  *)
(* that is gone (state.rs:77-104): for any number of connections, however  *)
(* many commands and events are under way, and though commands be lost to  *)
(* a full channel.                                                         *)
THEOREM NothingUnseen == SessionSpec => []SessionInv
<1>1. ViewInv => SessionInv
  <2> SUFFICES ASSUME ViewInv, NEW id \in Ids, row[id] \in {None, "Disconnected"}
               PROVE  connections[id] = None /\ ~Queued("Connect", id)
    BY DEF ViewInv, SessionInv, NothingOpenUnseen
  <2>1. Down(id) /\ Seen(id)
    BY DEF ViewInv, Down
  <2>2. \A i \in DOMAIN commands : commands[i] \in Command
    BY DEF ViewInv, EngineInv, TypeInv, TypeOK
  <2> QED
    BY <2>1, <2>2 DEF Seen, Asked, Occurs, Connects, Queued
<1> QED
  BY ViewCorrect, <1>1, PTL

-----------------------------------------------------------------------------
(* Nothing that was started is lost sight of.                              *)

LEMMA HolderAside ==
  ASSUME UNCHANGED <<connections, scenarios>>
  PROVE  \A n \in Names : Holder(n)' = Holder(n)
BY DEF Holder

(* No name is given or freed, and an end that goes out of sight was read.  *)
LEMMA AccountedAside ==
  ASSUME Accounted, buried \subseteq buried', UNCHANGED <<connections, scenarios, owner>>,
         \A h \in Generations : pc'[h] # "unborn" => pc[h] # "unborn",
         \A e \in Announcements : e.kind \in Ending => e \in Announcements' \/ e.generation \in buried'
  PROVE  Accounted'
BY HolderAside DEF Accounted

LEMMA AccountedLoop ==
  ASSUME EngineInv, Accounted, LoopStep, SlotInv', loop # "emitting", UNCHANGED buried
  PROVE  Accounted'
<1> USE DEF EngineInv
<1>1. SUFFICES ASSUME NEW g \in Generations, pc'[g] # "unborn", g \notin buried
               PROVE  \/ \E n \in Names : owner'[g] = n /\ Holder(n)' = g
                      \/ \E e \in Announcements' : e.kind \in Ending /\ e.generation = g
  BY DEF Accounted
<1>2. \A e \in Announcements : e \in Announcements'
  BY DEF Announcements, Items, LoopStep
<1>3. /\ pc[g] # "unborn" <=> g < nextGeneration
      /\ pc'[g] # "unborn" <=> g < nextGeneration'
      /\ g \in Nat /\ nextGeneration \in Nat
  BY DEF SlotInv, Born, TypeInv, TypeOK, Generations
<1>4. None \notin Generations
  BY HolderType
<1>5. ASSUME NEW n \in Names, Given(n), g = nextGeneration
      PROVE  \E m \in Names : owner'[g] = m /\ Holder(m)' = g
  BY <1>5 DEF Given
<1>6. pc[g] # "unborn" \/ \E n \in Names : Given(n) /\ g = nextGeneration
  BY <1>1, <1>3 DEF LoopStep, Given
<1>7. ASSUME NEW n \in Names, owner[g] = n, Holder(n) = g, pc[g] # "unborn"
      PROVE  \/ owner'[g] = n /\ Holder(n)' = g
             \/ \E e \in Announcements' : e.kind \in Ending /\ e.generation = g
  <2>1. owner'[g] = n
    BY <1>7 DEF LoopStep
  <2>2. CASE Ended(n)
    <3>1. pending' \in Announcements' /\ pending'.kind \in Ending /\ pending'.generation = g
      BY <1>7, <2>2 DEF Ended, Saying, Ending, Announcements
    <3> QED
      BY <3>1
  <2>3. ~Given(n)
    BY <1>4, <1>7 DEF Given
  <2>4. Ended(n) \/ Holder(n)' = Holder(n)
    BY <2>3 DEF LoopStep, Untouched
  <2> QED
    BY <1>7, <2>1, <2>2, <2>4
<1>8. CASE pc[g] # "unborn"
  BY <1>1, <1>2, <1>7, <1>8 DEF Accounted
<1> QED
  BY <1>5, <1>6, <1>8

(* What the loop was about to say, if somebody is there to hear it, and    *)
(* what a task says, goes to the queue.                                    *)
LEMMA SaidIsKept ==
  ASSUME EngineInv, Announce \/ (\E g \in Generations : Speak(g)), ~closed
  PROVE  /\ \A e \in Announcements : e \in Announcements'
         /\ UNCHANGED <<commands, connections, scenarios, owner>>
<1> USE DEF EngineInv
<1>1. CASE Announce
  <2>1. pending \in Event /\ events \in Seq(Event)
    BY <1>1 DEF Announce, TypeInv, TypeOK, PendingNamed
  <2>2. events' = Append(events, pending)
    BY <1>1 DEF Announce, Emit
  <2>3. Items(events') = Items(events) \cup {pending}
    BY <2>1, <2>2, ItemsAppend
  <2> QED
    BY <1>1, <2>3 DEF Announce, Announcements, taskVars, birth
<1>2. ASSUME NEW g \in Generations, Speak(g)
      PROVE  /\ \A e \in Announcements : e \in Announcements'
             /\ UNCHANGED <<commands, connections, scenarios, owner>>
  <2> DEFINE e == Saying(Speaks[pc[g]], owner[g], g)
  <2>1. e \in Event /\ events \in Seq(Event)
    BY <1>2, SpeakingTypes DEF Speak, Saying, Event, TypeInv, TypeOK, Owned, Speaking
  <2>2. events' = Append(events, e)
    BY <1>2 DEF Speak, Emit
  <2> HIDE DEF e
  <2>3. Items(events') = Items(events) \cup {e}
    BY <2>1, <2>2, ItemsAppend
  <2> QED
    BY <1>2, <2>3 DEF Speak, Announcements, loopVars, birth
<1> QED
  BY <1>1, <1>2

(* What a step of the engine does, beside the loop's: names, announcements *)
(* and requests stay as they are, and nothing new is started.              *)
Steady ==
  /\ UNCHANGED <<connections, scenarios, owner>>
  /\ \A h \in Generations : pc'[h] # "unborn" => pc[h] # "unborn"
  /\ \A e \in Announcements : e \in Announcements'
  /\ \A id \in Ids : Asked(id) => Asked(id)'

LEMMA TaskIsSteady ==
  ASSUME EngineInv, ~closed, NEW g \in Generations, Task(g)
  PROVE  Steady
<1> USE DEF EngineInv
<1>1. \A h \in Generations : pc'[h] # "unborn" => pc[h] # "unborn"
  <2>1. PICK from \in PCs \ {"unborn"}, to \in PCs : Goes(g, from, to)
    <3>1. CASE Speak(g)
      BY <3>1, SpeakingTypes DEF Speak, Speaking, PCs
    <3>2. CASE ~Speak(g)
      BY <3>2, LinkStepIsQuiet, ScenarioStepIsQuiet
         DEF Task, Quiet, PostSend, Notify, Reap, Gone, PCs, TypeInv, TypeOK, Owned
    <3> QED
      BY <3>1, <3>2
  <2> QED
    BY <2>1 DEF Goes, TypeInv, TypeOK
<1>2. CASE Speak(g)
  BY <1>1, <1>2, SaidIsKept DEF Steady, Asked
<1>3. CASE ~Speak(g)
  <2>1. UNCHANGED <<events, loop, pending, connections, scenarios, owner>>
    BY <1>3, LinkStepIsQuiet, ScenarioStepIsQuiet
       DEF Task, Quiet, PostSend, Notify, Reap, channels, loopVars, birth
  <2>2. \A e \in Announcements : e \in Announcements'
    BY <2>1 DEF Announcements, Items
  <2>3. \A id \in Ids : Asked(id) => Asked(id)'
    <3>1. CASE PostSend(g)
      <4>1. PICK c \in Command : commands' = Append(commands, c)
        <5>1. PICK id \in Ids :
                 commands' = Append(commands, [op |-> "SendRaw", name |-> id, config |-> None])
          BY <3>1 DEF PostSend, Post
        <5>2. [op |-> "SendRaw", name |-> id, config |-> None] \in Command
          BY DEF Command
        <5> QED
          BY <5>1, <5>2
      <4>2. commands \in Seq(Command)
        BY DEF TypeInv, TypeOK
      <4> QED
        BY <4>1, <4>2, AppendOccurs DEF Asked
    <3>2. CASE ~PostSend(g)
      BY <1>3, <3>2, LinkStepIsQuiet, ScenarioStepIsQuiet
         DEF Task, Quiet, Notify, Reap, channels, Asked
    <3> QED
      BY <3>1, <3>2
  <2> QED
    BY <1>1, <2>1, <2>2, <2>3 DEF Steady
<1> QED
  BY <1>2, <1>3

-----------------------------------------------------------------------------
(* What is shown is backed. *)

LEMMA BackedSteady ==
  ASSUME Steady, Backing, UNCHANGED haunted,
         \A n \in Names : Shown(n)' => Shown(n) \/ (n \in Ids /\ Asked(n)')
  PROVE  Backing'
<1> SUFFICES ASSUME NEW n \in Names, Shown(n)'
             PROVE  Backed(n)'
  BY DEF Backing
<1>1. Backed(n) \/ (n \in Ids /\ Asked(n)')
  BY DEF Backing
<1>2. Holder(n)' = Holder(n)
  BY HolderAside DEF Steady
<1> QED
  BY <1>1, <1>2 DEF Backed, Steady

LEMMA BackedLoop ==
  ASSUME EngineInv, Backing, Loop, ~Announce, UNCHANGED sessionVars
  PROVE  Backing'
<1> USE DEF EngineInv
<1>1. LoopStep /\ loop # "emitting"
  BY LoopSteps
<1>2. SUFFICES ASSUME NEW n \in Names, Shown(n), Backed(n)
               PROVE  Backed(n)'
  BY DEF Backing, Shown, sessionVars
<1>3. \A e \in Announcements : e \in Announcements'
  BY <1>1 DEF Announcements, Items, LoopStep
<1>4. CASE Holder(n) # None
  <2>1. CASE Ended(n)
    <3>1. pending' \in Announcements' /\ pending'.kind \in Ending /\ pending'.name = n
      BY <2>1 DEF Ended, Saying, Ending, Announcements
    <3> QED
      BY <3>1 DEF Backed
  <2>2. CASE Holder(n)' = Holder(n)
    BY <1>4, <2>2 DEF Backed
  <2>3. Ended(n) \/ Holder(n)' = Holder(n)
    BY <1>1, <1>4 DEF LoopStep, Untouched, Given
  <2> QED
    BY <2>1, <2>2, <2>3
<1>5. CASE n \in haunted \/ \E e \in Announcements : e.kind \in Ending /\ e.name = n
  BY <1>3, <1>5 DEF Backed, sessionVars
<1>6. CASE n \in Ids /\ Asked(n)
  <2>1. Asked(n)' \/ connections'[n] # None
    <3>1. commands \in Seq(Command)
      BY DEF TypeInv, TypeOK
    <3> QED
      BY <1>6, <3>1, CommandsTaken, TailOccurs DEF Asked
  <2> QED
    BY <1>6, <2>1 DEF Backed, Holder
<1> QED
  BY <1>2, <1>4, <1>5, <1>6 DEF Backed

(* A user who is never refused asks for every link that is shown.          *)
LEMMA UserIsSteady ==
  ASSUME EngineInv, SessionTypes, ~MayRefuse, User
  PROVE  /\ Steady /\ UNCHANGED <<buried, haunted, closed>>
         /\ \A n \in Names : Shown(n)' => Shown(n) \/ (n \in Ids /\ Asked(n)')
<1> USE DEF EngineInv
<1>1. ASSUME NEW c \in Command, Told(c)
      PROVE  /\ Steady /\ UNCHANGED closed
             /\ \A id \in Ids : c \in Connects(id) => Asked(id)'
  <2>1. commands \in Seq(Command) /\ commands' = Append(commands, c)
    BY <1>1 DEF TypeInv, TypeOK, Told
  <2>2. \A id \in Ids : Asked(id)' <=> Asked(id) \/ c \in Connects(id)
    BY <2>1, AppendOccurs DEF Asked
  <2>3. UNCHANGED <<events, loop, pending, connections, scenarios, owner, pc, closed>>
    BY <1>1 DEF Told, loopVars, taskVars, birth
  <2>4. Announcements' = Announcements
    BY <2>3 DEF Announcements, Items
  <2> QED
    BY <2>2, <2>3, <2>4 DEF Steady
<1>2. ASSUME Untold
      PROVE  Steady /\ UNCHANGED closed
  <2>1. UNCHANGED <<commands, events, loop, pending, connections, scenarios, owner, pc, closed>>
    BY <1>2 DEF Untold, vars, channels, loopVars, taskVars, birth
  <2>2. Announcements' = Announcements
    BY <2>1 DEF Announcements, Items
  <2> QED
    BY <2>1, <2>2 DEF Steady, Asked
<1>3. ASSUME NEW id \in Ids, NEW c \in Configs, Opens(id, c)
      PROVE  /\ Steady /\ UNCHANGED <<buried, haunted, closed>>
             /\ \A n \in Names : Shown(n)' => Shown(n) \/ (n \in Ids /\ Asked(n)')
  <2> DEFINE said == Say("Connect", id, c)
  <2>1. said \in Command /\ said \in Connects(id)
    BY DEF Say, Command, Connects
  <2>2. Told(said)
    BY <1>3 DEF Opens
  <2> HIDE DEF said
  <2>3. Steady /\ Asked(id)' /\ UNCHANGED <<buried, haunted, closed>>
    BY <1>1, <1>3, <2>1, <2>2 DEF Opens
  <2>4. \A n \in Names : n # id /\ Shown(n)' => Shown(n)
    BY <1>3 DEF Opens, Shown, SessionTypes
  <2> QED
    BY <2>3, <2>4
<1>4. CASE OtherWish
  BY <1>1, <1>2, <1>4 DEF OtherWish, OtherCommand, sessionVars, Shown
<1>5. ASSUME NEW id \in Ids, Remove(id)
      PROVE  /\ Steady /\ UNCHANGED <<buried, haunted, closed>>
             /\ \A n \in Names : Shown(n)' => Shown(n) \/ (n \in Ids /\ Asked(n)')
  <2>1. Untold /\ UNCHANGED <<running, buried, haunted>>
    BY <1>5 DEF Remove, NotTold, Untold
  <2>2. \A n \in Ids : row'[n] \in Up => row[n] \in Up
    BY <1>5, SessionAssumption DEF Remove, Shows, SessionTypes, Up
  <2> QED
    BY <1>2, <2>1, <2>2 DEF Shown
<1> QED
  BY <1>3, <1>4, <1>5, UserSteps

LEMMA AccountedRead ==
  ASSUME EngineInv, KindsTrue, Accounted, Read
  PROVE  Accounted'
<1> DEFINE e == Head(events)
<1>1. /\ UNCHANGED <<connections, scenarios, owner, pc>>
      /\ \A a \in Announcements : a = e \/ a \in Announcements'
  BY ReadEvent DEF loopVars, taskVars, birth
<1>2. buried' = IF e.kind \in Ending THEN buried \cup {e.generation} ELSE buried
  BY DEF Read
<1> HIDE DEF e
<1>3. \A a \in Announcements : a.kind \in Ending => a \in Announcements' \/ a.generation \in buried'
  BY <1>1, <1>2
<1>4. buried \subseteq buried'
  BY <1>2
<1> QED
  BY <1>1, <1>3, <1>4, AccountedAside

(* What is shown after an event is read: an end takes it off; what else is *)
(* heard of it comes from a task that is accounted for.                    *)
LEMMA BackedRead ==
  ASSUME EngineInv, KindsTrue, SessionTypes, Accounted, Backing, Read
  PROVE  Backing'
<1> USE DEF EngineInv
<1> DEFINE e == Head(events)
<1>1. /\ UNCHANGED <<commands, connections, scenarios>>
      /\ e \in Event /\ TellsTruth(e) /\ KindTrue(e)
      /\ \A a \in Announcements : a = e \/ a \in Announcements'
  BY ReadEvent DEF loopVars, taskVars, birth
<1>2. row' = RowsAfter(e) /\ running' = RunningAfter(e) /\ haunted' = Haunting(e)
  BY DEF Read
<1> HIDE DEF e
<1>3. SUFFICES ASSUME NEW n \in Names, Shown(n)'
               PROVE  Backed(n)'
  BY DEF Backing
<1>4. Holder(n)' = Holder(n) /\ (n \in Ids => (Asked(n)' <=> Asked(n)))
  BY <1>1, HolderAside DEF Asked
<1>5. ASSUME Backed(n), n \in haunted => n \in haunted',
             e.name = n => e.kind \notin Ending
      PROVE  Backed(n)'
  BY <1>1, <1>4, <1>5 DEF Backed
<1>6. CASE e.name # n
  <2>1. Shown(n)
    BY <1>2, <1>3, <1>6 DEF Shown, RowsAfter, RunningAfter, SessionTypes
  <2>2. n \in haunted => n \in haunted'
    BY <1>2, <1>6 DEF Haunting
  <2> QED
    BY <1>5, <1>6, <2>1, <2>2 DEF Backing
<1>7. CASE e.name = n /\ ~(IsStatus(e) \/ e.kind \in {"Step", "Finished"})
  <2>1. Shown(n)
    BY <1>2, <1>3, <1>7 DEF Shown, RowsAfter, RunningAfter
  <2>2. UNCHANGED haunted /\ e.kind \notin Ending
    BY <1>1, <1>2, <1>7 DEF Haunting, IsStatus, Ending, KindTrue, Statuses
  <2> QED
    BY <1>5, <2>1, <2>2 DEF Backing
<1>8. CASE e.name = n /\ (IsStatus(e) \/ e.kind \in {"Step", "Finished"})
  <2>1. e.kind \notin Ending
    <3>1. CASE n \in Ids
      <4>1. row'[n] \in Up /\ n \notin Scenarios
        BY <1>3, <3>1, ConstantsAssumption DEF Shown
      <4>2. IsStatus(e) /\ e.kind # "Finished"
        BY <1>1, <1>8, <4>1 DEF KindTrue, IsStatus, Statuses
      <4>3. row'[n] = e.kind \/ row'[n] = None
        BY <1>2, <1>8, <3>1, <4>2 DEF RowsAfter, SessionTypes
      <4> QED
        BY <4>1, <4>2, <4>3, SessionAssumption DEF Up, Ending
    <3>2. CASE n \notin Ids
      <4>1. ~IsStatus(e) /\ n \in running'
        BY <1>3, <1>8, <3>2 DEF Shown, IsStatus
      <4> QED
        BY <1>2, <1>8, <4>1 DEF RunningAfter, Ending
    <3> QED
      BY <3>1, <3>2
  <2>2. e.kind # "Error" /\ e.generation \in Generations
        /\ pc[e.generation] # "unborn" /\ owner[e.generation] = n
    BY <1>1, <1>8 DEF TellsTruth, IsStatus, Statuses
  <2>3. CASE e.generation \in buried
    BY <1>2, <1>8, <2>3 DEF Haunting, Backed
  <2>4. CASE Holder(n) = e.generation
    BY <1>4, <2>2, <2>4, HolderType DEF Backed
  <2>5. ASSUME NEW a \in Announcements, a.kind \in Ending, a.generation = e.generation
        PROVE  Backed(n)'
    <3>1. a \in Announcements'
      BY <1>1, <2>1, <2>5
    <3>2. a.name = n
      BY <2>2, <2>5 DEF WordInv, WordsTrue, TellsTruth, Ending
    <3> QED
      BY <2>5, <3>1, <3>2 DEF Backed
  <2> QED
    BY <2>2, <2>3, <2>4, <2>5 DEF Accounted
<1> QED
  BY <1>6, <1>7, <1>8

LEMMA EngineBacks ==
  ASSUME EngineInv, SlotInv', Accounted, Backing, ~closed, ~closed', Engines
  PROVE  Accounted' /\ Backing'
<1> USE DEF EngineInv
<1>1. UNCHANGED sessionVars /\ UNCHANGED <<buried, haunted>> /\ \A n \in Names : Shown(n)' => Shown(n)
  BY DEF Engines, sessionVars, Shown
<1>2. ASSUME Steady
      PROVE  Accounted' /\ Backing'
  <2>1. Accounted'
    BY <1>1, <1>2, AccountedAside DEF Steady
  <2>2. Backing'
    BY <1>1, <1>2, BackedSteady
  <2> QED
    BY <2>1, <2>2
<1>3. CASE Loop /\ ~Announce
  <2>1. LoopStep /\ loop # "emitting"
    BY <1>3, LoopSteps
  <2>2. Accounted'
    BY <1>1, <2>1, AccountedLoop
  <2>3. Backing'
    BY <1>1, <1>3, BackedLoop
  <2> QED
    BY <2>2, <2>3
<1>4. CASE Announce
  <2>1. Steady
    BY <1>4, SaidIsKept DEF Steady, Asked, Announce, taskVars, birth
  <2> QED
    BY <1>2, <2>1
<1>5. ASSUME NEW g \in Generations, Task(g)
      PROVE  Accounted' /\ Backing'
  BY <1>2, <1>5, TaskIsSteady
<1>6. CASE Over
  <2>1. UNCHANGED <<commands, events, loop, pending, connections, scenarios, owner, pc>>
    BY <1>6 DEF Over, vars, channels, loopVars, taskVars, birth
  <2>2. Announcements' = Announcements
    BY <2>1 DEF Announcements, Items
  <2>3. Steady
    BY <2>1, <2>2 DEF Steady, Asked
  <2> QED
    BY <1>2, <2>3
<1>7. ~Quit
  BY DEF Quit
<1> QED
  BY <1>3, <1>4, <1>5, <1>6, <1>7 DEF Engines

LEMMA StaysClosed ==
  ASSUME EngineInv, [SessionNext]_sessionAll, closed
  PROVE  closed'
<1>1. CASE Loop
  BY <1>1 DEF Loop, HandleCommand, HandleConnect, HandleDisconnect, HandleSendRaw, HandleStart,
              HandleStop, HandleSetValue, FinishedNotice, EndedNotice, Announce, Enqueue,
              Shutdown, channels
<1>2. ASSUME NEW g \in Generations, Task(g)
      PROVE  closed'
  BY <1>2, LinkStepIsQuiet, ScenarioStepIsQuiet
     DEF Task, Speak, Quiet, PostSend, Notify, Reap, channels
<1>3. CASE Quit \/ Over
  BY <1>3 DEF Quit, Over, vars, channels
<1>4. CASE User
  BY <1>4 DEF User, Submit, Reconnect, HangUp, Remove, Play, Halt, Tell, NotTold
<1>5. CASE Read
  BY <1>5 DEF Read, Receive
<1>6. CASE UNCHANGED sessionAll
  BY <1>6 DEF sessionAll, vars, channels
<1> QED
  BY <1>1, <1>2, <1>3, <1>4, <1>5, <1>6 DEF SessionNext, Engines

LEMMA BackInit == SessionInit => BackInv
<1> SUFFICES ASSUME SessionInit PROVE Accounted /\ Backing
  BY DEF BackInv
<1>1. Accounted
  BY DEF SessionInit, Init, Accounted
<1>2. Backing
  BY SessionAssumption DEF SessionInit, Backing, Shown, Up
<1> QED
  BY <1>1, <1>2

LEMMA BackStep ==
  ~MayRefuse /\ ViewInv /\ ViewInv' /\ BackInv /\ [SessionNext]_sessionAll => BackInv'
<1> SUFFICES ASSUME ~MayRefuse, ViewInv, ViewInv', BackInv, [SessionNext]_sessionAll, ~closed'
             PROVE  Accounted' /\ Backing'
  BY DEF BackInv
<1>1. ~closed /\ Accounted /\ Backing
  BY StaysClosed DEF ViewInv, BackInv
<1>2. EngineInv /\ KindsTrue /\ SessionTypes /\ SlotInv'
  BY DEF ViewInv, EngineInv
<1>3. CASE User
  <2>1. /\ Steady /\ UNCHANGED <<buried, haunted>>
        /\ \A n \in Names : Shown(n)' => Shown(n) \/ (n \in Ids /\ Asked(n)')
    BY <1>2, <1>3, UserIsSteady
  <2>2. Accounted'
    BY <1>1, <2>1, AccountedAside DEF Steady
  <2>3. Backing'
    BY <1>1, <2>1, BackedSteady
  <2> QED
    BY <2>2, <2>3
<1>4. CASE Read
  BY <1>1, <1>2, <1>4, AccountedRead, BackedRead
<1>5. CASE Engines
  BY <1>1, <1>2, <1>5, EngineBacks
<1>6. CASE UNCHANGED sessionAll
  <2>1. /\ UNCHANGED <<commands, events, loop, pending, connections, scenarios, owner, pc>>
        /\ UNCHANGED <<row, running, buried, haunted>>
    BY <1>6 DEF sessionAll, sessionVars, vars, channels, loopVars, taskVars, birth
  <2>2. Announcements' = Announcements
    BY <2>1 DEF Announcements, Items
  <2>3. Steady /\ \A n \in Names : Shown(n)' => Shown(n)
    BY <2>1, <2>2 DEF Steady, Asked, Shown
  <2>4. Accounted'
    BY <1>1, <2>1, <2>3, AccountedAside DEF Steady
  <2>5. Backing'
    BY <1>1, <2>1, <2>3, BackedSteady
  <2> QED
    BY <2>4, <2>5
<1> QED
  BY <1>3, <1>4, <1>5, <1>6 DEF SessionNext

LEMMA BackCorrect == ~MayRefuse /\ SessionSpec => [](ViewInv /\ BackInv)
<1>1. ASSUME ~MayRefuse
      PROVE  SessionSpec => [](ViewInv /\ BackInv)
  <2>1. SessionInit => ViewInv /\ BackInv
    BY ViewInit, BackInit
  <2>2. (ViewInv /\ BackInv) /\ [SessionNext]_sessionAll => (ViewInv /\ BackInv)'
    BY <1>1, ViewStep, BackStep
  <2> QED
    BY <2>1, <2>2, PTL DEF SessionSpec
<1> QED
  BY <1>1

(* What is shown as up is held, asked for or about to be reported down,    *)
(* and what is shown as running is held or about to be reported over       *)
(* (state.rs:77-104), save what an aborted task still says; provided the   *)
(* channel of commands is never found full, without which it is not so.    *)
THEOREM ShownIsTrue == ~MayRefuse /\ SessionSpec => []ShownIsHeld
<1>1. ViewInv /\ BackInv => ShownIsHeld
  <2> SUFFICES ASSUME ViewInv, Accounted, Backing
               PROVE  /\ \A id \in Ids : row[id] \in Up =>
                           \/ connections[id] # None \/ Queued("Connect", id) \/ id \in haunted
                           \/ \E e \in Announcements : e.kind = "Disconnected" /\ e.name = id
                      /\ \A s \in running :
                           \/ scenarios[s] # None \/ s \in haunted
                           \/ \E e \in Announcements : e.kind = "Finished" /\ e.name = s
    BY DEF BackInv, ShownIsHeld
  <2>1. ASSUME NEW id \in Ids, row[id] \in Up
        PROVE  \/ connections[id] # None \/ Queued("Connect", id) \/ id \in haunted
               \/ \E e \in Announcements : e.kind = "Disconnected" /\ e.name = id
    <3>1. Backed(id)
      BY <2>1 DEF Backing, Shown, Names
    <3>2. Holder(id) = connections[id] /\ id \notin Scenarios
      BY ConstantsAssumption DEF Holder
    <3>3. Asked(id) => Queued("Connect", id)
      BY DEF Asked, Occurs, Connects, Queued
    <3>4. \A e \in Announcements : e.kind \in Ending /\ e.name = id => e.kind = "Disconnected"
      BY <3>2 DEF ViewInv, KindsTrue, KindTrue, Ending
    <3> QED
      BY <3>1, <3>2, <3>3, <3>4 DEF Backed
  <2>2. ASSUME NEW s \in running
        PROVE  \/ scenarios[s] # None \/ s \in haunted
               \/ \E e \in Announcements : e.kind = "Finished" /\ e.name = s
    <3>1. s \in Scenarios /\ s \notin Ids /\ s \in Names
      BY ConstantsAssumption DEF ViewInv, SessionTypes, Names
    <3>2. Backed(s)
      BY <3>1 DEF Backing, Shown
    <3>3. Holder(s) = scenarios[s]
      BY <3>1 DEF Holder
    <3>4. \A e \in Announcements : e.kind \in Ending /\ e.name = s => e.kind = "Finished"
      BY <3>1 DEF ViewInv, KindsTrue, KindTrue, Ending
    <3> QED
      BY <3>1, <3>2, <3>3, <3>4 DEF Backed
  <2> QED
    BY <2>1, <2>2
<1>2. ASSUME ~MayRefuse
      PROVE  SessionSpec => []ShownIsHeld
  BY <1>1, <1>2, BackCorrect, PTL
<1> QED
  BY <1>2
=============================================================================
