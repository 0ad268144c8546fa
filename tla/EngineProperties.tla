-------------------------- MODULE EngineProperties --------------------------
(***************************************************************************)
(* What must be true of the engine loop and its tasks.                     *)
(***************************************************************************)
EXTENDS Engine

PCs == {"unborn", "opening", "accepting", "pump", "writing", "lost", "down", "backoff",
        "pass", "acting", "posting", "notifying", "done"} \cup Speaking

Notice(N) == [name : N, generation : Generations]

Live(g) == pc[g] \notin {"unborn", "done"}

Holder(name) == IF name \in Ids THEN connections[name] ELSE scenarios[name]

Items(queue) == {queue[i] : i \in DOMAIN queue}

Notices == Items(finished) \cup Items(ended)

Ending == {"Disconnected", "Finished"}

Announcements == Items(events) \cup (IF loop = "emitting" THEN {pending} ELSE {})

(* Room is left for every command that starts a task: the bound on starts  *)
(* the front end observes when it issues one.                              *)
StartsAreBounded ==
  \A i \in DOMAIN commands :
    commands[i].op \in {"Connect", "Start"} => nextGeneration + i <= MaxGenerations

(* What the loop is suspended on names somebody.                           *)
PendingNamed ==
  /\ loop \in {"emitting", "queueing"} => pending \in Event
  /\ loop = "queueing" => pending.generation \in Generations

(* A task has an owner, and whatever is held or aborted is a task.         *)
Owned ==
  /\ \A g \in Generations : pc[g] # "unborn" => owner[g] \in Names
  /\ \A g \in Generations : aborted[g] => pc[g] # "unborn"
  /\ \A id \in Ids : connections[id] # None => pc[connections[id]] # "unborn"
  /\ \A s \in Scenarios : scenarios[s] # None => pc[scenarios[s]] # "unborn"

(* Every variable has its type. *)
TypeOK ==
  /\ commands \in Seq(Command)
  /\ events \in Seq(Event)
  /\ finished \in Seq(Notice(Ids))
  /\ ended \in Seq(Notice(Scenarios))
  /\ closed \in BOOLEAN
  /\ loop \in {"idle", "emitting", "queueing", "stopped"}
  /\ pending \in [kind : EventKind, name : Names \cup {None},
                  generation : Generations \cup {None}]
  /\ connections \in [Ids -> Generations \cup {None}]
  /\ scenarios \in [Scenarios -> Generations \cup {None}]
  /\ nextGeneration \in 0 .. MaxGenerations
  /\ owner \in [Generations -> Names \cup {None}]
  /\ config \in [Generations -> Configs \cup {None}]
  /\ pc \in [Generations -> PCs]
  /\ aborted \in [Generations -> BOOLEAN]
  /\ connected \in [Generations -> BOOLEAN]
  /\ failures \in [Generations -> 0 .. FailureCeiling]
  /\ outgoing \in [Generations -> Seq(Nat)]
  /\ links \in [Generations -> 0 .. MaxLinks]

(* No task runs on that nobody can stop: unless it was aborted, a task     *)
(* still holds the name it was started for.  With one holder per name, no  *)
(* name ever has two tasks that were not aborted.                          *)
NoOrphanTask ==
  \A g \in Generations : Live(g) /\ ~aborted[g] => Holder(owner[g]) = g

(* No name is held for ever by a task that is gone: the holder was started *)
(* for that name, was not aborted, and runs or has its notice on the way.  *)
NoDeadHolder ==
  loop # "stopped" =>
    \A name \in Names : Holder(name) # None =>
      LET g == Holder(name) IN
        /\ owner[g] = name
        /\ ~aborted[g]
        /\ Live(g) \/ [name |-> name, generation |-> g] \in Notices

(* The slot is freed before the end is announced, so a caller that starts  *)
(* the name again on hearing of it cannot be told it is still taken.       *)
FreedBeforeAnnounced ==
  \A e \in Announcements :
    e.kind \in Ending => Holder(e.name) # e.generation

(* Once a task that ended by itself is announced, it is never heard of     *)
(* again: its announcement is the last event of its generation.            *)
LastWord ==
  \A i, j \in DOMAIN events :
    /\ i < j
    /\ events[i].kind \in Ending
    /\ ~aborted[events[i].generation]
    => events[j].generation # events[i].generation

(* The last that was said of a task, and is still to be read, is that it   *)
(* is being opened or that it listens.                                     *)
SaidDown(g) ==
  \E i \in DOMAIN events :
    /\ events[i].generation = g
    /\ events[i].kind \in {"Connecting", "Listening"}
    /\ \A j \in i + 1 .. Len(events) :
         events[j].generation = g => events[j].kind # "Connected"

(* A retrying connection keeps its queue between links, so only the flag   *)
(* can refuse a send (engine.rs:277-288).  Between links it does: wherever *)
(* the task opens, listens, accepts or sleeps the flag is down, and after  *)
(* Connecting or Listening was said nothing is accepted before the task is *)
(* about to say Connected.  It does not yet between the loss of the peer   *)
(* and the step that takes the flag down (hungUp, failed, lost, down): see *)
(* NoSendToALaterPeer.                                                     *)
RefusedWithoutPeer ==
  \A g \in Generations : connected[g] =>
    /\ pc[g] \notin {"connecting", "opening", "listening", "accepting", "backoff", "notifying"}
    /\ SaidDown(g) => pc[g] = "connected"

(* The inductive invariants behind these.  For the names: numbers are      *)
(* given out in order, a notice comes from a task that is gone, and what   *)
(* is announced was started and is free.                                   *)
Born == \A g \in Generations : pc[g] # "unborn" <=> g < nextGeneration

NoticesTrue ==
  \A n \in Notices : pc[n.generation] = "done" /\ owner[n.generation] = n.name

AnnouncedAreGone ==
  \A e \in Announcements :
    e.kind \in Ending =>
      /\ e.name \in Names
      /\ e.generation \in Generations
      /\ pc[e.generation] # "unborn"
      /\ Holder(e.name) # e.generation

SlotInv ==
  Born /\ NoticesTrue /\ AnnouncedAreGone /\ NoOrphanTask /\ NoDeadHolder

(* For a link: the flag is down wherever no transport is open, the loop    *)
(* itself says neither Connecting nor Listening, what was said is lost     *)
(* with the one to read it, and a task it was said of has not gone further *)
(* than to another link, which it is about to announce.                    *)
NoTransport ==
  {"unborn", "connecting", "opening", "listening", "accepting", "backoff",
   "pass", "step", "acting", "posting", "notifying", "done"}

BetweenLinks == NoTransport \cup {"failed", "down", "connected"}

LinkInv ==
  /\ \A g \in Generations : pc[g] \in NoTransport => ~connected[g]
  /\ loop = "emitting" => pending.kind \in {"Error"} \cup Ending
  /\ closed => events = <<>>
  /\ \A g \in Generations :
       SaidDown(g) => pc[g] \in BetweenLinks /\ (connected[g] => pc[g] = "connected")

(* What the engine promises about names (NameSlots), by the two maps and   *)
(* the announcement the loop is suspended on.                              *)
Slots == INSTANCE NameSlots WITH
  Free <- None,
  holder <- [name \in Names |-> Holder(name)],
  owed <- IF loop = "emitting" /\ pending.kind \in Ending THEN pending.generation ELSE None,
  next <- nextGeneration

KeepsSlots == Slots!SlotSpec

-----------------------------------------------------------------------------
(* A connection whose task ended by itself is let go of, whatever else the *)
(* loop has to do: the name becomes free again.                            *)
EndIsNoticed ==
  \A g \in Generations :
    pc[g] = "notifying" /\ ~aborted[g] ~> (\A name \in Names : Holder(name) # g)
                                           \/ loop = "stopped"

(* A queued disconnect takes the name from whoever held it.                *)
DisconnectHonoured ==
  \A g \in Generations :
    (\E i \in DOMAIN commands :
        commands[i].op = "Disconnect" /\ connections[commands[i].name] = g)
      ~> (\A id \in Ids : connections[id] # g) \/ loop = "stopped"

(* A connection with a limited policy does not try for ever: from where it *)
(* has nothing open, it opens something or ends.  (A server has opened     *)
(* something once it is bound, which clears the count, engine.rs:417: with *)
(* a bind that succeeds and an accept that fails it goes on without end.)  *)
Limited(g) == config[g] # None /\ (config[g].retry => config[g].attempts # None)

GivesUp ==
  \A g \in Generations :
    LET trying == Limited(g) /\ pc[g] \in {"connecting", "opening", "failed", "down", "backoff"}
    IN  trying ~> ~trying

(* Once the front end is gone the engine stops, its scenarios with it      *)
(* (engine.rs:113-116), unless two scenarios keep each other's sender      *)
(* alive: one upgrades its weak handle while the other waits for room, and *)
(* the other way round, for ever (runner.rs:320-328); or the loop waits    *)
(* for ever for room in the queue of a connection (engine.rs:293).         *)
SendersOverlap ==
  \E g, h \in Generations : g # h /\ pc[g] = "posting" /\ pc[h] = "posting"

QuitStops ==
  \/ []<>SendersOverlap
  \/ <>[](loop = "queueing")
  \/ closed ~> loop = "stopped" /\ \A g \in Generations : ~Live(g)

-----------------------------------------------------------------------------
(* Claims of the documentation and comments the code does not keep.        *)

(* "A send would sit in the queue and go out much later against a peer     *)
(* that has since changed.  Refusing it reports the truth instead"         *)
(* (engine.rs:282): what was queued before the link fell is not refused.   *)
NoSendToALaterPeer ==
  [][\A g \in Generations :
       pc[g] = "pump" /\ pc'[g] = "writing" => Head(outgoing[g]) = links[g]]_vars

(* "a manual disconnect is never held up by a long backoff"                *)
(* (engine.rs:459): it is, when the loop waits for room in the queue of a  *)
(* connection that is backing off.  The statement is DisconnectHonoured.   *)
DisconnectNeverHeldUp == DisconnectHonoured

(* "a strong handle held by the loop itself would keep the channel open    *)
(* after every real caller had gone, so the engine would never stop"       *)
(* (engine.rs:113): so do the strong handles two scenarios hold in turn    *)
(* while they wait for room.                                               *)
QuitStopsAll ==
  \/ <>[](loop = "queueing")
  \/ closed ~> loop = "stopped" /\ \A g \in Generations : ~Live(g)
=============================================================================
