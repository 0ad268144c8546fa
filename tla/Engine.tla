------------------------------- MODULE Engine -------------------------------
(***************************************************************************)
(* The engine of sim-core (engine.rs): one loop that owns the connections  *)
(* and the scenarios, one task per open connection, one task per running   *)
(* scenario, and the channels between them.  Every action is the code      *)
(* between two await points, so tasks, loop and front end interleave as    *)
(* they do on the multi-threaded runtime.                                  *)
(*                                                                         *)
(* A task is known by its generation, the number the loop gave the handle. *)
(* An abort is asynchronous: the poll in progress runs on, and may cross   *)
(* awaits that are ready, until the runtime drops the task (Reap).         *)
(***************************************************************************)
EXTENDS Naturals, Sequences, FiniteSets

CONSTANTS
  Ids,               (* Connection names.                                  *)
  Scenarios,         (* Scenario names.                                    *)
  Configs,           (* What a Connect may carry: transport and retry.     *)
  Offered,           (* The commands the front end may issue.              *)
  CommandCapacity,   (* Of the channel the loop is driven by: 256.         *)
  EventCapacity,     (* Of the channel the front end drains: 1024.         *)
  NoticeCapacity,    (* Of the finished and ended channels: 1024.          *)
  OutgoingCapacity,  (* Of the bytes queued to one connection: 256.        *)
  FailureCeiling,    (* Where the failure count saturates: u32::MAX.       *)
  MaxGenerations,    (* Bound: connections and scenarios ever started.     *)
  MaxLinks,          (* Bound: times one connection's link comes up.       *)
  MayQuit,           (* Bound: whether the front end goes away.            *)
  None               (* No generation, no configuration, no attempt limit. *)

Names == Ids \cup Scenarios
Generations == 0 .. MaxGenerations - 1
Transports == {"udp", "client", "server", "serial"}

(* retry: whether a RetryPolicy came with the Connect; attempts: its limit. *)
Config == [transport : Transports, retry : BOOLEAN, attempts : Nat \cup {None}]

Command ==
  [op : {"Connect"}, name : Ids, config : Configs]
    \cup [op : {"Disconnect", "SendRaw"}, name : Ids, config : {None}]
    \cup [op : {"Start", "Stop", "SetValue"}, name : Scenarios, config : {None}]

(* An Event of the code, and the generation it speaks of (which the code   *)
(* does not carry: it is there for the properties).                        *)
EventKind == {"Connecting", "Listening", "Connected", "Disconnected", "Sent",
              "Received", "Error", "Step", "Finished"}
Event == [kind : EventKind, name : Names, generation : Generations \cup {None}]

ASSUME ConstantsAssumption ==
  /\ Ids \cap Scenarios = {}
  /\ Configs \subseteq Config
  /\ Offered \subseteq Command
  /\ {CommandCapacity, EventCapacity, NoticeCapacity, OutgoingCapacity} \subseteq Nat \ {0}
  /\ FailureCeiling \in Nat
  /\ MaxGenerations \in Nat
  /\ MaxLinks \in Nat
  /\ MayQuit \in BOOLEAN
  /\ None \notin Nat \cup Configs \cup Names

VARIABLES
  commands,        (* Queue of commands to the loop.                       *)
  events,          (* Queue of events to the front end.                    *)
  finished,        (* Queue of notices: connection tasks that ended.       *)
  ended,           (* Queue of notices: scenario tasks that ended.         *)
  closed,          (* Whether the front end dropped its two ends.          *)
  loop,            (* Where the engine loop is suspended.                  *)
  pending,         (* The event, or the send, the loop is suspended on.    *)
  connections,     (* The generation holding each connection name.         *)
  scenarios,       (* The generation holding each scenario name.           *)
  nextGeneration,
  owner,           (* The name each generation was started for.            *)
  config,          (* What each connection was started with.               *)
  pc,              (* Where each task is suspended.                        *)
  aborted,         (* Tasks whose handle the loop aborted.                 *)
  connected,       (* The flag a send is checked against.                  *)
  failures,        (* Consecutive failed attempts.                         *)
  outgoing,        (* Sends queued to each task, each with the link it was *)
                   (* accepted for.                                        *)
  links            (* How often each connection's link came up.            *)

channels == <<commands, events, finished, ended, closed>>
loopVars == <<loop, pending, connections, scenarios, nextGeneration>>
birth    == <<owner, config>>
linkVars == <<connected, failures, outgoing, links>>
taskVars == <<birth, pc, aborted, linkVars>>
vars     == <<channels, loopVars, taskVars>>

NoEvent == [kind |-> "Error", name |-> None, generation |-> None]

Saying(kind, name, g) == [kind |-> kind, name |-> name, generation |-> g]

Init ==
  /\ commands = <<>> /\ events = <<>> /\ finished = <<>> /\ ended = <<>>
  /\ closed = FALSE
  /\ loop = "idle" /\ pending = NoEvent
  /\ connections = [id \in Ids |-> None]
  /\ scenarios = [s \in Scenarios |-> None]
  /\ nextGeneration = 0
  /\ owner = [g \in Generations |-> None]
  /\ config = [g \in Generations |-> None]
  /\ pc = [g \in Generations |-> "unborn"]
  /\ aborted = [g \in Generations |-> FALSE]
  /\ connected = [g \in Generations |-> FALSE]
  /\ failures = [g \in Generations |-> 0]
  /\ outgoing = [g \in Generations |-> <<>>]
  /\ links = [g \in Generations |-> 0]

-----------------------------------------------------------------------------
(* The channels.  A send to a receiver the front end dropped fails at once *)
(* and the code ignores it; otherwise it waits for room.                   *)

Emit(e) ==
  \/ closed /\ UNCHANGED events
  \/ /\ ~closed /\ Len(events) < EventCapacity
     /\ events' = Append(events, e)

Post(c) ==
  /\ Len(commands) < CommandCapacity
  /\ commands' = Append(commands, c)

(* The front end: it offers a command without waiting, drains the events,  *)
(* and may go away at any time, dropping both of its ends.                 *)
Issue(c) ==
  /\ ~closed /\ c \in Offered
  /\ c.op \in {"Connect", "Start"} => nextGeneration + Len(commands) < MaxGenerations
  /\ Post(c)
  /\ UNCHANGED <<events, finished, ended, closed, loopVars, taskVars>>

Receive ==
  /\ ~closed /\ events # <<>>
  /\ events' = Tail(events)
  /\ UNCHANGED <<commands, finished, ended, closed, loopVars, taskVars>>

Quit ==
  /\ MayQuit /\ ~closed
  /\ closed' = TRUE
  /\ events' = <<>>
  /\ UNCHANGED <<commands, finished, ended, loopVars, taskVars>>

-----------------------------------------------------------------------------
(* The loop.  A handler runs to its first await; Announce and Enqueue are  *)
(* those awaits.                                                           *)

Suspend(kind, name, g) ==
  /\ loop' = "emitting"
  /\ pending' = Saying(kind, name, g)

Handling(op) ==
  /\ loop = "idle" /\ commands # <<>>
  /\ Head(commands).op = op
  /\ commands' = Tail(commands)

(* A fresh task for name, suspended before its first step. *)
Begin(name, cfg, start) ==
  /\ owner' = [owner EXCEPT ![nextGeneration] = name]
  /\ config' = [config EXCEPT ![nextGeneration] = cfg]
  /\ pc' = [pc EXCEPT ![nextGeneration] = start]

SpawnUncounted(name, cfg, start) ==   \* Mutant: the number is handed out again.
  Begin(name, cfg, start) /\ UNCHANGED nextGeneration

Spawn(name, cfg, start) ==
  Begin(name, cfg, start) /\ nextGeneration' = nextGeneration + 1

VacateLater(slots, name) == slots   \* Mutant: the name is left to the notice.

Vacate(slots, name) == [slots EXCEPT ![name] = None]

HandleConnect ==
  /\ Handling("Connect")
  /\ LET id == Head(commands).name IN
       \/ /\ connections[id] # None
          /\ Suspend("Error", id, None)
          /\ UNCHANGED <<connections, nextGeneration, birth, pc>>
       \/ /\ connections[id] = None
          /\ Spawn(id, Head(commands).config, "connecting")
          /\ connections' = [connections EXCEPT ![id] = nextGeneration]
          /\ UNCHANGED <<loop, pending>>
  /\ UNCHANGED <<events, finished, ended, closed, scenarios, aborted, linkVars>>

HandleDisconnect ==
  /\ Handling("Disconnect")
  /\ LET id == Head(commands).name IN
       \/ /\ connections[id] = None
          /\ Suspend("Error", id, None)
          /\ UNCHANGED <<connections, aborted>>
       \/ /\ connections[id] # None
          /\ connections' = Vacate(connections, id)
          /\ aborted' = [aborted EXCEPT ![connections[id]] = TRUE]
          /\ Suspend("Disconnected", id, connections[id])
  /\ UNCHANGED <<events, finished, ended, closed, scenarios, nextGeneration,
                 birth, pc, linkVars>>

(* The send is refused unless the link is up; then it waits for room.      *)
HandleSendRaw ==
  /\ Handling("SendRaw")
  /\ LET id == Head(commands).name
         g  == connections[id]
         up == g # None /\ connected[g]
     IN  \/ /\ up
            /\ loop' = "queueing"
            /\ pending' = Saying("Sent", id, g)
         \/ /\ ~up
            /\ Suspend("Error", id, None)
  /\ UNCHANGED <<events, finished, ended, closed, connections, scenarios,
                 nextGeneration, taskVars>>

HandleStart ==
  /\ Handling("Start")
  /\ LET s == Head(commands).name IN
       \/ /\ scenarios[s] # None
          /\ Suspend("Error", s, None)
          /\ UNCHANGED <<scenarios, nextGeneration, birth, pc>>
       \/ /\ scenarios[s] = None
          /\ Spawn(s, None, "pass")
          /\ scenarios' = [scenarios EXCEPT ![s] = nextGeneration]
          /\ UNCHANGED <<loop, pending>>
  /\ UNCHANGED <<events, finished, ended, closed, connections, aborted, linkVars>>

HandleStop ==
  /\ Handling("Stop")
  /\ LET s == Head(commands).name IN
       \/ /\ scenarios[s] = None
          /\ Suspend("Error", s, None)
          /\ UNCHANGED <<scenarios, aborted>>
       \/ /\ scenarios[s] # None
          /\ scenarios' = Vacate(scenarios, s)
          /\ aborted' = [aborted EXCEPT ![scenarios[s]] = TRUE]
          /\ Suspend("Finished", s, scenarios[s])
  /\ UNCHANGED <<events, finished, ended, closed, connections, nextGeneration,
                 birth, pc, linkVars>>

(* The value itself goes to the map the runner reads; it changes nothing   *)
(* the engine looks at.                                                    *)
HandleSetValue ==
  /\ Handling("SetValue")
  /\ \/ /\ scenarios[Head(commands).name] = None
        /\ Suspend("Error", Head(commands).name, None)
     \/ /\ scenarios[Head(commands).name] # None
        /\ UNCHANGED <<loop, pending>>
  /\ UNCHANGED <<events, finished, ended, closed, connections, scenarios,
                 nextGeneration, taskVars>>

HandleCommand ==
  \/ HandleConnect \/ HandleDisconnect \/ HandleSendRaw
  \/ HandleStart \/ HandleStop \/ HandleSetValue

CurrentByName(slots, notice) == slots[notice.name] # None   \* Mutant.

CurrentLate(slots, notice) == slots[notice.name] = notice.generation + 1   \* Mutant.

(* Whether a notice comes from the task that holds the name now. *)
Current(slots, notice) == slots[notice.name] = notice.generation

(* A task's notice frees its name, then the loop announces it; a notice    *)
(* from a generation that no longer holds the name is dropped.             *)
FinishedNotice ==
  /\ loop = "idle" /\ finished # <<>>
  /\ finished' = Tail(finished)
  /\ LET notice == Head(finished) IN
       \/ /\ Current(connections, notice)
          /\ connections' = Vacate(connections, notice.name)
          /\ Suspend("Disconnected", notice.name, notice.generation)
       \/ /\ ~Current(connections, notice)
          /\ UNCHANGED <<connections, loop, pending>>
  /\ UNCHANGED <<commands, events, ended, closed, scenarios, nextGeneration, taskVars>>

EndedNotice ==
  /\ loop = "idle" /\ ended # <<>>
  /\ ended' = Tail(ended)
  /\ LET notice == Head(ended) IN
       \/ /\ Current(scenarios, notice)
          /\ scenarios' = Vacate(scenarios, notice.name)
          /\ Suspend("Finished", notice.name, notice.generation)
       \/ /\ ~Current(scenarios, notice)
          /\ UNCHANGED <<scenarios, loop, pending>>
  /\ UNCHANGED <<commands, events, finished, closed, connections, nextGeneration, taskVars>>

(* The loop's own event goes out. *)
Announce ==
  /\ loop = "emitting"
  /\ Emit(pending)
  /\ loop' = "idle" /\ pending' = NoEvent
  /\ UNCHANGED <<commands, finished, ended, closed, connections, scenarios,
                 nextGeneration, taskVars>>

QueueClosed(g) == pc[g] = "done"

EnqueueWhenRoom ==   \* Mutant: a task that is gone is not noticed.
  /\ loop = "queueing"
  /\ LET g == pending.generation IN
       /\ ~QueueClosed(g)
       /\ Len(outgoing[g]) < OutgoingCapacity
       /\ outgoing' = [outgoing EXCEPT ![g] = Append(@, links[g])]
  /\ loop' = "idle" /\ pending' = NoEvent
  /\ UNCHANGED <<channels, connections, scenarios, nextGeneration,
                 birth, pc, aborted, connected, failures, links>>

(* The send the loop is suspended on: queued once there is room, refused   *)
(* if the task is gone.  Until one or the other, the loop does nothing.    *)
Enqueue ==
  /\ loop = "queueing"
  /\ LET g == pending.generation IN
       \/ /\ ~QueueClosed(g)
          /\ Len(outgoing[g]) < OutgoingCapacity
          /\ outgoing' = [outgoing EXCEPT ![g] = Append(@, links[g])]
          /\ loop' = "idle" /\ pending' = NoEvent
       \/ /\ QueueClosed(g)
          /\ Suspend("Error", pending.name, None)
          /\ UNCHANGED outgoing
  /\ UNCHANGED <<channels, connections, scenarios, nextGeneration,
                 birth, pc, aborted, connected, failures, links>>

(* commands.recv() yields None once no sender is left: neither the front   *)
(* end nor a scenario in the middle of posting.  The runtime goes with it. *)
Shutdown ==
  /\ loop = "idle" /\ closed /\ commands = <<>>
  /\ \A g \in Generations : pc[g] # "posting"
  /\ loop' = "stopped"
  /\ aborted' = [g \in Generations |-> aborted[g] \/ pc[g] \notin {"unborn", "done"}]
  /\ UNCHANGED <<channels, pending, connections, scenarios, nextGeneration,
                 birth, pc, linkVars>>

-----------------------------------------------------------------------------
(* A connection task.  What it says at each await of events.send, and      *)
(* where it goes on from there.                                            *)

Speaks ==
  [connecting |-> "Connecting", connected |-> "Connected", listening |-> "Listening",
   sent |-> "Sent", received |-> "Received",
   failed |-> "Error", hungUp |-> "Error", refused |-> "Error", step |-> "Step"]

Resumes ==
  [connecting |-> "opening", connected |-> "pump", listening |-> "accepting",
   sent |-> "pump", received |-> "pump",
   failed |-> "down", hungUp |-> "lost", refused |-> "pump", step |-> "acting"]

Transport(g) == config[g].transport
CarriesStream(g) == Transport(g) \in {"client", "server"}

Goes(g, from, to) ==
  /\ pc[g] = from
  /\ pc' = [pc EXCEPT ![g] = to]

Speaking == {"connecting", "connected", "listening", "sent", "received",
             "failed", "hungUp", "refused", "step"}

Speak(g) ==
  /\ pc[g] \in Speaking
  /\ Emit(Saying(Speaks[pc[g]], owner[g], g))
  /\ Goes(g, pc[g], Resumes[pc[g]])
  /\ UNCHANGED <<commands, finished, ended, closed, loopVars, birth, aborted, linkVars>>

(* The link comes up: the flag is set before anything is announced.        *)
LinkUp(g) ==
  /\ links[g] < MaxLinks
  /\ links' = [links EXCEPT ![g] = @ + 1]
  /\ connected' = [connected EXCEPT ![g] = TRUE]

(* open_transport succeeds, which clears the failures.  A server is only   *)
(* bound by that and goes on to listen.                                    *)
Opened(g) ==
  /\ failures' = [failures EXCEPT ![g] = 0]
  /\ \/ /\ Goes(g, "opening", "connected")
        /\ Transport(g) # "server"
        /\ LinkUp(g)
     \/ /\ Goes(g, "opening", "listening")
        /\ Transport(g) = "server"
        /\ UNCHANGED <<connected, links>>
  /\ UNCHANGED <<channels, loopVars, birth, aborted, outgoing>>

OpenFails(g) ==
  /\ Goes(g, "opening", "failed")
  /\ UNCHANGED <<channels, loopVars, birth, aborted, linkVars>>

(* relisten: a server gets its next peer, or the accept fails.             *)
Accepted(g) ==
  /\ Goes(g, "accepting", "connected")
  /\ Transport(g) = "server"
  /\ LinkUp(g)
  /\ UNCHANGED <<channels, loopVars, birth, aborted, failures, outgoing>>

AcceptFails(g) ==
  /\ Goes(g, "accepting", "failed")
  /\ Transport(g) = "server"
  /\ UNCHANGED <<channels, loopVars, birth, aborted, linkVars>>

(* A client that lost its peer has nothing to accept on.                   *)
NothingToAccept(g) ==
  /\ Goes(g, "accepting", "down")
  /\ Transport(g) # "server"
  /\ UNCHANGED <<channels, loopVars, birth, aborted, linkVars>>

(* The two branches of the pump.  A queued send is taken and written...    *)
Take(g) ==
  /\ Goes(g, "pump", "writing")
  /\ outgoing[g] # <<>>
  /\ outgoing' = [outgoing EXCEPT ![g] = Tail(@)]
  /\ UNCHANGED <<channels, loopVars, birth, aborted, connected, failures, links>>

Written(g) ==
  /\ Goes(g, "writing", "sent")
  /\ UNCHANGED <<channels, loopVars, birth, aborted, linkVars>>

WriteFails(g) ==
  /\ \/ Goes(g, "writing", "refused") /\ Transport(g) = "udp"
     \/ Goes(g, "writing", "failed") /\ Transport(g) # "udp"
  /\ UNCHANGED <<channels, loopVars, birth, aborted, linkVars>>

(* ... or the transport yields a frame, or an error, which costs a stream  *)
(* its peer and ends anything else.                                        *)
Heard(g) ==
  /\ Goes(g, "pump", "received")
  /\ UNCHANGED <<channels, loopVars, birth, aborted, linkVars>>

ReceiveFails(g) ==
  /\ \/ Goes(g, "pump", "hungUp") /\ CarriesStream(g)
     \/ Goes(g, "pump", "failed") /\ ~CarriesStream(g)
  /\ UNCHANGED <<channels, loopVars, birth, aborted, linkVars>>

FlagLeftUp(g) == UNCHANGED connected   \* Mutant.

FlagDown(g) == connected' = [connected EXCEPT ![g] = FALSE]

(* The handle is dropped, with its sender, once a disconnect is announced: *)
(* a task the abort has not stopped yet may see its queue closed.          *)
HandleDropped(g) ==
  /\ aborted[g]
  /\ ~(loop = "emitting" /\ pending.generation = g)

LetGo(g) ==
  /\ HandleDropped(g)
  /\ outgoing[g] = <<>>
  /\ Goes(g, "pump", "notifying")
  /\ FlagDown(g)
  /\ UNCHANGED <<channels, loopVars, birth, aborted, failures, outgoing, links>>

PeerLost(g) ==
  /\ Goes(g, "lost", "listening")
  /\ FlagDown(g)
  /\ UNCHANGED <<channels, loopVars, birth, aborted, failures, outgoing, links>>

Allows(g) ==
  /\ config[g].retry
  /\ config[g].attempts # None => failures[g] < config[g].attempts

LinkEnds(g) ==
  /\ FlagDown(g)
  /\ \/ Goes(g, "down", "backoff") /\ Allows(g)
     \/ Goes(g, "down", "notifying") /\ ~Allows(g)
  /\ UNCHANGED <<channels, loopVars, birth, aborted, failures, outgoing, links>>

Unsaturated(n) == n + 1   \* Mutant.

Uncounted(n) == n   \* Mutant.

OneMore(n) == IF n < FailureCeiling THEN n + 1 ELSE n

(* A sleeping task is parked, so an abort never lets it wake.              *)
Wake(g) ==
  /\ ~aborted[g]
  /\ Goes(g, "backoff", "connecting")
  /\ failures' = [failures EXCEPT ![g] = OneMore(@)]
  /\ UNCHANGED <<channels, loopVars, birth, aborted, connected, outgoing, links>>

-----------------------------------------------------------------------------
(* A scenario task, as far as the engine sees it: steps that are announced *)
(* and may post sends, waits in between, and an end at any step.           *)

NextStep(g) ==
  /\ Goes(g, "pass", "step")
  /\ UNCHANGED <<channels, loopVars, birth, aborted, linkVars>>

StepDone(g) ==
  /\ Goes(g, "acting", "pass")
  /\ UNCHANGED <<channels, loopVars, birth, aborted, linkVars>>

SenderKept == TRUE   \* Mutant: a strong handle.

(* The weak handle upgrades while somebody else still holds a sender.      *)
SenderAlive == ~closed \/ \E g \in Generations : pc[g] = "posting"

Upgrade(g) ==
  /\ \/ SenderAlive /\ Goes(g, "acting", "posting")
     \/ ~SenderAlive /\ Goes(g, "acting", "notifying")
  /\ UNCHANGED <<channels, loopVars, birth, aborted, linkVars>>

PostSend(g) ==
  /\ Goes(g, "posting", "acting")
  /\ loop # "stopped"
  /\ \E id \in Ids : Post([op |-> "SendRaw", name |-> id, config |-> None])
  /\ UNCHANGED <<events, finished, ended, closed, loopVars, birth, aborted, linkVars>>

ScenarioEnds(g) ==
  /\ Goes(g, pc[g], "notifying")
  /\ pc[g] \in {"pass", "acting"}
  /\ UNCHANGED <<channels, loopVars, birth, aborted, linkVars>>

-----------------------------------------------------------------------------
GoesOn(g) ==   \* Mutant: the task loops instead of ending.
  /\ Goes(g, pc[g], IF owner[g] \in Ids THEN "connecting" ELSE "pass")
  /\ UNCHANGED linkVars

(* A task that is gone takes its end of the queue and its counts with it.  *)
Gone(g) ==
  /\ Goes(g, pc[g], "done")
  /\ connected' = [connected EXCEPT ![g] = FALSE]
  /\ failures' = [failures EXCEPT ![g] = 0]
  /\ outgoing' = [outgoing EXCEPT ![g] = <<>>]
  /\ links' = [links EXCEPT ![g] = 0]

(* A task that ran to its end posts a notice to the loop.                  *)
Notify(g) ==
  /\ pc[g] = "notifying"
  /\ Gone(g)
  /\ LET notice == [name |-> owner[g], generation |-> g] IN
       \/ /\ owner[g] \in Ids
          /\ Len(finished) < NoticeCapacity
          /\ finished' = Append(finished, notice)
          /\ UNCHANGED ended
       \/ /\ owner[g] \in Scenarios
          /\ Len(ended) < NoticeCapacity
          /\ ended' = Append(ended, notice)
          /\ UNCHANGED finished
  /\ UNCHANGED <<commands, events, closed, loopVars, birth, aborted>>

(* The runtime drops an aborted task at an await, whichever it is at.      *)
Reap(g) ==
  /\ aborted[g]
  /\ pc[g] # "done"
  /\ Gone(g)
  /\ UNCHANGED <<channels, loopVars, birth, aborted>>

Loop ==
  HandleCommand \/ FinishedNotice \/ EndedNotice \/ Announce \/ Enqueue \/ Shutdown

LinkStep(g) ==
  \/ Opened(g) \/ OpenFails(g) \/ Accepted(g) \/ AcceptFails(g) \/ NothingToAccept(g)
  \/ Take(g) \/ Written(g) \/ WriteFails(g) \/ Heard(g) \/ ReceiveFails(g)
  \/ LetGo(g) \/ PeerLost(g) \/ LinkEnds(g) \/ Wake(g)

ScenarioStep(g) ==
  NextStep(g) \/ StepDone(g) \/ Upgrade(g) \/ PostSend(g) \/ ScenarioEnds(g)

Task(g) == Speak(g) \/ LinkStep(g) \/ ScenarioStep(g) \/ Notify(g) \/ Reap(g)

FrontEnd == (\E c \in Offered : Issue(c)) \/ Receive \/ Quit

(* Nothing is left to run: the program is over. *)
Over ==
  /\ loop = "stopped"
  /\ \A g \in Generations : pc[g] \in {"unborn", "done"}
  /\ UNCHANGED vars

Next == Loop \/ FrontEnd \/ (\E g \in Generations : Task(g)) \/ Over

Spec == Init /\ [][Next]_vars

(***************************************************************************)
(* Fairness.  The runtime runs every task that can run; the select of the  *)
(* loop and of the pump picks at random among its ready branches, so none  *)
(* is passed over for ever; a channel serves blocked senders in order; an  *)
(* attempt to open ends.  Of the world outside it assumes that the front   *)
(* end keeps draining and that a peer keeps reading, so that a write ends; *)
(* not that a peer ever calls, speaks or hangs up.                         *)
(***************************************************************************)
LoopFairness ==
  /\ SF_vars(Announce) /\ WF_vars(Enqueue) /\ WF_vars(Shutdown)
  /\ SF_vars(HandleCommand) /\ SF_vars(FinishedNotice) /\ SF_vars(EndedNotice)

LinkFairness(g) ==
  /\ WF_vars(Opened(g) \/ OpenFails(g)) /\ WF_vars(NothingToAccept(g))
  /\ SF_vars(Take(g)) /\ WF_vars(Written(g) \/ WriteFails(g))
  /\ WF_vars(PeerLost(g)) /\ WF_vars(LinkEnds(g)) /\ WF_vars(Wake(g))

ScenarioFairness(g) ==
  SF_vars(PostSend(g)) /\ WF_vars(Upgrade(g) \/ StepDone(g) \/ ScenarioEnds(g))

FairSpec ==
  /\ Spec /\ LoopFairness /\ WF_vars(Receive)
  /\ \A g \in Generations :
       /\ LinkFairness(g) /\ ScenarioFairness(g)
       /\ SF_vars(Speak(g)) /\ SF_vars(Notify(g)) /\ WF_vars(Reap(g))
=============================================================================
