------------------------------- MODULE Control ------------------------------
(***************************************************************************)
(* A run with nothing drawn (headless.rs) and the control socket a script  *)
(* steers it through (control.rs): the main thread that loads, connects,   *)
(* starts, opens the socket and then watches the events; the threads that  *)
(* serve one client each; and, as far as these two see of them, the loop   *)
(* that handles commands in the order they were posted, the task of the    *)
(* scenario and the task of each link, which may lose its peer and come    *)
(* back, its queue kept, or be given up.                                   *)
(*                                                                         *)
(* Of what a frame is made of only what may stop it is kept: a live value  *)
(* that one of its fields cannot hold.                                     *)
(***************************************************************************)
EXTENDS Naturals, Sequences, FiniteSets

CONSTANTS
  Clients,           (* The scripts connected to the socket.               *)
  Fields,            (* Names a request may give.                          *)
  Kinds,             (* Of each: "plain", "bits", "counted", "undeclared". *)
  Numbers,           (* Live values a field holds.                         *)
  Wrong,             (* One it does not.                                   *)
  Steps,             (* What each step of the scenario does.               *)
  Requests,          (* What each client may ask to be set.                *)
  Autoconnect,       (* How many connections are opened at the start.      *)
  Times,             (* How many passes the scenario makes.                *)
  CommandCapacity, EventCapacity, OutgoingCapacity,
  MaxRequests,       (* Bound: requests of one client.                     *)
  MaxHeard,          (* Bound: frames the links hear.                      *)
  MaxFalls,          (* Bound: times a link fails to open or is lost.      *)
  None

Declared == {f \in Fields : Kinds[f] # "undeclared"}
Live == Numbers \cup {Wrong}
Posts == [step : Nat, values : UNION {[S -> Live] : S \in SUBSET Fields}]

ASSUME ControlAssumption ==
  /\ Kinds \in [Fields -> {"plain", "bits", "counted", "undeclared"}]
  /\ Steps \in Seq({"send", "wait"}) /\ Steps # <<>>
  /\ Requests \in [Clients -> SUBSET Posts]
  /\ {Autoconnect, MaxRequests, MaxHeard, MaxFalls} \subseteq Nat
  /\ {Times, CommandCapacity, EventCapacity, OutgoingCapacity} \subseteq Nat \ {0}
  /\ None \notin Live \cup Posts

VARIABLES
  main,        (* What the main thread is at.                              *)
  code,        (* What the process exits with.                             *)
  offered,     (* The connections it has offered to the loop so far.       *)
  refused,     (* Whether the full channel has refused the start.          *)
  commands, events,
  saying,      (* What the loop has to say before it takes anything else.  *)
  held,        (* Whether it waits for room in the queue of the target.    *)
  known,       (* "unknown", "known" or "freed": the scenario to the loop. *)
  overrides,   (* The live values, by step and field.                      *)
  task, step, pass, outcome,
  link,        (* What each connection's task is at.                       *)
  queued,      (* How many frames the queue of the target holds.           *)
  falls,       (* How often a link has failed to open or was lost.         *)
  status,      (* What the watch has made of it.                           *)
  asking,      (* What each client waits for, or None.                     *)
  todo,        (* The fields its thread has yet to post.                   *)
  requests,    (* How many it has made.                                    *)
  heard,       (* How many frames the links have heard.                    *)
  lastPosted   (* History: the live value posted last, by step and field.  *)

starting == <<offered, refused>>
mainVars == <<main, code, starting, status>>
channels == <<commands, events>>
loopVars == <<saying, held, known, overrides>>
taskVars == <<task, step, pass, outcome>>
linkVars == <<link, queued, falls, heard>>
clientVars == <<asking, todo, requests, lastPosted>>
vars == <<mainVars, channels, loopVars, taskVars, linkVars, clientVars>>

Slots == (DOMAIN Steps) \X Declared
Links == 1 .. Autoconnect
Target == 1                             (* The scenario sends on this one. *)

Init ==
  /\ main = "loading" /\ code = None /\ offered = 0 /\ refused = FALSE
  /\ commands = <<>> /\ events = <<>> /\ saying = <<>>
  /\ held = FALSE /\ known = "unknown"
  /\ overrides = [s \in Slots |-> None]
  /\ task = "none" /\ step = 1 /\ pass = 0 /\ outcome = None
  /\ link = [l \in Links |-> "none"] /\ queued = 0
  /\ falls = 0 /\ heard = 0
  /\ status = "running"
  /\ asking = [c \in Clients |-> None] /\ todo = [c \in Clients |-> {}]
  /\ requests = [c \in Clients |-> 0]
  /\ lastPosted = [s \in Slots |-> None]

RoomForCommand == Len(commands) < CommandCapacity
RoomForEvent == Len(events) < EventCapacity
Post(command) == RoomForCommand /\ commands' = Append(commands, command)
Say(event) == RoomForEvent /\ events' = Append(events, event)

(* Nothing of the process outlives it. *)
Alive == main # "exited"
(* Mutant: the socket is open before the start is queued.                  *)
ServingEarly == main \in {"connecting", "opening", "watching"}
(* Clients are let in once the start is queued. *)
Serving == main = "watching"

-----------------------------------------------------------------------------
(* The main thread. *)

Exit(with) == main' = "exited" /\ code' = with

(* No project given, one that cannot be read or applied, no such scenario. *)
Load ==
  /\ main = "loading"
  /\ Exit(1) \/ (main' = "connecting" /\ UNCHANGED code)
  /\ UNCHANGED <<starting, status, channels, loopVars, taskVars, linkVars, clientVars>>

(* Commands of the main thread are offered, never waited with. *)
Offer(command) ==
  IF RoomForCommand THEN commands' = Append(commands, command) ELSE UNCHANGED commands

OfferConnect ==
  /\ main = "connecting" /\ offered < Autoconnect
  /\ offered' = offered + 1
  /\ Offer([op |-> "connect", link |-> offered'])
  /\ UNCHANGED <<main, code, refused, status, events, loopVars, taskVars, linkVars, clientVars>>

(* A frame or a connection the project does not have ends it here. *)
OfferStart ==
  /\ main = "connecting" /\ offered = Autoconnect
  /\ \/ Exit(1) /\ UNCHANGED <<refused, commands>>
     \/ /\ main' = "opening" /\ UNCHANGED code
        /\ Offer([op |-> "start"])
        /\ refused' = ~RoomForCommand
  /\ UNCHANGED <<offered, status, events, loopVars, taskVars, linkVars, clientVars>>

OpenSocket ==
  /\ main = "opening"
  /\ Exit(1) \/ (main' = "watching" /\ UNCHANGED code)
  /\ UNCHANGED <<starting, status, channels, loopVars, taskVars, linkVars, clientVars>>

(* Mutant: the first error is the last thing read.                         *)
WatchingUntilError == main = "watching" /\ status # "error"
(* An error is told and the watch goes on. *)
Watching == main = "watching"

StatusAfter(e) ==
  CASE e.kind = "error" -> "error"
    [] e.kind = "step" -> "running"
    [] e.kind = "finished" -> e.outcome
    [] OTHER -> status

Watch ==
  /\ Watching /\ events # <<>>
  /\ LET e == Head(events) IN
       /\ status' = StatusAfter(e)
       /\ IF e.kind = "finished"
            THEN Exit(IF e.outcome = "completed" THEN 0 ELSE 1)
            ELSE UNCHANGED <<main, code>>
  /\ events' = Tail(events)
  /\ UNCHANGED <<starting, commands, loopVars, taskVars, linkVars, clientVars>>

-----------------------------------------------------------------------------
(* The loop. *)

Failing(why) == [kind |-> "error", why |-> why]

ConnectHandled(c) ==
  /\ link' = [link EXCEPT ![c.link] = "opening"]
  /\ UNCHANGED <<loopVars, task>>

StartHandled ==
  /\ known' = "known" /\ task' = "announcing"
  /\ UNCHANGED <<saying, held, overrides, link>>

Overridden(c) == [overrides EXCEPT ![<<c.step, c.field>>] = c.value]

SetHandled(c) ==
  /\ IF known = "known"
       THEN overrides' = Overridden(c) /\ UNCHANGED saying
       ELSE saying' = <<Failing("no such scenario")>> /\ UNCHANGED overrides
  /\ UNCHANGED <<held, known, task, link>>

IsUp(l) == link[l] \in {"ready", "up", "writing"}

(* A link that is up is sent to once there is room: the loop waits for it. *)
SendHandled ==
  /\ \/ IsUp(Target) /\ held' = TRUE /\ UNCHANGED saying
     \/ ~IsUp(Target) /\ saying' = <<Failing("not up")>> /\ UNCHANGED held
  /\ UNCHANGED <<known, overrides, task, link>>

(* The loop takes something up only when it has said all it had to say and *)
(* waits for nothing.                                                      *)
Idle == Alive /\ saying = <<>> /\ ~held

HandleCommand ==
  /\ Idle /\ commands # <<>>
  /\ LET c == Head(commands) IN
       CASE c.op = "connect" -> ConnectHandled(c)
         [] c.op = "start" -> StartHandled
         [] c.op = "set" -> SetHandled(c)
         [] c.op = "send" -> SendHandled
  /\ commands' = Tail(commands)
  /\ UNCHANGED <<mainVars, events, step, pass, outcome, queued, falls, heard, clientVars>>

EnqueueOnceUp ==   \* Mutant: a task that is gone is not noticed.
  /\ Alive /\ held /\ held' = FALSE
  /\ link[Target] # "gone" /\ queued < OutgoingCapacity
  /\ queued' = queued + 1 /\ UNCHANGED saying
  /\ UNCHANGED <<mainVars, channels, known, overrides, taskVars, link, falls, heard, clientVars>>

(* The send the loop is held by: queued once there is room, however long   *)
(* the link is away, refused if its task has ended.                        *)
Enqueue ==
  /\ Alive /\ held /\ held' = FALSE
  /\ \/ /\ link[Target] # "gone" /\ queued < OutgoingCapacity
        /\ queued' = queued + 1 /\ UNCHANGED saying
     \/ /\ link[Target] = "gone"
        /\ saying' = <<Failing("not up")>> /\ UNCHANGED queued
  /\ UNCHANGED <<mainVars, channels, known, overrides, taskVars, link, falls, heard, clientVars>>

(* The end of a link reaches it beside the commands. *)
HandleFinished(l) ==
  /\ Idle /\ link[l] = "gone"
  /\ link' = [link EXCEPT ![l] = "none"]
  /\ saying' = <<[kind |-> "connection"]>>
  /\ UNCHANGED <<mainVars, channels, held, known, overrides, taskVars, queued, falls, heard,
                 clientVars>>

(* The end of the scenario reaches the loop beside the commands. *)
HandleEnded ==
  /\ Idle /\ task = "over" /\ known = "known"
  /\ known' = "freed"
  /\ saying' = <<[kind |-> "finished", outcome |-> outcome]>>
  /\ UNCHANGED <<mainVars, channels, held, overrides, taskVars, linkVars, clientVars>>

Announce ==
  /\ Alive /\ saying # <<>>
  /\ Say(Head(saying)) /\ saying' = Tail(saying)
  /\ UNCHANGED <<mainVars, commands, held, known, overrides, taskVars, linkVars, clientVars>>

-----------------------------------------------------------------------------
(* The task of the scenario. *)

Ends(how) == task' = "over" /\ outcome' = how

StepDone ==
  /\ step' = IF step = Len(Steps) THEN 1 ELSE step + 1
  /\ pass' = IF step = Len(Steps) THEN pass + 1 ELSE pass
  /\ IF pass' = Times THEN Ends("completed") ELSE task' = "announcing" /\ UNCHANGED outcome

AnnounceStep ==
  /\ Alive /\ task = "announcing"
  /\ Say([kind |-> "step", step |-> step, pass |-> pass])
  /\ task' = "acting"
  /\ UNCHANGED <<mainVars, commands, loopVars, step, pass, outcome, linkVars, clientVars>>

(* What the step's frame is given, read under the lock.                    *)
Merged == [f \in Declared |-> overrides[<<step, f>>]]

(* A value the field cannot hold ends the run, a counted field included.   *)
Encode ==
  /\ Alive /\ task = "acting" /\ Steps[step] = "send"
  /\ IF \E f \in Declared : Merged[f] = Wrong
       THEN Ends("failed")
       ELSE task' = "posting" /\ UNCHANGED outcome
  /\ UNCHANGED <<mainVars, channels, loopVars, step, pass, linkVars, clientVars>>

Wait ==
  /\ Alive /\ task = "acting" /\ Steps[step] = "wait"
  /\ StepDone
  /\ UNCHANGED <<mainVars, channels, loopVars, linkVars, clientVars>>

PostFrame ==
  /\ Alive /\ task = "posting"
  /\ Post([op |-> "send"])
  /\ StepDone
  /\ UNCHANGED <<mainVars, events, loopVars, linkVars, clientVars>>

-----------------------------------------------------------------------------
(* The task of a link. *)

LinkGoes(l, from, to) ==
  /\ Alive /\ link[l] = from /\ link' = [link EXCEPT ![l] = to]
  /\ UNCHANGED <<mainVars, commands, loopVars, taskVars, heard, clientVars>>

LinkSays(l, from, to, event) ==
  /\ LinkGoes(l, from, to)
  /\ Say(event) /\ UNCHANGED queued

Connecting(l) == LinkSays(l, "opening", "trying", [kind |-> "connection"]) /\ UNCHANGED falls
Connected(l) == LinkSays(l, "ready", "up", [kind |-> "connection"]) /\ UNCHANGED falls

(* It counts as up before it has said so. *)
Opened(l) == LinkGoes(l, "trying", "ready") /\ UNCHANGED <<events, queued, falls>>

Fallen == falls < MaxFalls /\ falls' = falls + 1

OpenFails(l) == LinkSays(l, "trying", "away", Failing("cannot open")) /\ Fallen

(* The peer is gone, or a write fails: what is queued stays where it is.   *)
Lost(l) ==
  /\ \E from \in {"up", "writing"} : LinkSays(l, from, "away", Failing("lost"))
  /\ Fallen

Retried(l) == LinkGoes(l, "away", "opening") /\ UNCHANGED <<events, queued, falls>>

(* No policy, or one that allows no more: the task ends, with its queue.   *)
GivenUp(l) ==
  /\ LinkGoes(l, "away", "gone")
  /\ queued' = IF l = Target THEN 0 ELSE queued
  /\ UNCHANGED <<events, falls>>

Take ==
  /\ queued > 0 /\ LinkGoes(Target, "up", "writing")
  /\ queued' = queued - 1 /\ UNCHANGED <<events, falls>>

Written == LinkSays(Target, "writing", "up", [kind |-> "sent"]) /\ UNCHANGED falls

Hear ==
  /\ Alive /\ link[Target] = "up" /\ heard < MaxHeard
  /\ Say([kind |-> "received"])
  /\ heard' = heard + 1
  /\ UNCHANGED <<mainVars, commands, loopVars, taskVars, link, queued, falls, clientVars>>

-----------------------------------------------------------------------------
(* The thread of a client: one request, one answer. *)

FieldsOf(r) == DOMAIN r.values

(* Only the numbers of a bit field are looked at before they are posted.   *)
Unfit(f, v) == Kinds[f] = "bits" /\ v = Wrong

Refused(r) ==
  \/ r.step \notin DOMAIN Steps
  \/ Steps[r.step] # "send"
  \/ \E f \in FieldsOf(r) : f \notin Declared \/ Unfit(f, r.values[f])

MayAsk(c) == Serving /\ asking[c] = None /\ requests[c] < MaxRequests
Counted(c) == requests' = [requests EXCEPT ![c] = @ + 1]

(* Every field of a request is checked before the first is posted. *)
AskToSet(c, r) ==
  /\ MayAsk(c) /\ Counted(c)
  /\ IF Refused(r) \/ FieldsOf(r) = {} THEN UNCHANGED <<asking, todo>>
     ELSE /\ asking' = [asking EXCEPT ![c] = r]
          /\ todo' = [todo EXCEPT ![c] = FieldsOf(r)]
  /\ UNCHANGED <<mainVars, channels, loopVars, taskVars, linkVars, lastPosted>>

(* In any order: the fields of a request are in a hash map.                *)
PostField(c, f) ==
  /\ Alive /\ asking[c] # None /\ f \in todo[c]
  /\ LET r == asking[c] IN
       /\ Post([op |-> "set", step |-> r.step, field |-> f, value |-> r.values[f]])
       /\ lastPosted' = [lastPosted EXCEPT ![<<r.step, f>>] = r.values[f]]
  /\ todo' = [todo EXCEPT ![c] = @ \ {f}]
  /\ asking' = IF todo'[c] = {} THEN [asking EXCEPT ![c] = None] ELSE asking
  /\ UNCHANGED <<mainVars, events, loopVars, taskVars, linkVars, requests>>

(* What it asks to be told is told at once, from what the watch has made.  *)
Read(c) ==
  /\ MayAsk(c) /\ Counted(c)
  /\ UNCHANGED <<mainVars, channels, loopVars, taskVars, linkVars, asking, todo, lastPosted>>

-----------------------------------------------------------------------------
Main == Load \/ OfferConnect \/ OfferStart \/ OpenSocket \/ Watch
Loop ==
  \/ HandleCommand \/ HandleEnded \/ Announce \/ Enqueue
  \/ \E l \in Links : HandleFinished(l)
Task == AnnounceStep \/ Encode \/ Wait \/ PostFrame
Runs(l) == Connecting(l) \/ Connected(l) \/ Retried(l) \/ GivenUp(l)
Link(l) == Runs(l) \/ Opened(l) \/ OpenFails(l) \/ Lost(l)
Client(c) == \E f \in Fields : PostField(c, f)

Next ==
  \/ Main \/ Loop \/ Task \/ Hear
  \/ Links # {} /\ (Take \/ Written)
  \/ \E l \in Links : Link(l)
  \/ \E c \in Clients :
       \/ Client(c) \/ Read(c)
       \/ \E r \in Requests[c] : AskToSet(c, r)

(* Threads and tasks run, and a write ends; nobody has to ask, no peer has *)
(* to answer a link, to send or to hang up.                                *)
Fairness ==
  /\ WF_vars(Main) /\ WF_vars(Loop) /\ WF_vars(Task)
  /\ WF_vars(Links # {} /\ (Take \/ Written))
  /\ \A l \in Links : WF_vars(Runs(l))
  /\ \A c \in Clients : WF_vars(Client(c))

Spec == Init /\ [][Next]_vars /\ Fairness

-----------------------------------------------------------------------------
(* What the main thread, the loop, the tasks and the clients hold. *)
TypeOK ==
  /\ main \in {"loading", "connecting", "opening", "watching", "exited"}
  /\ code \in {None, 0, 1} /\ offered \in 0 .. Autoconnect /\ refused \in BOOLEAN
  /\ Len(commands) <= CommandCapacity /\ Len(events) <= EventCapacity /\ Len(saying) <= 1
  /\ held \in BOOLEAN /\ known \in {"unknown", "known", "freed"}
  /\ overrides \in [Slots -> Live \cup {None}] /\ lastPosted \in [Slots -> Live \cup {None}]
  /\ task \in {"none", "announcing", "acting", "posting", "over"}
  /\ step \in DOMAIN Steps /\ pass \in 0 .. Times
  /\ link \in [Links -> {"none", "opening", "trying", "ready", "up", "writing", "away", "gone"}]
  /\ queued \in 0 .. OutgoingCapacity /\ falls \in 0 .. MaxFalls
  /\ \A c \in Clients : todo[c] \subseteq Declared /\ (todo[c] = {} <=> asking[c] = None)

Said == {saying[i] : i \in DOMAIN saying} \cup {events[i] : i \in DOMAIN events}

(* No value a client was told had been taken is dropped for want of a      *)
(* scenario before the run is over: whatever the interleaving, the start   *)
(* reached the loop first, unless the full channel refused it              *)
(* (headless.rs:75-79).                                                    *)
FirstOverrideCounts ==
  Failing("no such scenario") \in Said => known = "freed" \/ refused

(* Once the loop has caught up with the posts for a field, the run holds   *)
(* the value posted last, whichever client's thread posted it              *)
(* (control.rs:252, engine.rs:328-333).                                    *)
LastPostWins ==
  \A s \in Slots :
    known = "known" /\ (\A i \in DOMAIN commands :
                          commands[i].op = "set" => <<commands[i].step, commands[i].field>> # s)
      => overrides[s] = lastPosted[s]

(* Every variable has its type, and what a client was told is taken counts *)
(* (control.rs:217-313).                                                   *)
ValuesCount == TypeOK /\ FirstOverrideCounts /\ LastPostWins

(* The loop is held up for ever: it waits for room in the queue of a link  *)
(* that fell with the queue full, and whose task neither has a peer again  *)
(* nor ends (engine.rs:293).                                               *)
HeldUp ==
  <>[](held /\ queued = OutgoingCapacity /\ link[Target] \in {"away", "opening", "trying"})

(* Whatever a client asks, it is answered, though its thread waits for     *)
(* room in a channel the loop empties only while there is room in another  *)
(* that the main thread empties (control.rs:252, engine.rs:374), and the   *)
(* loop may wait for room in a third: unless it is held up for ever.       *)
EveryRequestAnswered ==
  HeldUp \/ \A c \in Clients : asking[c] # None ~> asking[c] = None \/ ~Alive

(* The process ends once its scenario has, unless the loop is held up for  *)
(* ever, or the start was refused: then nothing is left that could end it  *)
(* (headless.rs:82, 105-165).                                              *)
RunIsReported == HeldUp \/ <>(main = "exited" \/ refused)

(* docs/scenarios.md:24: connections marked autoconnect are opened first.  *)
(* No frame is refused while its connection is still being opened.         *)
OpenedFirst == Failing("not up") \in Said => link[Target] \notin {"opening", "trying"}
=============================================================================
