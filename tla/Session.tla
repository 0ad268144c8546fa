------------------------------ MODULE Session -------------------------------
(***************************************************************************)
(* The engine with a front end in charge of it: the rows of its connection *)
(* list and the scenarios it shows as running (state.rs), the commands its *)
(* buttons and keys give (app.rs, connections.rs), and the reading of the  *)
(* events (engine_handle.rs).  The front end acts on what it has read so   *)
(* far, while commands and events are still on their way.                  *)
(*                                                                         *)
(* Events are read one at a time.  The code reads all there are before the *)
(* user acts; what is left then is what had not arrived.                   *)
(***************************************************************************)
EXTENDS EngineProperties

CONSTANTS
  Projects,    (* The rows a project may bring: its connections to open.   *)
  MayRefuse    (* Bound: whether the command channel is ever found full.   *)

Statuses == {"Disconnected", "Connecting", "Listening", "Connected"}

ASSUME SessionAssumption ==
  /\ Projects \subseteq [Ids -> Configs \cup {None}]
  /\ MayRefuse \in BOOLEAN
  /\ None \notin Statuses

VARIABLES
  row,         (* The status each row shows, None where there is no row.   *)
  setting,     (* What each row was set up with.                           *)
  running,     (* The scenarios shown as running.                          *)
  buried,      (* History: the generations whose end has been read.        *)
  haunted      (* History: names last heard of from one of those.          *)

sessionVars == <<row, setting, running, buried, haunted>>

Up == Statuses \ {"Disconnected"}

SessionInit ==
  /\ Init
  /\ row = [id \in Ids |-> None] /\ setting = [id \in Ids |-> None]
  /\ running = {}
  /\ buried = {} /\ haunted = {}

-----------------------------------------------------------------------------
Say(op, name, c) == [op |-> op, name |-> name, config |-> c]

(* Commands are offered without waiting; one that finds the channel full   *)
(* is lost.                                                                *)
Tell(said) ==
  LET room == CommandCapacity - Len(commands) IN
    /\ ~closed
    /\ MayRefuse \/ Len(said) <= room
    /\ commands' = commands \o SubSeq(said, 1, IF Len(said) <= room THEN Len(said) ELSE room)
    /\ UNCHANGED <<events, finished, ended, closed, loopVars, taskVars>>
    /\ StartsAreBounded'

NotTold == ~closed /\ UNCHANGED vars

Shows(id, status) == row' = [row EXCEPT ![id] = status]

(* The form takes a name no row has. *)
Submit(id, c) ==
  /\ row[id] = None
  /\ Tell(<<Say("Connect", id, c)>>)
  /\ Shows(id, "Connecting") /\ setting' = [setting EXCEPT ![id] = c]
  /\ UNCHANGED <<running, buried, haunted>>

Reconnect(id) ==
  /\ row[id] = "Disconnected"
  /\ Tell(<<Say("Connect", id, setting[id])>>)
  /\ Shows(id, "Connecting")
  /\ UNCHANGED <<setting, running, buried, haunted>>

HangUp(id) ==
  /\ row[id] \in Up
  /\ Tell(<<Say("Disconnect", id, None)>>)
  /\ UNCHANGED sessionVars

RemovableAlways(id) == row[id] # None   \* Mutant.

(* Removal only reaches a link that is down. *)
Removable(id) == row[id] = "Disconnected"

Remove(id) ==
  /\ Removable(id)
  /\ NotTold
  /\ Shows(id, None) /\ setting' = [setting EXCEPT ![id] = None]
  /\ UNCHANGED <<running, buried, haunted>>

Play(s) ==
  /\ Tell(<<Say("Start", s, None)>>)
  /\ UNCHANGED sessionVars

Halt(s) ==
  /\ s \in running
  /\ Tell(<<Say("Stop", s, None)>>)
  /\ UNCHANGED sessionVars

-----------------------------------------------------------------------------
(* What an event changes. *)

IsStatus(e) == e.name \in Ids /\ e.kind \in Statuses

RowsAfter(e) ==
  IF IsStatus(e) /\ row[e.name] # None THEN [row EXCEPT ![e.name] = e.kind] ELSE row

RunningEver(e) ==   \* Mutant: an end does not take the scenario off the list.
  IF e.kind = "Step" THEN running \cup {e.name} ELSE running

RunningAfter(e) ==
  CASE e.kind = "Step" -> running \cup {e.name}
    [] e.kind = "Finished" -> running \ {e.name}
    [] OTHER -> running

(* Which names are haunted: by a generation whose end was read before.     *)
Haunting(e) ==
  IF IsStatus(e) \/ e.kind \in {"Step", "Finished"}
  THEN IF e.generation \in buried THEN haunted \cup {e.name} ELSE haunted \ {e.name}
  ELSE haunted

Read ==
  /\ Receive
  /\ LET e == Head(events) IN
       /\ row' = RowsAfter(e)
       /\ running' = RunningAfter(e)
       /\ haunted' = Haunting(e)
       /\ buried' = IF e.kind \in Ending THEN buried \cup {e.generation} ELSE buried
  /\ UNCHANGED setting

User ==
  \/ \E id \in Ids : (\E c \in Configs : Submit(id, c)) \/ Reconnect(id) \/ HangUp(id) \/ Remove(id)
  \/ \E s \in Scenarios : Play(s) \/ Halt(s)

Engines ==
  /\ Loop \/ (\E g \in Generations : Task(g)) \/ Quit \/ Over
  /\ UNCHANGED sessionVars

SessionNext == User \/ Read \/ Engines

sessionAll == <<vars, sessionVars>>

SessionSpec == SessionInit /\ [][SessionNext]_sessionAll

(* The terminal opens a project over whatever is on show: the rows are     *)
(* replaced, and those of the project that ask for it are connected.       *)
OpenProject(p) ==
  /\ LET ids == {id \in Ids : p[id] # None} IN
       \E order \in [1 .. Cardinality(ids) -> ids] :
         /\ \A i, j \in DOMAIN order : order[i] = order[j] => i = j
         /\ Tell([i \in DOMAIN order |-> Say("Connect", order[i], p[order[i]])])
  /\ row' = [id \in Ids |-> IF p[id] = None THEN None ELSE "Disconnected"]
  /\ setting' = p
  /\ UNCHANGED <<running, buried, haunted>>

SwitchSpec ==
  SessionInit /\ [][SessionNext \/ \E p \in Projects : OpenProject(p)]_sessionAll

-----------------------------------------------------------------------------
(* What the variables of the session hold. *)
SessionTypes ==
  /\ row \in [Ids -> Statuses \cup {None}]
  /\ setting \in [Ids -> Configs \cup {None}]
  /\ \A id \in Ids : row[id] # None <=> setting[id] # None
  /\ running \subseteq Scenarios
  /\ buried \subseteq Generations /\ haunted \subseteq Names

Queued(op, name) == \E i \in DOMAIN commands : commands[i].op = op /\ commands[i].name = name

(* No link is open, nor about to be opened, behind a row that says it is   *)
(* down, or behind none: "one still up has to be told to stop before it    *)
(* can be forgotten" (sim-tui/src/app.rs:2242).  So a reconnect is never   *)
(* refused because the name is still taken.                                *)
NothingOpenUnseen ==
  \A id \in Ids :
    row[id] \in {None, "Disconnected"} => connections[id] = None /\ ~Queued("Connect", id)

(* Every variable of the session has its type, and no link is up unseen    *)
(* (state.rs:77-104).                                                      *)
SessionInv == SessionTypes /\ NothingOpenUnseen

(* What is shown as up is held by the engine, has been asked for, or is    *)
(* about to be reported down; what is shown as running likewise.  The one  *)
(* exception is a task that speaks after its end was announced.            *)
ShownIsHeld == ~closed =>
  /\ \A id \in Ids : row[id] \in Up =>
       \/ connections[id] # None \/ Queued("Connect", id) \/ id \in haunted
       \/ \E e \in Announcements : e.kind = "Disconnected" /\ e.name = id
  /\ \A s \in running :
       \/ scenarios[s] # None \/ s \in haunted
       \/ \E e \in Announcements : e.kind = "Finished" /\ e.name = s

Settled ==
  /\ commands = <<>> /\ events = <<>> /\ finished = <<>> /\ ended = <<>>
  /\ loop = "idle" /\ \A g \in Generations : aborted[g] => pc[g] = "done"

-----------------------------------------------------------------------------
(* Claims of the documentation and comments the code does not keep.        *)

(* "Scenarios the engine is running" (state.rs:48): once everything has    *)
(* been said and read, one the engine has forgotten may still be listed,   *)
(* and a stop of it is refused.                                            *)
OnlyRunningListed == Settled => \A s \in running : scenarios[s] # None

(* "One still up has to be told to stop before it can be forgotten"        *)
(* (sim-tui/src/app.rs:2242): a link may be held by the engine for good    *)
(* although no row is left to close it from, once a project was opened     *)
(* over it.                                                                *)
NothingLeftBehind == Settled => \A id \in Ids : connections[id] # None => row[id] # None
=============================================================================
