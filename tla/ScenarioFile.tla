---------------------------- MODULE ScenarioFile ----------------------------
(***************************************************************************)
(* A scenario as the editor holds it and as a file says it: what is        *)
(* written (scenario.rs, lower), what is refused when it is read (build),  *)
(* and the changes the two step editors are made of (scenarios.rs).        *)
(*                                                                         *)
(* Values, delays, bytes and timeouts are left out: no rule of the loader  *)
(* looks at them.  The four maps of a step keep the same four places       *)
(* whether it sends or waits: a field is held at a value (with, match),    *)
(* counted, taken from a variable (from_capture, match_from_capture) or    *)
(* remembered as one (capture).                                            *)
(***************************************************************************)
EXTENDS Places, SequencesExt

CONSTANTS
  FieldsOf,   (* The fields of each loaded frame, its checksums left out.  *)
  NoFrame,    (* The empty name a step has before a frame is chosen.       *)
  Spelled,    (* What the loader makes of each name: spaces around it go.  *)
  NoName,
  Links,      (* What a step may be aimed at.                              *)
  Unparsed,   (* A file that is no document at all.                        *)
  Words       (* What a frame, a field or a variable may be called.        *)

Frames == DOMAIN FieldsOf
Fields == UNION {FieldsOf[f] : f \in Frames}
Kinds == {"send", "raw", "wait", "wait_for"}
NeedsAConnection(kind) == kind # "wait"

ASSUME FileAssumption ==
  /\ NoFrame \notin Frames /\ NoName \in DOMAIN Spelled
  /\ Spelled \in [DOMAIN Spelled -> DOMAIN Spelled]
  /\ Frames \cup Fields \cup {NoFrame} \subseteq Words

(* What a file says, and what the list holds of it.                        *)
Naming == UNION {[named -> Words] : named \in SUBSET Words}
StepOf == [kind : {"send", "raw", "wait", "bytes", "frame"}, targets : Seq(Links),
           frame : Words, held : SUBSET Words, counted : SUBSET Words,
           from : Naming, capture : Naming]
Text == [name : DOMAIN Spelled, rest : 0 .. 1, on : Seq(Links), steps : Seq(StepOf)]
ASSUME UnparsedAssumption == Unparsed \notin Seq(Text)
Scenario == [name : DOMAIN Spelled, rest : 0 .. 1, steps : Seq(StepOf)]

(* A wait_for is of two forms, and a new one names a frame.                *)
KindOf(step) == IF step.kind \in {"bytes", "frame"} THEN "wait_for" ELSE step.kind
Made(kind, frame, targets) ==
  [kind |-> kind, targets |-> targets, frame |-> frame,
   held |-> {}, counted |-> {}, from |-> <<>>, capture |-> <<>>]
Blank(kind, targets) ==
  Made(IF kind = "wait_for" THEN "frame" ELSE kind, NoFrame, targets)
TargetsFor(kind, links) ==
  IF NeedsAConnection(kind) /\ links # <<>> THEN <<Head(links)>> ELSE <<>>

(* Every variable an earlier step remembers.                               *)
CapturedBefore(steps, i) == UNION {Range(steps[j].capture) : j \in 1 .. i - 1}

Without(f, field) == [x \in DOMAIN f \ {field} |-> f[x]]
With(f, field, value) == [x \in DOMAIN f \cup {field} |-> IF x = field THEN value ELSE f[x]]
(* Mutant: only the steps that send are looked at when one is moved or removed.*)
PruneSendsOnly(steps) ==
  [i \in DOMAIN steps |->
     LET from == steps[i].from
         kept == {x \in DOMAIN from : from[x] \in CapturedBefore(steps, i)}
     IN IF steps[i].kind # "send" THEN steps[i]
        ELSE [steps[i] EXCEPT !.from = [x \in kept |-> from[x]]]]
(* A field read from a variable nothing remembers any more is left alone.  *)
PruneDanglingCaptures(steps) ==
  [i \in DOMAIN steps |->
     LET from == steps[i].from
         kept == {x \in DOMAIN from : from[x] \in CapturedBefore(steps, i)}
     IN [steps[i] EXCEPT !.from = [x \in kept |-> from[x]]]]

-----------------------------------------------------------------------------
(* One name for the links most steps share, and the last of those in a     *)
(* tie.                                                                    *)
CommonestTargets(steps) ==
  LET aims == {steps[i].targets : i \in DOMAIN steps} \ {<<>>}
      count(t) == Cardinality({i \in DOMAIN steps : steps[i].targets = t})
      first(t) == CHOOSE i \in DOMAIN steps :
                    steps[i].targets = t /\ \A j \in 1 .. i - 1 : steps[j].targets # t
      wins(t, u) == count(t) > count(u) \/ (count(t) = count(u) /\ first(t) >= first(u))
  IN IF aims = {} THEN <<>> ELSE CHOOSE t \in aims : \A u \in aims : wins(t, u)

(* Mutant: the scenario's own links are taken for a step's whatever these are.*)
LowerStepAlways(step, default) == [step EXCEPT !.targets = <<>>]
LowerStep(step, default) ==
  IF step.targets = default THEN [step EXCEPT !.targets = <<>>] ELSE step
Lower(scenario) ==
  LET default == CommonestTargets(scenario.steps)
  IN [name |-> scenario.name, rest |-> scenario.rest, on |-> default,
      steps |-> [i \in DOMAIN scenario.steps |-> LowerStep(scenario.steps[i], default)]]

(* What a step of a file is aimed at: its own links or the scenario's,     *)
(* each once.                                                              *)
Aimed(raw, step) == Once(IF step.targets # <<>> THEN step.targets ELSE raw.on)

(* The rules of build_wait_for.                                            *)
WaitReads(step) ==
  step.kind = "frame" =>
    /\ step.held \cup DOMAIN step.from \cup DOMAIN step.capture # {}
    /\ step.held \cap DOMAIN step.from = {}
StepReads(raw, i) ==
  LET step == raw.steps[i]
  IN /\ WaitReads(step)
     /\ IF step.kind = "wait" THEN step.targets = <<>> ELSE Aimed(raw, step) # <<>>
     /\ step.kind = "frame" /\ step.capture # <<>> => Len(Aimed(raw, step)) = 1
     /\ Range(step.from) \subseteq CapturedBefore(raw.steps, i)
Reads(raw) ==
  /\ Spelled[raw.name] # NoName
  /\ raw.steps # <<>>
  /\ \A i \in DOMAIN raw.steps : StepReads(raw, i)

Build(raw) ==
  [name |-> Spelled[raw.name], rest |-> raw.rest,
   steps |-> [i \in DOMAIN raw.steps |->
                LET step == raw.steps[i]
                IN [step EXCEPT !.targets =
                      IF step.kind = "wait" THEN <<>> ELSE Aimed(raw, step)]]]

(* Mutant: a wait with nothing to look at is taken for a good one.         *)
NeverAProblem(scenario) == FALSE
(* Written out and read in again: the loader is the authority.             *)
Problem(scenario) == ~Reads(Lower(scenario))

-----------------------------------------------------------------------------
(* A document as toml_edit holds it: the text it stands for, and where     *)
(* each header is to be written.  A header is that of a scenario,          *)
(* <<k, 0, 0>>, of a step, <<k, i, 0>>, or of what a send reads (1) or     *)
(* remembers (2), which is a section of its own; the rest of a step and    *)
(* the repeat are written on one line, as the program writes them.         *)
MapOf(step, p) == IF p = 1 THEN step.from ELSE step.capture
Owned(step) == {p \in 1 .. 2 : step.kind = "send" /\ MapOf(step, p) # <<>>}
Headers(text) ==
  UNION {{<<k, 0, 0>>} \cup
         UNION {{<<k, i, p>> : p \in {0} \cup Owned(text[k].steps[i])} :
                  i \in DOMAIN text[k].steps} : k \in DOMAIN text}
Earlier(g, h) == \/ g[1] < h[1]
                 \/ g[1] = h[1] /\ (g[2] < h[2] \/ (g[2] = h[2] /\ g[3] < h[3]))
(* Headers are numbered as they are read.                                  *)
FiledAt(text, h) == 1 + Cardinality({g \in Headers(text) : Earlier(g, h)})

(* The sections that serde gives a step and to_toml folds into a line: in  *)
(* a scenario laid out on its own they have taken numbers all the same.    *)
Folded(step) ==
  CASE step.kind = "send" -> {<<"with">> : x \in step.held}
                             \cup {<<"counters", x>> : x \in step.counted}
    [] step.kind = "frame" -> {<<"wait_for">>} \cup {<<"match">> : x \in step.held}
                              \cup {<<"from">> : x \in DOMAIN step.from}
                              \cup {<<"capture">> : x \in DOMAIN step.capture}
    [] step.kind = "bytes" -> {<<"wait_for">>}
    [] OTHER -> {}
FreshAt(fresh, i, p) ==
  FiledAt(<<fresh>>, <<1, i, p>>) + fresh.rest
  + Cardinality(UNION {{<<j, x>> : x \in Folded(fresh.steps[j])} : j \in 1 .. i})

(* What the file said alike stays where it was; what a step now reads or   *)
(* remembers is put where it was in the scenario laid out on its own; the  *)
(* steps added follow the last of the scenario's, by number.               *)
MergedAt(text, k, fresh, h) ==
  LET old == text[k].steps
      p == h[3]
      kept == p = 0 \/ (p \in Owned(old[h[2]]) /\ MapOf(old[h[2]], p) = MapOf(fresh.steps[h[2]], p))
      among(i, q) == FiledAt(<<fresh>>, <<1, i, q>>)
  IN IF h[1] # k \/ h[2] = 0 THEN FiledAt(text, h)
     ELSE IF h[2] > Len(old)
       THEN FiledAt(text, <<k, Len(old), 0>>) + 1 + among(h[2], p) - among(Len(old) + 1, 0)
     ELSE IF kept THEN FiledAt(text, h) ELSE FreshAt(fresh, h[2], p)
Merge(text, k, fresh) ==
  LET merged == [text EXCEPT ![k] = fresh]
  IN [text |-> merged, at |-> [h \in Headers(merged) |-> MergedAt(text, k, fresh, h)]]

(* No step more, and no send that reads or remembers what it did not.      *)
AddsNoSection(old, new) ==
  /\ Len(new) <= Len(old)
  /\ \A i \in DOMAIN new : \A p \in Owned(new[i]) :
       p \in Owned(old[i]) /\ MapOf(old[i], p) = MapOf(new[i], p)

(* A document is written by number, and where numbers are equal as it is   *)
(* laid out.                                                               *)
InOrder(doc) == \A g, h \in DOMAIN doc.at : Earlier(g, h) => doc.at[g] <= doc.at[h]
Precedes(doc, g, h) ==
  doc.at[g] < doc.at[h] \/ (doc.at[g] = doc.at[h] /\ Earlier(g, h))
Turns(doc, h) == Cardinality({g \in DOMAIN doc.at : Precedes(doc, g, h)})
(* A header read after another and before the next of its kind: a step     *)
(* under a scenario, a map under a step.                                   *)
Above(doc, among, h) ==
  {g \in among : Precedes(doc, g, h) /\ ~ \E o \in among : Precedes(doc, g, o) /\ Precedes(doc, o, h)}
ScenarioHeaders(doc) == {h \in DOMAIN doc.at : h[2] = 0}
StepHeaders(doc) == {h \in DOMAIN doc.at : h[2] # 0 /\ h[3] = 0}
MapHeaders(doc) == {h \in DOMAIN doc.at : h[3] # 0}
StepsUnder(doc, s) == {h \in StepHeaders(doc) : <<s, 0, 0>> \in Above(doc, ScenarioHeaders(doc), h)}
MapsUnder(doc, g, p) == {h \in MapHeaders(doc) : h[3] = p /\ g \in Above(doc, StepHeaders(doc), h)}
(* A map before the first step of its scenario, or a second one of a step. *)
Clashes(doc) ==
  \/ \E h \in MapHeaders(doc) :
       Above(doc, StepHeaders(doc) \cup ScenarioHeaders(doc), h) \cap StepHeaders(doc) = {}
  \/ \E h, o \in MapHeaders(doc) : /\ h # o /\ h[3] = o[3]
                                    /\ Above(doc, StepHeaders(doc), h) = Above(doc, StepHeaders(doc), o)
(* A send has the maps under it; what is under another step is not looked at.*)
StepRead(doc, g) ==
  LET step == doc.text[g[1]].steps[g[2]]
      map(p) == IF step.kind # "send" THEN MapOf(step, p)
                ELSE IF MapsUnder(doc, g, p) = {} THEN <<>>
                ELSE LET h == CHOOSE h \in MapsUnder(doc, g, p) : TRUE
                     IN MapOf(doc.text[h[1]].steps[h[2]], p)
  IN [step EXCEPT !.from = map(1), !.capture = map(2)]
ScenarioRead(doc, s) ==
  LET turns == {Turns(doc, g) : g \in StepsUnder(doc, s)}
      nth(n) == CHOOSE g \in StepsUnder(doc, s) : Turns(doc, g) = Ascending(turns)[n]
  IN [doc.text[s] EXCEPT !.steps = [n \in 1 .. Cardinality(turns) |-> StepRead(doc, nth(n))]]
Rendered(doc) ==
  IF InOrder(doc) THEN doc.text
  ELSE IF Clashes(doc) THEN Unparsed
  ELSE [s \in DOMAIN doc.text |-> ScenarioRead(doc, s)]

-----------------------------------------------------------------------------
(* The changes of one step.                                                *)
SetFrame(step, frame) ==
  IF step.frame = frame THEN step ELSE Made(step.kind, frame, step.targets)
SetWaitFrame(step, frame) == Made("frame", frame, step.targets)
SetWaitByFrame(step, first) ==
  IF step.kind = "frame" THEN Made("bytes", NoFrame, step.targets)
  ELSE Made("frame", first, step.targets)

(* set_override and set_match.                                             *)
Hold(step, field) ==
  IF field \in step.held THEN [step EXCEPT !.held = @ \ {field}]
  ELSE [step EXCEPT !.held = @ \cup {field}, !.from = Without(@, field)]
SetCounter(step, field) ==
  IF field \in step.counted THEN [step EXCEPT !.counted = @ \ {field}]
  ELSE [step EXCEPT !.counted = @ \cup {field}, !.held = @ \ {field},
                    !.from = Without(@, field)]
(* set_from_capture and set_match_from_capture.                            *)
TakeFrom(step, field, variable) ==
  [step EXCEPT !.from = With(@, field, variable), !.held = @ \ {field},
               !.counted = @ \ {field}]
TakeFromNothing(step, field) == [step EXCEPT !.from = Without(@, field)]
(* set_sent_capture and set_capture: named after the field to start with.  *)
Capture(step, field) ==
  [step EXCEPT !.capture = IF field \in DOMAIN @ THEN Without(@, field)
                           ELSE With(@, field, field)]
RenameCapture(step, field, variable) ==
  IF field \in DOMAIN step.capture
  THEN [step EXCEPT !.capture[field] = variable] ELSE step

SetAction(step, kind, links) ==
  IF KindOf(step) = kind \/ (NeedsAConnection(kind) /\ links = <<>>) THEN step
  ELSE Blank(kind, IF ~NeedsAConnection(kind) THEN <<>>
                   ELSE IF step.targets = <<>> THEN TargetsFor(kind, links)
                   ELSE step.targets)

(* The last link ticked cannot be unticked: the desktop ticks the first    *)
(* one again.                                                              *)
Untick(step, link, front, links) ==
  LET left == At(step.targets, {i \in DOMAIN step.targets : step.targets[i] # link})
  IN IF left # <<>> THEN [step EXCEPT !.targets = left]
     ELSE IF front = "desktop" THEN [step EXCEPT !.targets = <<Head(links)>>]
     ELSE step
Tick(step, link, front, links) ==
  IF link \in ToSet(step.targets) THEN Untick(step, link, front, links)
  ELSE [step EXCEPT !.targets = Append(@, link)]
=============================================================================
