------------------------------ MODULE Traffic ------------------------------
(***************************************************************************)
(* One traffic view over the shared buffer (sim-session/state.rs and       *)
(* reading.rs, live_monitor.rs of the window, app.rs of the terminal):     *)
(* which rows it shows while the buffer forgets its oldest, how it is      *)
(* frozen and cleared, which row is being read and through what.           *)
(*                                                                         *)
(* A frame stands for all that a filter or a definition tells apart in it. *)
(* The other views, of which each has a state of its own, the hex box and  *)
(* the frame editor a row may be handed to, and scrolling are left out.    *)
(***************************************************************************)
EXTENDS Naturals, Sequences, FiniteSets, FiniteSetsExt

CONSTANTS
  Fronts,             (* "desktop", "terminal" or both.                    *)
  Frames,             (* What a frame on a link may be.                    *)
  Defs, Size,         (* The definitions, and the length of each or frame. *)
  Filters,            (* What the operator may type.                       *)
  MaxLog, MaxFrames,  (* Bounds: the buffer (10 000), the frames captured. *)
  None

ASSUME TrafficAssumption == /\ Fronts \subseteq {"desktop", "terminal"}
                            /\ MaxLog \in Nat \ {0} /\ MaxFrames \in Nat
                            /\ Size \in [Frames \cup Defs -> Nat]
                            /\ None \notin Nat /\ None \notin Defs

VARIABLES
  front,
  log, nextSeq,   (* The buffer, oldest first, and the next place in it.   *)
  view
vars == <<front, log, nextSeq, view>>

(* A pattern that does not parse is not looked for, and what does not      *)
(* match is hidden, or what does.                                          *)
Plain == [others |-> Frames, hex |-> Frames, broken |-> FALSE, invert |-> FALSE]
Keeps(filter, entry) ==
  (entry.frame \in filter.others /\ (filter.broken \/ entry.frame \in filter.hex))
     # filter.invert
InWindow(v, entry) == entry.seq >= v.since /\ (v.pausedAt # None => entry.seq <= v.pausedAt)
(* The rows are the frames a view lets through.  They are in the order of  *)
(* their places in the stream, so that the places tell which is next.      *)
RowsOf(l, v) == {entry \in Range(l) : InWindow(v, entry) /\ Keeps(v.filter, entry)}
Rows == RowsOf(log, view)
Seqs(rows) == {entry.seq : entry \in rows}
FrameAt(l, seq) == {entry.frame : entry \in {held \in Range(l) : held.seq = seq}}
FrameOf(seq) == CHOOSE frame \in FrameAt(log, seq) : TRUE

Fresh(since) == [since |-> since, pausedAt |-> None, selected |-> None, follow |-> TRUE,
                 filter |-> Plain, decodeAs |-> None]
Init == front \in Fronts /\ log = <<>> /\ nextSeq = 0 /\ view = Fresh(0)

(* Only definitions of exactly the row's length are offered.               *)
Candidates(frame) == {d \in Defs : Size[d] = Size[frame]}
(* The row is read through a definition of its length: the one chosen,     *)
(* which lapses when it has another, or the only one there is.             *)
Pick(chosen, frame) ==
  LET fitting == Candidates(frame)
      kept == IF chosen \in fitting THEN chosen ELSE None
  IN IF kept = None /\ Cardinality(fitting) = 1 THEN CHOOSE d \in fitting : TRUE ELSE kept
Read(v) == IF v.selected \in Seqs(Range(log))
           THEN [v EXCEPT !.decodeAs = Pick(@, FrameOf(v.selected))] ELSE v

(* What the window does with the selection each time it is drawn: one that *)
(* is not among the rows is none, unless there is no row at all.  The      *)
(* terminal reads whatever the buffer still holds.                         *)
Drawn(v) ==
  LET rows == RowsOf(log, v) IN
  IF front = "terminal" THEN Read(v)
  ELSE IF rows = {} THEN v
  ELSE Read([v EXCEPT !.selected = IF @ \in Seqs(rows) THEN @ ELSE None])
Draws(v) == view' = Drawn(v) /\ UNCHANGED <<front, log, nextSeq>>

-----------------------------------------------------------------------------
(* Mutant: a row is known by where it sits in the buffer.                  *)
StampByPlace(frame) == [seq |-> Len(IF Len(log) = MaxLog THEN Tail(log) ELSE log), frame |-> frame]
(* A frame is given the next place in the stream, which is never reused.   *)
Stamp(frame) == [seq |-> nextSeq, frame |-> frame]
Arrive == /\ nextSeq < MaxFrames /\ nextSeq' = nextSeq + 1
          /\ \E frame \in Frames :
               log' = Append(IF Len(log) = MaxLog THEN Tail(log) ELSE log, Stamp(frame))
          /\ UNCHANGED <<front, view>>

Repaint == Draws(view)

(* Mutant: the next frame is let in.                                       *)
FrozenAtNext == nextSeq
(* Frozen one before the next arrival.                                     *)
FrozenAt == IF nextSeq = 0 THEN 0 ELSE nextSeq - 1
Pause == Draws([view EXCEPT !.pausedAt = IF @ = None THEN FrozenAt ELSE None])
Clear == Draws([view EXCEPT !.since = nextSeq, !.pausedAt = None])
Follow == Draws([view EXCEPT !.follow = ~@])
Retune == \E filter \in Filters : Draws([view EXCEPT !.filter = filter])

(* A view opened on the same buffer hides what came before it, one of a    *)
(* project just opened hides nothing.                                      *)
OpenAnother == Draws(Fresh(nextSeq))
Restore == \E filter \in Filters : Draws([Fresh(0) EXCEPT !.filter = filter])

(* A click on a row reads it, or puts it away when it is being read; one   *)
(* of the cells of the fields puts it away as well.                        *)
Click == /\ front = "desktop"
         /\ LET now == Drawn(view) IN
            \E seq \in Seqs(Rows) :
              view' = IF now.selected = seq THEN [now EXCEPT !.selected = None]
                      ELSE [now EXCEPT !.selected = seq, !.follow = FALSE]
         /\ UNCHANGED <<front, log, nextSeq>>
(* A key steps to the row above or below, from the newest when the row     *)
(* being read is not among them.                                           *)
Step == /\ front = "terminal" /\ Rows # {}
        /\ \E up \in BOOLEAN :
             LET seqs == Seqs(Rows)
                 read == view.selected
                 near == {seq \in seqs : IF up THEN seq < read ELSE seq > read}
                 to   == IF read \notin seqs THEN Max(seqs)
                         ELSE IF near = {} THEN read
                         ELSE IF up THEN Max(near) ELSE Min(near)
             IN Draws([view EXCEPT !.selected = to, !.follow = FALSE])
PutAway == /\ view.selected # None
           /\ front = "desktop" => view.selected \in Seqs(Rows)
           /\ LET now == Drawn(view) IN view' = [now EXCEPT !.selected = None]
           /\ UNCHANGED <<front, log, nextSeq>>
ReadAs == /\ view.selected \in Seqs(IF front = "desktop" THEN Rows ELSE Range(log))
          /\ \E d \in Candidates(FrameOf(view.selected)) :
               Draws([view EXCEPT !.decodeAs = d])

Next == \/ Arrive \/ Repaint \/ Pause \/ Clear \/ Follow \/ Retune \/ OpenAnother \/ Restore
        \/ Click \/ Step \/ PutAway \/ ReadAs
Spec == Init /\ [][Next]_vars

-----------------------------------------------------------------------------
(* Pausing freezes the view, capture continues (docs/traffic.md:19): no    *)
(* row slips in before the view runs again or its filter is changed, once  *)
(* anything has been captured at all.                                      *)
Still == view.pausedAt # None /\ view'.pausedAt = view.pausedAt
         /\ view'.filter = view.filter
FrozenHolds == [][nextSeq > 0 /\ Still => Rows' \subseteq Rows]_vars

(* ... from the first (live_monitor.rs:227).                               *)
FrozenFromTheFirst == [][Still => Rows' \subseteq Rows]_vars

(* The row being read stays the frame it is, whatever arrives and whatever *)
(* the buffer forgets (state.rs:167-171).                                  *)
ReadStaysTheSame ==
  [][view.selected # None /\ view'.selected = view.selected
     => FrameAt(log', view.selected) \subseteq FrameAt(log, view.selected)]_vars

(* What a row was chosen to be read as is kept from row to row, and lapses *)
(* only on a row of another length (state.rs:338-342).                     *)
ChoiceKept ==
  [][view.decodeAs # None /\ view'.decodeAs # view.decodeAs /\ view'.selected # None /\ ~ReadAs
     => \E frame \in FrameAt(log, view.selected) \cup FrameAt(log, view'.selected) :
          Size[frame] # Size[view.decodeAs]]_vars

(* What is being read, and what as, changes only at the reader's hand      *)
(* (state.rs:338-342).                                                     *)
ReadingHolds == ReadStaysTheSame /\ ChoiceKept

(* A pattern that is not usable does not hide the whole stream             *)
(* (state.rs:269-270).                                                     *)
BrokenIsIgnored ==
  (view.filter.broken /\ view.filter.others = Frames /\ view.since = 0 /\ view.pausedAt = None)
  => Rows = Range(log)
=============================================================================
