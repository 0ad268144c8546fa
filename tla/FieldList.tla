----------------------------- MODULE FieldList ------------------------------
(***************************************************************************)
(* The editor of one field list (frame_edit.rs, layout.rs): a frame read   *)
(* from its file, edited in any order, saved over the text it came from    *)
(* when it reads back as it is shown (frames.rs), or given up.             *)
(***************************************************************************)
EXTENDS Layout

CONSTANTS
  Files,       (* Texts the frame may have been read from.                 *)
  Fresh,       (* Names Add and Rename may give.                           *)
  Offered,     (* Forms the kind picker offers.                            *)
  Orders,
  MaxFields,   (* Bound: fields on the wire.                               *)
  MaxEdits     (* Bound: changes made.                                     *)

ASSUME FieldListAssumption ==
  /\ Offered \subseteq DOMAIN Shapes
  /\ \A text \in Files : Build(text) # Failed
  /\ {MaxFields, MaxEdits} \subseteq Nat

VARIABLES
  text,        (* What the file held when it was read or last saved.       *)
  list,        (* The field list as the panel has it.                      *)
  edits

vars == <<text, list, edits>>

Init == text \in Files /\ list = Build(text) /\ edits = 0

Declared == DOMAIN list.declared
Plain(index) == FieldIndex(list, list.declared[index]) # 0
(* The rows that offer their name and their kind to be changed. *)
Worded(index) ==
  Plain(index) \/ StatedAs(list, list.declared[index]) \in Named

Becomes(next) ==
  /\ Len(next.fields) <= MaxFields /\ edits < MaxEdits
  /\ list' = next /\ edits' = edits + 1 /\ UNCHANGED text

Add == \E name \in Fresh :
  name \notin Names(list) \cup ToSet(list.declared) /\ Becomes(AddField(list, name))
RemoveOne == \E index \in Declared : Becomes(RemoveField(list, index))
Move == \E first \in Declared \ {Len(list.declared)} : Becomes(MoveField(list, first))
Rename == \E index \in Declared, name \in Fresh \cup {<<"">>} :
  Worded(index) /\ Becomes(RenameField(list, index, name))
State == \E index \in Declared, form \in Offered :
  Worded(index) /\ Becomes(StateAs(list, index, form))
Kind == \E index \in Declared, sums \in BOOLEAN :
  /\ Worded(index)
  /\ sums => FieldIndex(list, list.declared[index]) > 1
  /\ Becomes(SetKind(list, index, sums))
(* Only what comes before a checksum is offered. *)
Cover == \E at \in Summing(list) : \E from, to \in 1 .. at - 1 :
  /\ list.fields[at].name \in ToSet(list.declared)
  /\ \A i \in {at, from, to} : i = FieldIndex(list, list.fields[i].name)
  /\ Becomes(SetCoverage(list, at, from, to))
Order == \E order \in Orders : Becomes(SetEndian(list, order))
FieldOrder == \E index \in Declared, order \in Orders :
  /\ Plain(index)
  /\ Becomes([list EXCEPT !.fields[FieldIndex(list, list.declared[index])].order = order])
(* The type goes away, and the frame underneath is written out. *)
Inline == \E form \in Named : Becomes(InlineType(list, form))

Written == UpdateIn(text, list)
Problem == Build(Written) # list

Save == ~Problem /\ text' = Written /\ UNCHANGED <<list, edits>>
Cancel == list' = Build(text) /\ UNCHANGED <<text, edits>>

Edit == Add \/ RemoveOne \/ Move \/ Rename \/ State \/ Kind \/ Cover \/ Order
        \/ FieldOrder \/ Inline
Next == Edit \/ Save \/ Cancel
Spec == Init /\ [][Next]_vars

-----------------------------------------------------------------------------
(* What the loader refuses whatever is said of it: two fields of one name, *)
(* one with none, or a form that is not what its name stands for any more, *)
(* which is what taking out one of two fields of a name leaves.            *)
Apart(l) == Cardinality(Names(l)) = Len(l.fields)
Sound ==
  /\ <<"">> \notin Names(list) \cup ToSet(list.declared)
  /\ Apart(list)
  /\ \A name \in DOMAIN list.stated :
       LET held == ExpansionOf(list, name)
       IN [i \in 1 .. held.to - held.from + 1 |-> list.fields[held.from + i - 1].name]
          = [i \in DOMAIN Shapes[list.stated[name]] |->
               name \o Shapes[list.stated[name]][i].tail]

(* Every checksum covers a stretch of the frame there is, whatever was     *)
(* done to the list: the encoder indexes the fields with its two ends      *)
(* (layout.rs:229-231).  And no form outlives the field that was of it     *)
(* (layout.rs:102-104).                                                    *)
CoversWhatIsThere ==
  /\ DOMAIN list.stated \subseteq ToSet(list.declared)
  /\ \A i \in Summing(list) :
       1 <= list.fields[i].covers.from
       /\ list.fields[i].covers.from <= list.fields[i].covers.to
       /\ list.fields[i].covers.to <= Len(list.fields)

(* The declared fields, each with all it expanded into, are the frame, in  *)
(* order and with nothing left over: what moves or goes with a heading is  *)
(* what stands under it (frame/mod.rs:355-361).                            *)
ExpansionsTile ==
  Sound =>
    FlattenSeq([i \in Declared |->
      LET held == ExpansionOf(list, list.declared[i])
      IN SubSeq(list.fields, held.from, held.to)]) = list.fields

(* Adding, removing, moving or restating a field leaves every checksum     *)
(* that is still there covering each field it covered that is still there, *)
(* unless one of its names is another's afterwards (layout.rs:192-202).    *)
StillCovered ==
  [][(Sound /\ (Add \/ RemoveOne \/ Move \/ State) /\ Apart(list')) =>
       \A i \in Summing(list), k \in DOMAIN list'.fields :
         (k \in Summing(list') /\ list'.fields[k].name = list.fields[i].name) =>
           Covered(list, i) \cap Names(list') \subseteq Covered(list', k)]_vars

(* Whatever its byte order, what the editor shows can be saved: written    *)
(* over the file it came from, it reads back as the same fields covered in *)
(* the same way, unless two names are one or a checksum covers itself      *)
(* (frames.rs:1133-1143).                                                  *)
Unordered(l) == IF l = Failed THEN l
                ELSE [l EXCEPT !.fields = [i \in DOMAIN @ |-> [@[i] EXCEPT !.order = NoOrder]]]
ShownIsSavable ==
  (Sound /\ ~CoversItself(list)) => Unordered(Build(Written)) = Unordered(list)

(* The list hangs together: the checksums in it, what was expanded and     *)
(* what would be written (layout.rs:92-240).                               *)
LayoutHolds == CoversWhatIsThere /\ ExpansionsTile /\ ShownIsSavable

(* The writer "writes byte order wherever the file would otherwise be read *)
(* as the wrong one" (schema.rs:695).                                      *)
OrderIsSaved ==
  (Sound /\ Unordered(Build(Written)) = Unordered(list)) => ~Problem

(* A declared field a checksum covers whole is covered whole once it is    *)
(* stated as something else: a change runs "with every checksum still      *)
(* covering the fields it was covering" (layout.rs:192), "add an instance  *)
(* and the checksum still covers all of them" (schema.rs:779).             *)
Whole(l, i, name) ==
  LET held == ExpansionOf(l, name) IN held.from .. held.to \subseteq Span(l, i)
RestatedStaysCovered ==
  [][(Sound /\ State) =>
       \A i \in Summing(list), k \in DOMAIN list'.fields, index \in Declared :
         (/\ k \in Summing(list') /\ list'.fields[k].name = list.fields[i].name
          /\ list'.declared = list.declared
          /\ Whole(list, i, list.declared[index])) =>
           Whole(list', k, list.declared[index])]_vars

(* A checksum a type brought covers fields the same type brought: it       *)
(* "covers its own siblings, so its bounds move with the instance"         *)
(* (schema.rs:1270-1271).                                                  *)
SiblingsCovered ==
  \A i \in Summing(list) :
    LET brought == GeneratedBy(list, list.fields[i].name)
    IN brought # NoName =>
         \A k \in Span(list, i) : GeneratedBy(list, list.fields[k].name) = brought
=============================================================================
