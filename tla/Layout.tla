------------------------------- MODULE Layout -------------------------------
(***************************************************************************)
(* A run of declared fields, some of which stand for several fields on the *)
(* wire (layout.rs, frame/mod.rs), what is written of it in a file and     *)
(* what is read back (the writer and the builder of schema.rs).            *)
(*                                                                         *)
(* A name is the sequence of its parts: <<"zone", "left">> came out of a   *)
(* field declared as <<"zone">>.  What tells two plain kinds of field      *)
(* apart is left out; a checksum is a field that covers a stretch of the   *)
(* frame, held by the places of its two ends.                              *)
(***************************************************************************)
EXTENDS Integers, Sequences, FiniteSets, SequencesExt

CONSTANTS
  Shapes,   (* What each stated form puts on the wire, in order: the tail  *)
            (* of each name, and what it covers when it is a checksum.     *)
  Named,    (* The forms that name a shared type.                          *)
  NoForm    (* Written as a plain field.                                   *)

NoName == <<>>
Nothing == [from |-> 0, to |-> 0]

ASSUME LayoutAssumption ==
  /\ Named \subseteq DOMAIN Shapes /\ NoForm \notin DOMAIN Shapes
  /\ \A form \in DOMAIN Shapes : Shapes[form] # <<>>

Names(l) == {l.fields[i].name : i \in DOMAIN l.fields}
FieldIndex(l, name) == SelectInSeq(l.fields, LAMBDA f : f.name = name)
Summing(l) == {i \in DOMAIN l.fields : l.fields[i].covers # Nothing}
Span(l, i) == l.fields[i].covers.from .. l.fields[i].covers.to
Covered(l, i) == {l.fields[k].name : k \in Span(l, i)}

StatedAs(l, name) == IF name \in DOMAIN l.stated THEN l.stated[name] ELSE NoForm

Lowest(S) == CHOOSE x \in S : \A y \in S : x <= y
Highest(S) == CHOOSE x \in S : \A y \in S : x >= y

(* The declared field a field on the wire came from. *)
GeneratedBy(l, name) ==
  LET above == {d \in ToSet(l.declared) : IsStrictPrefix(d, name)}
  IN IF name \in ToSet(l.declared) \/ above = {}
     THEN NoName
     ELSE CHOOSE d \in above : \A other \in above : Len(other) <= Len(d)

(* The fields on the wire a declared one stands for. *)
ExpansionOf(l, name) ==
  LET held == {i \in DOMAIN l.fields :
                 name \in {l.fields[i].name, GeneratedBy(l, l.fields[i].name)}}
  IN IF held = {} THEN [from |-> 1, to |-> 0]
     ELSE [from |-> Lowest(held), to |-> Highest(held)]

Before(s, i) == SubSeq(s, 1, i - 1)
After(s, i) == SubSeq(s, i + 1, Len(s))
Without(f, x) == [y \in DOMAIN f \ {x} |-> f[y]]
With(f, x, v) == [y \in DOMAIN f \cup {x} |-> IF y = x THEN v ELSE f[y]]

-----------------------------------------------------------------------------
(* Mutant: a range is rebuilt from the fields its two ends were.           *)
EndsKept(l, changed) ==
  LET end(f, at) == FieldIndex(changed, l.fields[at].name)
      was(f) == FieldIndex(l, f.name)
  IN [changed EXCEPT !.fields = [i \in DOMAIN @ |->
       LET f == changed.fields[i] IN
       IF f.covers = Nothing \/ was(f) = 0 \/ was(f) \notin Summing(l) THEN f
       ELSE [f EXCEPT !.covers =
              [from |-> Highest({1, end(f, l.fields[was(f)].covers.from)}),
               to |-> Highest({1, end(f, l.fields[was(f)].covers.to)})]]]]
(* A structural change, every checksum of what was there still covering    *)
(* the fields it covered, wherever they have gone.  Fields are told by     *)
(* name: of two of one name the first is meant, and the later range wins.  *)
WithSpansKept(l, changed) ==
  LET kept(name, at) ==
        LET owners == {i \in Summing(l) : l.fields[i].name = name}
            survivors == {FieldIndex(changed, n) : n \in Covered(l, Highest(owners))} \ {0}
        IN IF owners = {} THEN changed.fields[at].covers
           ELSE IF survivors # {}
           THEN [from |-> Lowest(survivors), to |-> Highest(survivors)]
           ELSE [from |-> IF at > 1 THEN at - 1 ELSE 1,
                 to   |-> IF at > 1 THEN at - 1 ELSE 1]
  IN [changed EXCEPT !.fields =
       [at \in DOMAIN @ |->
         IF at \in Summing(changed) /\ at = FieldIndex(changed, @[at].name)
         THEN [@[at] EXCEPT !.covers = kept(changed.fields[at].name, at)]
         ELSE @[at]]]

RenameField(l, index, name) ==
  LET old == l.declared[index]
      held == ExpansionOf(l, old)
      tail(n) == SubSeq(n, Len(old) + 1, Len(n))
  IN IF name \in ToSet(l.declared) \cup Names(l) THEN l
     ELSE [l EXCEPT
       !.fields = [i \in DOMAIN @ |->
                     IF i \in held.from .. held.to
                     THEN [@[i] EXCEPT !.name = name \o tail(@)] ELSE @[i]],
       !.stated = IF old \in DOMAIN @
                  THEN With(Without(@, old), name, @[old]) ELSE @,
       !.declared[index] = name]

(* At the end, under a name of its own. *)
AddField(l, name) ==
  WithSpansKept(l, [l EXCEPT
    !.fields = Append(@, [name |-> name, covers |-> Nothing, order |-> l.order]),
    !.declared = Append(@, name)])

MayRemove(l, index) ==
  LET gone == ExpansionOf(l, l.declared[index])
  IN gone.from = 1 => gone.to + 1 \notin Summing(l)

RemoveField(l, index) ==
  LET name == l.declared[index]
      gone == ExpansionOf(l, name)
  IN IF ~MayRemove(l, index) THEN l
     ELSE WithSpansKept(l, [l EXCEPT
       !.fields = Before(@, gone.from) \o After(@, gone.to),
       !.declared = RemoveAt(@, index),
       !.stated = Without(@, name)])

CoversItself(l) == \E i \in Summing(l) : i \in Span(l, i)

(* Mutant: what is below is taken for one field.                           *)
SwapOne(l, first) ==
  LET above == ExpansionOf(l, l.declared[first])
  IN WithSpansKept(l, [l EXCEPT
       !.fields = Before(@, above.from) \o SubSeq(@, above.to + 1, above.to + 1)
                  \o SubSeq(@, above.from, above.to) \o After(@, above.to + 1),
       !.declared = Before(@, first) \o <<@[first + 1], @[first]>>
                    \o After(@, first + 1)])
(* The two runs need not be of the same length. *)
Reorder(l, first) ==
  LET above == ExpansionOf(l, l.declared[first])
      below == ExpansionOf(l, l.declared[first + 1])
  IN WithSpansKept(l, [l EXCEPT
       !.fields = Before(@, above.from) \o SubSeq(@, above.to + 1, below.to)
                  \o SubSeq(@, above.from, above.to) \o After(@, below.to),
       !.declared = Before(@, first) \o <<@[first + 1], @[first]>>
                    \o After(@, first + 1)])

MoveField(l, first) ==
  IF CoversItself(Reorder(l, first)) THEN l ELSE Reorder(l, first)

SetCoverage(l, at, from, to) ==
  [l EXCEPT !.fields[at].covers =
     [from |-> Lowest({from, to}), to |-> Highest({from, to})]]

SetEndian(l, order) ==
  [l EXCEPT !.order = order,
            !.fields = [i \in DOMAIN @ |->
              IF @[i].order = l.order THEN [@[i] EXCEPT !.order = order]
              ELSE @[i]]]

(* What a form contributes, under the name it is given.  Built as a frame  *)
(* of this one field, so that the checksums among it count from its start. *)
Instantiate(name, form, order) ==
  [i \in DOMAIN Shapes[form] |-> [name |-> name \o Shapes[form][i].tail,
                                  covers |-> Shapes[form][i].covers,
                                  order |-> order]]

StateAs(l, index, form) ==
  LET name == l.declared[index]
      held == ExpansionOf(l, name)
      expansion ==
        IF form # NoForm THEN Instantiate(name, form, l.order)
        ELSE <<[name |-> name, covers |-> Nothing, order |-> l.order]>>
  IN WithSpansKept(l, [l EXCEPT
       !.fields = Before(@, held.from) \o expansion \o After(@, held.to),
       !.stated = IF form = NoForm THEN Without(@, name) ELSE With(@, name, form)])

(* Every declaration made through the form, written out in full. *)
InlineType(l, form) ==
  LET spent == {n \in DOMAIN l.stated : l.stated[n] = form}
      leaves(n) == LET held == ExpansionOf(l, n)
                   IN [i \in 1 .. held.to - held.from + 1 |->
                         l.fields[held.from + i - 1].name]
  IN [l EXCEPT
       !.declared = FlattenSeq([i \in DOMAIN @ |->
                      IF @[i] \in spent THEN leaves(@[i]) ELSE <<@[i]>>]),
       !.stated = [n \in DOMAIN @ \ spent |-> @[n]]]

(* The kind picker: a plain field, or a checksum of all that is in front.  *)
SetKind(l, index, sums) ==
  LET plain == IF StatedAs(l, l.declared[index]) # NoForm
               THEN StateAs(l, index, NoForm) ELSE l
      was == FieldIndex(l, l.declared[index])
      at == FieldIndex(plain, plain.declared[index])
  IN IF at = 0 THEN plain
     ELSE [plain EXCEPT !.fields[at].covers =
            IF sums THEN [from |-> 1, to |-> was - 1] ELSE Nothing]

-----------------------------------------------------------------------------
(* How the file names one end of a range: by the declared field when the   *)
(* end is the edge of all it expanded into.                                *)
CoverName(l, i, last) ==
  LET declared == GeneratedBy(l, l.fields[i].name)
      held == {k \in DOMAIN l.fields : GeneratedBy(l, l.fields[k].name) = declared}
  IN IF declared # NoName /\ i = (IF last THEN Highest(held) ELSE Lowest(held))
     THEN declared ELSE l.fields[i].name

NoOrder == "inherited"

(* One entry of the file.  The order is said when it is not the frame's.   *)
LowerField(l, i, name, form) ==
  LET sums == i \in Summing(l)
  IN [name |-> name, form |-> form,
      order |-> IF l.fields[i].order = l.order THEN NoOrder ELSE l.fields[i].order,
      from |-> IF sums THEN CoverName(l, l.fields[i].covers.from, FALSE) ELSE NoName,
      to |-> IF sums THEN CoverName(l, l.fields[i].covers.to, TRUE) ELSE NoName]

LowerDeclared(l, name) ==
  LET stated == StatedAs(l, name)
      at == IF FieldIndex(l, name) # 0 THEN FieldIndex(l, name)
            ELSE ExpansionOf(l, name).from
  IN IF FieldIndex(l, name) # 0 \/ stated \in DOMAIN Shapes \ Named
     THEN LowerField(l, at, name, stated)
     ELSE [name |-> name, form |-> stated, order |-> NoOrder,
           from |-> NoName, to |-> NoName]

Lower(l) == [order |-> l.order,
             fields |-> [i \in DOMAIN l.declared |-> LowerDeclared(l, l.declared[i])]]

(* Which entry of the file each declared field is written over: the one of *)
(* its name, or else, in order, one left over that names no type.          *)
PairUp(entries, declared) ==
  LET named(d) == SelectInSeq(entries, LAMBDA e : e.name = d)
      left == SelectSeq([i \in DOMAIN entries |-> i],
                LAMBDA i : /\ entries[i].name \notin ToSet(declared)
                           /\ entries[i].form \notin Named)
      unpaired(i) == Cardinality({k \in 1 .. i : named(declared[k]) = 0})
  IN [i \in DOMAIN declared |->
        IF named(declared[i]) # 0 THEN named(declared[i])
        ELSE IF unpaired(i) <= Len(left) THEN left[unpaired(i)] ELSE 0]

(* Written over the text it was read from: the order an entry states stays *)
(* unless a field of that name would be read as the wrong one.             *)
UpdateIn(text, l) ==
  LET fresh == Lower(l)
      source == PairUp(text.fields, l.declared)
      kept(i) == IF source[i] = 0 THEN fresh.fields[i].order
                 ELSE text.fields[source[i]].order
      read(i) == IF kept(i) = NoOrder THEN l.order ELSE kept(i)
      plain(i) == FieldIndex(l, l.declared[i])
      order(i) == IF plain(i) # 0 /\ read(i) # l.fields[plain(i)].order
                  THEN l.fields[plain(i)].order ELSE kept(i)
  IN [fresh EXCEPT !.fields =
       [i \in DOMAIN @ |-> [@[i] EXCEPT !.order = order(i)]]]

-----------------------------------------------------------------------------
(* No frame at all: what the builder refuses. *)
Failed == [fields |-> <<>>]

(* One end of a range, by the name of a field or of all that came of one.  *)
ResolveCover(names, target, last) ==
  LET within == {i \in DOMAIN names : IsStrictPrefix(target, names[i])}
      at == SelectInSeq(names, LAMBDA n : n = target)
  IN IF at # 0 THEN at
     ELSE IF within = {} THEN 0
     ELSE IF last THEN Highest(within) ELSE Lowest(within)

(* What the builder makes of a file.                                       *)
Build(text) ==
  LET entry(e) ==
        IF e.form = NoForm
        THEN <<[name |-> e.name, entry |-> e, from |-> e.from, to |-> e.to]>>
        ELSE [i \in DOMAIN Shapes[e.form] |->
               LET leaf == Shapes[e.form][i]
               IN [name |-> e.name \o leaf.tail, entry |-> e,
                   from |-> IF leaf.covers = Nothing THEN NoName
                            ELSE e.name \o Shapes[e.form][leaf.covers.from].tail,
                   to |-> IF leaf.covers = Nothing THEN NoName
                          ELSE e.name \o Shapes[e.form][leaf.covers.to].tail]]
      expanded == FlattenSeq([i \in DOMAIN text.fields |-> entry(text.fields[i])])
      names == [i \in DOMAIN expanded |-> expanded[i].name]
      span(i) == IF expanded[i].from = NoName THEN Nothing
                 ELSE [from |-> ResolveCover(names, expanded[i].from, FALSE),
                       to |-> ResolveCover(names, expanded[i].to, TRUE)]
      order(e) == IF e.order = NoOrder THEN text.order ELSE e.order
      refused == \/ \E i \in DOMAIN names : names[i] = <<"">>
                 \/ Cardinality(ToSet(names)) # Len(names)
                 \/ \E i \in DOMAIN names :
                      /\ expanded[i].from # NoName
                      /\ \/ 0 \in {span(i).from, span(i).to}
                         \/ span(i).from > span(i).to
                         \/ i \in span(i).from .. span(i).to
  IN IF refused THEN Failed
     ELSE [order |-> text.order,
           fields |-> [i \in DOMAIN expanded |->
                        [name |-> names[i], covers |-> span(i),
                         order |-> order(expanded[i].entry)]],
           declared |-> [i \in DOMAIN text.fields |-> text.fields[i].name],
           stated |-> [n \in {text.fields[i].name : i \in
                               {k \in DOMAIN text.fields : text.fields[k].form # NoForm}}
                       |-> text.fields[CHOOSE i \in DOMAIN text.fields :
                                         text.fields[i].name = n].form]]
=============================================================================
