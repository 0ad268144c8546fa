------------------------------- MODULE Codec --------------------------------
(***************************************************************************)
(* How the values of a frame become bytes and are read back (codec.rs),    *)
(* and the checksums over them (checksum.rs).  Numbers are written byte by *)
(* byte, checksums computed bit by bit, most significant bit first.        *)
(*                                                                         *)
(* What a release build computes: in a debug build the bounds of a signed  *)
(* field of the full width overflow.  Floats are left out.                 *)
(***************************************************************************)
EXTENDS Integers, SequencesExt

CONSTANTS
  ByteBits,   (* The bits of a byte: 8.                                    *)
  Absent      (* No value, no default, no range.                           *)

ASSUME ByteAssumption == ByteBits \in Nat \ {0}

(* A field is a record: its kind, its size in bytes, its byte order, its   *)
(* default, the range its subtype allows, and what only its kind has: the  *)
(* variants of an enum, the widths of a bitfield, what a checksum is and   *)
(* covers.  A value is a shape and what it holds.                          *)
Kinds == {"uint", "int", "bytes", "text", "enum", "bits", "checksum"}

ShapeOf(f) == IF f.kind = "enum" THEN "uint" ELSE f.kind

Width(f) == ByteBits * f.size

Zeros(n) == [i \in 1 .. n |-> 0]

BitsOf(n, width) == [i \in 1 .. width |-> (n \div 2 ^ (width - i)) % 2]

NumberOf(bits) == FoldLeft(LAMBDA n, bit : 2 * n + bit, 0, bits)

Xored(a, b) == [i \in DOMAIN a |-> (a[i] + b[i]) % 2]

-----------------------------------------------------------------------------
(* Checksums. *)

Shifted(crc, poly) ==
  LET next == Append(Tail(crc), 0) IN IF Head(crc) = 1 THEN Xored(next, poly) ELSE next

Reflected(bits, asked) == IF asked THEN Reverse(bits) ELSE bits

(* A byte enters at the top of the register and is shifted through.        *)
TakenIn(spec, crc, byte) ==
  LET placed == Reflected(BitsOf(byte, ByteBits), spec.reflectIn) \o Zeros(spec.width - ByteBits)
  IN  FoldLeft(LAMBDA c, i : Shifted(c, BitsOf(spec.poly, spec.width)),
               Xored(crc, placed), [i \in 1 .. ByteBits |-> i])

CrcFinished(spec, bits) ==
  NumberOf(Xored(Reflected(bits, spec.reflectOut), BitsOf(spec.xorOut, spec.width)))

Crc(spec, data) ==
  CrcFinished(spec, FoldLeft(LAMBDA crc, byte : TakenIn(spec, crc, byte),
                             BitsOf(spec.init, spec.width), data))

Xor8(data) ==
  NumberOf(FoldLeft(LAMBDA acc, byte : Xored(acc, BitsOf(byte, ByteBits)), Zeros(ByteBits), data))

Compute(f, data) ==
  CASE f.spec.how = "crc" -> Crc(f.spec, data)
    [] f.spec.how = "xor" -> Xor8(data)
    [] f.spec.how = "sum" -> FoldLeft(+, 0, data) % 2 ^ Width(f)

-----------------------------------------------------------------------------
(* Numbers as bytes. *)

Place(i, width, endian) == IF endian = "big" THEN width - i ELSE i - 1

WriteUint(n, width, endian) ==
  [i \in 1 .. width |-> (n \div 2 ^ (ByteBits * Place(i, width, endian))) % 2 ^ ByteBits]

ReadUint(raw, endian) ==
  SumFunction([i \in DOMAIN raw |-> raw[i] * 2 ^ (ByteBits * Place(i, Len(raw), endian))])

(* Where a field lies. *)
OffsetOf(fields, i) == SumFunction([j \in 1 .. i - 1 |-> fields[j].size])

SizeOf(fields) == OffsetOf(fields, Len(fields) + 1)

FieldOf(fields, i, bytes) ==
  SubSeq(bytes, OffsetOf(fields, i) + 1, OffsetOf(fields, i) + fields[i].size)

CoveredShort(fields, i, bytes) ==   \* Mutant: the last field is left out.
  SubSeq(bytes, OffsetOf(fields, fields[i].from) + 1, OffsetOf(fields, fields[i].to))

Covered(fields, i, bytes) ==
  SubSeq(bytes, OffsetOf(fields, fields[i].from) + 1, OffsetOf(fields, fields[i].to + 1))

-----------------------------------------------------------------------------
(* What may be sent. *)

Variant(f, name) == CHOOSE v \in ToSet(f.variants) : v.name = name

Accepts(f, v) ==
  f.range # Absent /\ v.shape = f.kind => v.is \in f.range.min .. f.range.max

FitsOneMore(n, width) == n \in 0 .. 2 ^ width   \* Mutant.

Fits(n, width) == n \in 0 .. 2 ^ width - 1

Encodable(f, v) ==
  \/ f.kind = "uint" /\ v.shape = "uint" /\ Fits(v.is, Width(f))
  \/ f.kind = "int" /\ v.shape = "int" /\ Fits(v.is + 2 ^ (Width(f) - 1), Width(f))
  \/ f.kind = "bytes" /\ v.shape = "bytes" /\ Len(v.is) = f.size
  \/ f.kind = "text" /\ v.shape = "text" /\ Len(v.is) <= f.size
  \/ f.kind = "enum" /\ v.shape = "uint" /\ Fits(v.is, Width(f))
  \/ /\ f.kind = "enum" /\ v.shape = "text"
     /\ \E variant \in ToSet(f.variants) : variant.name = v.is /\ Fits(variant.value, Width(f))
  \/ f.kind = "bits" /\ v.shape = "bits" /\ \A i \in DOMAIN f.widths : Fits(v.is[i], f.widths[i])

Given(f, v) == IF v # Absent THEN v ELSE f.default

Accepted(fields, values) ==
  \A i \in DOMAIN fields :
    fields[i].kind # "checksum" =>
      LET v == Given(fields[i], values[i]) IN
        v # Absent /\ Accepts(fields[i], v) /\ Encodable(fields[i], v)

EncodeField(f, v) ==
  CASE f.kind \in {"uint", "int"} -> WriteUint(v.is, f.size, f.endian)
    [] f.kind = "bytes" -> v.is
    [] f.kind = "text" -> v.is \o Zeros(f.size - Len(v.is))
    [] f.kind = "enum" ->
         WriteUint(IF v.shape = "uint" THEN v.is ELSE Variant(f, v.is).value, f.size, f.endian)
    [] f.kind = "bits" ->
         WriteUint(NumberOf(FoldLeftDomain(LAMBDA bits, i : bits \o BitsOf(v.is[i], f.widths[i]),
                                           <<>>, f.widths)),
                   f.size, f.endian)

Filled(fields, values) ==
  FoldLeftDomain(LAMBDA out, i :
                   out \o IF fields[i].kind = "checksum" THEN Zeros(fields[i].size)
                          ELSE EncodeField(fields[i], Given(fields[i], values[i])),
                 <<>>, fields)

Summed(fields, i, out) ==
  LET sum == WriteUint(Compute(fields[i], Covered(fields, i, out)), fields[i].size, fields[i].endian)
      at  == OffsetOf(fields, i)
  IN  [k \in DOMAIN out |-> IF k \in at + 1 .. at + fields[i].size THEN sum[k - at] ELSE out[k]]

(* The fields first, then the checksums in the order of the frame.         *)
Encode(fields, values) ==
  FoldLeftDomain(LAMBDA out, i : IF fields[i].kind = "checksum" THEN Summed(fields, i, out) ELSE out,
                 Filled(fields, values), fields)

-----------------------------------------------------------------------------
(* What is read back.  Nothing is refused but a wrong length.              *)

Signed(n, width) == IF n >= 2 ^ (width - 1) THEN n - 2 ^ width ELSE n

UpToNul(text) ==
  LET nul == SelectInSeq(text, LAMBDA byte : byte = 0)
  IN  IF nul = 0 THEN text ELSE SubSeq(text, 1, nul - 1)

Unpacked(f, n) ==
  LET bits  == BitsOf(n, Width(f))
      up(i) == SumFunction([j \in 1 .. i |-> f.widths[j]])
  IN  [i \in DOMAIN f.widths |-> NumberOf(SubSeq(bits, up(i - 1) + 1, up(i)))]

DecodeField(f, raw) ==
  [shape |-> IF f.kind = "checksum" THEN "uint" ELSE ShapeOf(f),
   is |-> CASE f.kind \in {"uint", "enum", "checksum"} -> ReadUint(raw, f.endian)
            [] f.kind = "int" -> Signed(ReadUint(raw, f.endian), Width(f))
            [] f.kind = "bytes" -> raw
            [] f.kind = "text" -> UpToNul(raw)
            [] f.kind = "bits" -> Unpacked(f, ReadUint(raw, f.endian))]

Values(fields, bytes) == [i \in DOMAIN fields |-> DecodeField(fields[i], FieldOf(fields, i, bytes))]

Mismatches(fields, bytes) ==
  {i \in DOMAIN fields :
     /\ fields[i].kind = "checksum"
     /\ ReadUint(FieldOf(fields, i, bytes), fields[i].endian)
          # Compute(fields[i], Covered(fields, i, bytes))}

RangeViolations(fields, bytes) ==
  {i \in DOMAIN fields : ~Accepts(fields[i], DecodeField(fields[i], FieldOf(fields, i, bytes)))}

Decodes(fields, bytes) == Len(bytes) = SizeOf(fields)

-----------------------------------------------------------------------------
(* What a field starts at, and takes (value.rs).                           *)

Clamped(n, range) == IF n < range.min THEN range.min ELSE IF n > range.max THEN range.max ELSE n

Neutral(f) ==
  [shape |-> ShapeOf(f),
   is |-> CASE f.kind = "uint" -> IF f.range # Absent THEN f.range.min ELSE 0
            [] f.kind = "int" -> IF f.range # Absent THEN Clamped(0, f.range) ELSE 0
            [] f.kind = "enum" -> IF f.variants # <<>> THEN Head(f.variants).value ELSE 0
            [] f.kind = "bytes" -> Zeros(f.size)
            [] f.kind = "text" -> <<>>
            [] f.kind = "bits" -> [i \in DOMAIN f.widths |-> 0]]

(* A value out of a file takes the shape of the field it is given to.      *)
(* Texts that spell out a number or bytes are left out.                    *)
Holds(f, v) ==
  \/ f.kind \in {"uint", "enum"} /\ v.shape \in {"uint", "int"} /\ v.is >= 0
  \/ f.kind = "int" /\ v.shape \in {"uint", "int"}
  \/ f.kind = "text" /\ v.shape \in {"text", "bytes"}
  \/ f.kind \in {"bytes", "bits"} /\ v.shape = f.kind

CoercedTo(f, v) == [shape |-> ShapeOf(f), is |-> v.is]

Seeded(f) ==
  IF f.kind = "checksum" THEN Absent ELSE IF f.default # Absent THEN f.default ELSE Neutral(f)
=============================================================================
