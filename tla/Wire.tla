-------------------------------- MODULE Wire --------------------------------
(***************************************************************************)
(* The frame a scenario sends on every pass, one field of it counted, and  *)
(* what the other end reads.                                               *)
(***************************************************************************)
EXTENDS CounterRun, Codec

CONSTANT Frames   (* Fields, which of them is counted, values for the rest. *)

(* What the loader of frames lets through (build_kind, build_range).       *)
LoadedField(fields, i) ==
  LET f == fields[i] IN
    /\ f.kind \in Kinds /\ f.size \in Nat
    /\ f.range # Absent => /\ f.kind \in {"uint", "int"} /\ f.range.min <= f.range.max
                           /\ \A n \in {f.range.min, f.range.max} :
                                Encodable(f, [shape |-> f.kind, is |-> n])
    /\ f.kind = "bits" => SumFunction(f.widths) = Width(f)
    /\ f.kind = "checksum" =>
         /\ f.from \in DOMAIN fields /\ f.to \in DOMAIN fields
         /\ f.from <= f.to /\ i \notin f.from .. f.to
         /\ f.spec.how = "crc" => f.spec.width = Width(f)

ASSUME WireAssumption ==
  \A frame \in Frames :
    /\ \A i \in DOMAIN frame.fields : LoadedField(frame.fields, i)
    /\ frame.counted \in DOMAIN frame.fields
    /\ frame.fields[frame.counted].kind \in {"uint", "int", "enum"}

VARIABLES frame, supplied

fields == frame.fields

WireInit ==
  /\ CounterInit
  /\ frame \in Frames /\ supplied \in frame.supplies

WireNext == CounterNext /\ UNCHANGED <<frame, supplied>>

WireSpec == WireInit /\ [][WireNext]_<<counter, passed, frame, supplied>>

(* What the file or the counter gives each field.                          *)
Supplied == [supplied EXCEPT ![frame.counted] = [shape |-> "uint", is |-> Value]]

Sending ==
  [i \in DOMAIN fields |-> IF Supplied[i] # Absent THEN CoercedTo(fields[i], Supplied[i])
                           ELSE Seeded(fields[i])]

Goes ==
  /\ \A i \in DOMAIN fields : Supplied[i] # Absent => Holds(fields[i], Supplied[i])
  /\ Accepted(fields, Sending)

Bytes == Encode(fields, Sending)

-----------------------------------------------------------------------------
Meant(i) ==
  LET f == fields[i]
      v == IF Supplied[i] # Absent THEN Supplied[i] ELSE Seeded(f)
  IN  [shape |-> ShapeOf(f),
       is |-> CASE f.kind = "enum" /\ v.shape = "text" -> Variant(f, v.is).value
                [] f.kind = "text" -> UpToNul(v.is)
                [] OTHER -> v.is]

(* A frame that is not refused is read back as it was meant, whatever the  *)
(* byte orders, widths and signs: no value is cut down to what fits.       *)
WhatIsSentIsRead ==
  Goes =>
    /\ Decodes(fields, Bytes)
    /\ RangeViolations(fields, Bytes) = {}
    /\ \A i \in DOMAIN fields :
         fields[i].kind # "checksum" => Values(fields, Bytes)[i] = Meant(i)

NoneCoversALaterOne ==
  \A i, j \in DOMAIN fields :
    fields[i].kind = "checksum" /\ fields[j].kind = "checksum" /\ i < j
      => j \notin fields[i].from .. fields[i].to

(* A frame the codec wrote passes its own checks.  Not so when a checksum  *)
(* covers one further on in the frame, which is still blank when it is     *)
(* computed, although "checksum fields are written last, once the bytes    *)
(* they cover exist" (codec.rs:79).                                        *)
OwnChecksumsHold ==
  Goes /\ NoneCoversALaterOne => Mismatches(fields, Bytes) = {}

(* The register of a CRC is the remainder of the data, read as a           *)
(* polynomial, by the one it is named after: long division says the same.  *)
Divided(spec, data) ==
  LET width == spec.width
      long  == FoldLeft(LAMBDA bits, byte :
                          bits \o Reflected(BitsOf(byte, ByteBits), spec.reflectIn), <<>>, data)
                 \o Zeros(width)
      init  == BitsOf(spec.init, width)
      poly  == <<1>> \o BitsOf(spec.poly, width)
      begun == [i \in DOMAIN long |-> IF i <= width THEN (long[i] + init[i]) % 2 ELSE long[i]]
      rest  == FoldLeft(LAMBDA bits, i :
                          [k \in DOMAIN bits |-> IF bits[i] = 1 /\ k \in i .. i + width
                                                 THEN (bits[k] + poly[k - i + 1]) % 2 ELSE bits[k]],
                        begun, [i \in 1 .. Len(long) - width |-> i])
  IN  SubSeq(rest, Len(rest) - width + 1, Len(rest))

CrcIsRemainder ==
  Goes => \A i \in DOMAIN fields :
    fields[i].kind = "checksum" /\ fields[i].spec.how = "crc" =>
      LET spec == fields[i].spec
          data == Covered(fields, i, Bytes)
      IN  Crc(spec, data) = NumberOf(Xored(Reflected(Divided(spec, data), spec.reflectOut),
                                           BitsOf(spec.xorOut, spec.width)))

(* The bytes with some of a byte's length of bits flipped, from bit p on.  *)
Flipped(bytes, p, burst) ==
  [k \in DOMAIN bytes |->
     NumberOf(Xored(BitsOf(bytes[k], ByteBits),
                    [b \in 1 .. ByteBits |->
                       LET at == (k - 1) * ByteBits + b - p IN
                         IF at \in DOMAIN burst THEN burst[at] ELSE 0]))]

Bursts == {burst \in [1 .. ByteBits -> {0, 1}] : burst[1] = 1}

(* Noise no longer than a byte, across a byte boundary or not, in what a   *)
(* checksum covers is reported by it.                                      *)
NoiseIsReported ==
  Goes /\ NoneCoversALaterOne =>
    \A i \in DOMAIN fields :
      fields[i].kind = "checksum" =>
        \A p \in ByteBits * OffsetOf(fields, fields[i].from)
                   .. ByteBits * (OffsetOf(fields, fields[i].to + 1) - 1) :
          \A burst \in Bursts : i \in Mismatches(fields, Flipped(Bytes, p, burst))

(* A frame that has just been opened can be encoded: what its fields start *)
(* at is what their subtypes allow.  Only what the author wrote may not    *)
(* fit, as no default and no variant of an enum is checked on loading.     *)
FreshFrameEncodes ==
  (\A i \in DOMAIN fields :
     LET f == fields[i] IN
       /\ f.default = Absent
       /\ f.kind = "enum" /\ f.variants # <<>> => Fits(Head(f.variants).value, Width(f)))
    => Accepted(fields, [i \in DOMAIN fields |-> Seeded(fields[i])])

(* A frame goes through the codec: what the editor opens can be sent, and  *)
(* what is sent is read as it was meant (codec.rs:57-119, 363-387).        *)
FramesGoThrough == FreshFrameEncodes /\ WhatIsSentIsRead

(* A checksum tells a good frame from a bad one and is the one it is named *)
(* after (checksum.rs:146-178, codec.rs:102-119).                          *)
ChecksumsTell == OwnChecksumsHold /\ NoiseIsReported /\ CrcIsRemainder
=============================================================================
