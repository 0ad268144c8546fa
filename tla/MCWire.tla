------------------------------- MODULE MCWire -------------------------------
(* Frames for TLC: bytes of two bits, a field of every kind, and every     *)
(* kind of checksum, before and after what it covers.                      *)
EXTENDS Wire

Plain(kind, size, endian) ==
  [kind |-> kind, size |-> size, endian |-> endian, range |-> Absent, default |-> Absent]
Within(f, min, max) == [f EXCEPT !.range = [min |-> min, max |-> max]]
Enum(size, variants) == Plain("enum", size, "little") @@ [variants |-> variants]
BitField(size, widths) == Plain("bits", size, "big") @@ [widths |-> widths]
Check(spec, size, endian, from, to) ==
  Plain("checksum", size, endian) @@ [spec |-> spec, from |-> from, to |-> to]

Xor == [how |-> "xor"]
Sum == [how |-> "sum"]
Crc1 == [how |-> "crc", width |-> 2, poly |-> 3, init |-> 0, reflectIn |-> FALSE,
         reflectOut |-> FALSE, xorOut |-> 0]
Crc2 == [Crc1 EXCEPT !.width = 4, !.init = 15]
Crc2Reflected == [Crc2 EXCEPT !.reflectIn = TRUE, !.reflectOut = TRUE, !.xorOut = 15]

As(shape, is) == [shape |-> shape, is |-> is]
Whatever == Absent

Modes == <<[name |-> "off", value |-> 0], [name |-> "on", value |-> 2], [name |-> "bad", value |-> 5]>>

Numbered ==
  [fields |-> <<Plain("uint", 2, "big"), Enum(1, Modes), Check(Crc2Reflected, 2, "little", 1, 2)>>,
   counted |-> 1,
   supplies |-> {<<Whatever, v, Absent>> : v \in {As("uint", 2), As("int", 3), As("text", "on")}}]

(* An enum that starts at a variant, which fits or does not.               *)
Named(name) ==
  [fields |-> <<[Enum(1, Modes) EXCEPT !.default = As("text", name)], Plain("int", 1, "big")>>,
   counted |-> 2,
   supplies |-> {<<Absent, Whatever>>}]

Headed ==
  [fields |-> <<Check(Crc1, 1, "big", 2, 3), Within(Plain("int", 2, "little"), -5, 4),
                [Within(Plain("int", 1, "big"), -2, -1) EXCEPT !.default = As("int", -1)]>>,
   counted |-> 2,
   supplies |-> {<<Absent, Whatever, v>> : v \in {Absent, As("int", -2), As("uint", 1)}}]

Packed ==
  [fields |-> <<BitField(1, <<1, 1>>), Plain("text", 2, "big"), Within(Plain("uint", 1, "big"), 1, 2),
                Check(Sum, 1, "big", 1, 3), Check(Sum, 2, "little", 1, 4)>>,
   counted |-> 3,
   supplies |-> {<<As("bits", <<1, 0>>), As("text", t), Whatever, Absent, Absent>> :
                   t \in {<<3>>, <<3, 1>>, <<0, 2>>}}
                \cup {<<As("bits", <<0, 2>>), As("text", <<>>), Whatever, Absent, Absent>>}]

Bare ==
  [fields |-> <<Within(Plain("int", 2, "big"), -6, -3), Plain("bytes", 2, "big"),
                Plain("int", 1, "little"), Check(Crc2, 2, "big", 1, 3), Check(Xor, 1, "big", 1, 2)>>,
   counted |-> 3,
   supplies |-> {<<As("int", -6), As("bytes", b), Whatever, Absent, Absent>> :
                   b \in {<<1, 3>>, <<1>>}}]

(* A checksum over a later one, and an enum none of whose variants fits.   *)
Backward ==
  [fields |-> <<Check(Sum, 1, "big", 2, 3), Plain("uint", 1, "big"), Check(Xor, 1, "big", 2, 2),
                Enum(1, <<[name |-> "bad", value |-> 5]>>)>>,
   counted |-> 2,
   supplies |-> {<<Absent, Whatever, Absent, As("uint", 1)>>}]

AllFrames == {Numbered, Named("on"), Named("bad"), Headed, Packed, Bare, Backward}
=============================================================================
