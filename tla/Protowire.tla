------------------------------- MODULE Protowire -------------------------------
(* The protocol-buffer wire format as the generated code of                 *)
(* api/sink/v1/sink_vtproto.pb.go reads and writes it: the pieces that      *)
(* occur again and again in its functions, written once.                    *)
(*                                                                          *)
(* Bytes are 0 .. 255 and a byte string is a sequence of them.  A number is *)
(* the sequence of its base-128 digits, the lowest first, without leading   *)
(* zeros (zero is << >>), so that 64-bit values keep their width; an int32  *)
(* enum is the number of its 32-bit pattern.  A nil pointer is Nil.         *)
EXTENDS Integers, Sequences, FiniteSetsExt

CONSTANT Nil

--------------------------------------------------------------------------------
(* Numbers *)

\* What of the digits d a variable of 32 or of 64 bits keeps; later digits are
\* shifted out of it.
Trim(d) == LET nonzero == {i \in DOMAIN d : d[i] # 0}
           IN SubSeq(d, 1, IF nonzero = {} THEN 0 ELSE Max(nonzero))
Uint32(d) == Trim([i \in 1 .. Min({Len(d), 5}) |-> IF i = 5 THEN d[i] % 16 ELSE d[i]])
Uint64(d) == Trim([i \in 1 .. Min({Len(d), 10}) |-> IF i = 10 THEN d[i] % 2 ELSE d[i]])
Bool(d) == Uint64(d) # << >>

\* uint64(x) of an int32 x: bit 31 fills the upper half.
SignExtended(d) ==
    IF Len(d) = 5 /\ d[5] >= 8
    THEN [SubSeq(d, 1, 5) EXCEPT ![5] = @ + 112] \o <<127, 127, 127, 127, 1>>
    ELSE d

\* A count of bytes.  The length prefix of gRPC has 32 bits, so that no count
\* has more than five digits.
Weight == <<1, 128, 16384, 2097152, 268435456>>
Digits(n) == Trim([i \in 1 .. 5 |-> (n \div Weight[i]) % 128])

--------------------------------------------------------------------------------
(* Writing.  A Marshal function fills its buffer from the end, the last     *)
(* field first; these operators give the bytes one field leaves there.      *)

EncodeVarint(d) ==
    IF d = << >> THEN <<0>>
    ELSE [i \in DOMAIN d |-> IF i < Len(d) THEN d[i] + 128 ELSE d[i]]

SizeOfVarint(d) == IF d = << >> THEN 1 ELSE Len(d)

\* A field of a given length: its tag byte, the length and the content.
Delimited(tag, bytes) == <<tag>> \o EncodeVarint(Digits(Len(bytes))) \o bytes
SizeDelimited(n) == 1 + n + SizeOfVarint(Digits(n))

\* Scalars are written unless they have their zero value.
UintField(tag, d) == IF d = << >> THEN << >> ELSE <<tag>> \o EncodeVarint(d)
SizeUint(d) == IF d = << >> THEN 0 ELSE 1 + SizeOfVarint(d)
EnumField(tag, d) == UintField(tag, SignExtended(d))
SizeEnum(d) == SizeUint(SignExtended(d))
BoolField(tag, b) == IF b THEN <<tag, 1>> ELSE << >>
SizeBool(b) == IF b THEN 2 ELSE 0
BytesField(tag, bytes) == IF bytes = << >> THEN << >> ELSE Delimited(tag, bytes)
SizeBytes(bytes) == IF bytes = << >> THEN 0 ELSE SizeDelimited(Len(bytes))

\* The loops over a repeated field, one element after the other.
Elements(tag, contents) ==
    LET written[n \in 0 .. Len(contents)] ==
            IF n = 0 THEN << >> ELSE written[n - 1] \o Delimited(tag, contents[n])
    IN  written[Len(contents)]
SizeElements(lengths) ==
    LET size[n \in 0 .. Len(lengths)] ==
            IF n = 0 THEN 0 ELSE size[n - 1] + SizeDelimited(lengths[n])
    IN  size[Len(lengths)]

\* Messages are written unless nil; each element of a repeated field is, a nil
\* element as an empty message.
MessageField(tag, m, Marshal(_)) == IF m = Nil THEN << >> ELSE Delimited(tag, Marshal(m))
SizeMessage(m, Size(_)) == IF m = Nil THEN 0 ELSE SizeDelimited(Size(m))
RepeatedField(tag, ms, Marshal(_)) ==
    Elements(tag, [i \in DOMAIN ms |-> IF ms[i] = Nil THEN << >> ELSE Marshal(ms[i])])
SizeRepeated(ms, Size(_)) ==
    SizeElements([i \in DOMAIN ms |-> IF ms[i] = Nil THEN 0 ELSE Size(ms[i])])

================================================================================
