---------------------------- MODULE ProtowireReader ----------------------------
(* The loop that every UnmarshalVT of api/sink/v1/sink_vtproto.pb.go has,   *)
(* and the skipping of what it does not know.  Every error that it can      *)
(* return is Error: callers drop the message whatever the error is.         *)
EXTENDS Protowire, SequencesExt

CONSTANT Error

ASSUME NilIsNotError == Nil # Error

VARINT == 0
LEN == 2

VarintOf(dAtA, i, n) ==
    [ok |-> TRUE, val |-> [k \in 1 .. n |-> dAtA[i + k - 1] % 128], next |-> i + n]

\* The varint at position i of dAtA: its digits and the position after it.  It
\* has at most ten bytes (shift < 64) and does not run over the end.
Varint(dAtA, i) ==
    LET ends == {n \in 1 .. 10 : i + n - 1 <= Len(dAtA) /\ dAtA[i + n - 1] < 128}
    IN  IF ends = {} THEN [ok |-> FALSE, val |-> << >>, next |-> i]
        ELSE VarintOf(dAtA, i, Min(ends))

\* Position after content of the length that was read.  Lengths of 2^28 and
\* more end beyond every buffer, or are negative as an int: 0 is no position.
EndOfDelimited(length) ==
    LET d == Uint64(length.val)
    IN  IF ~length.ok \/ Len(d) > 4 THEN 0
        ELSE length.next + FoldRight(LAMBDA digit, rest : digit + 128 * rest, d, 0)

\* The position after the content of a field of the given wire type that stands
\* at i and starts with value, if with a varint; or 0.  The content of a group
\* starts at once.
AfterContent(value, i, type) ==
    CASE type = 0 -> IF value.ok THEN value.next ELSE 0
      [] type = 1 -> i + 8
      [] type = 2 -> EndOfDelimited(value)
      [] type \in {3, 4} -> i
      [] type = 5 -> i + 4
      [] OTHER -> 0

\* The wire type of the tag that was read.
WireType(wire) == wire.val[1] % 8

\* The position after the tag that was read and its content, or 0.
AfterField(dAtA, wire) ==
    IF ~wire.ok THEN 0 ELSE AfterContent(Varint(dAtA, wire.next), wire.next, WireType(wire))

\* How deep in groups the skipping is after a tag.
DepthAfter(wire, depth) ==
    CASE WireType(wire) = 3 -> depth + 1
      [] WireType(wire) = 4 -> depth - 1
      [] OTHER -> depth

\* Faulty variant: a group is taken for a field without content.
SkipFlat(dAtA, wire, depth) == AfterField(dAtA, wire)

\* protohelpers.Skip: the position after the unknown field whose tag was read,
\* with all of a group's fields, or 0.
RECURSIVE Skip(_, _, _)
Skip(dAtA, wire, depth) ==
    LET after == AfterField(dAtA, wire)
        inside == DepthAfter(wire, depth)
    IN  IF after = 0 \/ inside < 0 THEN 0
        ELSE IF inside = 0 THEN after
        ELSE IF after > Len(dAtA) THEN 0
        ELSE Skip(dAtA, Varint(dAtA, after), inside)

\* fieldNum := int32(wire >> 3); negative values and zero are refused alike.
FieldNum(d) ==
    LET At(i) == IF i <= Len(d) THEN d[i] ELSE 0
    IN IF At(5) >= 64 THEN 0
       ELSE At(1) \div 8 + 16 * At(2) + 2048 * At(3) + 262144 * At(4) + 33554432 * At(5)

Bad == [ok |-> FALSE]

\* Faulty variant: a content that runs over the end is taken as far as it goes.
ContentClipped(dAtA, num, from, next) ==
    IF next = 0 THEN Bad
    ELSE [ok |-> TRUE, num |-> num, val |-> SubSeq(dAtA, from, Min({next - 1, Len(dAtA)})),
          next |-> next]

\* A field whose content are the bytes from one position up to another one.
Content(dAtA, num, from, next) ==
    IF next = 0 \/ next > Len(dAtA) + 1 THEN Bad
    ELSE [ok |-> TRUE, num |-> num, val |-> SubSeq(dAtA, from, next - 1), next |-> next]

\* A field that the message knows: a length and its content, or a number.
Known(dAtA, num, type, value) ==
    IF ~value.ok THEN Bad
    ELSE IF type = LEN THEN Content(dAtA, num, value.next, EndOfDelimited(value))
    ELSE [ok |-> TRUE, num |-> num, val |-> value.val, next |-> value.next]

\* One turn of the loop of an UnmarshalVT: the field at position i.  types are
\* the wire types of the fields the message knows, by number; a field it does
\* not know is taken as it stands, with number 0.
Field(dAtA, i, types, wire, num) ==
    IF ~wire.ok \/ WireType(wire) = 4 \/ num = 0 THEN Bad
    ELSE IF num \notin DOMAIN types THEN Content(dAtA, 0, i, Skip(dAtA, wire, 0))
    ELSE IF WireType(wire) # types[num] THEN Bad
    ELSE Known(dAtA, num, types[num], Varint(dAtA, wire.next))

FieldAt(dAtA, i, types) ==
    LET wire == Varint(dAtA, i)
    IN  Field(dAtA, i, types, wire, FieldNum(wire.val))

RECURSIVE FieldsFrom(_, _, _)
FieldsFrom(dAtA, i, types) ==
    IF i > Len(dAtA) THEN << >>
    ELSE LET f == FieldAt(dAtA, i, types)
         IN IF f.ok THEN <<f>> \o FieldsFrom(dAtA, f.next, types) ELSE <<Bad>>

\* UnmarshalVT: the fields of dAtA are applied to m in their order, Case being
\* the cases of the switch; unknown fields are appended as they stand.
Unmarshal(m, dAtA, types, Case(_, _)) ==
    FoldLeft(LAMBDA x, f : IF x = Error \/ ~f.ok THEN Error
                           ELSE IF f.num = 0 THEN [x EXCEPT !.unknownFields = @ \o f.val]
                           ELSE Case(x, f),
             m, FieldsFrom(dAtA, 1, types))

\* A nested message replaces the field unless its own UnmarshalVT failed.
Nested(x, field, decoded) == IF decoded = Error THEN Error ELSE [x EXCEPT ![field] = decoded]
Appended(x, field, decoded) ==
    IF decoded = Error THEN Error ELSE [x EXCEPT ![field] = Append(@, decoded)]
OrNew(m, new) == IF m = Nil THEN new ELSE m

================================================================================
