----------------------------- MODULE WireFormat -----------------------------
(***************************************************************************)
(* The format of the binary wires: a message is a sequence of fields, each *)
(* a key (its tag and wire type) and a number or bytes.  WireCodec has the *)
(* schemas that say which fields, and what they mean.                      *)
(***************************************************************************)
EXTENDS Integers, Sequences

CONSTANTS
    Malformed, \* the error of a frame that cannot be read
    Word       \* 2^32, in small

Byte == 0..255

\* A field on the wire: of wire type 0 with a number, or of wire type 2 with bytes.
WireField ==
    {f \in [tag : Nat, wire : {0, 2}, num : Nat, bytes : Seq(Byte)] :
        IF f.wire = 0 THEN f.bytes = <<>> ELSE f.num = 0}
NumField(tag, n) == [tag |-> tag, wire |-> 0, num |-> n, bytes |-> <<>>]
BytesField(tag, s) == [tag |-> tag, wire |-> 2, num |-> 0, bytes |-> s]

\* What is taken from the front of a frame, and the rest of it.
Taken(num, bytes, rest) == [num |-> num, bytes |-> bytes, rest |-> rest]

\* 2^32 itself is out of TLC's reach.  An error is not a result.
ASSUME FormatAssumption ==
    /\ Word \in Nat \ {0} /\ Word % 2 = 0 /\ Word \div 16 <= 128 * 128 * 128 * 128
    /\ Malformed \notin [num : Nat, bytes : Seq(Byte), rest : Seq(Byte)]
    /\ Malformed \notin [field : WireField, rest : Seq(Byte)]
    /\ Malformed \notin Seq(WireField)

---------------------------------------------------------------------------
(* Writer.                                                                 *)

Varint[n \in Nat] == IF n < 128 THEN <<n>> ELSE <<(n % 128) + 128>> \o Varint[n \div 128]

LenBytes(s) == Varint[Len(s)] \o s

\* (n << 1) ^ (n >> 31), of n as an int32.
Signed(n) == ((n + (Word \div 2)) % Word) - (Word \div 2)
ZigZag(n) == IF Signed(n) >= 0 THEN 2 * Signed(n) ELSE -2 * Signed(n) - 1
Unsigned(n) == n % Word

FieldBytes(f) == Varint[8 * f.tag + f.wire] \o (IF f.wire = 0 THEN Varint[f.num] ELSE LenBytes(f.bytes))

WriteAll[fields \in Seq(WireField)] ==
    IF fields = <<>> THEN <<>> ELSE FieldBytes(Head(fields)) \o WriteAll[Tail(fields)]

---------------------------------------------------------------------------
(* Reader.                                                                 *)

MaxVarintBytes == 8
Ends(s) == {i \in DOMAIN s : s[i] < 128}
FirstEnd(s) == CHOOSE i \in Ends(s) : \A j \in Ends(s) : i <= j

Value[s \in Seq(Byte)] == IF s = <<>> THEN 0 ELSE (Head(s) % 128) + 128 * Value[Tail(s)]

\* The number whose last byte is at end.
TakeUpTo(s, end) ==
    IF end > MaxVarintBytes THEN Malformed
    ELSE Taken(Value[SubSeq(s, 1, end)], <<>>, SubSeq(s, end + 1, Len(s)))

TakeVarint(s) == IF Ends(s) = {} THEN Malformed ELSE TakeUpTo(s, FirstEnd(s))

\* The bytes that a length announces.
BytesAfter(len) ==
    IF len = Malformed THEN Malformed
    ELSE IF len.num > Len(len.rest) THEN Malformed
    ELSE Taken(0, SubSeq(len.rest, 1, len.num), SubSeq(len.rest, len.num + 1, Len(len.rest)))

TakeBytes(s) == BytesAfter(TakeVarint(s))

Take(wireType, s) ==
    CASE wireType = 0 -> TakeVarint(s)
      [] wireType = 2 -> TakeBytes(s)
      [] OTHER -> Malformed

\* The field of a key and what comes after it.
FieldOf(key, value) ==
    IF value = Malformed THEN Malformed
    ELSE [field |-> [tag |-> key.num \div 8, wire |-> key.num % 8, num |-> value.num, bytes |-> value.bytes],
          rest |-> value.rest]

FieldAfter(key) == IF key = Malformed THEN Malformed ELSE FieldOf(key, Take(key.num % 8, key.rest))
TakeField(s) == FieldAfter(TakeVarint(s))

ReadAll[s \in Seq(Byte)] ==
    LET first == TakeField(s)
        others == ReadAll[first.rest]
    IN  IF s = <<>> THEN <<>>
        ELSE IF first = Malformed THEN Malformed
        ELSE IF others = Malformed THEN Malformed
        ELSE <<first.field>> \o others

UnZigZag(n) == IF n % 2 = 0 THEN n \div 2 ELSE -((n + 1) \div 2)
=============================================================================
