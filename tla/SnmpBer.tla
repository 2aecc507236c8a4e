------------------------------ MODULE SnmpBer ------------------------------
(* The elements of an SNMP packet: integers, strings, object identifiers and *)
(* the headers before them, as decode_snmp_element_* and                     *)
(* encode_snmp_element_* of protocol.c read and write them, with the sizes   *)
(* of MIB entries (mib.c), and as a manager writes them, in BER.             *)
(*                                                                           *)
(* A packet is a sequence of bytes.  Positions count, as in the code, the    *)
(* bytes before them.                                                        *)
EXTENDS Integers, Sequences, FiniteSets, SequencesExt

CONSTANTS
    MaxPacket,      \* MAX_PACKET_SIZE
    MaxSubids,      \* MAX_NR_SUBIDS
    IntBytes        \* sizeof (int)

ASSUME BerAssumption ==
    /\ {MaxPacket, MaxSubids, IntBytes} \subseteq Nat \ {0}
    /\ MaxPacket < 65536 /\ MaxSubids >= 2 /\ IntBytes < 128

Integer     == 2
OctetString == 4
Null        == 5
Oid         == 6
Sequence    == 48
Response    == 162

\* The element types decode_snmp_element_type_length lets pass.
Types == {1, Integer, 3, OctetString, Null, Oid, Sequence, 65, 66, 67,
          128, 129, 130, 160, 161, Response, 163, 165, 166, 167}

Least(S) == CHOOSE n \in S : \A m \in S : n <= m

\* One number of a start and the digits behind it, high ones first.
Number(start, digits, base) ==
    LET n[i \in 0 .. Len(digits)] == IF i = 0 THEN start ELSE n[i - 1] * base + digits[i]
    IN  n[Len(digits)]

Power(base, k) == Number(1, [i \in 1 .. k |-> 0], base)

\* The lowest k digits of a number, of its complement if it is negative.
Digits(n, base, k) == [i \in 1 .. k |-> (n \div Power(base, k - i)) % base]

IntBase     == Power(256, IntBytes)
Septets     == ((8 * IntBytes) \div 7) + 1
Integers(k) == -(Power(256, k) \div 2) .. Power(256, k) \div 2 - 1

Byte == 0 .. 255

-----------------------------------------------------------------------------
(* BER, as a manager writes and reads it.                                    *)

BerLength(n, form) ==
    IF n < 128 /\ form = 0 THEN <<n>>
    ELSE IF n < 256 /\ form < 2 THEN <<129, n>>
    ELSE <<130>> \o Digits(n, 256, 2)

Ber(type, body, form) == <<type>> \o BerLength(Len(body), form) \o body

\* Two's complement in as few bytes as hold the number.
BerInteger(v, form) ==
    LET k == Least({j \in 1 .. IntBytes : v \in Integers(j)})
    IN  Ber(Integer, Digits(v, 256, k), form)

BerSubid(n) ==
    LET k == Least({j \in 1 .. Septets : n < Power(128, j)})
    IN  [i \in 1 .. k |-> Digits(n, 128, k)[i] + (IF i < k THEN 128 ELSE 0)]

BerOid(o, form) ==
    Ber(Oid, <<40 * o[1] + o[2]>> \o FlattenSeq([i \in 1 .. Len(o) - 2 |-> BerSubid(o[i + 2])]),
        form)

\* OIDs that BER has a first byte for, of the first 40 there are of each kind.
Oids == {o \in Seq(0 .. IntBase - 1) : Len(o) >= 2 /\ o[1] \in 0 .. 2 /\ o[2] \in 0 .. 39}

-----------------------------------------------------------------------------
(* Decoding.                                                                 *)

NoElement == [ok |-> FALSE]

\* How many bytes of a length follow its first.
More(byte) == IF byte < 128 THEN 0 ELSE byte - 128

\* BUG: a length in two bytes has its low byte first.
BugLengthAt(b, at) ==
    IF b[at + 1] < 128 THEN b[at + 1]
    ELSE Number(0, Reverse(SubSeq(b, at + 2, at + 1 + More(b[at + 1]))), 256)

LengthAt(b, at) ==
    IF b[at + 1] < 128 THEN b[at + 1]
    ELSE Number(0, SubSeq(b, at + 2, at + 1 + More(b[at + 1])), 256)

\* decode_snmp_element_type_length: lengths of up to two bytes.
Element(b, at) ==
    LET more == More(b[at + 2])
    IN  IF ~(/\ at + 2 <= Len(b) /\ b[at + 1] \in Types
             /\ more <= 2 /\ at + 2 + more <= Len(b)) THEN NoElement
        ELSE [ok |-> TRUE, type |-> b[at + 1], at |-> at + 2 + more, len |-> LengthAt(b, at + 1)]

After(e) == e.at + e.len

\* *pos < size - length + 1, in size_t: a length above size + 1 passes as well.
\* The element then ends beyond the packet, where no further one is found.
Fits(b, e) == e.len > Len(b) + 1 \/ e.at < Len(b) - e.len + 1

Is(b, e, type) == e.ok /\ e.type = type /\ e.len >= 1 /\ Fits(b, e)

\* To the end of the packet, as all headers but those of variables.
Rest(b, e) == e.ok /\ e.len = Len(b) - e.at

Bytes(b, e) == SubSeq(b, e.at + 1, After(e))

\* BUG: the sign bit is not copied into the bytes before.
BugIntegerOf(bytes) == Number(0, bytes, 256)

\* decode_snmp_element_value_integer: the low bytes of the number, with the sign
\* in those that are missing.
IntegerOf(bytes) ==
    LET n == Number(IF Head(bytes) < 128 THEN 0 ELSE -1, bytes, 256) % IntBase
    IN  IF n < IntBase \div 2 THEN n ELSE n - IntBase

\* decode_snmp_element_value_string makes a C string: it ends at a zero byte.
StringOf(bytes) ==
    LET zeros == {i \in DOMAIN bytes : bytes[i] = 0}
    IN  IF zeros = {} THEN bytes ELSE SubSeq(bytes, 1, Least(zeros) - 1)

HeaderLength(n) == IF n > 255 THEN 4 ELSE IF n > 127 THEN 3 ELSE 2

\* The loop of decode_snmp_element_value_oid over the bytes after the first: a
\* subid is begun with 0 and keeps its low bits.
Subids(s, bytes) ==
    LET scan[i \in 0 .. Len(bytes)] ==
            IF i = 0 THEN s
            ELSE LET t == scan[i - 1]
                     v == (t.value * 128 + (bytes[i] % 128)) % IntBase
                 IN  IF bytes[i] >= 128 THEN [subids |-> t.subids, value |-> v]
                     ELSE [subids |-> Append(t.subids, v), value |-> 0]
    IN  scan[Len(bytes)]

\* decode_snmp_element_value_oid: no OID when it starts with a byte from 128 on,
\* ends inside a subid, or has too many of them.
NoOid == [subids |-> <<>>, size |-> 0]
OidOf(bytes) ==
    LET first == <<bytes[1] \div 40, bytes[1] % 40>>
        read  == Subids([subids |-> first, value |-> 0], Tail(bytes)).subids
    IN  IF bytes[1] >= 128 \/ Last(bytes) >= 128 \/ Len(read) > MaxSubids THEN NoOid
        ELSE [subids |-> read, size |-> Len(bytes) + HeaderLength(Len(bytes))]

-----------------------------------------------------------------------------
(* Encoding, from the last byte of the buffer backwards.                     *)

Refused == <<256>>      \* -1: the buffer does not hold it
Stale   == 257          \* a byte that is left as it was in the buffer

\* BUG: what is encoded may use the last byte before the buffer.
BugPlace(acc, n, b) ==
    IF acc = Refused \/ Len(acc) + n > MaxPacket + 1 THEN Refused
    ELSE [i \in 1 .. n |-> IF i <= Len(b) THEN b[i] ELSE Stale]
         \o SubSeq(b, n + 1, Len(b)) \o SubSeq(acc, IF Len(b) > n THEN Len(b) - n + 1 ELSE 1, Len(acc))

\* n bytes are set aside before what is there already, if there is room, and
\* b is written from the first of them on: it may be shorter or longer than n.
Place(acc, n, b) ==
    IF acc = Refused \/ Len(acc) + n > MaxPacket THEN Refused
    ELSE [i \in 1 .. n |-> IF i <= Len(b) THEN b[i] ELSE Stale]
         \o SubSeq(b, n + 1, Len(b)) \o SubSeq(acc, IF Len(b) > n THEN Len(b) - n + 1 ELSE 1, Len(acc))

LengthBytes(n) ==
    CASE n > 255               -> <<130>> \o Digits(n, 256, 2)
      [] n > 127 /\ n <= 255   -> <<129, n>>
      [] OTHER                 -> <<n>>

\* The bytes of an integer.
IntegerLength(v) == Least({k \in 1 .. IntBytes : k = IntBytes \/ v \in Integers(k)})

EncodeInteger(v) ==
    LET k == IntegerLength(v)
    IN  <<Integer, k>> \o Digits(v, 256, k)

\* The bytes of a subid, seven bits in each.
SubidLength(n) == Least({k \in 1 .. Septets : n < Power(128, k)})

OidLength(o) ==
    LET length[i \in 0 .. Len(o) - 2] ==
            IF i = 0 THEN 1 ELSE length[i - 1] + SubidLength(o[i + 2])
    IN  length[Len(o) - 2]

EncodeOid(o) ==
    LET Subid(n) == [i \in 1 .. SubidLength(n) |->
                        Digits(n, 128, SubidLength(n))[i] + (IF i < SubidLength(n) THEN 128 ELSE 0)]
    IN  <<Oid>> \o LengthBytes(OidLength(o)) \o <<o[1] * 40 + o[2]>>
        \o FlattenSeq([i \in 1 .. Len(o) - 2 |-> Subid(o[i + 2])])

\* BUG: the header of the OID is not counted.
BugMibOid(o) == [subids |-> o, size |-> OidLength(o)]

\* An entry of the MIB is stored with the size of its OID (mib_build_entry).
MibOid(o) == [subids |-> o, size |-> OidLength(o) + HeaderLength(OidLength(o))]

PutInteger(acc, v)      == Place(acc, IntegerLength(v) + 2, EncodeInteger(v))
PutHeader(acc, n, type) == Place(acc, HeaderLength(n), <<type>> \o LengthBytes(n))
PutString(acc, s)       == Place(acc, Len(s) + HeaderLength(Len(s)),
                                 <<OctetString>> \o LengthBytes(Len(s)) \o s)
=============================================================================
