----------------------------- MODULE SnmpCodec -----------------------------
(* The packets of the SNMP agent: decoding a request and encoding the        *)
(* response over it (decode_snmp_request and encode_snmp_response in         *)
(* protocol.c), and managers that use BER as it is.                          *)
(*                                                                           *)
(* What the handlers answer is SnmpMib's: here it is any response the code   *)
(* can have to encode.                                                       *)
EXTENDS SnmpBer

CONSTANTS
    MinPacket,      \* the 25 bytes of snmp_packet_complete
    MaxOids,        \* MAX_NR_OIDS
    MaxString,      \* MAX_STRING_SIZE
    Messages,       \* requests managers send
    Forms,          \* how many length bytes they use at least: 0, 1 or 2
    Results         \* results to encode: a status, an index, and for status 0
                    \* the OIDs (or <<>>: those of the request), how often, and
                    \* the value each is given

\* The shortest request with a variable has 28 bytes.
ASSUME CodecAssumption ==
    /\ {MaxOids, MaxString} \subseteq Nat \ {0} /\ MinPacket \in 1 .. 28
    /\ Forms \subseteq 0 .. 2

VARIABLES
    sent,       \* the message a manager has sent
    packet,     \* client->packet[0 .. size-1]
    request,    \* what decode_snmp_request made of it
    result,     \* what is to be encoded
    stage       \* "idle", "received", "decoded", "handled", "answered", "refused"

vars == <<sent, packet, request, result, stage>>

-----------------------------------------------------------------------------
(* Messages, as a manager writes and reads them.                             *)

\* binds: pairs of an OID and the element that is its value.
BerMessage(version, community, type, numbers, binds, form) ==
    LET Bind(v) == Ber(Sequence, BerOid(v[1], form) \o v[2], form)
        list    == Ber(Sequence, FlattenSeq([i \in 1 .. Len(binds) |-> Bind(binds[i])]), form)
        pdu     == BerInteger(numbers[1], form) \o BerInteger(numbers[2], form)
                   \o BerInteger(numbers[3], form) \o list
    IN  Ber(Sequence, BerInteger(version, form) \o Ber(OctetString, community, form)
                      \o Ber(type, pdu, form), form)

\* A message of Messages: its variables have values of any type.
BerRequest(m, form) ==
    BerMessage(m.version, m.community, m.type, m.numbers,
               [i \in 1 .. Len(m.vars) |->
                   <<m.vars[i].oid, Ber(m.vars[i].type, m.vars[i].body, form)>>], form)

\* What managers send: communities are C strings, and a message is no longer than
\* the buffer it is received in.
ASSUME MessageAssumption ==
    /\ Messages \subseteq [version : Integers(IntBytes), community : Seq(1 .. 255), type : Byte,
                           numbers : [1 .. 3 -> Integers(IntBytes)],
                           vars : Seq([oid : Oids, type : Byte, body : Seq(Byte)])]
    /\ \A m \in Messages, form \in Forms : Len(BerRequest(m, form)) <= MaxPacket

ASSUME ResultAssumption ==
    Results \subseteq [status : Integers(IntBytes), index : Integers(IntBytes), oids : Seq(Oids),
                      times : Nat, data : Seq(Byte)]

-----------------------------------------------------------------------------
(* Decoding and encoding.                                                    *)

NoRequest == [ok |-> FALSE]

\* One variable binding; the code decodes the OID before it looks at the value,
\* and gives up at either.
Varbind(b, s) ==
    LET bind == Element(b, s.at)
        name == Element(b, bind.at)
        val  == Element(b, After(name))
    IN  IF /\ bind.ok /\ bind.type = Sequence /\ bind.len >= 1
           /\ Is(b, name, Oid)
           /\ val.ok /\ (val.type = Null) = (val.len = 0) /\ Fits(b, val)
           /\ OidOf(Bytes(b, name)) # NoOid
        THEN [ok |-> TRUE, at |-> After(val), oids |-> Append(s.oids, OidOf(Bytes(b, name)))]
        ELSE [s EXCEPT !.ok = FALSE]

\* The loop over the variable bindings, MAX_NR_OIDS at most.
Varbinds(b, at) ==
    LET loop[n \in 0 .. MaxOids] ==
            IF n = 0 THEN [ok |-> TRUE, at |-> at, oids |-> <<>>]
            ELSE LET s == loop[n - 1]
                 IN  IF ~s.ok \/ s.at >= Len(b) THEN s ELSE Varbind(b, s)
        end == loop[MaxOids]
    IN  [end EXCEPT !.ok = @ /\ end.at >= Len(b)]

\* decode_snmp_request.
DecodeRequest(b) ==
    LET msg == Element(b, 0)
        ver == Element(b, msg.at)
        com == Element(b, After(ver))
        pdu == Element(b, After(com))
        id  == Element(b, pdu.at)
        non == Element(b, After(id))
        max == Element(b, After(non))
        lst == Element(b, After(max))
        end == Varbinds(b, lst.at)
    IN  IF /\ Rest(b, msg) /\ msg.type = Sequence
           /\ Is(b, ver, Integer) /\ ver.len = 1 /\ IntegerOf(Bytes(b, ver)) \in {0, 1}
           /\ com.ok /\ com.type = OctetString /\ com.len < MaxString /\ Fits(b, com)
           /\ Rest(b, pdu) /\ StringOf(Bytes(b, com)) # <<>>
           /\ Is(b, id, Integer) /\ Is(b, non, Integer) /\ Is(b, max, Integer)
           /\ Rest(b, lst) /\ lst.type = Sequence
           /\ end.ok
        THEN [ok        |-> TRUE,
              version   |-> IntegerOf(Bytes(b, ver)),
              community |-> StringOf(Bytes(b, com)),
              type      |-> pdu.type,
              numbers   |-> <<IntegerOf(Bytes(b, id)), IntegerOf(Bytes(b, non)),
                              IntegerOf(Bytes(b, max))>>,
              oids      |-> end.oids]
        ELSE NoRequest

\* snmp_packet_complete: -1, 0 or 1.
PacketComplete(b) ==
    LET e == Element(b, 0) IN
    CASE Len(b) < MinPacket -> 0
      [] Len(b) >= MinPacket /\ ~(e.ok /\ e.type = Sequence
                                  /\ e.len \in 1 .. Len(b) - e.at) -> -1
      [] OTHER -> IF Rest(b, e) THEN 1 ELSE 0

\* encode_snmp_varbind: the value, the OID before it, their header before both.
PutVarbind(acc, v) ==
    LET val  == Place(acc, Len(v.data), v.data)
        name == Place(val, v.oid.size, EncodeOid(v.oid.subids))
    IN  PutHeader(name, v.oid.size + Len(v.data), Sequence)

\* encode_snmp_response; a failed request has its own OIDs returned, with null.
EncodeResponse(q, r) ==
    LET list  == IF r.status = 0 THEN r.vars
                 ELSE [i \in 1 .. Len(q.oids) |-> [oid |-> q.oids[i], data |-> <<Null, 0>>]]
        put[k \in 0 .. Len(list)] ==
            IF k = 0 THEN <<>> ELSE PutVarbind(put[k - 1], list[Len(list) + 1 - k])
        binds == put[Len(list)]
        nums  == PutInteger(PutInteger(PutInteger(PutHeader(binds, Len(binds), Sequence),
                            r.index), r.status), q.numbers[1])
        pdu   == PutHeader(nums, Len(nums), Response)
        msg   == PutInteger(PutString(pdu, q.community), q.version)
    IN  PutHeader(msg, Len(msg), Sequence)

-----------------------------------------------------------------------------
(* A request and its answer.                                                 *)

Init ==
    /\ sent = NoRequest /\ packet = <<>> /\ request = NoRequest
    /\ result = NoRequest /\ stage = "idle"

\* A manager writes a message, in any of the forms BER allows for lengths.
Send ==
    /\ stage = "idle"
    /\ \E m \in Messages, form \in Forms :
          /\ sent' = m
          /\ packet' = BerRequest(m, form)
    /\ stage' = "received"
    /\ UNCHANGED <<request, result>>

Decode ==
    /\ stage = "received"
    /\ request' = DecodeRequest(packet)
    /\ stage' = IF request'.ok THEN "decoded" ELSE "refused"
    /\ UNCHANGED <<sent, packet, result>>

\* The handlers: an error, or values for OIDs of the MIB or of the request.
Handle ==
    /\ stage = "decoded"
    /\ \E r \in Results :
          LET named == IF r.oids = <<>> THEN request.oids
                       ELSE [i \in 1 .. Len(r.oids) |-> MibOid(r.oids[i])]
          IN  result' = [status |-> r.status, index |-> r.index,
                         vars |-> FlattenSeq([n \in 1 .. r.times |->
                                     [i \in 1 .. Len(named) |-> [oid |-> named[i], data |-> r.data]]])]
    /\ stage' = "handled"
    /\ UNCHANGED <<sent, packet, request>>

Encode ==
    /\ stage = "handled"
    /\ packet' = EncodeResponse(request, result)
    /\ stage' = IF packet' = Refused THEN "refused" ELSE "answered"
    /\ UNCHANGED <<sent, request, result>>

Finish ==
    /\ stage \in {"answered", "refused"}
    /\ sent' = NoRequest /\ packet' = <<>> /\ request' = NoRequest
    /\ result' = NoRequest /\ stage' = "idle"

Next == Send \/ Decode \/ Handle \/ Encode \/ Finish
Spec == Init /\ [][Next]_vars

-----------------------------------------------------------------------------
(* What the codec promises.                                                  *)

\* The type invariant.
TypeOK ==
    /\ stage \in {"idle", "received", "decoded", "handled", "answered", "refused"}
    /\ packet \in Seq(Byte) \cup {Refused}
    /\ stage = "answered" => Len(packet) <= MaxPacket

\* The requests the agent means to take: those of its versions, with a community
\* that fits, known types, no empty value but null, and as many OIDs and subids as
\* there is room for.
Supported(m) ==
    /\ m.version \in {0, 1} /\ Len(m.community) \in 1 .. MaxString - 1
    /\ m.type \in Types /\ Len(m.vars) <= MaxOids
    /\ \A i \in 1 .. Len(m.vars) :
          /\ Len(m.vars[i].oid) <= MaxSubids /\ m.vars[i].type \in Types
          /\ (m.vars[i].type = Null) = (m.vars[i].body = <<>>)

\* A supported request is read as its sender meant it, whatever forms of length
\* it is written in, and no other one is taken (decode_snmp_request).
ReadAsMeant ==
    stage \in {"decoded", "refused"} /\ result = NoRequest =>
        IF Supported(sent)
        THEN /\ request.ok
             /\ <<request.version, request.community, request.type, request.numbers>>
                = <<sent.version, sent.community, sent.type, sent.numbers>>
             /\ [i \in 1 .. Len(request.oids) |-> request.oids[i].subids]
                = [i \in 1 .. Len(sent.vars) |-> sent.vars[i].oid]
        ELSE ~request.ok

\* The response a manager expects, written in BER from its own request.
Expected ==
    LET binds == IF result.status # 0
                 THEN [i \in 1 .. Len(sent.vars) |-> <<sent.vars[i].oid, <<Null, 0>> >>]
                 ELSE [i \in 1 .. Len(result.vars) |->
                          <<result.vars[i].oid.subids, result.vars[i].data>>]
    IN  BerMessage(sent.version, sent.community, Response,
                   <<sent.numbers[1], result.status, result.index>>, binds, 0)

\* The response is BER of exactly what was to be answered, although the sizes set
\* aside for its parts are computed apart from the parts (get_integer_length,
\* oid_t.encoded_length); it is refused only if it does not fit the packet.
AnswerAsMeant ==
    /\ stage = "answered" => packet = Expected
    /\ stage = "refused" /\ result # NoRequest => Len(Expected) > MaxPacket

\* Over TCP a supported request is found complete when all of it is there
\* ("Return whether we received the whole packet", protocol.c:1010).
WholeIsComplete ==
    stage = "received" /\ Supported(sent) /\ sent.vars # <<>> => PacketComplete(packet) = 1
=============================================================================
