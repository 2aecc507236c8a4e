---------------------------- MODULE MCSnmpCodec ----------------------------
(* Instances of SnmpCodec for TLC.                                           *)
EXTENDS SnmpCodec

\* Numbers on both sides of each length of an integer of three bytes.
Edges == {0, 1, -1, 127, 128, -128, -129, 255, 256, 32767, 32768, -32768, -32769,
          8388607, -8388608}

Name(n)   == [i \in 1 .. n |-> 97]
Cell      == <<1, 3, 6, 1, 4, 1, 126, 3, 1, 0>>
\* Subids on both sides of each of their lengths, up to the largest one.
Steps     == <<1, 3, 127, 128, 16383, 16384, 2097151, 2097152, 16777215>>
Longest   == <<1, 3>> \o [i \in 1 .. 14 |-> i * 1000]
TooLong   == Append(Longest, 1)

Message(version, community, type, numbers, varbinds) ==
    [version |-> version, community |-> community, type |-> type,
     numbers |-> numbers, vars |-> varbinds]

Var(o, type, body) == [oid |-> o, type |-> type, body |-> body]

Ask(o) == <<Var(o, 5, <<>>)>>

Numbered   == {Message(v, Name(6), 160, n, Ask(Cell)) : v \in {0, 1},
                 n \in {<<a, 0, 0>> : a \in Edges}
                       \cup ({7} \X {0, -1, 128} \X {0, -129, 32767})}
Named      == {Message(v, Name(n), t, <<7, 0, 0>>, Ask(Cell)) :
                 v \in {0, 1, 3}, n \in {0, 1, 62, 63, 64}, t \in {161, 165, 168}}
Lists      == {Message(1, Name(6), 160, <<7, 0, 0>>, [i \in 1 .. n |-> Var(o, 5, <<>>)]) :
                 n \in 0 .. 4, o \in {<<0, 0>>, <<2, 39, 5>>, Cell, Steps, Longest, TooLong}}
Valued     == {Message(1, Name(6), 163, <<7, 0, 0>>, <<Var(Cell, d[1], d[2]), Var(Steps, d[1], d[2])>>) :
                 d \in { <<2, <<5>> >>, <<4, <<97, 98, 99>> >>, <<65, <<1, 0>> >>, <<64, <<1, 2, 3, 4>> >>,
                       <<4, <<>> >>, <<5, <<0>> >> }}
AllMessages == Numbered \cup Named \cup Lists \cup Valued

Result(status, index, oids, times, data) ==
    [status |-> status, index |-> index, oids |-> oids, times |-> times, data |-> data]

Text(n)   == <<4>> \o LengthBytes(n) \o Name(n)

\* Errors; each value once; lists up to and past the size of a packet; and
\* strings that fill it to the last byte, or to one more.
AllResults ==
    {Result(2, i, <<>>, 0, <<>>) : i \in 0 .. 2}
    \cup {Result(0, 0, <<Cell, Steps>>, 1, EncodeInteger(v)) : v \in {0, 128, -129, 32768}}
    \cup {Result(0, 0, o, n, d) : o \in {<<>>, <<Cell>>}, n \in {0, 1} \cup 4 .. 16,
                                  d \in { <<130, 0>>, <<2, 1, 9>>, <<2, 3, 1, 0, 0>> }}
    \cup {Result(0, 0, <<Cell>>, 1, Text(n)) : n \in 180 .. 260}
=============================================================================
