------------------------------ MODULE MCSnmpd ------------------------------
(* Instances of Snmpd for TLC.                                               *)
EXTENDS Snmpd

CONSTANTS c1, c2, c3, c4, p1, p2, p3, p4

\* With MinPacket = 2 and MaxPacket = 4, two of three units of a long request
\* pass the length test of snmp_packet_complete(), and two such requests do not
\* fit the packet buffer.
LongRequests  == {[len |-> 3, ans |-> "reply"]}

\* Snmpd tells apart only the requests that are answered, those that are refused
\* whole ("ignore" is handled as "reject" is) and those refused at the header.
MixedRequests == {[len |-> 3, ans |-> a] : a \in {"reply", "reject", "garbled"}}
WholeRequests == {[len |-> 3, ans |-> a] : a \in {"reply", "reject"}}

FourSymmetry == Permutations({c1, c2, c3, c4}) \cup Permutations({p1, p2, p3, p4})
TwoSymmetry == Permutations({c1, c2}) \cup Permutations({p1, p2})
=============================================================================
