---------------------------- MODULE MCSerialPoll ---------------------------
(* Instances of SerialPoll for TLC.                                          *)
EXTENDS SerialPoll

\* One field of each kind in the order of parser_sdk.c:69-94: the temperature
\* is parsed from the end of the answer, the versions from its beginning.
TwoFields    == <<"self_temp", "hw">>
ThreeFields  == <<"self_temp", "hw", "dry_contact">>
FieldParts   == [f \in Fields |-> IF f = "hw" THEN "head" ELSE "tail"]
=============================================================================
