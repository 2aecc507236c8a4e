------------------------------- MODULE MCSdk --------------------------------
(* Instances of Sdk for TLC.                                                 *)
EXTENDS Sdk

TwoPlaces   == <<"dry_1", "dry_20">>
DryCommand  == [get_dry |-> {"dry_1", "dry_20"}]

Budget(c, p, a, s, h, q) ==
    [conns |-> c, polls |-> p, agent |-> a, sets |-> s, held |-> h, signal |-> q]

\* Two connections at once; one while polls are published; a clock that is set
\* while they are; and a connection, the agent's clients and a signal.
AllBudgets == { Budget({"c1", "c2"}, 0, FALSE, 0, 0, FALSE),
                Budget({"c1"},       2, FALSE, 0, 0, FALSE),
                Budget({},           2, TRUE,  1, 0, FALSE),
                Budget({"c1"},       0, TRUE,  0, 2, TRUE) }
=============================================================================
