----------------------------- MODULE MCSnmpMib -----------------------------
(* Instances of SnmpMib for TLC.                                             *)
EXTENDS SnmpMib

\* The two tables of mib.c, with what their prefixes have in common cut off.
SdkTables == << [prefix |-> <<125>>, rows |-> <<1, 1>>],
                [prefix |-> <<126, 3>>, rows |-> <<20, 1, 1, 1, 1, 4>>] >>

OidsOver(S, n) == UNION {[1 .. k -> S] : k \in 1 .. n}

Asked(types, versions, oidLists, nonreps, maxreps) ==
    [type : types, version : versions, known : {TRUE}, oids : oidLists,
     nonrep : nonreps, maxrep : maxreps]

\* One OID at a time: variables, columns, prefixes, and OIDs between them.
SingleProbes ==
    Asked({"get", "getnext"}, {1, 2},
          {<<o>> : o \in OidsOver({0, 1, 3, 6, 20, 126}, 4) \cup OidsOver({0, 2, 125}, 4)},
          {0}, {0})

\* Lists of OIDs before, in, at the end of and after the tables.
Landmarks  == {<<0>>, <<125, 2, 0>>, <<126, 3, 1>>, <<126, 3, 1, 19>>, <<126, 3, 6, 3>>}
Lists      == UNION {[1 .. k -> Landmarks] : k \in 0 .. 3}
              \cup [1 .. 4 -> {<<0>>, <<126, 3, 1>>}]
ListProbes == Asked({"get", "getnext"}, {1, 2}, [1 .. 2 -> Landmarks], {0}, {0})
              \cup Asked({"getbulk"}, {2}, Lists, {-1, 1, 3}, {-1, 1, 2, 40})

OtherProbes == [type : {"get", "set", "other"}, version : {1, 2}, known : BOOLEAN,
                oids : {<<o>> : o \in Landmarks}, nonrep : {0}, maxrep : {0}]

AllProbes == SingleProbes \cup ListProbes \cup OtherProbes
WalkRoots == OidsOver({0, 3, 125, 126}, 2)

\* Subids from half the base on as well.
LargeProbes == Asked({"getnext"}, {2}, {<<o>> : o \in OidsOver({0, 3, 126, 128, 255}, 3)},
                     {0}, {0})
=============================================================================
