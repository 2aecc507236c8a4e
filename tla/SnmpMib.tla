------------------------------ MODULE SnmpMib ------------------------------
(* What the agent answers: the table of variables (g_mib in mib.c), the      *)
(* comparison of OIDs it is searched with (oid_cmp in utils.c), the handlers *)
(* of the request types (protocol.c), and a manager that probes the agent    *)
(* with any request or walks the table with GETNEXT or GETBULK.              *)
(*                                                                           *)
(* An OID is a sequence of subids, unsigned numbers below SubidBase.  BER    *)
(* is left out: of the encoded size only the number of variables that fit.   *)
EXTENDS Integers, Sequences, FiniteSets, SequencesExt

CONSTANTS
    SubidBase,    \* 2^32: subids are unsigned int
    MaxSubids,    \* MAX_NR_SUBIDS
    MaxOids,      \* MAX_NR_OIDS
    MaxValues,    \* MAX_NR_VALUES
    PacketRoom,   \* the variables that fit an encoded response
    Tables,       \* the tables of mib_build: a prefix, and the rows of each column
    Probes,       \* requests the manager makes
    Roots,        \* OIDs a walk starts from
    Repetitions   \* max-repetitions a GETBULK walk may use

ASSUME MibAssumption ==
    /\ SubidBase \in Nat /\ SubidBase % 2 = 0
    /\ MaxSubids \in Nat /\ MaxOids \in Nat \ {0} /\ MaxValues \in Nat /\ PacketRoom \in Nat
    /\ MaxSubids <= MaxOids /\ MaxOids <= MaxValues
    /\ Repetitions \subseteq Nat \ {0}

\* Subids below this one are positive in an int.
Half == SubidBase \div 2

\* a and b differ where both have a subid, and a's is smaller.
Before(a, b) == \E i \in 1 .. Len(a) : /\ i <= Len(b) /\ a[i] < b[i]
                                       /\ \A j \in 1 .. i - 1 : a[j] = b[j]

\* The prefixes written in mib.c ascend, none is the beginning of another, and
\* none of their subids, columns and rows is beyond an int.
ASSUME TablesAssumption ==
    /\ Tables \in Seq([prefix : Seq(0 .. Half - 1), rows : Seq(Nat)])
    /\ \A n \in DOMAIN Tables :
          /\ Len(Tables[n].rows) < Half
          /\ \A c \in DOMAIN Tables[n].rows : Tables[n].rows[c] <= Half
    /\ \A m, n \in DOMAIN Tables : m < n => Before(Tables[m].prefix, Tables[n].prefix)

\* What a decoded request may hold (decode_snmp_request, decode_oid).
Oids == {o \in Seq(0 .. SubidBase - 1) : Len(o) <= MaxSubids}

Requests ==
    [type : {"get", "getnext", "set", "getbulk", "other"}, version : {1, 2},
     known : BOOLEAN, oids : Seq(Oids), nonrep : Int, maxrep : Int]

ASSUME RequestAssumption == Probes \subseteq Requests /\ Roots \subseteq Oids

VARIABLES
    mib,     \* g_mib: the OIDs in the order of their entries
    req,     \* the request on its way, or NoRequest
    resp,    \* what the agent made of it, or NoAnswer
    walk     \* the manager's walk: where it began, what it got, how it asks

vars == <<mib, req, resp, walk>>

NoRequest == [type |-> "none"]
NoAnswer  == [kind |-> "none"]
NoWalk    == [state |-> "off", root |-> <<>>, got |-> <<>>, step |-> 0]

-----------------------------------------------------------------------------
(* Building the table.                                                       *)

\* mib_build_entry adds the OID prefix.column.row; columns count from 1, rows
\* from 0.
Column(t, c) == [r \in 1 .. t.rows[c] |-> t.prefix \o <<c, r - 1>>]
Table(t)     == FlattenSeq([c \in 1 .. Len(t.rows) |-> Column(t, c)])
MibBuild     == FlattenSeq([n \in 1 .. Len(Tables) |-> Table(Tables[n])])

Init ==
    /\ mib = MibBuild
    /\ Len(mib) <= MaxValues /\ \A n \in DOMAIN mib : Len(mib[n]) <= MaxSubids
    /\ req = NoRequest /\ resp = NoAnswer /\ walk = NoWalk

-----------------------------------------------------------------------------
(* Comparing OIDs and searching the table.                                   *)

Least(S) == CHOOSE n \in S : \A m \in S : n <= m

\* A subid is stored in an int to be compared; -1 stands for none.
Subid(o, i) == IF i > Len(o) THEN -1
               ELSE IF o[i] < Half THEN o[i] ELSE o[i] - SubidBase

\* BUG: the comparison ends with the shorter of the two.
BugOidCmp(a, b) ==
    LET ends == {i \in 1 .. MaxOids : \/ Subid(a, i) # Subid(b, i)
                                      \/ i > Len(a) \/ i > Len(b)}
        i    == Least(ends)
    IN  CASE ends = {} \/ i > Len(a) \/ i > Len(b) -> 0
          [] OTHER -> IF Subid(a, i) > Subid(b, i) THEN 1 ELSE -1

\* oid_cmp: 1, 0 or -1, by the first place where the two differ or both end.
OidCmp(a, b) ==
    LET ends == {i \in 1 .. MaxOids : \/ Subid(a, i) # Subid(b, i)
                                      \/ Subid(a, i) = -1}
        i    == Least(ends)
    IN  CASE ends = {} \/ Subid(a, i) = Subid(b, i) -> 0
          [] OTHER -> IF Subid(a, i) > Subid(b, i) THEN 1 ELSE -1

\* The first entry that is the OID or an extension of it.
MibFind(o) ==
    LET found == {n \in DOMAIN mib : IsPrefix(o, mib[n])}
    IN  IF found = {} THEN Len(mib) + 1 ELSE Least(found)

\* BUG: an entry that is the OID itself is found.
BugMibFindnext(o) ==
    LET found == {n \in DOMAIN mib : OidCmp(mib[n], o) >= 0}
    IN  IF found = {} THEN Len(mib) + 1 ELSE Least(found)

\* The first entry greater than the OID.
MibFindnext(o) ==
    LET found == {n \in DOMAIN mib : OidCmp(mib[n], o) > 0}
    IN  IF found = {} THEN Len(mib) + 1 ELSE Least(found)

-----------------------------------------------------------------------------
(* The handlers.                                                             *)

Var(o, k) == [oid |-> o, kind |-> k]

\* BUG: an entry that extends the OID is taken for the OID's own.
BugGetVar(o) ==
    IF MibFind(o) > Len(mib) THEN Var(o, "noSuchObject") ELSE Var(o, "value")

\* What GET says of one OID.
GetVar(o) ==
    LET n == MibFind(o) IN
    CASE n > Len(mib)               -> Var(o, "noSuchObject")
      [] n <= Len(mib) /\ Len(mib[n]) = Len(o) + 1 -> Var(o, "noSuchInstance")
      [] n <= Len(mib) /\ Len(mib[n]) = Len(o)     -> Var(o, "value")
      [] OTHER                      -> Var(o, "noSuchObject")

\* BUG: the value is returned under the OID that was asked about.
BugNextVar(o) ==
    LET n == MibFindnext(o) IN
    IF n > Len(mib) THEN Var(o, "endOfMibView") ELSE Var(o, "value")

\* What GETNEXT and GETBULK say of one OID.
NextVar(o) ==
    LET n == MibFindnext(o) IN
    IF n > Len(mib) THEN Var(o, "endOfMibView") ELSE Var(mib[n], "value")

Refused == [kind |-> "refused"]
Ignored == [kind |-> "ignored"]

\* encode_snmp_response with an error: the request's OIDs, without values.
Failure(q, status, index) ==
    [kind |-> "response", status |-> status, index |-> index,
     vars |-> [i \in DOMAIN q.oids |-> Var(q.oids[i], "null")]]

\* The list of values or the packet overflows, or the response goes out.
Success(vs) ==
    IF Len(vs) > MaxValues \/ Len(vs) > PacketRoom THEN Refused
    ELSE [kind |-> "response", status |-> "ok", index |-> 0, vars |-> vs]

\* GET and GETNEXT: in version 1 the first OID without a value fails the request.
Each(q, vs) ==
    LET bad == {i \in DOMAIN vs : vs[i].kind # "value"}
    IN  IF q.version = 1 /\ bad # {} THEN Failure(q, "noSuchName", Least(bad) - 1)
        ELSE Success(vs)

HandleGet(q)     == Each(q, [i \in DOMAIN q.oids |-> GetVar(q.oids[i])])
HandleGetnext(q) == Each(q, [i \in DOMAIN q.oids |-> NextVar(q.oids[i])])
HandleSet(q)     == Failure(q, IF q.version = 1 THEN "noSuchName" ELSE "noAccess", 0)

AtLeastZero(n) == IF n < 0 THEN 0 ELSE n

\* BUG: the OIDs asked for in the next repetition are those of the first.
BugNextRound(r) ==
    LET vs == [i \in DOMAIN r.oids |-> NextVar(r.oids[i])]
    IN  IF ~r.more THEN r
        ELSE [r EXCEPT !.vars = @ \o vs, !.more = \E i \in DOMAIN vs : vs[i].kind = "value"]

\* One repetition: a variable for each OID, from where the next one goes on;
\* nothing more once no OID had a successor.
NextRound(r) ==
    LET vs == [i \in DOMAIN r.oids |-> NextVar(r.oids[i])]
    IN  IF ~r.more THEN r
        ELSE [oids |-> [i \in DOMAIN vs |-> vs[i].oid],
              vars |-> r.vars \o vs,
              more |-> \E i \in DOMAIN vs : vs[i].kind = "value"]

BulkRounds(oids, most) ==
    LET Round[j \in 0 .. most] ==
            IF j = 0 THEN [oids |-> oids, vars |-> <<>>, more |-> TRUE]
            ELSE NextRound(Round[j - 1])
    IN  Round[most].vars

Once(q)     == SubSeq(q.oids, 1, IF q.nonrep < Len(q.oids) THEN AtLeastZero(q.nonrep)
                                 ELSE Len(q.oids))
Repeated(q) == SubSeq(q.oids, Len(Once(q)) + 1, Len(q.oids))

HandleGetbulk(q) ==
    LET once == Once(q) IN
    Success([i \in DOMAIN once |-> NextVar(once[i])]
            \o BulkRounds(Repeated(q), AtLeastZero(q.maxrep)))

\* snmp(): only version 2c has its community checked (g_auth is 0).
Snmp(q) ==
    IF q.version = 2 /\ ~q.known THEN Failure(q, "noAccess", 0)
    ELSE CASE q.type = "get"     -> HandleGet(q)
           [] q.type = "getnext" -> HandleGetnext(q)
           [] q.type = "set"     -> HandleSet(q)
           [] q.type = "getbulk" -> HandleGetbulk(q)
           [] OTHER              -> Ignored

-----------------------------------------------------------------------------
(* The manager and the agent.                                                *)

Probe ==
    /\ req = NoRequest /\ walk.state = "off"
    /\ req' \in Probes
    /\ UNCHANGED <<mib, resp, walk>>

StartWalk ==
    /\ req = NoRequest /\ walk.state = "off"
    /\ \E root \in Roots, n \in Repetitions \cup {0} :
          walk' = [state |-> "on", root |-> root, got |-> <<>>, step |-> n]
    /\ UNCHANGED <<mib, req, resp>>

\* The walk asks for what comes after the last variable it got, by GETBULK or,
\* with step 0, by GETNEXT.
WalkOn ==
    /\ req = NoRequest /\ walk.state = "on"
    /\ req' = [type    |-> IF walk.step = 0 THEN "getnext" ELSE "getbulk",
               version |-> 2, known |-> TRUE,
               oids    |-> <<IF walk.got = <<>> THEN walk.root ELSE Last(walk.got)>>,
               nonrep  |-> 0, maxrep |-> walk.step]
    /\ UNCHANGED <<mib, resp, walk>>

\* A walk takes the values an answer begins with; something else ends it, as does
\* no answer.
Walked(answer) ==
    LET vs == IF answer.kind = "response" THEN answer.vars ELSE <<>>
        n  == Least({k \in 0 .. Len(vs) : k = Len(vs) \/ vs[k + 1].kind # "value"})
    IN  [walk EXCEPT !.got   = @ \o [i \in 1 .. n |-> vs[i].oid],
                     !.state = IF answer.kind = "response" /\ n = Len(vs) THEN "on" ELSE "done"]

Answer ==
    /\ req # NoRequest /\ resp = NoAnswer
    /\ resp' = Snmp(req)
    /\ UNCHANGED <<mib, req, walk>>

Receive ==
    /\ resp # NoAnswer
    /\ req' = NoRequest /\ resp' = NoAnswer
    /\ walk' = IF walk.state = "on" THEN Walked(resp) ELSE walk
    /\ UNCHANGED mib

EndWalk ==
    /\ walk.state = "done"
    /\ walk' = NoWalk
    /\ UNCHANGED <<mib, req, resp>>

Next == Probe \/ StartWalk \/ WalkOn \/ Answer \/ Receive \/ EndWalk
Spec == Init /\ [][Next]_vars

-----------------------------------------------------------------------------
(* What the answers must be, said without the agent's code.                  *)

\* OIDs are ordered as words, subids as the unsigned numbers they are.
Less(a, b) == Before(a, b) \/ (Len(a) < Len(b) /\ IsPrefix(a, b))

Variables == {mib[n] : n \in DOMAIN mib}
After(o)  == {v \in Variables : Less(o, v)}
Rank(o)   == Cardinality(Variables) - Cardinality(After(o))

\* The variable j places after an OID; at the end, its last one is named.
PlaceAfter(o, j) ==
    IF j <= Cardinality(After(o)) THEN Var(mib[Rank(o) + j], "value")
    ELSE Var(IF After(o) = {} THEN o ELSE mib[Len(mib)], "endOfMibView")

Answered(type) == resp.kind = "response" /\ resp.status = "ok" /\ req.type = type

\* The type invariant.
TypeOK ==
    /\ \A n \in DOMAIN mib : \A i \in DOMAIN mib[n] : mib[n][i] \in 0 .. SubidBase - 1
    /\ req = NoRequest \/ req.type \in {"get", "getnext", "set", "getbulk", "other"}
    /\ resp.kind \in {"none", "response", "refused", "ignored"}
    /\ walk.state \in {"off", "on", "done"} /\ ToSet(walk.got) \subseteq Variables

\* GET names a variable's value for its OID and for no other, "no such instance"
\* for the OID of a column and "no such object" for the rest
\* ("we might have found a subid of the requested one", protocol.c:763-765).
GetIsExact ==
    Answered("get") =>
        \A i \in DOMAIN req.oids :
            resp.vars[i] = Var(req.oids[i],
                IF req.oids[i] \in Variables THEN "value"
                ELSE IF \E v \in Variables : Front(v) = req.oids[i] THEN "noSuchInstance"
                ELSE "noSuchObject")

\* GETNEXT names the least variable after the OID in the order of OIDs ("the one
\* after the given one", mib.c:597).
NextIsSuccessor ==
    Answered("getnext") =>
        \A i \in DOMAIN req.oids : resp.vars[i] = PlaceAfter(req.oids[i], 1)

\* GETBULK is the repetition of GETNEXT its comment (protocol.c:934-942) says:
\* interleaved, stopped by the first repetition that has no successor for any
\* OID, with the last variable named at the end.
BulkIsRepeatedNext ==
    Answered("getbulk") =>
        LET once == Once(req)  rep == Repeated(req)
            deep == {Cardinality(After(rep[i])) + 1 : i \in DOMAIN rep}
            most == AtLeastZero(req.maxrep)
            rounds == IF rep = <<>> THEN 0
                      ELSE Least({most} \cup {d \in deep : \A e \in deep : e <= d})
        IN  /\ Len(resp.vars) = Len(once) + rounds * Len(rep)
            /\ \A i \in DOMAIN once : resp.vars[i] = PlaceAfter(once[i], 1)
            /\ \A j \in 1 .. rounds, i \in DOMAIN rep :
                  resp.vars[Len(once) + (j - 1) * Len(rep) + i] = PlaceAfter(rep[i], j)

\* A walk gets the variables after its root one by one, in order and none twice,
\* and it has all of them when it ends.
WalkIsComplete ==
    /\ \A i \in DOMAIN walk.got : walk.got[i] = mib[Rank(walk.root) + i]
    /\ walk.state = "done" => Len(walk.got) = Cardinality(After(walk.root))

\* Each answer takes a walk past the OID it asked about or ends it: none sends the
\* manager back to where it was, so that a walk cannot go on for ever.
WalkMoves ==
    [][walk.state = "on" /\ resp # NoAnswer =>
          walk'.state = "done" \/ Less(req.oids[1], Last(walk'.got))]_vars
=============================================================================
