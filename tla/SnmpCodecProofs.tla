--------------------------- MODULE SnmpCodecProofs ---------------------------
(* Proofs about SnmpCodec.                                                    *)
EXTENDS SnmpCodec, SnmpBerProofs

\* What the limits are known to be.
LEMMA Limits ==
    /\ MaxOids \in Nat \ {0} /\ MaxString \in Nat \ {0} /\ MinPacket \in 1 .. 28
    /\ \A form \in Forms : form \in 0 .. 2
BY CodecAssumption

-----------------------------------------------------------------------------
(* Variable bindings.                                                        *)

Variables == [oid : Oids, type : Byte, body : Seq(Byte)]

\* A variable, as a manager writes it.
BerVar(v, form) == Ber(Sequence, BerOid(v.oid, form) \o Ber(v.type, v.body, form), form)

\* A variable the agent takes.
Taken(v) ==
    Len(v.oid) <= MaxSubids /\ v.type \in Types /\ (v.type = Null) = (v.body = <<>>)

Reading(at, oids) == [ok |-> TRUE, at |-> at, oids |-> oids]
Failed(s) == \E at, oids : s = [ok |-> FALSE, at |-> at, oids |-> oids]

\* What a binding that is not read leaves of the loop's state.
LEMMA NotRead ==
    ASSUME NEW at, NEW oids
    PROVE  Failed([Reading(at, oids) EXCEPT !.ok = FALSE])
<1> DEFINE yes == TRUE
           no == FALSE
           u == [[ok |-> yes, at |-> at, oids |-> oids] EXCEPT !.ok = no]
<1>1. u = [Reading(at, oids) EXCEPT !.ok = FALSE]
  BY DEF Reading
<1>2. u = [ok |-> no, at |-> at, oids |-> oids]
  <2> HIDE DEF yes, no
  <2> QED OBVIOUS
<1> HIDE DEF u
<1>3. Failed(u)
  BY <1>2 DEF Failed
<1> QED BY <1>1, <1>3

\* The parts of a variable are bytes, and it has more than six.
LEMMA BerVarType ==
    ASSUME NEW v \in Variables, NEW form \in 0 .. 2
    PROVE  /\ BerVar(v, form) \in Seq(Byte) /\ Len(BerVar(v, form)) > 6
           /\ BerOid(v.oid, form) \in Seq(Byte) /\ Ber(v.type, v.body, form) \in Seq(Byte)
           /\ Len(BerOid(v.oid, form)) > 1
           /\ Len(BerOid(v.oid, form)) \in Nat
<1> DEFINE o == v.oid  t == v.type  c == v.body
           p == BerOid(o, form)
           q == Ber(t, c, form)
<1>1. o \in Oids /\ t \in Byte /\ c \in Seq(Byte)
  BY DEF Variables
<1>2. p = Ber(Oid, OidBody(o), form)
  BY <1>1, OidIsWritten
<1>3. BerVar(v, form) = Ber(Sequence, p \o q, form)
  BY DEF BerVar
<1> HIDE DEF o, t, c
<1>4. OidBody(o) \in Seq(Byte) /\ Len(OidBody(o)) \in Nat \ {0}
  BY <1>1, OidBodyType
<1>5. p \in Seq(Byte) /\ Len(p) > Len(OidBody(o)) + 1
  <2>1. OidBody(o) \in Seq(Byte)
    BY <1>4
  <2> QED BY <1>2, <2>1, CodesAreBytes, BerType
<1>6. q \in Seq(Byte) /\ Len(q) > Len(c) + 1 /\ Len(c) \in Nat
  BY <1>1, BerType, LenProperties
<1> HIDE DEF p, q
<1>7. p \o q \in Seq(Byte) /\ Len(p \o q) = Len(p) + Len(q) /\ Len(p) \in Nat /\ Len(q) \in Nat
  BY <1>5, <1>6, ConcatElements, LenProperties
<1> DEFINE r == p \o q
           w == Ber(Sequence, r, form)
<1> HIDE DEF r
<1>8. w \in Seq(Byte) /\ Len(w) > Len(r) + 1 /\ Len(r) = Len(p) + Len(q)
  BY <1>7, CodesAreBytes, BerType DEF r
<1>9. Len(w) \in Nat
  BY <1>8, LenProperties
<1> HIDE DEF w
<1>10. Len(w) > 6 /\ Len(p) > 1
  BY <1>4, <1>5, <1>6, <1>7, <1>8, <1>9
<1> QED BY <1>3, <1>5, <1>6, <1>7, <1>8, <1>10 DEF w, r, p, q, o, t, c

\* One variable is read as it was written.
LEMMA VarbindIsRead ==
    ASSUME NEW b \in Seq(Byte), Len(b) < Word, NEW at \in Nat, NEW oids,
           NEW v \in Variables, NEW form \in 0 .. 2, Holds(b, at, BerVar(v, form))
    PROVE  IF Taken(v)
           THEN Varbind(b, Reading(at, oids))
                = Reading(at + Len(BerVar(v, form)), Append(oids, MibOid(v.oid)))
           ELSE Failed(Varbind(b, Reading(at, oids)))
<1> DEFINE o == v.oid  t == v.type  c == v.body
           p == BerOid(o, form)
           q == Ber(t, c, form)
           r == p \o q
           s == Reading(at, oids)
           end == at + Len(BerVar(v, form))
<1>1. o \in Oids /\ t \in Byte /\ c \in Seq(Byte)
  BY DEF Variables
<1>2. /\ p = Ber(Oid, OidBody(o), form) /\ BerVar(v, form) = Ber(Sequence, r, form)
      /\ OidBody(o) \in Seq(Byte) /\ Len(OidBody(o)) \in Nat \ {0}
      /\ p \in Seq(Byte) /\ q \in Seq(Byte) /\ r \in Seq(Byte) /\ Len(p) \in Nat
  <2>1. p = Ber(Oid, OidBody(o), form)
    BY <1>1, OidIsWritten
  <2>2. BerVar(v, form) = Ber(Sequence, r, form)
    BY DEF BerVar
  <2>3. p \in Seq(Byte) /\ q \in Seq(Byte) /\ Len(p) \in Nat
    BY BerVarType
  <2>4. OidBody(o) \in Seq(Byte) /\ Len(OidBody(o)) \in Nat \ {0}
    BY <1>1, OidBodyType
  <2> HIDE DEF p, q, o
  <2>5. r \in Seq(Byte)
    BY <2>3, ConcatElements
  <2> QED BY <2>1, <2>2, <2>3, <2>4, <2>5
<1> DEFINE bind == Element(b, s.at)
           name == Element(b, bind.at)
           val  == Element(b, After(name))
<1>3. s.at = at /\ s.ok = TRUE /\ s.oids = oids
  BY DEF Reading
<1>4. Varbind(b, s) =
          IF /\ bind.ok /\ bind.type = Sequence /\ bind.len >= 1
             /\ Is(b, name, Oid)
             /\ val.ok /\ (val.type = Null) = (val.len = 0) /\ Fits(b, val)
             /\ OidOf(Bytes(b, name)) # NoOid
          THEN [ok |-> TRUE, at |-> After(val), oids |-> Append(s.oids, OidOf(Bytes(b, name)))]
          ELSE [s EXCEPT !.ok = FALSE]
  BY DEF Varbind
<1>5. Failed([s EXCEPT !.ok = FALSE])
  BY NotRead
<1> HIDE DEF s
<1>6. bind.ok = TRUE /\ bind.type = Sequence /\ bind.len >= 1 /\ bind.at \in Nat
      /\ bind.at + Len(r) = end /\ Holds(b, bind.at, r)
  <2>1. Holds(b, at, Ber(Sequence, r, form)) /\ bind = Element(b, at)
    BY <1>2, <1>3
  <2>2. IsElement(bind, b, Sequence, r, at + Len(Ber(Sequence, r, form)))
    <3> HIDE DEF r, bind
    <3>1. IsElement(Element(b, at), b, Sequence, r, at + Len(Ber(Sequence, r, form)))
      BY <1>2, <2>1, CodesAreBytes, ElementIsRead
    <3> QED BY <2>1, <3>1
  <2>3. IsElement(bind, b, Sequence, r, end)
    BY <1>2, <2>2
  <2>4. Len(r) >= 1
    <3>1. Len(r) = Len(p) + Len(q)
      <4> HIDE DEF p, q
      <4> QED BY <1>2, ConcatElements
    <3>2. Len(p) > 1 /\ Len(q) \in Nat
      BY <1>2, BerVarType, LenProperties
    <3> HIDE DEF p, q, r
    <3> QED BY <1>2, <3>1, <3>2
  <2> HIDE DEF r, bind, end
  <2> QED BY <2>3, <2>4 DEF IsElement
<1> DEFINE here == bind.at
           next == here + Len(p)
<1>7. Holds(b, here, p) /\ Holds(b, next, q) /\ Len(r) = Len(p) + Len(q)
  <2> HIDE DEF p, q, bind
  <2> QED BY <1>2, <1>6, HoldsParts
<1>8. Is(b, name, Oid) /\ Bytes(b, name) = OidBody(o) /\ After(name) = next
  <2>1. IsElement(name, b, Oid, OidBody(o), here + Len(p))
    <3>1. Holds(b, here, Ber(Oid, OidBody(o), form)) /\ here \in Nat
      BY <1>2, <1>6, <1>7
    <3> HIDE DEF bind, p, o
    <3> QED BY <1>2, <3>1, CodesAreBytes, ElementIsRead
  <2> HIDE DEF name, p, o, bind
  <2>2. /\ name.ok = TRUE /\ name.type = Oid /\ name.len = Len(OidBody(o)) /\ Fits(b, name)
        /\ Bytes(b, name) = OidBody(o) /\ After(name) = next
    BY <2>1 DEF IsElement
  <2>3. name.len >= 1
    BY <1>2, <2>2
  <2> QED BY <2>2, <2>3 DEF Is
<1>9. OidOf(OidBody(o)) = IF Len(o) > MaxSubids THEN NoOid ELSE MibOid(o)
  BY <1>1, OidIsRead
<1>10. MibOid(o) # NoOid
  <2>1. MibOid(o).subids = o /\ NoOid.subids = <<>>
    BY DEF MibOid, NoOid
  <2>2. Len(o) >= 2 /\ Len(<<>>) = 0
    BY <1>1, OidType, EmptySeq
  <2> HIDE DEF o
  <2>3. o # <<>>
    BY <2>2
  <2> QED BY <2>1, <2>3
<1>11. Len(o) \in Nat /\ MaxSubids \in Nat
  BY <1>1, OidType, Sizes
<1>12. t \in Types => /\ val.ok = TRUE /\ val.type = t /\ val.len = Len(c) /\ Fits(b, val)
                      /\ After(val) = end
  <2> SUFFICES ASSUME t \in Types
               PROVE  /\ val.ok = TRUE /\ val.type = t /\ val.len = Len(c) /\ Fits(b, val)
                      /\ After(val) = end
    OBVIOUS
  <2>1. next \in Nat /\ next + Len(q) = end
    <3>1. here \in Nat /\ Len(p) \in Nat /\ Len(q) \in Nat /\ here + (Len(p) + Len(q)) = end
      BY <1>2, <1>6, <1>7, LenProperties
    <3> HIDE DEF here, p, q, end
    <3> QED BY <3>1
  <2>2. IsElement(Element(b, next), b, t, c, next + Len(q))
    <3> HIDE DEF next, t, c
    <3> QED BY <1>1, <1>7, <2>1, ElementIsRead
  <2>3. val = Element(b, next)
    BY <1>8
  <2>4. IsElement(val, b, t, c, end)
    BY <2>1, <2>2, <2>3
  <2> HIDE DEF val, end, t, c
  <2> QED BY <2>4 DEF IsElement
<1>13. t \notin Types => val.ok = FALSE
  <2> SUFFICES ASSUME t \notin Types
               PROVE  val.ok = FALSE
    OBVIOUS
  <2>1. next \in Nat
    <3>1. here \in Nat /\ Len(p) \in Nat
      BY <1>2, <1>6
    <3> HIDE DEF here, p
    <3> QED BY <3>1
  <2>2. Element(b, next) = NoElement
    <3> HIDE DEF next, t, c
    <3> QED BY <1>1, <1>7, <2>1, ElementIsRead
  <2> QED BY <1>8, <2>2 DEF NoElement
<1>14. (Len(c) = 0) = (c = <<>>)
  BY <1>1, EmptySeq
<1>15. Taken(v) = (Len(o) <= MaxSubids /\ t \in Types /\ (t = Null) = (c = <<>>))
  BY DEF Taken
<1> HIDE DEF bind, name, val, o, t, c, p, q, r, end
<1>16. CASE Len(o) <= MaxSubids /\ t \in Types /\ (t = Null) = (c = <<>>)
  <2>1. Varbind(b, s) = [ok |-> TRUE, at |-> end, oids |-> Append(oids, MibOid(o))]
    <3>1. OidOf(Bytes(b, name)) = MibOid(o)
      BY <1>8, <1>9, <1>11, <1>16
    <3>2. (val.type = Null) = (val.len = 0)
      BY <1>12, <1>14, <1>16
    <3> QED BY <1>3, <1>4, <1>6, <1>8, <1>10, <1>12, <1>16, <3>1, <3>2
  <2> QED BY <1>15, <1>16, <2>1 DEF Reading, end, o, s
<1>17. CASE ~(Len(o) <= MaxSubids /\ t \in Types /\ (t = Null) = (c = <<>>))
  <2>1. CASE ~(Len(o) <= MaxSubids)
    <3>1. OidOf(Bytes(b, name)) = NoOid
      BY <1>8, <1>9, <1>11, <2>1
    <3>2. Varbind(b, s) = [s EXCEPT !.ok = FALSE]
      BY <1>4, <3>1
    <3> QED BY <1>5, <1>15, <1>17, <3>2 DEF s
  <2>2. CASE t \notin Types
    <3>1. Varbind(b, s) = [s EXCEPT !.ok = FALSE]
      BY <1>4, <1>13, <2>2
    <3> QED BY <1>5, <1>15, <1>17, <3>1 DEF s
  <2>3. CASE t \in Types /\ ~((t = Null) = (c = <<>>))
    <3>1. ~((val.type = Null) = (val.len = 0))
      BY <1>12, <1>14, <2>3
    <3>2. Varbind(b, s) = [s EXCEPT !.ok = FALSE]
      BY <1>4, <3>1
    <3> QED BY <1>5, <1>15, <1>17, <3>2 DEF s
  <2> QED BY <1>17, <2>1, <2>2, <2>3
<1> QED BY <1>16, <1>17

-----------------------------------------------------------------------------
(* The list of variable bindings.                                            *)

BerVars(vs, form) == [i \in 1 .. Len(vs) |-> BerVar(vs[i], form)]

\* Where each variable starts in the list.
LEMMA VarsAre ==
    ASSUME NEW vs \in Seq(Variables), NEW form \in 0 .. 2
    PROVE  \E f : /\ f[0] = <<>>
                  /\ \A i \in 0 .. Len(vs) : f[i] \in Seq(Byte)
                  /\ \A i \in 1 .. Len(vs) : f[i] = f[i - 1] \o BerVar(vs[i], form)
                  /\ FlattenSeq(BerVars(vs, form)) = f[Len(vs)]
<1> DEFINE N == Len(vs)
           A == BerVars(vs, form)
<1>1. N \in Nat /\ \A i \in 1 .. N : vs[i] \in Variables
  BY LenProperties, ElementOfSeq
<1>2. \A i \in 1 .. N : BerVar(vs[i], form) \in Seq(Byte)
  BY <1>1, BerVarType
<1>3. A \in Seq(Seq(Byte)) /\ Len(A) = N /\ \A i \in 1 .. N : A[i] = BerVar(vs[i], form)
  BY <1>1, <1>2 DEF BerVars
<1> HIDE DEF A
<1>4. PICK f : /\ f \in [0 .. Len(A) -> Seq(Byte)] /\ f[0] = <<>>
               /\ \A i \in 1 .. Len(A) : f[i] = f[i - 1] \o A[i]
               /\ FlattenSeq(A) = f[Len(A)]
  BY <1>3, FlattenLoop
<1>5. (\A i \in 0 .. N : f[i] \in Seq(Byte)) /\ (\A i \in 1 .. N : f[i] = f[i - 1] \o BerVar(vs[i], form))
  BY <1>3, <1>4
<1> QED BY <1>3, <1>4, <1>5 DEF A

\* The parts of a list, where a packet holds it.
LEMMA VarsAreHeld ==
    ASSUME NEW b \in Seq(Byte), NEW at \in Nat, NEW vs \in Seq(Variables), NEW form \in 0 .. 2,
           NEW f, \A i \in 0 .. Len(vs) : f[i] \in Seq(Byte),
           \A i \in 1 .. Len(vs) : f[i] = f[i - 1] \o BerVar(vs[i], form),
           Holds(b, at, f[Len(vs)])
    PROVE  /\ \A i \in 0 .. Len(vs) : Holds(b, at, f[i])
           /\ \A i \in 1 .. Len(vs) : /\ Holds(b, at + Len(f[i - 1]), BerVar(vs[i], form))
                                      /\ Len(f[i]) = Len(f[i - 1]) + Len(BerVar(vs[i], form))
<1> DEFINE N == Len(vs)
<1>1. N \in Nat /\ \A i \in 1 .. N : vs[i] \in Variables
  BY LenProperties, ElementOfSeq
<1>2. ASSUME NEW i \in 1 .. N, Holds(b, at, f[i])
      PROVE  /\ Holds(b, at, f[i - 1]) /\ Holds(b, at + Len(f[i - 1]), BerVar(vs[i], form))
             /\ Len(f[i]) = Len(f[i - 1]) + Len(BerVar(vs[i], form))
  <2> DEFINE p == f[i - 1]
             q == BerVar(vs[i], form)
  <2>1. p \in Seq(Byte) /\ q \in Seq(Byte) /\ f[i] = p \o q
    <3>1. i - 1 \in 0 .. N
      BY <1>1
    <3> QED BY <1>1, <3>1, BerVarType
  <2>2. Holds(b, at, p \o q)
    BY <1>2, <2>1
  <2> HIDE DEF p, q
  <2>3. Holds(b, at, p) /\ Holds(b, at + Len(p), q) /\ Len(p \o q) = Len(p) + Len(q)
    BY <2>1, <2>2, HoldsParts
  <2> QED BY <2>1, <2>3 DEF p, q
<1> DEFINE T == {j \in Nat : j <= N => Holds(b, at, f[N - j])}
<1>3. 0 \in T
  BY <1>1
<1>4. ASSUME NEW j \in Nat, j \in T
      PROVE  j + 1 \in T
  <2> SUFFICES ASSUME j + 1 <= N
               PROVE  Holds(b, at, f[N - (j + 1)])
    OBVIOUS
  <2>1. N - j \in 1 .. N /\ (N - j) - 1 = N - (j + 1) /\ Holds(b, at, f[N - j])
    BY <1>1, <1>4
  <2>2. Holds(b, at, f[(N - j) - 1])
    BY <1>2, <2>1
  <2> QED BY <2>1, <2>2
<1>5. \A j \in Nat : j \in T
  <2> HIDE DEF T
  <2> QED BY <1>3, <1>4, InductionOnNat
<1>6. \A i \in 0 .. N : Holds(b, at, f[i])
  <2> SUFFICES ASSUME NEW i \in 0 .. N
               PROVE  Holds(b, at, f[i])
    OBVIOUS
  <2>1. N - i \in Nat /\ N - i <= N /\ N - (N - i) = i
    BY <1>1
  <2>2. Holds(b, at, f[N - (N - i)])
    BY <1>5, <2>1
  <2> QED BY <2>1, <2>2
<1>7. \A i \in 1 .. N : i \in 0 .. N
  BY <1>1
<1> QED BY <1>2, <1>6, <1>7

\* One turn of the loop over the variable bindings.
Turn(b, s) == IF ~s.ok \/ s.at >= Len(b) THEN s ELSE Varbind(b, s)

Turns(c, b, at) ==
    c[0] = Reading(at, <<>>) /\ \A n \in 1 .. MaxOids : c[n] = Turn(b, c[n - 1])

\* The function in Varbinds is defined by exists.
LEMMA VarbindsLoop ==
    ASSUME NEW b, NEW at
    PROVE  \E c : /\ Turns(c, b, at)
                  /\ Varbinds(b, at)
                     = [c[MaxOids] EXCEPT !.ok = @ /\ c[MaxOids].at >= Len(b)]
<1> DEFINE c == CHOOSE c : c = [n \in 0 .. MaxOids |->
                    IF n = 0 THEN [ok |-> TRUE, at |-> at, oids |-> <<>>]
                    ELSE LET s == c[n - 1]
                         IN  IF ~s.ok \/ s.at >= Len(b) THEN s ELSE Varbind(b, s)]
           start == Reading(at, <<>>)
           IsRun(f, m) == f = [n \in 0 .. m |-> IF n = 0 THEN start ELSE Turn(b, f[n - 1])]
<1>1. Varbinds(b, at) = [c[MaxOids] EXCEPT !.ok = @ /\ c[MaxOids].at >= Len(b)]
  BY DEF Varbinds
<1>2. c = CHOOSE f : f = [n \in 0 .. MaxOids |-> IF n = 0 THEN start ELSE Turn(b, f[n - 1])]
  BY DEF Turn, Reading
<1> HIDE DEF c, start
<1> DEFINE T == {m \in Nat : \E f : IsRun(f, m)}
<1>3. 0 \in T
  <2>1. IsRun([n \in 0 .. 0 |-> start], 0)
    OBVIOUS
  <2> QED BY <2>1
<1>4. ASSUME NEW m \in Nat, m \in T
      PROVE  m + 1 \in T
  <2>1. PICK f : f = [n \in 0 .. m |-> IF n = 0 THEN start ELSE Turn(b, f[n - 1])]
    BY <1>4
  <2> DEFINE g == [n \in 0 .. m + 1 |-> IF n <= m THEN f[n] ELSE Turn(b, f[m])]
  <2>2. \A n \in 0 .. m : g[n] = f[n]
    OBVIOUS
  <2>3. g[m + 1] = Turn(b, f[m])
    OBVIOUS
  <2>4. g = [n \in 0 .. m + 1 |-> g[n]]
    OBVIOUS
  <2> HIDE DEF g
  <2>5. ASSUME NEW n \in 0 .. m + 1
        PROVE  g[n] = IF n = 0 THEN start ELSE Turn(b, g[n - 1])
    <3>1. CASE n = 0
      <4>1. 0 \in 0 .. m
        OBVIOUS
      <4>2. f[0] = start
        BY <2>1, <4>1
      <4> QED BY <2>2, <3>1, <4>1, <4>2
    <3>2. CASE n \in 1 .. m
      <4>1. n \in 0 .. m /\ n - 1 \in 0 .. m /\ n # 0
        BY <3>2
      <4>2. f[n] = Turn(b, f[n - 1])
        BY <2>1, <4>1
      <4> QED BY <2>2, <4>1, <4>2
    <3>3. CASE n = m + 1
      <4>1. n # 0 /\ n - 1 = m /\ m \in 0 .. m
        BY <3>3
      <4> QED BY <2>2, <2>3, <3>3, <4>1
    <3> QED BY <3>1, <3>2, <3>3
  <2>6. IsRun(g, m + 1)
    BY <2>4, <2>5
  <2> QED BY <2>6
<1>5. MaxOids \in Nat
  BY Limits
<1>6. MaxOids \in T
  <2> HIDE DEF T
  <2> QED BY <1>3, <1>4, <1>5, InductionOnNat
<1>7. c = [n \in 0 .. MaxOids |-> IF n = 0 THEN start ELSE Turn(b, c[n - 1])]
  BY <1>2, <1>6
<1>8. Turns(c, b, at)
  <2>1. c[0] = start
    BY <1>5, <1>7
  <2>2. \A n \in 1 .. MaxOids : n \in 0 .. MaxOids /\ n # 0
    BY <1>5
  <2>3. \A n \in 1 .. MaxOids : c[n] = Turn(b, c[n - 1])
    BY <1>7, <2>2
  <2> QED BY <2>1, <2>3 DEF Turns, start
<1> QED BY <1>1, <1>8

\* The OIDs of the first variables, as entries of the MIB have them.
MibOids(vs, k) == [i \in 1 .. k |-> MibOid(vs[i].oid)]

\* One OID more.
LEMMA MibOidsGrow ==
    ASSUME NEW vs, NEW k \in Nat
    PROVE  /\ MibOids(vs, 0) = <<>>
           /\ Append(MibOids(vs, k), MibOid(vs[k + 1].oid)) = MibOids(vs, k + 1)
<1>1. MibOids(vs, 0) = <<>>
  BY DEF MibOids
<1> DEFINE g(i) == MibOid(vs[i].oid)
<1> HIDE DEF g
<1>2. Append([i \in 1 .. k |-> g(i)], g(k + 1)) = [i \in 1 .. k + 1 |-> g(i)]
  OBVIOUS
<1> QED BY <1>1, <1>2 DEF MibOids, g

\* After a binding that was not read, the loop stays as it is.
LEMMA TurnFails ==
    ASSUME NEW b, NEW s, Failed(s)
    PROVE  Turn(b, s) = s /\ s.ok = FALSE
BY DEF Turn, Failed

\* Before the end of the packet, a turn reads a binding.
LEMMA TurnReads ==
    ASSUME NEW b, NEW at, NEW oids
    PROVE  /\ at >= Len(b) => Turn(b, Reading(at, oids)) = Reading(at, oids)
           /\ ~(at >= Len(b)) => Turn(b, Reading(at, oids)) = Varbind(b, Reading(at, oids))
<1>1. Reading(at, oids).ok = TRUE /\ Reading(at, oids).at = at
  BY DEF Reading
<1> QED BY <1>1 DEF Turn

\* After each turn, the variables up to it are read, or one was not.
ReadTo(s, vs, k, at) ==
    \/ (\A j \in 1 .. k : Taken(vs[j])) /\ s = Reading(at, MibOids(vs, k))
    \/ (\E j \in 1 .. k : ~Taken(vs[j])) /\ Failed(s)

\* A turn reads the next variable, if it is one the agent takes.
LEMMA TurnReadsOne ==
    ASSUME NEW b \in Seq(Byte), Len(b) < Word, NEW vs \in Seq(Variables), NEW form \in 0 .. 2,
           NEW k \in Nat, k < Len(vs), NEW at \in Nat,
           Holds(b, at, BerVar(vs[k + 1], form)), NEW s, ReadTo(s, vs, k, at)
    PROVE  ReadTo(Turn(b, s), vs, k + 1, at + Len(BerVar(vs[k + 1], form)))
<1> DEFINE v == vs[k + 1]
           w == BerVar(v, form)
           K == k + 1
<1>1. k + 1 \in 1 .. Len(vs) /\ v \in Variables
  BY LenProperties, ElementOfSeq
<1>2. \A j \in 1 .. k : j \in 1 .. K
  OBVIOUS
<1>3. K \in 1 .. K /\ \A j \in 1 .. K : j \in 1 .. k \/ j = K
  OBVIOUS
<1>4. CASE Failed(s) /\ \E j \in 1 .. k : ~Taken(vs[j])
  <2>1. Turn(b, s) = s
    BY <1>4, TurnFails
  <2>2. \E j \in 1 .. K : ~Taken(vs[j])
    BY <1>2, <1>4
  <2> QED BY <1>4, <2>1, <2>2 DEF ReadTo
<1>5. CASE s = Reading(at, MibOids(vs, k)) /\ \A j \in 1 .. k : Taken(vs[j])
  <2> DEFINE oids == MibOids(vs, k)
  <2>1. ~(at >= Len(b))
    <3>1. Len(w) > 6 /\ Len(w) \in Nat
      BY <1>1, BerVarType, LenProperties
    <3>2. at + Len(w) <= Len(b) /\ Len(b) \in Nat
      BY LenProperties DEF Holds
    <3> HIDE DEF w
    <3> QED BY <3>1, <3>2
  <2>2. Turn(b, s) = Varbind(b, Reading(at, oids))
    BY <1>5, <2>1, TurnReads
  <2>3. IF Taken(v) THEN Turn(b, s) = Reading(at + Len(w), Append(oids, MibOid(v.oid)))
        ELSE Failed(Turn(b, s))
    <3>1. Holds(b, at, BerVar(v, form))
      OBVIOUS
    <3> HIDE DEF v, oids
    <3> QED BY <1>1, <2>2, <3>1, VarbindIsRead
  <2>4. Append(oids, MibOid(v.oid)) = MibOids(vs, K)
    BY MibOidsGrow
  <2> HIDE DEF oids, w
  <2>5. CASE Taken(v)
    <3>1. \A j \in 1 .. K : Taken(vs[j])
      BY <1>3, <1>5, <2>5
    <3>2. Turn(b, s) = Reading(at + Len(w), MibOids(vs, K))
      BY <2>3, <2>4, <2>5
    <3> QED BY <3>1, <3>2 DEF ReadTo, w
  <2>6. CASE ~Taken(v)
    <3>1. \E j \in 1 .. K : ~Taken(vs[j])
      BY <1>3, <2>6
    <3>2. Failed(Turn(b, s))
      BY <2>3, <2>6
    <3> QED BY <3>1, <3>2 DEF ReadTo
  <2> QED BY <2>5, <2>6
<1> QED BY <1>4, <1>5 DEF ReadTo

\* At the end of the packet the loop turns without a change.
LEMMA TurnStays ==
    ASSUME NEW b, NEW vs, NEW k, NEW at, at >= Len(b), NEW s, ReadTo(s, vs, k, at)
    PROVE  Turn(b, s) = s
<1>1. CASE Failed(s)
  BY <1>1, TurnFails
<1>2. CASE s = Reading(at, MibOids(vs, k))
  BY <1>2, TurnReads
<1> QED BY <1>1, <1>2 DEF ReadTo

\* The OIDs of a list are read when all variables are taken and there is room.
LEMMA VarbindsAreRead ==
    ASSUME NEW b \in Seq(Byte), Len(b) < Word, NEW at \in Nat, NEW vs \in Seq(Variables),
           NEW form \in 0 .. 2, Holds(b, at, FlattenSeq(BerVars(vs, form))),
           at + Len(FlattenSeq(BerVars(vs, form))) = Len(b)
    PROVE  /\ Varbinds(b, at).ok = (Len(vs) <= MaxOids /\ \A j \in 1 .. Len(vs) : Taken(vs[j]))
           /\ Varbinds(b, at).ok => Varbinds(b, at).oids = MibOids(vs, Len(vs))
<1> DEFINE N == Len(vs)
           M == MaxOids
<1>1. N \in Nat /\ M \in Nat /\ Len(b) \in Nat
  BY LenProperties, Limits
<1>2. PICK f : /\ f[0] = <<>>
               /\ \A i \in 0 .. N : f[i] \in Seq(Byte)
               /\ \A i \in 1 .. N : f[i] = f[i - 1] \o BerVar(vs[i], form)
               /\ FlattenSeq(BerVars(vs, form)) = f[N]
  BY VarsAre
<1>3. /\ \A i \in 0 .. N : Holds(b, at, f[i])
      /\ \A i \in 1 .. N : /\ Holds(b, at + Len(f[i - 1]), BerVar(vs[i], form))
                           /\ Len(f[i]) = Len(f[i - 1]) + Len(BerVar(vs[i], form))
  <2>1. Holds(b, at, f[N]) /\ (\A i \in 0 .. N : f[i] \in Seq(Byte))
        /\ \A i \in 1 .. N : f[i] = f[i - 1] \o BerVar(vs[i], form)
    BY <1>2
  <2> QED BY <2>1, VarsAreHeld
<1> DEFINE here(k) == at + Len(f[k])
<1>4. here(0) = at /\ here(N) = Len(b) /\ \A k \in 0 .. N : here(k) \in Nat
  <2>1. Len(f[0]) = 0
    BY <1>2, EmptySeq
  <2>2. \A k \in 0 .. N : Len(f[k]) \in Nat
    BY <1>2, LenProperties
  <2> QED BY <1>2, <2>1, <2>2
<1>5. ASSUME NEW k \in Nat, k < N, NEW s, ReadTo(s, vs, k, here(k))
      PROVE  ReadTo(Turn(b, s), vs, k + 1, here(k + 1))
  <2>1. k + 1 \in 1 .. N /\ k \in 0 .. N /\ (k + 1) - 1 = k
    BY <1>1, <1>5
  <2> DEFINE w == BerVar(vs[k + 1], form)
             h == here(k)
  <2>2. Holds(b, h, w) /\ Len(f[k + 1]) = Len(f[k]) + Len(w)
    BY <1>3, <2>1
  <2>3. h \in Nat
    BY <1>4, <2>1
  <2>4. here(k + 1) = h + Len(w)
    <3>1. Len(f[k]) \in Nat /\ Len(w) \in Nat
      <4>1. vs[k + 1] \in Variables /\ f[k] \in Seq(Byte)
        BY <1>2, <2>1, ElementOfSeq
      <4>2. w \in Seq(Byte)
        BY <4>1, BerVarType
      <4> HIDE DEF w
      <4> QED BY <4>1, <4>2, LenProperties
    <3> HIDE DEF w
    <3> QED BY <2>2, <3>1
  <2>5. ReadTo(s, vs, k, h) /\ Holds(b, h, BerVar(vs[k + 1], form)) /\ k < Len(vs)
    BY <1>5, <2>2
  <2> HIDE DEF h
  <2>6. ReadTo(Turn(b, s), vs, k + 1, h + Len(BerVar(vs[k + 1], form)))
    BY <2>3, <2>5, TurnReadsOne
  <2> QED BY <2>4, <2>6
<1>6. PICK c : Turns(c, b, at) /\ Varbinds(b, at) = [c[M] EXCEPT !.ok = @ /\ c[M].at >= Len(b)]
  BY VarbindsLoop
<1> DEFINE UpTo(n) == IF n <= N THEN n ELSE N
           T == {n \in Nat : n <= M => ReadTo(c[n], vs, UpTo(n), here(UpTo(n)))}
<1>7. 0 \in T
  <2>1. c[0] = Reading(at, <<>>) /\ MibOids(vs, 0) = <<>>
    BY <1>6, MibOidsGrow DEF Turns
  <2>2. \A j \in 1 .. 0 : FALSE
    OBVIOUS
  <2>3. ReadTo(c[0], vs, 0, here(0))
    BY <1>4, <2>1, <2>2 DEF ReadTo
  <2>4. UpTo(0) = 0
    BY <1>1
  <2> QED BY <2>3, <2>4
<1>8. ASSUME NEW n \in Nat, n \in T
      PROVE  n + 1 \in T
  <2> SUFFICES ASSUME n + 1 <= M
               PROVE  ReadTo(c[n + 1], vs, UpTo(n + 1), here(UpTo(n + 1)))
    OBVIOUS
  <2>1. n <= M /\ n + 1 \in 1 .. M /\ (n + 1) - 1 = n
    BY <1>1
  <2>2. ReadTo(c[n], vs, UpTo(n), here(UpTo(n)))
    BY <1>8, <2>1
  <2>3. c[n + 1] = Turn(b, c[n])
    BY <1>6, <2>1 DEF Turns
  <2> HIDE DEF here, M
  <2>4. CASE n < N
    <3>1. UpTo(n) = n /\ UpTo(n + 1) = n + 1
      BY <1>1, <2>4
    <3> HIDE DEF UpTo
    <3>2. ReadTo(Turn(b, c[n]), vs, n + 1, here(n + 1))
      BY <1>5, <2>2, <2>4, <3>1
    <3> QED BY <2>3, <3>1, <3>2
  <2>5. CASE ~(n < N)
    <3>1. UpTo(n) = N /\ UpTo(n + 1) = N
      BY <1>1, <2>5
    <3> HIDE DEF UpTo
    <3>2. here(N) >= Len(b)
      BY <1>1, <1>4
    <3>3. Turn(b, c[n]) = c[n]
      BY <2>2, <3>1, <3>2, TurnStays
    <3> QED BY <2>2, <2>3, <3>1, <3>3
  <2> QED BY <2>4, <2>5
<1>9. M \in T
  <2> HIDE DEF T, M
  <2> QED BY <1>1, <1>7, <1>8, InductionOnNat
<1>10. ReadTo(c[M], vs, UpTo(M), here(UpTo(M)))
  BY <1>1, <1>9
<1> DEFINE k == UpTo(M)
           s == c[M]
           r == Varbinds(b, at)
<1>11. k \in 0 .. N /\ (N <= M => k = N) /\ (~(N <= M) => k < N)
  BY <1>1
<1>12. ~(N <= M) => ~(here(k) >= Len(b))
  <2> SUFFICES ASSUME ~(N <= M)
               PROVE  ~(here(k) >= Len(b))
    OBVIOUS
  <2>1. k + 1 \in 1 .. N /\ (k + 1) - 1 = k /\ k < N
    BY <1>1, <1>11
  <2> DEFINE w == BerVar(vs[k + 1], form)
             h == here(k)
  <2>2. Holds(b, h, w)
    BY <1>3, <2>1
  <2>3. Len(w) > 6 /\ Len(w) \in Nat
    BY <2>1, ElementOfSeq, BerVarType, LenProperties
  <2> HIDE DEF h, w
  <2>4. h \in Nat /\ h + Len(w) <= Len(b)
    BY <2>2 DEF Holds
  <2>5. ~(h >= Len(b))
    BY <1>1, <2>3, <2>4
  <2> QED BY <2>5 DEF h
<1>13. N <= M => here(k) >= Len(b)
  BY <1>1, <1>4, <1>11
<1>14. ReadTo(s, vs, k, here(k)) /\ r = [s EXCEPT !.ok = @ /\ s.at >= Len(b)]
  BY <1>6, <1>10
<1> HIDE DEF k, s, r, here, M
<1>15. CASE s = Reading(here(k), MibOids(vs, k)) /\ \A j \in 1 .. k : Taken(vs[j])
  <2> DEFINE yes == TRUE
             ends == here(k) >= Len(b)
             oids == MibOids(vs, k)
             h == here(k)
  <2>1. s = [ok |-> yes, at |-> h, oids |-> oids]
    BY <1>15 DEF Reading
  <2> HIDE DEF ends, yes, oids, h
  <2>2. s.at = h /\ s.ok = yes
    BY <2>1
  <2> DEFINE both == yes /\ h >= Len(b)
  <2>3. r = [[ok |-> yes, at |-> h, oids |-> oids] EXCEPT !.ok = both]
    BY <1>14, <2>1, <2>2
  <2> HIDE DEF both
  <2>4. r.ok = both /\ r.oids = oids
    BY <2>3
  <2>5. both = ends
    BY DEF both, ends, yes, h
  <2>6. ends = (N <= M)
    BY <1>12, <1>13 DEF ends
  <2>7. N <= M => k = N
    BY <1>11
  <2>8. r.ok = (N <= M)
    BY <2>4, <2>5, <2>6
  <2>9. N <= M => (\A j \in 1 .. N : Taken(vs[j])) /\ r.oids = MibOids(vs, N)
    BY <1>15, <2>4, <2>7 DEF oids
  <2> DEFINE all == N <= M /\ \A j \in 1 .. N : Taken(vs[j])
  <2>10. all = (N <= M)
    BY <2>9
  <2>11. r.ok = all
    BY <2>8, <2>10
  <2>12. r.ok => r.oids = MibOids(vs, N)
    BY <2>8, <2>9
  <2> QED BY <2>11, <2>12 DEF r, M
<1>16. CASE Failed(s) /\ \E j \in 1 .. k : ~Taken(vs[j])
  <2>1. PICK a, oids : s = [ok |-> FALSE, at |-> a, oids |-> oids]
    BY <1>16 DEF Failed
  <2> DEFINE no == FALSE
             both == no /\ a >= Len(b)
  <2>2. r = [[ok |-> no, at |-> a, oids |-> oids] EXCEPT !.ok = both]
    BY <1>14, <2>1
  <2> HIDE DEF no, both
  <2>3. r.ok = both
    BY <2>2
  <2>4. r.ok = FALSE
    BY <2>3 DEF both, no
  <2>5. \A j \in 1 .. k : j \in 1 .. N
    BY <1>1, <1>11
  <2>6. ~(\A j \in 1 .. N : Taken(vs[j]))
    BY <1>16, <2>5
  <2> HIDE DEF N
  <2> QED BY <2>4, <2>6 DEF r, N
<1> QED BY <1>14, <1>15, <1>16 DEF ReadTo

-----------------------------------------------------------------------------
(* Requests.                                                                 *)

Sendable == [version : Integers(IntBytes), community : Seq(1 .. 255), type : Byte,
             numbers : [1 .. 3 -> Integers(IntBytes)], vars : Seq(Variables)]

\* The parts of a message, from the list of its variables to the whole.
BerPdu(numbers, list, form) ==
    BerInteger(numbers[1], form) \o BerInteger(numbers[2], form)
    \o BerInteger(numbers[3], form) \o Ber(Sequence, list, form)

BerParts(version, community, type, pdu, form) ==
    BerInteger(version, form) \o Ber(OctetString, community, form) \o Ber(type, pdu, form)

BerWhole(version, community, type, numbers, list, form) ==
    Ber(Sequence, BerParts(version, community, type, BerPdu(numbers, list, form), form), form)

\* A request, in its parts.
LEMMA BerRequestIs ==
    ASSUME NEW m \in Sendable, NEW form
    PROVE  BerRequest(m, form)
           = BerWhole(m.version, m.community, m.type, m.numbers,
                      FlattenSeq(BerVars(m.vars, form)), form)
<1> DEFINE binds == [i \in 1 .. Len(m.vars) |->
                        <<m.vars[i].oid, Ber(m.vars[i].type, m.vars[i].body, form)>>]
           list  == [i \in 1 .. Len(binds) |->
                        Ber(Sequence, BerOid(binds[i][1], form) \o binds[i][2], form)]
           n     == Len(m.vars)
<1>1. BerRequest(m, form)
      = BerWhole(m.version, m.community, m.type, m.numbers, FlattenSeq(list), form)
  <2> HIDE DEF binds
  <2>1. BerMessage(m.version, m.community, m.type, m.numbers, binds, form)
        = BerWhole(m.version, m.community, m.type, m.numbers, FlattenSeq(list), form)
    BY DEF BerMessage, BerWhole, BerParts, BerPdu
  <2> QED BY <2>1 DEF BerRequest, binds
<1>2. Len(binds) = n
  <2>1. n \in Nat
    BY LenProperties DEF Sendable
  <2> QED BY <2>1
<1>3. \A i \in 1 .. n : binds[i][1] = m.vars[i].oid
                        /\ binds[i][2] = Ber(m.vars[i].type, m.vars[i].body, form)
  OBVIOUS
<1> HIDE DEF binds
<1>4. list = BerVars(m.vars, form)
  BY <1>2, <1>3 DEF BerVars, BerVar
<1> QED BY <1>1, <1>4

\* An integer is found as it was written.
LEMMA IntegerIsFound ==
    ASSUME NEW b \in Seq(Byte), Len(b) < Word, NEW at \in Nat, NEW v \in Integers(IntBytes),
           NEW form \in 0 .. 2, Holds(b, at, BerInteger(v, form))
    PROVE  /\ Is(b, Element(b, at), Integer) /\ IntegerOf(Bytes(b, Element(b, at))) = v
           /\ After(Element(b, at)) = at + Len(BerInteger(v, form))
           /\ v \in {0, 1} => Element(b, at).len = 1
<1>1. PICK k \in 1 .. IntBytes : WrittenIn(v, k)
  BY IntegerIsWritten
<1> DEFINE d == Digits(v, 256, k)
           e == Element(b, at)
           end == at + Len(BerInteger(v, form))
<1>2. /\ v \in Int /\ v \in Integers(k) /\ d \in Seq(Byte) /\ Len(d) = k
      /\ (v \in {0, 1} => k = 1) /\ BerInteger(v, form) = Ber(Integer, d, form)
  BY <1>1 DEF WrittenIn
<1>3. IntegerOf(d) = v
  BY <1>2, IntegerIsRead
<1>4. k \in Nat /\ k >= 1
  BY Sizes
<1>5. IsElement(e, b, Integer, d, end)
  <2>1. Holds(b, at, Ber(Integer, d, form))
    BY <1>2
  <2> HIDE DEF d
  <2>2. IsElement(e, b, Integer, d, at + Len(Ber(Integer, d, form)))
    BY <1>2, <2>1, CodesAreBytes, ElementIsRead
  <2> QED BY <1>2, <2>2
<1> HIDE DEF d, e, end
<1>6. e.ok = TRUE /\ e.type = Integer /\ e.len = k /\ Fits(b, e) /\ Bytes(b, e) = d
      /\ After(e) = end
  BY <1>2, <1>5 DEF IsElement
<1>7. Is(b, e, Integer)
  BY <1>4, <1>6 DEF Is
<1>8. v \in {0, 1} => e.len = 1
  BY <1>2, <1>6
<1> QED BY <1>3, <1>6, <1>7, <1>8 DEF e, end

\* The parts of a message are bytes.
LEMMA PduType ==
    ASSUME NEW nums \in [1 .. 3 -> Integers(IntBytes)], NEW list \in Seq(Byte),
           NEW form \in 0 .. 2
    PROVE  /\ BerPdu(nums, list, form) \in Seq(Byte)
           /\ Len(BerPdu(nums, list, form)) > 10 + Len(list)
           /\ \A i \in 1 .. 3 : BerInteger(nums[i], form) \in Seq(Byte)
           /\ Ber(Sequence, list, form) \in Seq(Byte)
           /\ BerInteger(nums[1], form) \o BerInteger(nums[2], form) \in Seq(Byte)
           /\ BerInteger(nums[1], form) \o BerInteger(nums[2], form)
              \o BerInteger(nums[3], form) \in Seq(Byte)
<1> DEFINE x == BerInteger(nums[1], form)
           y == BerInteger(nums[2], form)
           z == BerInteger(nums[3], form)
           l == Ber(Sequence, list, form)
<1>1. \A i \in 1 .. 3 : BerInteger(nums[i], form) \in Seq(Byte)
                        /\ Len(BerInteger(nums[i], form)) >= 3
  BY BerIntegerIs
<1>2. x \in Seq(Byte) /\ y \in Seq(Byte) /\ z \in Seq(Byte)
      /\ Len(x) >= 3 /\ Len(y) >= 3 /\ Len(z) >= 3
  BY <1>1
<1>3. l \in Seq(Byte) /\ Len(l) > Len(list) + 1
  BY CodesAreBytes, BerType
<1> HIDE DEF x, y, z, l
<1>4. x \o y \in Seq(Byte) /\ Len(x \o y) = Len(x) + Len(y)
  BY <1>2, ConcatElements
<1> DEFINE xy == x \o y
<1> HIDE DEF xy
<1>5. xy \o z \in Seq(Byte) /\ Len(xy \o z) = Len(xy) + Len(z)
  <2>1. xy \in Seq(Byte)
    BY <1>4 DEF xy
  <2> QED BY <1>2, <2>1, ConcatElements
<1> DEFINE xyz == xy \o z
<1> HIDE DEF xyz
<1>6. xyz \o l \in Seq(Byte) /\ Len(xyz \o l) = Len(xyz) + Len(l)
  <2>1. xyz \in Seq(Byte)
    BY <1>5 DEF xyz
  <2> QED BY <1>3, <2>1, ConcatElements
<1>7. Len(xyz \o l) > 10 + Len(list)
  <2>1. Len(xyz) = Len(x) + Len(y) + Len(z)
    BY <1>2, <1>4, <1>5 DEF xyz, xy
  <2>2. Len(list) \in Nat /\ Len(l) \in Nat /\ Len(x) \in Nat /\ Len(y) \in Nat /\ Len(z) \in Nat
    BY <1>2, <1>3, LenProperties
  <2> QED BY <1>2, <1>3, <1>6, <2>1, <2>2
<1> QED BY <1>1, <1>3, <1>4, <1>5, <1>6, <1>7 DEF BerPdu, x, y, z, l, xy, xyz

\* And so are the parts of the whole.
LEMMA PartsType ==
    ASSUME NEW version \in Integers(IntBytes), NEW community \in Seq(Byte), NEW type \in Byte,
           NEW pdu \in Seq(Byte), NEW form \in 0 .. 2
    PROVE  /\ BerParts(version, community, type, pdu, form) \in Seq(Byte)
           /\ Len(BerParts(version, community, type, pdu, form)) > 6 + Len(pdu) + Len(community)
           /\ BerInteger(version, form) \in Seq(Byte)
           /\ Ber(OctetString, community, form) \in Seq(Byte) /\ Ber(type, pdu, form) \in Seq(Byte)
           /\ BerInteger(version, form) \o Ber(OctetString, community, form) \in Seq(Byte)
<1> DEFINE x == BerInteger(version, form)
           y == Ber(OctetString, community, form)
           z == Ber(type, pdu, form)
<1>1. x \in Seq(Byte) /\ Len(x) >= 3
  BY BerIntegerIs
<1>2. y \in Seq(Byte) /\ Len(y) > Len(community) + 1
  BY CodesAreBytes, BerType
<1>3. z \in Seq(Byte) /\ Len(z) > Len(pdu) + 1
  BY BerType
<1> HIDE DEF x, y, z
<1>4. x \o y \in Seq(Byte) /\ Len(x \o y) = Len(x) + Len(y)
  BY <1>1, <1>2, ConcatElements
<1> DEFINE xy == x \o y
<1> HIDE DEF xy
<1>5. xy \o z \in Seq(Byte) /\ Len(xy \o z) = Len(xy) + Len(z)
  <2>1. xy \in Seq(Byte)
    BY <1>4 DEF xy
  <2> QED BY <1>3, <2>1, ConcatElements
<1>6. Len(xy \o z) > 6 + Len(pdu) + Len(community)
  <2>1. Len(x) \in Nat /\ Len(y) \in Nat /\ Len(z) \in Nat /\ Len(pdu) \in Nat
        /\ Len(community) \in Nat
    BY <1>1, <1>2, <1>3, LenProperties
  <2>2. Len(xy) = Len(x) + Len(y)
    BY <1>4 DEF xy
  <2> QED BY <1>1, <1>2, <1>3, <1>5, <2>1, <2>2
<1> QED BY <1>1, <1>2, <1>3, <1>4, <1>5, <1>6 DEF BerParts, x, y, z, xy

\* The elements of a request, as decode_snmp_request comes to them.
MsgIn(b) == Element(b, 0)
VerIn(b) == Element(b, MsgIn(b).at)
ComIn(b) == Element(b, After(VerIn(b)))
PduIn(b) == Element(b, After(ComIn(b)))
IdIn(b)  == Element(b, PduIn(b).at)
NonIn(b) == Element(b, After(IdIn(b)))
MaxIn(b) == Element(b, After(NonIn(b)))
LstIn(b) == Element(b, After(MaxIn(b)))
EndIn(b) == Varbinds(b, LstIn(b).at)

EnvelopeTaken(b) ==
    /\ Rest(b, MsgIn(b)) /\ MsgIn(b).type = Sequence
    /\ Is(b, VerIn(b), Integer) /\ VerIn(b).len = 1 /\ IntegerOf(Bytes(b, VerIn(b))) \in {0, 1}
    /\ ComIn(b).ok /\ ComIn(b).type = OctetString /\ ComIn(b).len < MaxString /\ Fits(b, ComIn(b))
    /\ Rest(b, PduIn(b)) /\ StringOf(Bytes(b, ComIn(b))) # <<>>

PduTaken(b) ==
    /\ Is(b, IdIn(b), Integer) /\ Is(b, NonIn(b), Integer) /\ Is(b, MaxIn(b), Integer)
    /\ Rest(b, LstIn(b)) /\ LstIn(b).type = Sequence

RequestIn(b) ==
    [ok        |-> TRUE,
     version   |-> IntegerOf(Bytes(b, VerIn(b))),
     community |-> StringOf(Bytes(b, ComIn(b))),
     type      |-> PduIn(b).type,
     numbers   |-> <<IntegerOf(Bytes(b, IdIn(b))), IntegerOf(Bytes(b, NonIn(b))),
                     IntegerOf(Bytes(b, MaxIn(b)))>>,
     oids      |-> EndIn(b).oids]

\* decode_snmp_request, in its parts.
LEMMA DecodeRequestIs ==
    ASSUME NEW b
    PROVE  DecodeRequest(b) = IF EnvelopeTaken(b) /\ PduTaken(b) /\ EndIn(b).ok
                              THEN RequestIn(b) ELSE NoRequest
<1> DEFINE msg == Element(b, 0)
           ver == Element(b, msg.at)
           com == Element(b, After(ver))
           pdu == Element(b, After(com))
           id  == Element(b, pdu.at)
           non == Element(b, After(id))
           max == Element(b, After(non))
           lst == Element(b, After(max))
           end == Varbinds(b, lst.at)
<1>1. DecodeRequest(b) =
      IF /\ Rest(b, msg) /\ msg.type = Sequence
         /\ Is(b, ver, Integer) /\ ver.len = 1 /\ IntegerOf(Bytes(b, ver)) \in {0, 1}
         /\ com.ok /\ com.type = OctetString /\ com.len < MaxString /\ Fits(b, com)
         /\ Rest(b, pdu) /\ StringOf(Bytes(b, com)) # <<>>
         /\ Is(b, id, Integer) /\ Is(b, non, Integer) /\ Is(b, max, Integer)
         /\ Rest(b, lst) /\ lst.type = Sequence
         /\ end.ok
      THEN [ok        |-> TRUE,
            version   |-> IntegerOf(Bytes(b, ver)),
            community |-> StringOf(Bytes(b, com)),
            type      |-> pdu.type,
            numbers   |-> <<IntegerOf(Bytes(b, id)), IntegerOf(Bytes(b, non)),
                            IntegerOf(Bytes(b, max))>>,
            oids      |-> end.oids]
      ELSE NoRequest
  BY DEF DecodeRequest
<1>2. msg = MsgIn(b) /\ ver = VerIn(b) /\ com = ComIn(b) /\ pdu = PduIn(b) /\ id = IdIn(b)
      /\ non = NonIn(b) /\ max = MaxIn(b) /\ lst = LstIn(b) /\ end = EndIn(b)
  BY DEF MsgIn, VerIn, ComIn, PduIn, IdIn, NonIn, MaxIn, LstIn, EndIn
<1> HIDE DEF msg, ver, com, pdu, id, non, max, lst, end
<1>3. EnvelopeTaken(b) =
      (/\ Rest(b, msg) /\ msg.type = Sequence
       /\ Is(b, ver, Integer) /\ ver.len = 1 /\ IntegerOf(Bytes(b, ver)) \in {0, 1}
       /\ com.ok /\ com.type = OctetString /\ com.len < MaxString /\ Fits(b, com)
       /\ Rest(b, pdu) /\ StringOf(Bytes(b, com)) # <<>>)
  BY <1>2 DEF EnvelopeTaken
<1>4. PduTaken(b) =
      (/\ Is(b, id, Integer) /\ Is(b, non, Integer) /\ Is(b, max, Integer)
       /\ Rest(b, lst) /\ lst.type = Sequence)
  BY <1>2 DEF PduTaken
<1>5. RequestIn(b) =
      [ok        |-> TRUE,
       version   |-> IntegerOf(Bytes(b, ver)),
       community |-> StringOf(Bytes(b, com)),
       type      |-> pdu.type,
       numbers   |-> <<IntegerOf(Bytes(b, id)), IntegerOf(Bytes(b, non)),
                       IntegerOf(Bytes(b, max))>>,
       oids      |-> end.oids]
  BY <1>2 DEF RequestIn
<1>6. end.ok = EndIn(b).ok
  BY <1>2
<1> QED BY <1>1, <1>3, <1>4, <1>5, <1>6

\* An element that goes on to the end of the packet.
LEMMA LastElement ==
    ASSUME NEW b \in Seq(Byte), NEW e, NEW type, NEW body \in Seq(Byte),
           IsElement(e, b, type, body, Len(b))
    PROVE  Rest(b, e)
<1>1. e.ok = TRUE /\ e.len = Len(body) /\ e.at \in Nat /\ e.at + Len(body) = Len(b)
  BY DEF IsElement
<1>2. Len(body) \in Nat /\ Len(b) \in Nat
  BY LenProperties
<1>3. e.len = Len(b) - e.at
  BY <1>1, <1>2
<1> QED BY <1>1, <1>3 DEF Rest

Envelope(b, version, community, type, pdu, parts) ==
    /\ b \in Seq(Byte) /\ Len(b) > 8 + Len(pdu) + Len(community)
    /\ IsElement(MsgIn(b), b, Sequence, parts, Len(b))
    /\ Is(b, VerIn(b), Integer) /\ IntegerOf(Bytes(b, VerIn(b))) = version
    /\ version \in {0, 1} => VerIn(b).len = 1
    /\ ComIn(b).ok = TRUE /\ ComIn(b).type = OctetString /\ Fits(b, ComIn(b))
    /\ ComIn(b).len = Len(community) /\ StringOf(Bytes(b, ComIn(b))) = community
    /\ IF type \in Types THEN IsElement(PduIn(b), b, type, pdu, Len(b)) ELSE PduIn(b) = NoElement

\* The version, the community and the PDU are found as they were written.
LEMMA EnvelopeIsFound ==
    ASSUME NEW version \in Integers(IntBytes), NEW community \in Seq(1 .. 255), NEW type \in Byte,
           NEW pdu \in Seq(Byte), NEW form \in 0 .. 2, NEW b,
           b = Ber(Sequence, BerParts(version, community, type, pdu, form), form), Len(b) < Word
    PROVE  Envelope(b, version, community, type, pdu,
                    BerParts(version, community, type, pdu, form))
<1> DEFINE r == BerParts(version, community, type, pdu, form)
           x == BerInteger(version, form)
           y == Ber(OctetString, community, form)
           z == Ber(type, pdu, form)
           xy == x \o y
<1>1. community \in Seq(Byte) /\ StringOf(community) = community
  BY StringIsRead
<1>2. /\ r \in Seq(Byte) /\ Len(r) > 6 + Len(pdu) + Len(community)
      /\ x \in Seq(Byte) /\ y \in Seq(Byte) /\ z \in Seq(Byte) /\ xy \in Seq(Byte)
  BY <1>1, PartsType
<1>3. r = xy \o z
  BY DEF BerParts
<1>4. b = Ber(Sequence, r, form)
  OBVIOUS
<1> HIDE DEF r
<1>5. b \in Seq(Byte) /\ Len(b) > Len(r) + 1
  BY <1>2, <1>4, CodesAreBytes, BerType
<1>6. Len(b) > 8 + Len(pdu) + Len(community)
  <2>1. Len(b) \in Nat /\ Len(r) \in Nat /\ Len(pdu) \in Nat /\ Len(community) \in Nat
    BY <1>1, <1>2, <1>5, LenProperties
  <2> QED BY <1>2, <1>5, <2>1
<1> DEFINE msg == MsgIn(b)
           ver == VerIn(b)
           com == ComIn(b)
           here == msg.at
           next == here + Len(x)
           last == next + Len(y)
<1>7. IsElement(msg, b, Sequence, r, Len(b))
  <2>1. Holds(b, 0, b)
    BY <1>5, LenProperties DEF Holds
  <2>2. Holds(b, 0, Ber(Sequence, r, form)) /\ 0 \in Nat
    BY <1>4, <2>1
  <2>3. IsElement(Element(b, 0), b, Sequence, r, 0 + Len(Ber(Sequence, r, form)))
    BY <1>2, <1>5, <2>2, CodesAreBytes, ElementIsRead
  <2>4. 0 + Len(Ber(Sequence, r, form)) = Len(b)
    BY <1>4, <1>5, LenProperties
  <2> QED BY <2>3, <2>4 DEF MsgIn
<1>8. Holds(b, here, r) /\ here \in Nat /\ here + Len(r) = Len(b)
  <2> HIDE DEF msg
  <2> QED BY <1>7 DEF IsElement
<1> HIDE DEF x, y, z, xy
<1>9. Holds(b, here, xy) /\ Holds(b, here + Len(xy), z) /\ Len(r) = Len(xy) + Len(z)
  BY <1>2, <1>3, <1>5, <1>8, HoldsParts
<1>10. Holds(b, here, x) /\ Holds(b, next, y) /\ Len(xy) = Len(x) + Len(y)
  <2>1. Holds(b, here, x \o y)
    BY <1>9 DEF xy
  <2> HIDE DEF msg
  <2>2. Holds(b, here, x) /\ Holds(b, here + Len(x), y) /\ Len(x \o y) = Len(x) + Len(y)
    BY <1>2, <1>5, <1>8, <2>1, HoldsParts
  <2> QED BY <2>2 DEF xy
<1>11. next \in Nat /\ last \in Nat /\ here + Len(xy) = last /\ last + Len(z) = Len(b)
  <2>1. Len(x) \in Nat /\ Len(y) \in Nat /\ Len(z) \in Nat
    BY <1>2, LenProperties
  <2>2. here \in Nat /\ here + (Len(x) + Len(y) + Len(z)) = Len(b)
    BY <1>8, <1>9, <1>10
  <2> HIDE DEF here
  <2> QED BY <1>10, <2>1, <2>2
<1>12. /\ Is(b, ver, Integer) /\ IntegerOf(Bytes(b, ver)) = version
       /\ version \in {0, 1} => ver.len = 1
       /\ After(ver) = next
  <2>1. ver = Element(b, here)
    BY DEF VerIn
  <2>2. Holds(b, here, BerInteger(version, form))
    BY <1>10 DEF x
  <2> HIDE DEF ver, msg
  <2> QED BY <1>5, <1>8, <2>1, <2>2, IntegerIsFound DEF x
<1>13. IsElement(com, b, OctetString, community, last)
  <2>1. com = Element(b, next)
    BY <1>12 DEF ComIn
  <2>2. Holds(b, next, Ber(OctetString, community, form))
    BY <1>10 DEF y
  <2> HIDE DEF com, next
  <2>3. IsElement(Element(b, next), b, OctetString, community,
                  next + Len(Ber(OctetString, community, form)))
    BY <1>1, <1>5, <1>11, <2>2, CodesAreBytes, ElementIsRead
  <2> QED BY <2>1, <2>3 DEF y
<1>14. /\ com.ok = TRUE /\ com.type = OctetString /\ Fits(b, com) /\ com.len = Len(community)
       /\ Bytes(b, com) = community /\ After(com) = last
  <2> HIDE DEF com, last
  <2> QED BY <1>13 DEF IsElement
<1>15. IF type \in Types THEN IsElement(PduIn(b), b, type, pdu, Len(b)) ELSE PduIn(b) = NoElement
  <2>1. PduIn(b) = Element(b, last)
    BY <1>14 DEF PduIn
  <2>2. Holds(b, last, Ber(type, pdu, form))
    BY <1>9, <1>11 DEF z
  <2> HIDE DEF last
  <2>3. IF type \in Types
        THEN IsElement(Element(b, last), b, type, pdu, last + Len(Ber(type, pdu, form)))
        ELSE Element(b, last) = NoElement
    BY <1>5, <1>11, <2>2, ElementIsRead
  <2>4. last + Len(Ber(type, pdu, form)) = Len(b)
    BY <1>11 DEF z
  <2> QED BY <2>1, <2>3, <2>4
<1> QED BY <1>1, <1>5, <1>6, <1>7, <1>12, <1>14, <1>15 DEF Envelope, r

\* The numbers and the list are found as they were written.
LEMMA PduIsFound ==
    ASSUME NEW nums \in [1 .. 3 -> Integers(IntBytes)], NEW list \in Seq(Byte),
           NEW form \in 0 .. 2, NEW b \in Seq(Byte), Len(b) < Word, NEW type,
           IsElement(PduIn(b), b, type, BerPdu(nums, list, form), Len(b))
    PROVE  /\ Is(b, IdIn(b), Integer) /\ IntegerOf(Bytes(b, IdIn(b))) = nums[1]
           /\ Is(b, NonIn(b), Integer) /\ IntegerOf(Bytes(b, NonIn(b))) = nums[2]
           /\ Is(b, MaxIn(b), Integer) /\ IntegerOf(Bytes(b, MaxIn(b))) = nums[3]
           /\ IsElement(LstIn(b), b, Sequence, list, Len(b))
<1> DEFINE x == BerInteger(nums[1], form)
           y == BerInteger(nums[2], form)
           z == BerInteger(nums[3], form)
           l == Ber(Sequence, list, form)
           xy == x \o y
           xyz == xy \o z
           pdu == BerPdu(nums, list, form)
           here == PduIn(b).at
           second == here + Len(x)
           third == second + Len(y)
           last == third + Len(z)
<1>1. /\ x \in Seq(Byte) /\ y \in Seq(Byte) /\ z \in Seq(Byte) /\ l \in Seq(Byte)
      /\ xy \in Seq(Byte) /\ xyz \in Seq(Byte)
  <2>1. \A i \in 1 .. 3 : BerInteger(nums[i], form) \in Seq(Byte)
    BY PduType
  <2>2. x \in Seq(Byte) /\ y \in Seq(Byte) /\ z \in Seq(Byte)
    BY <2>1
  <2>3. l \in Seq(Byte) /\ xy \in Seq(Byte) /\ xyz \in Seq(Byte)
    BY PduType
  <2> QED BY <2>2, <2>3
<1>2. /\ nums[1] \in Integers(IntBytes) /\ nums[2] \in Integers(IntBytes)
      /\ nums[3] \in Integers(IntBytes)
  OBVIOUS
<1>3. pdu = xyz \o l
  BY DEF BerPdu
<1>4. Holds(b, here, pdu) /\ here \in Nat /\ here + Len(pdu) = Len(b)
  BY DEF IsElement
<1> HIDE DEF x, y, z, l, xy, xyz, pdu, here
<1>5. Holds(b, here, xyz) /\ Holds(b, here + Len(xyz), l) /\ Len(pdu) = Len(xyz) + Len(l)
  BY <1>1, <1>3, <1>4, HoldsParts
<1>6. Holds(b, here, xy) /\ Holds(b, here + Len(xy), z) /\ Len(xyz) = Len(xy) + Len(z)
  <2>1. Holds(b, here, xy \o z)
    BY <1>5 DEF xyz
  <2>2. Holds(b, here, xy) /\ Holds(b, here + Len(xy), z) /\ Len(xy \o z) = Len(xy) + Len(z)
    BY <1>1, <1>4, <2>1, HoldsParts
  <2> QED BY <2>2 DEF xyz
<1>7. Holds(b, here, x) /\ Holds(b, second, y) /\ Len(xy) = Len(x) + Len(y)
  <2>1. Holds(b, here, x \o y)
    BY <1>6 DEF xy
  <2>2. Holds(b, here, x) /\ Holds(b, here + Len(x), y) /\ Len(x \o y) = Len(x) + Len(y)
    BY <1>1, <1>4, <2>1, HoldsParts
  <2> QED BY <2>2 DEF xy
<1>8. /\ second \in Nat /\ third \in Nat /\ last \in Nat
      /\ here + Len(xy) = third /\ here + Len(xyz) = last /\ last + Len(l) = Len(b)
  <2>1. Len(x) \in Nat /\ Len(y) \in Nat /\ Len(z) \in Nat /\ Len(l) \in Nat
    BY <1>1, LenProperties
  <2> QED BY SMTT(30), <1>4, <1>5, <1>6, <1>7, <2>1
<1>9. Is(b, IdIn(b), Integer) /\ IntegerOf(Bytes(b, IdIn(b))) = nums[1] /\ After(IdIn(b)) = second
  <2> DEFINE v == nums[1]
             e == Element(b, here)
  <2>1. IdIn(b) = e /\ Holds(b, here, BerInteger(v, form))
    BY <1>7 DEF IdIn, x, here
  <2>2. v \in Integers(IntBytes)
    BY <1>2
  <2> HIDE DEF v
  <2>3. Is(b, e, Integer) /\ IntegerOf(Bytes(b, e)) = v
        /\ After(e) = here + Len(BerInteger(v, form))
    BY <1>4, <2>1, <2>2, IntegerIsFound
  <2> HIDE DEF e
  <2> QED BY <2>1, <2>3 DEF x, v
<1>10. Is(b, NonIn(b), Integer) /\ IntegerOf(Bytes(b, NonIn(b))) = nums[2]
       /\ After(NonIn(b)) = third
  <2> DEFINE v == nums[2]
             e == Element(b, second)
  <2>1. NonIn(b) = e /\ Holds(b, second, BerInteger(v, form))
    BY <1>7, <1>9 DEF NonIn, y
  <2>2. v \in Integers(IntBytes)
    BY <1>2
  <2> HIDE DEF v, second
  <2>3. Is(b, e, Integer) /\ IntegerOf(Bytes(b, e)) = v
        /\ After(e) = second + Len(BerInteger(v, form))
    BY <1>8, <2>1, <2>2, IntegerIsFound
  <2> HIDE DEF e
  <2> QED BY <2>1, <2>3 DEF y, v
<1>11. Is(b, MaxIn(b), Integer) /\ IntegerOf(Bytes(b, MaxIn(b))) = nums[3]
       /\ After(MaxIn(b)) = last
  <2> DEFINE v == nums[3]
             e == Element(b, third)
  <2>1. MaxIn(b) = e /\ Holds(b, third, BerInteger(v, form))
    BY <1>6, <1>8, <1>10 DEF MaxIn, z
  <2>2. v \in Integers(IntBytes)
    BY <1>2
  <2> HIDE DEF v, third
  <2>3. Is(b, e, Integer) /\ IntegerOf(Bytes(b, e)) = v
        /\ After(e) = third + Len(BerInteger(v, form))
    BY <1>8, <2>1, <2>2, IntegerIsFound
  <2> HIDE DEF e
  <2> QED BY <2>1, <2>3 DEF z, v
<1>12. IsElement(LstIn(b), b, Sequence, list, Len(b))
  <2>1. LstIn(b) = Element(b, last) /\ Holds(b, last, Ber(Sequence, list, form))
    BY <1>5, <1>8, <1>11 DEF LstIn, l
  <2> HIDE DEF last
  <2>2. IsElement(Element(b, last), b, Sequence, list, last + Len(Ber(Sequence, list, form)))
    BY <1>8, <2>1, CodesAreBytes, ElementIsRead
  <2>3. last + Len(Ber(Sequence, list, form)) = Len(b)
    BY <1>8 DEF l
  <2> QED BY <2>1, <2>2, <2>3
<1> QED BY <1>9, <1>10, <1>11, <1>12

\* A list with variables has more than six bytes.
LEMMA ListType ==
    ASSUME NEW vs \in Seq(Variables), NEW form \in 0 .. 2
    PROVE  /\ FlattenSeq(BerVars(vs, form)) \in Seq(Byte)
           /\ vs # <<>> => Len(FlattenSeq(BerVars(vs, form))) > 6
<1> DEFINE N == Len(vs)
<1>1. PICK f : /\ f[0] = <<>>
               /\ \A i \in 0 .. N : f[i] \in Seq(Byte)
               /\ \A i \in 1 .. N : f[i] = f[i - 1] \o BerVar(vs[i], form)
               /\ FlattenSeq(BerVars(vs, form)) = f[N]
  BY VarsAre
<1>2. N \in Nat
  BY LenProperties
<1>3. f[N] \in Seq(Byte)
  BY <1>1, <1>2
<1>4. ASSUME vs # <<>>
      PROVE  Len(f[N]) > 6
  <2>1. N \in 1 .. N /\ N - 1 \in 0 .. N
    BY <1>2, <1>4, EmptySeq
  <2> DEFINE p == f[N - 1]
             q == BerVar(vs[N], form)
  <2>2. f[N] = p \o q /\ p \in Seq(Byte)
    BY <1>1, <2>1
  <2>3. q \in Seq(Byte) /\ Len(q) > 6
    BY <2>1, ElementOfSeq, BerVarType
  <2> HIDE DEF p, q
  <2>4. Len(p \o q) = Len(p) + Len(q) /\ Len(p) \in Nat /\ Len(q) \in Nat
    BY <2>2, <2>3, ConcatElements, LenProperties
  <2>5. Len(p \o q) > 6
    BY <2>3, <2>4
  <2> QED BY <2>2, <2>5
<1> QED BY <1>1, <1>3, <1>4

\* A function of three arguments is the tuple of its values.
LEMMA ThreeEntries ==
    ASSUME NEW S, NEW f \in [1 .. 3 -> S]
    PROVE  <<f[1], f[2], f[3]>> = f
<1> DEFINE g == <<f[1], f[2], f[3]>>
<1>1. DOMAIN g = 1 .. 3 /\ g[1] = f[1] /\ g[2] = f[2] /\ g[3] = f[3]
  OBVIOUS
<1>2. g = [i \in 1 .. 3 |-> g[i]] /\ f = [i \in 1 .. 3 |-> f[i]]
  OBVIOUS
<1> HIDE DEF g
<1>3. \A i \in 1 .. 3 : i = 1 \/ i = 2 \/ i = 3
  OBVIOUS
<1>4. \A i \in 1 .. 3 : g[i] = f[i]
  BY <1>1, <1>3
<1>5. g = f
  BY <1>2, <1>4
<1> QED BY <1>5 DEF g

\* A message, as decode_snmp_request is to read it.
Meant(m) ==
    [ok |-> TRUE, version |-> m.version, community |-> m.community, type |-> m.type,
     numbers |-> m.numbers, oids |-> MibOids(m.vars, Len(m.vars))]

\* A request is read as it was meant, or not at all.
LEMMA RequestIsRead ==
    ASSUME NEW m \in Sendable, NEW form \in 0 .. 2, Len(BerRequest(m, form)) < Word
    PROVE  /\ BerRequest(m, form) \in Seq(Byte)
           /\ DecodeRequest(BerRequest(m, form)) = IF Supported(m) THEN Meant(m) ELSE NoRequest
           /\ Supported(m) /\ m.vars # <<>> => PacketComplete(BerRequest(m, form)) = 1
<1> DEFINE b == BerRequest(m, form)
           ver == m.version
           com == m.community
           type == m.type
           nums == m.numbers
           vs == m.vars
           list == FlattenSeq(BerVars(vs, form))
           pdu == BerPdu(nums, list, form)
           parts == BerParts(ver, com, type, pdu, form)
<1>1. /\ ver \in Integers(IntBytes) /\ com \in Seq(1 .. 255) /\ type \in Byte
      /\ nums \in [1 .. 3 -> Integers(IntBytes)] /\ vs \in Seq(Variables)
  BY DEF Sendable
<1>2. b = Ber(Sequence, parts, form) /\ Len(b) < Word
  BY BerRequestIs DEF BerWhole
<1>3. Supported(m) <=>
      /\ ver \in {0, 1} /\ Len(com) \in 1 .. MaxString - 1 /\ type \in Types
      /\ Len(vs) <= MaxOids /\ \A j \in 1 .. Len(vs) : Taken(vs[j])
  BY DEF Supported, Taken
<1>4. Meant(m) = [ok |-> TRUE, version |-> ver, community |-> com, type |-> type,
                  numbers |-> nums, oids |-> MibOids(vs, Len(vs))]
  BY DEF Meant
<1> HIDE DEF b, ver, com, type, nums, vs
<1>5. list \in Seq(Byte) /\ (vs # <<>> => Len(list) > 6)
  BY <1>1, ListType
<1> HIDE DEF list
<1>6. pdu \in Seq(Byte) /\ Len(pdu) > 10 + Len(list)
  BY <1>1, <1>5, PduType
<1> HIDE DEF pdu
<1>7. /\ b \in Seq(Byte) /\ Len(b) > 8 + Len(pdu) + Len(com)
      /\ IsElement(MsgIn(b), b, Sequence, parts, Len(b))
      /\ Is(b, VerIn(b), Integer) /\ IntegerOf(Bytes(b, VerIn(b))) = ver
      /\ ver \in {0, 1} => VerIn(b).len = 1
      /\ ComIn(b).ok = TRUE /\ ComIn(b).type = OctetString /\ Fits(b, ComIn(b))
      /\ ComIn(b).len = Len(com) /\ StringOf(Bytes(b, ComIn(b))) = com
      /\ IF type \in Types THEN IsElement(PduIn(b), b, type, pdu, Len(b)) ELSE PduIn(b) = NoElement
  <2>1. b = Ber(Sequence, BerParts(ver, com, type, pdu, form), form)
    BY <1>2
  <2> HIDE DEF parts
  <2>2. Envelope(b, ver, com, type, pdu, BerParts(ver, com, type, pdu, form))
    BY <1>1, <1>2, <1>6, <2>1, EnvelopeIsFound
  <2>3. Envelope(b, ver, com, type, pdu, parts)
    BY <2>2 DEF parts
  <2> QED BY <2>3 DEF Envelope
<1>8. parts \in Seq(Byte) /\ Len(parts) > 6 + Len(pdu) + Len(com)
  BY <1>1, <1>6, StringIsRead, PartsType
<1> HIDE DEF parts
<1>9. Rest(b, MsgIn(b)) /\ MsgIn(b).type = Sequence
  BY <1>7, <1>8, LastElement DEF IsElement
<1>10. Len(com) \in Nat /\ MaxString \in Nat /\ (com = <<>> <=> Len(com) = 0)
  BY <1>1, LenProperties, EmptySeq, Limits
<1>11. EnvelopeTaken(b) <=> ver \in {0, 1} /\ Len(com) \in 1 .. MaxString - 1 /\ type \in Types
  <2>1. type \in Types => Rest(b, PduIn(b))
    BY <1>6, <1>7, LastElement
  <2>2. type \notin Types => ~Rest(b, PduIn(b))
    <3>1. type \notin Types => PduIn(b).ok = FALSE
      BY <1>7 DEF NoElement
    <3> QED BY <3>1 DEF Rest
  <2>3. Len(com) < MaxString /\ com # <<>> <=> Len(com) \in 1 .. MaxString - 1
    BY <1>10
  <2> QED BY <1>7, <1>9, <2>1, <2>2, <2>3 DEF EnvelopeTaken
<1>12. ASSUME type \in Types
       PROVE  /\ PduTaken(b) /\ PduIn(b).type = type
              /\ <<IntegerOf(Bytes(b, IdIn(b))), IntegerOf(Bytes(b, NonIn(b))),
                   IntegerOf(Bytes(b, MaxIn(b)))>> = nums
              /\ EndIn(b).ok = (Len(vs) <= MaxOids /\ \A j \in 1 .. Len(vs) : Taken(vs[j]))
              /\ EndIn(b).ok => EndIn(b).oids = MibOids(vs, Len(vs))
  <2>1. IsElement(PduIn(b), b, type, pdu, Len(b))
    BY <1>7, <1>12
  <2>2. /\ Is(b, IdIn(b), Integer) /\ IntegerOf(Bytes(b, IdIn(b))) = nums[1]
        /\ Is(b, NonIn(b), Integer) /\ IntegerOf(Bytes(b, NonIn(b))) = nums[2]
        /\ Is(b, MaxIn(b), Integer) /\ IntegerOf(Bytes(b, MaxIn(b))) = nums[3]
        /\ IsElement(LstIn(b), b, Sequence, list, Len(b))
    BY <1>1, <1>2, <1>5, <1>7, <2>1, PduIsFound DEF pdu
  <2>3. PduTaken(b)
    BY <1>5, <1>7, <2>2, LastElement DEF PduTaken, IsElement
  <2>4. PduIn(b).type = type
    BY <2>1 DEF IsElement
  <2>5. <<nums[1], nums[2], nums[3]>> = nums
    BY <1>1, ThreeEntries
  <2> DEFINE at == LstIn(b).at
  <2>6. Holds(b, at, list) /\ at \in Nat /\ at + Len(list) = Len(b) /\ EndIn(b) = Varbinds(b, at)
    BY <2>2 DEF IsElement, EndIn
  <2> HIDE DEF at
  <2>7. /\ Varbinds(b, at).ok = (Len(vs) <= MaxOids /\ \A j \in 1 .. Len(vs) : Taken(vs[j]))
        /\ Varbinds(b, at).ok => Varbinds(b, at).oids = MibOids(vs, Len(vs))
    BY <1>1, <1>2, <1>7, <2>6, VarbindsAreRead DEF list
  <2>8. IntegerOf(Bytes(b, IdIn(b))) = nums[1] /\ IntegerOf(Bytes(b, NonIn(b))) = nums[2]
        /\ IntegerOf(Bytes(b, MaxIn(b))) = nums[3]
    BY <2>2
  <2>9. <<IntegerOf(Bytes(b, IdIn(b))), IntegerOf(Bytes(b, NonIn(b))),
          IntegerOf(Bytes(b, MaxIn(b)))>> = nums
    BY <2>5, <2>8
  <2> QED BY <2>3, <2>4, <2>6, <2>7, <2>9
<1>13. DecodeRequest(b) = IF EnvelopeTaken(b) /\ PduTaken(b) /\ EndIn(b).ok
                          THEN RequestIn(b) ELSE NoRequest
  BY DecodeRequestIs
<1>14. DecodeRequest(b) = IF Supported(m) THEN Meant(m) ELSE NoRequest
  <2>1. CASE Supported(m)
    <3>1. EnvelopeTaken(b) /\ type \in Types /\ Len(vs) <= MaxOids
          /\ \A j \in 1 .. Len(vs) : Taken(vs[j])
      BY <1>3, <1>11, <2>1
    <3>2. PduTaken(b) /\ EndIn(b).ok
      BY <1>12, <3>1
    <3>3. DecodeRequest(b) = RequestIn(b)
      BY <1>13, <3>1, <3>2
    <3>4. RequestIn(b) = Meant(m)
      BY <1>4, <1>7, <1>12, <3>1, <3>2 DEF RequestIn
    <3> QED BY <2>1, <3>3, <3>4
  <2>2. CASE ~Supported(m)
    <3>1. ~(EnvelopeTaken(b) /\ PduTaken(b) /\ EndIn(b).ok)
      BY <1>3, <1>11, <1>12, <2>2
    <3> QED BY <1>13, <2>2, <3>1
  <2> QED BY <2>1, <2>2
<1>15. ASSUME Supported(m), vs # <<>>
       PROVE  PacketComplete(b) = 1
  <2> DEFINE e == MsgIn(b)
  <2>1. Len(com) >= 1 /\ Len(list) > 6
    BY <1>3, <1>5, <1>10, <1>15
  <2>2. Len(b) \in Nat /\ Len(parts) \in Nat /\ Len(pdu) \in Nat /\ Len(list) \in Nat
    BY <1>5, <1>6, <1>7, <1>8, LenProperties
  <2>3. MinPacket \in Int /\ MinPacket <= 28
    BY Limits
  <2>4. Len(b) >= 28 /\ Len(parts) >= 1
    BY <1>6, <1>7, <1>8, <1>10, <2>1, <2>2
  <2>5. ~(Len(b) < MinPacket)
    BY <2>2, <2>3, <2>4
  <2>6. e.ok = TRUE /\ e.type = Sequence /\ e.len = Len(parts) /\ e.at \in Nat
        /\ e.at + Len(parts) = Len(b)
    BY <1>7 DEF IsElement
  <2>7. Rest(b, e)
    BY <1>9
  <2> HIDE DEF e
  <2>8. e.len \in 1 .. Len(b) - e.at
    BY <2>2, <2>4, <2>6
  <2>9. PacketComplete(b) =
        CASE Len(b) < MinPacket -> 0
          [] Len(b) >= MinPacket /\ ~(e.ok /\ e.type = Sequence /\ e.len \in 1 .. Len(b) - e.at) -> -1
          [] OTHER -> IF Rest(b, e) THEN 1 ELSE 0
    BY DEF PacketComplete, e, MsgIn
  <2> QED BY <2>5, <2>6, <2>7, <2>8, <2>9
<1> QED BY <1>7, <1>14, <1>15 DEF b, vs

-----------------------------------------------------------------------------
(* Responses.                                                                *)

\* What the handlers answer with: the OID of an entry, and a value.
Answers == [oid : {MibOid(o) : o \in Oids}, data : Seq(Byte)]

BerAnswer(v) == Ber(Sequence, BerOid(v.oid.subids, 0) \o v.data, 0)

\* The parts of a binding of the response are bytes.
LEMMA AnswerType ==
    ASSUME NEW v \in Answers
    PROVE  /\ v.oid.subids \in Oids /\ v.oid = MibOid(v.oid.subids) /\ v.data \in Seq(Byte)
           /\ BerOid(v.oid.subids, 0) \o v.data \in Seq(Byte)
           /\ Len(BerOid(v.oid.subids, 0) \o v.data) = v.oid.size + Len(v.data)
           /\ BerAnswer(v) \in Seq(Byte)
<1>1. PICK o \in Oids : v.oid = MibOid(o)
  BY DEF Answers
<1>2. v.data \in Seq(Byte)
  BY DEF Answers
<1> DEFINE p == BerOid(o, 0)
           d == v.data
           r == p \o d
<1>3. p \in Seq(Byte) /\ Len(p) = v.oid.size /\ v.oid.subids = o
  BY <1>1, OidIsWritten
<1>4. BerAnswer(v) = Ber(Sequence, r, 0)
  BY <1>3 DEF BerAnswer
<1> HIDE DEF p, d
<1>5. r \in Seq(Byte) /\ Len(r) = Len(p) + Len(d)
  BY SMTT(30), <1>2, <1>3, ConcatElements DEF d
<1> HIDE DEF r
<1>6. Ber(Sequence, r, 0) \in Seq(Byte)
  BY <1>5, CodesAreBytes, BerType
<1> QED BY <1>1, <1>2, <1>3, <1>4, <1>5, <1>6 DEF r, p, d

\* Parts may be joined from either end.
LEMMA Regroup ==
    ASSUME NEW p \in Seq(Byte), NEW q \in Seq(Byte), NEW r \in Seq(Byte)
    PROVE  p \o (q \o r) = (p \o q) \o r
BY SMTT(30), ConcatAssociative

\* One variable binding is put before what is there.
LEMMA VarbindPuts ==
    ASSUME NEW acc, NEW want, Puts(acc, want), NEW v \in Answers
    PROVE  Puts(PutVarbind(acc, v), BerAnswer(v) \o want)
<1> DEFINE o == v.oid.subids
           d == v.data
           p == BerOid(o, 0)
           val  == Place(acc, Len(d), d)
           name == Place(val, v.oid.size, EncodeOid(o))
<1>1. o \in Oids /\ v.oid = MibOid(o) /\ d \in Seq(Byte)
  BY AnswerType
<1>2. p = EncodeOid(o) /\ p \in Seq(Byte) /\ Len(p) = v.oid.size
  BY <1>1, OidIsWritten
<1>3. want \in Seq(Byte)
  BY DEF Puts
<1>4. p \o d \in Seq(Byte) /\ Len(p \o d) = v.oid.size + Len(d) /\ BerAnswer(v) = Ber(Sequence, p \o d, 0)
  BY AnswerType DEF BerAnswer
<1>5. PutVarbind(acc, v) = PutHeader(name, v.oid.size + Len(d), Sequence)
  BY DEF PutVarbind
<1> HIDE DEF o, d, p
<1>6. Puts(val, d \o want)
  BY <1>1, PlacePuts
<1> HIDE DEF val
<1>7. Puts(name, p \o (d \o want))
  <2> DEFINE w == d \o want
             n == Place(val, Len(p), p)
  <2>1. Puts(val, w)
    BY <1>6
  <2> HIDE DEF w
  <2>2. Puts(n, p \o w)
    BY <1>2, <2>1, PlacePuts
  <2>3. n = name
    BY <1>2
  <2> HIDE DEF n
  <2> QED BY <2>2, <2>3 DEF w
<1>8. p \o (d \o want) = (p \o d) \o want
  BY <1>1, <1>2, <1>3, Regroup
<1> HIDE DEF name
<1> DEFINE r == p \o d
<1>9. r \in Seq(Byte) /\ Puts(name, r \o want)
  BY <1>4, <1>7, <1>8
<1> HIDE DEF r
<1>10. Puts(PutHeader(name, Len(r), Sequence), Ber(Sequence, r, 0) \o want)
  BY <1>3, <1>9, CodesAreBytes, HeaderPuts
<1> QED BY <1>4, <1>5, <1>10 DEF r

\* The loop of encode_snmp_response, from the last binding to the first.
Bindings(put, list) ==
    /\ put[0] = <<>>
    /\ \A k \in 1 .. Len(list) : put[k] = PutVarbind(put[k - 1], list[Len(list) + 1 - k])

\* The loop puts the bindings as a manager expects them.
LEMMA BindingsPut ==
    ASSUME NEW list \in Seq(Answers), NEW put, Bindings(put, list)
    PROVE  Puts(put[Len(list)], FlattenSeq([i \in 1 .. Len(list) |-> BerAnswer(list[i])]))
<1> DEFINE N == Len(list)
           A == [i \in 1 .. N |-> BerAnswer(list[i])]
<1>1. N \in Nat /\ \A i \in 1 .. N : list[i] \in Answers
  BY LenProperties, ElementOfSeq
<1>2. \A i \in 1 .. N : BerAnswer(list[i]) \in Seq(Byte)
  BY <1>1, AnswerType
<1>3. A \in Seq(Seq(Byte)) /\ Len(A) = N /\ \A i \in 1 .. N : A[i] = BerAnswer(list[i])
  BY <1>1, <1>2
<1> HIDE DEF A
<1>4. PICK f : /\ f \in [0 .. Len(A) -> Seq(Byte)] /\ f[0] = <<>>
               /\ \A i \in 1 .. Len(A) : f[i] = f[i - 1] \o A[i]
               /\ FlattenSeq(A) = f[Len(A)]
  BY <1>3, FlattenLoop
<1>5. \A i \in 0 .. N : f[i] \in Seq(Byte)
  BY <1>3, <1>4
<1>6. \A i \in 1 .. N : f[i] = f[i - 1] \o BerAnswer(list[i])
  BY <1>3, <1>4
<1> DEFINE Done(k) == \E w \in Seq(Byte) : Puts(put[k], w) /\ f[N - k] \o w = f[N]
<1>7. Done(0)
  <2>1. <<>> \in Seq(Byte) /\ Puts(put[0], <<>>)
    BY EmptySeq, NothingPut DEF Bindings
  <2>2. N - 0 = N /\ f[N] \in Seq(Byte)
    BY <1>1, <1>5
  <2>3. f[N] \o <<>> = f[N]
    BY <2>2, ConcatEmptySeq
  <2> QED BY <2>1, <2>2, <2>3
<1>8. ASSUME NEW k \in Nat, k + 1 <= N, Done(k)
      PROVE  Done(k + 1)
  <2> DEFINE i == N - k
  <2>1. i \in 1 .. N /\ i \in 0 .. N /\ i - 1 \in 0 .. N /\ N - (k + 1) = i - 1
        /\ k + 1 \in 1 .. N /\ (k + 1) - 1 = k /\ (N + 1) - (k + 1) = i /\ k <= N
    <3> HIDE DEF Done
    <3> QED BY <1>1, <1>8
  <2>2. PICK w \in Seq(Byte) : Puts(put[k], w) /\ f[i] \o w = f[N]
    BY <1>8, <2>1
  <2> HIDE DEF i
  <2> DEFINE v == list[i]
             a == BerAnswer(v)
             p == f[i - 1]
  <2>3. v \in Answers /\ a \in Seq(Byte) /\ p \in Seq(Byte) /\ f[i] = p \o a
    BY <1>1, <1>2, <1>5, <1>6, <2>1
  <2>4. put[k + 1] = PutVarbind(put[k], v)
    BY <2>1 DEF Bindings
  <2>5. Puts(put[k + 1], a \o w)
    <3> HIDE DEF v
    <3>1. Puts(PutVarbind(put[k], v), BerAnswer(v) \o w)
      BY <2>2, <2>3, VarbindPuts
    <3> QED BY <2>4, <3>1
  <2> HIDE DEF a, p, v
  <2>6. a \o w \in Seq(Byte) /\ p \o (a \o w) = f[N]
    <3>1. a \in Seq(Byte) /\ p \in Seq(Byte) /\ w \in Seq(Byte)
      BY <2>3
    <3>2. p \o (a \o w) = (p \o a) \o w
      BY <3>1, Regroup
    <3>3. a \o w \in Seq(Byte)
      BY <3>1, ConcatElements
    <3> QED BY <2>2, <2>3, <3>2, <3>3
  <2>7. f[N - (k + 1)] = p
    BY <2>1 DEF p
  <2> QED BY <2>5, <2>6, <2>7
<1>9. Done(N)
  <2> DEFINE T == {k \in Nat : k <= N => Done(k)}
  <2> HIDE DEF Done, N
  <2>1. 0 \in T
    BY <1>7
  <2>2. ASSUME NEW k \in Nat, k \in T
        PROVE  k + 1 \in T
    <3>1. k + 1 <= N => k <= N
      BY <1>1
    <3> QED BY <1>8, <2>2, <3>1
  <2> HIDE DEF T
  <2>3. N \in T
    BY <1>1, <2>1, <2>2, InductionOnNat
  <2> QED BY <1>1, <2>3 DEF T
<1>10. PICK w \in Seq(Byte) : Puts(put[N], w) /\ f[N - N] \o w = f[N]
  BY <1>9
<1>11. N - N = 0 /\ <<>> \o w = w
  BY <1>1, ConcatEmptySeq
<1>12. w = FlattenSeq(A)
  BY <1>3, <1>4, <1>10, <1>11
<1> QED BY <1>10, <1>12 DEF A

AnswerList(q, r) ==
    IF r.status = 0 THEN r.vars
    ELSE [i \in 1 .. Len(q.oids) |-> [oid |-> q.oids[i], data |-> <<Null, 0>>]]

\* What encode_snmp_response puts before the variable bindings.
NumbersPut(q, r, binds) ==
    PutInteger(PutInteger(PutInteger(PutHeader(binds, Len(binds), Sequence),
               r.index), r.status), q.numbers[1])
PduPut(q, nums)    == PutHeader(nums, Len(nums), Response)
MessagePut(q, pdu) == PutInteger(PutString(pdu, q.community), q.version)
WholePut(msg)      == PutHeader(msg, Len(msg), Sequence)

\* The function in EncodeResponse is defined by exists.
LEMMA BindingsLoop ==
    ASSUME NEW q, NEW r, Len(AnswerList(q, r)) \in Nat
    PROVE  \E put : /\ Bindings(put, AnswerList(q, r))
                    /\ EncodeResponse(q, r)
                       = WholePut(MessagePut(q, PduPut(q, NumbersPut(q, r, put[Len(AnswerList(q, r))]))))
<1> DEFINE list == AnswerList(q, r)
           c == CHOOSE put : put = [k \in 0 .. Len(list) |->
                    IF k = 0 THEN <<>> ELSE PutVarbind(put[k - 1], list[Len(list) + 1 - k])]
           N == Len(list)
           IsPut(f, m) ==
               f = [k \in 0 .. m |-> IF k = 0 THEN <<>> ELSE PutVarbind(f[k - 1], list[N + 1 - k])]
<1>1. EncodeResponse(q, r) = WholePut(MessagePut(q, PduPut(q, NumbersPut(q, r, c[N]))))
  <2>1. AnswerList(q, r) = IF r.status = 0 THEN r.vars
             ELSE [i \in 1 .. Len(q.oids) |-> [oid |-> q.oids[i], data |-> <<Null, 0>>]]
    BY DEF AnswerList
  <2> QED BY <2>1 DEF EncodeResponse, WholePut, MessagePut, PduPut, NumbersPut
<1>2. c = CHOOSE put : put = [k \in 0 .. N |->
                    IF k = 0 THEN <<>> ELSE PutVarbind(put[k - 1], list[N + 1 - k])]
  OBVIOUS
<1>3. N \in Nat
  OBVIOUS
<1> HIDE DEF c, N, list
<1> DEFINE T == {m \in Nat : \E f : IsPut(f, m)}
<1>4. 0 \in T
  <2>1. IsPut([n \in 0 .. 0 |-> <<>>], 0)
    OBVIOUS
  <2> QED BY <2>1
<1>5. ASSUME NEW m \in Nat, m \in T
      PROVE  m + 1 \in T
  <2>1. PICK f : f = [k \in 0 .. m |->
                         IF k = 0 THEN <<>> ELSE PutVarbind(f[k - 1], list[N + 1 - k])]
    BY <1>5
  <2> DEFINE last == PutVarbind(f[m], list[N + 1 - (m + 1)])
             g == [k \in 0 .. m + 1 |-> IF k <= m THEN f[k] ELSE last]
  <2> HIDE DEF last
  <2>2. \A k \in 0 .. m : g[k] = f[k]
    OBVIOUS
  <2>3. g[m + 1] = last
    OBVIOUS
  <2>4. g = [k \in 0 .. m + 1 |-> g[k]]
    OBVIOUS
  <2> HIDE DEF g
  <2>5. ASSUME NEW k \in 0 .. m + 1
        PROVE  g[k] = IF k = 0 THEN <<>> ELSE PutVarbind(g[k - 1], list[N + 1 - k])
    <3>1. CASE k = 0
      <4>1. 0 \in 0 .. m
        OBVIOUS
      <4>2. f[0] = <<>>
        BY <2>1, <4>1
      <4> QED BY <2>2, <3>1, <4>1, <4>2
    <3>2. CASE k \in 1 .. m
      <4>1. k \in 0 .. m /\ k - 1 \in 0 .. m /\ k # 0
        BY <3>2
      <4>2. f[k] = PutVarbind(f[k - 1], list[N + 1 - k])
        BY <2>1, <4>1
      <4> QED BY <2>2, <4>1, <4>2
    <3>3. CASE k = m + 1
      <4>1. k # 0 /\ k - 1 = m /\ m \in 0 .. m
        BY <3>3
      <4>2. g[k - 1] = f[m] /\ g[k] = last
        BY <2>2, <2>3, <3>3, <4>1
      <4>3. last = PutVarbind(f[m], list[N + 1 - k])
        BY <3>3 DEF last
      <4> QED BY <4>1, <4>2, <4>3
    <3> QED BY <3>1, <3>2, <3>3
  <2>6. IsPut(g, m + 1)
    BY <2>4, <2>5
  <2> QED BY SMTT(30), <2>6
<1>6. N \in T
  <2> HIDE DEF T
  <2> QED BY <1>3, <1>4, <1>5, InductionOnNat
<1>7. c = [k \in 0 .. N |-> IF k = 0 THEN <<>> ELSE PutVarbind(c[k - 1], list[N + 1 - k])]
  BY <1>2, <1>6
<1>8. Bindings(c, list)
  <2>1. c[0] = <<>>
    BY <1>3, <1>7
  <2>2. \A k \in 1 .. N : k \in 0 .. N /\ k # 0
    BY <1>3
  <2>3. \A k \in 1 .. N : c[k] = PutVarbind(c[k - 1], list[N + 1 - k])
    BY <1>7, <2>2
  <2> QED BY <2>1, <2>3 DEF Bindings, N
<1> QED BY <1>1, <1>8 DEF N, list

\* The rest of a response, put before its list of bindings.
LEMMA WholeIsPut ==
    ASSUME NEW q, NEW r, NEW binds, NEW list, Puts(binds, list),
           NEW version \in Integers(IntBytes), NEW community \in Seq(Byte),
           NEW id \in Integers(IntBytes), NEW status \in Integers(IntBytes),
           NEW index \in Integers(IntBytes),
           q.version = version, q.community = community, q.numbers[1] = id,
           r.status = status, r.index = index
    PROVE  Puts(WholePut(MessagePut(q, PduPut(q, NumbersPut(q, r, binds)))),
                BerWhole(version, community, Response, <<id, status, index>>, list, 0))
<1> DEFINE nums == NumbersPut(q, r, binds)
           pdu  == PduPut(q, nums)
           msg  == MessagePut(q, pdu)
           l == Ber(Sequence, list, 0)
           x == BerInteger(id, 0)
           y == BerInteger(status, 0)
           z == BerInteger(index, 0)
           wpdu == BerPdu(<<id, status, index>>, list, 0)
           s == Ber(OctetString, community, 0)
           t == BerInteger(version, 0)
           p == Ber(Response, wpdu, 0)
           wmsg == BerParts(version, community, Response, wpdu, 0)
<1>1. list \in Seq(Byte)
  BY DEF Puts
<1>2. /\ x \in Seq(Byte) /\ y \in Seq(Byte) /\ z \in Seq(Byte) /\ t \in Seq(Byte)
      /\ l \in Seq(Byte) /\ s \in Seq(Byte)
  BY <1>1, BerIntegerIs, BerType, CodesAreBytes
<1>3. wpdu = ((x \o y) \o z) \o l
  BY DEF BerPdu
<1>4. wmsg = (t \o s) \o p
  BY DEF BerParts
<1> HIDE DEF wpdu, wmsg
<1> DEFINE a == PutHeader(binds, Len(binds), Sequence)
           b == PutInteger(a, index)
           c == PutInteger(b, status)
           d == PutInteger(c, id)
<1>5. Puts(a, l)
  BY CodesAreBytes, WholePuts
<1> HIDE DEF a, l
<1>6. Puts(b, z \o l)
  BY <1>5, IntegerPuts
<1> DEFINE zl == z \o l
<1> HIDE DEF b, zl
<1>7. Puts(c, y \o zl)
  <2>1. Puts(b, zl)
    BY <1>6 DEF zl
  <2> QED BY <2>1, IntegerPuts
<1> DEFINE yzl == y \o zl
<1> HIDE DEF c, yzl
<1>8. Puts(d, x \o yzl)
  <2>1. Puts(c, yzl)
    BY <1>7 DEF yzl
  <2> QED BY <2>1, IntegerPuts
<1> HIDE DEF d, x, y, z, s, t
<1>9. x \o yzl = wpdu
  <2>1. zl \in Seq(Byte)
    BY <1>2, ConcatElements DEF zl
  <2>2. x \o y \in Seq(Byte)
    BY <1>2, ConcatElements
  <2>3. x \o yzl = (x \o y) \o zl
    <3>1. x \in Seq(Byte) /\ y \in Seq(Byte) /\ zl \in Seq(Byte)
      BY <1>2, <2>1
    <3>2. x \o (y \o zl) = (x \o y) \o zl
      BY <3>1, Regroup
    <3> QED BY <3>2 DEF yzl
  <2> DEFINE xy == x \o y
  <2> HIDE DEF xy
  <2>4. xy \o zl = (xy \o z) \o l
    <3>1. xy \in Seq(Byte)
      BY <2>2 DEF xy
    <3> QED BY ZenonT(30), <1>2, <3>1, Regroup DEF zl
  <2> QED BY <1>3, <2>3, <2>4 DEF xy
<1>10. nums = d
  BY DEF NumbersPut, d, c, b, a
<1>11. Puts(nums, wpdu)
  BY <1>8, <1>9, <1>10
<1>12. wpdu \in Seq(Byte)
  BY <1>11 DEF Puts
<1> HIDE DEF nums
<1>13. Puts(pdu, p)
  BY <1>11, <1>12, CodesAreBytes, WholePuts DEF PduPut
<1> HIDE DEF pdu, p
<1> DEFINE e == PutString(pdu, community)
<1>14. Puts(e, s \o p)
  BY <1>13, StringPuts DEF s
<1> DEFINE sp == s \o p
<1> HIDE DEF e, sp
<1>15. Puts(PutInteger(e, version), t \o sp)
  <2>1. Puts(e, sp)
    BY <1>14 DEF sp
  <2> QED BY <2>1, IntegerPuts DEF t
<1>16. t \o sp = wmsg
  <2>1. t \in Seq(Byte) /\ s \in Seq(Byte) /\ p \in Seq(Byte)
    BY <1>2, <1>13 DEF Puts
  <2>2. t \o (s \o p) = (t \o s) \o p
    BY SMTT(30), <2>1, Regroup
  <2> QED BY <1>4, <2>2 DEF sp
<1>17. msg = PutInteger(e, version)
  BY DEF MessagePut, e
<1>18. Puts(msg, wmsg)
  BY <1>15, <1>16, <1>17
<1> HIDE DEF msg
<1>19. Puts(PutHeader(msg, Len(msg), Sequence), Ber(Sequence, wmsg, 0))
  BY <1>18, CodesAreBytes, WholePuts
<1> QED BY <1>19 DEF WholePut, BerWhole, msg, pdu, nums, wmsg, wpdu

\* A response, in its parts.
LEMMA BerResponseIs ==
    ASSUME NEW version, NEW community, NEW nums, NEW binds, NEW list,
           Len(binds) = Len(list),
           \A i \in 1 .. Len(list) : /\ binds[i][1] = list[i].oid.subids
                                     /\ binds[i][2] = list[i].data
    PROVE  BerMessage(version, community, Response, nums, binds, 0)
           = BerWhole(version, community, Response, nums,
                      FlattenSeq([i \in 1 .. Len(list) |-> BerAnswer(list[i])]), 0)
<1> DEFINE L == [i \in 1 .. Len(binds) |-> Ber(Sequence, BerOid(binds[i][1], 0) \o binds[i][2], 0)]
<1>1. BerMessage(version, community, Response, nums, binds, 0)
      = BerWhole(version, community, Response, nums, FlattenSeq(L), 0)
  BY DEF BerMessage, BerWhole, BerParts, BerPdu
<1>2. L = [i \in 1 .. Len(list) |-> BerAnswer(list[i])]
  BY DEF BerAnswer
<1> QED BY <1>1, <1>2

\* What is to be encoded for the request m.
Result == [status : Integers(IntBytes), index : Integers(IntBytes), vars : Seq(Answers)]

Wanted(m, r) ==
    LET binds == IF r.status # 0
                 THEN [i \in 1 .. Len(m.vars) |-> <<m.vars[i].oid, <<Null, 0>> >>]
                 ELSE [i \in 1 .. Len(r.vars) |-> <<r.vars[i].oid.subids, r.vars[i].data>>]
    IN  BerMessage(m.version, m.community, Response,
                   <<m.numbers[1], r.status, r.index>>, binds, 0)

\* The value a failed request has returned.
LEMMA EmptyValue == <<Null, 0>> \in Seq(Byte)
BY DEF Null, Byte

\* What is put is what a manager expects.
LEMMA AnswerLists ==
    ASSUME NEW m \in Sendable, NEW r \in Result
    PROVE  /\ AnswerList(Meant(m), r) \in Seq(Answers)
           /\ Wanted(m, r)
              = BerWhole(m.version, m.community, Response, <<m.numbers[1], r.status, r.index>>,
                         FlattenSeq([i \in 1 .. Len(AnswerList(Meant(m), r)) |->
                                        BerAnswer(AnswerList(Meant(m), r)[i])]), 0)
<1> DEFINE list == AnswerList(Meant(m), r)
           vs == m.vars
           N == Len(vs)
           nums == <<m.numbers[1], r.status, r.index>>
           null == <<Null, 0>>
<1>1. vs \in Seq(Variables) /\ r.vars \in Seq(Answers)
  BY DEF Sendable, Result
<1>2. N \in Nat /\ \A i \in 1 .. N : vs[i].oid \in Oids
  <2>1. N \in Nat /\ \A i \in 1 .. N : vs[i] \in Variables
    BY <1>1, LenProperties, ElementOfSeq
  <2> QED BY <2>1 DEF Variables
<1>3. null \in Seq(Byte)
  BY EmptyValue
<1>4. CASE r.status = 0
  <2> DEFINE binds == [i \in 1 .. Len(list) |-> <<list[i].oid.subids, list[i].data>>]
  <2>1. list = r.vars
    BY <1>4 DEF AnswerList
  <2>2. Wanted(m, r) = BerMessage(m.version, m.community, Response, nums, binds, 0)
    <3>1. Wanted(m, r) =
          BerMessage(m.version, m.community, Response, nums,
                     [i \in 1 .. Len(r.vars) |-> <<r.vars[i].oid.subids, r.vars[i].data>>], 0)
      BY <1>4 DEF Wanted
    <3> QED BY <2>1, <3>1
  <2>3. list \in Seq(Answers) /\ Len(list) \in Nat
    BY <1>1, <2>1, LenProperties
  <2> HIDE DEF list, nums
  <2>4. Len(binds) = Len(list)
    BY <2>3
  <2>5. \A i \in 1 .. Len(list) : binds[i][1] = list[i].oid.subids /\ binds[i][2] = list[i].data
    OBVIOUS
  <2> HIDE DEF binds
  <2>6. BerMessage(m.version, m.community, Response, nums, binds, 0)
        = BerWhole(m.version, m.community, Response, nums,
                   FlattenSeq([i \in 1 .. Len(list) |-> BerAnswer(list[i])]), 0)
    BY <2>4, <2>5, BerResponseIs
  <2> QED BY <2>2, <2>3, <2>6 DEF list, nums
<1>5. CASE r.status # 0
  <2> DEFINE oids == MibOids(vs, N)
             binds == [i \in 1 .. N |-> <<vs[i].oid, null>>]
  <2>1. Len(oids) = N /\ \A i \in 1 .. N : oids[i] = MibOid(vs[i].oid)
    BY <1>2 DEF MibOids
  <2>2. Meant(m).oids = oids
    BY DEF Meant
  <2>3. list = [i \in 1 .. Len(oids) |-> [oid |-> oids[i], data |-> null]]
    BY <1>5, <2>2 DEF AnswerList
  <2>4. Wanted(m, r) = BerMessage(m.version, m.community, Response, nums, binds, 0)
    BY <1>5 DEF Wanted
  <2> HIDE DEF oids, null, nums, list
  <2>5. Len(list) = N /\ \A i \in 1 .. N : list[i] = [oid |-> oids[i], data |-> null]
    BY <1>2, <2>1, <2>3
  <2> HIDE DEF N, vs
  <2>6. \A i \in 1 .. N : list[i].oid = MibOid(vs[i].oid) /\ list[i].data = null
    BY <2>1, <2>5
  <2>7. \A i \in 1 .. N : list[i] \in Answers
    BY <1>2, <1>3, <2>1, <2>5 DEF Answers
  <2>8. list \in Seq(Answers)
    <3>1. list = [i \in 1 .. N |-> list[i]]
      BY <2>1, <2>3
    <3> QED BY <1>2, <2>7, <3>1
  <2>9. \A i \in 1 .. N : MibOid(vs[i].oid).subids = vs[i].oid
    BY <1>2, OidIsWritten
  <2>10. Len(binds) = Len(list)
    BY <1>2, <2>5
  <2>11. \A i \in 1 .. N : binds[i][1] = vs[i].oid /\ binds[i][2] = null
    OBVIOUS
  <2>12. \A i \in 1 .. Len(list) : binds[i][1] = list[i].oid.subids /\ binds[i][2] = list[i].data
    BY <2>5, <2>6, <2>9, <2>11
  <2> HIDE DEF binds
  <2>13. BerMessage(m.version, m.community, Response, nums, binds, 0)
        = BerWhole(m.version, m.community, Response, nums,
                   FlattenSeq([i \in 1 .. Len(list) |-> BerAnswer(list[i])]), 0)
    BY <2>10, <2>12, BerResponseIs
  <2> QED BY <2>4, <2>8, <2>13 DEF list, nums
<1> QED BY <1>4, <1>5

\* A response is what was to be answered, or is refused as it does not fit.
LEMMA ResponseIsWritten ==
    ASSUME NEW m \in Sendable, NEW r \in Result
    PROVE  Puts(EncodeResponse(Meant(m), r), Wanted(m, r))
<1> DEFINE q == Meant(m)
           list == AnswerList(q, r)
           body == FlattenSeq([i \in 1 .. Len(list) |-> BerAnswer(list[i])])
           version == m.version
           community == m.community
           id == m.numbers[1]
           status == r.status
           index == r.index
<1>1. list \in Seq(Answers)
  BY AnswerLists
<1>2. Wanted(m, r) = BerWhole(version, community, Response, <<id, status, index>>, body, 0)
  BY AnswerLists
<1>3. /\ version \in Integers(IntBytes) /\ community \in Seq(1 .. 255)
      /\ id \in Integers(IntBytes) /\ status \in Integers(IntBytes)
      /\ index \in Integers(IntBytes)
  <2>1. m.numbers \in [1 .. 3 -> Integers(IntBytes)] /\ 1 \in 1 .. 3
    BY DEF Sendable
  <2>2. id \in Integers(IntBytes)
    BY <2>1
  <2> QED BY <2>2 DEF Sendable, Result
<1>4. community \in Seq(Byte)
  BY <1>3, StringIsRead
<1>5. q.version = version /\ q.community = community /\ q.numbers[1] = id
  BY DEF Meant
<1> HIDE DEF list, q
<1>6. PICK put : /\ Bindings(put, list)
                 /\ EncodeResponse(q, r)
                    = WholePut(MessagePut(q, PduPut(q, NumbersPut(q, r, put[Len(list)]))))
  <2>1. Len(AnswerList(q, r)) \in Nat
    BY <1>1, LenProperties DEF list
  <2> QED BY <2>1, BindingsLoop DEF list
<1> DEFINE binds == put[Len(list)]
<1>7. Puts(binds, body)
  BY <1>1, <1>6, BindingsPut
<1> HIDE DEF binds, body, version, community, id, status, index
<1>8. r.status = status /\ r.index = index
  BY DEF status, index
<1>9. Puts(WholePut(MessagePut(q, PduPut(q, NumbersPut(q, r, binds)))),
           BerWhole(version, community, Response, <<id, status, index>>, body, 0))
  BY <1>3, <1>4, <1>5, <1>7, <1>8, WholeIsPut
<1> QED BY <1>2, <1>6, <1>9 DEF q, binds

-----------------------------------------------------------------------------
(* The invariant.                                                            *)

AsSent == sent \in Messages /\ sent \in Sendable

AsRead == AsSent /\ Supported(sent) /\ request = Meant(sent)

\* What holds at each stage of a request.
CodecInv ==
    /\ stage \in {"idle", "received", "decoded", "handled", "answered", "refused"}
    /\ stage = "idle" => /\ packet = <<>> /\ sent = NoRequest /\ request = NoRequest
                         /\ result = NoRequest
    /\ stage = "received" => /\ AsSent /\ request = NoRequest /\ result = NoRequest
                             /\ \E form \in Forms : packet = BerRequest(sent, form)
    /\ stage = "decoded" => AsRead /\ result = NoRequest /\ packet \in Seq(Byte)
    /\ stage = "handled" => AsRead /\ result \in Result /\ packet \in Seq(Byte)
    /\ stage = "answered" => /\ AsRead /\ result \in Result
                             /\ packet = Wanted(sent, result) /\ packet \in Seq(Byte)
                             /\ Len(packet) <= MaxPacket
    /\ stage = "refused" =>
          /\ AsSent
          /\ \/ /\ result = NoRequest /\ request = NoRequest /\ ~Supported(sent)
                /\ packet \in Seq(Byte)
             \/ /\ result \in Result /\ packet = Refused
                /\ Len(Wanted(sent, result)) > MaxPacket

\* What is expected, of the request and the result.
LEMMA ExpectedIs == Expected = Wanted(sent, result)
BY DEF Expected, Wanted

\* A result is not the lack of one.
LEMMA ResultIsOne == ASSUME NEW r \in Result PROVE r # NoRequest
<1>1. DOMAIN r = {"status", "index", "vars"}
  BY DEF Result
<1>2. DOMAIN NoRequest = {"ok"}
  BY DEF NoRequest
<1>3. "ok" \notin {"status", "index", "vars"}
  OBVIOUS
<1> HIDE DEF NoRequest
<1> QED BY <1>1, <1>2, <1>3

\* Managers send what they may.
LEMMA MessagesAreSendable ==
    ASSUME NEW m \in Messages
    PROVE  m \in Sendable
BY MessageAssumption DEF Sendable, Variables

\* Every message of a manager is read as it was meant, or not at all.
LEMMA MessagesAreRead ==
    ASSUME NEW m \in Messages, NEW form \in Forms
    PROVE  /\ BerRequest(m, form) \in Seq(Byte)
           /\ DecodeRequest(BerRequest(m, form)) = IF Supported(m) THEN Meant(m) ELSE NoRequest
           /\ Supported(m) /\ m.vars # <<>> => PacketComplete(BerRequest(m, form)) = 1
<1>1. m \in Sendable /\ form \in 0 .. 2
  BY MessagesAreSendable, Limits
<1> DEFINE b == BerRequest(m, form)
<1>2. Len(b) <= MaxPacket
  BY MessageAssumption
<1>3. b \in Seq(Byte)
  <2> DEFINE list == FlattenSeq(BerVars(m.vars, form))
             pdu == BerPdu(m.numbers, list, form)
             parts == BerParts(m.version, m.community, m.type, pdu, form)
  <2>1. /\ m.version \in Integers(IntBytes) /\ m.community \in Seq(1 .. 255) /\ m.type \in Byte
        /\ m.numbers \in [1 .. 3 -> Integers(IntBytes)] /\ m.vars \in Seq(Variables)
    BY <1>1 DEF Sendable
  <2>2. list \in Seq(Byte)
    BY <1>1, <2>1, ListType
  <2>3. b = Ber(Sequence, parts, form)
    BY <1>1, BerRequestIs DEF BerWhole
  <2> HIDE DEF list, b
  <2>4. pdu \in Seq(Byte)
    BY <1>1, <2>1, <2>2, PduType
  <2> HIDE DEF pdu
  <2>5. parts \in Seq(Byte)
    BY <1>1, <2>1, <2>4, StringIsRead, PartsType
  <2> HIDE DEF parts
  <2> QED BY <1>1, <2>3, <2>5, CodesAreBytes, BerType
<1>4. Len(b) < Word
  <2>1. Len(b) \in Nat
    BY <1>3, LenProperties
  <2> HIDE DEF b
  <2> QED BY <1>2, <2>1, Sizes, WordType
<1> QED BY <1>1, <1>4, RequestIsRead

\* What the handlers leave to be encoded.
LEMMA HandledResult ==
    ASSUME NEW m \in Sendable, NEW r \in Results, NEW named,
           named = IF r.oids = <<>> THEN Meant(m).oids
                   ELSE [i \in 1 .. Len(r.oids) |-> MibOid(r.oids[i])]
    PROVE  [status |-> r.status, index |-> r.index,
            vars |-> FlattenSeq([n \in 1 .. r.times |->
                         [i \in 1 .. Len(named) |-> [oid |-> named[i], data |-> r.data]]])]
           \in Result
<1> DEFINE one == [i \in 1 .. Len(named) |-> [oid |-> named[i], data |-> r.data]]
           all == [n \in 1 .. r.times |-> one]
           listed == FlattenSeq(all)
           Names == {MibOid(o) : o \in Oids}
<1>1. /\ r.status \in Integers(IntBytes) /\ r.index \in Integers(IntBytes)
      /\ r.oids \in Seq(Oids) /\ r.times \in Nat /\ r.data \in Seq(Byte)
  BY ResultAssumption
<1>2. Len(named) \in Nat /\ \A i \in 1 .. Len(named) : named[i] \in Names
  <2>1. CASE r.oids = <<>>
    <3>1. named = MibOids(m.vars, Len(m.vars))
      BY <2>1 DEF Meant
    <3>2. Len(m.vars) \in Nat /\ \A i \in 1 .. Len(m.vars) : m.vars[i].oid \in Oids
      <4>1. m.vars \in Seq(Variables)
        BY DEF Sendable
      <4>2. Len(m.vars) \in Nat /\ \A i \in 1 .. Len(m.vars) : m.vars[i] \in Variables
        BY <4>1, LenProperties, ElementOfSeq
      <4> QED BY <4>2 DEF Variables
    <3>3. Len(named) = Len(m.vars) /\ \A i \in 1 .. Len(m.vars) : named[i] = MibOid(m.vars[i].oid)
      BY <3>1, <3>2 DEF MibOids
    <3> QED BY <3>2, <3>3
  <2>2. CASE r.oids # <<>>
    <3>1. Len(r.oids) \in Nat /\ \A i \in 1 .. Len(r.oids) : r.oids[i] \in Oids
      BY <1>1, LenProperties, ElementOfSeq
    <3>2. Len(named) = Len(r.oids) /\ \A i \in 1 .. Len(r.oids) : named[i] = MibOid(r.oids[i])
      BY <2>2, <3>1
    <3> QED BY <3>1, <3>2
  <2> QED BY <2>1, <2>2
<1> HIDE DEF Names
<1>3. one \in Seq(Answers)
  <2>1. \A i \in 1 .. Len(named) : [oid |-> named[i], data |-> r.data] \in [oid : Names, data : Seq(Byte)]
    BY <1>1, <1>2
  <2>2. Answers = [oid : Names, data : Seq(Byte)]
    BY DEF Answers, Names
  <2> DEFINE n == Len(named)
  <2>3. \A i \in 1 .. n : one[i] \in Answers
    BY <2>1, <2>2
  <2>4. one = [i \in 1 .. n |-> one[i]]
    OBVIOUS
  <2>5. n \in Nat
    BY <1>2
  <2> HIDE DEF one, n
  <2> QED BY <2>3, <2>4, <2>5
<1> HIDE DEF one
<1>4. all \in Seq(Seq(Answers))
  BY <1>1, <1>3
<1> HIDE DEF all
<1>5. listed \in Seq(Answers)
  <2>1. PICK f : f \in [0 .. Len(all) -> Seq(Answers)] /\ listed = f[Len(all)]
    BY <1>4, FlattenLoop
  <2>2. Len(all) \in 0 .. Len(all)
    BY <1>4, LenProperties
  <2> QED BY <2>1, <2>2
<1>6. listed = FlattenSeq([n \in 1 .. r.times |->
                  [i \in 1 .. Len(named) |-> [oid |-> named[i], data |-> r.data]]])
  BY DEF all, one
<1> HIDE DEF listed
<1>7. [status |-> r.status, index |-> r.index, vars |-> listed] \in Result
  BY <1>1, <1>5 DEF Result
<1> QED BY <1>6, <1>7

\* Before the first request.
LEMMA InvInit == Init => CodecInv
BY DEF Init, CodecInv

\* A request arrives.
LEMMA InvSend == CodecInv /\ Send => CodecInv'
<1> SUFFICES ASSUME CodecInv, Send
             PROVE  CodecInv'
  OBVIOUS
<1>1. PICK m \in Messages, form \in Forms : sent' = m /\ packet' = BerRequest(m, form)
  BY DEF Send
<1>2. request' = NoRequest /\ result' = NoRequest /\ stage' = "received"
  BY DEF CodecInv, Send
<1>3. AsSent'
  BY <1>1, MessagesAreSendable DEF AsSent
<1> QED BY <1>1, <1>2, <1>3 DEF CodecInv

\* A request is decoded.
LEMMA InvDecode == CodecInv /\ Decode => CodecInv'
<1> SUFFICES ASSUME CodecInv, Decode
             PROVE  CodecInv'
  OBVIOUS
<1>1. AsSent /\ result = NoRequest
  BY DEF CodecInv, Decode
<1>2. PICK form \in Forms : packet = BerRequest(sent, form)
  BY DEF CodecInv, Decode
<1>3. /\ packet \in Seq(Byte)
      /\ request' = IF Supported(sent) THEN Meant(sent) ELSE NoRequest
  BY <1>1, <1>2, MessagesAreRead DEF AsSent, Decode
<1>4. stage' = (IF request'.ok THEN "decoded" ELSE "refused")
      /\ sent' = sent /\ packet' = packet /\ result' = result
  BY DEF Decode
<1>5. AsSent'
  BY <1>1, <1>4 DEF AsSent
<1>6. CASE Supported(sent)
  <2>1. request' = Meant(sent) /\ request'.ok = TRUE
    BY <1>3, <1>6 DEF Meant
  <2>2. AsRead' /\ stage' = "decoded"
    BY <1>4, <1>5, <1>6, <2>1 DEF AsRead
  <2> QED BY <1>1, <1>3, <1>4, <2>2 DEF CodecInv
<1>7. CASE ~Supported(sent)
  <2>1. request' = NoRequest /\ request'.ok = FALSE
    BY <1>3, <1>7 DEF NoRequest
  <2>2. stage' = "refused" /\ ~Supported(sent')
    BY <1>4, <1>7, <2>1
  <2> QED BY <1>1, <1>3, <1>4, <1>5, <2>1, <2>2 DEF CodecInv
<1> QED BY <1>6, <1>7

\* A request is handled.
LEMMA InvHandle == CodecInv /\ Handle => CodecInv'
<1> SUFFICES ASSUME CodecInv, Handle
             PROVE  CodecInv'
  OBVIOUS
<1>1. AsRead /\ packet \in Seq(Byte)
  BY DEF CodecInv, Handle
<1>2. stage' = "handled" /\ sent' = sent /\ packet' = packet /\ request' = request
  BY DEF Handle
<1>3. result' \in Result
  <2>1. PICK r \in Results :
          result' = LET named == IF r.oids = <<>> THEN request.oids
                                 ELSE [i \in 1 .. Len(r.oids) |-> MibOid(r.oids[i])]
                    IN  [status |-> r.status, index |-> r.index,
                         vars |-> FlattenSeq([n \in 1 .. r.times |->
                                     [i \in 1 .. Len(named) |-> [oid |-> named[i], data |-> r.data]]])]
    BY DEF Handle
  <2> DEFINE named == IF r.oids = <<>> THEN Meant(sent).oids
                      ELSE [i \in 1 .. Len(r.oids) |-> MibOid(r.oids[i])]
  <2>2. result' = [status |-> r.status, index |-> r.index,
                   vars |-> FlattenSeq([n \in 1 .. r.times |->
                               [i \in 1 .. Len(named) |-> [oid |-> named[i], data |-> r.data]]])]
    BY <1>1, <2>1 DEF AsRead
  <2>3. sent \in Sendable
    BY <1>1 DEF AsRead, AsSent
  <2>4. named = IF r.oids = <<>> THEN Meant(sent).oids
                ELSE [i \in 1 .. Len(r.oids) |-> MibOid(r.oids[i])]
    OBVIOUS
  <2> HIDE DEF named
  <2> QED BY <2>2, <2>3, <2>4, HandledResult
<1>4. AsRead'
  BY <1>1, <1>2 DEF AsRead, AsSent
<1> QED BY <1>1, <1>2, <1>3, <1>4 DEF CodecInv

\* A response is encoded.
LEMMA InvEncode == CodecInv /\ Encode => CodecInv'
<1> SUFFICES ASSUME CodecInv, Encode
             PROVE  CodecInv'
  OBVIOUS
<1>1. AsRead /\ result \in Result
  BY DEF CodecInv, Encode
<1>2. /\ packet' = EncodeResponse(request, result)
      /\ stage' = (IF packet' = Refused THEN "refused" ELSE "answered")
      /\ sent' = sent /\ request' = request /\ result' = result
  BY DEF Encode
<1> DEFINE want == Wanted(sent, result)
<1>3. Puts(packet', want)
  <2>1. sent \in Sendable /\ request = Meant(sent)
    BY <1>1 DEF AsRead, AsSent
  <2> QED BY <1>1, <1>2, <2>1, ResponseIsWritten
<1>4. AsRead' /\ AsSent' /\ Wanted(sent', result') = want
  BY <1>1, <1>2 DEF AsRead, AsSent
<1> HIDE DEF want
<1>5. want \in Seq(Byte) /\ packet' = IF Len(want) > MaxPacket THEN Refused ELSE want
  BY <1>3 DEF Puts
<1>6. Len(want) \in Nat /\ MaxPacket \in Nat
  BY <1>5, LenProperties, Sizes
<1>7. CASE Len(want) > MaxPacket
  <2>1. packet' = Refused /\ stage' = "refused"
    BY <1>2, <1>5, <1>7
  <2> QED BY <1>1, <1>2, <1>4, <1>7, <2>1 DEF CodecInv
<1>8. CASE ~(Len(want) > MaxPacket)
  <2>1. packet' = want /\ packet' \in Seq(Byte) /\ Len(packet') <= MaxPacket
    BY <1>5, <1>6, <1>8
  <2>2. packet' # Refused
    BY <2>1, <1>5, NeverRefused
  <2>3. stage' = "answered"
    BY <1>2, <2>2
  <2> QED BY <1>1, <1>2, <1>4, <2>1, <2>3 DEF CodecInv
<1> QED BY <1>7, <1>8

\* The client is done.
LEMMA InvFinish == CodecInv /\ Finish => CodecInv'
BY DEF CodecInv, Finish

\* Nothing happens.
LEMMA InvStutter == CodecInv /\ UNCHANGED vars => CodecInv'
BY DEF CodecInv, AsSent, AsRead, vars

\* The invariant of the codec, for any messages, forms, results and limits.
LEMMA InvAlways == Spec => []CodecInv
<1>1. CodecInv /\ [Next]_vars => CodecInv'
  BY InvSend, InvDecode, InvHandle, InvEncode, InvFinish, InvStutter DEF Next
<1> QED BY InvInit, <1>1, PTL DEF Spec

\* The stages are as they should be, packets are bytes, and an answer fits the
\* buffer (encode_snmp_response).
THEOREM CodecTypes == Spec => []TypeOK
<1>1. CodecInv => TypeOK
  <2>1. <<>> \in Seq(Byte)
    BY EmptySeq
  <2>2. ASSUME CodecInv, stage = "received"
        PROVE  packet \in Seq(Byte)
    <3>1. sent \in Messages
      BY <2>2 DEF CodecInv, AsSent
    <3>2. PICK form \in Forms : packet = BerRequest(sent, form)
      BY <2>2 DEF CodecInv
    <3> QED BY <3>1, <3>2, MessagesAreRead
  <2>3. CodecInv => packet \in Seq(Byte) \cup {Refused}
    BY <2>1, <2>2 DEF CodecInv
  <2> QED BY <2>3 DEF CodecInv, TypeOK
<1> QED BY <1>1, InvAlways, PTL

\* A request the agent means to take is read as its sender meant it, whatever
\* forms of length it is written in, and no other one is taken
\* (decode_snmp_request).
THEOREM RequestsAreRead == Spec => []ReadAsMeant
<1>1. CodecInv => ReadAsMeant
  <2> SUFFICES ASSUME CodecInv, stage \in {"decoded", "refused"}, result = NoRequest
               PROVE  IF Supported(sent)
                      THEN /\ request.ok
                           /\ <<request.version, request.community, request.type, request.numbers>>
                              = <<sent.version, sent.community, sent.type, sent.numbers>>
                           /\ [i \in 1 .. Len(request.oids) |-> request.oids[i].subids]
                              = [i \in 1 .. Len(sent.vars) |-> sent.vars[i].oid]
                      ELSE ~request.ok
    BY DEF ReadAsMeant
  <2>1. CASE stage = "refused"
    <3>1. ~Supported(sent) /\ request = NoRequest
      BY <2>1, ResultIsOne DEF CodecInv
    <3> QED BY <3>1 DEF NoRequest
  <2>2. CASE stage = "decoded"
    <3>1. Supported(sent) /\ sent \in Sendable /\ request = Meant(sent)
      BY <2>2 DEF CodecInv, AsRead, AsSent
    <3> DEFINE vs == sent.vars
               N == Len(vs)
               oids == request.oids
    <3>2. request.ok = TRUE /\ request.version = sent.version
          /\ request.community = sent.community /\ request.type = sent.type
          /\ request.numbers = sent.numbers /\ oids = MibOids(vs, N)
      BY <3>1 DEF Meant
    <3>3. N \in Nat /\ \A i \in 1 .. N : vs[i].oid \in Oids
      <4>1. vs \in Seq(Variables)
        BY <3>1 DEF Sendable
      <4>2. N \in Nat /\ \A i \in 1 .. N : vs[i] \in Variables
        BY <4>1, LenProperties, ElementOfSeq
      <4> QED BY <4>2 DEF Variables
    <3> HIDE DEF oids, vs, N
    <3>4. Len(oids) = N /\ \A i \in 1 .. N : oids[i] = MibOid(vs[i].oid)
      BY <3>2, <3>3 DEF MibOids
    <3>5. \A i \in 1 .. N : oids[i].subids = vs[i].oid
      BY <3>3, <3>4, OidIsWritten
    <3>6. [i \in 1 .. Len(oids) |-> oids[i].subids] = [i \in 1 .. N |-> vs[i].oid]
      BY <3>4, <3>5
    <3> QED BY <3>1, <3>2, <3>6 DEF oids, vs, N
  <2> QED BY <2>1, <2>2
<1> QED BY <1>1, InvAlways, PTL

\* The response is BER of exactly what was to be answered, and is refused only
\* if it does not fit the packet (encode_snmp_response).
THEOREM AnswersAreWritten == Spec => []AnswerAsMeant
<1>1. CodecInv => AnswerAsMeant
  <2>1. CodecInv /\ stage = "answered" => packet = Expected
    BY ExpectedIs DEF CodecInv
  <2>2. CodecInv /\ stage = "refused" /\ result # NoRequest => Len(Expected) > MaxPacket
    BY ExpectedIs DEF CodecInv
  <2> QED BY <2>1, <2>2 DEF AnswerAsMeant
<1> QED BY <1>1, InvAlways, PTL

\* Over TCP a request the agent means to take is found complete when all of it
\* is there (snmp_packet_complete).
THEOREM WholePacketsAreComplete == Spec => []WholeIsComplete
<1>1. CodecInv => WholeIsComplete
  <2> SUFFICES ASSUME CodecInv, stage = "received", Supported(sent), sent.vars # <<>>
               PROVE  PacketComplete(packet) = 1
    BY DEF WholeIsComplete
  <2>1. sent \in Messages
    BY DEF CodecInv, AsSent
  <2>2. PICK form \in Forms : packet = BerRequest(sent, form)
    BY DEF CodecInv
  <2> QED BY <2>1, <2>2, MessagesAreRead
<1> QED BY <1>1, InvAlways, PTL
=============================================================================
