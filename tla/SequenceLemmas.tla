--------------------------- MODULE SequenceLemmas ---------------------------
(* Facts about the sequences of the models: the agent's client table, from   *)
(* which entries are removed in the middle, and the queues of connections.   *)
EXTENDS Integers, SequencesExt, SequenceTheorems, WellFoundedInduction, TLAPS

\* The entries of two sequences one behind the other (the values of a repetition
\* behind those before it, protocol.c:943-975).
LEMMA ConcatElements ==
    ASSUME NEW S, NEW a \in Seq(S), NEW b \in Seq(S)
    PROVE  /\ a \o b \in Seq(S) /\ Len(a \o b) = Len(a) + Len(b)
           /\ \A i \in 1 .. Len(a) : (a \o b)[i] = a[i]
           /\ \A i \in 1 .. Len(b) : (a \o b)[Len(a) + i] = b[i]
<1> DEFINE m == Len(a)  n == Len(b)  t == a \o b
<1>1. m \in Nat /\ n \in Nat
  BY LenProperties
<1>2. /\ t \in Seq(S) /\ Len(t) = m + n
      /\ \A i \in 1 .. m + n : t[i] = IF i <= m THEN a[i] ELSE b[i - m]
  BY ConcatProperties
<1> HIDE DEF m, n, t
<1>3. \A i \in 1 .. m : t[i] = a[i]
  BY <1>1, <1>2
<1>4. ASSUME NEW i \in 1 .. n
      PROVE  t[m + i] = b[i]
  <2>1. m + i \in 1 .. m + n /\ ~(m + i <= m) /\ (m + i) - m = i
    BY <1>1
  <2> QED BY <1>2, <2>1
<1> QED BY <1>2, <1>3, <1>4 DEF m, n, t

\* Removing an entry moves the ones after it up by one (memmove in the removal
\* loop, mini_snmpd.c:457-461).
LEMMA RemoveAtEntries ==
    ASSUME NEW S, NEW s \in Seq(S), NEW i \in 1 .. Len(s)
    PROVE  /\ RemoveAt(s, i) \in Seq(S)
           /\ Len(RemoveAt(s, i)) = Len(s) - 1
           /\ \A j \in 1 .. Len(s) - 1 :
                 RemoveAt(s, i)[j] = s[IF j < i THEN j ELSE j + 1]
<1> DEFINE front == SubSeq(s, 1, i - 1)
           back  == SubSeq(s, i + 1, Len(s))
<1>1. /\ front \in Seq(S) /\ Len(front) = i - 1
      /\ \A j \in 1 .. i - 1 : front[j] = s[j]
  BY SubSeqProperties
<1>2. /\ back \in Seq(S) /\ Len(back) = Len(s) - i
      /\ \A j \in 1 .. Len(s) - i : back[j] = s[i + j]
  BY SubSeqProperties
<1>3. RemoveAt(s, i) = front \o back
  BY DEF RemoveAt
<1> HIDE DEF front, back
<1>0. front \in Seq(S) /\ back \in Seq(S)
  BY <1>1, <1>2
<1> DEFINE t == front \o back
<1>4. /\ t \in Seq(S) /\ Len(t) = Len(front) + Len(back)
      /\ \A j \in 1 .. Len(front) : t[j] = front[j]
      /\ \A j \in 1 .. Len(back) : t[Len(front) + j] = back[j]
  BY <1>0, ConcatElements
<1> HIDE DEF t
<1>5. ASSUME NEW j \in 1 .. Len(s) - 1
      PROVE  t[j] = s[IF j < i THEN j ELSE j + 1]
  <2>1. CASE j < i
    <3>1. j \in 1 .. Len(front) /\ j \in 1 .. i - 1
      BY <1>1, <2>1
    <3> QED BY <1>1, <1>4, <2>1, <3>1
  <2>2. CASE j >= i
    <3>1. j - (i - 1) \in 1 .. Len(s) - i /\ Len(front) + (j - (i - 1)) = j
          /\ i + (j - (i - 1)) = j + 1
      BY <1>1, <2>2
    <3>2. t[j] = back[j - (i - 1)]
      BY <1>2, <1>4, <3>1
    <3>3. back[j - (i - 1)] = s[j + 1]
      BY <1>2, <3>1
    <3> QED BY <2>2, <3>2, <3>3
  <2> QED BY <2>1, <2>2
<1>6. Len(t) = Len(s) - 1
  BY <1>1, <1>2, <1>4
<1> QED BY <1>3, <1>4, <1>5, <1>6 DEF t

\* What a non-empty sequence loses with its head (accept() and recvfrom() take
\* the first of what waits).
LEMMA TailEntries ==
    ASSUME NEW S, NEW s \in Seq(S), s # <<>>
    PROVE  /\ Head(s) \in S /\ Head(s) = s[1] /\ Len(s) > 0
           /\ Tail(s) \in Seq(S) /\ Len(Tail(s)) = Len(s) - 1
           /\ \A j \in 1 .. Len(s) - 1 : Tail(s)[j] = s[j + 1]
  BY HeadTailProperties, EmptySeq

\* The entries of a sequence.
LEMMA SetOfEntries ==
    ASSUME NEW S, NEW s \in Seq(S)
    PROVE  ToSet(s) \subseteq S
  BY ElementOfSeq, LenProperties DEF ToSet

\* Sets of entries under the operations on a sequence.
LEMMA SetOfAppend ==
    ASSUME NEW S, NEW s \in Seq(S), NEW e \in S
    PROVE  ToSet(Append(s, e)) = ToSet(s) \cup {e}
  BY AppendProperties, LenProperties DEF ToSet

\* An entry taken from a sequence without repetitions is no longer in it.
LEMMA SetOfTail ==
    ASSUME NEW S, NEW s \in Seq(S), s # <<>>,
           \A i, j \in 1 .. Len(s) : i # j => s[i] # s[j]
    PROVE  /\ ToSet(Tail(s)) = ToSet(s) \ {Head(s)}
           /\ \A i, j \in 1 .. Len(Tail(s)) : i # j => Tail(s)[i] # Tail(s)[j]
<1>1. /\ Head(s) = s[1] /\ Len(s) \in Nat /\ Len(s) > 0
      /\ Tail(s) \in Seq(S) /\ Len(Tail(s)) = Len(s) - 1
      /\ \A j \in 1 .. Len(s) - 1 : Tail(s)[j] = s[j + 1]
  BY TailEntries, LenProperties
<1>2. DOMAIN s = 1 .. Len(s) /\ DOMAIN Tail(s) = 1 .. Len(s) - 1
  BY <1>1, LenProperties
<1>3. ASSUME NEW j \in 1 .. Len(s) - 1
      PROVE  Tail(s)[j] \in ToSet(s) \ {Head(s)}
  <2>1. j + 1 \in 1 .. Len(s) /\ j + 1 # 1 /\ 1 \in 1 .. Len(s)
    BY <1>1
  <2> QED BY <1>1, <1>2, <2>1 DEF ToSet
<1>4. ASSUME NEW j \in 1 .. Len(s), j # 1
      PROVE  s[j] \in ToSet(Tail(s))
  <2>1. j - 1 \in 1 .. Len(s) - 1 /\ (j - 1) + 1 = j
    BY <1>1, <1>4
  <2>2. Tail(s)[j - 1] = s[j]
    BY <1>1, <2>1
  <2> QED BY <1>2, <2>1, <2>2 DEF ToSet
<1>5. ToSet(Tail(s)) = ToSet(s) \ {Head(s)}
  <2>1. ToSet(Tail(s)) \subseteq ToSet(s) \ {Head(s)}
    BY <1>2, <1>3 DEF ToSet
  <2>2. ToSet(s) \ {Head(s)} \subseteq ToSet(Tail(s))
    BY <1>1, <1>2, <1>4 DEF ToSet
  <2> QED BY <2>1, <2>2
<1>6. \A i, j \in 1 .. Len(s) - 1 : i # j => i + 1 \in 1 .. Len(s) /\ j + 1 \in 1 .. Len(s)
                                              /\ i + 1 # j + 1
  BY <1>1
<1> QED BY <1>1, <1>5, <1>6

\* The same for an entry removed from the middle.
LEMMA SetOfRemoveAt ==
    ASSUME NEW S, NEW s \in Seq(S), NEW k \in 1 .. Len(s),
           \A i, j \in 1 .. Len(s) : i # j => s[i] # s[j]
    PROVE  /\ ToSet(RemoveAt(s, k)) = ToSet(s) \ {s[k]}
           /\ \A i, j \in 1 .. Len(s) - 1 :
                 i # j => RemoveAt(s, k)[i] # RemoveAt(s, k)[j]
<1> DEFINE r == RemoveAt(s, k)
           old(j) == IF j < k THEN j ELSE j + 1
<1>1. /\ r \in Seq(S) /\ Len(s) \in Nat /\ Len(r) = Len(s) - 1
      /\ \A j \in 1 .. Len(s) - 1 : r[j] = s[old(j)]
  BY RemoveAtEntries, LenProperties
<1>2. DOMAIN s = 1 .. Len(s) /\ DOMAIN r = 1 .. Len(s) - 1
  BY <1>1, LenProperties
<1> HIDE DEF r
<1>3. \A j \in 1 .. Len(s) - 1 : old(j) \in 1 .. Len(s) /\ old(j) # k
  BY <1>1
<1>4. \A i, j \in 1 .. Len(s) - 1 : i # j => old(i) # old(j)
  BY <1>1
<1>5. ASSUME NEW j \in 1 .. Len(s), j # k
      PROVE  \E i \in 1 .. Len(s) - 1 : old(i) = j
  <2>1. CASE j < k
    <3>1. j \in 1 .. Len(s) - 1 /\ old(j) = j
      BY <2>1, <1>1
    <3> QED BY <3>1
  <2>2. CASE j > k
    <3>1. j - 1 \in 1 .. Len(s) - 1 /\ old(j - 1) = j
      BY <2>2, <1>1
    <3> QED BY <3>1
  <2>3. j < k \/ j > k
    BY <1>5
  <2> QED BY <2>1, <2>2, <2>3
<1> HIDE DEF old
<1>6. ToSet(r) \subseteq ToSet(s) \ {s[k]}
  BY <1>1, <1>2, <1>3 DEF ToSet
<1>7. ToSet(s) \ {s[k]} \subseteq ToSet(r)
  <2> SUFFICES ASSUME NEW j \in 1 .. Len(s), s[j] # s[k]
               PROVE  s[j] \in ToSet(r)
    BY <1>2 DEF ToSet
  <2>1. PICK i \in 1 .. Len(s) - 1 : old(i) = j
    BY <1>5
  <2> QED BY <2>1, <1>1, <1>2 DEF ToSet
<1> QED BY <1>1, <1>3, <1>4, <1>6, <1>7 DEF r
-----------------------------------------------------------------------------
(* Induction.  The library's induction theorems are about an arbitrary       *)
(* formula, which the provers cannot instantiate; the same is said here of a *)
(* set, from the library's theorem on least elements.                        *)

LEMMA NatIsWellFounded == IsWellFoundedOn({p \in Nat \X Nat : p[1] < p[2]}, Nat)
BY NatLessThanWellFounded DEF OpToRel

\* Every non-empty set of natural numbers has a least element.
LEMMA LeastNatural ==
    ASSUME NEW S, S \subseteq Nat, S # {}
    PROVE  \E n \in S : \A m \in S : n <= m
<1> DEFINE R == {p \in Nat \X Nat : p[1] < p[2]}
<1>1. \E n \in S : \A m \in S : ~(<<m, n>> \in R)
  <2>1. IsWellFoundedOn(R, Nat)
    BY NatIsWellFounded
  <2>2. S \subseteq Nat /\ S # {}
    OBVIOUS
  <2> HIDE DEF R
  <2> QED BY <2>1, <2>2, WFMin
<1>2. PICK n \in S : \A m \in S : ~(<<m, n>> \in R)
  BY <1>1
<1>3. ASSUME NEW m \in S
      PROVE  n <= m
  <2>1. m \in Nat /\ n \in Nat /\ <<m, n>> \notin R
    BY <1>2
  <2> QED BY <2>1
<1> QED BY <1>3

\* A set that holds 0 and the successor of each number in it holds all of them.
LEMMA InductionOnNat ==
    ASSUME NEW S, 0 \in S, \A n \in Nat : n \in S => n + 1 \in S
    PROVE  \A n \in Nat : n \in S
<1> SUFFICES ASSUME NEW k \in Nat \ S
             PROVE  FALSE
  OBVIOUS
<1>1. PICK n \in Nat \ S : \A m \in Nat \ S : n <= m
  BY LeastNatural
<1>2. n - 1 \in Nat /\ n - 1 \notin S
  <2>1. n # 0
    OBVIOUS
  <2>2. n - 1 \in Nat /\ (n - 1) + 1 = n
    BY <2>1
  <2> QED BY <2>2
<1> QED BY <1>1, <1>2

-----------------------------------------------------------------------------
(* Sequences put one behind the other (FlattenSeq).                          *)

\* Each entry is in relation to all those behind it.
Ascending(s, R) == \A i, j \in 1 .. Len(s) : i < j => <<s[i], s[j]>> \in R

\* The function FlattenSeq is defined by exists.
LEMMA FlattenFunction ==
    ASSUME NEW A, NEW n \in Nat
    PROVE  \E f : f = [i \in 1 .. n |-> IF i = 1 THEN A[i] ELSE f[i - 1] \o A[i]]
<1> DEFINE Defined(m) == \E f : f = [i \in 1 .. m |-> IF i = 1 THEN A[i]
                                                      ELSE f[i - 1] \o A[i]]
           S == {m \in Nat : Defined(m)}
<1>1. 0 \in S
  <2> DEFINE f == [i \in 1 .. 0 |-> 0]
  <2>1. f = [i \in 1 .. 0 |-> IF i = 1 THEN A[i] ELSE f[i - 1] \o A[i]]
    OBVIOUS
  <2> QED BY <2>1
<1>2. ASSUME NEW m \in Nat, m \in S
      PROVE  m + 1 \in S
  <2>1. PICK f : f = [i \in 1 .. m |-> IF i = 1 THEN A[i] ELSE f[i - 1] \o A[i]]
    BY <1>2
  <2> DEFINE last == IF m + 1 = 1 THEN A[m + 1] ELSE f[m] \o A[m + 1]
             g    == [i \in 1 .. m + 1 |-> IF i = m + 1 THEN last ELSE f[i]]
  <2>2. ASSUME NEW i \in 1 .. m + 1
        PROVE  g[i] = IF i = 1 THEN A[i] ELSE g[i - 1] \o A[i]
    <3>1. CASE i = m + 1
      <4>1. g[i] = last
        BY <3>1
      <4>2. i # 1 => g[i - 1] = f[m]
        BY <3>1
      <4> HIDE DEF g
      <4> QED BY <3>1, <4>1, <4>2
    <3>2. CASE i # m + 1
      <4>1. i \in 1 .. m /\ g[i] = f[i] /\ (i # 1 => g[i - 1] = f[i - 1])
        BY <3>2
      <4>2. f[i] = IF i = 1 THEN A[i] ELSE f[i - 1] \o A[i]
        BY <2>1, <4>1
      <4> HIDE DEF g
      <4> QED BY <4>1, <4>2
    <3> QED BY <3>1, <3>2
  <2>3. \A i \in 1 .. m + 1 : g[i] = IF i = 1 THEN A[i] ELSE g[i - 1] \o A[i]
    BY <2>2
  <2>4. g = [i \in 1 .. m + 1 |-> g[i]]
    OBVIOUS
  <2> HIDE DEF g
  <2>5. g = [i \in 1 .. m + 1 |-> IF i = 1 THEN A[i] ELSE g[i - 1] \o A[i]]
    BY <2>3, <2>4
  <2>6. \E h : h = [i \in 1 .. m + 1 |-> IF i = 1 THEN A[i] ELSE h[i - 1] \o A[i]]
    BY <2>5
  <2>7. Defined(m + 1)
    BY <2>6
  <2> HIDE DEF Defined
  <2> QED BY <2>7
<1>3. n \in S
  <2> HIDE DEF S
  <2> QED BY <1>1, <1>2, InductionOnNat
<1>4. Defined(n)
  <2> HIDE DEF Defined
  <2> QED BY <1>3
<1> QED BY <1>4

\* Two ascending sequences, the first wholly before the second, are ascending when
\* they are put together.
LEMMA ConcatAscending ==
    ASSUME NEW S, NEW R, NEW a \in Seq(S), NEW b \in Seq(S),
           Ascending(a, R), Ascending(b, R),
           \A i \in 1 .. Len(a), j \in 1 .. Len(b) : <<a[i], b[j]>> \in R
    PROVE  /\ a \o b \in Seq(S) /\ Ascending(a \o b, R)
           /\ \A i \in 1 .. Len(a \o b) : \/ \E j \in 1 .. Len(a) : (a \o b)[i] = a[j]
                                          \/ \E j \in 1 .. Len(b) : (a \o b)[i] = b[j]
<1>1. /\ a \o b \in Seq(S) /\ Len(a \o b) = Len(a) + Len(b)
      /\ Len(a) \in Nat /\ Len(b) \in Nat
      /\ \A i \in 1 .. Len(a) + Len(b) : (a \o b)[i] = IF i <= Len(a) THEN a[i]
                                                       ELSE b[i - Len(a)]
  BY ConcatProperties, LenProperties
<1> DEFINE c == a \o b
<1> HIDE DEF c
<1>2. ASSUME NEW i \in 1 .. Len(c)
      PROVE  \/ i \in 1 .. Len(a) /\ c[i] = a[i]
             \/ i > Len(a) /\ i - Len(a) \in 1 .. Len(b) /\ c[i] = b[i - Len(a)]
  <2>1. i \in 1 .. Len(a) + Len(b)
    BY <1>1 DEF c
  <2>2. c[i] = IF i <= Len(a) THEN a[i] ELSE b[i - Len(a)]
    BY <1>1, <2>1 DEF c
  <2> QED BY <1>1, <2>1, <2>2
<1>3. Ascending(c, R)
  <2> SUFFICES ASSUME NEW i \in 1 .. Len(c), NEW j \in 1 .. Len(c), i < j
               PROVE  <<c[i], c[j]>> \in R
    BY DEF Ascending
  <2>1. CASE i \in 1 .. Len(a) /\ c[i] = a[i] /\ j \in 1 .. Len(a) /\ c[j] = a[j]
    BY <2>1 DEF Ascending
  <2>2. CASE /\ i \in 1 .. Len(a) /\ c[i] = a[i]
             /\ j - Len(a) \in 1 .. Len(b) /\ c[j] = b[j - Len(a)]
    BY <2>2
  <2>3. CASE /\ i - Len(a) \in 1 .. Len(b) /\ c[i] = b[i - Len(a)]
             /\ j - Len(a) \in 1 .. Len(b) /\ c[j] = b[j - Len(a)]
    <3>1. i - Len(a) < j - Len(a)
      BY <1>1
    <3> QED BY <2>3, <3>1 DEF Ascending
  <2>4. ~(i > Len(a) /\ j \in 1 .. Len(a))
    BY <1>1
  <2> QED BY <1>2, <2>1, <2>2, <2>3, <2>4
<1>4. ASSUME NEW i \in 1 .. Len(c)
      PROVE  \/ \E j \in 1 .. Len(a) : c[i] = a[j]
             \/ \E j \in 1 .. Len(b) : c[i] = b[j]
  BY <1>2
<1> QED BY <1>1, <1>3, <1>4 DEF c

\* Ascending sequences, each wholly before the next ones, are ascending when they
\* are put one behind the other.
LEMMA FlattenAscending ==
    ASSUME NEW S, NEW R, NEW seqs \in Seq(Seq(S)),
           \A k \in 1 .. Len(seqs) : Ascending(seqs[k], R),
           \A k, l \in 1 .. Len(seqs) : k < l =>
               \A i \in 1 .. Len(seqs[k]), j \in 1 .. Len(seqs[l]) :
                   <<seqs[k][i], seqs[l][j]>> \in R
    PROVE  /\ FlattenSeq(seqs) \in Seq(S)
           /\ Ascending(FlattenSeq(seqs), R)
           /\ \A i \in 1 .. Len(FlattenSeq(seqs)) :
                 \E k \in 1 .. Len(seqs) : \E j \in 1 .. Len(seqs[k]) :
                     FlattenSeq(seqs)[i] = seqs[k][j]
<1>1. CASE Len(seqs) = 0
  <2>1. seqs = <<>>
    BY <1>1, EmptySeq
  <2>2. FlattenSeq(seqs) = <<>>
    BY <1>1, <2>1 DEF FlattenSeq
  <2> QED BY <2>2, EmptySeq DEF Ascending
<1>2. CASE Len(seqs) # 0
  <2> DEFINE N == Len(seqs)
             f == CHOOSE f : f = [i \in 1 .. N |-> IF i = 1 THEN seqs[i]
                                                   ELSE f[i - 1] \o seqs[i]]
  <2>1. N \in Nat /\ N > 0 /\ \A i \in 1 .. N : seqs[i] \in Seq(S)
    BY <1>2, LenProperties, ElementOfSeq
  <2>2. FlattenSeq(seqs) = f[N]
    BY <1>2 DEF FlattenSeq
  <2>3. f = [i \in 1 .. N |-> IF i = 1 THEN seqs[i] ELSE f[i - 1] \o seqs[i]]
    BY <2>1, FlattenFunction
  <2> HIDE DEF f
  <2>4. f[1] = seqs[1] /\ 1 \in 1 .. N
    BY <2>1, <2>3
  <2>5. ASSUME NEW n \in Nat, n + 2 <= N
        PROVE  f[n + 2] = f[n + 1] \o seqs[n + 2] /\ n + 2 \in 1 .. N
    <3>1. n + 2 \in 1 .. N /\ n + 2 # 1 /\ (n + 2) - 1 = n + 1
      BY <2>1, <2>5
    <3> QED BY <2>3, <3>1
  <2> DEFINE From(s, n) == \A i \in 1 .. Len(s) :
                 \E k \in 1 .. n : \E j \in 1 .. Len(seqs[k]) : s[i] = seqs[k][j]
             Good(s, n) == s \in Seq(S) /\ Ascending(s, R) /\ From(s, n)
             T == {n \in Nat : n + 1 <= N => Good(f[n + 1], n + 1)}
  <2>6. Good(f[1], 1)
    BY <2>1, <2>4
  <2>7. ASSUME NEW n \in Nat, n + 2 <= N, Good(f[n + 1], n + 1)
        PROVE  Good(f[n + 2], n + 2)
    <3> DEFINE a == f[n + 1]
               b == seqs[n + 2]
    <3>1. f[n + 2] = a \o b /\ n + 2 \in 1 .. N
      BY <2>5, <2>7
    <3>2. a \in Seq(S) /\ Ascending(a, R) /\ From(a, n + 1) /\ b \in Seq(S) /\ Ascending(b, R)
      BY <2>1, <2>7, <3>1
    <3>3. ASSUME NEW i \in 1 .. Len(a), NEW j \in 1 .. Len(b)
          PROVE  <<a[i], b[j]>> \in R
      <4>1. PICK k \in 1 .. n + 1 : \E l \in 1 .. Len(seqs[k]) : a[i] = seqs[k][l]
        BY <3>2
      <4>2. k \in 1 .. N /\ k < n + 2
        BY <2>1, <2>7
      <4>3. PICK l \in 1 .. Len(seqs[k]) : a[i] = seqs[k][l]
        BY <4>1
      <4>4. <<seqs[k][l], seqs[n + 2][j]>> \in R
        <5> DEFINE q == n + 2
        <5>1. k \in 1 .. Len(seqs) /\ q \in 1 .. Len(seqs) /\ k < q
              /\ l \in 1 .. Len(seqs[k]) /\ j \in 1 .. Len(seqs[q])
          BY <3>1, <4>2
        <5> HIDE DEF q, N, a, b
        <5>2. <<seqs[k][l], seqs[q][j]>> \in R
          BY <5>1
        <5> QED BY <5>2 DEF q
      <4> QED BY <4>3, <4>4
    <3>4. b = seqs[n + 2]
      OBVIOUS
    <3> HIDE DEF a, b
    <3>5. /\ a \o b \in Seq(S) /\ Ascending(a \o b, R)
          /\ \A i \in 1 .. Len(a \o b) : \/ \E j \in 1 .. Len(a) : (a \o b)[i] = a[j]
                                         \/ \E j \in 1 .. Len(b) : (a \o b)[i] = b[j]
      BY <3>2, <3>3, ConcatAscending
    <3>6. ASSUME NEW i \in 1 .. Len(a \o b)
          PROVE  \E k \in 1 .. n + 2 : \E j \in 1 .. Len(seqs[k]) : (a \o b)[i] = seqs[k][j]
      <4>1. CASE \E j \in 1 .. Len(a) : (a \o b)[i] = a[j]
        <5>1. PICK k \in 1 .. n + 1 : \E j \in 1 .. Len(seqs[k]) : (a \o b)[i] = seqs[k][j]
          BY <3>2, <4>1
        <5>2. k \in 1 .. n + 2
          OBVIOUS
        <5> QED BY <5>1, <5>2
      <4>2. CASE \E j \in 1 .. Len(b) : (a \o b)[i] = b[j]
        <5>1. n + 2 \in 1 .. n + 2
          OBVIOUS
        <5> QED BY <3>4, <4>2, <5>1
      <4> QED BY <3>5, <4>1, <4>2
    <3>7. Good(a \o b, n + 2)
      BY <3>5, <3>6
    <3> HIDE DEF Good
    <3> QED BY <3>1, <3>7
  <2> HIDE DEF Good
  <2>8. 0 \in T
    BY <2>6
  <2>9. ASSUME NEW n \in Nat, n \in T
        PROVE  n + 1 \in T
    <3>1. ASSUME n + 2 <= N
          PROVE  Good(f[n + 2], n + 2)
      <4>1. Good(f[n + 1], n + 1)
        BY <2>1, <2>9, <3>1
      <4> QED BY <2>7, <3>1, <4>1
    <3>2. n + 1 \in Nat /\ (n + 1) + 1 = n + 2
      OBVIOUS
    <3> QED BY <3>1, <3>2
  <2>10. N - 1 \in Nat /\ (N - 1) + 1 = N /\ N <= N
    BY <2>1
  <2>11. N - 1 \in T
    <3> HIDE DEF T, N
    <3> QED BY <2>8, <2>9, <2>10, InductionOnNat
  <2>12. Good(f[N], N)
    <3> HIDE DEF N
    <3> QED BY <2>10, <2>11
  <2> QED BY <2>2, <2>12 DEF Good
<1> QED BY <1>1, <1>2

-----------------------------------------------------------------------------
(* Loops.  A loop over 1 .. n is a recursive function: what it has made of   *)
(* its first i turns.                                                        *)

IsLoop(f, n, start, Turn) ==
    f[0] = start /\ \A i \in 1 .. n : f[i] = Turn[i][f[i - 1]]

LEMMA LoopExists ==
    ASSUME NEW S, NEW start \in S, NEW n \in Nat, NEW Turn \in [1 .. n -> [S -> S]]
    PROVE  \E f \in [0 .. n -> S] : IsLoop(f, n, start, Turn)
<1> DEFINE Runs(f, m) == f[0] = start /\ \A i \in 1 .. m : f[i] = Turn[i][f[i - 1]]
           T == {m \in Nat : m <= n => \E f \in [0 .. m -> S] : Runs(f, m)}
<1>1. 0 \in T
  <2> DEFINE f == [i \in 0 .. 0 |-> start]
  <2>1. f \in [0 .. 0 -> S] /\ Runs(f, 0)
    OBVIOUS
  <2> HIDE DEF f, Runs
  <2> QED BY <2>1
<1>2. ASSUME NEW m \in Nat, m \in T
      PROVE  m + 1 \in T
  <2> SUFFICES ASSUME m + 1 <= n
               PROVE  \E f \in [0 .. m + 1 -> S] : Runs(f, m + 1)
    OBVIOUS
  <2>1. PICK f \in [0 .. m -> S] : Runs(f, m)
    BY <1>2
  <2>2. m \in 0 .. m /\ f[m] \in S /\ m + 1 \in 1 .. n
    BY <2>1
  <2> DEFINE last == Turn[m + 1][f[m]]
             g    == [i \in 0 .. m + 1 |-> IF i = m + 1 THEN last ELSE f[i]]
  <2>3. last \in S
    <3>1. Turn[m + 1] \in [S -> S]
      BY <2>2
    <3> QED BY <2>2, <3>1
  <2>4. \A i \in 0 .. m : g[i] = f[i]
    OBVIOUS
  <2>5. g[m + 1] = last
    OBVIOUS
  <2>6. g \in [0 .. m + 1 -> S]
    <3> HIDE DEF last
    <3> QED BY <2>1, <2>3
  <2> HIDE DEF g
  <2>7. ASSUME NEW i \in 1 .. m + 1
        PROVE  g[i] = Turn[i][g[i - 1]]
    <3>1. CASE i = m + 1
      <4>1. i - 1 = m /\ g[i - 1] = f[m]
        BY <2>4, <3>1
      <4> QED BY <2>5, <3>1, <4>1
    <3>2. CASE i # m + 1
      <4>1. i \in 1 .. m /\ g[i] = f[i] /\ g[i - 1] = f[i - 1]
        BY <2>4, <3>2
      <4> QED BY <2>1, <4>1
    <3> QED BY <3>1, <3>2
  <2>8. g[0] = start
    BY <2>1, <2>4
  <2> HIDE DEF last
  <2>9. Runs(g, m + 1)
    BY <2>7, <2>8
  <2> HIDE DEF Runs
  <2> QED BY <2>6, <2>9
<1>3. n \in T
  <2> HIDE DEF T
  <2> QED BY <1>1, <1>2, InductionOnNat
<1>4. \E f \in [0 .. n -> S] : Runs(f, n)
  BY <1>3
<1> QED BY <1>4 DEF IsLoop

\* It makes the same of the same.
LEMMA LoopUnique ==
    ASSUME NEW n \in Nat, NEW start, NEW Turn, NEW f, NEW g,
           IsLoop(f, n, start, Turn), IsLoop(g, n, start, Turn)
    PROVE  \A i \in 0 .. n : f[i] = g[i]
<1> DEFINE T == {i \in Nat : i <= n => f[i] = g[i]}
<1>1. 0 \in T
  BY DEF IsLoop
<1>2. ASSUME NEW i \in Nat, i \in T
      PROVE  i + 1 \in T
  <2> SUFFICES ASSUME i + 1 <= n
               PROVE  f[i + 1] = g[i + 1]
    OBVIOUS
  <2>1. i + 1 \in 1 .. n /\ (i + 1) - 1 = i /\ f[i] = g[i]
    BY <1>2
  <2> QED BY <2>1 DEF IsLoop
<1>3. \A i \in Nat : i \in T
  <2> HIDE DEF T
  <2> QED BY <1>1, <1>2, InductionOnNat
<1> QED BY <1>3

\* FlattenSeq by the sequences put together so far.
LEMMA FlattenLoop ==
    ASSUME NEW S, NEW seqs \in Seq(Seq(S))
    PROVE  \E f : /\ f \in [0 .. Len(seqs) -> Seq(S)] /\ f[0] = <<>>
                  /\ \A i \in 1 .. Len(seqs) : f[i] = f[i - 1] \o seqs[i]
                  /\ FlattenSeq(seqs) = f[Len(seqs)]
<1> DEFINE N == Len(seqs)
<1>1. N \in Nat /\ \A i \in 1 .. N : seqs[i] \in Seq(S)
  BY LenProperties, ElementOfSeq
<1>2. <<>> \in Seq(S)
  BY EmptySeq
<1>3. CASE N = 0
  <2> DEFINE f == [i \in 0 .. 0 |-> <<>>]
  <2>1. FlattenSeq(seqs) = <<>>
    BY <1>3, EmptySeq DEF FlattenSeq
  <2>2. f \in [0 .. 0 -> Seq(S)] /\ f[0] = <<>>
    BY <1>2
  <2> HIDE DEF f
  <2> QED BY <1>3, <2>1, <2>2
<1>4. CASE N # 0
  <2> DEFINE h == CHOOSE h : h = [i \in 1 .. N |-> IF i = 1 THEN seqs[i]
                                                   ELSE h[i - 1] \o seqs[i]]
             f == [i \in 0 .. N |-> IF i = 0 THEN <<>> ELSE h[i]]
  <2>1. FlattenSeq(seqs) = h[N]
    BY <1>4 DEF FlattenSeq
  <2>2. h = [i \in 1 .. N |-> IF i = 1 THEN seqs[i] ELSE h[i - 1] \o seqs[i]]
    BY <1>1, FlattenFunction
  <2> HIDE DEF h
  <2>3. f[0] = <<>> /\ f[N] = h[N] /\ \A i \in 1 .. N : f[i] = h[i]
    BY <1>1, <1>4
  <2>4. DOMAIN f = 0 .. N /\ f = [i \in 0 .. N |-> f[i]]
    OBVIOUS
  <2> HIDE DEF f
  <2>5. ASSUME NEW i \in 1 .. N
        PROVE  f[i] = f[i - 1] \o seqs[i]
    <3>1. CASE i = 1
      <4>1. f[i] = seqs[i] /\ f[i - 1] = <<>> /\ seqs[i] \in Seq(S)
        BY <1>1, <2>2, <2>3, <3>1
      <4> QED BY <4>1, ConcatEmptySeq
    <3>2. CASE i # 1
      <4>1. i - 1 \in 1 .. N
        BY <3>2
      <4> QED BY <2>2, <2>3, <3>2, <4>1
    <3> QED BY <3>1, <3>2
  <2> DEFINE T == {i \in Nat : i <= N => f[i] \in Seq(S)}
  <2>6. 0 \in T
    BY <1>2, <2>3
  <2>7. ASSUME NEW i \in Nat, i \in T
        PROVE  i + 1 \in T
    <3> SUFFICES ASSUME i + 1 <= N
                 PROVE  f[i + 1] \in Seq(S)
      OBVIOUS
    <3>1. i + 1 \in 1 .. N /\ (i + 1) - 1 = i /\ f[i] \in Seq(S) /\ seqs[i + 1] \in Seq(S)
      BY <1>1, <2>7
    <3>2. f[i + 1] = f[i] \o seqs[i + 1]
      BY <2>5, <3>1
    <3> QED BY <3>1, <3>2, ConcatProperties
  <2>8. \A i \in 0 .. N : f[i] \in Seq(S)
    <3>1. \A i \in Nat : i \in T
      <4> HIDE DEF T
      <4> QED BY <2>6, <2>7, InductionOnNat
    <3> QED BY <1>1, <3>1
  <2>9. f \in [0 .. N -> Seq(S)]
    BY <2>4, <2>8
  <2> QED BY <2>1, <2>3, <2>5, <2>9
<1> QED BY <1>3, <1>4
=============================================================================
