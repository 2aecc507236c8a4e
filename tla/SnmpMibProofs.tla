---------------------------- MODULE SnmpMibProofs ----------------------------
(* What is proved of SnmpMib for every table, every request and every walk.  *)
EXTENDS SnmpMib, SequenceLemmas, FiniteSetTheorems

-----------------------------------------------------------------------------
(* The table is built in the order of OIDs.                                  *)

Small == 0 .. Half - 1

Ordered == {p \in Seq(Small) \X Seq(Small) : Before(p[1], p[2])}

\* v is the OID of row r of column c of table t.
EntryOf(v, t, c, r) ==
    /\ v \in Seq(Small) /\ Len(v) = Len(t.prefix) + 2
    /\ \A j \in 1 .. Len(t.prefix) : v[j] = t.prefix[j]
    /\ v[Len(t.prefix) + 1] = c /\ v[Len(t.prefix) + 2] = r - 1

LEMMA HalfIsNat == Half \in Nat /\ Small \subseteq Nat
BY MibAssumption DEF Half, Small

LEMMA TableFacts ==
    ASSUME NEW n \in 1 .. Len(Tables)
    PROVE  /\ Tables[n] \in [prefix : Seq(Small), rows : Seq(Nat)]
           /\ Tables[n].prefix \in Seq(Small) /\ Len(Tables[n].prefix) \in Nat
           /\ Len(Tables[n].rows) \in Nat /\ Len(Tables[n].rows) < Half
           /\ \A c \in 1 .. Len(Tables[n].rows) :
                 Tables[n].rows[c] \in Nat /\ Tables[n].rows[c] <= Half
<1>1. DOMAIN Tables = 1 .. Len(Tables)
  BY TablesAssumption, LenProperties
<1>2. Tables[n] \in [prefix : Seq(Small), rows : Seq(Nat)]
  BY TablesAssumption, ElementOfSeq DEF Small
<1>3. DOMAIN Tables[n].rows = 1 .. Len(Tables[n].rows)
  BY <1>2, LenProperties
<1>4. \A c \in 1 .. Len(Tables[n].rows) : Tables[n].rows[c] \in Nat
  BY <1>2, ElementOfSeq
<1> QED BY <1>1, <1>2, <1>3, <1>4, TablesAssumption, LenProperties

LEMMA ColumnEntries ==
    ASSUME NEW n \in 1 .. Len(Tables), NEW c \in 1 .. Len(Tables[n].rows)
    PROVE  /\ Column(Tables[n], c) \in Seq(Seq(Small))
           /\ Len(Column(Tables[n], c)) = Tables[n].rows[c]
           /\ \A r \in 1 .. Tables[n].rows[c] : EntryOf(Column(Tables[n], c)[r], Tables[n], c, r)
<1> DEFINE t == Tables[n]
           p == t.prefix
<1>1. /\ p \in Seq(Small) /\ Len(p) \in Nat /\ t.rows[c] \in Nat /\ t.rows[c] <= Half
      /\ c \in Small /\ c \in Nat
  BY TableFacts, HalfIsNat DEF Small
<1> HIDE DEF p
<1>2. ASSUME NEW r \in 1 .. t.rows[c]
      PROVE  EntryOf(p \o <<c, r - 1>>, t, c, r)
  <2>1. r - 1 \in Small
    BY <1>1, HalfIsNat DEF Small
  <2> DEFINE e == <<c, r - 1>>
  <2>2. e \in Seq(Small) /\ Len(e) = 2 /\ e[1] = c /\ e[2] = r - 1
    BY <1>1, <2>1, HalfIsNat
  <2> HIDE DEF e
  <2>3. /\ p \o e \in Seq(Small) /\ Len(p \o e) = Len(p) + Len(e)
        /\ \A i \in 1 .. Len(p) + Len(e) : (p \o e)[i] = IF i <= Len(p) THEN p[i]
                                                         ELSE e[i - Len(p)]
    <3>1. p \in Seq(Small) /\ e \in Seq(Small)
      BY <1>1, <2>2
    <3> QED BY <3>1, ConcatProperties
  <2>4. (p \o e)[Len(p) + 1] = c /\ (p \o e)[Len(p) + 2] = r - 1
    BY <1>1, <2>2, <2>3
  <2>5. \A j \in 1 .. Len(p) : (p \o e)[j] = p[j]
    BY <1>1, <2>3
  <2> QED BY <2>3, <2>4, <2>5 DEF EntryOf, e, p
<1>3. Column(t, c) = [r \in 1 .. t.rows[c] |-> p \o <<c, r - 1>>]
  BY DEF Column, p
<1>4. \A r \in 1 .. t.rows[c] : p \o <<c, r - 1>> \in Seq(Small)
  BY <1>2 DEF EntryOf
<1> HIDE DEF t
<1> DEFINE col == Column(t, c)
           N   == t.rows[c]
           e(r) == p \o <<c, r - 1>>
<1>5. Column(t, c) \in Seq(Seq(Small)) /\ Len(Column(t, c)) = t.rows[c]
  <2>1. N \in Nat /\ col = [r \in 1 .. N |-> e(r)] /\ \A r \in 1 .. N : e(r) \in Seq(Small)
    BY <1>1, <1>3, <1>4
  <2> HIDE DEF col, e, N
  <2>2. col \in Seq(Seq(Small)) /\ Len(col) = N
    BY <2>1
  <2> QED BY <2>2 DEF col, N
<1>6. \A r \in 1 .. t.rows[c] : EntryOf(Column(t, c)[r], t, c, r)
  BY <1>2, <1>3
<1> QED BY <1>5, <1>6 DEF t

\* The entries of a table in their order: by column, then by row.
LEMMA EntriesOrdered ==
    ASSUME NEW n \in 1 .. Len(Tables), NEW v, NEW w, NEW c \in Nat, NEW d \in Nat,
           NEW r \in Nat, NEW q \in Nat,
           EntryOf(v, Tables[n], c, r), EntryOf(w, Tables[n], d, q),
           c < d \/ (c = d /\ r < q)
    PROVE  <<v, w>> \in Ordered
<1> DEFINE L == Len(Tables[n].prefix)
<1>1. L \in Nat /\ v \in Seq(Small) /\ w \in Seq(Small) /\ Len(v) = L + 2 /\ Len(w) = L + 2
  BY TableFacts DEF EntryOf
<1>2. \A j \in 1 .. L : v[j] = w[j]
  BY DEF EntryOf
<1>3. v[L + 1] = c /\ v[L + 2] = r - 1 /\ w[L + 1] = d /\ w[L + 2] = q - 1
  BY DEF EntryOf
<1> HIDE DEF L
<1>4. CASE c < d
  <2>1. L + 1 \in 1 .. Len(v) /\ L + 1 <= Len(w) /\ v[L + 1] < w[L + 1]
    BY <1>1, <1>3, <1>4
  <2>2. \A j \in 1 .. (L + 1) - 1 : v[j] = w[j]
    BY <1>1, <1>2
  <2>3. Before(v, w)
    BY <2>1, <2>2 DEF Before
  <2> QED BY <1>1, <2>3 DEF Ordered
<1>5. CASE c = d /\ r < q
  <2>1. L + 2 \in 1 .. Len(v) /\ L + 2 <= Len(w) /\ v[L + 2] < w[L + 2]
    BY <1>1, <1>3, <1>5
  <2>2. \A j \in 1 .. (L + 2) - 1 : v[j] = w[j]
    BY <1>1, <1>2, <1>3, <1>5
  <2>3. Before(v, w)
    BY <2>1, <2>2 DEF Before
  <2> QED BY <1>1, <2>3 DEF Ordered
<1> QED BY <1>4, <1>5

\* The entries of two tables: by their prefixes.
LEMMA TablesOrdered ==
    ASSUME NEW m \in 1 .. Len(Tables), NEW n \in 1 .. Len(Tables), m < n,
           NEW v, NEW w, NEW c, NEW d, NEW r, NEW q,
           EntryOf(v, Tables[m], c, r), EntryOf(w, Tables[n], d, q)
    PROVE  <<v, w>> \in Ordered
<1> DEFINE a == Tables[m].prefix
           b == Tables[n].prefix
<1>1. DOMAIN Tables = 1 .. Len(Tables)
  BY TablesAssumption, LenProperties
<1>2. a \in Seq(Small) /\ b \in Seq(Small) /\ Len(a) \in Nat /\ Len(b) \in Nat
  BY TableFacts
<1>3. Before(a, b)
  <2>1. m \in DOMAIN Tables /\ n \in DOMAIN Tables
    BY <1>1
  <2> QED BY <2>1, TablesAssumption
<1>4. PICK i \in 1 .. Len(a) : /\ i <= Len(b) /\ a[i] < b[i]
                               /\ \A j \in 1 .. i - 1 : a[j] = b[j]
  BY <1>3 DEF Before
<1>5. v \in Seq(Small) /\ Len(v) = Len(a) + 2 /\ \A j \in 1 .. Len(a) : v[j] = a[j]
  BY DEF EntryOf
<1>6. w \in Seq(Small) /\ Len(w) = Len(b) + 2 /\ \A j \in 1 .. Len(b) : w[j] = b[j]
  BY DEF EntryOf
<1> HIDE DEF a, b
<1>7. i \in 1 .. Len(v) /\ i <= Len(w) /\ v[i] < w[i]
  BY <1>2, <1>4, <1>5, <1>6
<1>8. ASSUME NEW j \in 1 .. i - 1
      PROVE  v[j] = w[j]
  <2>1. j \in 1 .. Len(a) /\ j \in 1 .. Len(b)
    BY <1>2, <1>4
  <2> QED BY <2>1, <1>4, <1>5, <1>6
<1>9. Before(v, w)
  BY <1>7, <1>8 DEF Before
<1> QED BY <1>5, <1>6, <1>9 DEF Ordered
LEMMA TableEntries ==
    ASSUME NEW n \in 1 .. Len(Tables)
    PROVE  /\ Table(Tables[n]) \in Seq(Seq(Small)) /\ Ascending(Table(Tables[n]), Ordered)
           /\ \A i \in 1 .. Len(Table(Tables[n])) :
                 \E c, r \in Nat : EntryOf(Table(Tables[n])[i], Tables[n], c, r)
<1> DEFINE t == Tables[n]
           C == Len(t.rows)
           seqs == [c \in 1 .. C |-> Column(t, c)]
<1>1. C \in Nat /\ \A c \in 1 .. C : t.rows[c] \in Nat
  BY TableFacts
<1>2. ASSUME NEW c \in 1 .. C
      PROVE  /\ seqs[c] \in Seq(Seq(Small)) /\ Len(seqs[c]) = t.rows[c]
             /\ \A r \in 1 .. t.rows[c] : EntryOf(seqs[c][r], t, c, r)
  BY ColumnEntries
<1>3. Table(t) = FlattenSeq(seqs)
  BY DEF Table
<1>4. seqs \in Seq(Seq(Seq(Small))) /\ Len(seqs) = C
  <2>1. \A c \in 1 .. C : Column(t, c) \in Seq(Seq(Small))
    BY <1>2
  <2> HIDE DEF C, t
  <2> QED BY <1>1, <2>1
<1> HIDE DEF t, C, seqs
<1>5. ASSUME NEW c \in 1 .. Len(seqs)
      PROVE  Ascending(seqs[c], Ordered)
  <2> SUFFICES ASSUME NEW i \in 1 .. Len(seqs[c]), NEW j \in 1 .. Len(seqs[c]), i < j
               PROVE  <<seqs[c][i], seqs[c][j]>> \in Ordered
    BY DEF Ascending
  <2>1. i \in Nat /\ j \in Nat /\ c \in Nat /\ i \in 1 .. t.rows[c] /\ j \in 1 .. t.rows[c]
        /\ c \in 1 .. C
    BY <1>1, <1>2, <1>4
  <2>2. EntryOf(seqs[c][i], t, c, i) /\ EntryOf(seqs[c][j], t, c, j)
    BY <1>2, <2>1
  <2> QED BY <2>1, <2>2, EntriesOrdered DEF t
<1>6. ASSUME NEW c \in 1 .. Len(seqs), NEW d \in 1 .. Len(seqs), c < d,
             NEW i \in 1 .. Len(seqs[c]), NEW j \in 1 .. Len(seqs[d])
      PROVE  <<seqs[c][i], seqs[d][j]>> \in Ordered
  <2>0. c \in 1 .. C /\ d \in 1 .. C
    BY <1>4
  <2>a. Len(seqs[c]) = t.rows[c] /\ Len(seqs[d]) = t.rows[d]
    BY <1>2, <2>0
  <2>b. t.rows[c] \in Nat /\ t.rows[d] \in Nat
    BY <1>1, <2>0
  <2>1. i \in Nat /\ j \in Nat /\ c \in Nat /\ d \in Nat /\ i \in 1 .. t.rows[c]
        /\ j \in 1 .. t.rows[d] /\ c \in 1 .. C /\ d \in 1 .. C
    BY <1>1, <2>0, <2>a, <2>b
  <2>2. EntryOf(seqs[c][i], t, c, i) /\ EntryOf(seqs[d][j], t, d, j)
    BY <1>2, <2>1
  <2> QED BY <1>6, <2>1, <2>2, EntriesOrdered DEF t
<1>7. /\ FlattenSeq(seqs) \in Seq(Seq(Small)) /\ Ascending(FlattenSeq(seqs), Ordered)
      /\ \A i \in 1 .. Len(FlattenSeq(seqs)) :
            \E c \in 1 .. Len(seqs) : \E j \in 1 .. Len(seqs[c]) :
               FlattenSeq(seqs)[i] = seqs[c][j]
  BY <1>4, <1>5, <1>6, FlattenAscending
<1>8. ASSUME NEW i \in 1 .. Len(Table(t))
      PROVE  \E c, r \in Nat : EntryOf(Table(t)[i], t, c, r)
  <2>1. PICK c \in 1 .. Len(seqs) : \E j \in 1 .. Len(seqs[c]) : FlattenSeq(seqs)[i] = seqs[c][j]
    BY <1>3, <1>7
  <2>2. PICK j \in 1 .. Len(seqs[c]) : FlattenSeq(seqs)[i] = seqs[c][j]
    BY <2>1
  <2>a. c \in 1 .. C
    BY <1>4
  <2>b. Len(seqs[c]) = t.rows[c] /\ t.rows[c] \in Nat
    BY <1>1, <1>2, <2>a
  <2>3. c \in 1 .. C /\ c \in Nat /\ j \in 1 .. t.rows[c] /\ j \in Nat
    BY <1>1, <2>a, <2>b
  <2>4. EntryOf(Table(t)[i], t, c, j)
    BY <1>2, <1>3, <2>2, <2>3
  <2> QED BY <2>3, <2>4
<1> QED BY <1>3, <1>7, <1>8 DEF t

\* v is the OID of an entry some table has.
InTables(v) == \E n \in 1 .. Len(Tables) : \E c, r \in Nat : EntryOf(v, Tables[n], c, r)

LEMMA MibEntries ==
    /\ MibBuild \in Seq(Seq(Small)) /\ Ascending(MibBuild, Ordered)
    /\ \A i \in 1 .. Len(MibBuild) : InTables(MibBuild[i])
<1> DEFINE seqs == [n \in 1 .. Len(Tables) |-> Table(Tables[n])]
<1>1. Len(Tables) \in Nat
  BY TablesAssumption, LenProperties
<1>2. ASSUME NEW n \in 1 .. Len(Tables)
      PROVE  /\ seqs[n] \in Seq(Seq(Small)) /\ Ascending(seqs[n], Ordered)
             /\ \A i \in 1 .. Len(seqs[n]) : \E c, r \in Nat : EntryOf(seqs[n][i], Tables[n], c, r)
  BY TableEntries
<1>3. MibBuild = FlattenSeq(seqs)
  BY DEF MibBuild
<1>4. seqs \in Seq(Seq(Seq(Small))) /\ Len(seqs) = Len(Tables)
  BY <1>1, <1>2
<1> HIDE DEF seqs
<1>5. ASSUME NEW m \in 1 .. Len(seqs), NEW n \in 1 .. Len(seqs), m < n,
             NEW i \in 1 .. Len(seqs[m]), NEW j \in 1 .. Len(seqs[n])
      PROVE  <<seqs[m][i], seqs[n][j]>> \in Ordered
  <2>1. m \in 1 .. Len(Tables) /\ n \in 1 .. Len(Tables)
    BY <1>4
  <2>2. PICK c \in Nat, r \in Nat : EntryOf(seqs[m][i], Tables[m], c, r)
    BY <1>2, <2>1
  <2>3. PICK d \in Nat, q \in Nat : EntryOf(seqs[n][j], Tables[n], d, q)
    BY <1>2, <2>1
  <2> QED BY <1>5, <2>1, <2>2, <2>3, TablesOrdered
<1>6. /\ FlattenSeq(seqs) \in Seq(Seq(Small)) /\ Ascending(FlattenSeq(seqs), Ordered)
      /\ \A i \in 1 .. Len(FlattenSeq(seqs)) :
            \E n \in 1 .. Len(seqs) : \E j \in 1 .. Len(seqs[n]) :
               FlattenSeq(seqs)[i] = seqs[n][j]
  <2>1. \A n \in 1 .. Len(seqs) : Ascending(seqs[n], Ordered)
    BY <1>2, <1>4
  <2> QED BY <1>4, <1>5, <2>1, FlattenAscending
<1>7. ASSUME NEW i \in 1 .. Len(MibBuild)
      PROVE  InTables(MibBuild[i])
  <2>1. PICK n \in 1 .. Len(seqs) : \E j \in 1 .. Len(seqs[n]) : MibBuild[i] = seqs[n][j]
    BY <1>3, <1>6
  <2>2. n \in 1 .. Len(Tables)
    BY <1>4
  <2> QED BY <1>2, <2>1, <2>2 DEF InTables
<1> QED BY <1>3, <1>6, <1>7
-----------------------------------------------------------------------------
(* The order of OIDs, and what oid_cmp makes of it.                          *)

LEMMA LeastIsLeast ==
    ASSUME NEW S, S \subseteq Nat, S # {}
    PROVE  Least(S) \in S /\ Least(S) \in Nat /\ \A m \in S : Least(S) <= m
<1>1. \E n \in S : \A m \in S : n <= m
  BY LeastNatural
<1>2. Least(S) \in S /\ \A m \in S : Least(S) <= m
  BY <1>1 DEF Least
<1> QED BY <1>2

\* Place i decides that a is less than b: it ends there, or its subid is smaller.
At(a, b, i) == /\ i \in 1 .. Len(b) /\ i <= Len(a) + 1
               /\ i <= Len(a) => a[i] < b[i]
               /\ \A j \in 1 .. i - 1 : a[j] = b[j]

LEMMA PrefixMeans ==
    ASSUME NEW S, NEW a \in Seq(S), NEW b \in Seq(S)
    PROVE  IsPrefix(a, b) <=> Len(a) <= Len(b) /\ \A j \in 1 .. Len(a) : a[j] = b[j]
BY DEF IsPrefix

LEMMA LessMeans ==
    ASSUME NEW S, NEW a \in Seq(S), NEW b \in Seq(S)
    PROVE  Less(a, b) <=> \E i \in 1 .. Len(b) : At(a, b, i)
<1>0. Len(a) \in Nat /\ Len(b) \in Nat
  BY LenProperties
<1>1. ASSUME Before(a, b)
      PROVE  \E i \in 1 .. Len(b) : At(a, b, i)
  <2>1. PICK i \in 1 .. Len(a) : /\ i <= Len(b) /\ a[i] < b[i]
                                 /\ \A j \in 1 .. i - 1 : a[j] = b[j]
    BY <1>1 DEF Before
  <2>2. i \in 1 .. Len(b) /\ i <= Len(a) + 1
    BY <1>0, <2>1
  <2>3. At(a, b, i)
    BY <2>1, <2>2 DEF At
  <2> QED BY <2>2, <2>3
<1>2. ASSUME Len(a) < Len(b), IsPrefix(a, b)
      PROVE  \E i \in 1 .. Len(b) : At(a, b, i)
  <2>1. Len(a) + 1 \in 1 .. Len(b) /\ ~(Len(a) + 1 <= Len(a)) /\ (Len(a) + 1) - 1 = Len(a)
    BY <1>0, <1>2
  <2>2. \A j \in 1 .. Len(a) : a[j] = b[j]
    BY <1>2, PrefixMeans
  <2>3. At(a, b, Len(a) + 1)
    BY <2>1, <2>2, <1>0 DEF At
  <2> QED BY <2>1, <2>3
<1>3. ASSUME NEW i \in 1 .. Len(b), At(a, b, i)
      PROVE  Less(a, b)
  <2>1. CASE i <= Len(a)
    <3>1. i \in 1 .. Len(a) /\ i <= Len(b)
      BY <2>1, <1>0
    <3>2. Before(a, b)
      BY <1>3, <2>1, <3>1 DEF At, Before
    <3> QED BY <3>2 DEF Less
  <2>2. CASE i = Len(a) + 1
    <3>1. Len(a) < Len(b) /\ i - 1 = Len(a)
      BY <1>0, <2>2
    <3>2. IsPrefix(a, b)
      BY <1>0, <1>3, <3>1, PrefixMeans DEF At
    <3> QED BY <3>1, <3>2 DEF Less
  <2>3. i <= Len(a) \/ i = Len(a) + 1
    BY <1>0, <1>3 DEF At
  <2> QED BY <2>1, <2>2, <2>3
<1> QED BY <1>1, <1>2, <1>3 DEF Less

LEMMA LessIrreflexive ==
    ASSUME NEW a \in Seq(Nat)
    PROVE  ~Less(a, a)
<1>1. ASSUME NEW i \in 1 .. Len(a), At(a, a, i)
      PROVE  FALSE
  <2>1. i <= Len(a) /\ a[i] \in Nat
    BY LenProperties, ElementOfSeq
  <2> QED BY <1>1, <2>1 DEF At
<1> QED BY <1>1, LessMeans

LEMMA LessThenBefore ==
    ASSUME NEW a \in Seq(Nat), NEW b \in Seq(Nat), NEW c \in Seq(Nat),
           Less(a, b), Before(b, c)
    PROVE  Less(a, c)
<1>0. /\ Len(a) \in Nat /\ Len(b) \in Nat /\ Len(c) \in Nat
      /\ \A j \in 1 .. Len(a) : a[j] \in Nat
      /\ \A j \in 1 .. Len(b) : b[j] \in Nat
      /\ \A j \in 1 .. Len(c) : c[j] \in Nat
  BY LenProperties, ElementOfSeq
<1>1. PICK i \in 1 .. Len(b) : At(a, b, i)
  BY LessMeans
<1>2. PICK k \in 1 .. Len(b) : k <= Len(c) /\ b[k] < c[k] /\ \A j \in 1 .. k - 1 : b[j] = c[j]
  BY DEF Before
<1>3. CASE i <= k
  <2>1. i \in 1 .. Len(c) /\ i <= Len(a) + 1
    BY <1>0, <1>1, <1>2, <1>3 DEF At
  <2>2. \A j \in 1 .. i - 1 : a[j] = c[j]
    BY <1>1, <1>2, <1>3 DEF At
  <2>3. b[i] <= c[i] /\ b[i] \in Nat /\ c[i] \in Nat
    <3>1. b[i] \in Nat /\ c[i] \in Nat
      BY <1>0, <2>1
    <3>2. CASE i = k
      BY <1>2, <3>1, <3>2
    <3>3. CASE i < k
      <4>1. i \in 1 .. k - 1
        BY <3>3
      <4> QED BY <1>2, <3>1, <4>1
    <3> QED BY <1>3, <3>2, <3>3
  <2>4. ASSUME i <= Len(a)
        PROVE  a[i] < c[i]
    <3>1. a[i] < b[i]
      BY <1>1, <2>4 DEF At
    <3>2. a[i] \in Nat
      BY <1>0, <2>4
    <3> DEFINE x == a[i]  y == b[i]  z == c[i]
    <3>3. x < y /\ y <= z /\ x \in Nat /\ y \in Nat /\ z \in Nat
      BY <2>3, <3>1, <3>2
    <3> HIDE DEF x, y, z
    <3>4. x < z
      BY <3>3
    <3> QED BY <3>4 DEF x, z
  <2>5. At(a, c, i)
    BY <2>1, <2>2, <2>4 DEF At
  <2> QED BY <2>1, <2>5, LessMeans
<1>4. CASE i > k
  <2>1. k \in 1 .. Len(c) /\ k <= Len(a) + 1 /\ k \in 1 .. i - 1
    BY <1>0, <1>1, <1>2, <1>4 DEF At
  <2>2. a[k] = b[k] /\ \A j \in 1 .. k - 1 : a[j] = c[j]
    BY <1>1, <1>2, <2>1 DEF At
  <2>3. At(a, c, k)
    BY <1>2, <2>1, <2>2 DEF At
  <2> QED BY <2>1, <2>3, LessMeans
<1> QED BY <1>3, <1>4

LEMMA BeforeNotAfter ==
    ASSUME NEW a \in Seq(Nat), NEW b \in Seq(Nat), Before(a, b)
    PROVE  ~Less(b, a)
<1>1. Less(a, b)
  BY DEF Less
<1> SUFFICES ASSUME Less(b, a)
             PROVE  FALSE
  OBVIOUS
<1>2. Less(b, b)
  BY LessThenBefore
<1> QED BY <1>2, LessIrreflexive

\* For OIDs of subids that are positive in an int, oid_cmp is the order of OIDs.
LEMMA OidCmpIsOrder ==
    ASSUME NEW a \in Seq(Small), NEW b \in Seq(Small), Len(a) <= MaxOids, Len(b) <= MaxOids
    PROVE  OidCmp(a, b) > 0 <=> Less(b, a)
<1> DEFINE ends == {i \in 1 .. MaxOids : \/ Subid(a, i) # Subid(b, i)
                                         \/ Subid(a, i) = -1}
           e    == Least(ends)
<1>0. MaxOids \in Nat /\ Half \in Nat /\ Small \subseteq Nat /\ Len(a) \in Nat /\ Len(b) \in Nat
  BY MibAssumption, HalfIsNat, LenProperties
<1>1. \A i \in 1 .. Len(a) : Subid(a, i) = a[i] /\ a[i] \in Nat
  <2>1. \A i \in 1 .. Len(a) : a[i] \in Small
    BY ElementOfSeq
  <2> QED BY <1>0, <2>1 DEF Subid, Small
<1>2. \A i \in 1 .. Len(b) : Subid(b, i) = b[i] /\ b[i] \in Nat
  <2>1. \A i \in 1 .. Len(b) : b[i] \in Small
    BY ElementOfSeq
  <2> QED BY <1>0, <2>1 DEF Subid, Small
<1>3. \A i \in Nat : (i > Len(a) => Subid(a, i) = -1) /\ (i > Len(b) => Subid(b, i) = -1)
  BY DEF Subid
<1>4. OidCmp(a, b) = IF ends = {} \/ Subid(a, e) = Subid(b, e) THEN 0
                     ELSE IF Subid(a, e) > Subid(b, e) THEN 1 ELSE -1
  BY DEF OidCmp
<1>5. ASSUME ends # {}
      PROVE  /\ e \in ends /\ e \in 1 .. MaxOids
             /\ \A i \in 1 .. e - 1 : i \notin ends
  <2>1. ends \subseteq Nat
    OBVIOUS
  <2>2. e \in ends /\ \A i \in ends : e <= i
    <3> HIDE DEF ends
    <3> QED BY <1>5, <2>1, LeastIsLeast
  <2> HIDE DEF e
  <2>3. e \in 1 .. MaxOids
    BY <2>2
  <2> HIDE DEF ends
  <2> QED BY <2>2, <2>3
<1>6. ASSUME OidCmp(a, b) > 0
      PROVE  Less(b, a)
  <2>1. ends # {} /\ Subid(a, e) > Subid(b, e) /\ Subid(a, e) # Subid(b, e)
    <3> HIDE DEF ends, e
    <3> QED BY <1>4, <1>6
  <2>2. e \in 1 .. MaxOids /\ \A i \in 1 .. e - 1 : i \notin ends
    BY <1>5, <2>1
  <2> HIDE DEF e
  <2>3. e <= Len(a)
    BY <1>0, <1>1, <1>2, <1>3, <2>1, <2>2
  <2>4. \A i \in 1 .. e - 1 : Subid(a, i) = Subid(b, i) /\ Subid(a, i) # -1
    BY <1>0, <2>2
  <2>5. \A i \in 1 .. e - 1 : i <= Len(b) /\ i <= Len(a)
    BY <1>0, <1>3, <2>2, <2>4
  <2>6. e <= Len(b) + 1
    <3>1. e - 1 = 0 \/ e - 1 \in 1 .. e - 1
      BY <2>2
    <3> QED BY <1>0, <2>2, <2>5, <3>1
  <2>7. e <= Len(b) => b[e] < a[e]
    BY <1>0, <1>1, <1>2, <2>1, <2>2, <2>3
  <2>8. \A i \in 1 .. e - 1 : b[i] = a[i]
    BY <1>0, <1>1, <1>2, <2>2, <2>4, <2>5
  <2>9. At(b, a, e) /\ e \in 1 .. Len(a)
    BY <1>0, <2>2, <2>3, <2>6, <2>7, <2>8 DEF At
  <2> QED BY <2>9, LessMeans
<1>7. ASSUME Less(b, a)
      PROVE  OidCmp(a, b) > 0
  <2>1. PICK k \in 1 .. Len(a) : At(b, a, k)
    BY <1>7, LessMeans
  <2>2. Subid(a, k) > Subid(b, k) /\ Subid(a, k) # Subid(b, k) /\ k \in 1 .. MaxOids
    <3>1. CASE k <= Len(b)
      BY <1>0, <1>1, <1>2, <2>1, <3>1 DEF At
    <3>2. CASE k > Len(b)
      BY <1>0, <1>1, <1>3, <3>2
    <3> QED BY <1>0, <3>1, <3>2
  <2>3. \A j \in 1 .. k - 1 : Subid(a, j) = Subid(b, j) /\ Subid(a, j) # -1
    <3> SUFFICES ASSUME NEW j \in 1 .. k - 1
                 PROVE  Subid(a, j) = Subid(b, j) /\ Subid(a, j) # -1
      OBVIOUS
    <3>1. j \in 1 .. Len(a) /\ j \in 1 .. Len(b) /\ b[j] = a[j]
      BY <1>0, <2>1 DEF At
    <3> QED BY <1>1, <1>2, <3>1
  <2>4. k \in ends
    BY <2>2
  <2>5. e = k
    <3>1. e \in ends /\ e \in 1 .. MaxOids /\ \A i \in 1 .. e - 1 : i \notin ends
      BY <1>5, <2>4
    <3>2. \A j \in 1 .. k - 1 : j \notin ends
      BY <2>3
    <3> HIDE DEF ends, e
    <3>3. ~(e < k) /\ ~(k < e)
      BY <1>0, <2>2, <2>4, <3>1, <3>2
    <3> QED BY <2>2, <3>1, <3>3
  <2> HIDE DEF ends, e
  <2> QED BY <1>4, <2>2, <2>4, <2>5
<1> QED BY <1>6, <1>7
-----------------------------------------------------------------------------
(* Searching the table.                                                      *)

\* The table as mib_build leaves it.
MibOK == mib = MibBuild /\ \A n \in DOMAIN mib : Len(mib[n]) <= MaxSubids

SmallOid(o) == o \in Seq(Small) /\ Len(o) <= MaxSubids

LEMMA SmallIsOid ==
    ASSUME NEW o, SmallOid(o)
    PROVE  o \in Seq(Nat) /\ o \in Seq(Small) /\ Len(o) \in Nat /\ Len(o) <= MaxOids
<1>1. Len(o) \in Nat /\ Len(o) <= MaxOids
  BY MibAssumption, LenProperties DEF SmallOid
<1>2. o = [i \in 1 .. Len(o) |-> o[i]] /\ \A i \in 1 .. Len(o) : o[i] \in Nat
  BY HalfIsNat, LenProperties, ElementOfSeq DEF SmallOid
<1>3. o \in Seq(Nat)
  BY <1>1, <1>2
<1> QED BY <1>1, <1>3 DEF SmallOid

LEMMA MibFacts ==
    ASSUME MibOK
    PROVE  /\ Len(mib) \in Nat /\ DOMAIN mib = 1 .. Len(mib)
           /\ \A n \in 1 .. Len(mib) : SmallOid(mib[n]) /\ InTables(mib[n])
           /\ \A m, n \in 1 .. Len(mib) : m < n => Before(mib[m], mib[n])
<1>1. mib \in Seq(Seq(Small)) /\ Ascending(mib, Ordered)
      /\ \A i \in 1 .. Len(mib) : InTables(mib[i])
  BY MibEntries DEF MibOK
<1>2. Len(mib) \in Nat /\ DOMAIN mib = 1 .. Len(mib)
  BY <1>1, LenProperties
<1>3. \A n \in 1 .. Len(mib) : SmallOid(mib[n])
  BY <1>1, <1>2, ElementOfSeq DEF SmallOid, MibOK
<1>4. \A m, n \in 1 .. Len(mib) : m < n => Before(mib[m], mib[n])
  BY <1>1 DEF Ascending, Ordered
<1> QED BY <1>1, <1>2, <1>3, <1>4

LEMMA FindnextIsNext ==
    ASSUME MibOK, NEW o, SmallOid(o)
    PROVE  /\ MibFindnext(o) \in 1 .. Len(mib) + 1
           /\ \A n \in 1 .. Len(mib) : Less(o, mib[n]) <=> MibFindnext(o) <= n
<1> DEFINE found == {n \in DOMAIN mib : OidCmp(mib[n], o) > 0}
           K == MibFindnext(o)
<1>1. /\ Len(mib) \in Nat /\ DOMAIN mib = 1 .. Len(mib)
      /\ \A n \in 1 .. Len(mib) : SmallOid(mib[n])
      /\ \A m, n \in 1 .. Len(mib) : m < n => Before(mib[m], mib[n])
  BY MibFacts
<1>2. \A n \in 1 .. Len(mib) : n \in found <=> Less(o, mib[n])
  <2> SUFFICES ASSUME NEW n \in 1 .. Len(mib)
               PROVE  OidCmp(mib[n], o) > 0 <=> Less(o, mib[n])
    BY <1>1
  <2> QED BY <1>1, SmallIsOid, OidCmpIsOrder
<1>3. found \subseteq 1 .. Len(mib) /\ found \subseteq Nat
  BY <1>1
<1>4. K = IF found = {} THEN Len(mib) + 1 ELSE Least(found)
  BY DEF MibFindnext
<1> HIDE DEF found, K
<1>5. CASE found = {}
  BY <1>1, <1>2, <1>4, <1>5 DEF K
<1>6. CASE found # {}
  <2>1. K \in found /\ \A m \in found : K <= m
    BY <1>3, <1>4, <1>6, LeastIsLeast
  <2>2. K \in 1 .. Len(mib) /\ Less(o, mib[K])
    BY <1>2, <1>3, <2>1
  <2>3. ASSUME NEW n \in 1 .. Len(mib), K <= n
        PROVE  Less(o, mib[n])
    <3>1. CASE K = n
      BY <2>2, <3>1
    <3>2. CASE K < n
      <4>1. Before(mib[K], mib[n])
        BY <1>1, <2>2, <3>2
      <4>2. o \in Seq(Nat) /\ mib[K] \in Seq(Nat) /\ mib[n] \in Seq(Nat)
        BY <1>1, <2>2, SmallIsOid
      <4> QED BY <2>2, <4>1, <4>2, LessThenBefore
    <3> QED BY <1>1, <2>2, <2>3, <3>1, <3>2
  <2>4. \A n \in 1 .. Len(mib) : Less(o, mib[n]) => K <= n
    BY <1>2, <2>1
  <2> QED BY <1>1, <2>2, <2>3, <2>4 DEF K
<1> QED BY <1>5, <1>6

\* Among the entries the order of OIDs is the order of the table.
LEMMA EntriesInOrder ==
    ASSUME MibOK, NEW m \in 1 .. Len(mib), NEW n \in 1 .. Len(mib)
    PROVE  /\ Less(mib[m], mib[n]) <=> m < n
           /\ mib[m] = mib[n] => m = n
<1>1. /\ mib[m] \in Seq(Nat) /\ mib[n] \in Seq(Nat) /\ Len(mib) \in Nat
      /\ m < n => Before(mib[m], mib[n])
      /\ n < m => Before(mib[n], mib[m])
  BY MibFacts, SmallIsOid
<1>2. m < n => Less(mib[m], mib[n])
  BY <1>1 DEF Less
<1>3. n < m => Less(mib[n], mib[m]) /\ ~Less(mib[m], mib[n])
  BY <1>1, BeforeNotAfter DEF Less
<1>4. ~Less(mib[m], mib[m]) /\ ~Less(mib[n], mib[n])
  BY <1>1, LessIrreflexive
<1> QED BY <1>1, <1>2, <1>3, <1>4

LEMMA FindnextOfEntry ==
    ASSUME MibOK, NEW k \in 1 .. Len(mib)
    PROVE  MibFindnext(mib[k]) = k + 1
<1> DEFINE K == MibFindnext(mib[k])
<1>1. Len(mib) \in Nat /\ SmallOid(mib[k])
  BY MibFacts
<1>2. K \in 1 .. Len(mib) + 1 /\ \A n \in 1 .. Len(mib) : k < n <=> K <= n
  BY <1>1, FindnextIsNext, EntriesInOrder
<1> HIDE DEF K
<1>3. ~(K <= k) /\ (k + 1 <= Len(mib) => K <= k + 1)
  BY <1>1, <1>2
<1>4. K = k + 1
  BY <1>1, <1>2, <1>3
<1> QED BY <1>4 DEF K

LEMMA SegmentSize ==
    ASSUME NEW s, NEW a \in Nat, NEW b \in Nat, a <= b + 1,
           \A m, n \in a .. b : s[m] = s[n] => m = n
    PROVE  Cardinality({s[n] : n \in a .. b}) = b - a + 1
<1> DEFINE T == {s[n] : n \in a .. b}
           f == [n \in a .. b |-> s[n]]
<1>1. f \in Bijection(a .. b, T)
  BY DEF Bijection, Injection, Surjection, IsInjective
<1>2. ExistsBijection(a .. b, T)
  BY <1>1 DEF ExistsBijection
<1>3. IsFiniteSet(a .. b) /\ Cardinality(a .. b) = b - a + 1
  BY FS_Interval
<1> HIDE DEF T
<1>4. Cardinality(T) = b - a + 1
  BY <1>2, <1>3, FS_Bijection
<1> QED BY <1>4 DEF T

LEMMA RankIsFindnext ==
    ASSUME MibOK, NEW o, SmallOid(o)
    PROVE  /\ Cardinality(After(o)) = Len(mib) - MibFindnext(o) + 1
           /\ Rank(o) = MibFindnext(o) - 1
           /\ After(o) = {} <=> MibFindnext(o) = Len(mib) + 1
<1> DEFINE N == Len(mib)
           K == MibFindnext(o)
<1>1. N \in Nat /\ DOMAIN mib = 1 .. N /\ K \in 1 .. N + 1
  BY MibFacts, FindnextIsNext
<1>2. \A n \in 1 .. N : Less(o, mib[n]) <=> K <= n
  BY FindnextIsNext
<1>3. \A m, n \in 1 .. N : mib[m] = mib[n] => m = n
  BY EntriesInOrder
<1> HIDE DEF N, K
<1>4. Variables = {mib[n] : n \in 1 .. N}
  BY <1>1 DEF Variables
<1>5. After(o) = {mib[n] : n \in K .. N}
  <2>1. K .. N \subseteq 1 .. N
    BY <1>1
  <2>2. \A n \in 1 .. N : n \in K .. N <=> K <= n
    BY <1>1
  <2> QED BY <1>2, <1>4, <2>1, <2>2 DEF After
<1>6. Cardinality(Variables) = N - 1 + 1
  <2> DEFINE a == 1
  <2>1. a \in Nat /\ a <= N + 1
    BY <1>1
  <2>2. \A m, n \in a .. N : mib[m] = mib[n] => m = n
    BY <1>3
  <2> HIDE DEF a
  <2>3. Cardinality({mib[n] : n \in a .. N}) = N - a + 1
    BY <1>1, <2>1, <2>2, SegmentSize
  <2> QED BY <1>4, <2>3 DEF a
<1>7. Cardinality(After(o)) = N - K + 1
  <2>1. \A m, n \in K .. N : mib[m] = mib[n] => m = n
    BY <1>1, <1>3
  <2> QED BY <1>1, <1>5, <2>1, SegmentSize
<1>8. After(o) = {} <=> K = N + 1
  <2>1. K .. N = {} <=> K = N + 1
    BY <1>1
  <2> QED BY <1>5, <2>1
<1> QED BY <1>1, <1>6, <1>7, <1>8 DEF Rank, N, K

LEMMA PlaceMeans ==
    ASSUME MibOK, NEW o, SmallOid(o), NEW j \in Nat \ {0}
    PROVE  PlaceAfter(o, j) =
              IF MibFindnext(o) - 1 + j <= Len(mib) THEN Var(mib[MibFindnext(o) - 1 + j], "value")
              ELSE Var(IF MibFindnext(o) = Len(mib) + 1 THEN o ELSE mib[Len(mib)], "endOfMibView")
<1>1. Len(mib) \in Nat /\ MibFindnext(o) \in 1 .. Len(mib) + 1
  BY MibFacts, FindnextIsNext
<1>2. j <= Cardinality(After(o)) <=> MibFindnext(o) - 1 + j <= Len(mib)
  BY <1>1, RankIsFindnext
<1> QED BY <1>2, RankIsFindnext DEF PlaceAfter

\* GETNEXT of an OID finds the first place after it.
LEMMA NextIsFirstPlace ==
    ASSUME MibOK, NEW o, SmallOid(o)
    PROVE  NextVar(o) = PlaceAfter(o, 1)
<1>1. Len(mib) \in Nat /\ MibFindnext(o) \in 1 .. Len(mib) + 1
  BY MibFacts, FindnextIsNext
<1>2. PlaceAfter(o, 1) =
         IF MibFindnext(o) <= Len(mib) THEN Var(mib[MibFindnext(o)], "value")
         ELSE Var(IF MibFindnext(o) = Len(mib) + 1 THEN o ELSE mib[Len(mib)], "endOfMibView")
  <2>1. MibFindnext(o) - 1 + 1 = MibFindnext(o)
    BY <1>1
  <2> QED BY <2>1, PlaceMeans
<1> QED BY <1>1, <1>2 DEF NextVar

\* GETNEXT of what is at a place finds the next place.
LEMMA NextOfPlace ==
    ASSUME MibOK, NEW o, SmallOid(o), NEW j \in Nat \ {0}
    PROVE  /\ SmallOid(PlaceAfter(o, j).oid)
           /\ NextVar(PlaceAfter(o, j).oid) = PlaceAfter(o, j + 1)
<1> DEFINE N == Len(mib)
           K == MibFindnext(o)
<1>1. N \in Nat /\ K \in 1 .. N + 1 /\ \A n \in 1 .. N : SmallOid(mib[n])
  BY MibFacts, FindnextIsNext
<1>2. \A i \in Nat \ {0} : PlaceAfter(o, i) =
          IF K - 1 + i <= N THEN Var(mib[K - 1 + i], "value")
          ELSE Var(IF K = N + 1 THEN o ELSE mib[N], "endOfMibView")
  BY PlaceMeans
<1>3. \A n \in 1 .. N : NextVar(mib[n]) = IF n + 1 > N THEN Var(mib[n], "endOfMibView")
                                          ELSE Var(mib[n + 1], "value")
  BY FindnextOfEntry DEF NextVar
<1>4. K = N + 1 => NextVar(o) = Var(o, "endOfMibView")
  BY <1>1 DEF NextVar
<1> HIDE DEF N, K
<1>5. CASE K - 1 + j <= N
  <2>1. K - 1 + j \in 1 .. N
    BY <1>1, <1>5
  <2> DEFINE n == K - 1 + j
  <2>2. PlaceAfter(o, j).oid = mib[n]
    BY <1>2, <1>5 DEF Var
  <2>3. PlaceAfter(o, j + 1) = IF n + 1 <= N THEN Var(mib[n + 1], "value")
                               ELSE Var(IF K = N + 1 THEN o ELSE mib[N], "endOfMibView")
    <3>1. j + 1 \in Nat \ {0} /\ K - 1 + (j + 1) = n + 1
      BY <1>1
    <3> QED BY <1>2, <3>1
  <2>4. K # N + 1 /\ (~(n + 1 <= N) => n = N)
    BY <1>1, <1>5, <2>1
  <2> HIDE DEF n
  <2>5. n \in 1 .. N
    BY <2>1 DEF n
  <2> QED BY <1>1, <1>3, <2>2, <2>3, <2>4, <2>5
<1>6. CASE K - 1 + j > N
  <2>1. j + 1 \in Nat \ {0} /\ K - 1 + (j + 1) > N
    BY <1>1, <1>6
  <2>2. PlaceAfter(o, j) = Var(IF K = N + 1 THEN o ELSE mib[N], "endOfMibView")
    BY <1>1, <1>2, <1>6
  <2>3. PlaceAfter(o, j + 1) = Var(IF K = N + 1 THEN o ELSE mib[N], "endOfMibView")
    BY <1>1, <1>2, <2>1
  <2>4. PlaceAfter(o, j).oid = IF K = N + 1 THEN o ELSE mib[N]
    BY <2>2 DEF Var
  <2>5. CASE K = N + 1
    BY <1>4, <2>3, <2>4, <2>5
  <2>6. CASE K # N + 1
    <3>1. N \in 1 .. N /\ N + 1 > N
      BY <1>1, <2>6
    <3> QED BY <1>1, <1>3, <2>3, <2>4, <2>6, <3>1
  <2> QED BY <2>5, <2>6
<1> QED BY <1>1, <1>5, <1>6
-----------------------------------------------------------------------------
(* GET.                                                                      *)

\* mib_find looks for entries that begin with the OID.
Extends(v, o) == Len(o) <= Len(v) /\ \A j \in 1 .. Len(o) : v[j] = o[j]

LEMMA FrontMeans ==
    ASSUME NEW v \in Seq(Nat), NEW o \in Seq(Nat), Len(v) > 0
    PROVE  Front(v) = o <=> Len(v) = Len(o) + 1 /\ Extends(v, o)
<1>1. Len(v) \in Nat /\ Len(o) \in Nat
  BY LenProperties
<1>2. /\ Front(v) \in Seq(Nat) /\ Len(Front(v)) = Len(v) - 1
      /\ \A j \in 1 .. Len(v) - 1 : Front(v)[j] = v[j]
  <2>1. \A i \in 1 .. Len(v) - 1 : v[i] \in Nat
    BY <1>1, ElementOfSeq
  <2>2. 1 \in Int /\ Len(v) - 1 \in Int
    BY <1>1
  <2> DEFINE n == Len(v) - 1
             s == SubSeq(v, 1, n)
  <2> HIDE DEF n
  <2>3. /\ s \in Seq(Nat) /\ Len(s) = IF 1 <= n THEN n - 1 + 1 ELSE 0
        /\ \A i \in 1 .. n - 1 + 1 : s[i] = v[1 + i - 1]
    BY <2>1, <2>2, SubSeqProperties DEF n
  <2>4. n \in Nat
    BY <1>1 DEF n
  <2> HIDE DEF s
  <2>5. s \in Seq(Nat) /\ Len(s) = n /\ \A i \in 1 .. n : s[i] = v[i]
    BY <2>3, <2>4
  <2> QED BY <2>5 DEF Front, n, s
<1>3. ASSUME Front(v) = o
      PROVE  Len(v) = Len(o) + 1 /\ Extends(v, o)
  BY <1>1, <1>2, <1>3 DEF Extends
<1>4. ASSUME Len(v) = Len(o) + 1, Extends(v, o)
      PROVE  Front(v) = o
  <2>1. Len(Front(v)) = Len(o) /\ \A j \in 1 .. Len(o) : Front(v)[j] = o[j]
    BY <1>1, <1>2, <1>4 DEF Extends
  <2> QED BY <1>2, <2>1, SeqEqual
<1> QED BY <1>3, <1>4

\* An entry that begins with the OID of another entry is that entry.
LEMMA EntryStandsAlone ==
    ASSUME MibOK, NEW m \in 1 .. Len(mib), NEW n \in 1 .. Len(mib), Extends(mib[m], mib[n])
    PROVE  m = n
<1>1. /\ m < n => Before(mib[m], mib[n])
      /\ n < m => Before(mib[n], mib[m])
      /\ mib[m] \in Seq(Nat) /\ mib[n] \in Seq(Nat) /\ Len(mib) \in Nat
  BY MibFacts, SmallIsOid
<1>2. /\ \A j \in 1 .. Len(mib[m]) : mib[m][j] \in Nat
      /\ \A j \in 1 .. Len(mib[n]) : mib[n][j] \in Nat
      /\ Len(mib[m]) \in Nat /\ Len(mib[n]) \in Nat
  BY <1>1, LenProperties, ElementOfSeq
<1>3. ~Before(mib[m], mib[n])
  <2> SUFFICES ASSUME NEW i \in 1 .. Len(mib[m]), i <= Len(mib[n]), mib[m][i] < mib[n][i]
               PROVE  FALSE
    BY DEF Before
  <2>1. i \in 1 .. Len(mib[n])
    BY <1>2
  <2> QED BY <1>2, <2>1 DEF Extends
<1>4. ~Before(mib[n], mib[m])
  <2> SUFFICES ASSUME NEW i \in 1 .. Len(mib[n]), mib[n][i] < mib[m][i]
               PROVE  FALSE
    BY DEF Before
  <2> QED BY <1>2 DEF Extends
<1> QED BY <1>1, <1>3, <1>4

\* The entries that begin with the OID of a column are its rows.
LEMMA ColumnOfRows ==
    ASSUME MibOK, NEW o \in Seq(Nat), NEW m \in 1 .. Len(mib), NEW n \in 1 .. Len(mib),
           Extends(mib[m], o), Extends(mib[n], o), Len(mib[n]) = Len(o) + 1
    PROVE  Len(mib[m]) = Len(o) + 1
<1> DEFINE v == mib[n]
           w == mib[m]
<1>1. Len(o) \in Nat /\ InTables(v) /\ InTables(w)
  BY MibFacts, LenProperties
<1>2. PICK t \in 1 .. Len(Tables) : \E c, r \in Nat : EntryOf(v, Tables[t], c, r)
  BY <1>1 DEF InTables
<1>3. PICK u \in 1 .. Len(Tables) : \E c, r \in Nat : EntryOf(w, Tables[u], c, r)
  BY <1>1 DEF InTables
<1> DEFINE a == Tables[t].prefix
           b == Tables[u].prefix
<1>4. a \in Seq(Small) /\ b \in Seq(Small) /\ Len(a) \in Nat /\ Len(b) \in Nat
      /\ t \in Nat /\ u \in Nat
  BY TableFacts
<1>5. Len(v) = Len(a) + 2 /\ \A j \in 1 .. Len(a) : v[j] = a[j]
  BY <1>2 DEF EntryOf
<1>6. Len(w) = Len(b) + 2 /\ \A j \in 1 .. Len(b) : w[j] = b[j]
  BY <1>3 DEF EntryOf
<1>7. DOMAIN Tables = 1 .. Len(Tables)
  BY TablesAssumption, LenProperties
<1>8. (t < u => Before(a, b)) /\ (u < t => Before(b, a))
  <2>1. t \in DOMAIN Tables /\ u \in DOMAIN Tables
    BY <1>7
  <2> QED BY <2>1, TablesAssumption
<1>9. /\ \A j \in 1 .. Len(o) : v[j] = o[j] /\ w[j] = o[j]
      /\ Len(v) = Len(o) + 1
  BY DEF Extends
<1>10. \A j \in 1 .. Len(a) : a[j] \in Nat
  BY <1>4, HalfIsNat, ElementOfSeq
<1> HIDE DEF a, b, v, w
<1>11. \A j \in 1 .. Len(a) : j <= Len(b) => a[j] = b[j]
  <2> SUFFICES ASSUME NEW j \in 1 .. Len(a), j <= Len(b)
               PROVE  a[j] = b[j]
    OBVIOUS
  <2>1. j \in 1 .. Len(b) /\ j \in 1 .. Len(o)
    BY <1>1, <1>4, <1>5, <1>9
  <2> QED BY <1>5, <1>6, <1>9, <2>1
<1>12. ~Before(a, b)
  BY <1>10, <1>11 DEF Before
<1>13. ~Before(b, a)
  <2> SUFFICES ASSUME NEW j \in 1 .. Len(b), j <= Len(a), b[j] < a[j]
               PROVE  FALSE
    BY DEF Before
  <2>1. j \in 1 .. Len(a)
    BY <1>4
  <2> QED BY <1>4, <1>10, <1>11, <2>1
<1>14. t = u
  BY <1>4, <1>8, <1>12, <1>13
<1>15. Len(w) = Len(v)
  BY <1>5, <1>6, <1>14 DEF a, b
<1> QED BY <1>9, <1>15 DEF v, w

\* What GetIsExact says of one variable.
Got(o) == Var(o, IF o \in Variables THEN "value"
                 ELSE IF \E v \in Variables : Front(v) = o THEN "noSuchInstance"
                 ELSE "noSuchObject")

LEMMA GetVarIsExact ==
    ASSUME MibOK, NEW o \in Seq(Nat)
    PROVE  GetVar(o) = Got(o)
<1> DEFINE N == Len(mib)
           found == {n \in DOMAIN mib : IsPrefix(o, mib[n])}
           F == MibFind(o)
<1>1. /\ N \in Nat /\ DOMAIN mib = 1 .. N
      /\ \A n \in 1 .. N : mib[n] \in Seq(Nat) /\ Len(mib[n]) \in Nat
      /\ Len(o) \in Nat
  BY MibFacts, SmallIsOid, LenProperties
<1>2. \A n \in 1 .. N : n \in found <=> Extends(mib[n], o)
  BY <1>1, PrefixMeans DEF Extends
<1>3. \A n \in 1 .. N : Len(mib[n]) > 0
  <2> SUFFICES ASSUME NEW n \in 1 .. N
               PROVE  Len(mib[n]) > 0
    OBVIOUS
  <2>1. InTables(mib[n])
    BY MibFacts
  <2>2. PICK t \in 1 .. Len(Tables) : \E c, r \in Nat : EntryOf(mib[n], Tables[t], c, r)
    BY <2>1 DEF InTables
  <2>3. Len(mib[n]) = Len(Tables[t].prefix) + 2 /\ Len(Tables[t].prefix) \in Nat
    BY <2>2, TableFacts DEF EntryOf
  <2> QED BY <2>3
<1>4. \A n \in 1 .. N : Front(mib[n]) = o <=> Len(mib[n]) = Len(o) + 1 /\ Extends(mib[n], o)
  BY <1>1, <1>3, FrontMeans
<1>5. \A n \in 1 .. N : mib[n] = o => Extends(mib[n], o)
  BY <1>1 DEF Extends
<1>6. F = IF found = {} THEN N + 1 ELSE Least(found)
  BY DEF MibFind
<1>7. found \subseteq 1 .. N /\ found \subseteq Nat
  BY <1>1
<1>8. Variables = {mib[n] : n \in 1 .. N}
  BY <1>1 DEF Variables
<1> HIDE DEF F, found
<1>9. CASE found = {}
  <2>1. \A n \in 1 .. N : mib[n] # o /\ Front(mib[n]) # o
    BY <1>2, <1>4, <1>5, <1>9
  <2>2. o \notin Variables /\ ~\E v \in Variables : Front(v) = o
    BY <1>8, <2>1
  <2>3. F > N /\ ~(F <= N)
    BY <1>1, <1>6, <1>9
  <2>4. GetVar(o) = Var(o, "noSuchObject")
    BY <1>1, <2>3 DEF GetVar, F, N
  <2> QED BY <2>2, <2>4 DEF Got
<1>10. CASE found # {}
  <2>1. F \in found
    BY <1>6, <1>7, <1>10, LeastIsLeast
  <2>2. F \in 1 .. N /\ Extends(mib[F], o) /\ ~(F > N) /\ F <= N
    BY <1>1, <1>2, <1>7, <2>1
  <2>3. ASSUME o \in Variables
        PROVE  mib[F] = o
    <3>1. PICK n \in 1 .. N : mib[n] = o
      BY <1>8, <2>3
    <3>2. F = n
      BY <2>2, <3>1, EntryStandsAlone
    <3> QED BY <3>1, <3>2
  <2>4. ASSUME NEW v \in Variables, Front(v) = o
        PROVE  Len(mib[F]) = Len(o) + 1
    <3>1. PICK n \in 1 .. N : mib[n] = v
      BY <1>8, <2>4
    <3>2. Len(mib[n]) = Len(o) + 1 /\ Extends(mib[n], o)
      BY <1>4, <2>4, <3>1
    <3> QED BY <2>2, <3>2, ColumnOfRows
  <2>5. CASE Len(mib[F]) = Len(o) + 1
    <3>1. GetVar(o) = Var(o, "noSuchInstance")
      BY <1>1, <2>2, <2>5 DEF GetVar, F, N
    <3>2. o \notin Variables
      BY <1>1, <2>3, <2>5
    <3>3. mib[F] \in Variables /\ Front(mib[F]) = o
      BY <1>4, <1>8, <2>2, <2>5
    <3> QED BY <3>1, <3>2, <3>3 DEF Got
  <2>6. CASE Len(mib[F]) = Len(o)
    <3>1. GetVar(o) = Var(o, "value")
      BY <1>1, <2>2, <2>6 DEF GetVar, F, N
    <3>2. mib[F] = o
      <4>1. \A j \in 1 .. Len(o) : mib[F][j] = o[j]
        BY <2>2 DEF Extends
      <4>2. mib[F] \in Seq(Nat)
        BY <1>1, <2>2
      <4>3. \A j \in 1 .. Len(mib[F]) : mib[F][j] = o[j]
        BY <2>6, <4>1
      <4> DEFINE v == mib[F]
      <4> HIDE DEF v
      <4>4. v = o
        BY <2>6, <4>2, <4>3, SeqEqual DEF v
      <4> QED BY <4>4 DEF v
    <3>3. o \in Variables
      BY <1>8, <2>2, <3>2
    <3> QED BY <3>1, <3>3 DEF Got
  <2>7. CASE Len(mib[F]) # Len(o) /\ Len(mib[F]) # Len(o) + 1
    <3>1. GetVar(o) = Var(o, "noSuchObject")
      BY <1>1, <2>2, <2>7 DEF GetVar, F, N
    <3>2. o \notin Variables /\ ~\E v \in Variables : Front(v) = o
      BY <2>3, <2>4, <2>7
    <3> QED BY <3>1, <3>2 DEF Got
  <2> QED BY <2>5, <2>6, <2>7
<1> QED BY <1>9, <1>10
-----------------------------------------------------------------------------
(* The repetitions of GETBULK.                                               *)

FirstRound(oids) == [oids |-> oids, vars |-> <<>>, more |-> TRUE]

\* The function BulkRounds is defined by exists.
LEMMA RoundsFunction ==
    ASSUME NEW oids, NEW n \in Nat
    PROVE  \E f : f = [j \in 0 .. n |-> IF j = 0 THEN FirstRound(oids) ELSE NextRound(f[j - 1])]
<1> DEFINE Defined(m) == \E f : f = [j \in 0 .. m |-> IF j = 0 THEN FirstRound(oids)
                                                      ELSE NextRound(f[j - 1])]
           S == {m \in Nat : Defined(m)}
<1>1. 0 \in S
  <2> DEFINE f == [j \in 0 .. 0 |-> FirstRound(oids)]
  <2>1. f = [j \in 0 .. 0 |-> IF j = 0 THEN FirstRound(oids) ELSE NextRound(f[j - 1])]
    OBVIOUS
  <2>2. Defined(0)
    BY <2>1
  <2> HIDE DEF Defined
  <2> QED BY <2>2
<1>2. ASSUME NEW m \in Nat, m \in S
      PROVE  m + 1 \in S
  <2>1. PICK f : f = [j \in 0 .. m |-> IF j = 0 THEN FirstRound(oids) ELSE NextRound(f[j - 1])]
    BY <1>2
  <2> DEFINE last == NextRound(f[m])
             g    == [j \in 0 .. m + 1 |-> IF j = m + 1 THEN last ELSE f[j]]
  <2>2. ASSUME NEW j \in 0 .. m + 1
        PROVE  g[j] = IF j = 0 THEN FirstRound(oids) ELSE NextRound(g[j - 1])
    <3>1. CASE j = m + 1
      <4>1. g[j] = last /\ g[j - 1] = f[m] /\ j # 0
        BY <3>1
      <4> HIDE DEF g
      <4> QED BY <4>1
    <3>2. CASE j # m + 1
      <4>1. j \in 0 .. m /\ g[j] = f[j] /\ (j # 0 => g[j - 1] = f[j - 1])
        BY <3>2
      <4>2. f[j] = IF j = 0 THEN FirstRound(oids) ELSE NextRound(f[j - 1])
        BY <2>1, <4>1
      <4> HIDE DEF g
      <4> QED BY <4>1, <4>2
    <3> QED BY <3>1, <3>2
  <2>3. \A j \in 0 .. m + 1 : g[j] = IF j = 0 THEN FirstRound(oids) ELSE NextRound(g[j - 1])
    BY <2>2
  <2>4. g = [j \in 0 .. m + 1 |-> g[j]]
    OBVIOUS
  <2> HIDE DEF g
  <2>5. g = [j \in 0 .. m + 1 |-> IF j = 0 THEN FirstRound(oids) ELSE NextRound(g[j - 1])]
    BY <2>3, <2>4
  <2>6. Defined(m + 1)
    BY <2>5
  <2> HIDE DEF Defined
  <2> QED BY <2>6
<1>3. n \in S
  <2> HIDE DEF S
  <2> QED BY <1>1, <1>2, InductionOnNat
<1>4. Defined(n)
  <2> HIDE DEF Defined
  <2> QED BY <1>3
<1> QED BY <1>4

\* Induction over the repetitions: what holds of the first round, and passes from
\* each to the next, holds of the last.
LEMMA RoundsInduction ==
    ASSUME NEW oids, NEW most \in Nat, NEW S,
           <<0, FirstRound(oids)>> \in S,
           \A j \in Nat : \A r : j < most /\ <<j, r>> \in S => <<j + 1, NextRound(r)>> \in S
    PROVE  \E r : BulkRounds(oids, most) = r.vars /\ <<most, r>> \in S
<1> DEFINE f == CHOOSE f : f = [j \in 0 .. most |-> IF j = 0 THEN FirstRound(oids)
                                                    ELSE NextRound(f[j - 1])]
           T == {j \in Nat : j <= most => <<j, f[j]>> \in S}
<1>1. BulkRounds(oids, most) = f[most].vars
  BY DEF BulkRounds, FirstRound
<1>2. f = [j \in 0 .. most |-> IF j = 0 THEN FirstRound(oids) ELSE NextRound(f[j - 1])]
  BY RoundsFunction
<1> HIDE DEF f
<1>3. f[0] = FirstRound(oids) /\ 0 \in Nat
  BY <1>2
<1>4. ASSUME NEW j \in Nat, j + 1 <= most
      PROVE  f[j + 1] = NextRound(f[j])
  <2>1. j + 1 \in 0 .. most /\ j + 1 # 0 /\ (j + 1) - 1 = j
    BY <1>4
  <2> QED BY <1>2, <2>1
<1>5. 0 \in T
  BY <1>3
<1>6. ASSUME NEW j \in Nat, j \in T
      PROVE  j + 1 \in T
  <2>1. ASSUME j + 1 <= most
        PROVE  <<j + 1, f[j + 1]>> \in S
    <3>1. j < most /\ j <= most
      BY <2>1
    <3>2. <<j, f[j]>> \in S
      BY <1>6, <3>1
    <3>3. <<j + 1, NextRound(f[j])>> \in S
      BY <3>1, <3>2
    <3> QED BY <1>4, <2>1, <3>3
  <2> QED BY <2>1
<1>7. most \in T
  <2> HIDE DEF T
  <2> QED BY <1>5, <1>6, InductionOnNat
<1>8. <<most, f[most]>> \in S
  BY <1>7
<1> QED BY <1>1, <1>8
-----------------------------------------------------------------------------
(* The answers to any request: values are of variables of the table.         *)

Kinds   == {"value", "noSuchObject", "noSuchInstance", "endOfMibView", "null"}
Answers == {v \in [oid : Seq(Nat), kind : Kinds] : v.kind = "value" => v.oid \in Variables}

LEMMA OidsAreSequences == Oids \subseteq Seq(Nat)
<1> SUFFICES ASSUME NEW o \in Oids
             PROVE  o \in Seq(Nat)
  OBVIOUS
<1>1. SubidBase \in Nat /\ o \in Seq(0 .. SubidBase - 1) /\ Len(o) \in Nat
  BY MibAssumption, LenProperties DEF Oids
<1>2. o = [i \in 1 .. Len(o) |-> o[i]] /\ \A i \in 1 .. Len(o) : o[i] \in Nat
  BY <1>1, LenProperties, ElementOfSeq
<1> QED BY <1>1, <1>2

\* A sequence given by its entries.
LEMMA MapIsSequence ==
    ASSUME NEW S, NEW n \in Nat, NEW f, f = [i \in 1 .. n |-> f[i]],
           \A i \in 1 .. n : f[i] \in S
    PROVE  f \in Seq(S) /\ Len(f) = n /\ DOMAIN f = 1 .. n
  OBVIOUS

LEMMA RequestOids ==
    ASSUME NEW q \in Requests
    PROVE  /\ q.oids \in Seq(Oids) /\ Len(q.oids) \in Nat /\ DOMAIN q.oids = 1 .. Len(q.oids)
           /\ \A i \in 1 .. Len(q.oids) : q.oids[i] \in Seq(Nat) /\ q.oids[i] \in Oids
<1>1. q.oids \in Seq(Oids)
  BY DEF Requests
<1> QED BY <1>1, LenProperties, ElementOfSeq, OidsAreSequences

LEMMA NextVarType ==
    ASSUME MibOK, NEW o \in Seq(Nat)
    PROVE  NextVar(o) \in Answers
<1> DEFINE found == {n \in DOMAIN mib : OidCmp(mib[n], o) > 0}
           K == MibFindnext(o)
<1>1. /\ Len(mib) \in Nat /\ DOMAIN mib = 1 .. Len(mib)
      /\ \A n \in 1 .. Len(mib) : mib[n] \in Seq(Nat) /\ mib[n] \in Variables
  BY MibFacts, SmallIsOid DEF Variables
<1>2. K = IF found = {} THEN Len(mib) + 1 ELSE Least(found)
  BY DEF MibFindnext
<1>3. found \subseteq 1 .. Len(mib) /\ found \subseteq Nat
  BY <1>1
<1> HIDE DEF found, K
<1>4. K > Len(mib) \/ K \in 1 .. Len(mib)
  <2>1. CASE found = {}
    BY <1>1, <1>2, <2>1
  <2>2. CASE found # {}
    <3>1. K \in found
      BY <1>2, <1>3, <2>2, LeastIsLeast
    <3> QED BY <1>3, <3>1
  <2> QED BY <2>1, <2>2
<1>5. NextVar(o) = IF K > Len(mib) THEN Var(o, "endOfMibView") ELSE Var(mib[K], "value")
  BY DEF NextVar, K
<1>6. Var(o, "endOfMibView") \in Answers
  BY DEF Answers, Var, Kinds
<1>7. \A n \in 1 .. Len(mib) : Var(mib[n], "value") \in Answers
  BY <1>1 DEF Answers, Var, Kinds
<1> QED BY <1>4, <1>5, <1>6, <1>7

LEMMA GetVarType ==
    ASSUME MibOK, NEW o \in Seq(Nat)
    PROVE  GetVar(o) \in Answers
  BY GetVarIsExact DEF Got, Answers, Var, Kinds

\* One variable for each of a list of OIDs.
Nexts(oids) == [i \in DOMAIN oids |-> NextVar(oids[i])]

LEMMA NextsType ==
    ASSUME MibOK, NEW oids \in Seq(Seq(Nat))
    PROVE  /\ Nexts(oids) \in Seq(Answers) /\ Len(Nexts(oids)) = Len(oids)
           /\ DOMAIN Nexts(oids) = 1 .. Len(oids) /\ DOMAIN oids = 1 .. Len(oids)
           /\ Len(oids) \in Nat
           /\ \A i \in 1 .. Len(oids) : Nexts(oids)[i] = NextVar(oids[i])
<1>1. Len(oids) \in Nat /\ DOMAIN oids = 1 .. Len(oids)
      /\ \A i \in 1 .. Len(oids) : oids[i] \in Seq(Nat)
  BY LenProperties, ElementOfSeq
<1> DEFINE f == Nexts(oids)
<1>2. f = [i \in 1 .. Len(oids) |-> f[i]] /\ \A i \in 1 .. Len(oids) : f[i] = NextVar(oids[i])
  BY <1>1 DEF Nexts
<1>3. \A i \in 1 .. Len(oids) : f[i] \in Answers
  BY <1>1, <1>2, NextVarType
<1> HIDE DEF f
<1>4. f \in Seq(Answers) /\ Len(f) = Len(oids) /\ DOMAIN f = 1 .. Len(oids)
  BY <1>1, <1>2, <1>3, MapIsSequence
<1> QED BY <1>1, <1>2, <1>4 DEF f

\* The OIDs the next repetition starts from.
OidsOf(vs) == [i \in DOMAIN vs |-> vs[i].oid]

LEMMA OidsOfType ==
    ASSUME NEW vs \in Seq(Answers)
    PROVE  /\ OidsOf(vs) \in Seq(Seq(Nat)) /\ Len(OidsOf(vs)) = Len(vs)
           /\ \A i \in 1 .. Len(vs) : OidsOf(vs)[i] = vs[i].oid
<1>1. Len(vs) \in Nat /\ DOMAIN vs = 1 .. Len(vs) /\ \A i \in 1 .. Len(vs) : vs[i] \in Answers
  BY LenProperties, ElementOfSeq
<1> DEFINE f == OidsOf(vs)
<1>2. f = [i \in 1 .. Len(vs) |-> f[i]] /\ \A i \in 1 .. Len(vs) : f[i] = vs[i].oid
  BY <1>1 DEF OidsOf
<1>3. \A i \in 1 .. Len(vs) : f[i] \in Seq(Nat)
  BY <1>1, <1>2 DEF Answers
<1> HIDE DEF f
<1>4. f \in Seq(Seq(Nat)) /\ Len(f) = Len(vs) /\ DOMAIN f = 1 .. Len(vs)
  BY <1>1, <1>2, <1>3, MapIsSequence
<1> QED BY <1>2, <1>4 DEF f

LEMMA NextRoundMeans ==
    ASSUME NEW r
    PROVE  NextRound(r) = IF ~r.more THEN r
                          ELSE [oids |-> OidsOf(Nexts(r.oids)),
                                vars |-> r.vars \o Nexts(r.oids),
                                more |-> \E i \in DOMAIN Nexts(r.oids) :
                                            Nexts(r.oids)[i].kind = "value"]
  BY DEF NextRound, Nexts, OidsOf

Rounds == [oids : Seq(Seq(Nat)), vars : Seq(Answers), more : BOOLEAN]

LEMMA FirstRoundType ==
    ASSUME NEW oids \in Seq(Seq(Nat))
    PROVE  FirstRound(oids) \in Rounds
<1>1. <<>> \in Seq(Answers)
  BY EmptySeq
<1> QED BY <1>1 DEF FirstRound, Rounds

LEMMA NextRoundType ==
    ASSUME MibOK, NEW r \in Rounds
    PROVE  NextRound(r) \in Rounds
<1>1. r.oids \in Seq(Seq(Nat)) /\ r.vars \in Seq(Answers)
  BY DEF Rounds
<1>2. Nexts(r.oids) \in Seq(Answers)
  BY <1>1, NextsType
<1>3. OidsOf(Nexts(r.oids)) \in Seq(Seq(Nat)) /\ r.vars \o Nexts(r.oids) \in Seq(Answers)
  BY <1>1, <1>2, OidsOfType, ConcatProperties
<1> QED BY <1>3, NextRoundMeans DEF Rounds

LEMMA BulkRoundsType ==
    ASSUME MibOK, NEW oids \in Seq(Seq(Nat)), NEW most \in Nat
    PROVE  BulkRounds(oids, most) \in Seq(Answers)
<1> DEFINE S == Nat \X Rounds
<1>1. <<0, FirstRound(oids)>> \in S
  BY FirstRoundType
<1>2. \A j \in Nat : \A r : j < most /\ <<j, r>> \in S => <<j + 1, NextRound(r)>> \in S
  BY NextRoundType
<1>3. \E r : BulkRounds(oids, most) = r.vars /\ <<most, r>> \in S
  <2> HIDE DEF S
  <2> QED BY <1>1, <1>2, RoundsInduction
<1> QED BY <1>3 DEF Rounds

-----------------------------------------------------------------------------
(* GETBULK is GETNEXT repeated.                                              *)

Depth(o) == Cardinality(After(o)) + 1

\* D repetitions take the deepest of the OIDs past the end of the table.
Deepest(rep, D) == /\ D \in Nat
                   /\ \A i \in 1 .. Len(rep) : Depth(rep[i]) \in Nat /\ Depth(rep[i]) <= D
                   /\ \E i \in 1 .. Len(rep) : Depth(rep[i]) = D

\* What m repetitions have made of the OIDs.
RoundIs(r, rep, D, m) ==
    /\ r.oids \in Seq(Seq(Nat)) /\ Len(r.oids) = Len(rep)
    /\ \A i \in 1 .. Len(rep) : r.oids[i] = IF m = 0 THEN rep[i] ELSE PlaceAfter(rep[i], m).oid
    /\ r.vars \in Seq(Answers) /\ Len(r.vars) = m * Len(rep)
    /\ \A l \in 1 .. m, i \in 1 .. Len(rep) :
          r.vars[(l - 1) * Len(rep) + i] = PlaceAfter(rep[i], l)
    /\ r.more \in BOOLEAN /\ (r.more <=> m < D)

LEMMA PlaceInRounds ==
    ASSUME NEW L \in Nat, NEW m \in Nat, NEW l \in 1 .. m, NEW i \in 1 .. L
    PROVE  (l - 1) * L + i \in 1 .. m * L /\ m * L \in Nat
<1>1. (m - l) * L \in Nat /\ (l - 1) * L \in Nat /\ m * L \in Nat
  <2>1. m - l \in Nat /\ l - 1 \in Nat
    OBVIOUS
  <2> QED BY <2>1
<1>2. m * L = (m - l) * L + (l - 1) * L + L
  OBVIOUS
<1> DEFINE a == (m - l) * L
           b == (l - 1) * L
           c == m * L
<1>3. a \in Nat /\ b \in Nat /\ c \in Nat /\ c = a + b + L
  BY <1>1, <1>2
<1> HIDE DEF a, b, c
<1>4. b + i \in 1 .. c
  BY <1>3
<1> QED BY <1>3, <1>4 DEF b, c

LEMMA DepthMeans ==
    ASSUME MibOK, NEW o, SmallOid(o), NEW m \in Nat
    PROVE  /\ Depth(o) \in Nat /\ Depth(o) > 0
           /\ PlaceAfter(o, m + 1).kind = "value" <=> m + 1 < Depth(o)
<1>1. Len(mib) \in Nat /\ MibFindnext(o) \in 1 .. Len(mib) + 1
      /\ Cardinality(After(o)) = Len(mib) - MibFindnext(o) + 1
  BY MibFacts, FindnextIsNext, RankIsFindnext
<1>2. Depth(o) \in Nat /\ Depth(o) > 0 /\ (m + 1 <= Cardinality(After(o)) <=> m + 1 < Depth(o))
  BY <1>1 DEF Depth
<1>3. PlaceAfter(o, m + 1).kind = IF m + 1 <= Cardinality(After(o)) THEN "value"
                                  ELSE "endOfMibView"
  BY DEF PlaceAfter, Var
<1> QED BY <1>2, <1>3

LEMMA DeepestExists ==
    ASSUME MibOK, NEW rep \in Seq(Seq(Nat)), Len(rep) > 0,
           \A i \in 1 .. Len(rep) : SmallOid(rep[i])
    PROVE  \E D : Deepest(rep, D)
<1> DEFINE N == Len(mib) + 1
           S == {N - Depth(rep[i]) : i \in 1 .. Len(rep)}
<1>1. Len(rep) \in Nat /\ N \in Nat
  BY MibFacts, LenProperties
<1>2. ASSUME NEW i \in 1 .. Len(rep)
      PROVE  Depth(rep[i]) \in Nat /\ N - Depth(rep[i]) \in Nat
  <2>1. MibFindnext(rep[i]) \in 1 .. Len(mib) + 1
        /\ Cardinality(After(rep[i])) = Len(mib) - MibFindnext(rep[i]) + 1
    BY FindnextIsNext, RankIsFindnext
  <2> QED BY <1>1, <2>1 DEF Depth
<1> HIDE DEF N
<1>3. S \subseteq Nat
  BY <1>2
<1>4. S # {}
  <2>1. 1 \in 1 .. Len(rep)
    BY <1>1
  <2> QED BY <2>1
<1>5. \E n \in S : \A m \in S : n <= m
  <2> HIDE DEF S
  <2> QED BY <1>3, <1>4, LeastNatural
<1>6. PICK k \in 1 .. Len(rep) : \A m \in S : N - Depth(rep[k]) <= m
  BY <1>5
<1>7. \A i \in 1 .. Len(rep) : N - Depth(rep[k]) <= N - Depth(rep[i])
  BY <1>6
<1>8. \A i \in 1 .. Len(rep) : Depth(rep[i]) <= Depth(rep[k])
  BY <1>1, <1>2, <1>7
<1>9. Deepest(rep, Depth(rep[k]))
  BY <1>2, <1>8 DEF Deepest
<1> QED BY <1>9

\* One repetition.
LEMMA RoundStep ==
    ASSUME MibOK, NEW rep \in Seq(Seq(Nat)), Len(rep) > 0,
           \A i \in 1 .. Len(rep) : SmallOid(rep[i]),
           NEW D, Deepest(rep, D), NEW m \in Nat, m < D, NEW r, RoundIs(r, rep, D, m)
    PROVE  RoundIs(NextRound(r), rep, D, m + 1)
<1> DEFINE L  == Len(rep)
           vs == Nexts(r.oids)
           s  == NextRound(r)
<1>1. L \in Nat /\ L > 0 /\ D \in Nat /\ r.oids \in Seq(Seq(Nat)) /\ Len(r.oids) = L
      /\ r.vars \in Seq(Answers) /\ Len(r.vars) = m * L /\ m * L \in Nat
  <2>1. Len(r.vars) \in Nat
    BY LenProperties DEF RoundIs
  <2> QED BY <2>1, LenProperties DEF RoundIs, Deepest
<1>2. /\ vs \in Seq(Answers) /\ Len(vs) = L /\ DOMAIN vs = 1 .. L
      /\ \A i \in 1 .. L : vs[i] = NextVar(r.oids[i])
  BY <1>1, NextsType
<1>3. ASSUME NEW i \in 1 .. L
      PROVE  vs[i] = PlaceAfter(rep[i], m + 1)
  <2>1. CASE m = 0
    <3>1. r.oids[i] = rep[i]
      BY <2>1 DEF RoundIs
    <3> QED BY <1>2, <2>1, <3>1, NextIsFirstPlace
  <2>2. CASE m # 0
    <3>1. r.oids[i] = PlaceAfter(rep[i], m).oid /\ m \in Nat \ {0}
      BY <2>2 DEF RoundIs
    <3> QED BY <1>2, <3>1, NextOfPlace
  <2> QED BY <2>1, <2>2
<1>4. r.more
  BY DEF RoundIs
<1>5. s = [oids |-> OidsOf(vs), vars |-> r.vars \o vs,
           more |-> \E i \in DOMAIN vs : vs[i].kind = "value"]
  BY <1>4, NextRoundMeans
<1> HIDE DEF vs, s, L
<1>6. s.oids = OidsOf(vs) /\ s.vars = r.vars \o vs
      /\ s.more = (\E i \in DOMAIN vs : vs[i].kind = "value")
  BY <1>5
<1>7. /\ s.oids \in Seq(Seq(Nat)) /\ Len(s.oids) = L
      /\ \A i \in 1 .. L : s.oids[i] = PlaceAfter(rep[i], m + 1).oid
  BY <1>2, <1>3, <1>6, OidsOfType
<1>8. /\ s.vars \in Seq(Answers) /\ Len(s.vars) = m * L + L
      /\ \A i \in 1 .. m * L : s.vars[i] = r.vars[i]
      /\ \A i \in 1 .. L : s.vars[m * L + i] = vs[i]
  <2> DEFINE a == r.vars
             t == a \o vs
  <2>1. a \in Seq(Answers) /\ vs \in Seq(Answers)
    BY <1>1, <1>2
  <2>2. s.vars = t /\ Len(a) = m * L /\ Len(vs) = L
    BY <1>1, <1>2, <1>6
  <2> HIDE DEF a
  <2>3. /\ t \in Seq(Answers) /\ Len(t) = Len(a) + Len(vs)
        /\ \A i \in 1 .. Len(a) : t[i] = a[i]
        /\ \A i \in 1 .. Len(vs) : t[Len(a) + i] = vs[i]
    BY <2>1, ConcatElements
  <2> HIDE DEF t
  <2> QED BY <2>2, <2>3 DEF a
<1>9. ASSUME NEW l \in 1 .. m + 1, NEW i \in 1 .. L
      PROVE  s.vars[(l - 1) * L + i] = PlaceAfter(rep[i], l)
  <2>1. CASE l = m + 1
    <3>1. l - 1 = m
      BY <2>1
    <3> QED BY <1>3, <1>8, <2>1, <3>1
  <2>2. CASE l # m + 1
    <3>1. l \in 1 .. m
      BY <2>2
    <3>2. (l - 1) * L + i \in 1 .. m * L
      BY <1>1, <3>1, PlaceInRounds
    <3>3. r.vars[(l - 1) * L + i] = PlaceAfter(rep[i], l)
      BY <3>1 DEF RoundIs, L
    <3> QED BY <1>8, <3>2, <3>3
  <2> QED BY <2>1, <2>2
<1>10. Len(s.vars) = (m + 1) * L
  <2>1. (m + 1) * L = m * L + L
    BY <1>1
  <2> QED BY <1>8, <2>1
<1>11. s.more \in BOOLEAN /\ (s.more <=> m + 1 < D)
  <2>1. \A i \in 1 .. L : Depth(rep[i]) \in Nat /\ Depth(rep[i]) <= D
           /\ (vs[i].kind = "value" <=> m + 1 < Depth(rep[i]))
    BY <1>3, DepthMeans DEF Deepest, L
  <2>2. \E i \in 1 .. L : Depth(rep[i]) = D
    BY DEF Deepest, L
  <2>3. ASSUME NEW i \in 1 .. L, vs[i].kind = "value"
        PROVE  m + 1 < D
    <3>1. Depth(rep[i]) \in Nat /\ Depth(rep[i]) <= D /\ m + 1 < Depth(rep[i])
      BY <2>1, <2>3
    <3> QED BY <1>1, <3>1
  <2>4. m + 1 < D => \E i \in 1 .. L : vs[i].kind = "value"
    BY <2>1, <2>2
  <2> QED BY <1>2, <1>6, <2>3, <2>4
<1>12. m + 1 # 0
  OBVIOUS
<1> QED BY <1>7, <1>8, <1>9, <1>10, <1>11, <1>12 DEF RoundIs, L, s
Fewer(m, n) == IF m <= n THEN m ELSE n

LEMMA BulkRoundsAre ==
    ASSUME MibOK, NEW rep \in Seq(Seq(Nat)), Len(rep) > 0,
           \A i \in 1 .. Len(rep) : SmallOid(rep[i]),
           NEW D, Deepest(rep, D), NEW most \in Nat
    PROVE  \E r : BulkRounds(rep, most) = r.vars /\ RoundIs(r, rep, D, Fewer(most, D))
<1> DEFINE S == {p \in Nat \X Rounds : RoundIs(p[2], rep, D, Fewer(p[1], D))}
<1>1. D \in Nat /\ D > 0 /\ Len(rep) \in Nat /\ DOMAIN rep = 1 .. Len(rep)
  <2>1. PICK i \in 1 .. Len(rep) : Depth(rep[i]) = D
    BY DEF Deepest
  <2>2. 0 \in Nat
    OBVIOUS
  <2>3. Depth(rep[i]) > 0
    BY <2>2, DepthMeans
  <2> QED BY <2>1, <2>3, LenProperties DEF Deepest
<1>2. RoundIs(FirstRound(rep), rep, D, 0)
  <2>1. <<>> \in Seq(Answers) /\ Len(<<>>) = 0 /\ 0 * Len(rep) = 0
    BY <1>1, EmptySeq
  <2> QED BY <1>1, <2>1 DEF RoundIs, FirstRound
<1>3. <<0, FirstRound(rep)>> \in S
  <2>1. Fewer(0, D) = 0
    BY <1>1 DEF Fewer
  <2> QED BY <1>2, <2>1, FirstRoundType
<1>4. ASSUME NEW j \in Nat, NEW r \in Rounds, RoundIs(r, rep, D, Fewer(j, D))
      PROVE  RoundIs(NextRound(r), rep, D, Fewer(j + 1, D))
  <2>1. CASE j < D
    <3>1. Fewer(j, D) = j /\ Fewer(j + 1, D) = j + 1
      BY <1>1, <2>1 DEF Fewer
    <3> QED BY <1>4, <2>1, <3>1, RoundStep
  <2>2. CASE j >= D
    <3>1. Fewer(j, D) = D /\ Fewer(j + 1, D) = D /\ ~(D < D)
      BY <1>1, <2>2 DEF Fewer
    <3>2. ~r.more
      BY <1>4, <3>1 DEF RoundIs
    <3>3. NextRound(r) = r
      BY <3>2, NextRoundMeans
    <3> QED BY <1>4, <3>1, <3>3
  <2> QED BY <1>1, <2>1, <2>2
<1>5. \A j \in Nat : \A r : j < most /\ <<j, r>> \in S => <<j + 1, NextRound(r)>> \in S
  <2> SUFFICES ASSUME NEW j \in Nat, NEW r, <<j, r>> \in S
               PROVE  <<j + 1, NextRound(r)>> \in S
    OBVIOUS
  <2>1. r \in Rounds /\ RoundIs(r, rep, D, Fewer(j, D))
    OBVIOUS
  <2>2. RoundIs(NextRound(r), rep, D, Fewer(j + 1, D)) /\ NextRound(r) \in Rounds
    BY <1>4, <2>1, NextRoundType
  <2> QED BY <2>2
<1>6. \E r : BulkRounds(rep, most) = r.vars /\ <<most, r>> \in S
  <2> HIDE DEF S
  <2> QED BY <1>3, <1>5, RoundsInduction
<1> QED BY <1>6

LEMMA BulkOfNothing ==
    ASSUME MibOK, NEW most \in Nat
    PROVE  BulkRounds(<<>>, most) = <<>>
<1> DEFINE S == {p \in Nat \X Rounds : p[2].oids = <<>> /\ p[2].vars = <<>>}
<1>1. <<0, FirstRound(<<>>)>> \in S
  <2>1. <<>> \in Seq(Seq(Nat))
    BY EmptySeq
  <2>2. FirstRound(<<>>).oids = <<>> /\ FirstRound(<<>>).vars = <<>>
    BY DEF FirstRound
  <2> QED BY <2>1, <2>2, FirstRoundType
<1>2. ASSUME NEW r \in Rounds, r.oids = <<>>, r.vars = <<>>
      PROVE  NextRound(r).oids = <<>> /\ NextRound(r).vars = <<>> /\ NextRound(r) \in Rounds
  <2>1. Nexts(<<>>) \in Seq(Answers) /\ Len(Nexts(<<>>)) = 0
    BY NextsType, EmptySeq
  <2>2. Nexts(<<>>) = <<>>
    BY <2>1, EmptySeq
  <2>3. <<>> \in Seq(Answers)
    BY EmptySeq
  <2>4. OidsOf(<<>>) \in Seq(Seq(Nat)) /\ Len(OidsOf(<<>>)) = 0
    BY <2>3, OidsOfType, EmptySeq
  <2>5. OidsOf(<<>>) = <<>> /\ <<>> \o <<>> = <<>>
    BY <2>4, EmptySeq
  <2>6. CASE r.more
    <3>1. NextRound(r).oids = OidsOf(Nexts(r.oids)) /\ NextRound(r).vars = r.vars \o Nexts(r.oids)
      BY <2>6, NextRoundMeans
    <3> QED BY <1>2, <2>2, <2>5, <3>1, NextRoundType
  <2>7. CASE ~r.more
    BY <1>2, <2>7, NextRoundMeans
  <2> QED BY <2>6, <2>7
<1>3. \A j \in Nat : \A r : j < most /\ <<j, r>> \in S => <<j + 1, NextRound(r)>> \in S
  BY <1>2
<1>4. \E r : BulkRounds(<<>>, most) = r.vars /\ <<most, r>> \in S
  <2> HIDE DEF S
  <2> QED BY <1>1, <1>3, RoundsInduction
<1> QED BY <1>4
-----------------------------------------------------------------------------
(* The handlers.                                                             *)

SmallRequest(q) == \A i \in 1 .. Len(q.oids) : SmallOid(q.oids[i])

\* r is an answer to q with values.
Ok(q, r, type) == r.kind = "response" /\ r.status = "ok" /\ q.type = type

\* GetIsExact, NextIsSuccessor and BulkIsRepeatedNext of a request and an answer.
GetExact(q, r)  == Ok(q, r, "get") => \A i \in DOMAIN q.oids : r.vars[i] = Got(q.oids[i])
NextExact(q, r) == Ok(q, r, "getnext") =>
                      \A i \in DOMAIN q.oids : r.vars[i] = PlaceAfter(q.oids[i], 1)
BulkPlaces(q, r, deep) ==
    LET once == Once(q)  rep == Repeated(q)
        most == AtLeastZero(q.maxrep)
        rounds == IF rep = <<>> THEN 0
                  ELSE Least({most} \cup {d \in deep : \A e \in deep : e <= d})
    IN  /\ Len(r.vars) = Len(once) + rounds * Len(rep)
        /\ \A i \in DOMAIN once : r.vars[i] = PlaceAfter(once[i], 1)
        /\ \A j \in 1 .. rounds, i \in DOMAIN rep :
              r.vars[Len(once) + (j - 1) * Len(rep) + i] = PlaceAfter(rep[i], j)
BulkExact(q, r) ==
    Ok(q, r, "getbulk") =>
        BulkPlaces(q, r, {Depth(Repeated(q)[i]) : i \in DOMAIN Repeated(q)})

LEMMA GetsType ==
    ASSUME MibOK, NEW q \in Requests
    PROVE  [i \in DOMAIN q.oids |-> GetVar(q.oids[i])] \in Seq(Answers)
<1> DEFINE f == [i \in DOMAIN q.oids |-> GetVar(q.oids[i])]
<1>1. /\ f = [i \in 1 .. Len(q.oids) |-> f[i]] /\ Len(q.oids) \in Nat
      /\ \A i \in 1 .. Len(q.oids) : f[i] = GetVar(q.oids[i]) /\ q.oids[i] \in Seq(Nat)
  BY RequestOids
<1>2. \A i \in 1 .. Len(q.oids) : f[i] \in Answers
  BY <1>1, GetVarType
<1> HIDE DEF f
<1>3. f \in Seq(Answers)
  BY <1>1, <1>2, MapIsSequence
<1> QED BY <1>3 DEF f

LEMMA RequestSequence ==
    ASSUME NEW q \in Requests
    PROVE  q.oids \in Seq(Seq(Nat))
<1>1. q.oids = [i \in 1 .. Len(q.oids) |-> q.oids[i]] /\ Len(q.oids) \in Nat
  BY RequestOids, LenProperties
<1> QED BY <1>1, RequestOids, MapIsSequence

LEMMA FailureType ==
    ASSUME NEW q \in Requests, NEW status, NEW index
    PROVE  /\ Failure(q, status, index).kind = "response"
           /\ Failure(q, status, index).status = status
           /\ Failure(q, status, index).vars \in Seq(Answers)
<1> DEFINE f == [i \in DOMAIN q.oids |-> Var(q.oids[i], "null")]
<1>1. /\ f = [i \in 1 .. Len(q.oids) |-> f[i]] /\ Len(q.oids) \in Nat
      /\ \A i \in 1 .. Len(q.oids) : f[i] \in Answers
  BY RequestOids DEF Answers, Var, Kinds
<1> HIDE DEF f
<1>2. f \in Seq(Answers)
  BY <1>1, MapIsSequence
<1> QED BY <1>2 DEF Failure, f

LEMMA SuccessMeans ==
    ASSUME NEW vs
    PROVE  /\ Success(vs).kind \in {"refused", "response"}
           /\ Success(vs).kind = "response" => Success(vs).vars = vs /\ Success(vs).status = "ok"
           /\ Len(vs) <= MaxValues /\ Len(vs) <= PacketRoom /\ Len(vs) \in Nat =>
                 Success(vs).kind = "response"
<1>1. Success(vs) = Refused \/ Success(vs) = [kind |-> "response", status |-> "ok",
                                              index |-> 0, vars |-> vs]
  BY DEF Success
<1>2. Len(vs) <= MaxValues /\ Len(vs) <= PacketRoom /\ Len(vs) \in Nat =>
         Success(vs) = [kind |-> "response", status |-> "ok", index |-> 0, vars |-> vs]
  BY MibAssumption DEF Success
<1> QED BY <1>1, <1>2 DEF Refused

LEMMA EachMeans ==
    ASSUME NEW q \in Requests, NEW vs \in Seq(Answers)
    PROVE  /\ Each(q, vs).kind \in {"refused", "response"}
           /\ Each(q, vs).kind = "response" => Each(q, vs).vars \in Seq(Answers)
           /\ Each(q, vs).kind = "response" /\ Each(q, vs).status = "ok" => Each(q, vs).vars = vs
           /\ q.version = 2 => Each(q, vs) = Success(vs)
<1>1. \/ Each(q, vs) = Success(vs)
      \/ q.version # 2 /\ \E index : Each(q, vs) = Failure(q, "noSuchName", index)
  <2> DEFINE bad   == {i \in DOMAIN vs : vs[i].kind # "value"}
             index == Least(bad) - 1
  <2>1. CASE q.version = 1 /\ bad # {}
    <3>1. Each(q, vs) = Failure(q, "noSuchName", index)
      BY <2>1, Zenon DEF Each
    <3> HIDE DEF index, bad
    <3> QED BY <2>1, <3>1
  <2>2. CASE ~(q.version = 1 /\ bad # {})
    BY <2>2, Zenon DEF Each
  <2> QED BY <2>1, <2>2
<1>2. ASSUME Each(q, vs) = Success(vs)
      PROVE  /\ Each(q, vs).kind \in {"refused", "response"}
             /\ Each(q, vs).kind = "response" => Each(q, vs).vars = vs
  BY <1>2, SuccessMeans
<1>3. ASSUME NEW index, Each(q, vs) = Failure(q, "noSuchName", index)
      PROVE  /\ Each(q, vs).kind = "response" /\ Each(q, vs).status # "ok"
             /\ Each(q, vs).vars \in Seq(Answers)
  BY <1>3, FailureType
<1> QED BY <1>1, <1>2, <1>3

\* The OIDs that are asked for once and those that are repeated.
LEMMA OnceAndRepeated ==
    ASSUME NEW q \in Requests
    PROVE  /\ Once(q) \in Seq(Seq(Nat)) /\ Len(Once(q)) \in 0 .. Len(q.oids)
           /\ DOMAIN Once(q) = 1 .. Len(Once(q))
           /\ \A i \in 1 .. Len(Once(q)) : i \in 1 .. Len(q.oids) /\ Once(q)[i] = q.oids[i]
           /\ Repeated(q) \in Seq(Seq(Nat)) /\ Len(Repeated(q)) = Len(q.oids) - Len(Once(q))
           /\ DOMAIN Repeated(q) = 1 .. Len(Repeated(q)) /\ Len(Repeated(q)) \in Nat
           /\ \A i \in 1 .. Len(Repeated(q)) : /\ Len(Once(q)) + i \in 1 .. Len(q.oids)
                                               /\ Repeated(q)[i] = q.oids[Len(Once(q)) + i]
<1> DEFINE n == IF q.nonrep < Len(q.oids) THEN AtLeastZero(q.nonrep) ELSE Len(q.oids)
           L == Len(q.oids)
<1>1. q.oids \in Seq(Seq(Nat)) /\ L \in Nat /\ q.nonrep \in Int
  BY RequestSequence, RequestOids DEF Requests
<1>2. n \in 0 .. L
  BY <1>1 DEF AtLeastZero
<1>3. Once(q) = SubSeq(q.oids, 1, n)
  BY DEF Once
<1> HIDE DEF n
<1>4. \A i \in 1 .. L : q.oids[i] \in Seq(Nat)
  BY RequestOids
<1> DEFINE s == q.oids
<1> HIDE DEF L, s
<1>5. /\ SubSeq(s, 1, n) \in Seq(Seq(Nat))
      /\ Len(SubSeq(s, 1, n)) = IF 1 <= n THEN n - 1 + 1 ELSE 0
      /\ \A i \in 1 .. n - 1 + 1 : SubSeq(s, 1, n)[i] = s[1 + i - 1]
  <2>1. \A i \in 1 .. n : s[i] \in Seq(Nat)
    BY <1>1, <1>2, <1>4 DEF s
  <2>2. 1 \in Int /\ n \in Int
    BY <1>2
  <2> QED BY <2>1, <2>2, SubSeqProperties
<1> DEFINE once == Once(q)
           rep  == Repeated(q)
<1>6. /\ once \in Seq(Seq(Nat)) /\ Len(once) = n
      /\ \A i \in 1 .. n : i \in 1 .. L /\ once[i] = s[i]
  <2> DEFINE t == SubSeq(s, 1, n)
  <2> HIDE DEF t
  <2>1. t \in Seq(Seq(Nat)) /\ Len(t) = n /\ \A i \in 1 .. n : i \in 1 .. L /\ t[i] = s[i]
    BY <1>1, <1>2, <1>5 DEF t
  <2> QED BY <1>3, <2>1 DEF s, t
<1>7. rep = SubSeq(s, n + 1, L)
  BY <1>6 DEF Repeated, s, L
<1>8. /\ SubSeq(s, n + 1, L) \in Seq(Seq(Nat))
      /\ Len(SubSeq(s, n + 1, L)) = IF n + 1 <= L THEN L - (n + 1) + 1 ELSE 0
      /\ \A i \in 1 .. L - (n + 1) + 1 : SubSeq(s, n + 1, L)[i] = s[n + 1 + i - 1]
  <2>1. \A i \in n + 1 .. L : s[i] \in Seq(Nat)
    BY <1>1, <1>2, <1>4 DEF s
  <2>2. n + 1 \in Int /\ L \in Int
    BY <1>1, <1>2
  <2> QED BY <2>1, <2>2, SubSeqProperties
<1>9. /\ rep \in Seq(Seq(Nat)) /\ Len(rep) = L - n /\ L - n \in Nat
      /\ \A i \in 1 .. L - n : n + i \in 1 .. L /\ rep[i] = s[n + i]
  <2> DEFINE t == SubSeq(s, n + 1, L)
  <2> HIDE DEF t
  <2>1. L - n \in Nat /\ \A i \in 1 .. L - n : n + i \in 1 .. L /\ n + 1 + i - 1 = n + i
    BY <1>1, <1>2
  <2>2. L - (n + 1) + 1 = L - n
    BY <1>1, <1>2
  <2>3. t \in Seq(Seq(Nat)) /\ Len(t) = L - n
    BY <1>1, <1>2, <1>8 DEF t
  <2>4. \A i \in 1 .. L - n : t[i] = s[n + i]
    BY <1>8, <2>1, <2>2 DEF t
  <2> QED BY <1>7, <2>1, <2>3, <2>4 DEF t
<1> HIDE DEF once, rep
<1>10. DOMAIN once = 1 .. Len(once) /\ DOMAIN rep = 1 .. Len(rep)
  BY <1>6, <1>9, LenProperties
<1> QED BY <1>2, <1>6, <1>9, <1>10 DEF L, s, once, rep
LEMMA GetbulkMeans ==
    ASSUME MibOK, NEW q \in Requests
    PROVE  /\ HandleGetbulk(q) = Success(Nexts(Once(q))
                                         \o BulkRounds(Repeated(q), AtLeastZero(q.maxrep)))
           /\ AtLeastZero(q.maxrep) \in Nat
           /\ Nexts(Once(q)) \in Seq(Answers)
           /\ BulkRounds(Repeated(q), AtLeastZero(q.maxrep)) \in Seq(Answers)
<1>1. AtLeastZero(q.maxrep) \in Nat
  <2>1. q.maxrep \in Int
    BY DEF Requests
  <2> QED BY <2>1 DEF AtLeastZero
<1>2. Once(q) \in Seq(Seq(Nat)) /\ Repeated(q) \in Seq(Seq(Nat))
  BY OnceAndRepeated
<1>3. HandleGetbulk(q) = Success(Nexts(Once(q))
                                 \o BulkRounds(Repeated(q), AtLeastZero(q.maxrep)))
  BY DEF HandleGetbulk, Nexts
<1> QED BY <1>1, <1>2, <1>3, NextsType, BulkRoundsType

\* What each type of request is answered by.
LEMMA SnmpMeans ==
    ASSUME NEW q \in Requests
    PROVE  IF q.version = 2 /\ ~q.known THEN Snmp(q) = Failure(q, "noAccess", 0)
           ELSE /\ q.type = "get"     => Snmp(q) = HandleGet(q)
                /\ q.type = "getnext" => Snmp(q) = HandleGetnext(q)
                /\ q.type = "set"     => Snmp(q) = HandleSet(q)
                /\ q.type = "getbulk" => Snmp(q) = HandleGetbulk(q)
                /\ q.type = "other"   => Snmp(q) = Ignored
  BY DEF Snmp

LEMMA ReplyType ==
    ASSUME MibOK, NEW q \in Requests
    PROVE  /\ Snmp(q).kind \in {"response", "refused", "ignored"}
           /\ Snmp(q).kind = "response" => Snmp(q).vars \in Seq(Answers)
<1>1. CASE q.version = 2 /\ ~q.known
  BY <1>1, SnmpMeans, FailureType
<1>2. CASE ~(q.version = 2 /\ ~q.known)
  <2>1. CASE q.type = "get"
    <3>1. Snmp(q) = Each(q, [i \in DOMAIN q.oids |-> GetVar(q.oids[i])])
      BY <1>2, <2>1, SnmpMeans DEF HandleGet
    <3> QED BY <3>1, GetsType, EachMeans
  <2>2. CASE q.type = "getnext"
    <3>1. Snmp(q) = Each(q, Nexts(q.oids))
      BY <1>2, <2>2, SnmpMeans DEF HandleGetnext, Nexts
    <3> QED BY <3>1, RequestSequence, NextsType, EachMeans
  <2>3. CASE q.type = "set"
    <3>1. \E status : Snmp(q) = Failure(q, status, 0)
      BY <1>2, <2>3, SnmpMeans DEF HandleSet
    <3> QED BY <3>1, FailureType
  <2>4. CASE q.type = "getbulk"
    <3> DEFINE vs == Nexts(Once(q)) \o BulkRounds(Repeated(q), AtLeastZero(q.maxrep))
    <3>1. Snmp(q) = Success(vs) /\ vs \in Seq(Answers)
      BY <1>2, <2>4, SnmpMeans, GetbulkMeans, ConcatProperties
    <3> HIDE DEF vs
    <3> QED BY <3>1, SuccessMeans
  <2>5. CASE q.type = "other"
    BY <1>2, <2>5, SnmpMeans DEF Ignored
  <2>6. q.type \in {"get", "getnext", "set", "getbulk", "other"}
    BY DEF Requests
  <2> QED BY <2>1, <2>2, <2>3, <2>4, <2>5, <2>6
<1> QED BY <1>1, <1>2

LEMMA NotRefused ==
    ASSUME NEW q \in Requests, Snmp(q).kind = "response", Snmp(q).status = "ok"
    PROVE  ~(q.version = 2 /\ ~q.known)
  BY SnmpMeans, FailureType

LEMMA GetReply ==
    ASSUME MibOK, NEW q \in Requests
    PROVE  GetExact(q, Snmp(q))
<1> SUFFICES ASSUME Ok(q, Snmp(q), "get"), NEW i \in DOMAIN q.oids
             PROVE  Snmp(q).vars[i] = Got(q.oids[i])
  BY DEF GetExact
<1> DEFINE vs == [k \in DOMAIN q.oids |-> GetVar(q.oids[k])]
<1>1. Snmp(q) = Each(q, vs)
  BY NotRefused, SnmpMeans DEF Ok, HandleGet
<1>2. Snmp(q).vars = vs
  BY <1>1, GetsType, EachMeans DEF Ok
<1>3. q.oids[i] \in Seq(Nat)
  BY RequestOids
<1> QED BY <1>2, <1>3, GetVarIsExact

LEMMA NextReply ==
    ASSUME MibOK, NEW q \in Requests, SmallRequest(q)
    PROVE  NextExact(q, Snmp(q))
<1> SUFFICES ASSUME Ok(q, Snmp(q), "getnext"), NEW i \in DOMAIN q.oids
             PROVE  Snmp(q).vars[i] = PlaceAfter(q.oids[i], 1)
  BY DEF NextExact
<1> DEFINE vs == Nexts(q.oids)
<1>1. Snmp(q) = Each(q, vs)
  BY NotRefused, SnmpMeans DEF Ok, HandleGetnext, Nexts
<1>2. vs \in Seq(Answers) /\ vs[i] = NextVar(q.oids[i])
  BY RequestSequence, NextsType
<1>3. Snmp(q).vars = vs
  BY <1>1, <1>2, EachMeans DEF Ok
<1>4. SmallOid(q.oids[i])
  BY RequestOids DEF SmallRequest
<1> QED BY <1>2, <1>3, <1>4, NextIsFirstPlace

\* The number of repetitions, as BulkIsRepeatedNext has it.
LEMMA RoundsMeans ==
    ASSUME NEW rep, NEW D, Deepest(rep, D), NEW most \in Nat, DOMAIN rep = 1 .. Len(rep)
    PROVE  LET deep == {Depth(rep[i]) : i \in DOMAIN rep} IN
           Least({most} \cup {d \in deep : \A e \in deep : e <= d}) = Fewer(most, D)
<1> DEFINE deep == {Depth(rep[i]) : i \in DOMAIN rep}
<1>1. D \in Nat /\ D \in deep /\ \A d \in deep : d <= D
  BY DEF Deepest
<1>0. deep \subseteq Nat
  BY DEF Deepest
<1>2. {d \in deep : \A e \in deep : e <= d} = {D}
  <2> SUFFICES ASSUME NEW d \in deep, D <= d
               PROVE  d = D
    BY <1>1
  <2>1. d <= D /\ d \in Nat
    BY <1>0, <1>1
  <2> QED BY <1>1, <2>1
<1> DEFINE S == {most} \cup {d \in deep : \A e \in deep : e <= d}
<1>3. S = {most, D}
  BY <1>2
<1> HIDE DEF S
<1>4. Least(S) \in S /\ \A m \in S : Least(S) <= m
  <2>1. S \subseteq Nat /\ S # {}
    BY <1>1, <1>3
  <2> QED BY <2>1, LeastIsLeast
<1>5. Least(S) = Fewer(most, D)
  BY <1>1, <1>3, <1>4 DEF Fewer
<1> QED BY <1>5 DEF S
LEMMA BulkReply ==
    ASSUME MibOK, NEW q \in Requests, SmallRequest(q)
    PROVE  BulkExact(q, Snmp(q))
<1> SUFFICES ASSUME Ok(q, Snmp(q), "getbulk")
             PROVE  BulkExact(q, Snmp(q))
  BY DEF BulkExact
<1> DEFINE r    == Snmp(q)
           once == Once(q)
           rep  == Repeated(q)
           most == AtLeastZero(q.maxrep)
           deep == {Depth(rep[i]) : i \in DOMAIN rep}
           rounds == IF rep = <<>> THEN 0
                     ELSE Least({most} \cup {d \in deep : \A e \in deep : e <= d})
           vs == Nexts(once)
           ws == BulkRounds(rep, most)
<1>1. /\ once \in Seq(Seq(Nat)) /\ Len(once) \in Nat /\ DOMAIN once = 1 .. Len(once)
      /\ \A i \in 1 .. Len(once) : SmallOid(once[i])
      /\ rep \in Seq(Seq(Nat)) /\ Len(rep) \in Nat /\ DOMAIN rep = 1 .. Len(rep)
      /\ \A i \in 1 .. Len(rep) : SmallOid(rep[i])
  <2>1. Len(once) \in Nat
    BY OnceAndRepeated, RequestOids
  <2> QED BY <2>1, OnceAndRepeated DEF SmallRequest
<1>2. r = Success(vs \o ws) /\ most \in Nat /\ vs \in Seq(Answers) /\ ws \in Seq(Answers)
  BY NotRefused, SnmpMeans, GetbulkMeans DEF Ok
<1>3. r.vars = vs \o ws
  BY <1>2, SuccessMeans DEF Ok
<1>4. Len(vs) = Len(once) /\ \A i \in 1 .. Len(once) : vs[i] = PlaceAfter(once[i], 1)
  BY <1>1, NextsType, NextIsFirstPlace
<1>5. /\ rounds \in Nat /\ Len(ws) = rounds * Len(rep) /\ Len(ws) \in Nat
      /\ \A j \in 1 .. rounds, i \in 1 .. Len(rep) :
            ws[(j - 1) * Len(rep) + i] = PlaceAfter(rep[i], j)
  <2>0. Len(ws) \in Nat
    BY <1>2, LenProperties
  <2>1. CASE rep = <<>>
    <3>1. ws = <<>> /\ rounds = 0 /\ Len(rep) = 0
      BY <1>2, <2>1, BulkOfNothing, EmptySeq
    <3>2. Len(ws) = 0
      BY <3>1, EmptySeq
    <3> HIDE DEF ws, rounds, rep
    <3> QED BY <3>1, <3>2
  <2>2. CASE rep # <<>>
    <3>1. Len(rep) > 0
      BY <1>1, <2>2, EmptySeq
    <3>2. PICK D : Deepest(rep, D)
      BY <1>1, <3>1, DeepestExists
    <3>3. rounds = Fewer(most, D)
      BY <1>1, <1>2, <2>2, <3>2, RoundsMeans
    <3>4. PICK s : ws = s.vars /\ RoundIs(s, rep, D, Fewer(most, D))
      BY <1>1, <1>2, <3>1, <3>2, BulkRoundsAre
    <3>5. Fewer(most, D) \in Nat
      BY <1>2, <3>2 DEF Fewer, Deepest
    <3> HIDE DEF ws, rounds, rep, most
    <3> QED BY <2>0, <3>3, <3>4, <3>5 DEF RoundIs
  <2> QED BY <2>1, <2>2
<1> HIDE DEF vs, ws, rounds, rep, once, r
<1>6. /\ Len(r.vars) = Len(vs) + Len(ws)
      /\ \A i \in 1 .. Len(vs) : r.vars[i] = vs[i]
      /\ \A i \in 1 .. Len(ws) : r.vars[Len(vs) + i] = ws[i]
  <2> DEFINE t == vs \o ws
  <2>1. /\ Len(t) = Len(vs) + Len(ws)
        /\ \A i \in 1 .. Len(vs) : t[i] = vs[i]
        /\ \A i \in 1 .. Len(ws) : t[Len(vs) + i] = ws[i]
    BY <1>2, ConcatElements
  <2> HIDE DEF t
  <2>2. r.vars = t
    BY <1>3 DEF t
  <2> QED BY <2>1, <2>2
<1>7. \A i \in 1 .. Len(once) : r.vars[i] = PlaceAfter(once[i], 1)
  BY <1>4, <1>6
<1>8. ASSUME NEW j \in 1 .. rounds, NEW i \in 1 .. Len(rep)
      PROVE  r.vars[Len(once) + (j - 1) * Len(rep) + i] = PlaceAfter(rep[i], j)
  <2> DEFINE k == (j - 1) * Len(rep) + i
  <2>1. k \in 1 .. Len(ws)
    BY <1>1, <1>5, PlaceInRounds
  <2>2. ws[k] = PlaceAfter(rep[i], j)
    BY <1>5
  <2>3. Len(once) + (j - 1) * Len(rep) + i = Len(once) + k
    BY <1>1, <1>5
  <2> HIDE DEF k
  <2>4. r.vars[Len(once) + k] = ws[k]
    BY <1>4, <1>6, <2>1
  <2> QED BY <2>2, <2>3, <2>4
<1>9. Len(r.vars) = Len(once) + rounds * Len(rep)
  BY <1>4, <1>5, <1>6
<1>10. /\ Len(r.vars) = Len(once) + rounds * Len(rep)
       /\ \A i \in DOMAIN once : r.vars[i] = PlaceAfter(once[i], 1)
       /\ \A j \in 1 .. rounds, i \in DOMAIN rep :
             r.vars[Len(once) + (j - 1) * Len(rep) + i] = PlaceAfter(rep[i], j)
  BY <1>1, <1>7, <1>8, <1>9
<1> QED BY <1>10, Zenon DEF BulkExact, BulkPlaces, r, once, rep, rounds
-----------------------------------------------------------------------------
(* A walk.                                                                   *)

\* What a walk asks next, and about which OID.
WalkOid(w) == IF w.got = <<>> THEN w.root ELSE Last(w.got)
WalkRequest(o, n) ==
    [type |-> IF n = 0 THEN "getnext" ELSE "getbulk", version |-> 2, known |-> TRUE,
     oids |-> <<o>>, nonrep |-> 0, maxrep |-> n]

\* What it may be answered: the places after the OID, at most to the end.
WalkAnswer(o, r) ==
    r.kind = "response" => /\ r.vars \in Seq(Answers) /\ Len(r.vars) \in 1 .. Depth(o)
                           /\ \A j \in 1 .. Len(r.vars) : r.vars[j] = PlaceAfter(o, j)

LEMMA SmallInOids ==
    ASSUME NEW o, SmallOid(o)
    PROVE  o \in Oids
<1>1. Len(o) \in Nat /\ \A i \in 1 .. Len(o) : o[i] \in Small
  BY LenProperties, ElementOfSeq DEF SmallOid
<1>2. Small \subseteq 0 .. SubidBase - 1
  BY MibAssumption DEF Small, Half
<1>3. o = [i \in 1 .. Len(o) |-> o[i]]
  BY LenProperties DEF SmallOid
<1>4. o \in Seq(0 .. SubidBase - 1)
  BY <1>1, <1>2, <1>3, MapIsSequence
<1> QED BY <1>4 DEF Oids, SmallOid

LEMMA WalkRequestType ==
    ASSUME NEW o \in Oids, NEW n \in Nat
    PROVE  /\ WalkRequest(o, n) \in Requests
           /\ WalkRequest(o, n).oids = <<o>> /\ Len(WalkRequest(o, n).oids) = 1
           /\ WalkRequest(o, n).version = 2 /\ WalkRequest(o, n).known
           /\ WalkRequest(o, n).nonrep = 0 /\ WalkRequest(o, n).maxrep = n
           /\ WalkRequest(o, n).type = IF n = 0 THEN "getnext" ELSE "getbulk"
<1>1. <<o>> \in Seq(Oids) /\ Len(<<o>>) = 1
  OBVIOUS
<1> QED BY <1>1 DEF WalkRequest, Requests

LEMMA WalkReply ==
    ASSUME MibOK, NEW o, SmallOid(o), NEW n \in Nat
    PROVE  /\ WalkAnswer(o, Snmp(WalkRequest(o, n)))
           /\ /\ 1 <= MaxValues /\ 1 <= PacketRoom /\ n <= MaxValues /\ n <= PacketRoom
              => Snmp(WalkRequest(o, n)).kind = "response"
<1> DEFINE q == WalkRequest(o, n)
           D == Depth(o)
<1>1. /\ q \in Requests /\ q.oids = <<o>> /\ Len(q.oids) = 1 /\ q.version = 2 /\ q.known
      /\ q.nonrep = 0 /\ q.maxrep = n
      /\ n = 0 => q.type = "getnext"
      /\ n # 0 => q.type = "getbulk"
  BY SmallInOids, WalkRequestType
<1>2. D \in Nat /\ D > 0
  <2>1. 0 \in Nat
    OBVIOUS
  <2> QED BY <2>1, DepthMeans
<1>3. <<o>> \in Seq(Seq(Nat)) /\ Len(<<o>>) = 1 /\ <<o>>[1] = o
  BY SmallIsOid
<1> HIDE DEF q, D
<1>4. ASSUME NEW vs \in Seq(Answers), Snmp(q) = Success(vs), Len(vs) \in 1 .. D,
             Len(vs) <= n \/ Len(vs) = 1,
             \A j \in 1 .. Len(vs) : vs[j] = PlaceAfter(o, j)
      PROVE  /\ WalkAnswer(o, Snmp(q))
             /\ /\ 1 <= MaxValues /\ 1 <= PacketRoom /\ n <= MaxValues /\ n <= PacketRoom
                => Snmp(q).kind = "response"
  <2>1. Len(vs) \in Nat
    BY LenProperties
  <2>2. WalkAnswer(o, Snmp(q))
    BY <1>4, SuccessMeans DEF WalkAnswer, D
  <2>3. ASSUME 1 <= MaxValues, 1 <= PacketRoom, n <= MaxValues, n <= PacketRoom
        PROVE  Snmp(q).kind = "response"
    <3>1. Len(vs) <= MaxValues /\ Len(vs) <= PacketRoom
      BY <1>4, <2>1, <2>3, MibAssumption
    <3> QED BY <1>4, <2>1, <3>1, SuccessMeans
  <2> QED BY <2>2, <2>3
<1>5. CASE n = 0
  <2> DEFINE vs == Nexts(<<o>>)
  <2>1. Snmp(q) = Each(q, Nexts(q.oids))
    BY <1>1, <1>5, SnmpMeans DEF HandleGetnext, Nexts
  <2>2. vs \in Seq(Answers) /\ Len(vs) = 1 /\ vs[1] = NextVar(o)
    <3> DEFINE l == <<o>>
    <3>1. l \in Seq(Seq(Nat)) /\ Len(l) = 1 /\ l[1] = o /\ 1 \in 1 .. Len(l)
      BY <1>3
    <3> HIDE DEF l
    <3>2. Nexts(l) \in Seq(Answers) /\ Len(Nexts(l)) = 1 /\ Nexts(l)[1] = NextVar(o)
      BY <3>1, NextsType
    <3> QED BY <3>2 DEF l
  <2>3. Snmp(q) = Success(vs)
    BY <1>1, <2>1, <2>2, EachMeans
  <2>4. vs[1] = PlaceAfter(o, 1)
    BY <2>2, NextIsFirstPlace
  <2> HIDE DEF vs
  <2>5. Len(vs) \in 1 .. D /\ \A j \in 1 .. Len(vs) : vs[j] = PlaceAfter(o, j)
    BY <1>2, <2>2, <2>4
  <2>6. /\ WalkAnswer(o, Snmp(q))
        /\ /\ 1 <= MaxValues /\ 1 <= PacketRoom /\ n <= MaxValues /\ n <= PacketRoom
           => Snmp(q).kind = "response"
    BY <1>4, <2>2, <2>3, <2>5
  <2> QED BY <2>6 DEF q
<1>6. CASE n # 0
  <2> DEFINE ws == BulkRounds(<<o>>, n)
             F  == Fewer(n, D)
  <2>1. /\ Len(Once(q)) \in 0 .. 1 /\ Once(q) \in Seq(Seq(Nat))
        /\ Repeated(q) \in Seq(Seq(Nat)) /\ Len(Repeated(q)) = 1 - Len(Once(q))
        /\ \A i \in 1 .. Len(Repeated(q)) : Repeated(q)[i] = <<o>>[Len(Once(q)) + i]
    <3>1. /\ Len(Once(q)) \in 0 .. Len(q.oids) /\ Once(q) \in Seq(Seq(Nat))
          /\ Repeated(q) \in Seq(Seq(Nat)) /\ Len(Repeated(q)) = Len(q.oids) - Len(Once(q))
          /\ \A i \in 1 .. Len(Repeated(q)) : Repeated(q)[i] = q.oids[Len(Once(q)) + i]
      BY <1>1, OnceAndRepeated
    <3> QED BY <1>1, <3>1
  <2>2. Once(q) = <<>> /\ Len(Once(q)) = 0
    <3>1. Once(q) = SubSeq(<<o>>, 1, 0)
      BY <1>1 DEF Once, AtLeastZero
    <3>2. SubSeq(<<o>>, 1, 0) = <<>>
      BY SubSeqEmpty
    <3> QED BY <3>1, <3>2, EmptySeq
  <2>3. Repeated(q) = <<o>>
    <3>1. Len(Repeated(q)) = 1 /\ Repeated(q)[1] = o
      BY <1>3, <2>1, <2>2
    <3>2. \A i \in 1 .. Len(Repeated(q)) : Repeated(q)[i] = <<o>>[i]
      BY <1>3, <3>1
    <3> QED BY <1>3, <2>1, <3>1, <3>2, SeqEqual
  <2>4. Nexts(<<>>) = <<>>
    <3>1. Nexts(<<>>) \in Seq(Answers) /\ Len(Nexts(<<>>)) = 0
      BY NextsType, EmptySeq
    <3> QED BY <3>1, EmptySeq
  <2>5. ws \in Seq(Answers)
    BY <1>3, BulkRoundsType
  <2>6. AtLeastZero(q.maxrep) = n
    BY <1>1 DEF AtLeastZero
  <2>7. Snmp(q) = Success(<<>> \o ws)
    <3>1. Snmp(q) = HandleGetbulk(q)
      BY <1>1, <1>6, SnmpMeans
    <3> QED BY <1>1, <2>2, <2>3, <2>4, <2>6, <3>1, GetbulkMeans
  <2>8. <<>> \o ws = ws
    BY <2>5, ConcatEmptySeq
  <2>9. Deepest(<<o>>, D)
    BY <1>2, <1>3 DEF Deepest, D
  <2>10. PICK r : ws = r.vars /\ RoundIs(r, <<o>>, D, F)
    <3>1. Len(<<o>>) > 0 /\ \A i \in 1 .. Len(<<o>>) : SmallOid(<<o>>[i])
      BY <1>3
    <3> QED BY <1>3, <2>9, <3>1, BulkRoundsAre
  <2>11. F \in 1 .. D /\ F <= n
    BY <1>2, <1>6 DEF Fewer
  <2> HIDE DEF ws, F
  <2>12. Len(ws) = F /\ \A j \in 1 .. F : ws[j] = PlaceAfter(o, j)
    <3>1. Len(ws) = F * 1 /\ \A j \in 1 .. F, i \in 1 .. 1 : ws[(j - 1) * 1 + i] = PlaceAfter(<<o>>[i], j)
      BY <1>3, <2>10 DEF RoundIs
    <3>2. \A j \in 1 .. F : ws[(j - 1) * 1 + 1] = PlaceAfter(o, j)
      BY <1>3, <3>1
    <3>3. F * 1 = F /\ \A j \in 1 .. F : (j - 1) * 1 + 1 = j
      BY <2>11
    <3> QED BY <3>1, <3>2, <3>3
  <2>13. /\ WalkAnswer(o, Snmp(q))
         /\ /\ 1 <= MaxValues /\ 1 <= PacketRoom /\ n <= MaxValues /\ n <= PacketRoom
            => Snmp(q).kind = "response"
    BY <1>4, <2>5, <2>7, <2>8, <2>11, <2>12
  <2> QED BY <2>13 DEF q
<1> QED BY <1>5, <1>6
\* The variables a walk has: those that follow its root.
WalkAt(w) ==
    /\ w.got \in Seq(Variables) /\ Len(w.got) <= Cardinality(After(w.root))
    /\ \A i \in 1 .. Len(w.got) : w.got[i] = mib[Rank(w.root) + i]

\* Where a walk is in the table.
LEMMA WalkOidMeans ==
    ASSUME MibOK, NEW w, WalkAt(w), SmallOid(w.root)
    PROVE  /\ SmallOid(WalkOid(w)) /\ Len(w.got) \in Nat
           /\ Rank(WalkOid(w)) = Rank(w.root) + Len(w.got)
           /\ Cardinality(After(WalkOid(w))) = Cardinality(After(w.root)) - Len(w.got)
           /\ Rank(w.root) \in Nat /\ Rank(w.root) + Cardinality(After(w.root)) = Len(mib)
<1>1. /\ Len(mib) \in Nat /\ \A n \in 1 .. Len(mib) : SmallOid(mib[n])
      /\ MibFindnext(w.root) \in 1 .. Len(mib) + 1
      /\ Cardinality(After(w.root)) = Len(mib) - MibFindnext(w.root) + 1
      /\ Rank(w.root) = MibFindnext(w.root) - 1
  BY MibFacts, FindnextIsNext, RankIsFindnext
<1>2. Len(w.got) \in Nat /\ (w.got = <<>> <=> Len(w.got) = 0)
  BY LenProperties, EmptySeq DEF WalkAt
<1>3. CASE w.got = <<>>
  BY <1>1, <1>2, <1>3 DEF WalkOid
<1>4. CASE w.got # <<>>
  <2> DEFINE k == Rank(w.root) + Len(w.got)
  <2>1. WalkOid(w) = w.got[Len(w.got)]
    BY <1>4 DEF WalkOid, Last
  <2>2. k \in 1 .. Len(mib)
    BY <1>1, <1>2, <1>4 DEF WalkAt
  <2>3. WalkOid(w) = mib[k]
    BY <1>2, <1>4, <2>1 DEF WalkAt
  <2> HIDE DEF k
  <2>4. SmallOid(mib[k]) /\ MibFindnext(mib[k]) = k + 1
    BY <1>1, <2>2, FindnextOfEntry
  <2>5. /\ Cardinality(After(mib[k])) = Len(mib) - (k + 1) + 1
        /\ Rank(mib[k]) = (k + 1) - 1
    BY <2>4, RankIsFindnext
  <2>6. k = Rank(w.root) + Len(w.got)
    BY DEF k
  <2> DEFINE R == Rank(w.root)
             C == Cardinality(After(w.root))
             G == Len(w.got)
             K == Cardinality(After(WalkOid(w)))
             Q == Rank(WalkOid(w))
             M == MibFindnext(w.root)
             L == Len(mib)
  <2>7. /\ K = L - (k + 1) + 1 /\ Q = (k + 1) - 1 /\ k = R + G
        /\ C = L - M + 1 /\ R = M - 1
        /\ L \in Nat /\ M \in 1 .. L + 1 /\ G \in Nat /\ k \in 1 .. L
    BY <1>1, <1>2, <2>2, <2>3, <2>5, <2>6
  <2>8. SmallOid(WalkOid(w))
    BY <2>3, <2>4
  <2> HIDE DEF R, C, G, K, Q, M, L
  <2>9. Q = R + G /\ K = C - G /\ R \in Nat /\ R + C = L /\ G \in Nat
    BY <2>7
  <2> QED BY <2>8, <2>9 DEF R, C, G, K, Q, L
<1> QED BY <1>3, <1>4

\* What one answer makes of a walk.
LEMMA WalkedMeans ==
    ASSUME MibOK, WalkAt(walk), SmallOid(walk.root), NEW r, WalkAnswer(WalkOid(walk), r),
           walk = [state |-> walk.state, root |-> walk.root, got |-> walk.got,
                   step |-> walk.step]
    PROVE  /\ Walked(r).root = walk.root /\ Walked(r).step = walk.step
           /\ Walked(r).state \in {"on", "done"} /\ WalkAt(Walked(r))
           /\ Walked(r) = [state |-> Walked(r).state, root |-> walk.root,
                           got |-> Walked(r).got, step |-> walk.step]
           /\ Walked(r).state = "on" => Less(WalkOid(walk), Last(Walked(r).got))
           /\ r.kind = "response" /\ Walked(r).state = "done" =>
                 Len(Walked(r).got) = Cardinality(After(walk.root))
<1> DEFINE o    == WalkOid(walk)
           vs   == IF r.kind = "response" THEN r.vars ELSE <<>>
           N    == Len(vs)
           ends == {k \in 0 .. N : k = N \/ vs[k + 1].kind # "value"}
           n    == Least(ends)
           add  == [i \in 1 .. n |-> vs[i].oid]
           rk   == Rank(o)
           A    == Cardinality(After(o))
<1>1. /\ SmallOid(o) /\ Len(walk.got) \in Nat /\ rk = Rank(walk.root) + Len(walk.got)
      /\ A = Cardinality(After(walk.root)) - Len(walk.got)
      /\ Rank(walk.root) \in Nat /\ Rank(walk.root) + Cardinality(After(walk.root)) = Len(mib)
      /\ Len(mib) \in Nat
  BY WalkOidMeans, MibFacts
<1>2. rk \in Nat /\ A \in Nat /\ rk + A = Len(mib)
  <2>1. A = Len(mib) - MibFindnext(o) + 1 /\ rk = MibFindnext(o) - 1
        /\ MibFindnext(o) \in 1 .. Len(mib) + 1
    BY <1>1, RankIsFindnext, FindnextIsNext
  <2>2. Len(mib) \in Nat
    BY <1>1
  <2> HIDE DEF A, rk
  <2> QED BY <2>1, <2>2
<1>3. vs \in Seq(Answers) /\ N \in Nat
  BY EmptySeq, LenProperties DEF WalkAnswer
<1>4. Walked(r) = [walk EXCEPT !.got   = @ \o add,
                               !.state = IF r.kind = "response" /\ n = N THEN "on" ELSE "done"]
  BY DEF Walked
<1>5. r.kind = "response" => /\ N \in 1 .. A + 1
                             /\ \A j \in 1 .. N : vs[j] = PlaceAfter(o, j)
  BY DEF WalkAnswer, Depth
<1>6. r.kind # "response" => N = 0
  BY EmptySeq
<1>7. \A j \in 1 .. N : vs[j] = IF j <= A THEN Var(mib[rk + j], "value")
                                ELSE Var(IF After(o) = {} THEN o ELSE mib[Len(mib)], "endOfMibView")
  BY <1>3, <1>5, <1>6 DEF PlaceAfter
<1> HIDE DEF vs, rk, A, o, N
<1>8. n \in ends /\ n \in Nat /\ \A k \in ends : n <= k
  <2>1. ends \subseteq Nat /\ N \in ends
    BY <1>3
  <2> HIDE DEF ends
  <2> QED BY <2>1, LeastIsLeast
<1>9. n \in 0 .. N /\ n <= A /\ (n = N \/ n = A)
  <2>1. n \in 0 .. N
    BY <1>8
  <2>2. n <= A
    <3> SUFFICES ASSUME n > A
                 PROVE  FALSE
      BY <1>2, <1>8
    <3>1. A \in 0 .. N /\ A + 1 \in 1 .. N
      BY <1>2, <1>3, <2>1
    <3>2. vs[A + 1].kind = "endOfMibView"
      <4>1. ~(A + 1 <= A)
        BY <1>2
      <4>2. vs[A + 1] = Var(IF After(o) = {} THEN o ELSE mib[Len(mib)], "endOfMibView")
        BY <1>7, <3>1, <4>1
      <4> HIDE DEF ends, n
      <4> QED BY <4>2 DEF Var
    <3>3. A \in ends
      BY <3>1, <3>2
    <3> HIDE DEF ends, n
    <3>4. n <= A
      BY <1>8, <3>3
    <3> QED BY <1>2, <1>8, <3>4
  <2>3. n = N \/ n = A
    <3> SUFFICES ASSUME n # N, n # A
                 PROVE  FALSE
      OBVIOUS
    <3>1. n + 1 \in 1 .. N /\ n + 1 <= A
      BY <1>2, <1>3, <2>1, <2>2
    <3> HIDE DEF n
    <3>2. vs[n + 1].kind = "value"
      <4>1. vs[n + 1] = Var(mib[rk + (n + 1)], "value")
        BY <1>7, <3>1
      <4> QED BY <4>1 DEF Var
    <3> QED BY <1>8, <3>2
  <2> QED BY <2>1, <2>2, <2>3
<1> HIDE DEF ends, n
<1>10. \A i \in 1 .. n : add[i] = mib[rk + i] /\ rk + i \in 1 .. Len(mib)
  <2> SUFFICES ASSUME NEW i \in 1 .. n
               PROVE  vs[i].oid = mib[rk + i] /\ rk + i \in 1 .. Len(mib)
    OBVIOUS
  <2>1. i \in 1 .. N /\ i <= A /\ rk + i \in 1 .. Len(mib)
    BY <1>2, <1>3, <1>9
  <2>2. vs[i] = Var(mib[rk + i], "value")
    BY <1>7, <2>1
  <2>3. vs[i].oid = mib[rk + i]
    BY <2>2 DEF Var
  <2> QED BY <2>1, <2>3
<1>11. DOMAIN mib = 1 .. Len(mib)
  BY MibFacts
<1>12. add \in Seq(Variables) /\ Len(add) = n
  <2>1. \A i \in 1 .. n : add[i] \in Variables
    BY <1>10, <1>11 DEF Variables
  <2>2. add = [i \in 1 .. n |-> add[i]]
    OBVIOUS
  <2> HIDE DEF add
  <2> QED BY <1>8, <2>1, <2>2, MapIsSequence
<1> HIDE DEF add
<1> DEFINE got == walk.got \o add
           w   == Walked(r)
<1>13. /\ got \in Seq(Variables) /\ Len(got) = Len(walk.got) + n
       /\ \A i \in 1 .. Len(walk.got) + n : got[i] = IF i <= Len(walk.got) THEN walk.got[i]
                                                     ELSE add[i - Len(walk.got)]
  <2>1. walk.got \in Seq(Variables)
    BY DEF WalkAt
  <2> QED BY <1>12, <2>1, ConcatProperties
<1>14. /\ w.root = walk.root /\ w.step = walk.step /\ w.got = got
       /\ w.state = IF r.kind = "response" /\ n = N THEN "on" ELSE "done"
       /\ w = [state |-> w.state, root |-> walk.root, got |-> w.got, step |-> walk.step]
  BY <1>4
<1> HIDE DEF got, w
<1>15. \A i \in 1 .. Len(got) : got[i] = mib[Rank(walk.root) + i]
  <2> SUFFICES ASSUME NEW i \in 1 .. Len(got)
               PROVE  got[i] = mib[Rank(walk.root) + i]
    OBVIOUS
  <2>1. CASE i <= Len(walk.got)
    <3>1. i \in 1 .. Len(walk.got) /\ got[i] = walk.got[i]
      BY <1>1, <1>8, <1>13, <2>1
    <3> QED BY <3>1 DEF WalkAt
  <2>2. CASE i > Len(walk.got)
    <3> DEFINE j == i - Len(walk.got)
    <3>1. j \in 1 .. n /\ got[i] = add[j]
      BY <1>1, <1>8, <1>13, <2>2
    <3>2. rk + j = Rank(walk.root) + i
      BY <1>1, <3>1
    <3> QED BY <1>10, <3>1, <3>2
  <2> QED BY <1>1, <1>8, <1>13, <2>1, <2>2
<1>16. Len(got) <= Cardinality(After(walk.root))
       /\ (n = A => Len(got) = Cardinality(After(walk.root)))
  <2> DEFINE C == Cardinality(After(walk.root))
             G == Len(walk.got)
             H == Len(got)
  <2>1. A = C - G /\ G \in Nat /\ H = G + n /\ Rank(walk.root) + C = Len(mib)
        /\ rk = Rank(walk.root) + G /\ rk + A = Len(mib) /\ rk \in Nat /\ A \in Nat
        /\ Rank(walk.root) \in Nat /\ Len(mib) \in Nat /\ n \in Nat /\ n <= A
    BY <1>1, <1>2, <1>8, <1>9, <1>13
  <2>2. C \in Int
    <3>1. Cardinality(After(walk.root)) = Len(mib) - MibFindnext(walk.root) + 1
          /\ MibFindnext(walk.root) \in 1 .. Len(mib) + 1
      BY RankIsFindnext, FindnextIsNext
    <3> QED BY <2>1, <3>1
  <2> HIDE DEF C, G, H
  <2>3. H <= C /\ (n = A => H = C)
    BY <2>1, <2>2
  <2> QED BY <2>3 DEF C, G, H
<1>17. WalkAt(w)
  BY <1>13, <1>14, <1>15, <1>16 DEF WalkAt
<1>18. ASSUME w.state = "on"
       PROVE  Less(o, Last(w.got))
  <2>1. r.kind = "response" /\ n = N /\ n \in 1 .. N
    BY <1>3, <1>5, <1>14, <1>18
  <2>2. Len(got) \in 1 .. Len(walk.got) + n /\ Len(got) > Len(walk.got)
        /\ Len(got) - Len(walk.got) = n
    BY <1>1, <1>8, <1>13, <2>1
  <2>3. Last(got) = mib[rk + n] /\ rk + n \in 1 .. Len(mib)
    <3>1. Last(got) = add[n]
      <4>1. got[Len(got)] = add[Len(got) - Len(walk.got)]
        BY <1>1, <1>13, <2>2
      <4> QED BY <2>2, <4>1 DEF Last
    <3> QED BY <1>10, <2>1, <3>1
  <2>4. rk = MibFindnext(o) - 1 /\ MibFindnext(o) \in 1 .. Len(mib) + 1
    BY <1>1, RankIsFindnext, FindnextIsNext DEF rk
  <2>5. MibFindnext(o) <= rk + n
    BY <1>1, <1>2, <2>1, <2>4
  <2>6. Less(o, mib[rk + n])
    BY <1>1, <2>3, <2>5, FindnextIsNext
  <2> QED BY <1>14, <2>3, <2>6
<1>19. r.kind = "response" /\ w.state = "done" => Len(w.got) = Cardinality(After(walk.root))
  BY <1>9, <1>14, <1>16
<1>20. w.state \in {"on", "done"}
  BY <1>14
<1> QED BY <1>14, <1>17, <1>18, <1>19, <1>20 DEF w, o
-----------------------------------------------------------------------------
(* The table does not change, and what is read from it does not either.      *)

LEMMA TableStays ==
    ASSUME mib' = mib
    PROVE  /\ MibOK => MibOK'
           /\ Variables' = Variables /\ Answers' = Answers
           /\ \A o : After(o)' = After(o) /\ Rank(o)' = Rank(o)
           /\ \A o : Got(o)' = Got(o) /\ Depth(o)' = Depth(o)
           /\ \A o, j : PlaceAfter(o, j)' = PlaceAfter(o, j)
<1>1. MibOK => MibOK'
  BY DEF MibOK
<1>2. Variables' = Variables
  BY DEF Variables
<1>3. \A o : After(o)' = After(o)
  BY <1>2 DEF After
<1>4. \A o : Rank(o)' = Rank(o)
  BY <1>2, <1>3 DEF Rank
<1>5. \A o : Depth(o)' = Depth(o)
  BY <1>3 DEF Depth
<1>6. \A o : Got(o)' = Got(o)
  BY <1>2 DEF Got
<1>7. \A o, j : PlaceAfter(o, j)' = PlaceAfter(o, j)
  BY <1>3, <1>4 DEF PlaceAfter
<1>8. Answers' = Answers
  BY <1>2 DEF Answers
<1> QED BY <1>1, <1>2, <1>3, <1>4, <1>5, <1>6, <1>7, <1>8

-----------------------------------------------------------------------------
(* The agent and any manager: types, and what GET says.                      *)

Replies == {"response", "refused", "ignored"}
Walks   == [state : {"off", "on", "done"}, root : Oids, got : Seq(Variables), step : Nat]

\* The invariant: the table is the one that was built, the agent answers a
\* request it was sent, and a walk has got variables.
MibInv ==
    /\ MibOK /\ walk \in Walks
    /\ req = NoRequest \/ req \in Requests
    /\ \/ resp = NoAnswer
       \/ /\ req \in Requests /\ resp.kind \in Replies
          /\ resp.kind = "response" => resp.vars \in Seq(Answers)
          /\ GetExact(req, resp)

LEMMA NoneIsNone ==
    /\ NoRequest \notin Requests
    /\ \A r : r.kind \in Replies => r # NoAnswer
<1>1. NoRequest.type = "none"
  BY DEF NoRequest
<1>2. \A q \in Requests : q.type # "none"
  BY DEF Requests
<1>3. NoAnswer.kind = "none"
  BY DEF NoAnswer
<1> QED BY <1>1, <1>2, <1>3 DEF Replies

\* What a walk asks about is an OID that a request can hold.
LEMMA WalkOidType ==
    ASSUME MibOK, walk \in Walks
    PROVE  WalkOid(walk) \in Oids
<1>1. walk.root \in Oids /\ walk.got \in Seq(Variables)
  BY DEF Walks
<1>2. CASE walk.got = <<>>
  BY <1>1, <1>2 DEF WalkOid
<1>3. CASE walk.got # <<>>
  <2>1. Len(walk.got) \in 1 .. Len(walk.got)
    BY <1>1, <1>3, EmptySeq, LenProperties
  <2>2. walk.got[Len(walk.got)] \in Variables
    BY <1>1, <2>1, ElementOfSeq
  <2>3. \A v \in Variables : v \in Oids
    BY MibFacts, SmallInOids DEF Variables
  <2> QED BY <1>3, <2>2, <2>3 DEF WalkOid, Last
<1> QED BY <1>2, <1>3

\* Whatever the answer, a walk takes nothing but variables from it.
LEMMA WalkedType ==
    ASSUME walk \in Walks, NEW r, r.kind = "response" => r.vars \in Seq(Answers)
    PROVE  Walked(r) \in Walks
<1> DEFINE vs   == IF r.kind = "response" THEN r.vars ELSE <<>>
           N    == Len(vs)
           ends == {k \in 0 .. N : k = N \/ vs[k + 1].kind # "value"}
           n    == Least(ends)
           add  == [i \in 1 .. n |-> vs[i].oid]
<1>1. vs \in Seq(Answers) /\ N \in Nat
  BY EmptySeq, LenProperties
<1>2. Walked(r) = [walk EXCEPT !.got   = @ \o add,
                               !.state = IF r.kind = "response" /\ n = N THEN "on" ELSE "done"]
  BY DEF Walked
<1> HIDE DEF vs, N
<1>3. n \in ends /\ n \in Nat /\ \A k \in ends : n <= k
  <2>1. ends \subseteq Nat /\ N \in ends
    BY <1>1
  <2> HIDE DEF ends
  <2> QED BY <2>1, LeastIsLeast
<1>4. n \in 0 .. N
  BY <1>3
<1>5. \A i \in 1 .. n : vs[i].oid \in Variables
  <2> SUFFICES ASSUME NEW i \in 1 .. n
               PROVE  vs[i].oid \in Variables
    OBVIOUS
  <2> HIDE DEF n
  <2>1. i - 1 \in 0 .. N /\ i - 1 # N /\ (i - 1) + 1 = i /\ i \in 1 .. N /\ ~(n <= i - 1)
    BY <1>1, <1>4
  <2>2. i - 1 \notin ends
    <3> HIDE DEF ends
    <3> QED BY <1>3, <2>1
  <2>3. vs[i].kind = "value"
    BY <2>1, <2>2
  <2>4. vs[i] \in Answers
    BY <1>1, <2>1, ElementOfSeq DEF N
  <2> QED BY <2>3, <2>4 DEF Answers
<1> HIDE DEF ends, n
<1>6. add \in Seq(Variables)
  <2>1. \A i \in 1 .. n : add[i] \in Variables
    BY <1>5
  <2>2. add = [i \in 1 .. n |-> add[i]]
    OBVIOUS
  <2> HIDE DEF add
  <2> QED BY <1>3, <2>1, <2>2, MapIsSequence
<1> HIDE DEF add
<1>7. walk.got \o add \in Seq(Variables)
  BY <1>6, ConcatProperties DEF Walks
<1> QED BY <1>2, <1>7 DEF Walks
LEMMA MibInvInit == Init => MibInv
<1> SUFFICES ASSUME Init
             PROVE  MibInv
  OBVIOUS
<1>1. MibOK
  BY DEF Init, MibOK
<1>2. <<>> \in Oids
  BY MibAssumption, EmptySeq DEF Oids
<1>3. walk \in Walks
  <2>1. <<>> \in Seq(Variables)
    BY EmptySeq
  <2> QED BY <1>2, <2>1 DEF Init, NoWalk, Walks
<1> QED BY <1>1, <1>3 DEF Init, MibInv

\* A step that leaves the table alone leaves alone what was true of the rest.
LEMMA MibInvNext == MibInv /\ [Next]_vars => MibInv'
<1> SUFFICES ASSUME MibInv, [Next]_vars
             PROVE  MibInv'
  OBVIOUS
<1>1. mib' = mib
  BY DEF Next, Probe, StartWalk, WalkOn, Answer, Receive, EndWalk, vars
<1>2. /\ MibOK' /\ Variables' = Variables /\ Answers' = Answers
      /\ \A o : Got(o)' = Got(o)
  BY <1>1, TableStays DEF MibInv
<1>3. Walks' = Walks
  BY <1>2 DEF Walks
<1>4. SUFFICES /\ walk' \in Walks
               /\ req' = NoRequest \/ req' \in Requests
               /\ \/ resp' = NoAnswer
                  \/ /\ req' \in Requests /\ resp'.kind \in Replies
                     /\ resp'.kind = "response" => resp'.vars \in Seq(Answers)
                     /\ GetExact(req', resp')
  <2>1. GetExact(req', resp') => GetExact(req, resp)'
    BY <1>2 DEF GetExact, Ok
  <2> QED BY <1>2, <1>3, <2>1 DEF MibInv
<1>5. CASE UNCHANGED <<req, resp, walk>>
  BY <1>5 DEF MibInv
<1>6. CASE Probe
  <2>1. req' \in Requests
    BY <1>6, RequestAssumption DEF Probe
  <2>2. resp' = NoAnswer /\ walk' = walk
    BY <1>6, NoneIsNone DEF Probe, MibInv
  <2> QED BY <2>1, <2>2 DEF MibInv
<1>7. CASE StartWalk
  <2>1. PICK root \in Roots, n \in Repetitions \cup {0} :
            walk' = [state |-> "on", root |-> root, got |-> <<>>, step |-> n]
    BY <1>7 DEF StartWalk
  <2>2. root \in Oids /\ n \in Nat /\ <<>> \in Seq(Variables)
    BY RequestAssumption, MibAssumption, EmptySeq
  <2>3. walk' \in Walks
    BY <2>1, <2>2 DEF Walks
  <2> QED BY <1>7, <2>3 DEF StartWalk, MibInv
<1>8. CASE WalkOn
  <2>1. req' = WalkRequest(WalkOid(walk), walk.step)
    BY <1>8 DEF WalkOn, WalkRequest, WalkOid
  <2>2. WalkOid(walk) \in Oids /\ walk.step \in Nat
    BY WalkOidType DEF MibInv, Walks
  <2>3. req' \in Requests
    BY <2>1, <2>2, WalkRequestType
  <2>4. resp' = NoAnswer /\ walk' = walk
    BY <1>8, NoneIsNone DEF WalkOn, MibInv
  <2> QED BY <2>3, <2>4 DEF MibInv
<1>9. CASE Answer
  <2>1. req \in Requests /\ req' = req /\ walk' = walk /\ resp' = Snmp(req)
    BY <1>9 DEF Answer, MibInv
  <2>2. /\ Snmp(req).kind \in Replies
        /\ Snmp(req).kind = "response" => Snmp(req).vars \in Seq(Answers)
        /\ GetExact(req, Snmp(req))
    BY <2>1, ReplyType, GetReply DEF MibInv, Replies
  <2> QED BY <2>1, <2>2 DEF MibInv
<1>10. CASE Receive
  <2>1. walk' \in Walks
    <3>1. Walked(resp) \in Walks
      BY <1>10, WalkedType DEF Receive, MibInv
    <3> QED BY <1>10, <3>1 DEF Receive, MibInv
  <2> QED BY <1>10, <2>1 DEF Receive
<1>11. CASE EndWalk
  <2>1. NoWalk \in Walks
    <3>1. <<>> \in Oids /\ <<>> \in Seq(Variables)
      BY MibAssumption, EmptySeq DEF Oids
    <3> QED BY <3>1 DEF NoWalk, Walks
  <2> QED BY <1>11, <2>1 DEF EndWalk, MibInv
<1> QED BY <1>5, <1>6, <1>7, <1>8, <1>9, <1>10, <1>11 DEF Next, vars

LEMMA MibInvTypes == MibInv => TypeOK
<1> SUFFICES ASSUME MibInv
             PROVE  TypeOK
  OBVIOUS
<1>1. \A n \in DOMAIN mib : \A i \in DOMAIN mib[n] : mib[n][i] \in 0 .. SubidBase - 1
  <2> SUFFICES ASSUME NEW n \in DOMAIN mib, NEW i \in DOMAIN mib[n]
               PROVE  mib[n][i] \in 0 .. SubidBase - 1
    OBVIOUS
  <2>1. mib[n] \in Seq(Small)
    BY MibFacts DEF MibInv, SmallOid
  <2>2. mib[n] \in Oids
    BY MibFacts, SmallInOids DEF MibInv
  <2>3. mib[n] \in Seq(0 .. SubidBase - 1)
    BY <2>2 DEF Oids
  <2>4. i \in 1 .. Len(mib[n])
    BY <2>3, LenProperties
  <2> QED BY <2>3, <2>4, ElementOfSeq
<1>2. req = NoRequest \/ req.type \in {"get", "getnext", "set", "getbulk", "other"}
  BY DEF MibInv, Requests
<1>3. resp.kind \in {"none", "response", "refused", "ignored"}
  BY DEF MibInv, NoAnswer, Replies
<1>4. walk.state \in {"off", "on", "done"} /\ ToSet(walk.got) \subseteq Variables
  BY ElementOfSeq, LenProperties DEF MibInv, Walks, ToSet
<1> QED BY <1>1, <1>2, <1>3, <1>4 DEF TypeOK

LEMMA MibInvGets == MibInv => GetIsExact
<1> SUFFICES ASSUME MibInv, Answered("get")
             PROVE  \A i \in DOMAIN req.oids : resp.vars[i] = Got(req.oids[i])
  BY DEF GetIsExact, Got
<1>1. resp # NoAnswer
  BY DEF Answered, NoAnswer
<1> QED BY <1>1 DEF MibInv, GetExact, Ok, Answered

LEMMA MibInvAlways == Spec => []MibInv
  BY MibInvInit, MibInvNext, PTL DEF Spec

\* The types of the agent's table, requests and answers, and of a manager's walk.
THEOREM MibTypes == Spec => []TypeOK
  BY MibInvAlways, MibInvTypes, PTL

\* GET says of any OID whether a variable has it, whether it is that of a column,
\* or neither (snmp_get, mib_find), for every table and every request.
THEOREM GetsExact == Spec => []GetIsExact
  BY MibInvAlways, MibInvGets, PTL
-----------------------------------------------------------------------------
(* Requests whose subids are below half the base: what GETNEXT and GETBULK    *)
(* say.  A subid beyond an int is compared as a negative number, and the      *)
(* answer is another one then.                                                *)

SmallProbes == \A q \in Probes : SmallRequest(q)
SmallRoots  == \A o \in Roots : SmallOid(o)

SmallInv ==
    /\ MibInv /\ SmallOid(walk.root)
    /\ req # NoRequest => SmallRequest(req)
    /\ resp # NoAnswer => NextExact(req, resp) /\ BulkExact(req, resp)

LEMMA SmallInvInit == Init => SmallInv
<1> SUFFICES ASSUME Init
             PROVE  SmallInv
  OBVIOUS
<1>1. SmallOid(<<>>)
  BY MibAssumption, EmptySeq DEF SmallOid
<1> QED BY <1>1, MibInvInit DEF Init, SmallInv, NoWalk

\* What a walk asks about has small subids when its root has.
LEMMA WalkOidSmall ==
    ASSUME MibOK, walk \in Walks, SmallOid(walk.root)
    PROVE  SmallOid(WalkOid(walk))
<1>1. walk.got \in Seq(Variables)
  BY DEF Walks
<1>2. CASE walk.got = <<>>
  BY <1>2 DEF WalkOid
<1>3. CASE walk.got # <<>>
  <2>1. Len(walk.got) \in 1 .. Len(walk.got)
    BY <1>1, <1>3, EmptySeq, LenProperties
  <2>2. walk.got[Len(walk.got)] \in Variables
    BY <1>1, <2>1, ElementOfSeq
  <2>3. \A v \in Variables : SmallOid(v)
    BY MibFacts DEF Variables
  <2> QED BY <1>3, <2>2, <2>3 DEF WalkOid, Last
<1> QED BY <1>2, <1>3

LEMMA ExactStays ==
    ASSUME mib' = mib
    PROVE  /\ NextExact(req', resp') => NextExact(req, resp)'
           /\ BulkExact(req', resp') => BulkExact(req, resp)'
<1>1. NextExact(req', resp') => NextExact(req, resp)'
  BY TableStays DEF NextExact, Ok
<1>2. {Depth(Repeated(req)[i]) : i \in DOMAIN Repeated(req)}' =
          {Depth(Repeated(req')[i]) : i \in DOMAIN Repeated(req')}
  BY TableStays
<1>3. \A q, r, deep : BulkPlaces(q, r, deep) = BulkPlaces(q, r, deep)'
  BY TableStays DEF BulkPlaces
<1>4. BulkExact(req', resp') => BulkExact(req, resp)'
  BY <1>2, <1>3 DEF BulkExact, Ok
<1> QED BY <1>1, <1>4

LEMMA SmallInvNext ==
    ASSUME SmallProbes, SmallRoots
    PROVE  SmallInv /\ [Next]_vars => SmallInv'
<1> SUFFICES ASSUME SmallInv, [Next]_vars
             PROVE  SmallInv'
  OBVIOUS
<1>1. mib' = mib
  BY DEF Next, Probe, StartWalk, WalkOn, Answer, Receive, EndWalk, vars
<1>2. MibInv /\ MibInv' /\ MibOK /\ walk \in Walks
  BY MibInvNext DEF SmallInv, MibInv
<1>3. SUFFICES /\ SmallOid(walk'.root)
               /\ req' # NoRequest => SmallRequest(req')
               /\ resp' # NoAnswer => NextExact(req', resp') /\ BulkExact(req', resp')
  BY <1>1, <1>2, ExactStays DEF SmallInv
<1>4. CASE UNCHANGED <<req, resp, walk>>
  BY <1>4 DEF SmallInv
<1>5. CASE Probe
  <2>1. resp' = NoAnswer /\ walk' = walk /\ req' \in Probes
    BY <1>2, <1>5, NoneIsNone DEF Probe, MibInv
  <2> QED BY <2>1 DEF SmallProbes, SmallInv
<1>6. CASE StartWalk
  <2>1. PICK root \in Roots, n \in Repetitions \cup {0} :
            walk' = [state |-> "on", root |-> root, got |-> <<>>, step |-> n]
    BY <1>6 DEF StartWalk
  <2>2. SmallOid(walk'.root)
    BY <2>1 DEF SmallRoots
  <2> QED BY <1>6, <2>2 DEF StartWalk, SmallInv
<1>7. CASE WalkOn
  <2>1. req' = WalkRequest(WalkOid(walk), walk.step)
    BY <1>7 DEF WalkOn, WalkRequest, WalkOid
  <2>2. WalkOid(walk) \in Oids /\ walk.step \in Nat /\ SmallOid(WalkOid(walk))
    BY <1>2, WalkOidType, WalkOidSmall DEF SmallInv, Walks
  <2>3. SmallRequest(req')
    <3>1. req'.oids = <<WalkOid(walk)>> /\ Len(req'.oids) = 1
      BY <2>1, <2>2, WalkRequestType
    <3>2. \A i \in 1 .. 1 : req'.oids[i] = WalkOid(walk)
      BY <3>1
    <3> QED BY <2>2, <3>1, <3>2 DEF SmallRequest
  <2>4. resp' = NoAnswer /\ walk' = walk
    BY <1>2, <1>7, NoneIsNone DEF WalkOn, MibInv
  <2> QED BY <2>3, <2>4 DEF SmallInv
<1>8. CASE Answer
  <2>1. req \in Requests /\ req' = req /\ walk' = walk /\ resp' = Snmp(req) /\ SmallRequest(req)
    BY <1>2, <1>8 DEF Answer, MibInv, SmallInv
  <2>2. NextExact(req, Snmp(req)) /\ BulkExact(req, Snmp(req))
    BY <1>2, <2>1, NextReply, BulkReply
  <2> QED BY <2>1, <2>2 DEF SmallInv
<1>9. CASE Receive
  <2>1. walk'.root = walk.root
    <3>1. Walked(resp).root = walk.root
      BY <1>2 DEF Walked, Walks
    <3> QED BY <1>9, <3>1 DEF Receive
  <2> QED BY <1>9, <2>1 DEF Receive, SmallInv
<1>10. CASE EndWalk
  <2>1. SmallOid(NoWalk.root)
    BY MibAssumption, EmptySeq DEF SmallOid, NoWalk
  <2> QED BY <1>10, <2>1 DEF EndWalk, SmallInv
<1> QED BY <1>4, <1>5, <1>6, <1>7, <1>8, <1>9, <1>10 DEF Next, vars

LEMMA SmallInvSays == SmallInv => NextIsSuccessor /\ BulkIsRepeatedNext
<1> SUFFICES ASSUME SmallInv
             PROVE  NextIsSuccessor /\ BulkIsRepeatedNext
  OBVIOUS
<1>1. \A type : Answered(type) => resp # NoAnswer /\ Ok(req, resp, type)
  BY DEF Answered, Ok, NoAnswer
<1>2. NextIsSuccessor
  BY <1>1 DEF SmallInv, NextExact, NextIsSuccessor
<1>3. BulkIsRepeatedNext
  BY <1>1 DEF SmallInv, BulkExact, BulkPlaces, BulkIsRepeatedNext, Depth
<1> QED BY <1>2, <1>3

LEMMA SmallInvAlways ==
    ASSUME SmallProbes, SmallRoots
    PROVE  Spec => []SmallInv
  BY SmallInvInit, SmallInvNext, PTL DEF Spec

\* GETNEXT names the variable after each OID in the order of OIDs, although the
\* agent compares subids as signed numbers, for every table and every request
\* whose subids are below half the base (snmp_get_next, oid_cmp).
THEOREM NextsAreSuccessors ==
    ASSUME SmallProbes, SmallRoots
    PROVE  Spec => []NextIsSuccessor
  BY SmallInvAlways, SmallInvSays, PTL

\* GETBULK repeats GETNEXT as its comment says, for every table, every number of
\* OIDs and of repetitions (handle_snmp_getbulk).
THEOREM BulksRepeatNext ==
    ASSUME SmallProbes, SmallRoots
    PROVE  Spec => []BulkIsRepeatedNext
  BY SmallInvAlways, SmallInvSays, PTL
-----------------------------------------------------------------------------
(* A walk from a root whose subids are below half the base.                  *)

\* A walk asks about the last variable it got, its answer names the next ones,
\* and nothing is asked any more when it is done.
WalkInv ==
    /\ MibInv /\ SmallOid(walk.root) /\ WalkAt(walk)
    /\ walk.state = "done" => req = NoRequest
    /\ walk.state = "on" /\ req # NoRequest => req = WalkRequest(WalkOid(walk), walk.step)
    /\ walk.state = "on" /\ resp # NoAnswer => WalkAnswer(WalkOid(walk), resp)

LEMMA WalkStarts ==
    ASSUME MibOK, NEW w, w.got = <<>>, SmallOid(w.root)
    PROVE  WalkAt(w)
<1>1. Cardinality(After(w.root)) = Len(mib) - MibFindnext(w.root) + 1
      /\ MibFindnext(w.root) \in 1 .. Len(mib) + 1 /\ Len(mib) \in Nat
  BY RankIsFindnext, FindnextIsNext, MibFacts
<1>2. Len(w.got) = 0 /\ w.got \in Seq(Variables)
  BY EmptySeq
<1>3. 0 <= Cardinality(After(w.root))
  BY <1>1
<1> QED BY <1>2, <1>3 DEF WalkAt

LEMMA WalkStays ==
    ASSUME mib' = mib
    PROVE  /\ WalkAt(walk') => WalkAt(walk)'
           /\ WalkAnswer(WalkOid(walk'), resp') => WalkAnswer(WalkOid(walk), resp)'
           /\ WalkOid(walk)' = WalkOid(walk')
           /\ Cardinality(After(walk.root))' = Cardinality(After(walk'.root))
<1>1. WalkOid(walk)' = WalkOid(walk')
  BY DEF WalkOid
<1>2. WalkAnswer(WalkOid(walk'), resp') => WalkAnswer(WalkOid(walk), resp)'
  BY <1>1, TableStays DEF WalkAnswer
<1>3. WalkAt(walk') => WalkAt(walk)'
  BY TableStays DEF WalkAt
<1>4. Cardinality(After(walk.root))' = Cardinality(After(walk'.root))
  BY TableStays
<1> QED BY <1>1, <1>2, <1>3, <1>4

LEMMA WalkInvInit == Init => WalkInv
<1> SUFFICES ASSUME Init
             PROVE  WalkInv
  OBVIOUS
<1>1. MibInv /\ MibOK
  BY MibInvInit DEF MibInv
<1>2. walk = NoWalk /\ walk.got = <<>> /\ walk.root = <<>> /\ walk.state = "off"
  BY DEF Init, NoWalk
<1>3. SmallOid(walk.root)
  BY <1>2, MibAssumption, EmptySeq DEF SmallOid
<1>4. WalkAt(walk)
  BY <1>1, <1>2, <1>3, WalkStarts
<1> QED BY <1>1, <1>2, <1>3, <1>4 DEF WalkInv

\* The answer a walk is in the course of receiving.
LEMMA WalkReceives ==
    ASSUME WalkInv, Receive, walk.state = "on"
    PROVE  /\ walk' = Walked(resp) /\ req = WalkRequest(WalkOid(walk), walk.step)
           /\ walk'.root = walk.root /\ walk'.step = walk.step
           /\ walk'.state \in {"on", "done"} /\ WalkAt(walk')
           /\ walk'.state = "on" => Less(WalkOid(walk), Last(walk'.got))
           /\ resp.kind = "response" /\ walk'.state = "done" =>
                 Len(walk'.got) = Cardinality(After(walk.root))
<1>1. MibOK /\ SmallOid(walk.root) /\ WalkAt(walk)
  BY DEF WalkInv, MibInv
<1>2. walk = [state |-> walk.state, root |-> walk.root, got |-> walk.got, step |-> walk.step]
  BY DEF WalkInv, MibInv, Walks
<1>3. walk' = Walked(resp) /\ resp # NoAnswer
  BY DEF Receive
<1>4. WalkAnswer(WalkOid(walk), resp)
  BY <1>3 DEF WalkInv
<1>5. req = WalkRequest(WalkOid(walk), walk.step)
  <2>1. req \in Requests
    BY <1>3 DEF WalkInv, MibInv
  <2> QED BY <2>1, NoneIsNone DEF WalkInv
<1> DEFINE w == Walked(resp)
<1>6. /\ w.root = walk.root /\ w.step = walk.step /\ w.state \in {"on", "done"} /\ WalkAt(w)
      /\ w.state = "on" => Less(WalkOid(walk), Last(w.got))
      /\ resp.kind = "response" /\ w.state = "done" =>
            Len(w.got) = Cardinality(After(walk.root))
  BY <1>1, <1>2, <1>4, WalkedMeans
<1> HIDE DEF w
<1>7. walk' = w
  BY <1>3 DEF w
<1> QED BY <1>3, <1>5, <1>6, <1>7

LEMMA WalkInvNext ==
    ASSUME SmallRoots
    PROVE  WalkInv /\ [Next]_vars => WalkInv'
<1> SUFFICES ASSUME WalkInv, [Next]_vars
             PROVE  WalkInv'
  OBVIOUS
<1>1. mib' = mib
  BY DEF Next, Probe, StartWalk, WalkOn, Answer, Receive, EndWalk, vars
<1>2. MibInv /\ MibInv' /\ MibOK /\ walk \in Walks
  BY MibInvNext DEF WalkInv, MibInv
<1>3. SUFFICES /\ SmallOid(walk'.root) /\ WalkAt(walk')
               /\ walk'.state = "done" => req' = NoRequest
               /\ walk'.state = "on" /\ req' # NoRequest =>
                     req' = WalkRequest(WalkOid(walk'), walk'.step)
               /\ walk'.state = "on" /\ resp' # NoAnswer => WalkAnswer(WalkOid(walk'), resp')
  <2>1. \A q, o, n : q = WalkRequest(o, n) => (q = WalkRequest(o, n))'
    BY DEF WalkRequest
  <2> QED BY <1>1, <1>2, <2>1, WalkStays DEF WalkInv
<1>4. CASE UNCHANGED <<req, resp, walk>>
  BY <1>4 DEF WalkInv
<1>5. CASE Probe
  <2>1. walk' = walk /\ walk.state = "off"
    BY <1>5 DEF Probe
  <2> QED BY <2>1 DEF WalkInv
<1>6. CASE StartWalk
  <2>1. PICK root \in Roots, n \in Repetitions \cup {0} :
            walk' = [state |-> "on", root |-> root, got |-> <<>>, step |-> n]
    BY <1>6 DEF StartWalk
  <2>2. SmallOid(walk'.root) /\ walk'.got = <<>> /\ walk'.state = "on"
    BY <2>1 DEF SmallRoots
  <2>3. WalkAt(walk')
    BY <1>2, <2>2, WalkStarts
  <2>4. req' = NoRequest /\ resp' = NoAnswer
    BY <1>2, <1>6, NoneIsNone DEF StartWalk, MibInv
  <2> QED BY <2>2, <2>3, <2>4
<1>7. CASE WalkOn
  <2>1. req' = WalkRequest(WalkOid(walk), walk.step)
    BY <1>7 DEF WalkOn, WalkRequest, WalkOid
  <2>2. resp' = NoAnswer /\ walk' = walk /\ walk.state = "on"
    BY <1>2, <1>7, NoneIsNone DEF WalkOn, MibInv
  <2> QED BY <2>1, <2>2 DEF WalkInv
<1>8. CASE Answer
  <2>1. req' = req /\ walk' = walk /\ resp' = Snmp(req) /\ req # NoRequest
    BY <1>8 DEF Answer
  <2>2. ASSUME walk.state = "on"
        PROVE  WalkAnswer(WalkOid(walk), Snmp(req))
    <3>1. req = WalkRequest(WalkOid(walk), walk.step)
      BY <2>1, <2>2 DEF WalkInv
    <3>2. SmallOid(WalkOid(walk)) /\ walk.step \in Nat
      BY <1>2, WalkOidSmall DEF WalkInv, Walks
    <3> QED BY <1>2, <3>1, <3>2, WalkReply
  <2> QED BY <2>1, <2>2 DEF WalkInv
<1>9. CASE Receive
  <2>1. req' = NoRequest /\ resp' = NoAnswer
    BY <1>9 DEF Receive
  <2>2. CASE walk.state = "on"
    BY <1>9, <2>1, <2>2, WalkReceives DEF WalkInv
  <2>3. CASE walk.state # "on"
    <3>1. walk' = walk
      BY <1>9, <2>3 DEF Receive
    <3> QED BY <2>1, <2>3, <3>1 DEF WalkInv
  <2> QED BY <2>2, <2>3
<1>10. CASE EndWalk
  <2>1. walk' = NoWalk
    BY <1>10 DEF EndWalk
  <2>2. walk'.got = <<>> /\ walk'.root = <<>> /\ walk'.state = "off"
    BY <2>1 DEF NoWalk
  <2>3. SmallOid(walk'.root)
    BY <2>2, MibAssumption, EmptySeq DEF SmallOid
  <2>4. WalkAt(walk')
    BY <1>2, <2>2, <2>3, WalkStarts
  <2> QED BY <2>2, <2>3, <2>4
<1> QED BY <1>4, <1>5, <1>6, <1>7, <1>8, <1>9, <1>10 DEF Next, vars

LEMMA WalkInvAlways ==
    ASSUME SmallRoots
    PROVE  Spec => []WalkInv
  BY WalkInvInit, WalkInvNext, PTL DEF Spec

\* A walk is at a later OID after each answer, or it is done, for every table
\* and however the walk asks: an agent that answers cannot keep it for ever.
THEOREM WalksMove ==
    ASSUME SmallRoots
    PROVE  Spec => WalkMoves
<1>1. WalkInv /\ [Next]_vars =>
          [walk.state = "on" /\ resp # NoAnswer =>
              walk'.state = "done" \/ Less(req.oids[1], Last(walk'.got))]_vars
  <2> SUFFICES ASSUME WalkInv, Next, walk.state = "on", resp # NoAnswer
               PROVE  walk'.state = "done" \/ Less(req.oids[1], Last(walk'.got))
    OBVIOUS
  <2>1. req # NoRequest /\ walk.step \in Nat
    BY NoneIsNone DEF WalkInv, MibInv, Walks
  <2>2. Receive
    BY <2>1 DEF Next, Probe, StartWalk, WalkOn, Answer, EndWalk
  <2>3. WalkOid(walk) \in Oids
    BY WalkOidType DEF WalkInv, MibInv
  <2>4. req.oids[1] = WalkOid(walk)
    <3>1. req.oids = <<WalkOid(walk)>>
      BY <2>1, <2>2, <2>3, WalkReceives, WalkRequestType
    <3> QED BY <3>1
  <2> QED BY <2>2, <2>4, WalkReceives
<1>2. Spec => []WalkInv
  BY WalkInvAlways
<1> QED BY <1>1, <1>2, PTL DEF Spec, WalkMoves
\* One variable, and as many as a walk asks for at a time, fit an answer.
WalksFit == \A n \in Repetitions \cup {1} : n <= MaxValues /\ n <= PacketRoom

\* Such a walk is always answered, so that it is done when it has everything.
FullInv ==
    /\ WalkInv /\ walk.step \in Repetitions \cup {0}
    /\ walk.state = "on" /\ resp # NoAnswer => resp.kind = "response"
    /\ walk.state = "done" => Len(walk.got) = Cardinality(After(walk.root))

LEMMA FullInvInit == Init => FullInv
  BY WalkInvInit DEF Init, NoWalk, FullInv

LEMMA FullInvNext ==
    ASSUME SmallRoots, WalksFit
    PROVE  FullInv /\ [Next]_vars => FullInv'
<1> SUFFICES ASSUME FullInv, [Next]_vars
             PROVE  FullInv'
  OBVIOUS
<1>1. mib' = mib
  BY DEF Next, Probe, StartWalk, WalkOn, Answer, Receive, EndWalk, vars
<1>2. WalkInv /\ WalkInv' /\ MibInv /\ MibOK /\ walk \in Walks
  BY WalkInvNext DEF FullInv, WalkInv, MibInv
<1>3. SUFFICES /\ walk'.step \in Repetitions \cup {0}
               /\ walk'.state = "on" /\ resp' # NoAnswer => resp'.kind = "response"
               /\ walk'.state = "done" => Len(walk'.got) = Cardinality(After(walk'.root))
  BY <1>1, <1>2, WalkStays DEF FullInv
<1>4. CASE UNCHANGED <<req, resp, walk>>
  BY <1>4 DEF FullInv
<1>5. CASE Probe
  <2>1. walk' = walk /\ walk.state = "off"
    BY <1>5 DEF Probe
  <2> QED BY <2>1 DEF FullInv
<1>6. CASE StartWalk
  <2>1. PICK root \in Roots, n \in Repetitions \cup {0} :
            walk' = [state |-> "on", root |-> root, got |-> <<>>, step |-> n]
    BY <1>6 DEF StartWalk
  <2>2. resp' = NoAnswer
    BY <1>2, <1>6, NoneIsNone DEF StartWalk, MibInv
  <2> QED BY <2>1, <2>2
<1>7. CASE WalkOn
  <2>1. resp' = NoAnswer /\ walk' = walk
    BY <1>2, <1>7, NoneIsNone DEF WalkOn, MibInv
  <2> QED BY <2>1 DEF FullInv
<1>8. CASE Answer
  <2>1. req' = req /\ walk' = walk /\ resp' = Snmp(req) /\ req # NoRequest
    BY <1>8 DEF Answer
  <2>2. ASSUME walk.state = "on"
        PROVE  Snmp(req).kind = "response"
    <3> DEFINE n == walk.step
    <3>1. req = WalkRequest(WalkOid(walk), n)
      BY <1>2, <2>1, <2>2 DEF WalkInv
    <3>2. SmallOid(WalkOid(walk)) /\ n \in Nat /\ n \in Repetitions \cup {0}
      BY <1>2, WalkOidSmall DEF FullInv, WalkInv, Walks
    <3> HIDE DEF n
    <3>3. 1 <= MaxValues /\ 1 <= PacketRoom
      BY DEF WalksFit
    <3>4. n = 0 \/ (n <= MaxValues /\ n <= PacketRoom)
      BY <3>2 DEF WalksFit
    <3>5. n <= MaxValues /\ n <= PacketRoom
      BY <3>2, <3>3, <3>4, MibAssumption
    <3> QED BY <1>2, <3>1, <3>2, <3>3, <3>5, WalkReply
  <2> QED BY <2>1, <2>2 DEF FullInv
<1>9. CASE Receive
  <2>1. resp' = NoAnswer
    BY <1>9 DEF Receive
  <2>2. CASE walk.state = "on"
    <3>1. resp.kind = "response"
      BY <1>9, <2>2 DEF FullInv, Receive
    <3> QED BY <1>2, <1>9, <2>1, <2>2, <3>1, WalkReceives DEF FullInv
  <2>3. CASE walk.state # "on"
    <3>1. walk' = walk
      BY <1>9, <2>3 DEF Receive
    <3> QED BY <2>1, <3>1 DEF FullInv
  <2> QED BY <2>2, <2>3
<1>10. CASE EndWalk
  <2>1. walk' = NoWalk
    BY <1>10 DEF EndWalk
  <2>2. walk'.state = "off" /\ walk'.step = 0
    BY <2>1 DEF NoWalk
  <2> QED BY <2>2
<1> QED BY <1>4, <1>5, <1>6, <1>7, <1>8, <1>9, <1>10 DEF Next, vars

LEMMA FullInvSays == FullInv => WalkIsComplete
<1> SUFFICES ASSUME FullInv
             PROVE  WalkIsComplete
  OBVIOUS
<1>1. DOMAIN walk.got = 1 .. Len(walk.got)
  BY LenProperties DEF FullInv, WalkInv, WalkAt
<1> QED BY <1>1 DEF FullInv, WalkInv, WalkAt, WalkIsComplete

\* A walk gets the variables after its root one by one, none twice, and when it is
\* done it has all of them, for every table, by GETNEXT or by any GETBULK whose
\* repetitions fit an answer.
THEOREM WalksAreComplete ==
    ASSUME SmallRoots, WalksFit
    PROVE  Spec => []WalkIsComplete
<1>1. Spec => []FullInv
  BY FullInvInit, FullInvNext, PTL DEF Spec
<1> QED BY <1>1, FullInvSays, PTL
=============================================================================
