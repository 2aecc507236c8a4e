---------------------------- MODULE SnmpBerProofs ----------------------------
(* Proofs about SnmpBer: what is written in BER is read as it was meant.      *)
EXTENDS SnmpBer, SequenceLemmas

\* What two bytes count to.
Word == 65536

\* A word counts.
LEMMA WordType == Word \in Nat
  BY DEF Word

\* What the limits are known to be.
LEMMA Sizes ==
    /\ MaxPacket \in Nat \ {0} /\ MaxSubids \in Nat \ {0} /\ IntBytes \in Nat \ {0}
    /\ MaxPacket < Word /\ MaxSubids >= 2 /\ IntBytes < 128
BY BerAssumption DEF Word

-----------------------------------------------------------------------------
(* Numbers and their digits.                                                 *)

\* Quotient and remainder.
LEMMA Division ==
    ASSUME NEW n \in Int, NEW b \in Nat \ {0}
    PROVE  /\ n \div b \in Int /\ n % b \in 0 .. b - 1
           /\ n = (n \div b) * b + (n % b)
           /\ n >= 0 => n \div b >= 0
  OBVIOUS

\* There is only one of each.
LEMMA DivisionUnique ==
    ASSUME NEW n \in Int, NEW b \in Nat \ {0}, NEW q \in Int, NEW r \in 0 .. b - 1,
           n = q * b + r
    PROVE  n \div b = q /\ n % b = r
  OBVIOUS

\* Dividing by one number and then by another.
LEMMA DivisionTwice ==
    ASSUME NEW n \in Int, NEW b \in Nat \ {0}, NEW c \in Nat \ {0}
    PROVE  (n \div b) \div c = n \div (b * c)
  OBVIOUS

\* One turn of Number stays among the integers.
LEMMA TimesPlus == ASSUME NEW x \in Int, NEW y \in Int, NEW d \in Int PROVE x * y + d \in Int
  OBVIOUS

\* n[i] is the number of the first i digits.
Counts(n, start, digits, base) ==
    n[0] = start /\ \A i \in 1 .. Len(digits) : n[i] = n[i - 1] * base + digits[i]

\* The function Number is defined by exists.
LEMMA NumberLoop ==
    ASSUME NEW start \in Int, NEW base \in Int, NEW digits \in Seq(Int)
    PROVE  \E n \in [0 .. Len(digits) -> Int] :
               Counts(n, start, digits, base) /\ Number(start, digits, base) = n[Len(digits)]
<1> DEFINE N == Len(digits)
           n == CHOOSE n : n = [i \in 0 .. N |-> IF i = 0 THEN start
                                                 ELSE n[i - 1] * base + digits[i]]
           Turn == [i \in 1 .. N |-> [x \in Int |-> x * base + digits[i]]]
<1>1. N \in Nat /\ \A i \in 1 .. N : digits[i] \in Int
  BY LenProperties, ElementOfSeq
<1>2. Number(start, digits, base) = n[N]
  BY DEF Number
<1> HIDE DEF n
<1>3. Turn \in [1 .. N -> [Int -> Int]]
  BY <1>1
<1>4. PICK f \in [0 .. N -> Int] : IsLoop(f, N, start, Turn)
  <2> HIDE DEF N, Turn
  <2> QED BY <1>1, <1>3, LoopExists, Zenon
<1>5. \A i \in 1 .. N : f[i] = f[i - 1] * base + digits[i]
  <2> SUFFICES ASSUME NEW i \in 1 .. N
               PROVE  f[i] = f[i - 1] * base + digits[i]
    OBVIOUS
  <2>1. f[i - 1] \in Int
    BY <1>1
  <2>2. f[i] = Turn[i][f[i - 1]]
    BY <1>4 DEF IsLoop
  <2> QED BY <2>1, <2>2
<1> HIDE DEF Turn
<1>6. f = [i \in 0 .. N |-> IF i = 0 THEN start ELSE f[i - 1] * base + digits[i]]
  <2>1. \A i \in 0 .. N : i = 0 \/ i \in 1 .. N
    BY <1>1
  <2>2. f[0] = start /\ f = [i \in 0 .. N |-> f[i]]
    BY <1>1, <1>4 DEF IsLoop
  <2> QED BY <1>5, <2>1, <2>2
<1>7. n = [i \in 0 .. N |-> IF i = 0 THEN start ELSE n[i - 1] * base + digits[i]]
  <2>1. \E h : h = [i \in 0 .. N |-> IF i = 0 THEN start ELSE h[i - 1] * base + digits[i]]
    BY <1>6
  <2> QED BY <2>1 DEF n
<1> HIDE DEF N
<1>8. n[0] = start /\ \A i \in 1 .. N : n[i] = n[i - 1] * base + digits[i]
  BY <1>1, <1>7
<1>9. \A i \in 0 .. N : n[i] \in Int
  <2> DEFINE T == {i \in Nat : i <= N => n[i] \in Int}
  <2>1. 0 \in T
    BY <1>8
  <2>2. ASSUME NEW i \in Nat, i \in T
        PROVE  i + 1 \in T
    <3> SUFFICES ASSUME i + 1 <= N
                 PROVE  n[i + 1] \in Int
      OBVIOUS
    <3>1. i + 1 \in 1 .. N /\ (i + 1) - 1 = i /\ n[i] \in Int
      BY <1>1, <2>2
    <3>2. n[i + 1] = n[i] * base + digits[i + 1] /\ digits[i + 1] \in Int
      BY <1>1, <1>8, <3>1
    <3> HIDE DEF T
    <3> QED BY <3>1, <3>2, TimesPlus
  <2>3. \A i \in Nat : i \in T
    <3> HIDE DEF T
    <3> QED BY <2>1, <2>2, InductionOnNat
  <2> QED BY <1>1, <2>3
<1>10. n \in [0 .. N -> Int]
  BY <1>7, <1>9
<1> QED BY <1>2, <1>8, <1>10 DEF N, Counts

\* A number is what a loop makes that takes digit after digit.
LEMMA NumberIs ==
    ASSUME NEW start \in Int, NEW base \in Int, NEW digits \in Seq(Int), NEW g,
           Counts(g, start, digits, base)
    PROVE  Number(start, digits, base) = g[Len(digits)]
<1> DEFINE N == Len(digits)
<1>1. N \in Nat
  BY LenProperties
<1>2. PICK n \in [0 .. N -> Int] :
          Counts(n, start, digits, base) /\ Number(start, digits, base) = n[N]
  BY NumberLoop, Zenon
<1> DEFINE T == {i \in Nat : i <= N => n[i] = g[i]}
<1>3. 0 \in T
  BY <1>2 DEF Counts
<1>4. ASSUME NEW i \in Nat, i \in T
      PROVE  i + 1 \in T
  <2> SUFFICES ASSUME i + 1 <= N
               PROVE  n[i + 1] = g[i + 1]
    OBVIOUS
  <2>1. i + 1 \in 1 .. N /\ (i + 1) - 1 = i /\ n[i] = g[i]
    BY <1>1, <1>4
  <2>2. n[i + 1] = n[i] * base + digits[i + 1] /\ g[i + 1] = g[i] * base + digits[i + 1]
    BY <1>2, <2>1 DEF Counts
  <2> QED BY <2>1, <2>2
<1>5. \A i \in Nat : i \in T
  <2> HIDE DEF T
  <2> QED BY <1>3, <1>4, InductionOnNat
<1>6. n[N] = g[N]
  BY <1>1, <1>5
<1> QED BY <1>2, <1>6

\* A number of digits is an integer.
LEMMA NumberType ==
    ASSUME NEW start \in Int, NEW base \in Int, NEW digits \in Seq(Int)
    PROVE  Number(start, digits, base) \in Int
BY NumberLoop, LenProperties

-----------------------------------------------------------------------------
(* Powers.                                                                   *)

\* The first power is one.
LEMMA PowerZero == ASSUME NEW base \in Int PROVE Power(base, 0) = 1
<1> DEFINE zeros == [i \in 1 .. 0 |-> 0]
           g     == [i \in 0 .. 0 |-> 1]
<1>1. zeros \in Seq(Int) /\ Len(zeros) = 0 /\ 1 \in Int
  OBVIOUS
<1>2. g[0] = 1
  OBVIOUS
<1> HIDE DEF zeros, g
<1>3. Counts(g, 1, zeros, base)
  BY <1>1, <1>2 DEF Counts
<1>4. Number(1, zeros, base) = g[Len(zeros)]
  <2>1. zeros \in Seq(Int) /\ 1 \in Int
    BY <1>1
  <2> QED BY <2>1, <1>3, NumberIs, Zenon
<1> QED BY <1>1, <1>2, <1>4 DEF Power, zeros

\* Each power is the base times the one before.
LEMMA PowerNext ==
    ASSUME NEW base \in Int, NEW k \in Nat
    PROVE  Power(base, k + 1) = Power(base, k) * base /\ Power(base, k) \in Int
<1> DEFINE zeros(m) == [i \in 1 .. m |-> 0]
<1>1. \A m \in Nat : zeros(m) \in Seq(Int) /\ Len(zeros(m)) = m /\ \A i \in 1 .. m : zeros(m)[i] = 0
  OBVIOUS
<1>2. \A m : Power(base, m) = Number(1, zeros(m), base)
  BY DEF Power
<1> HIDE DEF zeros
<1>3. PICK n \in [0 .. k + 1 -> Int] :
          /\ n[0] = 1 /\ \A i \in 1 .. k + 1 : n[i] = n[i - 1] * base + zeros(k + 1)[i]
          /\ Number(1, zeros(k + 1), base) = n[k + 1]
  <2>1. zeros(k + 1) \in Seq(Int) /\ Len(zeros(k + 1)) = k + 1 /\ 1 \in Int
    BY <1>1
  <2>2. \E n \in [0 .. Len(zeros(k + 1)) -> Int] :
            /\ Counts(n, 1, zeros(k + 1), base)
            /\ Number(1, zeros(k + 1), base) = n[Len(zeros(k + 1))]
    BY <2>1, NumberLoop, Zenon
  <2> QED BY <2>1, <2>2 DEF Counts
<1>4. \A i \in 1 .. k : n[i] = n[i - 1] * base + zeros(k)[i]
  <2> SUFFICES ASSUME NEW i \in 1 .. k
               PROVE  n[i] = n[i - 1] * base + zeros(k)[i]
    OBVIOUS
  <2>1. i \in 1 .. k + 1 /\ k + 1 \in Nat
    OBVIOUS
  <2>2. zeros(k)[i] = 0
    BY <1>1
  <2>3. zeros(k + 1)[i] = 0
    BY <1>1, <2>1
  <2> QED BY <1>3, <2>1, <2>2, <2>3
<1>5. Number(1, zeros(k), base) = n[k]
  <2>1. zeros(k) \in Seq(Int) /\ Len(zeros(k)) = k /\ 1 \in Int
    BY SMTT(30), <1>1
  <2>2. Counts(n, 1, zeros(k), base)
    BY <1>3, <1>4, <2>1 DEF Counts
  <2>3. Number(1, zeros(k), base) = n[Len(zeros(k))]
    BY <2>1, <2>2, NumberIs, ZenonT(30)
  <2> QED BY <2>1, <2>3
<1>6. n[k + 1] = n[k] * base + 0 /\ n[k] \in Int
  <2>1. k + 1 \in 1 .. k + 1 /\ (k + 1) - 1 = k /\ zeros(k + 1)[k + 1] = 0 /\ k \in 0 .. k + 1
    BY <1>1
  <2> QED BY <1>3, <2>1
<1>7. n[k] * base + 0 = n[k] * base
  <2> DEFINE x == n[k]
  <2>1. x \in Int
    BY <1>6
  <2> HIDE DEF x
  <2>2. x * base + 0 = x * base
    BY <2>1
  <2> QED BY <2>2 DEF x
<1> QED BY <1>2, <1>3, <1>5, <1>6, <1>7

\* Powers of a base are positive.
LEMMA PowerPositive ==
    ASSUME NEW base \in Nat \ {0}, NEW k \in Nat
    PROVE  Power(base, k) \in Nat \ {0}
<1> DEFINE T == {m \in Nat : Power(base, m) \in Nat \ {0}}
<1>1. 0 \in T
  BY PowerZero
<1>2. ASSUME NEW m \in Nat, m \in T
      PROVE  m + 1 \in T
  <2> DEFINE p == Power(base, m)
  <2>1. p \in Nat \ {0} /\ Power(base, m + 1) = p * base
    BY <1>2, PowerNext
  <2> HIDE DEF p
  <2>2. p * base \in Nat \ {0}
    BY <2>1
  <2> QED BY <2>1, <2>2
<1> HIDE DEF T
<1>3. k \in T
  BY <1>1, <1>2, InductionOnNat
<1> QED BY <1>3 DEF T

\* The power of a sum is the product of the powers.
LEMMA PowerSum ==
    ASSUME NEW base \in Nat \ {0}, NEW j \in Nat, NEW k \in Nat
    PROVE  Power(base, j + k) = Power(base, j) * Power(base, k)
<1> DEFINE T == {m \in Nat : Power(base, j + m) = Power(base, j) * Power(base, m)}
<1>1. 0 \in T
  <2>1. Power(base, j) \in Int /\ j + 0 = j
    BY PowerNext
  <2> QED BY <2>1, PowerZero
<1>2. ASSUME NEW m \in Nat, m \in T
      PROVE  m + 1 \in T
  <2> DEFINE p == Power(base, j)
             q == Power(base, m)
  <2>1. p \in Int /\ q \in Int /\ Power(base, m + 1) = q * base /\ Power(base, j + m) = p * q
    BY <1>2, PowerNext
  <2>2. Power(base, (j + m) + 1) = Power(base, j + m) * base /\ j + (m + 1) = (j + m) + 1
    <3>1. j + m \in Nat
      OBVIOUS
    <3> QED BY <3>1, PowerNext
  <2>3. Power(base, j + (m + 1)) = (p * q) * base
    BY <2>1, <2>2
  <2> HIDE DEF p, q
  <2>4. (p * q) * base = p * (q * base)
    BY <2>1
  <2> QED BY <2>1, <2>3, <2>4 DEF p
<1> HIDE DEF T
<1>3. k \in T
  BY <1>1, <1>2, InductionOnNat
<1> QED BY <1>3 DEF T

\* No higher power is less.
LEMMA PowerGrows ==
    ASSUME NEW base \in Nat \ {0}, NEW j \in Nat, NEW k \in Nat, j <= k
    PROVE  Power(base, j) <= Power(base, k)
<1> DEFINE p == Power(base, j)
           q == Power(base, k - j)
<1>1. k - j \in Nat /\ j + (k - j) = k
  OBVIOUS
<1>2. Power(base, k) = p * q /\ p \in Nat \ {0} /\ q \in Nat \ {0}
  <2>1. Power(base, j + (k - j)) = p * q
    BY <1>1, PowerSum
  <2> QED BY <1>1, <2>1, PowerPositive
<1> HIDE DEF p, q
<1>3. p <= p * q
  BY <1>2
<1> QED BY <1>2, <1>3 DEF p

-----------------------------------------------------------------------------
(* Digits.                                                                   *)

\* Digits are below the base, and as many as were asked for.
LEMMA DigitsType ==
    ASSUME NEW n \in Int, NEW base \in Nat \ {0}, NEW k \in Nat
    PROVE  /\ Digits(n, base, k) \in Seq(0 .. base - 1) /\ Len(Digits(n, base, k)) = k
           /\ \A i \in 1 .. k : Digits(n, base, k)[i] = (n \div Power(base, k - i)) % base
<1>1. ASSUME NEW i \in 1 .. k
      PROVE  (n \div Power(base, k - i)) % base \in 0 .. base - 1
  <2>1. Power(base, k - i) \in Nat \ {0}
    BY PowerPositive
  <2>2. n \div Power(base, k - i) \in Int
    BY <2>1, Division
  <2> QED BY <2>2, Division
<1> DEFINE d(i) == (n \div Power(base, k - i)) % base
<1>2. Digits(n, base, k) = [i \in 1 .. k |-> d(i)]
  BY DEF Digits
<1>3. \A i \in 1 .. k : d(i) \in 0 .. base - 1
  BY <1>1
<1> HIDE DEF d
<1>4. [i \in 1 .. k |-> d(i)] \in Seq(0 .. base - 1)
  BY <1>3
<1>5. Len([i \in 1 .. k |-> d(i)]) = k /\ \A i \in 1 .. k : [j \in 1 .. k |-> d(j)][i] = d(i)
  BY <1>3
<1> QED BY <1>2, <1>4, <1>5 DEF d

\* The digits are those of the number.
LEMMA DigitsNumber ==
    ASSUME NEW n \in Int, NEW base \in Nat \ {0}, NEW k \in Nat
    PROVE  /\ Counts([i \in 0 .. k |-> n \div Power(base, k - i)], n \div Power(base, k),
                     Digits(n, base, k), base)
           /\ Number(n \div Power(base, k), Digits(n, base, k), base) = n
<1> DEFINE d == Digits(n, base, k)
           g == [i \in 0 .. k |-> n \div Power(base, k - i)]
<1>1. d \in Seq(0 .. base - 1) /\ Len(d) = k
      /\ \A i \in 1 .. k : d[i] = (n \div Power(base, k - i)) % base
  BY DigitsType
<1>2. d \in Seq(Int)
  <2>1. 0 .. base - 1 \subseteq Int
    OBVIOUS
  <2> QED BY <1>1, <2>1, SeqMonotonic
<1> HIDE DEF d
<1>3. \A i \in 0 .. k : g[i] = n \div Power(base, k - i)
  OBVIOUS
<1>4. g[0] = n \div Power(base, k) /\ g[k] = n
  <2>1. k - 0 = k /\ k - k = 0 /\ n \div 1 = n
    OBVIOUS
  <2> QED BY <1>3, <2>1, PowerZero
<1> HIDE DEF g
<1>5. ASSUME NEW i \in 1 .. k
      PROVE  g[i] = g[i - 1] * base + d[i]
  <2> DEFINE c == Power(base, k - i)
             q == n \div c
  <2>1. k - i \in Nat /\ (k - i) + 1 = k - (i - 1) /\ i - 1 \in 0 .. k /\ i \in 0 .. k
    OBVIOUS
  <2>2. c \in Nat \ {0}
    BY <2>1, PowerPositive
  <2>3. Power(base, k - (i - 1)) = c * base
    <3>1. Power(base, (k - i) + 1) = c * base
      BY <2>1, PowerNext
    <3> QED BY <2>1, <3>1
  <2>4. g[i] = q /\ g[i - 1] = n \div (c * base) /\ d[i] = q % base
    BY <1>1, <1>3, <2>1, <2>3
  <2> HIDE DEF c
  <2>5. q \in Int /\ q \div base = n \div (c * base)
    BY <2>2, Division, DivisionTwice
  <2> HIDE DEF q
  <2>6. q = (q \div base) * base + (q % base)
    BY <2>5, Division
  <2> QED BY <2>4, <2>5, <2>6
<1>6. Counts(g, n \div Power(base, k), d, base)
  BY <1>1, <1>4, <1>5 DEF Counts
<1>7. Number(n \div Power(base, k), d, base) = g[Len(d)]
  <2> DEFINE c == Power(base, k)
  <2>1. c \in Nat \ {0}
    BY PowerPositive
  <2>2. Counts(g, n \div c, d, base)
    BY <1>6
  <2> HIDE DEF c
  <2>3. n \div c \in Int /\ base \in Int
    BY <2>1, Division
  <2> DEFINE q == n \div c
  <2> HIDE DEF q
  <2>4. q \in Int /\ Counts(g, q, d, base)
    BY <2>2, <2>3 DEF q
  <2>5. Number(q, d, base) = g[Len(d)]
    BY <1>2, <2>3, <2>4, NumberIs
  <2> QED BY <2>5 DEF q, c
<1> QED BY <1>1, <1>4, <1>6, <1>7 DEF d, g

-----------------------------------------------------------------------------
(* Integers, in two's complement.                                            *)

\* p stands for the lowest bit of the highest of k bytes.
TopByte(p, k) == /\ p = Power(256, k - 1) /\ Power(256, k) = 256 * p
                 /\ Integers(k) = -(128 * p) .. 128 * p - 1

\* The integers of some bytes, by what their first byte weighs.
LEMMA IntegersAre ==
    ASSUME NEW k \in Nat \ {0}
    PROVE  \E p \in Nat \ {0} : TopByte(p, k)
<1> DEFINE p == Power(256, k - 1)
<1>1. k - 1 \in Nat /\ (k - 1) + 1 = k /\ 256 \in Nat \ {0} /\ 256 \in Int
  OBVIOUS
<1>2. p \in Nat \ {0}
  BY <1>1, PowerPositive
<1>3. Power(256, (k - 1) + 1) = p * 256
  BY <1>1, PowerNext
<1>4. Power(256, k) = p * 256
  BY <1>1, <1>3
<1> HIDE DEF p
<1>5. (p * 256) \div 2 = 128 * p /\ p * 256 = 256 * p
  BY <1>2
<1>6. Integers(k) = -(128 * p) .. 128 * p - 1
  BY <1>2, <1>4, <1>5 DEF Integers
<1> QED BY <1>2, <1>4, <1>5, <1>6 DEF p, TopByte

\* What fits some bytes fits more.
LEMMA IntegersGrow ==
    ASSUME NEW j \in Nat \ {0}, NEW k \in Nat, j <= k
    PROVE  Integers(j) \subseteq Integers(k) /\ Integers(j) \subseteq Int
<1>1. k \in Nat \ {0} /\ j - 1 \in Nat /\ k - 1 \in Nat /\ j - 1 <= k - 1
  OBVIOUS
<1>2. PICK p \in Nat \ {0} : TopByte(p, j)
  BY IntegersAre
<1>3. PICK q \in Nat \ {0} : TopByte(q, k)
  BY <1>1, IntegersAre
<1>4. p <= q
  <2>1. p = Power(256, j - 1) /\ q = Power(256, k - 1) /\ 256 \in Nat \ {0}
    BY <1>2, <1>3 DEF TopByte
  <2> QED BY <1>1, <2>1, PowerGrows
<1>5. Integers(j) = -(128 * p) .. 128 * p - 1 /\ Integers(k) = -(128 * q) .. 128 * q - 1
  BY <1>2, <1>3 DEF TopByte
<1>6. \A v \in -(128 * p) .. 128 * p - 1 : v \in -(128 * q) .. 128 * q - 1 /\ v \in Int
  BY <1>4
<1> QED BY <1>5, <1>6

\* The sign bit says what the bytes that are missing are.
SignIsTopBit(v, p) == v \div (256 * p) = IF (v \div p) % 256 < 128 THEN 0 ELSE -1

\* The first byte tells the sign.
LEMMA SignBit ==
    ASSUME NEW p \in Nat \ {0}, NEW v \in -(128 * p) .. 128 * p - 1
    PROVE  SignIsTopBit(v, p)
<1> DEFINE q == v \div p
           r == v % p
<1>1. q \in Int /\ r \in 0 .. p - 1 /\ v = q * p + r
  BY Division
<1> HIDE DEF q, r
<1>2. q \in -128 .. 127
  <2>1. q >= 128 => q * p >= 128 * p
    BY <1>1
  <2>2. q <= -129 => q * p <= -(129 * p)
    BY <1>1
  <2> QED BY <1>1, <2>1, <2>2
<1>3. CASE q >= 0
  <2>1. q % 256 = q /\ q < 128
    BY <1>2, <1>3
  <2>2. v >= 0 /\ v < 256 * p
    <3>1. q * p >= 0
      BY <1>1, <1>3
    <3> QED BY <1>1, <3>1
  <2>3. v \div (256 * p) = 0
    <3>1. 256 * p \in Nat \ {0} /\ v \in 0 .. (256 * p) - 1 /\ v \in Int
      BY <2>2
    <3> DEFINE b == 256 * p
    <3>2. b \in Nat \ {0} /\ v \in 0 .. b - 1 /\ v \in Int
      BY <3>1
    <3> HIDE DEF b
    <3>3. v = 0 * b + v
      BY <3>2
    <3>4. v \div b = 0
      BY <3>2, <3>3, DivisionUnique
    <3> QED BY <3>4 DEF b
  <2> QED BY <2>1, <2>3 DEF q, SignIsTopBit
<1>4. CASE q < 0
  <2>1. q % 256 = q + 256 /\ q + 256 >= 128
    BY <1>2, <1>4
  <2>2. v < 0 /\ v + 256 * p >= 0
    <3>1. q * p <= -p
      BY <1>1, <1>4
    <3> QED BY <1>1, <3>1
  <2>3. v \div (256 * p) = -1
    <3> DEFINE b == 256 * p
    <3>1. b \in Nat \ {0} /\ v + b \in 0 .. b - 1 /\ v \in Int
      BY <2>2
    <3> HIDE DEF b
    <3>2. v = (-1) * b + (v + b)
      BY <3>1
    <3>3. v \div b = -1
      BY <3>1, <3>2, DivisionUnique
    <3> QED BY <3>3 DEF b
  <2> QED BY <2>1, <2>3 DEF q, SignIsTopBit
<1> QED BY <1>1, <1>3, <1>4

IsComplement(v, w, h) == v = IF w < h THEN w ELSE w - 2 * h

\* The bytes of a number are those of its complement.
LEMMA Complement ==
    ASSUME NEW h \in Nat \ {0}, NEW v \in -h .. h - 1
    PROVE  (2 * h) \div 2 = h /\ IsComplement(v, v % (2 * h), h)
<1> DEFINE b == 2 * h
<1>1. b \in Nat \ {0} /\ v \in Int /\ b \div 2 = h
  OBVIOUS
<1>2. CASE v >= 0
  <2>1. v = 0 * b + v /\ v \in 0 .. b - 1
    BY <1>2
  <2>2. v % b = v
    <3> HIDE DEF b
    <3> QED BY <1>1, <2>1, DivisionUnique
  <2> QED BY <1>1, <1>2, <2>2 DEF IsComplement
<1>3. CASE v < 0
  <2>1. v = (-1) * b + (v + b) /\ v + b \in 0 .. b - 1
    BY <1>3
  <2>2. v % b = v + b
    <3> HIDE DEF b
    <3> QED BY <1>1, <2>1, DivisionUnique
  <2> QED BY <1>1, <1>3, <2>2 DEF IsComplement
<1> QED BY <1>1, <1>2, <1>3

\* With its sign before them, the bytes of a number give it back.
LEMMA IntegerBytes ==
    ASSUME NEW k \in Nat \ {0}, NEW v \in Int, v \in Integers(k)
    PROVE  /\ Digits(v, 256, k) \in Seq(0 .. 255) /\ Len(Digits(v, 256, k)) = k
           /\ Number(IF Head(Digits(v, 256, k)) < 128 THEN 0 ELSE -1, Digits(v, 256, k), 256) = v
<1> DEFINE d == Digits(v, 256, k)
<1>1. PICK p \in Nat \ {0} : TopByte(p, k)
  BY IntegersAre
<1>2. /\ p = Power(256, k - 1) /\ Power(256, k) = 256 * p
      /\ Integers(k) = -(128 * p) .. 128 * p - 1
  BY <1>1 DEF TopByte
<1>3. d \in Seq(0 .. 255) /\ Len(d) = k /\ d[1] = (v \div p) % 256
  <2>1. d \in Seq(0 .. 256 - 1) /\ Len(d) = k
        /\ \A i \in 1 .. k : d[i] = (v \div Power(256, k - i)) % 256
    <3> DEFINE b == 256
    <3>1. b \in Nat \ {0} /\ k \in Nat
      OBVIOUS
    <3> HIDE DEF b
    <3>2. /\ Digits(v, b, k) \in Seq(0 .. b - 1) /\ Len(Digits(v, b, k)) = k
          /\ \A i \in 1 .. k : Digits(v, b, k)[i] = (v \div Power(b, k - i)) % b
      BY <3>1, DigitsType, Zenon
    <3> QED BY <3>2 DEF b
  <2>2. 1 \in 1 .. k /\ 256 - 1 = 255
    OBVIOUS
  <2> HIDE DEF d
  <2>3. d[1] = (v \div Power(256, k - 1)) % 256
    BY <2>1, <2>2
  <2> QED BY <1>2, <2>1, <2>2, <2>3
<1>4. Head(d) = d[1]
  <2> HIDE DEF d
  <2>1. d # <<>>
    BY <1>3, EmptySeq
  <2> QED BY <1>3, <2>1, TailEntries
<1>5. v \div (256 * p) = IF (v \div p) % 256 < 128 THEN 0 ELSE -1
  <2>1. SignIsTopBit(v, p)
    BY <1>2, SignBit
  <2> QED BY <2>1 DEF SignIsTopBit
<1>6. v \div Power(256, k) = IF Head(d) < 128 THEN 0 ELSE -1
  <2> HIDE DEF d
  <2> QED BY SMTT(30), <1>2, <1>3, <1>4, <1>5
<1>7. Number(v \div Power(256, k), d, 256) = v
  <2> DEFINE b == 256
  <2>1. b \in Nat \ {0} /\ k \in Nat
    OBVIOUS
  <2> HIDE DEF b
  <2>2. Number(v \div Power(b, k), Digits(v, b, k), b) = v
    BY <2>1, DigitsNumber, Zenon
  <2> QED BY <2>2 DEF b
<1> HIDE DEF d
<1>8. Number(IF Head(d) < 128 THEN 0 ELSE -1, d, 256) = v
  BY <1>6, <1>7, Zenon
<1> QED BY <1>3, <1>8 DEF d

\* An integer is read as it was written, in any number of bytes that holds it
\* (decode_snmp_element_value_integer).
THEOREM IntegerIsRead ==
    ASSUME NEW k \in 1 .. IntBytes, NEW v \in Int, v \in Integers(k)
    PROVE  IntegerOf(Digits(v, 256, k)) = v
<1> DEFINE d == Digits(v, 256, k)
<1>1. IntBytes \in Nat \ {0} /\ k \in Nat \ {0} /\ k <= IntBytes
  BY Sizes
<1>2. Number(IF Head(d) < 128 THEN 0 ELSE -1, d, 256) = v
  BY <1>1, IntegerBytes
<1> HIDE DEF d
<1>3. IntegerOf(d) = IF v % IntBase < IntBase \div 2 THEN v % IntBase ELSE (v % IntBase) - IntBase
  BY <1>2 DEF IntegerOf
<1>4. PICK q \in Nat \ {0} : TopByte(q, IntBytes)
  BY <1>1, IntegersAre
<1>5. v \in Integers(IntBytes)
  BY <1>1, IntegersGrow
<1>6. PICK h \in Nat \ {0} : h = 128 * q
  BY <1>4
<1>7. IntBase = 2 * h /\ v \in -h .. h - 1
  BY <1>4, <1>5, <1>6 DEF IntBase, TopByte
<1>8. (2 * h) \div 2 = h /\ IsComplement(v, v % (2 * h), h)
  BY <1>7, Complement
<1> QED BY <1>3, <1>7, <1>8 DEF d, IsComplement

-----------------------------------------------------------------------------
(* Subids.                                                                   *)

\* What Least chooses.
LEMMA LeastIs ==
    ASSUME NEW S, S \subseteq Nat, S # {}
    PROVE  Least(S) \in S /\ \A m \in S : Least(S) <= m
BY LeastNatural DEF Least

\* A power of a power of two is one of two.
LEMMA PowersOfTwo ==
    ASSUME NEW c \in Nat, NEW m \in Nat
    PROVE  Power(Power(2, c), m) = Power(2, c * m)
<1> DEFINE b == Power(2, c)
           T == {n \in Nat : Power(b, n) = Power(2, c * n)}
<1>1. b \in Nat \ {0} /\ b \in Int
  BY PowerPositive
<1>2. 0 \in T
  <2>1. c * 0 = 0 /\ 2 \in Int
    OBVIOUS
  <2> HIDE DEF b
  <2>2. Power(b, 0) = 1 /\ Power(2, 0) = 1
    BY <1>1, PowerZero
  <2> QED BY <2>1, <2>2
<1>3. ASSUME NEW n \in Nat, n \in T
      PROVE  n + 1 \in T
  <2> DEFINE e == c * n
  <2>1. e \in Nat /\ c * (n + 1) = e + c
    OBVIOUS
  <2>2. Power(b, n) = Power(2, e)
    BY <1>3
  <2> HIDE DEF e
  <2>3. Power(2, e + c) = Power(2, e) * b
    BY <2>1, PowerSum
  <2>4. Power(b, n + 1) = Power(b, n) * b
    <3> HIDE DEF b
    <3> QED BY <1>1, PowerNext
  <2>5. Power(b, n + 1) = Power(2, c * (n + 1))
    BY <2>1, <2>2, <2>3, <2>4
  <2> HIDE DEF b
  <2> QED BY <2>5
<1>4. m \in T
  <2> HIDE DEF T
  <2> QED BY <1>2, <1>3, InductionOnNat
<1> QED BY <1>4

\* Bytes and septets count in powers of two.
LEMMA BytesAndSeptets ==
    /\ \A m \in Nat : Power(256, m) = Power(2, 8 * m)
    /\ \A m \in Nat : Power(128, m) = Power(2, 7 * m)
<1> DEFINE p(k) == Power(2, k)
<1>1. \A k \in Nat : p(k + 1) = p(k) * 2 /\ p(k) \in Int
  BY PowerNext
<1>2. p(0) = 1
  BY PowerZero
<1> HIDE DEF p
<1>3. p(0 + 1) = 2
  BY <1>1, <1>2
<1>4. p(1 + 1) = 4
  BY <1>1, <1>3
<1>5. p(2 + 1) = 8
  BY <1>1, <1>4
<1>6. p(3 + 1) = 16
  BY <1>1, <1>5
<1>7. p(4 + 1) = 32
  BY <1>1, <1>6
<1>8. p(5 + 1) = 64
  BY <1>1, <1>7
<1>9. p(6 + 1) = 128
  BY <1>1, <1>8
<1>10. p(7 + 1) = 256
  BY <1>1, <1>9
<1>11. Power(2, 7) = 128 /\ Power(2, 8) = 256
  BY <1>9, <1>10 DEF p
<1>12. \A m \in Nat : Power(Power(2, 8), m) = Power(2, 8 * m)
  BY PowersOfTwo
<1>13. \A m \in Nat : Power(Power(2, 7), m) = Power(2, 7 * m)
  BY PowersOfTwo
<1> QED BY <1>11, <1>12, <1>13

\* The bytes of a subid hold it.
LEMMA SubidSize ==
    ASSUME NEW n \in 0 .. IntBase - 1
    PROVE  SubidLength(n) \in 1 .. Septets /\ n < Power(128, SubidLength(n))
<1> DEFINE fit == {k \in 1 .. Septets : n < Power(128, k)}
<1>1. IntBytes \in Nat \ {0}
  BY Sizes
<1>2. Septets \in Nat \ {0} /\ 8 * IntBytes <= 7 * Septets
  BY <1>1 DEF Septets
<1>3. IntBase <= Power(128, Septets)
  <2>1. IntBase = Power(2, 8 * IntBytes) /\ Power(128, Septets) = Power(2, 7 * Septets)
    BY <1>1, <1>2, BytesAndSeptets DEF IntBase
  <2>2. 8 * IntBytes \in Nat /\ 7 * Septets \in Nat /\ 2 \in Nat \ {0}
    BY <1>1, <1>2
  <2>3. Power(2, 8 * IntBytes) <= Power(2, 7 * Septets)
    <3> DEFINE j == 8 * IntBytes
               k == 7 * Septets
    <3>1. j \in Nat /\ k \in Nat /\ j <= k
      BY <1>2, <2>2
    <3> HIDE DEF j, k
    <3>2. Power(2, j) <= Power(2, k)
      BY <3>1, PowerGrows
    <3> QED BY <3>2 DEF j, k
  <2> QED BY <2>1, <2>3
<1>4. IntBase \in Nat /\ Power(128, Septets) \in Nat
  <2>1. Power(256, IntBytes) \in Nat \ {0}
    <3>1. 256 \in Nat \ {0} /\ IntBytes \in Nat
      BY <1>1
    <3> QED BY <3>1, PowerPositive
  <2>2. Power(128, Septets) \in Nat \ {0}
    <3>1. 128 \in Nat \ {0} /\ Septets \in Nat
      BY <1>2
    <3> QED BY <3>1, PowerPositive
  <2> QED BY <2>1, <2>2 DEF IntBase
<1>5. Septets \in fit
  BY <1>2, <1>3, <1>4
<1>6. fit \subseteq Nat /\ fit # {}
  BY <1>5
<1>7. SubidLength(n) = Least(fit)
  BY DEF SubidLength
<1>8. Least(fit) \in fit
  <2> HIDE DEF fit
  <2> QED BY <1>6, LeastIs
<1> QED BY <1>7, <1>8

-----------------------------------------------------------------------------
(* The loop that reads the subids of an OID.                                 *)

\* The numbers of an int are counted.
LEMMA IntBaseType == IntBase \in Nat \ {0}
<1>1. 256 \in Nat \ {0} /\ IntBytes \in Nat
  BY Sizes
<1> QED BY <1>1, PowerPositive DEF IntBase

ScanState == [subids : Seq(Nat), value : Nat]

\* One turn of it, on one byte.
Scan(t, byte) ==
    LET v == (t.value * 128 + (byte % 128)) % IntBase
    IN  IF byte >= 128 THEN [subids |-> t.subids, value |-> v]
        ELSE [subids |-> Append(t.subids, v), value |-> 0]

Scans(f, s, bytes) == f[0] = s /\ \A i \in 1 .. Len(bytes) : f[i] = Scan(f[i - 1], bytes[i])

\* A step of the loop over the bytes of an OID keeps its type.
LEMMA ScanType ==
    ASSUME NEW t \in ScanState, NEW byte \in Nat
    PROVE  Scan(t, byte) \in ScanState
<1> DEFINE w == t.value * 128 + (byte % 128)
           v == w % IntBase
<1>1. t.value \in Nat /\ t.subids \in Seq(Nat)
  BY DEF ScanState
<1>2. byte % 128 \in Nat
  OBVIOUS
<1>3. w \in Nat
  BY <1>1, <1>2
<1> HIDE DEF w
<1>4. v \in Nat
  BY <1>3, IntBaseType
<1> HIDE DEF v
<1>5. Append(t.subids, v) \in Seq(Nat)
  BY <1>1, <1>4, AppendProperties
<1>6. /\ [subids |-> t.subids, value |-> v] \in ScanState
      /\ [subids |-> Append(t.subids, v), value |-> 0] \in ScanState
  BY <1>1, <1>4, <1>5 DEF ScanState
<1>7. Scan(t, byte) = IF byte >= 128 THEN [subids |-> t.subids, value |-> v]
                      ELSE [subids |-> Append(t.subids, v), value |-> 0]
  BY DEF Scan, v, w
<1> QED BY <1>6, <1>7

\* The function in Subids is defined by exists.
LEMMA SubidsLoop ==
    ASSUME NEW s \in ScanState, NEW bytes \in Seq(Nat)
    PROVE  \E f \in [0 .. Len(bytes) -> ScanState] :
               Scans(f, s, bytes) /\ Subids(s, bytes) = f[Len(bytes)]
<1> DEFINE N == Len(bytes)
           c == CHOOSE c : c = [i \in 0 .. N |->
                    IF i = 0 THEN s
                    ELSE LET t == c[i - 1]
                             v == (t.value * 128 + (bytes[i] % 128)) % IntBase
                         IN  IF bytes[i] >= 128 THEN [subids |-> t.subids, value |-> v]
                             ELSE [subids |-> Append(t.subids, v), value |-> 0]]
           Turn == [i \in 1 .. N |-> [t \in ScanState |-> Scan(t, bytes[i])]]
<1>1. N \in Nat /\ \A i \in 1 .. N : bytes[i] \in Nat
  BY LenProperties, ElementOfSeq
<1>2. Subids(s, bytes) = c[N]
  BY DEF Subids
<1>3. c = CHOOSE g : g = [i \in 0 .. N |-> IF i = 0 THEN s ELSE Scan(g[i - 1], bytes[i])]
  BY DEF Scan
<1> HIDE DEF c
<1>4. Turn \in [1 .. N -> [ScanState -> ScanState]]
  BY <1>1, ScanType
<1>5. PICK f \in [0 .. N -> ScanState] : IsLoop(f, N, s, Turn)
  <2> HIDE DEF N, Turn
  <2> QED BY <1>1, <1>4, LoopExists, Zenon
<1>6. f[0] = s /\ \A i \in 1 .. N : f[i] = Scan(f[i - 1], bytes[i])
  <2>1. f[0] = s /\ \A i \in 1 .. N : f[i] = Turn[i][f[i - 1]]
    BY <1>5 DEF IsLoop
  <2>2. \A i \in 1 .. N : f[i - 1] \in ScanState
    BY <1>1
  <2> QED BY <2>1, <2>2
<1> HIDE DEF Turn
<1>7. f = [i \in 0 .. N |-> IF i = 0 THEN s ELSE Scan(f[i - 1], bytes[i])]
  <2>1. \A i \in 0 .. N : i = 0 \/ i \in 1 .. N
    BY <1>1
  <2>2. f = [i \in 0 .. N |-> f[i]]
    BY <1>1
  <2> QED BY <1>6, <2>1, <2>2
<1>8. c = [i \in 0 .. N |-> IF i = 0 THEN s ELSE Scan(c[i - 1], bytes[i])]
  BY <1>3, <1>7
<1> HIDE DEF N
<1>9. c[0] = s /\ \A i \in 1 .. N : c[i] = Scan(c[i - 1], bytes[i])
  BY <1>1, <1>8
<1>10. \A i \in 0 .. N : c[i] \in ScanState
  <2> DEFINE T == {i \in Nat : i <= N => c[i] \in ScanState}
  <2>1. 0 \in T
    BY <1>9
  <2>2. ASSUME NEW i \in Nat, i \in T
        PROVE  i + 1 \in T
    <3> SUFFICES ASSUME i + 1 <= N
                 PROVE  c[i + 1] \in ScanState
      OBVIOUS
    <3>1. i + 1 \in 1 .. N /\ (i + 1) - 1 = i /\ c[i] \in ScanState /\ bytes[i + 1] \in Nat
      BY <1>1, <2>2
    <3>2. c[i + 1] = Scan(c[i], bytes[i + 1])
      BY <1>9, <3>1
    <3> QED BY <3>1, <3>2, ScanType
  <2>3. \A i \in Nat : i \in T
    <3> HIDE DEF T
    <3> QED BY <2>1, <2>2, InductionOnNat
  <2> QED BY <1>1, <2>3
<1>11. c \in [0 .. N -> ScanState]
  BY <1>8, <1>10
<1>12. Scans(c, s, bytes)
  BY <1>9 DEF Scans, N
<1> QED BY <1>2, <1>11, <1>12 DEF N

\* What Subids scans, byte by byte.
LEMMA SubidsAre ==
    ASSUME NEW s \in ScanState, NEW bytes \in Seq(Nat), NEW g, Scans(g, s, bytes)
    PROVE  Subids(s, bytes) = g[Len(bytes)]
<1> DEFINE N == Len(bytes)
<1>1. N \in Nat
  BY LenProperties
<1>2. PICK f \in [0 .. N -> ScanState] : Scans(f, s, bytes) /\ Subids(s, bytes) = f[N]
  BY SubidsLoop, Zenon
<1> DEFINE T == {i \in Nat : i <= N => f[i] = g[i]}
<1>3. 0 \in T
  BY <1>2 DEF Scans
<1>4. ASSUME NEW i \in Nat, i \in T
      PROVE  i + 1 \in T
  <2> SUFFICES ASSUME i + 1 <= N
               PROVE  f[i + 1] = g[i + 1]
    OBVIOUS
  <2>1. i + 1 \in 1 .. N /\ (i + 1) - 1 = i /\ f[i] = g[i]
    BY <1>1, <1>4
  <2> QED BY <1>2, <2>1 DEF Scans
<1>5. \A i \in Nat : i \in T
  <2> HIDE DEF T
  <2> QED BY <1>3, <1>4, InductionOnNat
<1> QED BY <1>1, <1>2, <1>5

\* What Subids returns.
LEMMA SubidsType ==
    ASSUME NEW s \in ScanState, NEW bytes \in Seq(Nat)
    PROVE  Subids(s, bytes) \in ScanState
<1>1. PICK f \in [0 .. Len(bytes) -> ScanState] : Subids(s, bytes) = f[Len(bytes)]
  BY SubidsLoop, Zenon
<1> QED BY <1>1, LenProperties

\* What is read of bytes and of more bytes behind them.
LEMMA SubidsConcat ==
    ASSUME NEW s \in ScanState, NEW p \in Seq(Nat), NEW q \in Seq(Nat)
    PROVE  Subids(s, p \o q) = Subids(Subids(s, p), q)
<1> DEFINE m == Len(p)  n == Len(q)  b == p \o q
<1>1. m \in Nat /\ n \in Nat /\ b \in Seq(Nat) /\ Len(b) = m + n
      /\ (\A i \in 1 .. m : b[i] = p[i]) /\ (\A i \in 1 .. n : b[m + i] = q[i])
  BY ConcatElements, LenProperties
<1> HIDE DEF b
<1>2. PICK f \in [0 .. Len(b) -> ScanState] : Scans(f, s, b) /\ Subids(s, b) = f[Len(b)]
  BY <1>1, SubidsLoop, Zenon
<1>3. f[0] = s /\ \A i \in 1 .. m + n : f[i] = Scan(f[i - 1], b[i])
  BY <1>1, <1>2 DEF Scans
<1>4. Scans(f, s, p)
  <2>1. \A i \in 1 .. m : i \in 1 .. m + n
    BY <1>1
  <2> QED BY <1>1, <1>3, <2>1 DEF Scans
<1>5. Subids(s, p) = f[m] /\ f[m] \in ScanState
  BY <1>1, <1>4, SubidsAre
<1> DEFINE h == [i \in 0 .. n |-> f[m + i]]
<1>6. Scans(h, f[m], q)
  <2>1. h[0] = f[m] /\ \A i \in 0 .. n : h[i] = f[m + i]
    BY <1>1
  <2> HIDE DEF h
  <2>2. ASSUME NEW i \in 1 .. n
        PROVE  h[i] = Scan(h[i - 1], q[i])
    <3>1. m + i \in 1 .. m + n /\ (m + i) - 1 = m + (i - 1) /\ i - 1 \in 0 .. n /\ i \in 0 .. n
      BY <1>1
    <3> QED BY ZenonT(30), <1>1, <1>3, <2>1, <3>1
  <2> QED BY <2>1, <2>2 DEF Scans
<1>7. h[n] = f[m + n]
  BY <1>1
<1> HIDE DEF h
<1>8. Subids(f[m], q) = h[n]
  BY <1>5, <1>6, SubidsAre
<1> QED BY <1>1, <1>2, <1>5, <1>7, <1>8 DEF b

\* A subid is written in septets, all but its last with the top bit.
LEMMA BerSubidIs ==
    ASSUME NEW n \in 0 .. IntBase - 1
    PROVE  /\ BerSubid(n) \in Seq(Byte) /\ Len(BerSubid(n)) = SubidLength(n)
           /\ SubidLength(n) \in Nat \ {0}
           /\ \A i \in 1 .. SubidLength(n) :
                 BerSubid(n)[i] = Digits(n, 128, SubidLength(n))[i]
                                  + (IF i < SubidLength(n) THEN 128 ELSE 0)
<1> DEFINE k == SubidLength(n)
           d == Digits(n, 128, k)
           b(i) == d[i] + (IF i < k THEN 128 ELSE 0)
<1>1. k \in 1 .. Septets
  BY SubidSize
<1>2. k \in Nat \ {0}
  BY <1>1
<1>3. BerSubid(n) = [i \in 1 .. k |-> b(i)]
  BY DEF BerSubid, SubidLength
<1>4. n \in Int
  BY IntBaseType
<1> HIDE DEF k
<1>5. d \in Seq(0 .. 127) /\ Len(d) = k
  <2> DEFINE base == 128
  <2>1. base \in Nat \ {0}
    OBVIOUS
  <2> HIDE DEF base
  <2>2. Digits(n, base, k) \in Seq(0 .. base - 1) /\ Len(Digits(n, base, k)) = k
    BY <1>2, <1>4, <2>1, DigitsType
  <2> QED BY <2>2 DEF base
<1> HIDE DEF d
<1>6. \A i \in 1 .. k : b(i) \in Byte
  <2> SUFFICES ASSUME NEW i \in 1 .. k
               PROVE  b(i) \in Byte
    OBVIOUS
  <2>1. d[i] \in 0 .. 127
    BY <1>5, ElementOfSeq
  <2> QED BY <2>1 DEF Byte
<1> HIDE DEF b
<1>7. [i \in 1 .. k |-> b(i)] \in Seq(Byte)
  BY <1>2, <1>6
<1>8. Len([i \in 1 .. k |-> b(i)]) = k /\ \A i \in 1 .. k : [j \in 1 .. k |-> b(j)][i] = b(i)
  BY <1>2
<1> QED BY <1>2, <1>3, <1>7, <1>8 DEF k, d, b

\* One subid is read from its bytes.
LEMMA OneSubid ==
    ASSUME NEW l \in Seq(Nat), NEW n \in 0 .. IntBase - 1
    PROVE  Subids([subids |-> l, value |-> 0], BerSubid(n)) = [subids |-> Append(l, n), value |-> 0]
<1> DEFINE k == SubidLength(n)
           d == Digits(n, 128, k)
           c == [i \in 0 .. k |-> n \div Power(128, k - i)]
           g == [i \in 0 .. k |-> IF i < k THEN [subids |-> l, value |-> c[i]]
                                  ELSE [subids |-> Append(l, n), value |-> 0]]
<1>1. /\ BerSubid(n) \in Seq(Byte) /\ Len(BerSubid(n)) = k /\ k \in Nat \ {0}
      /\ \A i \in 1 .. k : BerSubid(n)[i] = d[i] + (IF i < k THEN 128 ELSE 0)
  BY BerSubidIs
<1>2. n \in Nat /\ n < IntBase /\ IntBase \in Nat
  BY IntBaseType
<1>3. n < Power(128, k) /\ Power(128, k) \in Nat \ {0}
  <2>1. 128 \in Nat \ {0} /\ k \in Nat
    BY <1>1
  <2> QED BY <2>1, SubidSize, PowerPositive
<1>4. Counts(c, n \div Power(128, k), d, 128)
  <2> DEFINE base == 128
  <2>1. base \in Nat \ {0} /\ n \in Int /\ k \in Nat
    BY <1>1, <1>2
  <2> HIDE DEF base
  <2>2. Counts([i \in 0 .. k |-> n \div Power(base, k - i)], n \div Power(base, k),
               Digits(n, base, k), base)
    BY <2>1, DigitsNumber, Zenon
  <2> QED BY <2>2 DEF base
<1>5. d \in Seq(0 .. 127) /\ Len(d) = k
  <2> DEFINE base == 128
  <2>1. base \in Nat \ {0} /\ n \in Int /\ k \in Nat
    BY <1>1, <1>2
  <2> HIDE DEF base
  <2>2. Digits(n, base, k) \in Seq(0 .. base - 1) /\ Len(Digits(n, base, k)) = k
    BY <2>1, DigitsType
  <2> QED BY <2>2 DEF base
<1>6. \A i \in 0 .. k : c[i] \in 0 .. n
  <2> SUFFICES ASSUME NEW i \in 0 .. k
               PROVE  c[i] \in 0 .. n
    OBVIOUS
  <2> DEFINE p == Power(128, k - i)
  <2>1. p \in Nat \ {0}
    <3>1. 128 \in Nat \ {0} /\ k - i \in Nat
      BY <1>1
    <3> QED BY <3>1, PowerPositive
  <2>2. c[i] = n \div p
    OBVIOUS
  <2> HIDE DEF p, c
  <2>3. n \div p \in 0 .. n
    BY <1>2, <2>1
  <2> QED BY <2>2, <2>3
<1>7. c[0] = 0 /\ c[k] = n
  <2>1. n \div Power(128, k) = 0
    BY <1>2, <1>3
  <2>2. Power(128, 0) = 1
    BY PowerZero
  <2>3. n \div 1 = n
    BY <1>2
  <2>4. k - 0 = k /\ k - k = 0 /\ 0 \in 0 .. k /\ k \in 0 .. k
    BY <1>1
  <2> QED BY <2>1, <2>2, <2>3, <2>4
<1>8. \A i \in 1 .. k : c[i] = c[i - 1] * 128 + d[i]
  BY <1>4, <1>5 DEF Counts
<1> HIDE DEF c, d, k
<1>9. \A i \in 0 .. k : g[i] = IF i < k THEN [subids |-> l, value |-> c[i]]
                                ELSE [subids |-> Append(l, n), value |-> 0]
  OBVIOUS
<1> HIDE DEF g
<1>10. ASSUME NEW i \in 1 .. k
       PROVE  g[i] = Scan(g[i - 1], BerSubid(n)[i])
  <2> DEFINE byte == BerSubid(n)[i]
             t    == g[i - 1]
  <2>1. i - 1 \in 0 .. k /\ i - 1 < k /\ i \in 0 .. k
    BY <1>1
  <2>2. t = [subids |-> l, value |-> c[i - 1]]
    BY <1>9, <2>1
  <2>3. d[i] \in 0 .. 127
    BY <1>5, ElementOfSeq
  <2>4. byte = d[i] + (IF i < k THEN 128 ELSE 0)
    BY <1>1
  <2>5. byte % 128 = d[i] /\ (byte >= 128 <=> i < k)
    <3> DEFINE x == d[i]
    <3>1. x \in 0 .. 127 /\ byte = x + (IF i < k THEN 128 ELSE 0)
      BY <2>3, <2>4
    <3> HIDE DEF byte, x
    <3>2. (x + 128) % 128 = x /\ (x + 0) % 128 = x /\ x + 128 >= 128 /\ ~(x + 0 >= 128)
      BY <3>1
    <3>3. byte % 128 = x /\ (byte >= 128 <=> i < k)
      BY <3>1, <3>2
    <3> QED BY <3>3 DEF x
  <2>6. c[i] \in Nat /\ c[i] < IntBase /\ c[i] = c[i - 1] * 128 + d[i]
    BY <1>2, <1>6, <1>8, <2>1
  <2>7. c[i] % IntBase = c[i]
    <3> DEFINE x == c[i]
    <3>1. x \in Nat /\ x < IntBase
      BY <2>6
    <3> HIDE DEF x
    <3>2. x % IntBase = x
      BY <1>2, <3>1
    <3> QED BY <3>2 DEF x
  <2> HIDE DEF byte, t
  <2>8. t.value = c[i - 1] /\ t.subids = l
    BY <2>2
  <2>9. Scan(t, byte) = IF byte >= 128 THEN [subids |-> l, value |-> c[i]]
                        ELSE [subids |-> Append(l, c[i]), value |-> 0]
    BY <2>5, <2>6, <2>7, <2>8 DEF Scan
  <2>10. g[i] = Scan(t, byte)
    <3>1. CASE i < k
      BY <1>9, <2>1, <2>5, <2>9, <3>1
    <3>2. CASE ~(i < k)
      <4>1. i = k
        BY <1>1, <3>2
      <4> QED BY <1>7, <1>9, <2>1, <2>5, <2>9, <3>2, <4>1
    <3> QED BY <3>1, <3>2
  <2> QED BY <2>10 DEF byte, t
<1>11. g[0] = [subids |-> l, value |-> 0] /\ g[k] = [subids |-> Append(l, n), value |-> 0]
  <2>1. 0 \in 0 .. k /\ k \in 0 .. k /\ 0 < k /\ ~(k < k)
    BY <1>1
  <2> QED BY <1>7, <1>9, <2>1
<1> DEFINE s == [subids |-> l, value |-> 0]
<1>12. s \in ScanState
  BY DEF ScanState
<1>13. Scans(g, s, BerSubid(n))
  BY <1>1, <1>10, <1>11 DEF Scans
<1>14. BerSubid(n) \in Seq(Nat)
  <2>1. Byte \subseteq Nat
    BY DEF Byte
  <2> QED BY <1>1, <2>1, SeqMonotonic
<1> HIDE DEF s
<1>15. Subids(s, BerSubid(n)) = g[Len(BerSubid(n))]
  BY <1>12, <1>13, <1>14, SubidsAre
<1> QED BY <1>1, <1>11, <1>15 DEF s

-----------------------------------------------------------------------------
(* OIDs.                                                                     *)

OidBody(o) == <<40 * o[1] + o[2]>> \o FlattenSeq([i \in 1 .. Len(o) - 2 |-> BerSubid(o[i + 2])])

\* The subids of an OID, and what its first two may be.
LEMMA OidType ==
    ASSUME NEW o \in Oids
    PROVE  /\ o \in Seq(Nat) /\ Len(o) \in Nat /\ Len(o) >= 2
           /\ o[1] \in 0 .. 2 /\ o[2] \in 0 .. 39
           /\ \A i \in 1 .. Len(o) : o[i] \in 0 .. IntBase - 1
<1>1. o \in Seq(0 .. IntBase - 1) /\ Len(o) >= 2 /\ o[1] \in 0 .. 2 /\ o[2] \in 0 .. 39
  BY DEF Oids
<1>2. 0 .. IntBase - 1 \subseteq Nat
  BY IntBaseType
<1>3. o \in Seq(Nat)
  BY <1>1, <1>2, SeqMonotonic
<1>4. \A i \in 1 .. Len(o) : o[i] \in 0 .. IntBase - 1
  BY <1>1, ElementOfSeq
<1> QED BY <1>1, <1>3, <1>4, LenProperties

\* What has been read, and how long it was, subid after subid.
Reads(f, o, i) ==
    /\ f[i] \in Seq(Byte)
    /\ Subids([subids |-> <<o[1], o[2]>>, value |-> 0], f[i])
       = [subids |-> SubSeq(o, 1, i + 2), value |-> 0]
    /\ f[i] # <<>> => f[i][Len(f[i])] < 128

\* The subids after the second are read as they were written.
LEMMA SubidsOfOid ==
    ASSUME NEW o \in Oids
    PROVE  \E f : /\ \A i \in 0 .. Len(o) - 2 : Reads(f, o, i)
                  /\ f[0] = <<>>
                  /\ \A i \in 1 .. Len(o) - 2 : Len(f[i]) = Len(f[i - 1]) + SubidLength(o[i + 2])
                  /\ FlattenSeq([i \in 1 .. Len(o) - 2 |-> BerSubid(o[i + 2])]) = f[Len(o) - 2]
<1> DEFINE N == Len(o) - 2
           A == [i \in 1 .. N |-> BerSubid(o[i + 2])]
           s == [subids |-> <<o[1], o[2]>>, value |-> 0]
<1>1. N \in Nat /\ o \in Seq(Nat) /\ \A i \in 1 .. Len(o) : o[i] \in 0 .. IntBase - 1
  BY OidType
<1>2. \A i \in 1 .. N : /\ BerSubid(o[i + 2]) \in Seq(Byte)
                        /\ Len(BerSubid(o[i + 2])) = SubidLength(o[i + 2])
                        /\ SubidLength(o[i + 2]) \in Nat \ {0}
                        /\ o[i + 2] \in 0 .. IntBase - 1
  <2> SUFFICES ASSUME NEW i \in 1 .. N
               PROVE  /\ BerSubid(o[i + 2]) \in Seq(Byte)
                      /\ Len(BerSubid(o[i + 2])) = SubidLength(o[i + 2])
                      /\ SubidLength(o[i + 2]) \in Nat \ {0}
                      /\ o[i + 2] \in 0 .. IntBase - 1
    OBVIOUS
  <2>1. i + 2 \in 1 .. Len(o)
    BY <1>1
  <2>2. o[i + 2] \in 0 .. IntBase - 1
    BY <1>1, <2>1
  <2> QED BY <2>2, BerSubidIs
<1>3. A \in Seq(Seq(Byte)) /\ Len(A) = N /\ \A i \in 1 .. N : A[i] = BerSubid(o[i + 2])
  BY <1>1, <1>2
<1> HIDE DEF A
<1>4. PICK f : /\ f \in [0 .. Len(A) -> Seq(Byte)] /\ f[0] = <<>>
               /\ \A i \in 1 .. Len(A) : f[i] = f[i - 1] \o A[i]
               /\ FlattenSeq(A) = f[Len(A)]
  BY <1>3, FlattenLoop
<1>5. /\ \A i \in 0 .. N : f[i] \in Seq(Byte)
      /\ \A i \in 1 .. N : f[i] = f[i - 1] \o A[i]
      /\ FlattenSeq(A) = f[N]
  BY <1>3, <1>4
<1>6. Reads(f, o, 0)
  <2>1. SubSeq(o, 1, 0 + 2) = <<o[1], o[2]>>
    <3>1. o[1] \in Nat /\ o[2] \in Nat
      BY OidType
    <3> DEFINE l == SubSeq(o, 1, 0 + 2)
               t == <<o[1], o[2]>>
    <3>2. /\ l \in Seq(Nat) /\ Len(l) = 2 /\ \A i \in 1 .. 2 : l[i] = o[i]
      <4>1. \A i \in 1 .. 0 + 2 : o[i] \in Nat
        BY <3>1
      <4>2. /\ l \in Seq(Nat) /\ Len(l) = IF 1 <= 0 + 2 THEN (0 + 2) - 1 + 1 ELSE 0
            /\ \A i \in 1 .. (0 + 2) - 1 + 1 : l[i] = o[1 + i - 1]
        BY <4>1, SubSeqProperties
      <4> HIDE DEF l
      <4> QED BY <4>2
    <3>3. t \in Seq(Nat) /\ Len(t) = 2 /\ t[1] = o[1] /\ t[2] = o[2]
      BY <3>1
    <3> HIDE DEF l, t
    <3>4. \A i \in 1 .. Len(l) : l[i] = t[i]
      BY <3>2, <3>3
    <3>5. l = t
      BY <3>2, <3>3, <3>4, SeqEqual
    <3> QED BY <3>5 DEF l, t
  <2>2. s \in ScanState
    <3>1. <<o[1], o[2]>> \in Seq(Nat)
      BY OidType
    <3> QED BY <3>1 DEF ScanState
  <2>3. Subids(s, <<>>) = s
    <3> DEFINE g == [i \in 0 .. 0 |-> s]
    <3>1. <<>> \in Seq(Nat) /\ Len(<<>>) = 0
      BY EmptySeq
    <3>2. g[0] = s
      OBVIOUS
    <3> HIDE DEF g
    <3>3. Scans(g, s, <<>>)
      BY <3>1, <3>2 DEF Scans
    <3> HIDE DEF s
    <3> QED BY <2>2, <3>1, <3>2, <3>3, SubidsAre
  <2> QED BY <1>4, <1>5, <2>1, <2>3, EmptySeq DEF Reads
<1>7. ASSUME NEW i \in Nat, i + 1 <= N, Reads(f, o, i)
      PROVE  Reads(f, o, i + 1)
  <2> DEFINE n == o[i + 3]
             b == BerSubid(n)
             l == SubSeq(o, 1, i + 2)
  <2>1. i + 1 \in 1 .. N /\ (i + 1) - 1 = i /\ (i + 1) + 2 = i + 3 /\ i + 3 \in 1 .. Len(o)
    BY <1>1, <1>7
  <2>2. b \in Seq(Byte) /\ Len(b) = SubidLength(n) /\ SubidLength(n) \in Nat \ {0}
        /\ n \in 0 .. IntBase - 1 /\ A[i + 1] = b
    BY <1>2, <1>3, <2>1
  <2>3. l \in Seq(Nat)
    <3>1. \A j \in 1 .. i + 2 : o[j] \in Nat
      <4>1. \A j \in 1 .. i + 2 : j \in 1 .. Len(o)
        BY <2>1
      <4> QED BY <1>1, <4>1, ElementOfSeq
    <3> QED BY <3>1, SubSeqProperties
  <2>4. f[i + 1] = f[i] \o b /\ f[i] \in Seq(Byte)
    <3>1. f[i + 1] = f[i] \o A[i + 1]
      BY <1>5, <2>1
    <3> QED BY <1>7, <2>2, <3>1 DEF Reads
  <2>5. f[i] \in Seq(Nat) /\ b \in Seq(Nat)
    <3>1. Byte \subseteq Nat
      BY DEF Byte
    <3> QED BY <2>2, <2>4, <3>1, SeqMonotonic
  <2>6. Subids(s, f[i] \o b) = Subids(Subids(s, f[i]), b)
    <3>1. s \in ScanState
      <4>1. <<o[1], o[2]>> \in Seq(Nat)
        BY OidType
      <4> QED BY <4>1 DEF ScanState
    <3> HIDE DEF s, b
    <3> QED BY <2>5, <3>1, SubidsConcat
  <2>7. Subids(s, f[i]) = [subids |-> l, value |-> 0]
    BY <1>7 DEF Reads
  <2>8. Subids([subids |-> l, value |-> 0], b) = [subids |-> Append(l, n), value |-> 0]
    <3> HIDE DEF l, n
    <3> QED BY <2>2, <2>3, OneSubid
  <2>9. Append(l, n) = SubSeq(o, 1, i + 3)
    <3>1. SubSeq(o, 1, i + 3) = SubSeq(o, 1, (i + 3) - 1) \o <<o[i + 3]>>
      BY <1>1, <2>1, SubSeqRecursiveSecond
    <3>2. (i + 3) - 1 = i + 2 /\ n \in Nat
      BY <2>2, IntBaseType
    <3>3. Append(l, n) = l \o <<n>>
      <4> HIDE DEF l, n
      <4> QED BY <2>3, <3>2, AppendIsConcat
    <3> QED BY <3>1, <3>2, <3>3
  <2>10. Subids(s, f[i + 1]) = [subids |-> SubSeq(o, 1, (i + 1) + 2), value |-> 0]
    <3> HIDE DEF s, b, l, n
    <3> QED BY <2>1, <2>4, <2>6, <2>7, <2>8, <2>9
  <2>11. b[Len(b)] < 128
    <3> DEFINE k == SubidLength(n)
               d == Digits(n, 128, k)
    <3>1. k \in Nat \ {0} /\ b[k] = d[k] + (IF k < k THEN 128 ELSE 0)
      <4>1. k \in 1 .. k
        BY <2>2
      <4> QED BY <2>2, <4>1, BerSubidIs
    <3>2. d[k] \in 0 .. 127
      <4> DEFINE base == 128
      <4>1. base \in Nat \ {0} /\ n \in Int /\ k \in Nat
        BY <2>2, IntBaseType
      <4> HIDE DEF base
      <4>2. Digits(n, base, k) \in Seq(0 .. base - 1) /\ Len(Digits(n, base, k)) = k
        BY <4>1, DigitsType
      <4>3. d \in Seq(0 .. 127) /\ Len(d) = k
        BY <4>2 DEF base
      <4>4. k \in 1 .. k
        BY <2>2
      <4> HIDE DEF d, k
      <4> QED BY <4>3, <4>4, ElementOfSeq
    <3>3. Len(b) = k
      BY <2>2
    <3> DEFINE x == d[k]
               y == b[k]
    <3>4. x \in 0 .. 127 /\ y = x + (IF k < k THEN 128 ELSE 0) /\ ~(k < k)
      BY <3>1, <3>2
    <3> HIDE DEF b, k, d, x, y
    <3>5. y < 128
      BY <3>4
    <3> QED BY <3>3, <3>5 DEF y
  <2>12. f[i + 1] \in Seq(Byte) /\ f[i + 1][Len(f[i + 1])] < 128
    <3> DEFINE p == f[i]
    <3>1. b \in Seq(Byte) /\ p \in Seq(Byte) /\ f[i + 1] = p \o b
      BY <2>2, <2>4
    <3>2. Len(b) \in 1 .. Len(b)
      BY <2>2
    <3> HIDE DEF b, n, p
    <3>3. /\ p \o b \in Seq(Byte) /\ Len(p \o b) = Len(p) + Len(b)
          /\ \A j \in 1 .. Len(b) : (p \o b)[Len(p) + j] = b[j]
      BY <3>1, ConcatElements
    <3> QED BY <2>11, <3>1, <3>3, <3>2
  <2> QED BY <2>10, <2>12 DEF Reads
<1>8. \A i \in 0 .. N : Reads(f, o, i)
  <2> DEFINE T == {i \in Nat : i <= N => Reads(f, o, i)}
  <2>1. 0 \in T
    BY <1>6
  <2>2. ASSUME NEW i \in Nat, i \in T
        PROVE  i + 1 \in T
    <3>1. i + 1 <= N => Reads(f, o, i)
      BY <1>1, <2>2
    <3> QED BY <1>7, <3>1
  <2>3. \A i \in Nat : i \in T
    <3> HIDE DEF T
    <3> QED BY <2>1, <2>2, InductionOnNat
  <2> QED BY <1>1, <2>3
<1>9. \A i \in 1 .. N : Len(f[i]) = Len(f[i - 1]) + SubidLength(o[i + 2])
  <2> SUFFICES ASSUME NEW i \in 1 .. N
               PROVE  Len(f[i]) = Len(f[i - 1]) + SubidLength(o[i + 2])
    OBVIOUS
  <2>1. f[i] = f[i - 1] \o A[i] /\ f[i - 1] \in Seq(Byte) /\ A[i] \in Seq(Byte)
        /\ Len(A[i]) = SubidLength(o[i + 2])
    <3>1. i - 1 \in 0 .. N
      BY <1>1
    <3>2. f[i - 1] \in Seq(Byte) /\ f[i] = f[i - 1] \o A[i] /\ A[i] = BerSubid(o[i + 2])
      BY <1>3, <1>5, <3>1
    <3> QED BY <1>2, <3>2
  <2> DEFINE p == f[i - 1]
             a == A[i]
  <2>2. f[i] = p \o a /\ p \in Seq(Byte) /\ a \in Seq(Byte)
    BY <2>1
  <2> HIDE DEF p, a
  <2>3. Len(p \o a) = Len(p) + Len(a)
    BY <2>2, ConcatElements
  <2> QED BY <2>1, <2>2, <2>3 DEF p, a
<1> QED BY <1>4, <1>5, <1>8, <1>9 DEF A

\* The body of an OID: its first byte and the subids behind it.
LEMMA OidBodyIs ==
    ASSUME NEW o \in Oids
    PROVE  \E q \in Seq(Byte) :
               /\ OidBody(o) = <<40 * o[1] + o[2]>> \o q
               /\ q # <<>> => q[Len(q)] < 128
               /\ Subids([subids |-> <<o[1], o[2]>>, value |-> 0], q) = [subids |-> o, value |-> 0]
               /\ OidLength(o) = 1 + Len(q)
<1> DEFINE N == Len(o) - 2
           length == CHOOSE length : length = [i \in 0 .. N |->
                         IF i = 0 THEN 1 ELSE length[i - 1] + SubidLength(o[i + 2])]
<1>1. N \in Nat /\ o \in Seq(Nat) /\ N + 2 = Len(o)
  BY OidType
<1>2. PICK f : /\ \A i \in 0 .. N : Reads(f, o, i)
               /\ f[0] = <<>>
               /\ \A i \in 1 .. N : Len(f[i]) = Len(f[i - 1]) + SubidLength(o[i + 2])
               /\ FlattenSeq([i \in 1 .. N |-> BerSubid(o[i + 2])]) = f[N]
  BY SubidsOfOid
<1> DEFINE q == f[N]
           g == [i \in 0 .. N |-> 1 + Len(f[i])]
<1>3. /\ q \in Seq(Byte) /\ (q # <<>> => q[Len(q)] < 128)
      /\ Subids([subids |-> <<o[1], o[2]>>, value |-> 0], q) = [subids |-> SubSeq(o, 1, N + 2), value |-> 0]
  <2>1. N \in 0 .. N
    BY <1>1
  <2> QED BY <1>2, <2>1 DEF Reads
<1>4. SubSeq(o, 1, N + 2) = o
  BY <1>1, SubSeqFull
<1>5. OidBody(o) = <<40 * o[1] + o[2]>> \o q
  BY <1>2 DEF OidBody
<1>6. OidLength(o) = length[N]
  BY DEF OidLength
<1> HIDE DEF length
<1>7. \A i \in 1 .. N : g[i] = g[i - 1] + SubidLength(o[i + 2])
  <2> SUFFICES ASSUME NEW i \in 1 .. N
               PROVE  g[i] = g[i - 1] + SubidLength(o[i + 2])
    OBVIOUS
  <2> DEFINE a == f[i]  p == f[i - 1]  l == SubidLength(o[i + 2])
  <2>1. i \in 0 .. N /\ i - 1 \in 0 .. N /\ i + 2 \in 1 .. Len(o)
    BY <1>1
  <2>2. p \in Seq(Byte) /\ Len(p) \in Nat
    BY <1>2, <2>1, LenProperties DEF Reads
  <2>3. o[i + 2] \in 0 .. IntBase - 1
    BY <2>1, OidType
  <2>4. l \in Nat
    BY <2>3, BerSubidIs
  <2>5. Len(a) = Len(p) + l
    BY <1>2
  <2>6. g[i] = 1 + Len(a) /\ g[i - 1] = 1 + Len(p)
    BY <2>1
  <2> HIDE DEF a, p, l, g
  <2>7. g[i] = g[i - 1] + l
    BY <2>2, <2>4, <2>5, <2>6
  <2> QED BY <2>7 DEF l
<1>8. g[0] = 1 /\ g[N] = 1 + Len(q)
  <2>1. 0 \in 0 .. N /\ N \in 0 .. N
    BY <1>1
  <2>2. Len(<<>>) = 0
    BY EmptySeq
  <2> QED BY <1>2, <2>1, <2>2
<1>9. g = [i \in 0 .. N |-> g[i]]
  OBVIOUS
<1> HIDE DEF g
<1>10. g = [i \in 0 .. N |-> IF i = 0 THEN 1 ELSE g[i - 1] + SubidLength(o[i + 2])]
  <2>1. \A i \in 0 .. N : i = 0 \/ i \in 1 .. N
    BY <1>1
  <2> QED BY <1>7, <1>8, <1>9, <2>1
<1>11. length = [i \in 0 .. N |-> IF i = 0 THEN 1 ELSE length[i - 1] + SubidLength(o[i + 2])]
  BY <1>10 DEF length
<1> DEFINE T == {i \in Nat : i <= N => length[i] = g[i]}
<1>12. 0 \in T
  <2>1. 0 \in 0 .. N
    BY <1>1
  <2> QED BY <1>8, <1>11, <2>1
<1>13. ASSUME NEW i \in Nat, i \in T
       PROVE  i + 1 \in T
  <2> SUFFICES ASSUME i + 1 <= N
               PROVE  length[i + 1] = g[i + 1]
    OBVIOUS
  <2>1. i + 1 \in 1 .. N /\ i + 1 \in 0 .. N /\ (i + 1) - 1 = i /\ i + 1 # 0 /\ length[i] = g[i]
    BY SMTT(30), <1>1, <1>13
  <2>2. length[i + 1] = length[(i + 1) - 1] + SubidLength(o[(i + 1) + 2])
    BY <1>11, <2>1
  <2> QED BY <1>7, <2>1, <2>2
<1>14. \A i \in Nat : i \in T
  <2> HIDE DEF T
  <2> QED BY <1>12, <1>13, InductionOnNat
<1>15. length[N] = g[N]
  BY <1>1, <1>14
<1> QED BY <1>3, <1>4, <1>5, <1>6, <1>8, <1>15

\* The first byte of an OID gives its first two subids back.
LEMMA FirstByte ==
    ASSUME NEW o \in Oids
    PROVE  /\ 40 * o[1] + o[2] \in Byte /\ 40 * o[1] + o[2] \in Nat /\ 40 * o[1] + o[2] < 128
           /\ (40 * o[1] + o[2]) \div 40 = o[1] /\ (40 * o[1] + o[2]) % 40 = o[2]
<1> DEFINE a == o[1]  c == o[2]
<1>1. a \in 0 .. 2 /\ c \in 0 .. 39
  BY OidType
<1> HIDE DEF a, c
<1>2. 40 * a + c \in 0 .. 255 /\ 40 * a + c \in Nat /\ 40 * a + c < 128
  BY <1>1
<1>3. (40 * a + c) \div 40 = a /\ (40 * a + c) % 40 = c
  BY <1>1
<1> QED BY <1>2, <1>3 DEF Byte, a, c

\* The body of an OID has the length its entry was given.
LEMMA OidBodyType ==
    ASSUME NEW o \in Oids
    PROVE  OidBody(o) \in Seq(Byte) /\ Len(OidBody(o)) = OidLength(o) /\ OidLength(o) \in Nat \ {0}
<1>1. PICK q \in Seq(Byte) : OidBody(o) = <<40 * o[1] + o[2]>> \o q /\ OidLength(o) = 1 + Len(q)
  BY OidBodyIs
<1> DEFINE x == 40 * o[1] + o[2]
<1>2. x \in Byte
  BY FirstByte
<1> HIDE DEF x
<1>3. <<x>> \in Seq(Byte) /\ Len(<<x>>) = 1
  BY <1>2
<1> DEFINE h == <<x>>
<1> HIDE DEF h
<1>4. h \in Seq(Byte) /\ Len(h) = 1
  BY <1>3 DEF h
<1>5. h \o q \in Seq(Byte) /\ Len(h \o q) = Len(h) + Len(q) /\ Len(q) \in Nat
  BY <1>4, ConcatElements, LenProperties
<1>6. OidBody(o) = h \o q
  BY <1>1 DEF h, x
<1> QED BY <1>1, <1>4, <1>5, <1>6

\* An OID is read as it was written, with the size its entry of the MIB has, if
\* there is room for its subids (decode_snmp_element_value_oid).
THEOREM OidIsRead ==
    ASSUME NEW o \in Oids
    PROVE  OidOf(OidBody(o)) = IF Len(o) > MaxSubids THEN NoOid ELSE MibOid(o)
<1>1. PICK q \in Seq(Byte) :
          /\ OidBody(o) = <<40 * o[1] + o[2]>> \o q
          /\ q # <<>> => q[Len(q)] < 128
          /\ Subids([subids |-> <<o[1], o[2]>>, value |-> 0], q) = [subids |-> o, value |-> 0]
          /\ OidLength(o) = 1 + Len(q)
  BY OidBodyIs
<1> DEFINE x == 40 * o[1] + o[2]
           h == <<x>>
           b == OidBody(o)
<1>2. x \in Byte /\ x \in Nat /\ x < 128 /\ x \div 40 = o[1] /\ x % 40 = o[2]
  BY FirstByte
<1> HIDE DEF x
<1>3. h \in Seq(Byte) /\ Len(h) = 1 /\ h[1] = x
  BY <1>2
<1>4. b = h \o q
  BY <1>1 DEF x
<1> HIDE DEF h, b
<1>5. h \o q \in Seq(Byte) /\ Len(h \o q) = Len(h) + Len(q)
      /\ (\A i \in 1 .. Len(h) : (h \o q)[i] = h[i])
      /\ \A i \in 1 .. Len(q) : (h \o q)[Len(h) + i] = q[i]
  BY <1>3, ConcatElements
<1>6. /\ b \in Seq(Byte) /\ Len(b) = 1 + Len(q) /\ Len(q) \in Nat
      /\ \A i \in 1 .. 1 : b[i] = h[i]
      /\ \A i \in 1 .. Len(q) : b[1 + i] = q[i]
  BY <1>3, <1>4, <1>5, LenProperties
<1>7. b[1] = x
  <2>1. 1 \in 1 .. 1
    OBVIOUS
  <2> QED BY <1>3, <1>6, <2>1
<1>8. Tail(b) = q
  <2>1. b # <<>>
    BY <1>6, EmptySeq
  <2>2. /\ Tail(b) \in Seq(Byte) /\ Len(Tail(b)) = Len(b) - 1
        /\ \A j \in 1 .. Len(b) - 1 : Tail(b)[j] = b[j + 1]
    BY <1>6, <2>1, TailEntries
  <2> DEFINE t == Tail(b)
  <2>3. t \in Seq(Byte) /\ Len(t) = Len(q) /\ \A j \in 1 .. Len(t) : t[j] = q[j]
    BY <1>6, <2>2
  <2> HIDE DEF t
  <2>4. t = q
    BY <2>3, SeqEqual
  <2> QED BY <2>4 DEF t
<1>9. Last(b) < 128
  <2>1. Last(b) = b[1 + Len(q)]
    BY <1>6 DEF Last
  <2>2. CASE q = <<>>
    <3>1. Len(q) = 0
      BY <2>2, EmptySeq
    <3>2. b[1 + Len(q)] = b[1]
      BY <3>1
    <3> QED BY <1>2, <1>7, <2>1, <3>2
  <2>3. CASE q # <<>>
    <3>1. Len(q) \in 1 .. Len(q)
      BY <1>6, <2>3, EmptySeq
    <3>2. b[1 + Len(q)] = q[Len(q)]
      BY <1>6, <3>1
    <3> QED BY <1>1, <2>1, <2>3, <3>2
  <2> QED BY <2>2, <2>3
<1>10. Subids([subids |-> <<b[1] \div 40, b[1] % 40>>, value |-> 0], Tail(b)).subids = o
  <2>1. b[1] \div 40 = o[1] /\ b[1] % 40 = o[2]
    BY <1>2, <1>7
  <2> DEFINE y == b[1] \div 40  z == b[1] % 40
  <2> HIDE DEF y, z
  <2>2. y = o[1] /\ z = o[2]
    BY <2>1 DEF y, z
  <2>3. Subids([subids |-> <<y, z>>, value |-> 0], q) = [subids |-> o, value |-> 0]
    BY <1>1, <2>2
  <2>4. Subids([subids |-> <<y, z>>, value |-> 0], q).subids = o
    BY <2>3
  <2> QED BY <1>8, <2>4 DEF y, z
<1>11. ~(b[1] >= 128) /\ ~(Last(b) >= 128)
  <2> DEFINE l == Last(b)
  <2>1. l \in Byte
    <3>1. Len(b) \in 1 .. Len(b)
      BY <1>6
    <3>2. b[Len(b)] \in Byte
      BY <1>6, <3>1, ElementOfSeq
    <3> QED BY <3>2 DEF Last
  <2>2. l \in Nat /\ l < 128 /\ x \in Nat /\ x < 128
    <3>1. l < 128
      BY <1>9
    <3> HIDE DEF l
    <3> QED BY <1>2, <2>1, <3>1 DEF Byte
  <2> HIDE DEF l
  <2>3. ~(x >= 128) /\ ~(l >= 128)
    BY <2>2
  <2> QED BY <1>7, <2>3 DEF l
<1>12. OidOf(b) = IF Len(o) > MaxSubids THEN NoOid
                  ELSE [subids |-> o, size |-> Len(b) + HeaderLength(Len(b))]
  BY <1>10, <1>11 DEF OidOf
<1>13. Len(b) = OidLength(o)
  BY <1>1, <1>6
<1> QED BY <1>12, <1>13 DEF MibOid, b

-----------------------------------------------------------------------------
(* Lengths.                                                                  *)

\* A length below a word has two bytes that give it back.
LEMMA TwoDigits ==
    ASSUME NEW n \in Nat
    PROVE  /\ Digits(n, 256, 2) \in Seq(Byte) /\ Len(Digits(n, 256, 2)) = 2
           /\ n < Word => Number(0, Digits(n, 256, 2), 256) = n
<1> DEFINE b == 256
           d == Digits(n, b, 2)
<1>1. b \in Nat \ {0} /\ b \in Int /\ n \in Int /\ 2 \in Nat /\ 1 \in Nat /\ 0 \in Nat
      /\ 0 + 1 = 1 /\ 1 + 1 = 2
  OBVIOUS
<1>2. Byte = 0 .. b - 1
  BY DEF Byte
<1>3. b * b = Word /\ 1 * b = b
  BY DEF Word
<1> HIDE DEF b
<1>4. d \in Seq(0 .. b - 1) /\ Len(d) = 2
  BY <1>1, DigitsType
<1>5. Number(n \div Power(b, 2), d, b) = n
  BY <1>1, DigitsNumber
<1>6. Power(b, 2) = Word
  <2>1. Power(b, 0) = 1
    BY <1>1, PowerZero
  <2>2. Power(b, 0 + 1) = Power(b, 0) * b
    BY <1>1, PowerNext
  <2>3. Power(b, 1) = b
    BY <1>1, <1>3, <2>1, <2>2
  <2>4. Power(b, 1 + 1) = Power(b, 1) * b
    BY <1>1, PowerNext
  <2> QED BY <1>1, <1>3, <2>3, <2>4
<1> HIDE DEF d
<1>7. ASSUME n < Word
      PROVE  n \div Word = 0
  BY <1>7 DEF Word
<1>8. n < Word => Number(0, d, b) = n
  BY <1>5, <1>6, <1>7
<1> QED BY <1>2, <1>4, <1>8 DEF d, b

\* The bytes of a length are bytes, three at most.
LEMMA BerLengthType ==
    ASSUME NEW n \in Nat, NEW form \in 0 .. 2
    PROVE  /\ BerLength(n, form) \in Seq(Byte) /\ Len(BerLength(n, form)) \in 1 .. 3
           /\ form = 0 => /\ LengthBytes(n) = BerLength(n, form)
                          /\ HeaderLength(n) = 1 + Len(BerLength(n, form))
<1> DEFINE d == Digits(n, 256, 2)
           l == <<130>> \o d
<1>1. d \in Seq(Byte) /\ Len(d) = 2
  BY TwoDigits
<1> HIDE DEF d
<1>2. <<130>> \in Seq(Byte) /\ Len(<<130>>) = 1
  BY DEF Byte
<1>3. l \in Seq(Byte) /\ Len(l) = 3
  <2>1. l \in Seq(Byte) /\ Len(l) = Len(<<130>>) + Len(d)
    BY <1>1, <1>2, ConcatElements
  <2> QED BY <1>1, <1>2, <2>1
<1>4. l = <<130>> \o Digits(n, 256, 2)
  BY DEF d
<1> HIDE DEF l
<1>5. CASE n < 128 /\ form = 0
  <2>1. <<n>> \in Seq(Byte) /\ Len(<<n>>) = 1
    BY <1>5 DEF Byte
  <2>2. BerLength(n, form) = <<n>> /\ LengthBytes(n) = <<n>> /\ HeaderLength(n) = 2
    BY <1>5 DEF BerLength, LengthBytes, HeaderLength
  <2> QED BY <2>1, <2>2
<1>6. CASE ~(n < 128 /\ form = 0) /\ n < 256 /\ form < 2
  <2>1. <<129, n>> \in Seq(Byte) /\ Len(<<129, n>>) = 2
    BY <1>6 DEF Byte
  <2>2. BerLength(n, form) = <<129, n>>
    BY <1>6 DEF BerLength
  <2>3. form = 0 => LengthBytes(n) = <<129, n>> /\ HeaderLength(n) = 3
    BY <1>6 DEF LengthBytes, HeaderLength
  <2> QED BY <2>1, <2>2, <2>3
<1>7. CASE ~(n < 128 /\ form = 0) /\ ~(n < 256 /\ form < 2)
  <2>1. BerLength(n, form) = l
    BY <1>4, <1>7 DEF BerLength
  <2>2. form = 0 => LengthBytes(n) = l /\ HeaderLength(n) = 4
    BY <1>4, <1>7 DEF LengthBytes, HeaderLength
  <2> DEFINE x == BerLength(n, form)
  <2>3. x \in Seq(Byte) /\ Len(x) = 3
    BY <1>3, <2>1
  <2>4. form = 0 => LengthBytes(n) = x
    BY <2>1, <2>2
  <2> HIDE DEF x
  <2>5. Len(x) \in 1 .. 3 /\ 1 + Len(x) = 4
    BY <2>3
  <2> QED BY <2>2, <2>3, <2>4, <2>5 DEF x
<1> QED BY <1>5, <1>6, <1>7

\* How a length is read: in the first byte, or in those that the first counts.
Says(l, n) ==
    \/ Len(l) = 1 /\ l[1] = n /\ n < 128
    \/ \E more \in 1 .. 2 : /\ Len(l) = 1 + more /\ l[1] = 128 + more
                            /\ Number(0, SubSeq(l, 2, 1 + more), 256) = n

\* A length says what it was written for, in any form.
LEMMA LengthIsRead ==
    ASSUME NEW n \in Nat, n < Word, NEW form \in 0 .. 2
    PROVE  Says(BerLength(n, form), n)
<1>1. CASE n < 128 /\ form = 0
  <2>1. BerLength(n, form) = <<n>>
    BY <1>1 DEF BerLength
  <2>2. Len(<<n>>) = 1 /\ <<n>>[1] = n
    OBVIOUS
  <2> QED BY <1>1, <2>1, <2>2 DEF Says
<1>2. CASE ~(n < 128 /\ form = 0) /\ n < 256 /\ form < 2
  <2> DEFINE l == <<129, n>>
             t == <<n>>
  <2>1. BerLength(n, form) = l
    BY <1>2 DEF BerLength
  <2>2. Len(l) = 2 /\ l[1] = 129 /\ l[2] = n /\ l \in Seq(Nat)
    OBVIOUS
  <2>3. t \in Seq(Nat) /\ Len(t) = 1 /\ t[1] = n /\ t \in Seq(Int)
    OBVIOUS
  <2>4. SubSeq(l, 2, 2) = t
    <3> DEFINE u == SubSeq(l, 2, 2)
    <3> HIDE DEF l, t
    <3>1. \A i \in 2 .. 2 : l[i] \in Nat
      BY <2>2
    <3>2. /\ u \in Seq(Nat) /\ Len(u) = IF 2 <= 2 THEN 2 - 2 + 1 ELSE 0
          /\ \A i \in 1 .. 2 - 2 + 1 : u[i] = l[2 + i - 1]
      BY <3>1, SubSeqProperties
    <3> HIDE DEF u
    <3>3. Len(u) = 1 /\ u[1] = l[2]
      <4>1. 2 - 2 + 1 = 1 /\ 2 + 1 - 1 = 2 /\ 1 \in 1 .. 1 /\ 2 <= 2
        OBVIOUS
      <4> QED BY <3>2, <4>1
    <3>4. \A i \in 1 .. Len(u) : u[i] = t[i]
      <4>1. \A i \in 1 .. 1 : i = 1
        OBVIOUS
      <4> QED BY <2>2, <2>3, <3>3, <4>1
    <3>5. u = t
      BY <2>3, <3>2, <3>3, <3>4, SeqEqual
    <3> QED BY <3>5 DEF u
  <2> HIDE DEF l, t
  <2>5. Number(0, t, 256) = n
    <3> DEFINE g == [i \in 0 .. 1 |-> IF i = 0 THEN 0 ELSE n]
    <3>1. g[0] = 0 /\ g[1] = n
      OBVIOUS
    <3> HIDE DEF g
    <3>2. \A i \in 1 .. 1 : g[i] = g[i - 1] * 256 + t[i]
      <4>1. \A i \in 1 .. 1 : i = 1 /\ i - 1 = 0
        OBVIOUS
      <4>2. 0 * 256 + n = n
        OBVIOUS
      <4> QED BY <2>3, <3>1, <4>1, <4>2
    <3>3. Counts(g, 0, t, 256)
      BY <2>3, <3>1, <3>2 DEF Counts
    <3>4. Number(0, t, 256) = g[Len(t)]
      <4> DEFINE b == 256
      <4>1. 0 \in Int /\ b \in Int /\ t \in Seq(Int) /\ Counts(g, 0, t, b)
        BY <2>3, <3>3
      <4> HIDE DEF b
      <4>2. Number(0, t, b) = g[Len(t)]
        BY <4>1, NumberIs, ZenonT(30)
      <4> QED BY <4>2 DEF b
    <3> QED BY <2>3, <3>1, <3>4
  <2>6. Says(l, n)
    <3>1. 1 \in 1 .. 2 /\ 1 + 1 = 2 /\ Len(l) = 1 + 1 /\ l[1] = 128 + 1
      BY <2>2
    <3>2. SubSeq(l, 2, 1 + 1) = t
      BY <2>4, <3>1
    <3> QED BY <2>5, <3>1, <3>2 DEF Says
  <2> QED BY <2>1, <2>6
<1>3. CASE ~(n < 128 /\ form = 0) /\ ~(n < 256 /\ form < 2)
  <2> DEFINE d == Digits(n, 256, 2)
             h == <<130>>
             l == h \o d
  <2>1. BerLength(n, form) = l
    BY <1>3 DEF BerLength
  <2>2. d \in Seq(Byte) /\ Len(d) = 2 /\ Number(0, d, 256) = n
    BY TwoDigits
  <2>3. h \in Seq(Byte) /\ Len(h) = 1 /\ h[1] = 130
    BY DEF Byte
  <2> HIDE DEF d, h
  <2>4. h \in Seq(Byte) /\ d \in Seq(Byte)
    BY <2>2, <2>3
  <2>5. /\ l \in Seq(Byte) /\ Len(l) = Len(h) + Len(d)
        /\ (\A i \in 1 .. Len(h) : l[i] = h[i])
        /\ \A i \in 1 .. Len(d) : l[Len(h) + i] = d[i]
    BY <2>4, ConcatElements
  <2> HIDE DEF l
  <2>6. Len(l) = 3 /\ l[1] = 130 /\ l[2] = d[1] /\ l[3] = d[2]
    <3>1. 1 \in 1 .. 1 /\ 1 \in 1 .. 2 /\ 2 \in 1 .. 2 /\ 1 + 1 = 2 /\ 1 + 2 = 3
      OBVIOUS
    <3> QED BY <2>2, <2>3, <2>5, <3>1
  <2>7. SubSeq(l, 2, 3) = d
    <3> DEFINE t == SubSeq(l, 2, 3)
    <3>1. \A i \in 2 .. 3 : l[i] \in Byte
      <4>1. \A i \in 2 .. 3 : i \in 1 .. Len(l)
        BY <2>6
      <4> QED BY <2>5, <4>1, ElementOfSeq
    <3>2. /\ t \in Seq(Byte) /\ Len(t) = IF 2 <= 3 THEN 3 - 2 + 1 ELSE 0
          /\ \A i \in 1 .. 3 - 2 + 1 : t[i] = l[2 + i - 1]
      BY <3>1, SubSeqProperties
    <3> HIDE DEF t
    <3>3. Len(t) = 2 /\ \A i \in 1 .. 2 : t[i] = l[1 + i]
      BY <3>2
    <3>4. \A i \in 1 .. Len(t) : t[i] = d[i]
      BY <2>2, <2>3, <2>5, <3>3
    <3>5. t = d
      BY <2>2, <3>2, <3>3, <3>4, SeqEqual
    <3> QED BY <3>5 DEF t
  <2>8. Says(l, n)
    <3>1. 2 \in 1 .. 2 /\ 1 + 2 = 3 /\ Len(l) = 1 + 2 /\ l[1] = 128 + 2
      BY <2>6
    <3>2. SubSeq(l, 2, 1 + 2) = d
      BY <2>7, <3>1
    <3> QED BY <2>2, <3>1, <3>2 DEF Says
  <2> QED BY <2>1, <2>8
<1> QED BY <1>1, <1>2, <1>3

-----------------------------------------------------------------------------
(* Elements.                                                                 *)

\* An element is longer than its body by two bytes or more.
LEMMA BerType ==
    ASSUME NEW type \in Byte, NEW body \in Seq(Byte), NEW form \in 0 .. 2
    PROVE  /\ Ber(type, body, form) \in Seq(Byte)
           /\ Len(Ber(type, body, form)) = 1 + Len(BerLength(Len(body), form)) + Len(body)
           /\ Len(Ber(type, body, form)) > Len(body) + 1
<1> DEFINE h == <<type>>
           l == BerLength(Len(body), form)
<1>1. h \in Seq(Byte) /\ Len(h) = 1
  OBVIOUS
<1>2. l \in Seq(Byte) /\ Len(l) \in 1 .. 3 /\ Len(body) \in Nat
  BY BerLengthType, LenProperties
<1>3. Ber(type, body, form) = (h \o l) \o body
  BY DEF Ber
<1> HIDE DEF h, l
<1>4. h \o l \in Seq(Byte) /\ Len(h \o l) = Len(h) + Len(l)
  BY <1>1, <1>2, ConcatElements
<1>5. (h \o l) \o body \in Seq(Byte) /\ Len((h \o l) \o body) = Len(h \o l) + Len(body)
  BY <1>4, ConcatElements
<1> QED BY <1>1, <1>2, <1>3, <1>4, <1>5 DEF l

\* A part of a packet.
Holds(b, at, part) ==
    /\ at \in Nat /\ part \in Seq(Byte) /\ at + Len(part) <= Len(b)
    /\ \A i \in 1 .. Len(part) : b[at + i] = part[i]

\* What holds two parts holds each.
LEMMA HoldsParts ==
    ASSUME NEW b \in Seq(Byte), NEW at \in Nat, NEW p \in Seq(Byte), NEW q \in Seq(Byte),
           Holds(b, at, p \o q)
    PROVE  Holds(b, at, p) /\ Holds(b, at + Len(p), q) /\ Len(p \o q) = Len(p) + Len(q)
<1> DEFINE m == Len(p)  n == Len(q)  r == p \o q
<1>1. m \in Nat /\ n \in Nat /\ Len(b) \in Nat
  BY LenProperties
<1>2. /\ Len(r) = m + n
      /\ (\A i \in 1 .. m : r[i] = p[i]) /\ \A i \in 1 .. n : r[m + i] = q[i]
  BY ConcatElements
<1>3. at + Len(r) <= Len(b) /\ \A i \in 1 .. Len(r) : b[at + i] = r[i]
  BY DEF Holds
<1> HIDE DEF r
<1>4. Holds(b, at, p)
  <2>1. \A i \in 1 .. m : b[at + i] = p[i]
    BY <1>1, <1>2, <1>3
  <2> QED BY <1>1, <1>2, <1>3, <2>1 DEF Holds
<1>5. Holds(b, at + m, q)
  <2>1. ASSUME NEW i \in 1 .. n
        PROVE  b[(at + m) + i] = q[i]
    <3>1. m + i \in 1 .. m + n /\ at + (m + i) = (at + m) + i
      BY <1>1
    <3> QED BY <1>2, <1>3, <3>1
  <2> QED BY <1>1, <1>2, <1>3, <2>1 DEF Holds
<1> QED BY <1>2, <1>4, <1>5 DEF r

\* The bytes a packet holds are there.
LEMMA HoldsBytes ==
    ASSUME NEW b \in Seq(Byte), NEW at \in Nat, NEW p \in Seq(Byte), Holds(b, at, p)
    PROVE  SubSeq(b, at + 1, at + Len(p)) = p
<1> DEFINE n == Len(p)
           t == SubSeq(b, at + 1, at + n)
<1>1. n \in Nat /\ Len(b) \in Nat /\ at + n <= Len(b) /\ \A i \in 1 .. n : b[at + i] = p[i]
  BY LenProperties DEF Holds
<1>2. \A i \in at + 1 .. at + n : b[i] \in Byte
  <2>1. \A i \in at + 1 .. at + n : i \in 1 .. Len(b)
    BY <1>1
  <2> QED BY <2>1, ElementOfSeq
<1>3. at + 1 \in Int /\ at + n \in Int
  BY <1>1
<1>4. /\ t \in Seq(Byte)
      /\ Len(t) = IF at + 1 <= at + n THEN (at + n) - (at + 1) + 1 ELSE 0
      /\ \A i \in 1 .. (at + n) - (at + 1) + 1 : t[i] = b[(at + 1) + i - 1]
  BY <1>2, <1>3, SubSeqProperties
<1> HIDE DEF t
<1>5. Len(t) = n /\ \A i \in 1 .. n : t[i] = b[at + i]
  <2>1. (at + n) - (at + 1) + 1 = n /\ \A i \in 1 .. n : (at + 1) + i - 1 = at + i
    BY <1>1
  <2> QED BY <1>1, <1>4, <2>1
<1>6. \A i \in 1 .. Len(t) : t[i] = p[i]
  BY <1>1, <1>5
<1>7. t = p
  BY <1>4, <1>5, <1>6, SeqEqual
<1> QED BY <1>7 DEF t

SamePart(b, at, p, m, n) == SubSeq(b, at + m, at + n) = SubSeq(p, m, n)

\* And so are those between two places of them.
LEMMA HoldsSub ==
    ASSUME NEW b \in Seq(Byte), NEW at \in Nat, NEW p \in Seq(Byte), Holds(b, at, p),
           NEW m \in Nat \ {0}, NEW n \in Nat, m <= n, n <= Len(p)
    PROVE  SamePart(b, at, p, m, n)
<1> DEFINE u == SubSeq(b, at + m, at + n)
           v == SubSeq(p, m, n)
           k == n - m + 1
<1>1. /\ Len(p) \in Nat /\ Len(b) \in Nat /\ at + Len(p) <= Len(b)
      /\ \A i \in 1 .. Len(p) : b[at + i] = p[i]
  BY LenProperties DEF Holds
<1>2. \A i \in at + m .. at + n : b[i] \in Byte
  <2>1. \A i \in at + m .. at + n : i \in 1 .. Len(b)
    BY <1>1
  <2> QED BY <2>1, ElementOfSeq
<1>3. \A i \in m .. n : p[i] \in Byte
  <2>1. \A i \in m .. n : i \in 1 .. Len(p)
    BY <1>1
  <2> QED BY <2>1, ElementOfSeq
<1>4. /\ u \in Seq(Byte)
      /\ Len(u) = IF at + m <= at + n THEN (at + n) - (at + m) + 1 ELSE 0
      /\ \A i \in 1 .. (at + n) - (at + m) + 1 : u[i] = b[(at + m) + i - 1]
  <2>1. at + m \in Int /\ at + n \in Int
    OBVIOUS
  <2> QED BY <1>2, <2>1, SubSeqProperties
<1>5. /\ v \in Seq(Byte) /\ Len(v) = IF m <= n THEN n - m + 1 ELSE 0
      /\ \A i \in 1 .. n - m + 1 : v[i] = p[m + i - 1]
  BY <1>3, SubSeqProperties
<1> HIDE DEF u, v
<1>6. k \in Nat /\ Len(u) = k /\ Len(v) = k
  BY <1>4, <1>5
<1>7. ASSUME NEW i \in 1 .. k
      PROVE  u[i] = v[i]
  <2>1. /\ m + i - 1 \in 1 .. Len(p) /\ (at + m) + i - 1 = at + (m + i - 1)
        /\ i \in 1 .. (at + n) - (at + m) + 1
    BY <1>1, <1>6
  <2> QED BY <1>1, <1>4, <1>5, <2>1
<1>8. u = v
  <2> HIDE DEF k
  <2> QED BY <1>4, <1>5, <1>6, <1>7, SeqEqual
<1> QED BY <1>8 DEF u, v, SamePart

\* What decoding finds of an element with a body that ends at end.
IsElement(e, b, type, body, end) ==
    /\ e.ok = TRUE /\ e.type = type /\ e.len = Len(body)
    /\ e.at \in Nat /\ end \in Nat /\ After(e) = end /\ e.at + Len(body) = end /\ end <= Len(b)
    /\ Holds(b, e.at, body) /\ Bytes(b, e) = body /\ Fits(b, e)

\* Places, counted from the start of the packet or of the element.
LEMMA Places ==
    ASSUME NEW at \in Nat
    PROVE  /\ at + 1 \in Nat /\ (at + 1) + 1 = at + 2 /\ (at + 1) + 2 = at + 3
           /\ \A m \in Nat : at + 1 + m = (at + 1) + m /\ at + 2 + m = at + 1 + (1 + m)
                             /\ (at + 1) + 1 + m = (at + 1) + (1 + m)
  OBVIOUS

\* The header of an element, where a packet holds it.
LEMMA HeldHeader ==
    ASSUME NEW b \in Seq(Byte), NEW at \in Nat, NEW type \in Byte,
           NEW l \in Seq(Byte), Len(l) \in 1 .. 3, NEW n \in Nat, Says(l, n),
           Holds(b, at, <<type>>), Holds(b, at + 1, l)
    PROVE  Element(b, at) = IF type \in Types
                            THEN [ok |-> TRUE, type |-> type, at |-> at + 1 + Len(l), len |-> n]
                            ELSE NoElement
<1>1. b[at + 1] = type
  <2>1. Len(<<type>>) = 1 /\ <<type>>[1] = type /\ 1 \in 1 .. 1
    OBVIOUS
  <2> QED BY <2>1 DEF Holds
<1>2. b[at + 2] = l[1] /\ at + 1 + Len(l) <= Len(b) /\ Len(b) \in Nat /\ at + 2 <= Len(b)
  <2>1. (at + 1) + 1 = at + 2
    BY Places
  <2>2. (at + 1) + 1 = at + 2 /\ 1 \in 1 .. Len(l)
    <3> DEFINE m == Len(l)
    <3>1. m \in 1 .. 3
      OBVIOUS
    <3> HIDE DEF m
    <3>2. 1 \in 1 .. m
      BY <3>1
    <3> QED BY <2>1, <3>2 DEF m
  <2>3. b[(at + 1) + 1] = l[1] /\ (at + 1) + Len(l) <= Len(b)
    BY <2>2 DEF Holds
  <2> QED BY <2>2, <2>3, LenProperties
<1>3. /\ LengthAt(b, at + 1) = n /\ at + 2 + More(b[at + 2]) = at + 1 + Len(l)
      /\ More(b[at + 2]) <= 2
  <2>1. (at + 1) + 1 = at + 2
    BY Places
  <2>2. CASE Len(l) = 1 /\ l[1] = n /\ n < 128
    <3>1. b[at + 2] = n /\ More(n) = 0
      BY <1>2, <2>2 DEF More
    <3> QED BY <2>1, <2>2, <3>1 DEF LengthAt
  <2>3. ASSUME NEW more \in 1 .. 2, Len(l) = 1 + more, l[1] = 128 + more,
               Number(0, SubSeq(l, 2, 1 + more), 256) = n
        PROVE  /\ LengthAt(b, at + 1) = n /\ at + 2 + More(b[at + 2]) = at + 1 + Len(l)
               /\ More(b[at + 2]) <= 2
    <3>1. SubSeq(b, (at + 1) + 2, (at + 1) + (1 + more)) = SubSeq(l, 2, 1 + more)
      <4> DEFINE p == at + 1
                 j == 2
                 m == 1 + more
      <4>1. p \in Nat /\ j \in Nat \ {0} /\ m \in Nat /\ j <= m /\ m <= Len(l) /\ Holds(b, p, l)
        BY <2>3, Places
      <4> HIDE DEF p, j, m
      <4>2. SamePart(b, p, l, j, m)
        BY <4>1, HoldsSub
      <4> QED BY <4>2 DEF p, j, m, SamePart
    <3> DEFINE byte == b[at + 2]
    <3>2. byte = 128 + more
      BY <1>2, <2>3
    <3> HIDE DEF byte
    <3>3. ~(byte < 128) /\ More(byte) = more
      BY <3>2 DEF More
    <3>4. (at + 1) + 2 = at + 1 + 2 /\ (at + 1) + 1 + More(byte) = (at + 1) + (1 + more)
          /\ at + 2 + More(byte) = at + 1 + (1 + more)
      BY <3>3, Places
    <3>5. LengthAt(b, at + 1) = Number(0, SubSeq(b, (at + 1) + 2, (at + 1) + 1 + More(byte)), 256)
      BY <2>1, <3>3 DEF LengthAt, byte
    <3>6. LengthAt(b, at + 1) = n
      BY <2>3, <3>1, <3>4, <3>5
    <3> QED BY <2>3, <3>3, <3>4, <3>6 DEF byte
  <2> QED BY <2>2, <2>3 DEF Says
<1> DEFINE m == Len(l)
           c == at + 1 + m
           r == [ok |-> TRUE, type |-> type, at |-> c, len |-> n]
<1>4. /\ b[at + 1] = type /\ LengthAt(b, at + 1) = n /\ at + 2 + More(b[at + 2]) = c
      /\ More(b[at + 2]) <= 2 /\ at + 2 <= Len(b) /\ c <= Len(b)
  BY <1>1, <1>2, <1>3
<1> HIDE DEF m, c
<1>5. type \in Types => Element(b, at) = r
  BY <1>4 DEF Element
<1>6. type \notin Types => Element(b, at) = NoElement
  BY <1>4 DEF Element
<1> HIDE DEF r
<1>7. Element(b, at) = IF type \in Types THEN r ELSE NoElement
  BY <1>5, <1>6
<1> QED BY <1>7 DEF r, c, m

\* An element is read as it was written, wherever its packet holds it and in any
\* form of length, if its type is known; an unknown type is none
\* (decode_snmp_element_type_length).
THEOREM ElementIsRead ==
    ASSUME NEW b \in Seq(Byte), Len(b) < Word, NEW at \in Nat,
           NEW type \in Byte, NEW body \in Seq(Byte), NEW form \in 0 .. 2,
           Holds(b, at, Ber(type, body, form))
    PROVE  IF type \in Types
           THEN IsElement(Element(b, at), b, type, body, at + Len(Ber(type, body, form)))
           ELSE Element(b, at) = NoElement
<1> DEFINE h == <<type>>
           n == Len(body)
           l == BerLength(n, form)
           e == Element(b, at)
           end == at + Len(Ber(type, body, form))
<1>1. h \in Seq(Byte) /\ Len(h) = 1 /\ n \in Nat /\ Len(b) \in Nat /\ Word \in Nat
  <2>1. h \in Seq(Byte) /\ Len(h) = 1
    OBVIOUS
  <2> QED BY <2>1, LenProperties, WordType
<1>2. l \in Seq(Byte) /\ Len(l) \in 1 .. 3
  BY <1>1, BerLengthType
<1>3. Ber(type, body, form) = (h \o l) \o body
  BY DEF Ber
<1>4. end = at + (1 + Len(l) + n)
  BY BerType
<1>5. Says(l, n)
  <2>1. end <= Len(b)
    BY DEF Holds
  <2> HIDE DEF end, l
  <2>2. n < Word
    BY <1>1, <1>2, <1>4, <2>1
  <2> QED BY <1>1, <2>2, LengthIsRead DEF l
<1> HIDE DEF l, h
<1>6. Holds(b, at, h) /\ Holds(b, at + 1, l) /\ Holds(b, at + 1 + Len(l), body)
  <2> DEFINE r == h \o l
  <2>1. r \in Seq(Byte) /\ Len(r) = 1 + Len(l)
    <3>1. h \in Seq(Byte) /\ l \in Seq(Byte) /\ Len(h) = 1
      BY <1>1, <1>2
    <3>2. r \in Seq(Byte) /\ Len(r) = Len(h) + Len(l)
      BY <3>1, ConcatElements
    <3> QED BY <3>1, <3>2
  <2>2. Holds(b, at, r \o body)
    BY <1>3
  <2>3. Holds(b, at, r) /\ Holds(b, at + (1 + Len(l)), body)
    <3> HIDE DEF r
    <3> QED BY ZenonT(30), <2>1, <2>2, HoldsParts
  <2>4. Holds(b, at, h) /\ Holds(b, at + Len(h), l)
    <3>1. Holds(b, at, h \o l)
      BY <2>3
    <3> QED BY <1>1, <1>2, <3>1, HoldsParts
  <2>5. at + (1 + Len(l)) = at + 1 + Len(l)
    BY <1>2
  <2> QED BY <1>1, <2>3, <2>4, <2>5
<1>7. e = IF type \in Types THEN [ok |-> TRUE, type |-> type, at |-> at + 1 + Len(l), len |-> n]
          ELSE NoElement
  <2> HIDE DEF n
  <2> QED BY <1>1, <1>2, <1>5, <1>6, HeldHeader DEF h
<1>8. ASSUME type \in Types
      PROVE  IsElement(e, b, type, body, end)
  <2> DEFINE a == at + 1 + Len(l)
  <2>1. a \in Nat /\ end = a + n /\ end \in Nat
    <3> HIDE DEF end, n
    <3> QED BY <1>1, <1>2, <1>4
  <2>2. Holds(b, a, body) /\ end <= Len(b)
    <3>1. Holds(b, a, body)
      BY <1>6
    <3> HIDE DEF a, end
    <3> QED BY <2>1, <3>1 DEF Holds
  <2> HIDE DEF a
  <2>3. e = [ok |-> TRUE, type |-> type, at |-> a, len |-> n]
    BY <1>7, <1>8 DEF a
  <2> HIDE DEF e, end
  <2>4. e.ok = TRUE /\ e.type = type /\ e.at = a /\ e.len = n
    BY <2>3
  <2>5. After(e) = end
    BY <2>1, <2>4 DEF After
  <2>6. Bytes(b, e) = body
    <3>1. SubSeq(b, a + 1, a + n) = body
      BY <2>1, <2>2, HoldsBytes
    <3> QED BY <2>1, <2>4, <2>5, <3>1 DEF Bytes
  <2>7. Fits(b, e)
    <3>1. a < Len(b) - n + 1
      BY <1>1, <2>1, <2>2
    <3> HIDE DEF n
    <3> QED BY <2>4, <3>1 DEF Fits
  <2> QED BY <2>1, <2>2, <2>4, <2>5, <2>6, <2>7 DEF IsElement
<1> QED BY <1>7, <1>8

-----------------------------------------------------------------------------
(* Values.                                                                   *)

\* The codes of types are bytes the agent knows.
LEMMA CodesAreBytes ==
    /\ Integer \in Byte /\ OctetString \in Byte /\ Oid \in Byte /\ Sequence \in Byte
    /\ Response \in Byte
    /\ Integer \in Types /\ OctetString \in Types /\ Oid \in Types /\ Sequence \in Types
  BY DEF Integer, OctetString, Oid, Sequence, Response, Byte, Types

\* Bytes are naturals.
LEMMA BytesAreNumbers ==
    /\ Byte \subseteq Nat /\ \A s \in Seq(Byte) : s \in Seq(Nat)
<1>1. Byte \subseteq Nat
  BY DEF Byte
<1> QED BY <1>1, SeqMonotonic

\* An integer of an int is written in k bytes, by the manager and by the agent.
WrittenIn(v, k) ==
    /\ v \in Int /\ v \in Integers(k)
    /\ Digits(v, 256, k) \in Seq(Byte) /\ Len(Digits(v, 256, k)) = k
    /\ IntegerLength(v) = k /\ (v \in {0, 1} => k = 1)
    /\ \A form : BerInteger(v, form) = Ber(Integer, Digits(v, 256, k), form)

\* The bytes the agent counts for an integer are the least that hold it.
LEMMA IntegerIsWritten ==
    ASSUME NEW v \in Integers(IntBytes)
    PROVE  \E k \in 1 .. IntBytes : WrittenIn(v, k)
<1> DEFINE fit  == {j \in 1 .. IntBytes : v \in Integers(j)}
           last == {j \in 1 .. IntBytes : j = IntBytes \/ v \in Integers(j)}
           k    == Least(fit)
<1>1. IntBytes \in Nat \ {0} /\ IntBytes \in 1 .. IntBytes /\ IntBytes <= IntBytes
      /\ IntBytes \in Nat
  BY Sizes
<1>2. v \in Int
  BY <1>1, IntegersGrow
<1>3. fit = last /\ IntBytes \in fit /\ fit \subseteq Nat
  BY <1>1
<1> HIDE DEF fit
<1>4. k \in fit /\ \A m \in fit : k <= m
  BY <1>3, LeastIs
<1>5. IntegerLength(v) = k
  BY <1>3 DEF IntegerLength
<1>6. \A form : BerInteger(v, form) = Ber(Integer, Digits(v, 256, k), form)
  BY DEF BerInteger, fit
<1>7. k \in 1 .. IntBytes /\ v \in Integers(k)
  BY <1>4 DEF fit
<1>8. ASSUME v \in {0, 1}
      PROVE  k = 1
  <2>1. PICK p \in Nat \ {0} : TopByte(p, 1)
    BY IntegersAre
  <2>2. v \in Integers(1)
    <3>1. Integers(1) = -(128 * p) .. 128 * p - 1
      BY <2>1 DEF TopByte
    <3>2. \A x \in {0, 1} : x \in -(128 * p) .. 128 * p - 1
      BY <2>1
    <3> QED BY <1>8, <3>1, <3>2
  <2>3. 1 \in fit
    BY <1>1, <2>2 DEF fit
  <2> HIDE DEF k
  <2>4. k <= 1
    BY <1>4, <2>3
  <2> QED BY <1>7, <2>4
<1> HIDE DEF k
<1>9. Digits(v, 256, k) \in Seq(Byte) /\ Len(Digits(v, 256, k)) = k
  <2>1. k \in Nat \ {0}
    BY <1>7
  <2> QED BY <1>2, <1>7, <2>1, IntegerBytes DEF Byte
<1> QED BY <1>2, <1>5, <1>6, <1>7, <1>8, <1>9 DEF WrittenIn

\* A community is read as it was written.
LEMMA StringIsRead ==
    ASSUME NEW s \in Seq(1 .. 255)
    PROVE  StringOf(s) = s /\ s \in Seq(Byte)
<1>1. \A i \in 1 .. Len(s) : s[i] \in 1 .. 255
  BY ElementOfSeq
<1>2. {i \in DOMAIN s : s[i] = 0} = {}
  <2>1. DOMAIN s = 1 .. Len(s)
    BY LenProperties
  <2>2. ASSUME NEW i \in 1 .. Len(s) PROVE s[i] # 0
    <3> DEFINE x == s[i]
    <3>1. x \in 1 .. 255
      BY <1>1
    <3> HIDE DEF x
    <3>2. x # 0
      BY <3>1
    <3> QED BY <3>2 DEF x
  <2> QED BY <2>1, <2>2
<1>3. s \in Seq(Byte)
  <2>1. 1 .. 255 \subseteq Byte
    BY DEF Byte
  <2> QED BY <2>1, SeqMonotonic
<1> QED BY <1>2, <1>3 DEF StringOf

-----------------------------------------------------------------------------
(* Encoding.                                                                 *)

\* acc is what there is in the buffer once want has been encoded.
Puts(acc, want) ==
    want \in Seq(Byte) /\ acc = IF Len(want) > MaxPacket THEN Refused ELSE want

\* No packet is taken for a refusal.
LEMMA NeverRefused == ASSUME NEW s \in Seq(Byte) PROVE s # Refused
<1> SUFFICES ASSUME s = Refused PROVE FALSE
  OBVIOUS
<1>1. Len(Refused) = 1 /\ Refused[1] = 256
  BY DEF Refused
<1>2. 1 \in 1 .. Len(s)
  BY <1>1
<1>3. s[1] \in Byte
  BY <1>2, ElementOfSeq
<1>4. 256 \notin Byte
  BY DEF Byte
<1> QED BY <1>1, <1>3, <1>4

\* At first there is nothing.
LEMMA NothingPut == Puts(<<>>, <<>>)
<1>1. <<>> \in Seq(Byte) /\ Len(<<>>) = 0
  BY EmptySeq
<1>2. ~(0 > MaxPacket)
  BY Sizes
<1> QED BY <1>1, <1>2 DEF Puts

\* What is placed stands before what was there.
LEMMA PlacePuts ==
    ASSUME NEW acc, NEW want, Puts(acc, want), NEW part \in Seq(Byte)
    PROVE  Puts(Place(acc, Len(part), part), part \o want)
<1> DEFINE n == Len(part)
           r == part \o want
<1>1. want \in Seq(Byte) /\ acc = IF Len(want) > MaxPacket THEN Refused ELSE want
  BY DEF Puts
<1>2. n \in Nat /\ Len(want) \in Nat /\ MaxPacket \in Nat
  BY <1>1, LenProperties, Sizes
<1>3. r \in Seq(Byte) /\ Len(r) = n + Len(want)
  BY <1>1, ConcatElements
<1>4. CASE Len(want) > MaxPacket
  <2>1. acc = Refused
    BY <1>1, <1>4
  <2>2. Place(acc, n, part) = Refused
    BY <2>1 DEF Place
  <2>3. Len(r) > MaxPacket
    BY <1>2, <1>3, <1>4
  <2> HIDE DEF r
  <2>4. Puts(Refused, r)
    BY <1>3, <2>3 DEF Puts
  <2> QED BY <2>2, <2>4 DEF r
<1>5. CASE ~(Len(want) > MaxPacket)
  <2>1. acc = want /\ acc # Refused
    BY <1>1, <1>5, NeverRefused
  <2> DEFINE x == [i \in 1 .. n |-> IF i <= n THEN part[i] ELSE Stale]
             y == SubSeq(part, n + 1, n)
             z == SubSeq(acc, 1, Len(acc))
  <2>2. x = part
    <3>1. x = [i \in 1 .. n |-> part[i]]
      BY <1>2
    <3>2. part = [i \in 1 .. n |-> part[i]]
      BY LenProperties
    <3> QED BY <3>1, <3>2
  <2>3. y = <<>>
    <3> HIDE DEF n
    <3>1. n + 1 \in Int /\ n \in Int /\ n < n + 1
      BY <1>2
    <3> QED BY <3>1, SubSeqEmpty
  <2>4. z = want
    BY <1>1, <2>1, SubSeqFull
  <2>5. Place(acc, n, part) = IF Len(acc) + n > MaxPacket THEN Refused
                              ELSE x \o y \o SubSeq(acc, IF n > n THEN n - n + 1 ELSE 1, Len(acc))
    BY <2>1 DEF Place
  <2>6. ~(n > n)
    BY <1>2
  <2>7. Place(acc, n, part) = IF Len(acc) + n > MaxPacket THEN Refused ELSE (x \o y) \o z
    BY <2>5, <2>6
  <2> HIDE DEF x, y, z
  <2>8. (x \o y) \o z = r
    <3>1. part \o <<>> = part
      BY ConcatEmptySeq
    <3> QED BY <2>2, <2>3, <2>4, <3>1
  <2>9. Place(acc, n, part) = IF Len(r) > MaxPacket THEN Refused ELSE r
    <3>1. Len(acc) + n = Len(r)
      BY <1>2, <1>3, <2>1
    <3> QED BY <2>7, <2>8, <3>1
  <2> DEFINE p == Place(acc, n, part)
  <2> HIDE DEF r, p
  <2>10. Puts(p, r)
    BY <1>3, <2>9 DEF Puts, p
  <2> QED BY <2>10 DEF p, r
<1> QED BY <1>4, <1>5

\* A header, before all of its body and before what comes after it.
LEMMA HeaderPuts ==
    ASSUME NEW acc, NEW body \in Seq(Byte), NEW rest \in Seq(Byte), NEW type \in Byte,
           Puts(acc, body \o rest)
    PROVE  Puts(PutHeader(acc, Len(body), type), Ber(type, body, 0) \o rest)
<1> DEFINE n == Len(body)
           l == BerLength(n, 0)
           h == <<type>> \o l
<1>1. /\ l \in Seq(Byte) /\ Len(l) \in 1 .. 3 /\ n \in Nat
      /\ LengthBytes(n) = l /\ HeaderLength(n) = 1 + Len(l)
  <2>1. n \in Nat /\ 0 \in 0 .. 2
    BY LenProperties
  <2> QED BY <2>1, BerLengthType
<1>2. h \in Seq(Byte) /\ Len(h) = 1 + Len(l)
  <2> DEFINE t == <<type>>
  <2>1. t \in Seq(Byte) /\ Len(t) = 1
    OBVIOUS
  <2> HIDE DEF t, l
  <2>2. t \o l \in Seq(Byte) /\ Len(t \o l) = Len(t) + Len(l)
    BY <1>1, <2>1, ConcatElements
  <2> QED BY <2>1, <2>2 DEF t
<1>3. PutHeader(acc, n, type) = Place(acc, Len(h), h)
  BY <1>1, <1>2 DEF PutHeader
<1>4. Ber(type, body, 0) = h \o body
  BY DEF Ber
<1> HIDE DEF h, n, l
<1>5. (h \o body) \o rest = h \o (body \o rest)
  BY SMTT(30), <1>2, ConcatAssociative
<1>6. Puts(Place(acc, Len(h), h), h \o (body \o rest))
  BY <1>2, PlacePuts
<1> QED BY <1>3, <1>4, <1>5, <1>6 DEF n

\* A header is put before all there is.
LEMMA WholePuts ==
    ASSUME NEW acc, NEW body, NEW type \in Byte, Puts(acc, body)
    PROVE  Puts(PutHeader(acc, Len(acc), type), Ber(type, body, 0))
<1>1. body \in Seq(Byte) /\ acc = IF Len(body) > MaxPacket THEN Refused ELSE body
  BY DEF Puts
<1>2. CASE Len(body) > MaxPacket
  <2>1. acc = Refused
    BY <1>1, <1>2
  <2>2. PutHeader(acc, Len(acc), type) = Refused
    BY <2>1 DEF PutHeader, Place
  <2> DEFINE r == Ber(type, body, 0)
  <2>3. r \in Seq(Byte) /\ Len(r) > Len(body) + 1
    <3>1. 0 \in 0 .. 2
      OBVIOUS
    <3> QED BY <1>1, <3>1, BerType
  <2> HIDE DEF r
  <2>4. Len(r) > MaxPacket
    <3>1. Len(r) \in Nat /\ Len(body) \in Nat /\ MaxPacket \in Nat
      BY <1>1, <2>3, LenProperties, Sizes
    <3> QED BY <1>2, <2>3, <3>1
  <2>5. Puts(Refused, r)
    BY <2>3, <2>4 DEF Puts
  <2> QED BY <2>2, <2>5 DEF r
<1>3. CASE ~(Len(body) > MaxPacket)
  <2>1. acc = body
    BY <1>1, <1>3
  <2>2. <<>> \in Seq(Byte) /\ body \o <<>> = body
    BY <1>1, EmptySeq, ConcatEmptySeq
  <2>3. Puts(acc, body \o <<>>)
    BY <2>2
  <2>4. Puts(PutHeader(acc, Len(body), type), Ber(type, body, 0) \o <<>>)
    BY <1>1, <2>2, <2>3, HeaderPuts
  <2>5. Ber(type, body, 0) \o <<>> = Ber(type, body, 0)
    <3> DEFINE r == Ber(type, body, 0)
    <3>1. r \in Seq(Byte)
      <4>1. 0 \in 0 .. 2
        OBVIOUS
      <4> QED BY <1>1, <4>1, BerType
    <3> HIDE DEF r
    <3>2. r \o <<>> = r
      BY <3>1, ConcatEmptySeq
    <3> QED BY <3>2 DEF r
  <2> QED BY <2>1, <2>4, <2>5
<1> QED BY <1>2, <1>3

\* Two bytes, one behind the other.
LEMMA TwoEntries ==
    ASSUME NEW x \in Nat, NEW y \in Nat
    PROVE  <<x>> \o <<y>> = <<x, y>>
<1> DEFINE a == <<x>>  b == <<y>>  c == <<x, y>>
<1>1. a \in Seq(Nat) /\ b \in Seq(Nat) /\ Len(a) = 1 /\ Len(b) = 1 /\ a[1] = x /\ b[1] = y
  OBVIOUS
<1>2. c \in Seq(Nat) /\ Len(c) = 2 /\ c[1] = x /\ c[2] = y
  OBVIOUS
<1> HIDE DEF a, b, c
<1>3. a \o b \in Seq(Nat) /\ Len(a \o b) = Len(a) + Len(b)
      /\ (\A i \in 1 .. Len(a) : (a \o b)[i] = a[i])
      /\ \A i \in 1 .. Len(b) : (a \o b)[Len(a) + i] = b[i]
  <2>1. a \in Seq(Nat) /\ b \in Seq(Nat)
    BY <1>1
  <2> QED BY <2>1, ConcatElements
<1> DEFINE d == a \o b
<1>4. d \in Seq(Nat) /\ Len(d) = 2 /\ d[1] = x /\ d[2] = y
  <2>1. 1 \in 1 .. 1 /\ 1 + 1 = 2
    OBVIOUS
  <2> QED BY <1>1, <1>3, <2>1
<1> HIDE DEF d
<1>5. \A i \in 1 .. Len(d) : d[i] = c[i]
  <2>1. \A i \in 1 .. 2 : i = 1 \/ i = 2
    OBVIOUS
  <2> QED BY <1>2, <1>4, <2>1
<1>6. d = c
  BY <1>2, <1>4, <1>5, SeqEqual
<1> QED BY <1>6 DEF a, b, c, d

\* An integer is encoded in BER, in three bytes or more.
LEMMA BerIntegerIs ==
    ASSUME NEW v \in Integers(IntBytes), NEW form \in 0 .. 2
    PROVE  /\ BerInteger(v, form) \in Seq(Byte) /\ Len(BerInteger(v, form)) >= 3
           /\ form = 0 => /\ EncodeInteger(v) = BerInteger(v, form)
                          /\ Len(BerInteger(v, form)) = IntegerLength(v) + 2
<1>1. PICK k \in 1 .. IntBytes : WrittenIn(v, k)
  BY IntegerIsWritten
<1> DEFINE d == Digits(v, 256, k)
           r == Ber(Integer, d, form)
<1>2. d \in Seq(Byte) /\ Len(d) = k /\ IntegerLength(v) = k /\ BerInteger(v, form) = r
  BY <1>1 DEF WrittenIn
<1>3. k \in Nat \ {0} /\ k < 128
  BY Sizes
<1>4. EncodeInteger(v) = <<Integer, k>> \o d
  BY <1>2 DEF EncodeInteger
<1> HIDE DEF d
<1>5. Integer \in Byte
  BY CodesAreBytes
<1>6. r \in Seq(Byte) /\ Len(r) > k + 1 /\ Len(r) = 1 + Len(BerLength(k, form)) + k
  BY <1>2, <1>5, BerType
<1>7. ASSUME form = 0
      PROVE  r = <<Integer, k>> \o d /\ Len(r) = k + 2
  <2>1. BerLength(k, form) = <<k>>
    BY <1>3, <1>7 DEF BerLength
  <2>2. <<Integer>> \o <<k>> = <<Integer, k>> /\ Len(<<k>>) = 1
    <3>1. Integer \in Nat /\ k \in Nat
      BY <1>3, <1>5, BytesAreNumbers
    <3>2. <<Integer>> \o <<k>> = <<Integer, k>>
      BY <3>1, TwoEntries
    <3>3. Len(<<k>>) = 1
      OBVIOUS
    <3> QED BY <3>2, <3>3
  <2>3. r = (<<Integer>> \o <<k>>) \o d
    BY <1>2, <2>1 DEF Ber
  <2> HIDE DEF r
  <2> QED BY <1>3, <1>6, <2>1, <2>2, <2>3
<1> HIDE DEF r
<1>8. Len(r) \in Nat /\ Len(r) >= 3
  <2>1. Len(r) \in Nat
    BY <1>6, LenProperties
  <2> QED BY <1>3, <1>6, <2>1
<1> QED BY <1>2, <1>4, <1>6, <1>7, <1>8

\* An integer is put before what is there.
LEMMA IntegerPuts ==
    ASSUME NEW acc, NEW want, Puts(acc, want), NEW v \in Integers(IntBytes)
    PROVE  Puts(PutInteger(acc, v), BerInteger(v, 0) \o want)
<1> DEFINE r == BerInteger(v, 0)
<1>1. r \in Seq(Byte) /\ EncodeInteger(v) = r /\ Len(r) = IntegerLength(v) + 2
  <2>1. 0 \in 0 .. 2
    OBVIOUS
  <2> QED BY <2>1, BerIntegerIs
<1>2. PutInteger(acc, v) = Place(acc, Len(r), r)
  BY <1>1 DEF PutInteger
<1> HIDE DEF r
<1>3. Puts(Place(acc, Len(r), r), r \o want)
  BY <1>1, PlacePuts
<1> QED BY <1>2, <1>3 DEF r

\* What has a header of its own is encoded as BER.
LEMMA ShortBer ==
    ASSUME NEW type \in Byte, NEW body \in Seq(Byte)
    PROVE  /\ <<type>> \o LengthBytes(Len(body)) \o body = Ber(type, body, 0)
           /\ Ber(type, body, 0) \in Seq(Byte)
           /\ Len(Ber(type, body, 0)) = Len(body) + HeaderLength(Len(body))
<1> DEFINE n == Len(body)
           l == BerLength(n, 0)
           r == Ber(type, body, 0)
<1>1. n \in Nat /\ l \in Seq(Byte) /\ Len(l) \in 1 .. 3
      /\ LengthBytes(n) = l /\ HeaderLength(n) = 1 + Len(l)
  <2>1. n \in Nat /\ 0 \in 0 .. 2
    BY LenProperties
  <2> QED BY <2>1, BerLengthType
<1>2. r = <<type>> \o l \o body
  BY DEF Ber
<1>3. r \in Seq(Byte) /\ Len(r) = 1 + Len(l) + n
  <2>1. 0 \in 0 .. 2
    OBVIOUS
  <2> QED BY <2>1, BerType
<1>4. <<type>> \o LengthBytes(n) \o body = r
  BY <1>1, <1>2
<1> HIDE DEF r, l, n
<1>5. Len(r) = n + HeaderLength(n)
  BY <1>1, <1>3
<1> QED BY <1>3, <1>4, <1>5 DEF r, n

\* A string is put before what is there.
LEMMA StringPuts ==
    ASSUME NEW acc, NEW want, Puts(acc, want), NEW s \in Seq(Byte)
    PROVE  Puts(PutString(acc, s), Ber(OctetString, s, 0) \o want)
<1> DEFINE r == Ber(OctetString, s, 0)
<1>1. /\ <<OctetString>> \o LengthBytes(Len(s)) \o s = r
      /\ r \in Seq(Byte) /\ Len(r) = Len(s) + HeaderLength(Len(s))
  BY CodesAreBytes, ShortBer
<1>2. PutString(acc, s) = Place(acc, Len(r), r)
  BY <1>1 DEF PutString
<1> HIDE DEF r
<1>3. Puts(Place(acc, Len(r), r), r \o want)
  BY <1>1, PlacePuts
<1> QED BY <1>2, <1>3 DEF r

\* The size stored with an OID is that of its element.
LEMMA OidIsWritten ==
    ASSUME NEW o \in Oids
    PROVE  /\ BerOid(o, 0) = EncodeOid(o) /\ BerOid(o, 0) \in Seq(Byte)
           /\ Len(BerOid(o, 0)) = MibOid(o).size
           /\ MibOid(o).subids = o
           /\ \A form : BerOid(o, form) = Ber(Oid, OidBody(o), form)
<1> DEFINE q == FlattenSeq([i \in 1 .. Len(o) - 2 |-> BerSubid(o[i + 2])])
           x == 40 * o[1] + o[2]
           b == OidBody(o)
           l == LengthBytes(OidLength(o))
<1>1. \A form : BerOid(o, form) = Ber(Oid, b, form)
  BY DEF BerOid, OidBody
<1>2. b \in Seq(Byte) /\ Len(b) = OidLength(o)
  BY OidBodyType
<1>3. PICK p \in Seq(Byte) : b = <<x>> \o p
  BY OidBodyIs
<1>4. b = <<x>> \o q
  BY DEF OidBody
<1>5. x = o[1] * 40 + o[2]
  <2> DEFINE a == o[1]  c == o[2]
  <2>1. a \in 0 .. 2 /\ c \in 0 .. 39
    BY OidType
  <2> HIDE DEF a, c
  <2>2. 40 * a + c = a * 40 + c
    BY <2>1
  <2> QED BY <2>2 DEF a, c
<1>6. EncodeOid(o) = <<Oid>> \o l \o <<x>> \o q
  BY <1>5 DEF EncodeOid, BerSubid, SubidLength
<1>7. /\ <<Oid>> \o LengthBytes(Len(b)) \o b = Ber(Oid, b, 0)
      /\ Ber(Oid, b, 0) \in Seq(Byte)
      /\ Len(Ber(Oid, b, 0)) = Len(b) + HeaderLength(Len(b))
  <2> HIDE DEF b
  <2> QED BY <1>2, CodesAreBytes, ShortBer
<1>8. q \in Seq(Byte)
  <2>1. PICK f : /\ \A i \in 0 .. Len(o) - 2 : Reads(f, o, i)
                 /\ q = f[Len(o) - 2]
    BY SubidsOfOid
  <2>2. Len(o) - 2 \in 0 .. Len(o) - 2
    BY OidType
  <2> QED BY <2>1, <2>2 DEF Reads
<1>9. <<Oid>> \o l \in Seq(Byte) /\ <<x>> \in Seq(Byte)
  <2>1. 0 \in 0 .. 2 /\ OidLength(o) \in Nat /\ <<Oid>> \in Seq(Byte)
    BY OidBodyType, CodesAreBytes
  <2>2. l \in Seq(Byte)
    BY <2>1, BerLengthType
  <2>3. x \in Byte
    BY FirstByte
  <2> HIDE DEF l, x
  <2>4. <<x>> \in Seq(Byte)
    BY <2>3
  <2> QED BY <2>1, <2>2, <2>4, ConcatElements
<1>10. EncodeOid(o) = <<Oid>> \o l \o b
  <2> DEFINE u == <<Oid>> \o l
             v == <<x>>
  <2>1. u \in Seq(Byte) /\ v \in Seq(Byte) /\ b = v \o q /\ EncodeOid(o) = (u \o v) \o q
    BY <1>4, <1>6, <1>9
  <2> HIDE DEF u, v, q, b
  <2>2. (u \o v) \o q = u \o (v \o q)
    BY SMTT(30), <1>8, <2>1, ConcatAssociative
  <2> QED BY <2>1, <2>2 DEF u
<1>11. MibOid(o).subids = o /\ MibOid(o).size = OidLength(o) + HeaderLength(OidLength(o))
  BY DEF MibOid
<1> HIDE DEF b
<1> QED BY <1>1, <1>2, <1>7, <1>10, <1>11 DEF b
=============================================================================
