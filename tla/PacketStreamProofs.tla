-------------------------- MODULE PacketStreamProofs --------------------------
(***************************************************************************)
(* That the codec and the reader do what a game client, the server and the *)
(* three parsers rely on (PacketStream), for words, groups and byte        *)
(* sequences of every size.  The recursive functions of Codec are first    *)
(* shown to be what their definitions say; what was written can then be    *)
(* read, whatever follows it, and what was read was written that way.  The *)
(* two invariants, Reader and Written, relate what a connection holds to   *)
(* the bytes its client sends.  Of addresses it is shown where the first   *)
(* separator is when pieces are put together.                              *)
(***************************************************************************)
EXTENDS PacketStream, TLAPS, WellFoundedInduction, SequenceTheorems, FiniteSetTheorems

-----------------------------------------------------------------------------
(* Induction.  The library's theorems take an operator as a parameter, which the*)
(* provers cannot instantiate; sets take its place.                         *)

\* Every set of natural numbers but the empty one has a least element.
LEMMA Least ==
    ASSUME NEW T, T \subseteq Nat, T # {}
    PROVE  \E n \in T : \A m \in T : n <= m
<1>1. PICK n \in T : \A m \in T : ~(<<m, n>> \in OpToRel(<, Nat))
  BY WFMin, NatLessThanWellFounded
<1>2. ASSUME NEW m \in T, m < n PROVE FALSE
  <2>1. <<m, n>> \in OpToRel(<, Nat)
    BY <1>2, Zenon DEF OpToRel
  <2> QED
    BY <1>1, <2>1
<1> QED
  BY <1>2

\* Induction over a set of numbers.
LEMMA Induction ==
    ASSUME NEW G, 0 \in G, \A n \in Nat : n \in G => n + 1 \in G
    PROVE  Nat \subseteq G
<1>1. SUFFICES ASSUME Nat \ G # {} PROVE FALSE
  OBVIOUS
<1>2. PICK n \in Nat \ G : \A m \in Nat \ G : n <= m
  BY <1>1, Least
<1>3. n # 0 /\ n - 1 \in Nat /\ n - 1 \notin Nat \ G
  BY <1>2
<1> QED
  BY <1>2, <1>3

\* ... with all smaller numbers at hand.
LEMMA StrongInduction ==
    ASSUME NEW G, \A n \in Nat : (\A m \in 0..(n - 1) : m \in G) => n \in G
    PROVE  Nat \subseteq G
<1>1. SUFFICES ASSUME Nat \ G # {} PROVE FALSE
  OBVIOUS
<1>2. PICK n \in Nat \ G : \A m \in Nat \ G : n <= m
  BY <1>1, Least
<1>3. \A m \in 0..(n - 1) : m \in G
  BY <1>2
<1> QED
  BY <1>2, <1>3

-----------------------------------------------------------------------------
IsPowers(p, b, n) == p = [i \in 0..n |-> IF i = 0 THEN 1 ELSE b * p[i - 1]]

\* Powers, as the recursive function they are.
LEMMA PowersExist ==
    ASSUME NEW b \in Nat
    PROVE  \A n \in Nat : \E p \in [0..n -> Nat] : IsPowers(p, b, n)
<1> DEFINE G == {n \in Nat : \E p \in [0..n -> Nat] : IsPowers(p, b, n)}
<1>1. 0 \in G
  <2>1. [i \in 0..0 |-> 1] \in [0..0 -> Nat] /\ IsPowers([i \in 0..0 |-> 1], b, 0)
    BY DEF IsPowers
  <2> QED
    BY <2>1
<1>2. ASSUME NEW n \in Nat, n \in G PROVE n + 1 \in G
  <2>1. PICK p \in [0..n -> Nat] : IsPowers(p, b, n)
    BY <1>2
  <2> DEFINE q == [i \in 0..(n + 1) |-> IF i = n + 1 THEN b * p[n] ELSE p[i]]
  <2>2. q \in [0..(n + 1) -> Nat]
    OBVIOUS
  <2>3. ASSUME NEW i \in 0..(n + 1) PROVE q[i] = IF i = 0 THEN 1 ELSE b * q[i - 1]
    BY <2>1, <2>3 DEF IsPowers
  <2>4. IsPowers(q, b, n + 1)
    BY <2>2, <2>3 DEF IsPowers
  <2> QED
    BY <2>2, <2>4
<1> QED
  BY <1>1, <1>2, Induction

\* ... of which there is one.
LEMMA PowersAgree ==
    ASSUME NEW b \in Nat, NEW m \in Nat, NEW n \in Nat, NEW p, NEW q,
           IsPowers(p, b, m), IsPowers(q, b, n)
    PROVE  \A i \in Nat : i <= m /\ i <= n => p[i] = q[i]
<1> DEFINE G == {i \in Nat : i <= m /\ i <= n => p[i] = q[i]}
<1>1. 0 \in G
  BY DEF IsPowers
<1>2. ASSUME NEW i \in Nat, i \in G PROVE i + 1 \in G
  <2>1. SUFFICES ASSUME i + 1 <= m, i + 1 <= n PROVE p[i + 1] = q[i + 1]
    OBVIOUS
  <2>2. p[i] = q[i]
    BY <1>2, <2>1
  <2>3. p[i + 1] = b * p[i] /\ q[i + 1] = b * q[i]
    BY <2>1 DEF IsPowers
  <2> QED
    BY <2>2, <2>3
<1> QED
  BY <1>1, <1>2, Induction

\* ... on all numbers.
LEMMA PowersOnNat ==
    ASSUME NEW b \in Nat
    PROVE  \E p \in [Nat -> Nat] : p = [i \in Nat |-> IF i = 0 THEN 1 ELSE b * p[i - 1]]
<1> DEFINE upTo(n) == CHOOSE p \in [0..n -> Nat] : IsPowers(p, b, n)
<1>1. \A n \in Nat : upTo(n) \in [0..n -> Nat] /\ IsPowers(upTo(n), b, n)
  BY PowersExist
<1> HIDE DEF upTo
<1> DEFINE p == [n \in Nat |-> upTo(n)[n]]
<1>2. p \in [Nat -> Nat]
  BY <1>1
<1>3. p[0] = 1
  BY <1>1 DEF IsPowers
<1>4. ASSUME NEW n \in Nat, n # 0 PROVE p[n] = b * p[n - 1]
  <2>1. n - 1 \in Nat /\ n - 1 \in 0..n /\ n \in 0..n
    BY <1>4
  <2>2. upTo(n)[n] = b * upTo(n)[n - 1]
    BY <1>1, <1>4, <2>1 DEF IsPowers
  <2>3. upTo(n)[n - 1] = upTo(n - 1)[n - 1]
    BY <1>1, <2>1, PowersAgree
  <2> QED
    BY <2>1, <2>2, <2>3
<1> HIDE DEF p
<1>5. p = [n \in Nat |-> IF n = 0 THEN 1 ELSE b * p[n - 1]]
  <2>1. \A n \in Nat : p[n] = IF n = 0 THEN 1 ELSE b * p[n - 1]
    BY <1>3, <1>4
  <2> QED
    BY <1>2, <2>1
<1> QED
  BY <1>2, <1>5

\* Power is what its definition says.
LEMMA PowerDef ==
    ASSUME NEW b \in Nat
    PROVE  /\ Power(b, 0) = 1
           /\ \A k \in Nat : Power(b, k) \in Nat /\ Power(b, k + 1) = b * Power(b, k)
<1> DEFINE p == CHOOSE p : p = [i \in Nat |-> IF i = 0 THEN 1 ELSE b * p[i - 1]]
<1>1. p = [i \in Nat |-> IF i = 0 THEN 1 ELSE b * p[i - 1]]
  BY PowersOnNat
<1>2. \A k \in Nat : Power(b, k) = p[k]
  BY DEF Power
<1> HIDE DEF p
<1>3. p[0] = 1 /\ \A k \in Nat : p[k + 1] = b * p[k]
  BY <1>1
<1> DEFINE G == {k \in Nat : p[k] \in Nat}
<1>4. Nat \subseteq G
  <2>1. 0 \in G /\ \A k \in Nat : k \in G => k + 1 \in G
    BY <1>3
  <2> HIDE DEF G
  <2> QED
    BY <2>1, Induction
<1> QED
  BY <1>2, <1>3, <1>4

-----------------------------------------------------------------------------
(* Arithmetic, and the loop of the decoders as a recursive function.        *)

\* The sizes of mc/type.go.
LEMMA Sizes ==
    /\ More \in Nat /\ More >= 2 /\ Base = 2 * More /\ Base \in Nat
    /\ Word \in Nat /\ Word > More
    /\ MaxGroups \in Nat /\ MaxGroups >= 1
    /\ Bytes = 0..(Base - 1) /\ Words = 0..(Word - 1)
BY CodecAssumption DEF Base, Bytes, Words

\* A number is its quotient and its remainder.
LEMMA DivMod ==
    ASSUME NEW n \in Nat, NEW m \in Nat, m >= 1
    PROVE  /\ n \div m \in Nat /\ n % m \in Nat /\ n % m < m
           /\ \A q, r : q = n \div m /\ r = n % m => n = m * q + r
OBVIOUS

\* Products of numbers are numbers.
LEMMA ProductNat == ASSUME NEW a \in Nat, NEW b \in Nat PROVE a * b \in Nat
OBVIOUS

\* Taking the flag off a byte.
LEMMA FlagOff ==
    ASSUME NEW n \in Nat, NEW m \in Nat, m >= 1
    PROVE  (m + (n % m)) % m = n % m
OBVIOUS

\* Quotients are numbers.
LEMMA DivNat == ASSUME NEW n \in Nat, NEW m \in Nat, m >= 1 PROVE n \div m \in Nat
OBVIOUS

\* Remainders are below the divisor.
LEMMA ModBelow == ASSUME NEW n \in Nat, NEW m \in Nat, m >= 1 PROVE n % m \in 0..(m - 1)
OBVIOUS

\* A digit less is a smaller number.
LEMMA DivSmaller ==
    ASSUME NEW n \in Nat, NEW m \in Nat, m >= 2, n >= m
    PROVE  n \div m < n /\ n \div m >= 1
OBVIOUS

\* Dividing twice.
LEMMA DivDiv ==
    ASSUME NEW n \in Nat, NEW a \in Nat, NEW b \in Nat, a >= 1, b >= 1
    PROVE  (n \div a) \div b = n \div (a * b)
OBVIOUS

\* A remainder and the next one; named, for the prover that takes lemmas by their form.
AreRemainders(n, a, b) == (n % a) + ((n \div a) % b) * a = n % (b * a)

LEMMA Remainders ==
    ASSUME NEW n \in Nat, NEW a \in Nat, NEW b \in Nat, a >= 1, b >= 1
    PROVE  AreRemainders(n, a, b)
BY SMTT(30) DEF AreRemainders

\* A quotient is below what is left of the bound.
LEMMA DivBelow ==
    ASSUME NEW n \in Nat, NEW m \in Nat, m >= 1, NEW c \in Nat
    PROVE  n < m * c <=> n \div m < c
OBVIOUS

\* No power is zero.
LEMMA PowerPositive == ASSUME NEW b \in Nat, b >= 1 PROVE \A k \in Nat : Power(b, k) >= 1
<1> DEFINE G == {k \in Nat : Power(b, k) >= 1}
<1>1. 0 \in G
  BY PowerDef
<1>2. ASSUME NEW k \in Nat, k \in G PROVE k + 1 \in G
  <2>1. Power(b, k) \in Nat /\ Power(b, k) >= 1 /\ Power(b, k + 1) = b * Power(b, k)
    BY <1>2, PowerDef
  <2> QED
    BY <2>1
<1> HIDE DEF G
<1>3. Nat \subseteq G
  BY <1>1, <1>2, Induction
<1> QED
  BY <1>3 DEF G

IsSums(s, bytes, n) ==
    s = [k \in 0..n |->
            IF k = 0 THEN 0 ELSE (s[k - 1] + (bytes[k] % More) * Power(More, k - 1)) % Word]

\* The sums of a decoder's loop exist, and each is below Word.
LEMMA SumsExist ==
    ASSUME NEW bytes \in Seq(Nat)
    PROVE  \A n \in Nat : n <= Len(bytes) => \E s \in [0..n -> Words] : IsSums(s, bytes, n)
<1> DEFINE G == {n \in Nat : n <= Len(bytes) => \E s \in [0..n -> Words] : IsSums(s, bytes, n)}
<1>1. 0 \in G
  <2>1. [k \in 0..0 |-> 0] \in [0..0 -> Words] /\ IsSums([k \in 0..0 |-> 0], bytes, 0)
    BY Sizes DEF IsSums
  <2> QED
    BY <2>1
<1>2. ASSUME NEW n \in Nat, n \in G PROVE n + 1 \in G
  <2> SUFFICES ASSUME n + 1 <= Len(bytes)
               PROVE  \E s \in [0..(n + 1) -> Words] : IsSums(s, bytes, n + 1)
    OBVIOUS
  <2>1. PICK s \in [0..n -> Words] : IsSums(s, bytes, n)
    BY <1>2
  <2> DEFINE last == (s[n] + (bytes[n + 1] % More) * Power(More, n)) % Word
             t == [k \in 0..(n + 1) |-> IF k = n + 1 THEN last ELSE s[k]]
  <2>2. last \in Words
    <3>1. s[n] \in Nat /\ bytes[n + 1] % More \in Nat /\ Power(More, n) \in Nat
      <4>1. s[n] \in Nat
        BY Sizes
      <4>2. bytes[n + 1] \in Nat
        BY Sizes
      <4>3. bytes[n + 1] % More \in Nat
        BY <4>2, Sizes
      <4> QED
        BY <4>1, <4>3, Sizes, PowerDef
    <3>2. (bytes[n + 1] % More) * Power(More, n) \in Nat
      BY <3>1, ProductNat, Zenon
    <3>3. s[n] + (bytes[n + 1] % More) * Power(More, n) \in Nat
      BY <3>1, <3>2
    <3>4. Word \in Nat /\ Word >= 1 /\ Words = 0..(Word - 1)
      BY Sizes
    <3> QED
      BY <3>3, <3>4, ModBelow, Zenon
  <2> HIDE DEF last
  <2>3. t \in [0..(n + 1) -> Words]
    BY <2>2
  <2>4. ASSUME NEW k \in 0..(n + 1)
        PROVE  t[k] = IF k = 0 THEN 0
                      ELSE (t[k - 1] + (bytes[k] % More) * Power(More, k - 1)) % Word
    <3>1. CASE k = n + 1
      <4>1. t[k] = last /\ t[k - 1] = s[n] /\ k - 1 = n /\ k # 0
        BY <3>1
      <4> QED
        BY <3>1, <4>1 DEF last
    <3>2. CASE k # n + 1
      <4>1. k \in 0..n /\ t[k] = s[k] /\ (k # 0 => k - 1 \in 0..n /\ t[k - 1] = s[k - 1])
        BY <3>2
      <4> HIDE DEF t
      <4>2. s[k] = IF k = 0 THEN 0
                   ELSE (s[k - 1] + (bytes[k] % More) * Power(More, k - 1)) % Word
        BY <2>1, <4>1, Zenon DEF IsSums
      <4> QED
        BY <4>1, <4>2
    <3> QED
      BY <3>1, <3>2
  <2>5. IsSums(t, bytes, n + 1)
    <3>1. DOMAIN t = 0..(n + 1) /\ t = [k \in 0..(n + 1) |-> t[k]]
      OBVIOUS
    <3> HIDE DEF t
    <3> QED
      BY <2>4, <3>1, Zenon DEF IsSums
  <2> QED
    BY <2>3, <2>5
<1> HIDE DEF G
<1>3. Nat \subseteq G
  BY <1>1, <1>2, Induction
<1> QED
  BY <1>3 DEF G

\* The loop of the decoders, without its end.
LEMMA GroupsValueDef ==
    ASSUME NEW bytes \in Seq(Nat)
    PROVE  \E s \in [0..Len(bytes) -> Words] :
              /\ s[0] = 0
              /\ \A k \in 1..Len(bytes) :
                    s[k] = (s[k - 1] + (bytes[k] % More) * Power(More, k - 1)) % Word
              /\ GroupsValue(bytes) = s[Len(bytes)]
<1> DEFINE s == CHOOSE s : IsSums(s, bytes, Len(bytes))
<1>1. Len(bytes) \in Nat
  OBVIOUS
<1>2. PICK t \in [0..Len(bytes) -> Words] : IsSums(t, bytes, Len(bytes))
  BY <1>1, SumsExist
<1>3. IsSums(s, bytes, Len(bytes))
  BY <1>2
<1>4. GroupsValue(bytes) = s[Len(bytes)]
  BY DEF GroupsValue, IsSums
<1> HIDE DEF s
<1>5. /\ s[0] = 0
      /\ \A k \in 1..Len(bytes) :
            s[k] = (s[k - 1] + (bytes[k] % More) * Power(More, k - 1)) % Word
  BY <1>1, <1>3 DEF IsSums
<1>6. s \in [0..Len(bytes) -> Words]
  <2> DEFINE G == {k \in Nat : k <= Len(bytes) => s[k] = t[k]}
  <2>1. 0 \in G
    BY <1>2, <1>5 DEF IsSums
  <2>2. ASSUME NEW k \in Nat, k \in G PROVE k + 1 \in G
    <3>1. SUFFICES ASSUME k + 1 <= Len(bytes) PROVE s[k + 1] = t[k + 1]
      OBVIOUS
    <3>2. s[k] = t[k]
      BY <2>2, <3>1, <1>1
    <3>3. k + 1 \in 1..Len(bytes) /\ k + 1 \in 0..Len(bytes) /\ k + 1 # 0 /\ (k + 1) - 1 = k
      BY <3>1, <1>1
    <3>4. t[k + 1] = (t[k] + (bytes[k + 1] % More) * Power(More, k)) % Word
      BY <1>2, <3>3 DEF IsSums
    <3>5. s[k + 1] = (s[k] + (bytes[k + 1] % More) * Power(More, k)) % Word
      BY <1>5, <3>3
    <3> QED
      BY <3>2, <3>4, <3>5
  <2> HIDE DEF G
  <2>3. Nat \subseteq G
    BY <2>1, <2>2, Induction
  <2>4. \A k \in 0..Len(bytes) : s[k] \in Words
    BY <1>1, <1>2, <2>3 DEF G
  <2>5. s = [k \in 0..Len(bytes) |-> s[k]]
    BY <1>3, Zenon DEF IsSums
  <2> QED
    BY <2>4, <2>5, Zenon
<1> QED
  BY <1>4, <1>5, <1>6

-----------------------------------------------------------------------------
(* The encoder as a recursive function, and what it writes.                 *)

IsEncoding(e, m) ==
    e = [n \in 0..m |-> IF n < More THEN <<n>> ELSE <<More + (n % More)>> \o e[n \div More]]

\* The encoder's recursion ends.
LEMMA EncodingsExist ==
    \A m \in Nat : \E e : IsEncoding(e, m)
<1> DEFINE G == {m \in Nat : \E e : IsEncoding(e, m)}
<1>1. 0 \in G
  <2>1. IsEncoding([n \in 0..0 |-> <<n>>], 0)
    BY Sizes DEF IsEncoding
  <2> QED
    BY <2>1
<1>2. ASSUME NEW m \in Nat, m \in G PROVE m + 1 \in G
  <2>1. PICK e : IsEncoding(e, m)
    BY <1>2
  <2> DEFINE last == IF m + 1 < More THEN <<m + 1>>
                     ELSE <<More + ((m + 1) % More)>> \o e[(m + 1) \div More]
             f == [n \in 0..(m + 1) |-> IF n = m + 1 THEN last ELSE e[n]]
  <2> HIDE DEF last
  <2>2. ASSUME NEW n \in 0..(m + 1)
        PROVE  f[n] = IF n < More THEN <<n>> ELSE <<More + (n % More)>> \o f[n \div More]
    <3>1. n >= More => n \div More \in 0..m /\ (n # m + 1 => n \in 0..m)
      <4>1. More \in Nat /\ More >= 2 /\ n \in Nat
        BY Sizes
      <4>2. n >= More => n \div More < n /\ n \div More >= 1 /\ n \div More \in Nat
        BY <4>1, DivSmaller, DivMod
      <4> QED
        BY <4>2
    <3>2. n >= More => f[n \div More] = e[n \div More]
      BY <3>1
    <3>3. CASE n = m + 1
      <4>1. f[n] = last
        BY <3>3
      <4> HIDE DEF f
      <4>2. More \in Nat
        BY Sizes
      <4> QED
        BY <3>2, <3>3, <4>1, <4>2 DEF last
    <3>4. CASE n # m + 1
      <4>1. f[n] = e[n] /\ n \in 0..m
        BY <3>4
      <4> HIDE DEF f
      <4>2. e[n] = IF n < More THEN <<n>> ELSE <<More + (n % More)>> \o e[n \div More]
        BY <2>1, <4>1, Zenon DEF IsEncoding
      <4>3. More \in Nat
        BY Sizes
      <4> QED
        BY <3>2, <4>1, <4>2, <4>3
    <3> QED
      BY <3>3, <3>4
  <2>3. IsEncoding(f, m + 1)
    <3>1. f = [n \in 0..(m + 1) |-> f[n]]
      OBVIOUS
    <3> HIDE DEF f
    <3> QED
      BY <2>2, <3>1, Zenon DEF IsEncoding
  <2> HIDE DEF f
  <2> QED
    BY <2>3
<1> HIDE DEF G
<1>3. Nat \subseteq G
  BY <1>1, <1>2, Induction
<1> QED
  BY <1>3 DEF G

\* What EncodeVarInt does: a byte, or a byte with the flag and the encoding of the rest.
LEMMA EncodeDef ==
    ASSUME NEW n \in Words
    PROVE  EncodeVarInt[n] = IF n < More THEN <<n>>
                             ELSE <<More + (n % More)>> \o EncodeVarInt[n \div More]
<1>1. Word - 1 \in Nat
  BY Sizes
<1>2. PICK e : IsEncoding(e, Word - 1)
  BY <1>1, EncodingsExist
<1>3. e = [m \in Words |-> IF m < More THEN <<m>> ELSE <<More + (m % More)>> \o e[m \div More]]
  BY <1>2, Sizes DEF IsEncoding
<1>4. EncodeVarInt = [m \in Words |-> IF m < More THEN <<m>>
                                      ELSE <<More + (m % More)>> \o EncodeVarInt[m \div More]]
  BY <1>3, Zenon DEF EncodeVarInt
<1> QED
  BY <1>4, Zenon

\* The groups of n in e, the flag on all but the last.
Encodes(e, n) ==
    /\ e \in Seq(Bytes) /\ Len(e) >= 1
    /\ \A j \in 1..(Len(e) - 1) : e[j] >= More
    /\ e[Len(e)] < More
    /\ \A j \in 1..Len(e) : e[j] % More = (n \div Power(More, j - 1)) % More
    /\ n < Power(More, Len(e))
    /\ \A k \in Nat : k >= 1 /\ n < Power(More, k) => Len(e) <= k

\* The last group of a number.
LEMMA EncodesOne ==
    ASSUME NEW n \in Nat, n < More
    PROVE  Encodes(<<n>>, n)
<1>1. More \in Nat /\ More >= 2 /\ n \in Bytes
  BY Sizes
<1>2. Power(More, 0) = 1 /\ Power(More, 1) = More
  <2>1. Power(More, 0 + 1) = More * Power(More, 0)
    BY <1>1, PowerDef
  <2> QED
    BY <1>1, <2>1, PowerDef
<1>3. n \div 1 = n
  OBVIOUS
<1> QED
  BY <1>1, <1>2, <1>3 DEF Encodes

\* A group before it.
LEMMA EncodesMore ==
    ASSUME NEW n \in Nat, n >= More, NEW t, Encodes(t, n \div More)
    PROVE  Encodes(<<More + (n % More)>> \o t, n)
<1> DEFINE h == More + (n % More)
           e == <<h>> \o t
           m == n \div More
<1>1. More \in Nat /\ More >= 2 /\ m \in Nat /\ n % More \in Nat /\ n % More < More
  <2>1. More \in Nat /\ More >= 2 /\ More >= 1
    BY Sizes
  <2>2. m \in Nat
    BY <2>1, DivNat, Zenon
  <2>3. n % More \in 0..(More - 1)
    BY <2>1, ModBelow, Zenon
  <2> HIDE DEF m
  <2> QED
    BY <2>1, <2>2, <2>3
<1>2. h \in Bytes /\ h >= More
  BY <1>1, Sizes
<1>3. (More + (n % More)) % More = n % More
  <2>1. More >= 1
    BY <1>1
  <2> QED
    BY <1>1, <2>1, FlagOff, Zenon
<1> HIDE DEF m
<1>14. Encodes(t, m)
  BY Zenon DEF m
<1>4. t \in Seq(Bytes) /\ Len(t) \in Nat /\ Len(t) >= 1
  BY <1>14 DEF Encodes
<1> HIDE DEF h
<1>5. e \in Seq(Bytes) /\ Len(e) = Len(t) + 1 /\ e[1] = h /\ \A j \in 2..Len(e) : e[j] = t[j - 1]
  BY <1>2, <1>4
<1> HIDE DEF e
<1>6. \A k \in Nat : Power(More, k) \in Nat /\ Power(More, k) >= 1
  BY <1>1, PowerDef, PowerPositive
<1>7. \A k \in Nat : Power(More, k + 1) = More * Power(More, k)
  BY <1>1, PowerDef
<1>8. \A k \in Nat : n < Power(More, k + 1) <=> m < Power(More, k)
  <2> TAKE k \in Nat
  <2>1. n < More * Power(More, k) <=> m < Power(More, k)
    <3>1. Power(More, k) \in Nat /\ More >= 1
      BY <1>1, <1>6
    <3> QED
      BY <1>1, <3>1, DivBelow, Zenon DEF m
  <2> QED
    BY <1>7, <2>1
<1>9. \A j \in 1..(Len(e) - 1) : e[j] >= More
  <2> TAKE j \in 1..(Len(e) - 1)
  <2>1. CASE j = 1
    BY <1>2, <1>5, <2>1
  <2>2. CASE j # 1
    <3>1. j \in 2..Len(e) /\ j - 1 \in 1..(Len(t) - 1)
      BY <1>4, <1>5, <2>2
    <3> QED
      BY <1>5, <1>14, <3>1 DEF Encodes
  <2> QED
    BY <2>1, <2>2
<1>10. e[Len(e)] < More
  <2>1. e[Len(e)] = t[Len(t)]
    BY <1>4, <1>5
  <2> QED
    BY <2>1, <1>14 DEF Encodes
<1>11. \A j \in 1..Len(e) : e[j] % More = (n \div Power(More, j - 1)) % More
  <2> TAKE j \in 1..Len(e)
  <2>1. CASE j = 1
    <3>1. Power(More, j - 1) = 1
      BY <1>1, <2>1, PowerDef
    <3>2. n \div Power(More, j - 1) = n
      BY <3>1
    <3>3. e[j] = More + (n % More)
      <4>1. e[j] = h
        BY <1>5, <2>1
      <4> QED
        BY <4>1, Zenon DEF h
    <3> QED
      BY <1>3, <3>2, <3>3, Zenon
  <2>2. CASE j # 1
    <3>1. j - 2 \in Nat /\ j - 1 \in 1..Len(t) /\ e[j] = t[j - 1] /\ (j - 1) - 1 = j - 2
          /\ (j - 2) + 1 = j - 1
      BY <1>4, <1>5, <2>2
    <3>2. e[j] % More = (m \div Power(More, j - 2)) % More
      BY <1>14, <3>1 DEF Encodes
    <3>3. m \div Power(More, j - 2) = n \div (More * Power(More, j - 2))
      <4>1. Power(More, j - 2) \in Nat /\ Power(More, j - 2) >= 1 /\ More \in Nat /\ More >= 1
        <5>1. j - 2 \in Nat
          BY <3>1
        <5>2. Power(More, j - 2) \in Nat /\ Power(More, j - 2) >= 1
          BY <1>6, <5>1, Zenon
        <5> QED
          BY <1>1, <5>2
      <4> QED
        BY <4>1, DivDiv, Zenon DEF m
    <3>4. Power(More, j - 1) = More * Power(More, j - 2)
      BY <1>7, <3>1
    <3> QED
      BY <3>2, <3>3, <3>4
  <2> QED
    BY <2>1, <2>2
<1>12. n < Power(More, Len(e))
  BY <1>4, <1>5, <1>8, <1>14 DEF Encodes
<1>13. \A k \in Nat : k >= 1 /\ n < Power(More, k) => Len(e) <= k
  <2> TAKE k \in Nat
  <2> SUFFICES ASSUME k >= 1, n < Power(More, k) PROVE Len(e) <= k
    OBVIOUS
  <2>1. k # 1
    <3>1. Power(More, 0 + 1) = More * Power(More, 0) /\ Power(More, 0) = 1
      BY <1>1, PowerDef
    <3> QED
      BY <1>1, <3>1
  <2>2. k - 1 \in Nat /\ k - 1 >= 1 /\ (k - 1) + 1 = k
    BY <2>1
  <2>3. m < Power(More, k - 1)
    BY <1>8, <2>2
  <2>4. Len(t) <= k - 1
    BY <1>14, <2>2, <2>3 DEF Encodes
  <2> QED
    BY <1>4, <1>5, <2>2, <2>4
<1>15. Encodes(e, n)
  BY <1>4, <1>5, <1>9, <1>10, <1>11, <1>12, <1>13 DEF Encodes
<1> QED
  BY <1>15, Zenon DEF e, h

\* What the encoder writes.
LEMMA EncodeShape ==
    ASSUME NEW n \in Words
    PROVE  Encodes(EncodeVarInt[n], n) /\ Len(EncodeVarInt[n]) <= MaxGroups
<1> DEFINE G == {m \in Nat : m \in Words => Encodes(EncodeVarInt[m], m)}
<1>1. ASSUME NEW m \in Nat, \A k \in 0..(m - 1) : k \in G PROVE m \in G
  <2> SUFFICES ASSUME m \in Words PROVE Encodes(EncodeVarInt[m], m)
    OBVIOUS
  <2>1. CASE m < More
    BY <2>1, EncodeDef, EncodesOne
  <2>2. CASE m >= More
    <3>1. m \div More \in 0..(m - 1) /\ m \div More \in Words
      <4>1. More \in Nat /\ More >= 2 /\ Word \in Nat
        BY Sizes
      <4>2. m \div More < m
        BY <2>2, <4>1, DivSmaller, Zenon
      <4>3. m \div More \in Nat
        <5>1. More >= 1
          BY <4>1
        <5> QED
          BY <4>1, <5>1, DivNat, Zenon
      <4> QED
        BY <4>1, <4>2, <4>3, Sizes
    <3>2. Encodes(EncodeVarInt[m \div More], m \div More)
      BY <1>1, <3>1
    <3>3. EncodeVarInt[m] = <<More + (m % More)>> \o EncodeVarInt[m \div More]
      <4>1. ~(m < More)
        BY <2>2, Sizes
      <4> QED
        BY <4>1, EncodeDef, Zenon
    <3> QED
      BY <2>2, <3>2, <3>3, EncodesMore
  <2> QED
    BY <2>1, <2>2, Sizes
<1> HIDE DEF G
<1>2. Nat \subseteq G
  BY <1>1, StrongInduction
<1>3. n \in Nat
  BY Sizes
<1>4. Encodes(EncodeVarInt[n], n)
  BY <1>2, <1>3 DEF G
<1>5. n < Power(More, MaxGroups)
  <2>1. Power(More, MaxGroups) \in Nat
    BY Sizes, PowerDef
  <2> QED
    BY <2>1, Sizes, CodecAssumption
<1> QED
  BY <1>4, <1>5, Sizes DEF Encodes

-----------------------------------------------------------------------------
(* Sequences cut in two and joined.                                         *)

\* Two sequences joined, and cut again where they were joined.
LEMMA Cut ==
    ASSUME NEW S, NEW a \in Seq(S), NEW b \in Seq(S)
    PROVE  /\ SubSeq(a \o b, 1, Len(a)) = a
           /\ SubSeq(a \o b, Len(a) + 1, Len(a \o b)) = b
           /\ Len(a \o b) = Len(a) + Len(b)
           /\ a \o b \in Seq(S)
<1>1. /\ a \o b \in Seq(S) /\ Len(a \o b) = Len(a) + Len(b) /\ Len(a) \in Nat /\ Len(b) \in Nat
      /\ \A i \in 1..(Len(a) + Len(b)) : (a \o b)[i] = IF i <= Len(a) THEN a[i] ELSE b[i - Len(a)]
  BY ConcatProperties, LenProperties
<1> DEFINE c == a \o b
<1> HIDE DEF c
<1>2. /\ c \in Seq(S) /\ Len(c) = Len(a) + Len(b)
      /\ \A i \in 1..(Len(a) + Len(b)) : c[i] = IF i <= Len(a) THEN a[i] ELSE b[i - Len(a)]
  BY <1>1 DEF c
<1>3. \A i \in 1..Len(c) : c[i] \in S
  BY <1>2, ElementOfSeq
<1>4. SubSeq(c, 1, Len(a)) = a
  <2>1. \A i \in 1..Len(a) : c[i] \in S
    BY <1>1, <1>2, <1>3
  <2>2. /\ SubSeq(c, 1, Len(a)) \in Seq(S)
        /\ Len(SubSeq(c, 1, Len(a))) = Len(a)
        /\ \A i \in 1..Len(a) : SubSeq(c, 1, Len(a))[i] = c[i]
    BY <1>1, <2>1, SubSeqProperties
  <2>3. \A i \in 1..Len(a) : SubSeq(c, 1, Len(a))[i] = a[i]
    BY <1>1, <1>2, <2>2
  <2> QED
    BY <2>2, <2>3, SeqEqual
<1>5. SubSeq(c, Len(a) + 1, Len(c)) = b
  <2>1. \A i \in (Len(a) + 1)..Len(c) : c[i] \in S
    BY <1>1, <1>2, <1>3
  <2>2. Len(a) + 1 \in Int /\ Len(c) \in Int
    BY <1>1, <1>2
  <2>3. /\ SubSeq(c, Len(a) + 1, Len(c)) \in Seq(S)
        /\ Len(SubSeq(c, Len(a) + 1, Len(c)))
              = IF Len(a) + 1 <= Len(c) THEN Len(c) - (Len(a) + 1) + 1 ELSE 0
        /\ \A i \in 1..(Len(c) - (Len(a) + 1) + 1) :
              SubSeq(c, Len(a) + 1, Len(c))[i] = c[(Len(a) + 1) + i - 1]
    BY <2>1, <2>2, SubSeqProperties
  <2>4. Len(SubSeq(c, Len(a) + 1, Len(c))) = Len(b)
    BY <1>1, <1>2, <2>3
  <2>5. ASSUME NEW i \in 1..Len(b) PROVE SubSeq(c, Len(a) + 1, Len(c))[i] = b[i]
    <3>1. SubSeq(c, Len(a) + 1, Len(c))[i] = c[(Len(a) + 1) + i - 1]
      BY <1>1, <1>2, <2>3
    <3>2. (Len(a) + 1) + i - 1 = Len(a) + i /\ Len(a) + i \in 1..(Len(a) + Len(b))
          /\ ~(Len(a) + i <= Len(a)) /\ (Len(a) + i) - Len(a) = i
      BY <1>1
    <3>3. c[Len(a) + i] = b[(Len(a) + i) - Len(a)]
      BY <1>2, <3>2, Zenon
    <3> QED
      BY <3>1, <3>2, <3>3
  <2> QED
    BY <2>3, <2>4, <2>5, SeqEqual
<1> QED
  BY <1>1, <1>4, <1>5 DEF c

\* A sequence cut anywhere, and joined again.
LEMMA Split ==
    ASSUME NEW S, NEW s \in Seq(S), NEW k \in 0..Len(s)
    PROVE  /\ SubSeq(s, 1, k) \in Seq(S) /\ Len(SubSeq(s, 1, k)) = k
           /\ SubSeq(s, k + 1, Len(s)) \in Seq(S) /\ Len(SubSeq(s, k + 1, Len(s))) = Len(s) - k
           /\ s = SubSeq(s, 1, k) \o SubSeq(s, k + 1, Len(s))
           /\ \A i \in 1..k : SubSeq(s, 1, k)[i] = s[i]
<1>1. Len(s) \in Nat /\ k \in Nat /\ k <= Len(s) /\ \A i \in 1..Len(s) : s[i] \in S
  BY LenProperties, ElementOfSeq
<1>2. SubSeq(s, 1, k) \in Seq(S) /\ Len(SubSeq(s, 1, k)) = k
      /\ \A i \in 1..k : SubSeq(s, 1, k)[i] = s[i]
  <2>1. \A i \in 1..k : s[i] \in S
    BY <1>1
  <2> QED
    BY <1>1, <2>1, SubSeqProperties
<1>3. SubSeq(s, k + 1, Len(s)) \in Seq(S) /\ Len(SubSeq(s, k + 1, Len(s))) = Len(s) - k
  <2>1. \A i \in (k + 1)..Len(s) : s[i] \in S
    BY <1>1
  <2>2. k + 1 \in Int /\ Len(s) \in Int
    BY <1>1
  <2>3. /\ SubSeq(s, k + 1, Len(s)) \in Seq(S)
        /\ Len(SubSeq(s, k + 1, Len(s))) = IF k + 1 <= Len(s) THEN Len(s) - (k + 1) + 1 ELSE 0
    BY <2>1, <2>2, SubSeqProperties, Zenon
  <2> QED
    BY <1>1, <2>3
<1>4. s = SubSeq(s, 1, k) \o SubSeq(s, k + 1, Len(s))
  <2>1. 1 \in 1..(Len(s) + 1) /\ k \in (1 - 1)..Len(s) /\ Len(s) \in k..Len(s)
    BY <1>1
  <2>2. SubSeq(s, 1, k) \o SubSeq(s, k + 1, Len(s)) = SubSeq(s, 1, Len(s))
    BY <2>1, ConcatAdjacentSubSeq, Zenon
  <2> QED
    BY <2>2, SubSeqFull
<1> QED
  BY <1>2, <1>3, <1>4

\* Both under names, for the prover that takes lemmas by their form.
AreJoined(a, b) == a \o b \in Seq(Bytes) /\ Len(a \o b) = Len(a) + Len(b)

AreSplit(s, k) ==
    /\ SubSeq(s, 1, k) \in Seq(Bytes) /\ Len(SubSeq(s, 1, k)) = k
    /\ SubSeq(s, k + 1, Len(s)) \in Seq(Bytes) /\ Len(SubSeq(s, k + 1, Len(s))) = Len(s) - k
    /\ s = SubSeq(s, 1, k) \o SubSeq(s, k + 1, Len(s))
    /\ \A i \in 1..k : SubSeq(s, 1, k)[i] = s[i]

LEMMA Joins == ASSUME NEW a \in Seq(Bytes), NEW b \in Seq(Bytes) PROVE AreJoined(a, b)
BY Cut DEF AreJoined

LEMMA Splits == ASSUME NEW s \in Seq(Bytes), NEW k \in 0..Len(s) PROVE AreSplit(s, k)
BY Split, Zenon DEF AreSplit

-----------------------------------------------------------------------------
(* VarInts.                                                                 *)

\* The first byte without the flag is the k-th.
EndsAt(b, k) == k \in 1..Len(b) /\ b[k] < More /\ \A j \in 1..(k - 1) : b[j] >= More

\* The first byte without the flag is one byte.
LEMMA EndsOnce ==
    ASSUME NEW b \in Seq(Bytes), NEW k, NEW l, EndsAt(b, k), EndsAt(b, l)
    PROVE  k = l
<1>1. Len(b) \in Nat /\ More \in Nat
  BY Sizes
<1>2. k \in Nat /\ l \in Nat /\ k >= 1 /\ l >= 1 /\ k <= Len(b) /\ l <= Len(b)
  BY <1>1 DEF EndsAt
<1>3. b[k] \in Nat /\ b[l] \in Nat
  BY <1>1, <1>2, Sizes
<1>4. ~(k < l)
  BY <1>1, <1>2, <1>3 DEF EndsAt
<1>5. ~(l < k)
  BY <1>1, <1>2, <1>3 DEF EndsAt
<1> QED
  BY <1>2, <1>4, <1>5

\* A decoder's sum is a word.
LEMMA GroupsValueTyped == ASSUME NEW b \in Seq(Bytes) PROVE GroupsValue(b) \in Words
<1>1. b \in Seq(Nat)
  BY Sizes, SeqMonotonic
<1>2. Len(b) \in Nat
  BY LenProperties
<1> QED
  BY <1>1, <1>2, GroupsValueDef

\* A decoder stops at the first byte without the flag.
LEMMA DecodeEnds ==
    ASSUME NEW b \in Seq(Bytes), NEW k, EndsAt(b, k), k <= MaxGroups
    PROVE  DecodeVarInt(b) = Gives(GroupsValue(SubSeq(b, 1, k)), SubSeq(b, k + 1, Len(b)))
<1> DEFINE ends == {i \in 1..Len(b) : b[i] < More /\ \A j \in 1..(i - 1) : b[j] >= More}
           c == CHOOSE i \in ends : TRUE
<1>1. k \in ends /\ \A i \in ends : EndsAt(b, i)
  BY DEF EndsAt
<1>2. c \in ends
  BY <1>1
<1>3. c = k
  BY <1>1, <1>2, EndsOnce
<1>4. DecodeVarInt(b) = Gives(GroupsValue(UpTo(b, c)), From(b, c + 1))
  BY <1>1 DEF DecodeVarInt
<1>5. UpTo(b, k) = SubSeq(b, 1, k)
  <2>1. Len(b) \in Nat /\ k \in Nat /\ k <= Len(b)
    BY DEF EndsAt
  <2> QED
    BY <2>1 DEF UpTo
<1> HIDE DEF c
<1> QED
  BY <1>3, <1>4, <1>5 DEF From

\* ... and without one it fails.
LEMMA DecodeFails ==
    ASSUME NEW b \in Seq(Bytes), \A k : EndsAt(b, k) => ~(k <= MaxGroups)
    PROVE  DecodeVarInt(b) = Fails(IF Len(b) > MaxGroups THEN "size" ELSE "EOF")
BY DEF DecodeVarInt, EndsAt

\* The bytes of one VarInt, read by the decoders.
IsVarInt(p) == p \in Seq(Bytes) /\ EndsAt(p, Len(p)) /\ Len(p) <= MaxGroups

\* A VarInt is read whatever follows it.
LEMMA DecodeReads ==
    ASSUME NEW p, IsVarInt(p), NEW x \in Seq(Bytes)
    PROVE  DecodeVarInt(p \o x) = Gives(GroupsValue(p), x)
<1>1. p \in Seq(Bytes) /\ EndsAt(p, Len(p)) /\ Len(p) <= MaxGroups
  BY DEF IsVarInt
<1>2. /\ SubSeq(p \o x, 1, Len(p)) = p
      /\ SubSeq(p \o x, Len(p) + 1, Len(p \o x)) = x
      /\ Len(p \o x) = Len(p) + Len(x)
      /\ p \o x \in Seq(Bytes)
  BY <1>1, Cut
<1>3. Len(p) \in Nat /\ Len(p) >= 1 /\ Len(x) \in Nat
  BY <1>1, LenProperties DEF EndsAt
<1>4. \A i \in 1..Len(p) : (p \o x)[i] = p[i]
  <2>1. \A i \in 1..(Len(p) + Len(x)) : (p \o x)[i] = IF i <= Len(p) THEN p[i] ELSE x[i - Len(p)]
    BY <1>1, ConcatProperties
  <2> HIDE DEF EndsAt
  <2> QED
    BY <1>3, <2>1
<1>5. EndsAt(p \o x, Len(p))
  BY <1>1, <1>2, <1>3, <1>4 DEF EndsAt
<1> QED
  BY <1>1, <1>2, <1>5, DecodeEnds

\* What was read as a VarInt is one.
LEMMA DecodeSplits ==
    ASSUME NEW b \in Seq(Bytes), DecodeVarInt(b).err = "none"
    PROVE  \E p, x : /\ IsVarInt(p) /\ x \in Seq(Bytes) /\ b = p \o x
                     /\ DecodeVarInt(b) = Gives(GroupsValue(p), x)
<1>1. PICK k : EndsAt(b, k) /\ k <= MaxGroups
  <2>1. SUFFICES ASSUME \A k : EndsAt(b, k) => ~(k <= MaxGroups) PROVE FALSE
    OBVIOUS
  <2>2. DecodeVarInt(b) = Fails(IF Len(b) > MaxGroups THEN "size" ELSE "EOF")
    BY <2>1, DecodeFails
  <2> QED
    BY <2>2 DEF Fails
<1> DEFINE p == SubSeq(b, 1, k)
           x == SubSeq(b, k + 1, Len(b))
<1>2. k \in 0..Len(b) /\ k \in 1..Len(b)
  BY <1>1 DEF EndsAt
<1>3. p \in Seq(Bytes) /\ Len(p) = k /\ x \in Seq(Bytes) /\ b = p \o x /\ \A i \in 1..k : p[i] = b[i]
  BY <1>2, Split
<1>4. DecodeVarInt(b) = Gives(GroupsValue(p), x)
  BY <1>1, DecodeEnds
<1> HIDE DEF p, x
<1>5. IsVarInt(p)
  BY <1>1, <1>2, <1>3 DEF IsVarInt, EndsAt
<1> QED
  BY <1>3, <1>4, <1>5

-----------------------------------------------------------------------------
\* The decoder's loop over what the encoder wrote has the number's remainder so far.
LEMMA GroupsOfEncoding ==
    ASSUME NEW n \in Words, NEW e, Encodes(e, n)
    PROVE  GroupsValue(e) = n
<1>1. e \in Seq(Bytes) /\ Len(e) \in Nat /\ Len(e) >= 1 /\ e \in Seq(Nat) /\ n \in Nat
      /\ More \in Nat /\ More >= 1
  BY Sizes, SeqMonotonic DEF Encodes
<1>2. PICK s \in [0..Len(e) -> Words] :
         /\ s[0] = 0
         /\ \A k \in 1..Len(e) : s[k] = (s[k - 1] + (e[k] % More) * Power(More, k - 1)) % Word
         /\ GroupsValue(e) = s[Len(e)]
  BY <1>1, GroupsValueDef
<1>3. \A k \in Nat : Power(More, k) \in Nat /\ Power(More, k) >= 1
                     /\ Power(More, k + 1) = More * Power(More, k)
  BY <1>1, PowerDef, PowerPositive
<1> DEFINE G == {k \in Nat : k <= Len(e) => s[k] = n % Power(More, k)}
<1>4. 0 \in G
  <2>1. Power(More, 0) = 1 /\ n % 1 = 0
    BY <1>1, PowerDef
  <2> QED
    BY <1>2, <2>1
<1>5. ASSUME NEW k \in Nat, k \in G PROVE k + 1 \in G
  <2> SUFFICES ASSUME k + 1 <= Len(e) PROVE s[k + 1] = n % Power(More, k + 1)
    OBVIOUS
  <2>1. s[k] = n % Power(More, k)
    BY <1>1, <1>5
  <2>2. k + 1 \in 1..Len(e) /\ (k + 1) - 1 = k
    BY <1>1
  <2>3. e[k + 1] % More = (n \div Power(More, k)) % More
    BY <2>2 DEF Encodes
  <2>4. s[k + 1] = (s[k] + (e[k + 1] % More) * Power(More, k)) % Word
    BY <1>2, <2>2
  <2>5. (n % Power(More, k)) + ((n \div Power(More, k)) % More) * Power(More, k)
           = n % (More * Power(More, k))
    <3>1. n \in Nat /\ Power(More, k) \in Nat /\ Power(More, k) >= 1 /\ More \in Nat /\ More >= 1
      BY <1>1, <1>3
    <3>2. AreRemainders(n, Power(More, k), More)
      BY <3>1, Remainders, Zenon
    <3> QED
      BY <3>2, Zenon DEF AreRemainders
  <2>6. s[k + 1] = (n % Power(More, k + 1)) % Word
    BY <1>3, <2>1, <2>3, <2>4, <2>5
  <2>7. ASSUME NEW m \in Nat, m >= 1 PROVE (n % m) % Word = n % m
    <3>1. n % m \in 0..n
      BY <1>1, <2>7
    <3>2. \A r \in 0..(Word - 1) : r % Word = r
      BY Sizes
    <3>3. \A r \in 0..n : r \in 0..(Word - 1)
      BY Sizes
    <3> QED
      BY <3>1, <3>2, <3>3, Zenon
  <2> QED
    BY <1>3, <2>6, <2>7
<1> HIDE DEF G
<1>6. Nat \subseteq G
  BY <1>4, <1>5, Induction
<1>7. s[Len(e)] = n % Power(More, Len(e))
  BY <1>1, <1>6 DEF G
<1>8. n < Power(More, Len(e)) /\ Power(More, Len(e)) \in Nat
  BY <1>1, <1>3 DEF Encodes
<1>9. ASSUME NEW m \in Nat, n < m PROVE n % m = n
  BY <1>1, <1>9
<1> QED
  BY <1>2, <1>7, <1>8, <1>9

\* mc/type.go: a VarInt that was written is read as it was, whatever follows it.
THEOREM VarIntRoundTrip ==
    ASSUME NEW n \in Words
    PROVE  /\ IsVarInt(EncodeVarInt[n])
           /\ GroupsValue(EncodeVarInt[n]) = n
           /\ \A x \in Seq(Bytes) : DecodeVarInt(EncodeVarInt[n] \o x) = Gives(n, x)
<1> DEFINE e == EncodeVarInt[n]
<1>1. Encodes(e, n) /\ Len(e) <= MaxGroups
  BY EncodeShape
<1> HIDE DEF e
<1>2. IsVarInt(e)
  BY <1>1, LenProperties DEF Encodes, IsVarInt, EndsAt
<1>3. GroupsValue(e) = n
  BY <1>1, GroupsOfEncoding
<1>4. \A x \in Seq(Bytes) : DecodeVarInt(e \o x) = Gives(n, x)
  BY <1>2, <1>3, DecodeReads
<1> QED
  BY <1>2, <1>3, <1>4 DEF e

-----------------------------------------------------------------------------
(* Signed VarInts, and pieces of a given length.                            *)

\* A remainder of something smaller.
LEMMA Residue ==
    ASSUME NEW b \in Nat, b >= 1, NEW k \in Int, NEW r \in 0..(b - 1)
    PROVE  \A n : n = b * k + r => n % b = r
OBVIOUS

\* The sign is lost on the way out and found on the way in.
LEMMA SignedResidue ==
    ASSUME NEW v \in Words PROVE Signed(v) % Base = v % Base
<1>1. Base \in Nat /\ Base >= 1 /\ Word \in Nat /\ v \in Nat /\ Word % Base = 0
  BY Sizes, CodecAssumption
<1> DEFINE r == v % Base
           a == v \div Base
           q == Word \div Base
<1>2. r \in 0..(Base - 1) /\ a \in Nat /\ v = Base * a + r
  <2>1. \A c, t : c = v \div Base /\ t = v % Base => v = Base * c + t
    BY <1>1, DivMod, Zenon
  <2>2. v \div Base \in Nat /\ v % Base \in 0..(Base - 1)
    BY <1>1, DivNat, ModBelow, Zenon
  <2> QED
    BY <2>1, <2>2, Zenon
<1>3. q \in Nat /\ Word = Base * q
  <2>1. \A c, t : c = Word \div Base /\ t = Word % Base => Word = Base * c + t
    BY <1>1, DivMod, Zenon
  <2>2. q \in Nat
    BY <1>1, DivNat, Zenon
  <2>3. Word = Base * q + 0
    BY <1>1, <2>1, Zenon
  <2> HIDE DEF q
  <2> QED
    BY <1>1, <2>2, <2>3
<1> HIDE DEF q, a, r
<1>4. v - Word = Base * (a - q) + r
  BY <1>1, <1>2, <1>3
<1>5. a - q \in Int
  BY <1>2, <1>3
<1>6. (v - Word) % Base = r
  <2>1. \A n : n = Base * (a - q) + r => n % Base = r
    BY <1>1, <1>2, <1>5, Residue, Zenon
  <2> QED
    BY <1>4, <2>1, Zenon
<1> QED
  BY <1>6, Zenon DEF Signed, r

\* A length has no sign.
LEMMA SignedWhole ==
    ASSUME NEW v \in Words
    PROVE  /\ Signed(v) \in Int /\ Signed(v) < Word /\ Unsigned(Signed(v)) = v
           /\ Signed(v) >= 0 <=> v < Word \div 2
           /\ Signed(v) >= 0 => Signed(v) = v
           /\ Word \div 2 \in Nat /\ Word \div 2 <= Word
<1>1. Word \in Nat /\ v \in 0..(Word - 1)
  BY Sizes
<1>2. v % Word = v /\ (v - Word) % Word = v
  BY <1>1
<1>3. Word \div 2 \in Nat /\ Word \div 2 <= Word
  BY <1>1
<1> QED
  BY <1>1, <1>2, <1>3 DEF Signed, Unsigned

\* ReadVarInt gives the signed value.
LEMMA ReadVarIntDef ==
    ASSUME NEW b \in Seq(Bytes)
    PROVE  /\ ReadVarInt(b).err = DecodeVarInt(b).err
           /\ ReadVarInt(b).err # "none" => ReadVarInt(b) = DecodeVarInt(b)
           /\ ReadVarInt(b).err = "none" =>
                 ReadVarInt(b) = Gives(Signed(DecodeVarInt(b).val), DecodeVarInt(b).rest)
<1> DEFINE r == DecodeVarInt(b)
<1>1. ReadVarInt(b) = IF r.err = "none" THEN Gives(Signed(r.val), r.rest) ELSE r
  BY DEF ReadVarInt, Then
<1> HIDE DEF r
<1>2. ReadVarInt(b).err = r.err
  BY <1>1 DEF Gives
<1> QED
  BY <1>1, <1>2 DEF r

\* A signed VarInt is read whatever follows it.
LEMMA ReadVarIntReads ==
    ASSUME NEW p, IsVarInt(p), NEW x \in Seq(Bytes)
    PROVE  ReadVarInt(p \o x) = Gives(Signed(GroupsValue(p)), x)
<1>1. p \o x \in Seq(Bytes)
  BY Cut DEF IsVarInt
<1>2. DecodeVarInt(p \o x) = Gives(GroupsValue(p), x)
  BY DecodeReads
<1> DEFINE b == p \o x
<1> HIDE DEF b
<1>3. b \in Seq(Bytes) /\ DecodeVarInt(b) = Gives(GroupsValue(p), x)
  BY <1>1, <1>2 DEF b
<1>4. DecodeVarInt(b).err = "none" /\ DecodeVarInt(b).val = GroupsValue(p) /\ DecodeVarInt(b).rest = x
  BY <1>3 DEF Gives
<1>5. ReadVarInt(b) = Gives(Signed(GroupsValue(p)), x)
  BY <1>3, <1>4, ReadVarIntDef
<1> QED
  BY <1>5 DEF b

\* What was read as a signed VarInt is one.
LEMMA ReadVarIntSplits ==
    ASSUME NEW b \in Seq(Bytes), ReadVarInt(b).err = "none"
    PROVE  \E p, x : /\ IsVarInt(p) /\ x \in Seq(Bytes) /\ b = p \o x
                     /\ ReadVarInt(b) = Gives(Signed(GroupsValue(p)), x)
<1>1. DecodeVarInt(b).err = "none"
  BY ReadVarIntDef
<1>2. PICK p, x : IsVarInt(p) /\ x \in Seq(Bytes) /\ b = p \o x
  BY <1>1, DecodeSplits
<1> QED
  BY <1>2, ReadVarIntReads

\* As many bytes as asked for are read whatever follows them.
LEMMA ReadNBytesReads ==
    ASSUME NEW p \in Seq(Bytes), NEW x \in Seq(Bytes)
    PROVE  ReadNBytes(p \o x, Len(p)) = Gives(p, x)
<1>1. /\ SubSeq(p \o x, 1, Len(p)) = p /\ SubSeq(p \o x, Len(p) + 1, Len(p \o x)) = x
      /\ Len(p \o x) = Len(p) + Len(x)
  BY Cut
<1>2. Len(p) \in Nat /\ Len(x) \in Nat
  BY LenProperties
<1> DEFINE b == p \o x
<1> HIDE DEF b
<1>3. SubSeq(b, 1, Len(p)) = p /\ From(b, Len(p) + 1) = x /\ ~(Len(p) < 0) /\ ~(Len(b) < Len(p))
  BY <1>1, <1>2 DEF b, From
<1>4. ReadNBytes(b, Len(p)) = Gives(p, x)
  BY <1>3, Zenon DEF ReadNBytes
<1> QED
  BY <1>4 DEF b

\* What was read is the beginning.
LEMMA ReadNBytesSplits ==
    ASSUME NEW b \in Seq(Bytes), NEW n \in Int
    PROVE  /\ ReadNBytes(b, n).err = "none" <=> n >= 0 /\ n <= Len(b)
           /\ ReadNBytes(b, n).err = "panic" <=> n < 0
           /\ ReadNBytes(b, n).err = "none" =>
                 \E p, x : /\ p \in Seq(Bytes) /\ x \in Seq(Bytes) /\ b = p \o x /\ Len(p) = n
                           /\ ReadNBytes(b, n) = Gives(p, x)
<1>1. Len(b) \in Nat
  BY LenProperties
<1>2. ReadNBytes(b, n).err = IF n < 0 THEN "panic" ELSE IF Len(b) < n THEN "EOF" ELSE "none"
  BY DEF ReadNBytes, Fails, Gives
<1>3. ASSUME ReadNBytes(b, n).err = "none"
      PROVE  \E p, x : /\ p \in Seq(Bytes) /\ x \in Seq(Bytes) /\ b = p \o x /\ Len(p) = n
                       /\ ReadNBytes(b, n) = Gives(p, x)
  <2>1. n \in 0..Len(b)
    BY <1>1, <1>2, <1>3
  <2> DEFINE p == SubSeq(b, 1, n)
             x == SubSeq(b, n + 1, Len(b))
  <2>2. p \in Seq(Bytes) /\ Len(p) = n /\ x \in Seq(Bytes) /\ b = p \o x
    <3>1. AreSplit(b, n)
      BY <2>1, Splits, Zenon
    <3> QED
      BY <3>1, Zenon DEF AreSplit
  <2> HIDE DEF p, x
  <2>3. ReadNBytes(b, n) = Gives(p, x)
    BY <2>2, ReadNBytesReads
  <2> QED
    BY <2>2, <2>3
<1> QED
  BY <1>1, <1>2, <1>3

-----------------------------------------------------------------------------
(* Packets.                                                                 *)

\* A length and a body of that length are a packet.
LEMMA ReadPacketReads ==
    ASSUME NEW p, IsVarInt(p), NEW body \in Seq(Bytes), NEW x \in Seq(Bytes),
           Signed(GroupsValue(p)) = Len(body), Len(body) >= 1
    PROVE  ReadPacket(p \o (body \o x)) = Gives(Packet(Head(body), Tail(body)), x)
<1>1. body \o x \in Seq(Bytes) /\ Len(body) \in Nat
  BY Cut, LenProperties
<1>2. ReadVarInt(p \o (body \o x)) = Gives(Len(body), body \o x)
  BY <1>1, ReadVarIntReads
<1>3. ReadNBytes(body \o x, Len(body)) = Gives(body, x)
  BY ReadNBytesReads
<1> DEFINE l == Gives(Len(body), body \o x)
<1>4. l.err = "none" /\ l.val = Len(body) /\ l.rest = body \o x
  BY DEF Gives
<1>5. ReadPacket(p \o (body \o x)) = ReadBody(l)
  BY <1>2, <1>4 DEF ReadPacket, Then
<1> HIDE DEF l
<1>6. ~(l.val < 1)
  BY <1>1, <1>4
<1> DEFINE r == ReadNBytes(l.rest, l.val)
<1>7. r = Gives(body, x)
  BY <1>3, <1>4
<1>8. ReadBody(l) = IF r.err = "none" THEN Gives(Packet(Head(r.val), Tail(r.val)), r.rest) ELSE r
  BY <1>6 DEF ReadBody, Then
<1> HIDE DEF r
<1>9. r.err = "none" /\ r.val = body /\ r.rest = x
  BY <1>7 DEF Gives
<1> QED
  BY <1>5, <1>8, <1>9

\* What was read as a packet is a length and a body.
LEMMA ReadPacketSplits ==
    ASSUME NEW b \in Seq(Bytes), ReadPacket(b).err = "none"
    PROVE  \E p, body, x :
              /\ IsVarInt(p) /\ body \in Seq(Bytes) /\ x \in Seq(Bytes)
              /\ Signed(GroupsValue(p)) = Len(body) /\ Len(body) >= 1
              /\ b = p \o (body \o x)
<1> DEFINE l == ReadVarInt(b)
<1>1. ReadPacket(b) = IF l.err = "none" THEN ReadBody(l) ELSE l
  BY DEF ReadPacket, Then
<1>2. l.err = "none"
  BY <1>1
<1>3. PICK p, y : IsVarInt(p) /\ y \in Seq(Bytes) /\ b = p \o y
                  /\ l = Gives(Signed(GroupsValue(p)), y)
  BY <1>2, ReadVarIntSplits
<1>4. GroupsValue(p) \in Words
  BY <1>3, GroupsValueTyped DEF IsVarInt
<1> DEFINE n == Signed(GroupsValue(p))
<1>5. n \in Int
  BY <1>4, SignedWhole
<1>6. l.val = n /\ l.rest = y
  BY <1>3 DEF Gives
<1> HIDE DEF l, n
<1> DEFINE r == ReadNBytes(y, n)
<1>7. ~(n < 1)
  BY <1>1, <1>2, <1>6 DEF ReadBody, Fails
<1>8. ReadBody(l) = IF r.err = "none" THEN Gives(Packet(Head(r.val), Tail(r.val)), r.rest) ELSE r
  BY <1>6, <1>7 DEF ReadBody, Then
<1>9. r.err = "none"
  BY <1>1, <1>2, <1>8
<1>10. PICK body, x : body \in Seq(Bytes) /\ x \in Seq(Bytes) /\ y = body \o x /\ Len(body) = n
  BY <1>3, <1>5, <1>9, ReadNBytesSplits
<1>11. Len(body) >= 1
  BY <1>5, <1>7, <1>10
<1>12. b = p \o (body \o x)
  BY <1>3, <1>10, Zenon
<1>13. Signed(GroupsValue(p)) = Len(body)
  BY <1>10, Zenon DEF n
<1> QED
  BY <1>3, <1>10, <1>11, <1>12, <1>13, Zenon

-----------------------------------------------------------------------------
(* Shorts and strings.                                                      *)

ShortOf(w) == LET n == w[1] * Base + w[2] IN IF n >= Base * More THEN n - Base * Base ELSE n

\* Two bytes are a short.
LEMMA ReadShortReads ==
    ASSUME NEW w \in Seq(Bytes), Len(w) = 2, NEW x \in Seq(Bytes)
    PROVE  ReadShort(w \o x) = Gives(ShortOf(w), x)
<1> DEFINE b == w \o x
           r == ReadNBytes(b, 2)
<1>1. r = Gives(w, x)
  BY ReadNBytesReads
<1>2. ReadShort(b) = IF r.err = "none" THEN Gives(ShortOf(r.val), r.rest) ELSE r
  BY DEF ReadShort, Then, ShortOf
<1> HIDE DEF b, r
<1>3. r.err = "none" /\ r.val = w /\ r.rest = x
  BY <1>1 DEF Gives
<1>4. ReadShort(b) = Gives(ShortOf(w), x)
  BY <1>2, <1>3
<1> QED
  BY <1>4 DEF b

\* What was read as a short is two bytes.
LEMMA ReadShortSplits ==
    ASSUME NEW b \in Seq(Bytes), ReadShort(b).err = "none"
    PROVE  \E w, x : w \in Seq(Bytes) /\ Len(w) = 2 /\ x \in Seq(Bytes) /\ b = w \o x
<1> DEFINE r == ReadNBytes(b, 2)
<1>1. ReadShort(b) = IF r.err = "none" THEN Gives(ShortOf(r.val), r.rest) ELSE r
  BY DEF ReadShort, Then, ShortOf
<1> HIDE DEF r
<1>2. r.err = "none"
  BY <1>1
<1>3. ReadNBytes(b, 2).err = "none" /\ 2 \in Int
  BY <1>2 DEF r
<1>4. PICK w, x : w \in Seq(Bytes) /\ x \in Seq(Bytes) /\ b = w \o x /\ Len(w) = 2
  BY <1>3, ReadNBytesSplits
<1> QED
  BY <1>4, Zenon

\* The two readers of strings, expanded.
LEMMA ReadStringDef ==
    ASSUME NEW b, NEW l, l = ReadVarInt_ByteReader(b)
    PROVE  ReadString_ByteReader(b) = IF l.err = "none" THEN ReadNBytes(l.rest, l.val) ELSE l
BY DEF ReadString_ByteReader, Then

\* ... and the decoder of strings.
LEMMA DecodeStringDef ==
    ASSUME NEW b, NEW l, l = ReadVarInt(b)
    PROVE  DecodeString(b) = IF l.err = "none" THEN ReadNBytes(l.rest, l.val) ELSE l
BY DEF DecodeString, Then

\* A length and as many bytes are a string.
LEMMA ReadStringReads ==
    ASSUME NEW p, IsVarInt(p), NEW s \in Seq(Bytes), GroupsValue(p) = Len(s), NEW x \in Seq(Bytes)
    PROVE  ReadString_ByteReader(p \o (s \o x)) = Gives(s, x)
<1>1. s \o x \in Seq(Bytes)
  BY Cut
<1> DEFINE l == ReadVarInt_ByteReader(p \o (s \o x))
<1>2. l = Gives(Len(s), s \o x)
  BY <1>1, DecodeReads, Zenon DEF ReadVarInt_ByteReader
<1>3. ReadString_ByteReader(p \o (s \o x)) = IF l.err = "none" THEN ReadNBytes(l.rest, l.val) ELSE l
  BY ReadStringDef, Zenon
<1> HIDE DEF l
<1>4. l.err = "none" /\ l.val = Len(s) /\ l.rest = s \o x
  BY <1>2 DEF Gives
<1> QED
  BY <1>3, <1>4, ReadNBytesReads, Zenon

\* ... for the decoder as well.
LEMMA DecodeStringReads ==
    ASSUME NEW p, IsVarInt(p), NEW s \in Seq(Bytes), GroupsValue(p) = Len(s),
           Len(s) < Word \div 2, NEW x \in Seq(Bytes)
    PROVE  DecodeString(p \o (s \o x)) = Gives(s, x)
<1>1. s \o x \in Seq(Bytes) /\ Len(s) \in Nat
  BY Cut, LenProperties
<1> DEFINE l == ReadVarInt(p \o (s \o x))
<1>2. Signed(GroupsValue(p)) = Len(s)
  <2>1. GroupsValue(p) \in Words
    BY GroupsValueTyped DEF IsVarInt
  <2> QED
    BY <2>1, SignedWhole
<1>3. l = Gives(Len(s), s \o x)
  BY <1>1, <1>2, ReadVarIntReads, Zenon
<1>4. DecodeString(p \o (s \o x)) = IF l.err = "none" THEN ReadNBytes(l.rest, l.val) ELSE l
  BY DecodeStringDef, Zenon
<1> HIDE DEF l
<1>5. l.err = "none" /\ l.val = Len(s) /\ l.rest = s \o x
  BY <1>3 DEF Gives
<1> QED
  BY <1>4, <1>5, ReadNBytesReads, Zenon

\* What was read as a string is a length and as many bytes.
LEMMA ReadStringSplits ==
    ASSUME NEW b \in Seq(Bytes), ReadString_ByteReader(b).err = "none"
    PROVE  \E p, s, x : /\ IsVarInt(p) /\ s \in Seq(Bytes) /\ GroupsValue(p) = Len(s)
                        /\ x \in Seq(Bytes) /\ b = p \o (s \o x)
<1> DEFINE l == ReadVarInt_ByteReader(b)
<1>1. ReadString_ByteReader(b) = IF l.err = "none" THEN ReadNBytes(l.rest, l.val) ELSE l
  BY ReadStringDef, Zenon
<1>2. l = DecodeVarInt(b)
  BY DEF ReadVarInt_ByteReader
<1> HIDE DEF l
<1>3. l.err = "none"
  BY <1>1
<1>4. PICK p, y : IsVarInt(p) /\ y \in Seq(Bytes) /\ b = p \o y /\ l = Gives(GroupsValue(p), y)
  BY <1>2, <1>3, DecodeSplits
<1>5. l.val = GroupsValue(p) /\ l.rest = y
  BY <1>4 DEF Gives
<1>6. ReadNBytes(y, GroupsValue(p)).err = "none"
  BY <1>1, <1>3, <1>5
<1>7. GroupsValue(p) \in Int
  BY <1>4, GroupsValueTyped, Sizes DEF IsVarInt
<1>8. PICK s, x : s \in Seq(Bytes) /\ x \in Seq(Bytes) /\ y = s \o x /\ Len(s) = GroupsValue(p)
  BY <1>4, <1>6, <1>7, ReadNBytesSplits
<1>9. b = p \o (s \o x) /\ GroupsValue(p) = Len(s)
  BY <1>4, <1>8, Zenon
<1> QED
  BY <1>4, <1>8, <1>9, Zenon

\* ... for the decoder as well.
LEMMA DecodeStringSplits ==
    ASSUME NEW b \in Seq(Bytes), DecodeString(b).err = "none"
    PROVE  \E p, s, x : /\ IsVarInt(p) /\ s \in Seq(Bytes) /\ GroupsValue(p) = Len(s)
                        /\ Len(s) < Word \div 2 /\ x \in Seq(Bytes) /\ b = p \o (s \o x)
<1> DEFINE l == ReadVarInt(b)
<1>1. DecodeString(b) = IF l.err = "none" THEN ReadNBytes(l.rest, l.val) ELSE l
  BY DecodeStringDef, Zenon
<1> HIDE DEF l
<1>2. l.err = "none"
  BY <1>1
<1>3. PICK p, y : IsVarInt(p) /\ y \in Seq(Bytes) /\ b = p \o y
                  /\ l = Gives(Signed(GroupsValue(p)), y)
  BY <1>2, ReadVarIntSplits DEF l
<1>4. l.val = Signed(GroupsValue(p)) /\ l.rest = y
  BY <1>3 DEF Gives
<1>5. GroupsValue(p) \in Words
  BY <1>3, GroupsValueTyped DEF IsVarInt
<1> DEFINE n == Signed(GroupsValue(p))
<1>6. n \in Int /\ (n >= 0 => n = GroupsValue(p) /\ n < Word \div 2)
  BY <1>5, SignedWhole
<1>7. ReadNBytes(y, n).err = "none"
  BY <1>1, <1>2, <1>4
<1> HIDE DEF n
<1>8. PICK s, x : s \in Seq(Bytes) /\ x \in Seq(Bytes) /\ y = s \o x /\ Len(s) = n
  BY <1>3, <1>6, <1>7, ReadNBytesSplits
<1>9. b = p \o (s \o x)
  BY <1>3, <1>8, Zenon
<1>10. GroupsValue(p) = Len(s) /\ Len(s) < Word \div 2
  BY <1>3, <1>6, <1>7, <1>8, ReadNBytesSplits
<1> QED
  BY <1>3, <1>8, <1>9, <1>10, Zenon

-----------------------------------------------------------------------------
(* The fields of a handshake.                                               *)

HandshakeOf(p1, s, w, p3) ==
    [ProtocolVersion |-> GroupsValue(p1), ServerAddress |-> s, ServerPort |-> ShortOf(w),
     NextState |-> GroupsValue(p3) % Base]

OldFields(b) == Fields(b, ReadVarInt, DecodeString)

\* The parts of a handshake: version, length of the address, address, port, next state.
AreParts(p1, p2, s, w, p3) ==
    /\ IsVarInt(p1) /\ IsVarInt(p2) /\ IsVarInt(p3)
    /\ s \in Seq(Bytes) /\ GroupsValue(p2) = Len(s)
    /\ w \in Seq(Bytes) /\ Len(w) = 2

Joined(p1, p2, s, w, p3, t) == p1 \o (p2 \o (s \o (w \o (p3 \o t))))

\* The parts of a handshake, joined.
LEMMA PartsTyped ==
    ASSUME NEW p1, NEW p2, NEW s, NEW w, NEW p3, AreParts(p1, p2, s, w, p3), NEW t \in Seq(Bytes)
    PROVE  /\ p3 \o t \in Seq(Bytes) /\ w \o (p3 \o t) \in Seq(Bytes)
           /\ s \o (w \o (p3 \o t)) \in Seq(Bytes)
           /\ p2 \o (s \o (w \o (p3 \o t))) \in Seq(Bytes)
           /\ Joined(p1, p2, s, w, p3, t) \in Seq(Bytes)
           /\ Len(Joined(p1, p2, s, w, p3, t))
                 = Len(p1) + Len(p2) + Len(s) + 2 + Len(p3) + Len(t)
           /\ Len(p1) \in Nat /\ Len(p2) \in Nat /\ Len(s) \in Nat /\ Len(p3) \in Nat /\ Len(t) \in Nat
<1>1. p1 \in Seq(Bytes) /\ p2 \in Seq(Bytes) /\ s \in Seq(Bytes) /\ w \in Seq(Bytes)
      /\ p3 \in Seq(Bytes) /\ Len(w) = 2
  BY DEF AreParts, IsVarInt
<1> DEFINE a == p3 \o t
           b == w \o a
           c == s \o b
           d == p2 \o c
           e == p1 \o d
<1>2. a \in Seq(Bytes) /\ Len(a) = Len(p3) + Len(t)
  BY <1>1, Cut
<1> HIDE DEF a
<1>3. b \in Seq(Bytes) /\ Len(b) = Len(w) + Len(a)
  BY <1>1, <1>2, Cut
<1> HIDE DEF b
<1>4. c \in Seq(Bytes) /\ Len(c) = Len(s) + Len(b)
  BY <1>1, <1>3, Cut
<1> HIDE DEF c
<1>5. d \in Seq(Bytes) /\ Len(d) = Len(p2) + Len(c)
  BY <1>1, <1>4, Cut
<1> HIDE DEF d
<1>6. e \in Seq(Bytes) /\ Len(e) = Len(p1) + Len(d)
  BY <1>1, <1>5, Cut
<1> HIDE DEF e
<1>7. Joined(p1, p2, s, w, p3, t) = e
  BY DEF Joined, a, b, c, d, e
<1>8. Len(p1) \in Nat /\ Len(p2) \in Nat /\ Len(s) \in Nat /\ Len(p3) \in Nat /\ Len(t) \in Nat
  BY <1>1, LenProperties
<1>9. Len(e) = Len(p1) + Len(p2) + Len(s) + 2 + Len(p3) + Len(t)
  BY <1>1, <1>2, <1>3, <1>4, <1>5, <1>6, <1>8
<1>10. /\ p3 \o t \in Seq(Bytes) /\ w \o (p3 \o t) \in Seq(Bytes)
       /\ s \o (w \o (p3 \o t)) \in Seq(Bytes)
       /\ p2 \o (s \o (w \o (p3 \o t))) \in Seq(Bytes)
  BY <1>2, <1>3, <1>4, <1>5, Zenon DEF a, b, c, d
<1> QED
  BY <1>6, <1>7, <1>8, <1>9, <1>10

\* The fields in the order in which packet_login.go reads them.
LEMMA HandshakeFieldsDef ==
    ASSUME NEW b, NEW v, NEW a, NEW p, NEW n,
           v = ReadVarInt_ByteReader(b), a = ReadString_ByteReader(v.rest),
           p = ReadShort(a.rest), n = ReadVarInt_ByteReader(p.rest)
    PROVE  HandshakeFields(b) =
              IF v.err # "none" THEN v ELSE IF a.err # "none" THEN a
              ELSE IF p.err # "none" THEN p ELSE IF n.err # "none" THEN n
              ELSE Gives([ProtocolVersion |-> v.val, ServerAddress |-> a.val,
                          ServerPort |-> p.val, NextState |-> n.val % Base], n.rest)
BY DEF HandshakeFields, Fields, Then

\* ... and the parser that worker.go uses.
LEMMA OldFieldsDef ==
    ASSUME NEW b, NEW v, NEW a, NEW p, NEW n,
           v = ReadVarInt(b), a = DecodeString(v.rest),
           p = ReadShort(a.rest), n = ReadVarInt(p.rest)
    PROVE  OldFields(b) =
              IF v.err # "none" THEN v ELSE IF a.err # "none" THEN a
              ELSE IF p.err # "none" THEN p ELSE IF n.err # "none" THEN n
              ELSE Gives([ProtocolVersion |-> v.val, ServerAddress |-> a.val,
                          ServerPort |-> p.val, NextState |-> n.val % Base], n.rest)
BY DEF OldFields, Fields, Then

\* The parts of a handshake are read one after the other.
LEMMA HandshakeFieldsReads ==
    ASSUME NEW p1, NEW p2, NEW s, NEW w, NEW p3, AreParts(p1, p2, s, w, p3), NEW t \in Seq(Bytes)
    PROVE  HandshakeFields(Joined(p1, p2, s, w, p3, t)) = Gives(HandshakeOf(p1, s, w, p3), t)
<1> DEFINE b == Joined(p1, p2, s, w, p3, t)
           v == ReadVarInt_ByteReader(b)
           a == ReadString_ByteReader(v.rest)
           p == ReadShort(a.rest)
           n == ReadVarInt_ByteReader(p.rest)
<1>1. /\ p3 \o t \in Seq(Bytes) /\ w \o (p3 \o t) \in Seq(Bytes)
      /\ s \o (w \o (p3 \o t)) \in Seq(Bytes)
      /\ p2 \o (s \o (w \o (p3 \o t))) \in Seq(Bytes)
  BY PartsTyped
<1>2. IsVarInt(p1) /\ IsVarInt(p2) /\ IsVarInt(p3) /\ s \in Seq(Bytes) /\ GroupsValue(p2) = Len(s)
      /\ w \in Seq(Bytes) /\ Len(w) = 2
  BY DEF AreParts
<1>3. HandshakeFields(b) =
         IF v.err # "none" THEN v ELSE IF a.err # "none" THEN a
         ELSE IF p.err # "none" THEN p ELSE IF n.err # "none" THEN n
         ELSE Gives([ProtocolVersion |-> v.val, ServerAddress |-> a.val,
                     ServerPort |-> p.val, NextState |-> n.val % Base], n.rest)
  BY HandshakeFieldsDef, Zenon
<1>4. v = Gives(GroupsValue(p1), p2 \o (s \o (w \o (p3 \o t))))
  BY <1>1, <1>2, DecodeReads, Zenon DEF ReadVarInt_ByteReader, Joined
<1> HIDE DEF v
<1>5. v.err = "none" /\ v.val = GroupsValue(p1) /\ v.rest = p2 \o (s \o (w \o (p3 \o t)))
  BY <1>4 DEF Gives
<1>6. a = Gives(s, w \o (p3 \o t))
  <2>1. ReadString_ByteReader(p2 \o (s \o (w \o (p3 \o t)))) = Gives(s, w \o (p3 \o t))
    BY <1>1, <1>2, ReadStringReads, Zenon
  <2> QED
    BY <1>5, <2>1, Zenon
<1> HIDE DEF a
<1>7. a.err = "none" /\ a.val = s /\ a.rest = w \o (p3 \o t)
  BY <1>6 DEF Gives
<1>8. p = Gives(ShortOf(w), p3 \o t)
  BY <1>1, <1>2, <1>7, ReadShortReads, Zenon
<1> HIDE DEF p
<1>9. p.err = "none" /\ p.val = ShortOf(w) /\ p.rest = p3 \o t
  BY <1>8 DEF Gives
<1>10. n = Gives(GroupsValue(p3), t)
  BY <1>2, <1>9, DecodeReads, Zenon DEF ReadVarInt_ByteReader
<1> HIDE DEF n
<1>11. n.err = "none" /\ n.val = GroupsValue(p3) /\ n.rest = t
  BY <1>10 DEF Gives
<1> HIDE DEF b
<1>12. HandshakeFields(b) = Gives(HandshakeOf(p1, s, w, p3), t)
  BY <1>3, <1>5, <1>7, <1>9, <1>11 DEF HandshakeOf
<1> QED
  BY <1>12 DEF b

\* ... by both parsers.
LEMMA OldFieldsReads ==
    ASSUME NEW p1, NEW p2, NEW s, NEW w, NEW p3, AreParts(p1, p2, s, w, p3), NEW t \in Seq(Bytes),
           Len(s) < Word \div 2
    PROVE  OldFields(Joined(p1, p2, s, w, p3, t))
              = Gives([HandshakeOf(p1, s, w, p3) EXCEPT !.ProtocolVersion = Signed(@)], t)
<1> DEFINE b == Joined(p1, p2, s, w, p3, t)
           v == ReadVarInt(b)
           a == DecodeString(v.rest)
           p == ReadShort(a.rest)
           n == ReadVarInt(p.rest)
<1>1. /\ p3 \o t \in Seq(Bytes) /\ w \o (p3 \o t) \in Seq(Bytes)
      /\ s \o (w \o (p3 \o t)) \in Seq(Bytes)
      /\ p2 \o (s \o (w \o (p3 \o t))) \in Seq(Bytes)
  BY PartsTyped
<1>2. IsVarInt(p1) /\ IsVarInt(p2) /\ IsVarInt(p3) /\ s \in Seq(Bytes) /\ GroupsValue(p2) = Len(s)
      /\ w \in Seq(Bytes) /\ Len(w) = 2
  BY DEF AreParts
<1>3. OldFields(b) =
         IF v.err # "none" THEN v ELSE IF a.err # "none" THEN a
         ELSE IF p.err # "none" THEN p ELSE IF n.err # "none" THEN n
         ELSE Gives([ProtocolVersion |-> v.val, ServerAddress |-> a.val,
                     ServerPort |-> p.val, NextState |-> n.val % Base], n.rest)
  BY OldFieldsDef, Zenon
<1>4. v = Gives(Signed(GroupsValue(p1)), p2 \o (s \o (w \o (p3 \o t))))
  BY <1>1, <1>2, ReadVarIntReads, Zenon DEF Joined
<1> HIDE DEF v
<1>5. v.err = "none" /\ v.val = Signed(GroupsValue(p1)) /\ v.rest = p2 \o (s \o (w \o (p3 \o t)))
  BY <1>4 DEF Gives
<1>6. a = Gives(s, w \o (p3 \o t))
  <2>1. DecodeString(p2 \o (s \o (w \o (p3 \o t)))) = Gives(s, w \o (p3 \o t))
    BY <1>1, <1>2, DecodeStringReads, Zenon
  <2> QED
    BY <1>5, <2>1, Zenon
<1> HIDE DEF a
<1>7. a.err = "none" /\ a.val = s /\ a.rest = w \o (p3 \o t)
  BY <1>6 DEF Gives
<1>8. p = Gives(ShortOf(w), p3 \o t)
  BY <1>1, <1>2, <1>7, ReadShortReads, Zenon
<1> HIDE DEF p
<1>9. p.err = "none" /\ p.val = ShortOf(w) /\ p.rest = p3 \o t
  BY <1>8 DEF Gives
<1>10. n = Gives(Signed(GroupsValue(p3)), t)
  BY <1>2, <1>9, ReadVarIntReads, Zenon
<1> HIDE DEF n
<1>11. n.err = "none" /\ n.val = Signed(GroupsValue(p3)) /\ n.rest = t
  BY <1>10 DEF Gives
<1>12. Signed(GroupsValue(p3)) % Base = GroupsValue(p3) % Base
  BY <1>2, GroupsValueTyped, SignedResidue DEF IsVarInt
<1> HIDE DEF b
<1>13. OldFields(b) = Gives([ProtocolVersion |-> Signed(GroupsValue(p1)), ServerAddress |-> s,
                             ServerPort |-> ShortOf(w), NextState |-> GroupsValue(p3) % Base], t)
  BY <1>3, <1>5, <1>7, <1>9, <1>11, <1>12
<1>14. [HandshakeOf(p1, s, w, p3) EXCEPT !.ProtocolVersion = Signed(@)]
          = [ProtocolVersion |-> Signed(GroupsValue(p1)), ServerAddress |-> s,
             ServerPort |-> ShortOf(w), NextState |-> GroupsValue(p3) % Base]
  BY DEF HandshakeOf
<1> QED
  BY <1>13, <1>14 DEF b

\* What was read as a handshake is its parts.
LEMMA HandshakeFieldsSplits ==
    ASSUME NEW b \in Seq(Bytes), HandshakeFields(b).err = "none"
    PROVE  \E p1, p2, s, w, p3, t :
              AreParts(p1, p2, s, w, p3) /\ t \in Seq(Bytes) /\ b = Joined(p1, p2, s, w, p3, t)
<1> DEFINE v == ReadVarInt_ByteReader(b)
           a == ReadString_ByteReader(v.rest)
           p == ReadShort(a.rest)
           n == ReadVarInt_ByteReader(p.rest)
<1>1. HandshakeFields(b) =
         IF v.err # "none" THEN v ELSE IF a.err # "none" THEN a
         ELSE IF p.err # "none" THEN p ELSE IF n.err # "none" THEN n
         ELSE Gives([ProtocolVersion |-> v.val, ServerAddress |-> a.val,
                     ServerPort |-> p.val, NextState |-> n.val % Base], n.rest)
  BY HandshakeFieldsDef, Zenon
<1> HIDE DEF v, a, p, n
<1>2. v.err = "none" /\ a.err = "none" /\ p.err = "none" /\ n.err = "none"
  BY <1>1
<1>3. PICK p1, x1 : IsVarInt(p1) /\ x1 \in Seq(Bytes) /\ b = p1 \o x1 /\ v.rest = x1
  <2>1. DecodeVarInt(b).err = "none"
    BY <1>2 DEF v, ReadVarInt_ByteReader
  <2>2. PICK q, x : /\ IsVarInt(q) /\ x \in Seq(Bytes) /\ b = q \o x
                    /\ DecodeVarInt(b) = Gives(GroupsValue(q), x)
    BY <2>1, DecodeSplits
  <2>3. v.rest = x
    BY <2>2 DEF v, ReadVarInt_ByteReader, Gives
  <2> QED
    BY <2>2, <2>3
<1>4. PICK p2, s, x2 : /\ IsVarInt(p2) /\ s \in Seq(Bytes) /\ GroupsValue(p2) = Len(s)
                       /\ x2 \in Seq(Bytes) /\ x1 = p2 \o (s \o x2) /\ a.rest = x2
  <2>1. ReadString_ByteReader(x1).err = "none"
    BY <1>2, <1>3 DEF a
  <2>2. PICK q, u, x : /\ IsVarInt(q) /\ u \in Seq(Bytes) /\ GroupsValue(q) = Len(u)
                       /\ x \in Seq(Bytes) /\ x1 = q \o (u \o x)
    BY <1>3, <2>1, ReadStringSplits
  <2>3. ReadString_ByteReader(q \o (u \o x)) = Gives(u, x)
    BY <2>2, ReadStringReads
  <2>4. a.rest = x
    BY <1>3, <2>2, <2>3 DEF a, Gives
  <2> QED
    BY <2>2, <2>4
<1>5. PICK w, x3 : w \in Seq(Bytes) /\ Len(w) = 2 /\ x3 \in Seq(Bytes) /\ x2 = w \o x3 /\ p.rest = x3
  <2>1. ReadShort(x2).err = "none"
    BY <1>2, <1>4 DEF p
  <2>2. PICK q, x : q \in Seq(Bytes) /\ Len(q) = 2 /\ x \in Seq(Bytes) /\ x2 = q \o x
    BY <1>4, <2>1, ReadShortSplits
  <2>3. ReadShort(q \o x) = Gives(ShortOf(q), x)
    BY <2>2, ReadShortReads
  <2>4. p.rest = x
    BY <1>4, <2>2, <2>3 DEF p, Gives
  <2> QED
    BY <2>2, <2>4
<1>6. PICK p3, t : IsVarInt(p3) /\ t \in Seq(Bytes) /\ x3 = p3 \o t
  <2>1. DecodeVarInt(x3).err = "none"
    BY <1>2, <1>5 DEF n, ReadVarInt_ByteReader
  <2> QED
    BY <1>5, <2>1, DecodeSplits
<1>7. b = Joined(p1, p2, s, w, p3, t)
  BY <1>3, <1>4, <1>5, <1>6, Zenon DEF Joined
<1>8. AreParts(p1, p2, s, w, p3)
  BY <1>3, <1>4, <1>5, <1>6, Zenon DEF AreParts
<1> QED
  BY <1>6, <1>7, <1>8, Zenon

\* ... for both parsers.
LEMMA OldFieldsSplits ==
    ASSUME NEW b \in Seq(Bytes), OldFields(b).err = "none"
    PROVE  \E p1, p2, s, w, p3, t :
              /\ AreParts(p1, p2, s, w, p3) /\ t \in Seq(Bytes) /\ b = Joined(p1, p2, s, w, p3, t)
              /\ Len(s) < Word \div 2
<1> DEFINE v == ReadVarInt(b)
           a == DecodeString(v.rest)
           port == ReadShort(a.rest)
           n == ReadVarInt(port.rest)
<1>1. OldFields(b) =
         IF v.err # "none" THEN v ELSE IF a.err # "none" THEN a
         ELSE IF port.err # "none" THEN port ELSE IF n.err # "none" THEN n
         ELSE Gives([ProtocolVersion |-> v.val, ServerAddress |-> a.val,
                     ServerPort |-> port.val, NextState |-> n.val % Base], n.rest)
  BY OldFieldsDef, Zenon
<1> HIDE DEF v, a, port, n
<1>2. v.err = "none" /\ a.err = "none" /\ port.err = "none" /\ n.err = "none"
  BY <1>1
<1>3. PICK p1, x1 : IsVarInt(p1) /\ x1 \in Seq(Bytes) /\ b = p1 \o x1 /\ v.rest = x1
  <2>1. ReadVarInt(b).err = "none"
    BY <1>2 DEF v
  <2>2. PICK q, x : /\ IsVarInt(q) /\ x \in Seq(Bytes) /\ b = q \o x
                    /\ ReadVarInt(b) = Gives(Signed(GroupsValue(q)), x)
    BY <2>1, ReadVarIntSplits
  <2>3. v.rest = x
    BY <2>2 DEF v, Gives
  <2> QED
    BY <2>2, <2>3
<1>4. PICK p2, s, x2 : /\ IsVarInt(p2) /\ s \in Seq(Bytes) /\ GroupsValue(p2) = Len(s)
                       /\ Len(s) < Word \div 2
                       /\ x2 \in Seq(Bytes) /\ x1 = p2 \o (s \o x2) /\ a.rest = x2
  <2>1. DecodeString(x1).err = "none"
    BY <1>2, <1>3 DEF a
  <2>2. PICK p, s, x : /\ IsVarInt(p) /\ s \in Seq(Bytes) /\ GroupsValue(p) = Len(s)
                       /\ Len(s) < Word \div 2 /\ x \in Seq(Bytes) /\ x1 = p \o (s \o x)
    <3>1. x1 \in Seq(Bytes)
      BY <1>3
    <3> QED
      BY <2>1, <3>1, DecodeStringSplits, Zenon
  <2>3. DecodeString(p \o (s \o x)) = Gives(s, x)
    BY <2>2, DecodeStringReads
  <2>4. a.rest = x
    BY <1>3, <2>2, <2>3 DEF a, Gives
  <2> QED
    BY <2>2, <2>4
<1>5. PICK w, x3 : w \in Seq(Bytes) /\ Len(w) = 2 /\ x3 \in Seq(Bytes) /\ x2 = w \o x3 /\ port.rest = x3
  <2>1. ReadShort(x2).err = "none"
    BY <1>2, <1>4 DEF port
  <2>2. PICK q, x : q \in Seq(Bytes) /\ Len(q) = 2 /\ x \in Seq(Bytes) /\ x2 = q \o x
    BY <1>4, <2>1, ReadShortSplits
  <2>3. ReadShort(q \o x) = Gives(ShortOf(q), x)
    BY <2>2, ReadShortReads
  <2>4. port.rest = x
    BY <1>4, <2>2, <2>3 DEF port, Gives
  <2> QED
    BY <2>2, <2>4
<1>6. PICK p3, t : IsVarInt(p3) /\ t \in Seq(Bytes) /\ x3 = p3 \o t
  <2>1. ReadVarInt(x3).err = "none"
    BY <1>2, <1>5 DEF n
  <2> QED
    BY <1>5, <2>1, ReadVarIntSplits
<1>7. b = Joined(p1, p2, s, w, p3, t)
  BY <1>3, <1>4, <1>5, <1>6, Zenon DEF Joined
<1>8. AreParts(p1, p2, s, w, p3)
  BY <1>3, <1>4, <1>5, <1>6, Zenon DEF AreParts
<1> QED
  BY <1>4, <1>6, <1>7, <1>8, Zenon

-----------------------------------------------------------------------------
(* The other readers.                                                       *)

\* A packet on the wire is a VarInt, the length of its body, and the body.
IsPacket(p, body) ==
    /\ IsVarInt(p) /\ body \in Seq(Bytes)
    /\ Signed(GroupsValue(p)) = Len(body) /\ Len(body) >= 1

\* The length in front of a packet has no sign.
LEMMA PacketLength ==
    ASSUME NEW p, NEW body, IsPacket(p, body)
    PROVE  /\ Len(body) \in Nat /\ GroupsValue(p) = Len(body) /\ Len(body) < Word \div 2
           /\ body = <<Head(body)>> \o Tail(body) /\ Head(body) \in Bytes
           /\ Tail(body) \in Seq(Bytes) /\ Len(Tail(body)) = Len(body) - 1
<1>1. GroupsValue(p) \in Words /\ Len(body) \in Nat /\ body \in Seq(Bytes) /\ Len(body) >= 1
  BY GroupsValueTyped, LenProperties DEF IsPacket, IsVarInt
<1>2. GroupsValue(p) = Len(body) /\ Len(body) < Word \div 2
  BY <1>1, SignedWhole DEF IsPacket
<1>3. body # <<>>
  BY <1>1
<1>4. Head(body) \in Bytes /\ Tail(body) \in Seq(Bytes) /\ Len(Tail(body)) = Len(body) - 1
  BY <1>1, <1>3, HeadTailProperties
<1>5. body = <<Head(body)>> \o Tail(body)
  <2>1. 1 \in 1..Len(body) /\ Len(body) \in 1..Len(body)
    BY <1>1
  <2>2. SubSeq(body, 1, Len(body)) = <<body[1]>> \o SubSeq(body, 1 + 1, Len(body))
    BY <1>1, <2>1, SubSeqRecursiveFirst
  <2>3. Tail(body) = SubSeq(body, 2, Len(body)) /\ SubSeq(body, 1, Len(body)) = body
    BY <1>1, <1>3, TailIsSubSeq, SubSeqFull
  <2>4. Head(body) = body[1]
    BY <1>1, <1>3
  <2> QED
    BY <2>2, <2>3, <2>4
<1> QED
  BY <1>1, <1>2, <1>4, <1>5

\* ReadPacket3 reads the same packet.
LEMMA ReadPacket3Reads ==
    ASSUME NEW p, NEW body, IsPacket(p, body), NEW x \in Seq(Bytes)
    PROVE  ReadPacket3(p \o (body \o x)) = Gives(Packet(Head(body), Tail(body)), x)
<1>1. body \in Seq(Bytes) /\ body \o x \in Seq(Bytes) /\ Len(body) \in Nat /\ Len(body) >= 1
      /\ IsVarInt(p) /\ GroupsValue(p) = Len(body)
  BY Cut, LenProperties, PacketLength DEF IsPacket
<1> DEFINE l == ReadVarInt_ByteReader(p \o (body \o x))
<1>2. l = Gives(Len(body), body \o x)
  BY <1>1, DecodeReads, Zenon DEF ReadVarInt_ByteReader
<1>3. ReadPacket3(p \o (body \o x)) = IF l.err = "none" THEN ReadBody(l) ELSE l
  BY DEF ReadPacket3, Then
<1> HIDE DEF l
<1>4. l.err = "none" /\ l.val = Len(body) /\ l.rest = body \o x
  BY <1>2 DEF Gives
<1>5. ~(l.val < 1)
  BY <1>1, <1>4
<1> DEFINE r == ReadNBytes(l.rest, l.val)
<1>6. r = Gives(body, x)
  BY <1>1, <1>4, ReadNBytesReads
<1>7. ReadBody(l) = IF r.err = "none" THEN Gives(Packet(Head(r.val), Tail(r.val)), r.rest) ELSE r
  BY <1>5 DEF ReadBody, Then
<1> HIDE DEF r
<1>8. r.err = "none" /\ r.val = body /\ r.rest = x
  BY <1>6 DEF Gives
<1> QED
  BY <1>3, <1>4, <1>7, <1>8

\* What was read as a packet, with a length that has no sign.
LEMMA PacketSplits ==
    ASSUME NEW b \in Seq(Bytes), ReadPacket(b).err = "none"
    PROVE  \E p, body, x :
              /\ IsPacket(p, body) /\ x \in Seq(Bytes) /\ b = p \o (body \o x)
              /\ ReadPacket(b) = Gives(Packet(Head(body), Tail(body)), x)
<1>1. PICK p, body, x :
         /\ IsVarInt(p) /\ body \in Seq(Bytes) /\ x \in Seq(Bytes)
         /\ Signed(GroupsValue(p)) = Len(body) /\ Len(body) >= 1
         /\ b = p \o (body \o x)
  BY ReadPacketSplits
<1>2. ReadPacket(p \o (body \o x)) = Gives(Packet(Head(body), Tail(body)), x)
  BY <1>1, ReadPacketReads, Zenon
<1>3. IsPacket(p, body)
  BY <1>1, Zenon DEF IsPacket
<1> QED
  BY <1>1, <1>2, <1>3, Zenon

\* Joining three sequences.
LEMMA Assoc ==
    ASSUME NEW a \in Seq(Bytes), NEW b \in Seq(Bytes), NEW c \in Seq(Bytes)
    PROVE  (a \o b) \o c = a \o (b \o c)
BY ConcatAssociative

\* The same under a name, for the prover that takes lemmas by their form.
AreAssociative(a, b, c) == (a \o b) \o c = a \o (b \o c)

LEMMA Associates ==
    ASSUME NEW a \in Seq(Bytes), NEW b \in Seq(Bytes), NEW c \in Seq(Bytes)
    PROVE  AreAssociative(a, b, c)
BY ConcatAssociative DEF AreAssociative

\* The parts of a handshake, with more behind them.
LEMMA JoinedMore ==
    ASSUME NEW p1, NEW p2, NEW s, NEW w, NEW p3, AreParts(p1, p2, s, w, p3),
           NEW t \in Seq(Bytes), NEW x \in Seq(Bytes)
    PROVE  Joined(p1, p2, s, w, p3, t) \o x = Joined(p1, p2, s, w, p3, t \o x)
<1>1. p1 \in Seq(Bytes) /\ p2 \in Seq(Bytes) /\ s \in Seq(Bytes) /\ w \in Seq(Bytes) /\ p3 \in Seq(Bytes)
  BY DEF AreParts, IsVarInt
<1> DEFINE a == p3 \o t
           b == w \o a
           c == s \o b
           d == p2 \o c
<1>2. a \in Seq(Bytes) /\ b \in Seq(Bytes) /\ c \in Seq(Bytes) /\ d \in Seq(Bytes)
  BY PartsTyped
<1> HIDE DEF b, c, d
<1>3. a \o x = p3 \o (t \o x)
  <2>1. AreAssociative(p3, t, x)
    BY <1>1, Associates, Zenon
  <2> QED
    BY <2>1 DEF AreAssociative
<1> HIDE DEF a
<1>4. b \o x = w \o (a \o x)
  <2>1. w \in Seq(Bytes) /\ a \in Seq(Bytes)
    BY <1>1, <1>2
  <2>2. (w \o a) \o x = w \o (a \o x)
    BY <2>1, Assoc
  <2> QED
    BY <2>2, Zenon DEF b
<1>5. c \o x = s \o (b \o x)
  <2>1. s \in Seq(Bytes) /\ b \in Seq(Bytes)
    BY <1>1, <1>2
  <2>2. (s \o b) \o x = s \o (b \o x)
    BY <2>1, Assoc
  <2> QED
    BY <2>2, Zenon DEF c
<1>6. d \o x = p2 \o (c \o x)
  <2>1. p2 \in Seq(Bytes) /\ c \in Seq(Bytes)
    BY <1>1, <1>2
  <2>2. (p2 \o c) \o x = p2 \o (c \o x)
    BY <2>1, Assoc
  <2> QED
    BY <2>2, Zenon DEF d
<1>7. (p1 \o d) \o x = p1 \o (d \o x)
  <2>1. p1 \in Seq(Bytes) /\ d \in Seq(Bytes)
    BY <1>1, <1>2
  <2> QED
    BY <2>1, Assoc
<1>8. Joined(p1, p2, s, w, p3, t) = p1 \o d
  BY DEF Joined, a, b, c, d
<1>9. Joined(p1, p2, s, w, p3, t \o x) = p1 \o (p2 \o (s \o (w \o (a \o x))))
  BY <1>3 DEF Joined
<1> QED
  BY <1>4, <1>5, <1>6, <1>7, <1>8, <1>9

\* A number of one byte.
LEMMA ZeroByte == IsVarInt(<<0>>) /\ GroupsValue(<<0>>) = 0
<1>1. 0 \in Words /\ 0 < More
  BY Sizes
<1>2. EncodeVarInt[0] = <<0>>
  BY <1>1, EncodeDef
<1> QED
  BY <1>1, <1>2, VarIntRoundTrip

\* mc/packet_login.go, mc/packet.go:159: whatever bytes come, the parsers agree.
THEOREM ReadersAlwaysAgree ==
    ASSUME NEW bytes \in Seq(Bytes)
    PROVE  ReadersAgreeOn(bytes)
<1> DEFINE pk == ReadPacket(bytes)
           old == UnmarshalServerBoundHandshake(pk.val)
           new == UnmarshalServerBoundHandshake2(pk.val)
<1> SUFFICES ASSUME pk.err = "none"
             PROVE  /\ ReadPacket3(bytes) = pk
                    /\ new.err = "none" <=> old.err = "none"
                    /\ new.err = "none" =>
                          /\ old.val = [new.val EXCEPT !.ProtocolVersion = Signed(@)]
                          /\ UnmarshalServerBoundHandshake_ByteReader(<<pk.val.id>> \o pk.val.data).val
                               = new.val
                          /\ ReadPacket3_Handshake(bytes).val = new.val
  BY Zenon DEF ReadersAgreeOn
<1>1. PICK p, body, x : /\ IsPacket(p, body) /\ x \in Seq(Bytes) /\ bytes = p \o (body \o x)
                        /\ pk = Gives(Packet(Head(body), Tail(body)), x)
  BY PacketSplits
<1> DEFINE d == Tail(body)
<1> HIDE DEF pk
<1>2. pk.val.id = Head(body) /\ pk.val.data = d
  BY <1>1 DEF Gives, Packet
<1>3. /\ Len(body) < Word \div 2 /\ body = <<Head(body)>> \o d /\ Head(body) \in Bytes
      /\ d \in Seq(Bytes) /\ Len(d) = Len(body) - 1 /\ Len(body) \in Nat /\ GroupsValue(p) = Len(body)
  BY <1>1, PacketLength
<1> HIDE DEF d
<1>4. ReadPacket3(bytes) = pk
  BY <1>1, ReadPacket3Reads
<1>5. CASE Head(body) # 0
  <2>1. old.err = "id" /\ new.err = "id"
    BY <1>2, <1>5 DEF UnmarshalServerBoundHandshake, UnmarshalServerBoundHandshake2, Fails
  <2> QED
    BY <1>4, <2>1
<1>6. CASE Head(body) = 0
  <2>1. old = OldFields(d)
    BY <1>2, <1>6, Zenon DEF UnmarshalServerBoundHandshake, OldFields
  <2>2. new = HandshakeFields(d)
    BY <1>2, <1>6, Zenon DEF UnmarshalServerBoundHandshake2
  <2> HIDE DEF old, new
  <2>3. ASSUME NEW p1, NEW p2, NEW s, NEW w, NEW p3, NEW t, AreParts(p1, p2, s, w, p3),
               t \in Seq(Bytes), d = Joined(p1, p2, s, w, p3, t)
        PROVE  /\ new = Gives(HandshakeOf(p1, s, w, p3), t)
               /\ old = Gives([HandshakeOf(p1, s, w, p3) EXCEPT !.ProtocolVersion = Signed(@)], t)
    <3>1. new = Gives(HandshakeOf(p1, s, w, p3), t)
      BY <2>2, <2>3, HandshakeFieldsReads
    <3>2. Len(s) < Word \div 2
      <4>1. /\ Len(d) = Len(p1) + Len(p2) + Len(s) + 2 + Len(p3) + Len(t)
            /\ Len(p1) \in Nat /\ Len(p2) \in Nat /\ Len(s) \in Nat /\ Len(p3) \in Nat /\ Len(t) \in Nat
        BY <2>3, PartsTyped
      <4>2. Word \div 2 \in Nat
        BY Sizes
      <4> QED
        BY <1>3, <4>1, <4>2
    <3> QED
      <4>1. OldFields(Joined(p1, p2, s, w, p3, t))
               = Gives([HandshakeOf(p1, s, w, p3) EXCEPT !.ProtocolVersion = Signed(@)], t)
        BY <2>3, <3>2, OldFieldsReads
      <4> QED
        BY <2>1, <2>3, <3>1, <4>1
  <2>4. new.err = "none" => old.err = "none"
    <3> SUFFICES ASSUME new.err = "none" PROVE old.err = "none"
      OBVIOUS
    <3>1. PICK p1, p2, s, w, p3, t :
             AreParts(p1, p2, s, w, p3) /\ t \in Seq(Bytes) /\ d = Joined(p1, p2, s, w, p3, t)
      BY <1>3, <2>2, HandshakeFieldsSplits
    <3> QED
      BY <2>3, <3>1 DEF Gives
  <2>5. old.err = "none" => new.err = "none"
    <3> SUFFICES ASSUME old.err = "none" PROVE new.err = "none"
      OBVIOUS
    <3>1. PICK p1, p2, s, w, p3, t :
             AreParts(p1, p2, s, w, p3) /\ t \in Seq(Bytes) /\ d = Joined(p1, p2, s, w, p3, t)
      BY <1>3, <2>1, OldFieldsSplits
    <3> QED
      BY <2>3, <3>1 DEF Gives
  <2>6. ASSUME new.err = "none"
        PROVE  /\ old.val = [new.val EXCEPT !.ProtocolVersion = Signed(@)]
               /\ UnmarshalServerBoundHandshake_ByteReader(<<pk.val.id>> \o pk.val.data).val = new.val
               /\ ReadPacket3_Handshake(bytes).val = new.val
    <3>1. PICK p1, p2, s, w, p3, t :
             AreParts(p1, p2, s, w, p3) /\ t \in Seq(Bytes) /\ d = Joined(p1, p2, s, w, p3, t)
      BY <1>3, <2>2, <2>6, HandshakeFieldsSplits
    <3> DEFINE hs == HandshakeOf(p1, s, w, p3)
    <3>2. new = Gives(hs, t) /\ old = Gives([hs EXCEPT !.ProtocolVersion = Signed(@)], t)
      BY <2>3, <3>1
    <3> HIDE DEF hs
    <3>3. new.val = hs /\ old.val = [hs EXCEPT !.ProtocolVersion = Signed(@)]
      BY <3>2 DEF Gives
    <3>4. UnmarshalServerBoundHandshake_ByteReader(<<pk.val.id>> \o pk.val.data) = HandshakeFields(d)
      <4>1. <<pk.val.id>> \o pk.val.data = body
        BY <1>2, <1>3
      <4>2. body # <<>> /\ Tail(body) = d
        BY <1>1 DEF IsPacket, d
      <4> QED
        BY <1>6, <4>1, <4>2, Zenon DEF UnmarshalServerBoundHandshake_ByteReader
    <3>5. ReadPacket3_Handshake(bytes).val = hs
      <4>1. body \o x = <<0>> \o (d \o x) /\ d \o x \in Seq(Bytes) /\ t \o x \in Seq(Bytes)
            /\ body \o x \in Seq(Bytes)
        <5>1. <<0>> \in Seq(Bytes)
          BY ZeroByte DEF IsVarInt
        <5>2. (<<0>> \o d) \o x = <<0>> \o (d \o x)
          BY <1>1, <1>3, <5>1, ConcatAssociative
        <5>3. d \o x \in Seq(Bytes) /\ t \o x \in Seq(Bytes) /\ body \o x \in Seq(Bytes)
          BY <1>1, <1>3, <3>1, Cut DEF IsPacket
        <5> QED
          BY <1>3, <1>6, <5>2, <5>3
      <4> DEFINE l == ReadVarInt_ByteReader(bytes)
                 i == ReadVarInt_ByteReader(l.rest)
      <4>2. ReadPacket3_Handshake(bytes) =
               IF l.err # "none" THEN l ELSE IF l.val < 1 THEN Fails("length")
               ELSE IF i.err # "none" THEN i ELSE IF i.val # 0 THEN Fails("id")
               ELSE HandshakeFields(i.rest)
        BY DEF ReadPacket3_Handshake, Then
      <4>3. l = Gives(Len(body), body \o x)
        BY <1>1, <1>3, <4>1, DecodeReads, Zenon DEF ReadVarInt_ByteReader, IsPacket
      <4> HIDE DEF l
      <4>4. l.err = "none" /\ l.val = Len(body) /\ l.rest = <<0>> \o (d \o x)
        BY <4>1, <4>3 DEF Gives
      <4>5. i = Gives(0, d \o x)
        BY <4>1, <4>4, ZeroByte, DecodeReads, Zenon DEF ReadVarInt_ByteReader
      <4> HIDE DEF i
      <4>6. i.err = "none" /\ i.val = 0 /\ i.rest = d \o x
        BY <4>5 DEF Gives
      <4>7. ~(Len(body) < 1)
        BY <1>1, <1>3 DEF IsPacket
      <4>8. HandshakeFields(d \o x) = Gives(hs, t \o x)
        <5>1. d \o x = Joined(p1, p2, s, w, p3, t \o x)
          <6>1. Joined(p1, p2, s, w, p3, t) \o x = Joined(p1, p2, s, w, p3, t \o x)
            <7>1. AreParts(p1, p2, s, w, p3) /\ t \in Seq(Bytes) /\ x \in Seq(Bytes)
              BY <1>1, <3>1, Zenon
            <7> QED
              BY <7>1, JoinedMore
          <6> QED
            BY <3>1, <6>1
        <5> QED
          <6>1. HandshakeFields(Joined(p1, p2, s, w, p3, t \o x)) = Gives(hs, t \o x)
            <7>1. AreParts(p1, p2, s, w, p3) /\ t \o x \in Seq(Bytes)
              BY <3>1, <4>1
            <7> QED
              <8>1. ASSUME NEW z \in Seq(Bytes)
                    PROVE  HandshakeFields(Joined(p1, p2, s, w, p3, z)) = Gives(hs, z)
                BY <7>1, HandshakeFieldsReads DEF hs
              <8> QED
                BY <7>1, <8>1, Zenon
          <6> QED
            BY <5>1, <6>1, Zenon
      <4>9. ReadPacket3_Handshake(bytes) = Gives(hs, t \o x)
        BY <4>2, <4>4, <4>6, <4>7, <4>8
      <4> QED
        BY <4>9 DEF Gives
    <3> QED
      BY <2>2, <3>3, <3>4, <3>5
  <2> QED
    BY <1>4, <2>4, <2>5, <2>6 DEF old, new
<1> QED
  BY <1>5, <1>6

-----------------------------------------------------------------------------
(* Several packets in a row.                                                *)

AfterNone(b) == [packets |-> <<>>, rest |-> b]
AfterOne(a) ==
    LET r == ReadPacket(a.rest) IN [packets |-> Append(a.packets, r.val), rest |-> r.rest]

AreSteps(f, b, n) == f = [k \in 0..n |-> IF k = 0 THEN AfterNone(b) ELSE AfterOne(f[k - 1])]

\* The packets of a byte sequence, as the recursive function they are.
LEMMA StepsExist == ASSUME NEW b PROVE \A n \in Nat : \E f : AreSteps(f, b, n)
<1> DEFINE G == {n \in Nat : \E f : AreSteps(f, b, n)}
<1>1. 0 \in G
  <2>1. AreSteps([k \in 0..0 |-> AfterNone(b)], b, 0)
    BY DEF AreSteps
  <2> QED
    BY <2>1
<1>2. ASSUME NEW n \in Nat, n \in G PROVE n + 1 \in G
  <2>1. PICK f : AreSteps(f, b, n)
    BY <1>2
  <2> DEFINE g == [k \in 0..(n + 1) |-> IF k = n + 1 THEN AfterOne(f[n]) ELSE f[k]]
  <2>2. ASSUME NEW k \in 0..(n + 1)
        PROVE  g[k] = IF k = 0 THEN AfterNone(b) ELSE AfterOne(g[k - 1])
    <3>1. CASE k = n + 1
      <4>1. g[k] = AfterOne(f[n]) /\ g[k - 1] = f[n] /\ k # 0
        BY <3>1
      <4> QED
        BY <4>1
    <3>2. CASE k # n + 1
      <4>1. k \in 0..n /\ g[k] = f[k] /\ (k # 0 => g[k - 1] = f[k - 1])
        BY <3>2
      <4>2. f[k] = IF k = 0 THEN AfterNone(b) ELSE AfterOne(f[k - 1])
        BY <2>1, <4>1, Zenon DEF AreSteps
      <4> QED
        BY <4>1, <4>2
    <3> QED
      BY <3>1, <3>2
  <2>3. AreSteps(g, b, n + 1)
    <3>1. g = [k \in 0..(n + 1) |-> g[k]]
      OBVIOUS
    <3> HIDE DEF g
    <3> QED
      BY <2>2, <3>1, Zenon DEF AreSteps
  <2> HIDE DEF g
  <2> QED
    BY <2>3
<1> HIDE DEF G
<1>3. Nat \subseteq G
  BY <1>1, <1>2, Induction
<1> QED
  BY <1>3 DEF G

\* ... of which there is one.
LEMMA StepsAgree ==
    ASSUME NEW b, NEW m \in Nat, NEW n \in Nat, NEW f, NEW g, AreSteps(f, b, m), AreSteps(g, b, n)
    PROVE  \A k \in Nat : k <= m /\ k <= n => f[k] = g[k]
<1> DEFINE G == {k \in Nat : k <= m /\ k <= n => f[k] = g[k]}
<1>1. 0 \in G
  BY DEF AreSteps
<1>2. ASSUME NEW k \in Nat, k \in G PROVE k + 1 \in G
  <2>1. SUFFICES ASSUME k + 1 <= m, k + 1 <= n PROVE f[k + 1] = g[k + 1]
    OBVIOUS
  <2>2. f[k] = g[k]
    BY <1>2, <2>1
  <2>3. k + 1 \in 0..m /\ k + 1 \in 0..n /\ k + 1 # 0 /\ (k + 1) - 1 = k
    BY <2>1
  <2>4. f[k + 1] = AfterOne(f[k]) /\ g[k + 1] = AfterOne(g[k])
    BY <2>3 DEF AreSteps
  <2> QED
    BY <2>2, <2>4
<1> HIDE DEF G
<1>3. Nat \subseteq G
  BY <1>1, <1>2, Induction
<1> QED
  BY <1>3 DEF G

\* One packet more.
LEMMA AfterDef ==
    ASSUME NEW b
    PROVE  /\ After(b, 0) = AfterNone(b)
           /\ \A n \in Nat : After(b, n + 1) = AfterOne(After(b, n))
<1> DEFINE f(n) == CHOOSE g : AreSteps(g, b, n)
<1>1. \A n \in Nat : AreSteps(f(n), b, n)
  BY StepsExist
<1>2. \A n \in Nat : After(b, n) = f(n)[n]
  BY DEF After, AreSteps, AfterNone, AfterOne
<1> HIDE DEF f
<1>3. f(0)[0] = AfterNone(b)
  <2>1. AreSteps(f(0), b, 0)
    BY <1>1
  <2> QED
    BY <2>1 DEF AreSteps
<1>4. ASSUME NEW n \in Nat PROVE f(n + 1)[n + 1] = AfterOne(f(n)[n])
  <2>1. AreSteps(f(n), b, n) /\ AreSteps(f(n + 1), b, n + 1)
    BY <1>1
  <2>2. f(n + 1)[n] = f(n)[n]
    BY <2>1, StepsAgree
  <2>3. n + 1 \in 0..(n + 1) /\ n + 1 # 0 /\ (n + 1) - 1 = n
    OBVIOUS
  <2>4. f(n + 1)[n + 1] = AfterOne(f(n + 1)[n])
    BY <2>1, <2>3 DEF AreSteps
  <2> QED
    BY <2>2, <2>4
<1> QED
  BY <1>2, <1>3, <1>4

-----------------------------------------------------------------------------
\* What has been read stays read, whatever follows.
LEMMA ReadPacketMore ==
    ASSUME NEW b \in Seq(Bytes), ReadPacket(b).err = "none"
    PROVE  /\ ReadPacket(b).rest \in Seq(Bytes)
           /\ ReadPacket(b).val \in [id : Bytes, data : Seq(Bytes)]
           /\ Len(ReadPacket(b).val.data) + Len(ReadPacket(b).rest) < Len(b)
           /\ \A y \in Seq(Bytes) :
                 ReadPacket(b \o y) = Gives(ReadPacket(b).val, ReadPacket(b).rest \o y)
<1>1. PICK p, body, x :
         /\ IsPacket(p, body) /\ x \in Seq(Bytes) /\ b = p \o (body \o x)
         /\ ReadPacket(b) = Gives(Packet(Head(body), Tail(body)), x)
  BY PacketSplits
<1>2. /\ Len(body) \in Nat /\ Head(body) \in Bytes /\ Tail(body) \in Seq(Bytes)
      /\ Len(Tail(body)) = Len(body) - 1
  BY <1>1, PacketLength
<1>3. ReadPacket(b).rest = x /\ ReadPacket(b).val = Packet(Head(body), Tail(body))
  BY <1>1 DEF Gives
<1>4. Packet(Head(body), Tail(body)) \in [id : Bytes, data : Seq(Bytes)]
      /\ Packet(Head(body), Tail(body)).data = Tail(body)
  BY <1>2 DEF Packet
<1>5. p \in Seq(Bytes) /\ body \in Seq(Bytes) /\ IsVarInt(p) /\ Len(body) >= 1
      /\ Signed(GroupsValue(p)) = Len(body) /\ Len(p) \in Nat /\ Len(x) \in Nat
  BY <1>1, LenProperties DEF IsPacket, IsVarInt
<1>6. Len(b) = Len(p) + Len(body) + Len(x)
  <2>1. body \o x \in Seq(Bytes) /\ Len(body \o x) = Len(body) + Len(x)
    BY <1>1, <1>5, Cut
  <2> DEFINE c == body \o x
  <2> HIDE DEF c
  <2>2. c \in Seq(Bytes) /\ Len(c) = Len(body) + Len(x) /\ b = p \o c
    BY <1>1, <2>1 DEF c
  <2>3. Len(p \o c) = Len(p) + Len(c)
    BY <1>5, <2>2, Cut
  <2> QED
    BY <1>2, <1>5, <2>2, <2>3
<1>7. Len(p) >= 1
  BY <1>5 DEF IsVarInt, EndsAt
<1>8. ASSUME NEW y \in Seq(Bytes)
      PROVE  ReadPacket(b \o y) = Gives(Packet(Head(body), Tail(body)), x \o y)
  <2> DEFINE c == body \o x
  <2>1. c \in Seq(Bytes) /\ x \o y \in Seq(Bytes)
    BY <1>1, <1>5, Cut
  <2>2. c \o y = body \o (x \o y)
    <3>1. body \in Seq(Bytes) /\ x \in Seq(Bytes)
      BY <1>1, <1>5
    <3>2. AreAssociative(body, x, y)
      BY <3>1, Associates, Zenon
    <3> QED
      BY <3>2 DEF AreAssociative
  <2>3. b = p \o c
    BY <1>1
  <2> HIDE DEF c
  <2>4. (p \o c) \o y = p \o (c \o y)
    <3>1. p \in Seq(Bytes)
      BY <1>5 DEF IsVarInt
    <3>2. AreAssociative(p, c, y)
      BY <2>1, <3>1, Associates, Zenon
    <3> QED
      BY <3>2 DEF AreAssociative
  <2>5. b \o y = p \o (body \o (x \o y))
    BY <2>2, <2>3, <2>4
  <2>6. ASSUME NEW z \in Seq(Bytes)
        PROVE  ReadPacket(p \o (body \o z)) = Gives(Packet(Head(body), Tail(body)), z)
    BY <1>5, ReadPacketReads
  <2> QED
    BY <2>1, <2>5, <2>6
<1>9. Len(Tail(body)) + Len(x) < Len(b)
  BY <1>2, <1>5, <1>6, <1>7
<1>10. \A y \in Seq(Bytes) : ReadPacket(b \o y) = Gives(ReadPacket(b).val, ReadPacket(b).rest \o y)
  BY <1>3, <1>8
<1>11. x \in Seq(Bytes)
  BY <1>1
<1> QED
  BY <1>3, <1>4, <1>9, <1>10, <1>11

\* The first n packets of b are there.
Whole(b, n) == \A k \in 0..(n - 1) : ReadPacket(After(b, k).rest).err = "none"

\* What is left after packets is a byte sequence.
LEMMA AfterTyped ==
    ASSUME NEW b \in Seq(Bytes), NEW n \in Nat, Whole(b, n)
    PROVE  \A k \in 0..n : /\ After(b, k).rest \in Seq(Bytes)
                           /\ After(b, k).packets \in Seq([id : Bytes, data : Seq(Bytes)])
                           /\ Len(After(b, k).packets) = k
<1> DEFINE Good(k) == /\ After(b, k).rest \in Seq(Bytes)
                      /\ After(b, k).packets \in Seq([id : Bytes, data : Seq(Bytes)])
                      /\ Len(After(b, k).packets) = k
           G == {k \in Nat : k <= n => Good(k)}
<1>1. Good(0)
  <2>1. After(b, 0) = [packets |-> <<>>, rest |-> b]
    BY AfterDef DEF AfterNone
  <2>2. After(b, 0).packets = <<>> /\ After(b, 0).rest = b
    BY <2>1
  <2>3. <<>> \in Seq([id : Bytes, data : Seq(Bytes)]) /\ Len(<<>>) = 0
    BY EmptySeq
  <2> QED
    BY <2>2, <2>3
<1>2. ASSUME NEW k \in Nat, Good(k), k + 1 <= n PROVE Good(k + 1)
  <2>1. Good(k) /\ k \in 0..(n - 1)
    BY <1>2
  <2> DEFINE a == After(b, k)
             r == ReadPacket(a.rest)
  <2>2. r.err = "none"
    BY <2>1 DEF Whole
  <2>3. After(b, k + 1) = [packets |-> Append(a.packets, r.val), rest |-> r.rest]
    BY AfterDef DEF AfterOne
  <2>4. r.rest \in Seq(Bytes) /\ r.val \in [id : Bytes, data : Seq(Bytes)]
    BY <2>1, <2>2, ReadPacketMore
  <2>5. a.packets \in Seq([id : Bytes, data : Seq(Bytes)]) /\ Len(a.packets) = k
    BY <2>1
  <2> HIDE DEF a, r
  <2>6. /\ Append(a.packets, r.val) \in Seq([id : Bytes, data : Seq(Bytes)])
        /\ Len(Append(a.packets, r.val)) = k + 1
    BY <2>4, <2>5, AppendProperties
  <2>7. After(b, k + 1).rest = r.rest /\ After(b, k + 1).packets = Append(a.packets, r.val)
    BY <2>3
  <2> QED
    BY <2>4, <2>6, <2>7
<1> HIDE DEF Good
<1>3. 0 \in G /\ \A k \in Nat : k \in G => k + 1 \in G
  BY <1>1, <1>2
<1>4. Nat \subseteq G
  <2> HIDE DEF G
  <2> QED
    BY <1>3, Induction
<1>5. \A k \in 0..n : Good(k)
  BY <1>4
<1> QED
  BY <1>5 DEF Good

\* Packets that were read stay read when more bytes come.
LEMMA AfterMore ==
    ASSUME NEW b \in Seq(Bytes), NEW n \in Nat, Whole(b, n), NEW y \in Seq(Bytes)
    PROVE  /\ Whole(b \o y, n)
           /\ \A k \in 0..n : After(b \o y, k) = [packets |-> After(b, k).packets,
                                                  rest |-> After(b, k).rest \o y]
<1> DEFINE c == b \o y
           Good(k) == After(c, k) = [packets |-> After(b, k).packets, rest |-> After(b, k).rest \o y]
           G == {k \in Nat : k <= n => Good(k)}
<1> HIDE DEF c
<1>1. Good(0)
  <2>1. After(b, 0) = AfterNone(b) /\ After(c, 0) = AfterNone(c)
    BY AfterDef
  <2> QED
    BY <2>1 DEF AfterNone, c
<1>2. ASSUME NEW k \in Nat, Good(k), k + 1 <= n
      PROVE  ReadPacket(After(c, k).rest).err = "none" /\ Good(k + 1)
  <2>1. Good(k) /\ k \in 0..(n - 1) /\ k \in 0..n
    BY <1>2
  <2> DEFINE a == After(b, k)
             r == ReadPacket(a.rest)
  <2>2. r.err = "none" /\ a.rest \in Seq(Bytes)
    BY <2>1, AfterTyped DEF Whole
  <2>3. After(b, k + 1) = [packets |-> Append(a.packets, r.val), rest |-> r.rest]
    BY AfterDef DEF AfterOne
  <2>4. ReadPacket(a.rest \o y) = Gives(r.val, r.rest \o y)
    BY <2>2, ReadPacketMore
  <2>5. After(c, k).rest = a.rest \o y /\ After(c, k).packets = a.packets
    BY <2>1
  <2>6. After(c, k + 1) = [packets |-> Append(After(c, k).packets, ReadPacket(After(c, k).rest).val),
                           rest |-> ReadPacket(After(c, k).rest).rest]
    BY AfterDef DEF AfterOne
  <2> HIDE DEF a, r
  <2>7. ReadPacket(After(c, k).rest) = Gives(r.val, r.rest \o y)
    BY <2>4, <2>5
  <2>8. /\ ReadPacket(After(c, k).rest).err = "none" /\ ReadPacket(After(c, k).rest).val = r.val
        /\ ReadPacket(After(c, k).rest).rest = r.rest \o y
    BY <2>7 DEF Gives
  <2>9. After(c, k + 1) = [packets |-> Append(a.packets, r.val), rest |-> r.rest \o y]
    BY <2>5, <2>6, <2>8
  <2>10. After(b, k + 1).packets = Append(a.packets, r.val) /\ After(b, k + 1).rest = r.rest
    BY <2>3
  <2> QED
    BY <2>8, <2>9, <2>10
<1> HIDE DEF Good
<1>3. 0 \in G /\ \A k \in Nat : k \in G => k + 1 \in G
  BY <1>1, <1>2
<1>4. Nat \subseteq G
  <2> HIDE DEF G
  <2> QED
    BY <1>3, Induction
<1>5. \A k \in 0..n : Good(k)
  BY <1>4
<1>6. Whole(c, n)
  BY <1>2, <1>5 DEF Whole
<1> QED
  BY <1>5, <1>6 DEF c, Good

-----------------------------------------------------------------------------
(* What was written is read as it was.                                      *)

\* What the encoder writes is bytes.
LEMMA EncodeTyped ==
    ASSUME NEW n \in Words
    PROVE  /\ EncodeVarInt[n] \in Seq(Bytes) /\ Len(EncodeVarInt[n]) \in 1..MaxGroups
           /\ IsVarInt(EncodeVarInt[n]) /\ GroupsValue(EncodeVarInt[n]) = n
<1> DEFINE e == EncodeVarInt[n]
<1>1. IsVarInt(e) /\ GroupsValue(e) = n
  BY VarIntRoundTrip
<1> HIDE DEF e
<1>2. e \in Seq(Bytes) /\ Len(e) \in Nat /\ Len(e) >= 1 /\ Len(e) <= MaxGroups
  BY <1>1, LenProperties DEF IsVarInt, EndsAt
<1>3. Len(e) \in 1..MaxGroups
  BY <1>2, Sizes
<1> QED
  BY <1>1, <1>2, <1>3 DEF e

\* A packet the program can write.
IsWritable(pk) ==
    pk.id \in Bytes /\ pk.data \in Seq(Bytes) /\ Len(pk.data) + 1 < Word \div 2

\* mc/packet.go: a packet that was written is read, whatever follows it.
THEOREM PacketRoundTrip ==
    ASSUME NEW pk, IsWritable(pk)
    PROVE  /\ Marshal(pk) \in Seq(Bytes)
           /\ \A x \in Seq(Bytes) : ReadPacket(Marshal(pk) \o x) = Gives(Packet(pk.id, pk.data), x)
<1> DEFINE body == <<pk.id>> \o pk.data
           p == EncodeVarInt[Len(pk.data) + 1]
<1>1. pk.data \in Seq(Bytes) /\ pk.id \in Bytes /\ Len(pk.data) \in Nat
      /\ <<pk.id>> \in Seq(Bytes) /\ Len(<<pk.id>>) = 1
  BY LenProperties DEF IsWritable
<1>2. body \in Seq(Bytes) /\ Len(body) = Len(pk.data) + 1
  BY <1>1, Cut
<1>3. Head(body) = pk.id /\ Tail(body) = pk.data
  <2>1. body # <<>>
    BY <1>1, <1>2
  <2>2. Head(body) = pk.id
    BY <1>1, <1>2
  <2>3. Tail(body) = SubSeq(body, 2, Len(body))
    BY <1>2, <2>1, TailIsSubSeq
  <2>4. SubSeq(body, Len(<<pk.id>>) + 1, Len(body)) = pk.data
    BY <1>1, Cut
  <2>5. Len(<<pk.id>>) + 1 = 2
    OBVIOUS
  <2> QED
    BY <2>2, <2>3, <2>4, <2>5
<1>4. Len(pk.data) + 1 \in Words /\ Len(pk.data) + 1 < Word \div 2
  <2>1. Word \div 2 \in Nat /\ Word \div 2 <= Word /\ Words = 0..(Word - 1) /\ Word \in Nat
    BY Sizes
  <2> QED
    BY <1>1, <2>1 DEF IsWritable
<1>5. p \in Seq(Bytes) /\ IsVarInt(p) /\ GroupsValue(p) = Len(body)
  BY <1>2, <1>4, EncodeTyped
<1>6. Marshal(pk) = p \o body
  <2>1. (p \o <<pk.id>>) \o pk.data = p \o (<<pk.id>> \o pk.data)
    BY <1>1, <1>5, Assoc
  <2> QED
    BY <2>1 DEF Marshal
<1> HIDE DEF body, p
<1>7. Signed(Len(body)) = Len(body) /\ Len(body) >= 1
  BY <1>1, <1>2, <1>4, SignedWhole
<1>8. Marshal(pk) \in Seq(Bytes)
  BY <1>2, <1>5, <1>6, Cut
<1>9. ASSUME NEW x \in Seq(Bytes)
      PROVE  ReadPacket(Marshal(pk) \o x) = Gives(Packet(pk.id, pk.data), x)
  <2>1. Marshal(pk) \o x = p \o (body \o x)
    <3>1. AreAssociative(p, body, x)
      BY <1>2, <1>5, Associates, Zenon
    <3> QED
      BY <1>6, <3>1 DEF AreAssociative
  <2>2. ReadPacket(p \o (body \o x)) = Gives(Packet(Head(body), Tail(body)), x)
    BY <1>2, <1>5, <1>7, ReadPacketReads
  <2> QED
    BY <1>3, <2>1, <2>2
<1> QED
  BY <1>8, <1>9

\* A port that was written is read as it was.
LEMMA ShortRoundTrip ==
    ASSUME NEW n \in Shorts
    PROVE  EncodeShort(n) \in Seq(Bytes) /\ Len(EncodeShort(n)) = 2 /\ ShortOf(EncodeShort(n)) = n
<1> DEFINE square == Base * Base
           half == Base * More
           m == n % square
           w == EncodeShort(n)
<1>1. Base \in Nat /\ Base >= 1 /\ More \in Nat /\ More >= 1 /\ Base = 2 * More
  BY Sizes
<1>2. square \in Nat /\ half \in Nat /\ square = 2 * half /\ half >= 1
  BY <1>1
<1>3. n \in (-half)..(half - 1)
  BY DEF Shorts
<1> HIDE DEF square, half
<1>4. m \in 0..(square - 1) /\ m = IF n >= 0 THEN n ELSE n + square
  BY <1>2, <1>3
<1> HIDE DEF m
<1>5. m \div Base \in Nat /\ m % Base \in 0..(Base - 1)
  <2>1. m \in Nat
    BY <1>2, <1>4
  <2> QED
    BY <1>1, <2>1, DivNat, ModBelow, Zenon
<1>6. m \div Base < Base
  BY <1>1, <1>2, <1>4, DivBelow DEF square
<1>7. m = Base * (m \div Base) + (m % Base)
  <2>1. \A c, t : c = m \div Base /\ t = m % Base => m = Base * c + t
    <3>1. m \in Nat
      BY <1>2, <1>4
    <3> QED
      BY <1>1, <3>1, DivMod, Zenon
  <2> QED
    BY <2>1, Zenon
<1>8. Power(Base, 0) = 1 /\ Power(Base, 1) = Base
  <2>1. Power(Base, 0 + 1) = Base * Power(Base, 0) /\ Power(Base, 0) = 1
    BY <1>1, PowerDef
  <2> QED
    BY <1>1, <2>1
<1>9. w = [i \in 1..2 |-> (m \div Power(Base, 2 - i)) % Base]
  BY DEF EncodeShort, BigEndian, m, square
<1> HIDE DEF w
<1>10. w[1] = m \div Base
  <2>1. w[1] = (m \div Power(Base, 1)) % Base
    BY <1>9
  <2>2. \A c \in 0..(Base - 1) : c % Base = c
    BY <1>1
  <2>3. (m \div Base) % Base = m \div Base
    BY <1>1, <1>5, <1>6, <2>2
  <2> QED
    BY <1>8, <2>1, <2>3
<1>11. w[2] = m % Base
  <2>1. w[2] = (m \div Power(Base, 0)) % Base
    BY <1>9
  <2>2. m \div 1 = m
    BY <1>2, <1>4
  <2> QED
    BY <1>8, <2>1, <2>2
<1>12. w \in Seq(Bytes) /\ Len(w) = 2
  <2>1. w[1] \in Bytes /\ w[2] \in Bytes
    BY <1>1, <1>5, <1>6, <1>10, <1>11, Sizes
  <2>2. w = [i \in 1..2 |-> w[i]]
    BY <1>9
  <2> QED
    BY <2>1, <2>2
<1>13. w[1] * Base + w[2] = m
  <2>1. \A c \in Nat : c * Base = Base * c
    BY <1>1
  <2> QED
    BY <1>5, <1>7, <1>10, <1>11, <2>1
<1>14. ShortOf(w) = n
  <2>1. ShortOf(w) = IF m >= half THEN m - square ELSE m
    BY <1>13 DEF ShortOf, half, square
  <2> QED
    BY <1>2, <1>3, <1>4, <2>1
<1> QED
  BY <1>12, <1>14 DEF w

-----------------------------------------------------------------------------
\* A handshake the program can write: the address fits into a packet.
IsHandshake(hs) ==
    \E v \in Words, a \in Seq(Bytes), port \in Shorts, next \in Bytes :
        /\ hs = [ProtocolVersion |-> Signed(v), ServerAddress |-> a, ServerPort |-> port,
                 NextState |-> next]
        /\ Len(a) + 3 * MaxGroups + 3 < Word \div 2

\* mc/packet_login.go: a handshake that was written is read as it was.
THEOREM HandshakeRoundTrip ==
    ASSUME NEW hs, IsHandshake(hs)
    PROVE  /\ IsWritable(MarshalHandshake(hs)) /\ MarshalHandshake(hs).id = 0
           /\ UnmarshalServerBoundHandshake(MarshalHandshake(hs)) = Gives(hs, <<>>)
<1>1. PICK v \in Words, a \in Seq(Bytes), port \in Shorts, next \in Bytes :
         /\ hs = [ProtocolVersion |-> Signed(v), ServerAddress |-> a, ServerPort |-> port,
                  NextState |-> next]
         /\ Len(a) + 3 * MaxGroups + 3 < Word \div 2
  BY DEF IsHandshake
<1>2. /\ hs.ProtocolVersion = Signed(v) /\ hs.ServerAddress = a /\ hs.ServerPort = port
      /\ hs.NextState = next
  BY <1>1
<1>3. Unsigned(Signed(v)) = v
  BY SignedWhole
<1>4. Len(a) \in Words /\ next \in Words /\ next % Base = next /\ Len(a) \in Nat /\ Len(a) < Word \div 2
  <2>1. /\ Word \in Nat /\ Word \div 2 \in Nat /\ Word \div 2 <= Word /\ Words = 0..(Word - 1)
        /\ Base \in Nat /\ Bytes = 0..(Base - 1) /\ MaxGroups \in Nat /\ Base >= 1
    BY Sizes
  <2>2. Base <= Word
    <3>1. Word > More /\ Word % Base = 0 /\ More >= 2
      BY CodecAssumption
    <3>2. Word < Base => Word % Base = Word
      BY <2>1
    <3> QED
      BY <2>1, <3>1, <3>2
  <2>3. Len(a) \in Nat
    BY LenProperties
  <2>4. next % Base = next
    BY <2>1
  <2> QED
    BY <1>1, <2>1, <2>2, <2>3, <2>4
<1> DEFINE p1 == EncodeVarInt[v]
           p2 == EncodeVarInt[Len(a)]
           p3 == EncodeVarInt[next]
           w == EncodeShort(port)
           data == MarshalHandshake(hs).data
<1>5. /\ p1 \in Seq(Bytes) /\ Len(p1) \in 1..MaxGroups /\ IsVarInt(p1) /\ GroupsValue(p1) = v
      /\ p2 \in Seq(Bytes) /\ Len(p2) \in 1..MaxGroups /\ IsVarInt(p2) /\ GroupsValue(p2) = Len(a)
      /\ p3 \in Seq(Bytes) /\ Len(p3) \in 1..MaxGroups /\ IsVarInt(p3) /\ GroupsValue(p3) = next
  BY <1>4, EncodeTyped
<1>6. w \in Seq(Bytes) /\ Len(w) = 2 /\ ShortOf(w) = port
  BY ShortRoundTrip
<1>7. MarshalHandshake(hs).id = 0 /\ data = ((p1 \o (p2 \o a)) \o w) \o p3
  BY <1>2, <1>3 DEF MarshalHandshake, Packet, EncodeString
<1> HIDE DEF p1, p2, p3, w, data
<1>8. AreParts(p1, p2, a, w, p3)
  BY <1>5, <1>6 DEF AreParts
<1>9. data = Joined(p1, p2, a, w, p3, <<>>)
  <2>1. p3 \o <<>> = p3 /\ w \o p3 \in Seq(Bytes) /\ a \o (w \o p3) \in Seq(Bytes)
        /\ p2 \o a \in Seq(Bytes) /\ p1 \o (p2 \o a) \in Seq(Bytes)
    BY <1>5, <1>6, Cut, ConcatEmptySeq
  <2>2. ((p1 \o (p2 \o a)) \o w) \o p3 = (p1 \o (p2 \o a)) \o (w \o p3)
    <3> DEFINE c == p1 \o (p2 \o a)
    <3>1. c \in Seq(Bytes) /\ w \in Seq(Bytes) /\ p3 \in Seq(Bytes)
      BY <1>5, <1>6, <2>1
    <3> HIDE DEF c
    <3>2. (c \o w) \o p3 = c \o (w \o p3)
      BY <3>1, Assoc
    <3> QED
      BY <3>2 DEF c
  <2>3. (p1 \o (p2 \o a)) \o (w \o p3) = p1 \o ((p2 \o a) \o (w \o p3))
    <3> DEFINE c == p2 \o a
               d == w \o p3
    <3>1. p1 \in Seq(Bytes) /\ c \in Seq(Bytes) /\ d \in Seq(Bytes)
      BY <1>5, <1>6, <2>1
    <3> HIDE DEF c, d
    <3>2. (p1 \o c) \o d = p1 \o (c \o d)
      BY <3>1, Assoc
    <3> QED
      BY <3>2 DEF c, d
  <2>4. (p2 \o a) \o (w \o p3) = p2 \o (a \o (w \o p3))
    <3> DEFINE d == w \o p3
    <3>1. p2 \in Seq(Bytes) /\ a \in Seq(Bytes) /\ d \in Seq(Bytes)
      BY <1>5, <1>6, <2>1
    <3> HIDE DEF d
    <3>2. (p2 \o a) \o d = p2 \o (a \o d)
      BY <3>1, Assoc
    <3> QED
      BY <3>2 DEF d
  <2> QED
    BY <1>7, <2>1, <2>2, <2>3, <2>4 DEF Joined
<1>10. <<>> \in Seq(Bytes) /\ Len(<<>>) = 0
  BY EmptySeq
<1>11. IsWritable(MarshalHandshake(hs))
  <2>1. /\ data \in Seq(Bytes)
        /\ Len(data) = Len(p1) + Len(p2) + Len(a) + 2 + Len(p3) + 0
    <3>1. ASSUME NEW t \in Seq(Bytes)
          PROVE  /\ Joined(p1, p2, a, w, p3, t) \in Seq(Bytes)
                 /\ Len(Joined(p1, p2, a, w, p3, t))
                       = Len(p1) + Len(p2) + Len(a) + 2 + Len(p3) + Len(t)
      BY <1>8, PartsTyped
    <3>2. Joined(p1, p2, a, w, p3, <<>>) \in Seq(Bytes)
          /\ Len(Joined(p1, p2, a, w, p3, <<>>))
                = Len(p1) + Len(p2) + Len(a) + 2 + Len(p3) + Len(<<>>)
      BY <1>10, <3>1, Zenon
    <3> QED
      BY <1>9, <1>10, <3>2
  <2>2. Len(data) + 1 < Word \div 2
    <3>1. MaxGroups \in Nat /\ Word \div 2 \in Nat
      BY Sizes
    <3> QED
      BY <1>1, <1>4, <1>5, <2>1, <3>1
  <2>3. 0 \in Bytes
    BY Sizes
  <2> QED
    BY <1>7, <2>1, <2>2, <2>3 DEF IsWritable, data
<1>12. OldFields(data) = Gives([HandshakeOf(p1, a, w, p3) EXCEPT !.ProtocolVersion = Signed(@)], <<>>)
  <2>1. ASSUME NEW t \in Seq(Bytes)
        PROVE  OldFields(Joined(p1, p2, a, w, p3, t))
                  = Gives([HandshakeOf(p1, a, w, p3) EXCEPT !.ProtocolVersion = Signed(@)], t)
    BY <1>4, <1>8, OldFieldsReads
  <2> QED
    BY <1>9, <1>10, <2>1
<1>13. [HandshakeOf(p1, a, w, p3) EXCEPT !.ProtocolVersion = Signed(@)] = hs
  <2>1. next % Base = next
    <3>1. next \in 0..(Base - 1) /\ Base \in Nat
      BY <1>1, Sizes
    <3> QED
      BY <3>1
  <2>2. HandshakeOf(p1, a, w, p3) = [ProtocolVersion |-> v, ServerAddress |-> a, ServerPort |-> port,
                                     NextState |-> next]
    BY <1>5, <1>6, <2>1, Zenon DEF HandshakeOf
  <2>3. [HandshakeOf(p1, a, w, p3) EXCEPT !.ProtocolVersion = Signed(@)]
           = [ProtocolVersion |-> Signed(v), ServerAddress |-> a, ServerPort |-> port,
              NextState |-> next]
    BY <2>2
  <2> QED
    BY <1>1, <2>3
<1>14. UnmarshalServerBoundHandshake(MarshalHandshake(hs)) = OldFields(data)
  BY <1>7 DEF UnmarshalServerBoundHandshake, OldFields, data
<1> QED
  BY <1>7, <1>11, <1>12, <1>13, <1>14

\* A packet of one string.
LEMMA TextRoundTrip ==
    ASSUME NEW s \in Seq(Bytes), Len(s) + 3 * MaxGroups + 3 < Word \div 2
    PROVE  /\ IsWritable(MarshalText(s)) /\ MarshalText(s).id = 0
           /\ UnmarshalText(MarshalText(s)) = Gives(s, <<>>)
<1>1. /\ Word \in Nat /\ Word \div 2 \in Nat /\ Word \div 2 <= Word /\ Words = 0..(Word - 1)
      /\ MaxGroups \in Nat /\ Len(s) \in Nat /\ 0 \in Bytes
  BY Sizes, LenProperties
<1>2. Len(s) \in Words /\ Len(s) < Word \div 2
  BY <1>1
<1> DEFINE p == EncodeVarInt[Len(s)]
           data == p \o s
<1>3. p \in Seq(Bytes) /\ Len(p) \in 1..MaxGroups /\ IsVarInt(p) /\ GroupsValue(p) = Len(s)
  BY <1>2, EncodeTyped
<1>4. MarshalText(s).id = 0 /\ MarshalText(s).data = data
  BY DEF MarshalText, Packet, EncodeString
<1> HIDE DEF p
<1>5. data \in Seq(Bytes) /\ Len(data) = Len(p) + Len(s)
  BY <1>3, Cut
<1>6. <<>> \in Seq(Bytes) /\ s \o <<>> = s
  BY ConcatEmptySeq, EmptySeq
<1>7. DecodeString(p \o (s \o <<>>)) = Gives(s, <<>>)
  BY <1>2, <1>3, <1>6, DecodeStringReads
<1> HIDE DEF data
<1>8. IsWritable(MarshalText(s))
  BY <1>1, <1>3, <1>4, <1>5 DEF IsWritable
<1>9. UnmarshalText(MarshalText(s)) = DecodeString(data)
  BY <1>4 DEF UnmarshalText
<1> QED
  BY <1>4, <1>6, <1>7, <1>8, <1>9 DEF data

\* The packets of a status request and a ping.
LEMMA SmallPacketsWritable ==
    /\ IsWritable(MarshalRequest) /\ MarshalRequest = Packet(0, <<>>)
    /\ IsWritable(MarshalPing(PingTime)) /\ Packet(MarshalPing(PingTime).id, MarshalPing(PingTime).data)
                                                = MarshalPing(PingTime)
<1>1. 0 \in Bytes /\ 1 \in Bytes /\ Base \in Nat /\ Base >= 1 /\ Word \div 2 \in Nat
  BY Sizes
<1>2. PingTime \in Nat /\ 9 < Word \div 2
  BY PacketStreamAssumption
<1>3. ASSUME NEW i \in 1..8 PROVE (PingTime \div Power(Base, 8 - i)) % Base \in Bytes
  <2>1. Power(Base, 8 - i) \in Nat /\ Power(Base, 8 - i) >= 1
    <3>1. 8 - i \in Nat
      OBVIOUS
    <3> QED
      BY <1>1, <3>1, PowerDef, PowerPositive
  <2>2. PingTime \div Power(Base, 8 - i) \in Nat
    BY <1>2, <2>1, DivNat
  <2> QED
    BY <1>1, <2>2, ModBelow, Sizes
<1>4. BigEndian(PingTime, 8) \in Seq(Bytes) /\ Len(BigEndian(PingTime, 8)) = 8
  BY <1>3 DEF BigEndian
<1>5. IsWritable(MarshalPing(PingTime))
  <2>1. MarshalPing(PingTime).id = 1 /\ MarshalPing(PingTime).data = BigEndian(PingTime, 8)
    BY DEF MarshalPing, Packet
  <2>2. Len(MarshalPing(PingTime).data) + 1 < Word \div 2
    <3>1. Len(MarshalPing(PingTime).data) = 8
      BY <1>4, <2>1, Zenon
    <3> QED
      BY <1>1, <1>2, <3>1
  <2> QED
    BY <1>1, <1>4, <2>1, <2>2, Zenon DEF IsWritable
<1>6. IsWritable(MarshalRequest)
  BY <1>1, <1>2 DEF IsWritable, MarshalRequest, Packet
<1> QED
  BY <1>5, <1>6 DEF MarshalRequest, MarshalPing, Packet

-----------------------------------------------------------------------------
(* What a game client sends.                                                *)

\* What a game client sends, packet by packet; the third when it has the status.
Expected(i) ==
    <<MarshalHandshake(Handshake(i)), SecondPacket(RequestState(i.NextState), i.name),
      MarshalPing(PingTime)>>

Full(i, a) == IF a = "status" THEN HonestBytes(i) \o Marshal(MarshalPing(PingTime)) ELSE HonestBytes(i)
Count(a) == IF a = "status" THEN 3 ELSE 2

\* A game client's handshake can be written.
LEMMA HandshakeFits ==
    ASSUME NEW i \in Intents
    PROVE  IsHandshake(Handshake(i)) /\ i.host \in Seq(Bytes) /\ i.host \o i.extra \in Seq(Bytes)
           /\ i.name \in Seq(Bytes) /\ Len(i.name) + 3 * MaxGroups + 3 < Word \div 2
<1>1. /\ i.version \in Words /\ i.port \in Shorts /\ i.NextState \in Bytes
      /\ i.host \in Seq(Bytes) /\ Fits(i.host \o i.extra) /\ Fits(i.name)
  BY PacketStreamAssumption
<1>2. IsHandshake(Handshake(i))
  <2> DEFINE a == i.host \o i.extra
  <2>1. a \in Seq(Bytes) /\ Len(a) + 3 * MaxGroups + 3 < Word \div 2
    BY <1>1 DEF Fits
  <2> HIDE DEF a
  <2>2. Handshake(i) = [ProtocolVersion |-> Signed(i.version), ServerAddress |-> a,
                        ServerPort |-> i.port, NextState |-> i.NextState]
    BY DEF Handshake, a
  <2> QED
    BY <1>1, <2>1, <2>2, Zenon DEF IsHandshake
<1> QED
  BY <1>1, <1>2 DEF Fits

\* ... and so can its other packets.
LEMMA ExpectedWritable ==
    ASSUME NEW i \in Intents
    PROVE  \A k \in 1..3 : /\ IsWritable(Expected(i)[k])
                           /\ Packet(Expected(i)[k].id, Expected(i)[k].data) = Expected(i)[k]
<1>1. IsWritable(MarshalHandshake(Handshake(i)))
  BY HandshakeFits, HandshakeRoundTrip
<1>2. IsWritable(MarshalText(i.name)) /\ IsWritable(MarshalRequest) /\ IsWritable(MarshalPing(PingTime))
  BY HandshakeFits, TextRoundTrip, SmallPacketsWritable
<1>3. /\ Packet(MarshalHandshake(Handshake(i)).id, MarshalHandshake(Handshake(i)).data)
            = MarshalHandshake(Handshake(i))
      /\ Packet(MarshalText(i.name).id, MarshalText(i.name).data) = MarshalText(i.name)
      /\ Packet(MarshalRequest.id, MarshalRequest.data) = MarshalRequest
      /\ Packet(MarshalPing(PingTime).id, MarshalPing(PingTime).data) = MarshalPing(PingTime)
  BY DEF MarshalHandshake, MarshalText, MarshalRequest, MarshalPing, Packet
<1>4. Expected(i)[1] = MarshalHandshake(Handshake(i)) /\ Expected(i)[3] = MarshalPing(PingTime)
      /\ Expected(i)[2] \in {MarshalText(i.name), MarshalRequest}
  BY DEF Expected, SecondPacket
<1> QED
  BY <1>1, <1>2, <1>3, <1>4

\* Everything a game client sends, read.
LEMMA FullReads ==
    ASSUME NEW i \in Intents, NEW a
    PROVE  /\ Full(i, a) \in Seq(Bytes) /\ HonestBytes(i) \in Seq(Bytes)
           /\ Marshal(MarshalPing(PingTime)) \in Seq(Bytes)
           /\ Whole(Full(i, a), Count(a))
           /\ \A k \in 0..(Count(a) - 1) : ReadPacket(After(Full(i, a), k).rest).val = Expected(i)[k + 1]
           /\ After(Full(i, a), Count(a)).rest = <<>>
<1> DEFINE m(k) == Marshal(Expected(i)[k])
<1>1. \A k \in 1..3 : /\ m(k) \in Seq(Bytes)
                      /\ \A x \in Seq(Bytes) : ReadPacket(m(k) \o x) = Gives(Expected(i)[k], x)
  BY ExpectedWritable, PacketRoundTrip
<1>2. HonestBytes(i) = m(1) \o m(2) /\ Marshal(MarshalPing(PingTime)) = m(3)
  BY DEF HonestBytes, Expected
<1> HIDE DEF m
<1>3. m(1) \in Seq(Bytes) /\ m(2) \in Seq(Bytes) /\ m(3) \in Seq(Bytes) /\ <<>> \in Seq(Bytes)
  BY <1>1, EmptySeq
<1>8. /\ \A x \in Seq(Bytes) : ReadPacket(m(1) \o x) = Gives(Expected(i)[1], x)
      /\ \A x \in Seq(Bytes) : ReadPacket(m(2) \o x) = Gives(Expected(i)[2], x)
      /\ \A x \in Seq(Bytes) : ReadPacket(m(3) \o x) = Gives(Expected(i)[3], x)
  <2>1. 1 \in 1..3 /\ 2 \in 1..3 /\ 3 \in 1..3
    OBVIOUS
  <2> QED
    BY <1>1, <2>1, Zenon
<1>4. m(1) \o m(2) \in Seq(Bytes) /\ m(2) \o m(3) \in Seq(Bytes) /\ (m(1) \o m(2)) \o m(3) \in Seq(Bytes)
  BY <1>3, Cut
<1>5. ASSUME NEW b \in Seq(Bytes), NEW r \in Seq(Bytes), b = m(1) \o (m(2) \o r)
      PROVE  /\ ReadPacket(After(b, 0).rest).err = "none" /\ ReadPacket(After(b, 0).rest).val = Expected(i)[1]
             /\ ReadPacket(After(b, 1).rest).err = "none" /\ ReadPacket(After(b, 1).rest).val = Expected(i)[2]
             /\ After(b, 2).rest = r
  <2>1. m(2) \o r \in Seq(Bytes)
    BY <1>3, Cut
  <2>2. After(b, 0).rest = b
    BY AfterDef DEF AfterNone
  <2>3. ReadPacket(After(b, 0).rest) = Gives(Expected(i)[1], m(2) \o r)
    BY <1>8, <1>5, <2>1, <2>2
  <2>4. /\ ReadPacket(After(b, 0).rest).err = "none" /\ ReadPacket(After(b, 0).rest).val = Expected(i)[1]
        /\ After(b, 1) = [packets |-> Append(After(b, 0).packets, Expected(i)[1]), rest |-> m(2) \o r]
    <3>1. 0 + 1 = 1 /\ 0 \in Nat
      OBVIOUS
    <3>3. /\ ReadPacket(After(b, 0).rest).err = "none" /\ ReadPacket(After(b, 0).rest).val = Expected(i)[1]
          /\ After(b, 1) = [packets |-> Append(After(b, 0).packets, Expected(i)[1]), rest |-> m(2) \o r]
      <4>1. After(b, 1) = AfterOne(After(b, 0))
        BY <3>1, AfterDef
      <4> QED
        BY <2>3, <4>1 DEF AfterOne, Gives
    <3> QED
      BY <3>1, <3>3
  <2>5. After(b, 1).rest = m(2) \o r
    BY <2>4
  <2>6. ReadPacket(After(b, 1).rest) = Gives(Expected(i)[2], r)
    BY <1>8, <2>5
  <2>7. /\ ReadPacket(After(b, 1).rest).err = "none" /\ ReadPacket(After(b, 1).rest).val = Expected(i)[2]
        /\ After(b, 2) = [packets |-> Append(After(b, 1).packets, Expected(i)[2]), rest |-> r]
    <3>1. 1 + 1 = 2 /\ 1 \in Nat
      OBVIOUS
    <3>3. /\ ReadPacket(After(b, 1).rest).err = "none" /\ ReadPacket(After(b, 1).rest).val = Expected(i)[2]
          /\ After(b, 2) = [packets |-> Append(After(b, 1).packets, Expected(i)[2]), rest |-> r]
      <4>1. After(b, 2) = AfterOne(After(b, 1))
        BY <3>1, AfterDef
      <4> QED
        BY <2>6, <4>1 DEF AfterOne, Gives
    <3> QED
      BY <3>1, <3>3
  <2> QED
    BY <2>4, <2>7
<1>6. CASE a # "status"
  <2> DEFINE b == Full(i, a)
  <2>1. b = m(1) \o m(2) /\ b \in Seq(Bytes) /\ Count(a) = 2
    BY <1>2, <1>4, <1>6 DEF Full, Count
  <2> HIDE DEF b
  <2>2. m(2) \o <<>> = m(2)
    BY <1>3, ConcatEmptySeq
  <2>3. b = m(1) \o (m(2) \o <<>>)
    BY <2>1, <2>2
  <2>4. /\ ReadPacket(After(b, 0).rest).err = "none" /\ ReadPacket(After(b, 0).rest).val = Expected(i)[1]
        /\ ReadPacket(After(b, 1).rest).err = "none" /\ ReadPacket(After(b, 1).rest).val = Expected(i)[2]
        /\ After(b, 2).rest = <<>>
    BY <1>3, <1>5, <2>1, <2>3, Zenon
  <2>5. Whole(b, 2) /\ \A k \in 0..1 : ReadPacket(After(b, k).rest).val = Expected(i)[k + 1]
    BY <2>4 DEF Whole
  <2> QED
    BY <1>2, <1>3, <1>4, <2>1, <2>4, <2>5 DEF b
<1>7. CASE a = "status"
  <2> DEFINE b == Full(i, a)
  <2>1. b = (m(1) \o m(2)) \o m(3) /\ b \in Seq(Bytes) /\ Count(a) = 3
    BY <1>2, <1>4, <1>7 DEF Full, Count
  <2> HIDE DEF b
  <2>2. b = m(1) \o (m(2) \o m(3))
    BY <1>3, <2>1, Assoc
  <2>3. /\ ReadPacket(After(b, 0).rest).err = "none" /\ ReadPacket(After(b, 0).rest).val = Expected(i)[1]
        /\ ReadPacket(After(b, 1).rest).err = "none" /\ ReadPacket(After(b, 1).rest).val = Expected(i)[2]
        /\ After(b, 2).rest = m(3)
    BY <1>3, <1>5, <2>1, <2>2, Zenon
  <2>4. ReadPacket(m(3)) = Gives(Expected(i)[3], <<>>)
    <3>1. m(3) \o <<>> = m(3)
      BY <1>3, ConcatEmptySeq
    <3>2. ReadPacket(m(3) \o <<>>) = Gives(Expected(i)[3], <<>>)
      BY <1>8, <1>3
    <3> QED
      BY <3>1, <3>2
  <2>5. /\ ReadPacket(After(b, 2).rest).err = "none" /\ ReadPacket(After(b, 2).rest).val = Expected(i)[3]
        /\ After(b, 3) = [packets |-> Append(After(b, 2).packets, Expected(i)[3]), rest |-> <<>>]
    <3>1. 2 + 1 = 3 /\ 2 \in Nat
      OBVIOUS
    <3>2. ReadPacket(After(b, 2).rest) = Gives(Expected(i)[3], <<>>)
      BY <2>3, <2>4
    <3>3. /\ ReadPacket(After(b, 2).rest).err = "none" /\ ReadPacket(After(b, 2).rest).val = Expected(i)[3]
          /\ After(b, 3) = [packets |-> Append(After(b, 2).packets, Expected(i)[3]), rest |-> <<>>]
      <4>1. After(b, 3) = AfterOne(After(b, 2))
        BY <3>1, AfterDef
      <4> QED
        BY <3>2, <4>1 DEF AfterOne, Gives
    <3> QED
      BY <3>1, <3>3
  <2>6. Whole(b, 3) /\ (\A k \in 0..2 : ReadPacket(After(b, k).rest).val = Expected(i)[k + 1])
        /\ After(b, 3).rest = <<>>
    BY <2>3, <2>5 DEF Whole
  <2> QED
    BY <1>2, <1>3, <1>4, <2>1, <2>6 DEF b
<1> QED
  BY <1>6, <1>7

-----------------------------------------------------------------------------
(* The bytes as the reader takes them.                                      *)

\* A body that is all there.
LEMMA BodyRead ==
    ASSUME NEW a, NEW b \in Seq(Bytes), NEW x \in Seq(Bytes), Len(b) >= 1,
           ReadVarInt(a) = Gives(Len(b), b \o x)
    PROVE  ReadPacket(a) = Gives(Packet(Head(b), Tail(b)), x)
<1>1. ReadVarInt(a).err = "none" /\ ReadVarInt(a).val = Len(b) /\ ReadVarInt(a).rest = b \o x
  BY DEF Gives
<1>2. ReadNBytes(b \o x, Len(b)) = Gives(b, x)
  BY ReadNBytesReads
<1>3. ReadBody(ReadVarInt(a)) = Gives(Packet(Head(b), Tail(b)), x)
  BY <1>1, <1>2 DEF ReadBody, Then, Gives
<1> QED
  BY <1>1, <1>3 DEF ReadPacket, Then

\* A packet is there only if its length is.
LEMMA PacketHasLength ==
    ASSUME NEW a \in Seq(Bytes), ReadPacket(a).err = "none"
    PROVE  /\ ReadVarInt(a).err = "none" /\ ReadVarInt(a).val >= 1
           /\ ReadNBytes(ReadVarInt(a).rest, ReadVarInt(a).val).err = "none"
<1>1. ReadVarInt(a).err = "none"
  BY DEF ReadPacket, Then
<1>2. ReadPacket(a) = ReadBody(ReadVarInt(a))
  BY <1>1 DEF ReadPacket, Then
<1>3. ReadVarInt(a).val \in Int
  BY <1>1, ReadVarIntSplits, SignedWhole, GroupsValueTyped DEF Gives, IsVarInt
<1>4. ReadVarInt(a).val >= 1
  BY <1>2, <1>3 DEF ReadBody, Fails
<1>5. ReadNBytes(ReadVarInt(a).rest, ReadVarInt(a).val).err = "none"
  BY <1>2, <1>3, <1>4 DEF ReadBody, Then
<1> QED
  BY <1>1, <1>4, <1>5

\* As many bytes with the flag as a length may have are too many.
LEMMA TooLong ==
    ASSUME NEW b \in Seq(Bytes), ReadVarInt(b).err = "size", NEW z \in Seq(Bytes)
    PROVE  ReadVarInt(b \o z).err # "none"
<1> DEFINE c == b \o z
<1>1. c \in Seq(Bytes) /\ Len(c) = Len(b) + Len(z) /\ Len(b) \in Nat /\ Len(z) \in Nat
      /\ \A k \in 1..Len(b) : c[k] = b[k]
  BY ConcatProperties, LenProperties
<1>2. DecodeVarInt(b).err = "size"
  BY ReadVarIntDef
<1>3. MaxGroups \in Nat /\ "size" # "none" /\ "size" # "EOF"
  BY Sizes
<1>4. \A k : EndsAt(b, k) => ~(k <= MaxGroups)
  BY <1>2, <1>3, DecodeEnds DEF Gives
<1>5. Len(b) > MaxGroups
  BY <1>1, <1>2, <1>3, <1>4, DecodeFails DEF Fails
<1> HIDE DEF c
<1>6. ASSUME NEW k, EndsAt(c, k), k <= MaxGroups PROVE FALSE
  <2>1. k \in 1..Len(b)
    BY <1>1, <1>3, <1>5, <1>6 DEF EndsAt
  <2>2. EndsAt(b, k)
    <3>1. c[k] = b[k] /\ \A j \in 1..(k - 1) : c[j] = b[j]
      BY <1>1, <2>1
    <3> QED
      BY <1>6, <2>1, <3>1 DEF EndsAt
  <2> QED
    BY <1>4, <1>6, <2>2
<1>7. DecodeVarInt(c).err # "none"
  BY <1>1, <1>6, DecodeFails DEF Fails
<1> QED
  BY <1>1, <1>7, ReadVarIntDef DEF c

\* The bytes of a length as the reader takes them, one by one until it ends.
LEMMA LengthEnds ==
    ASSUME NEW b \in Seq(Bytes), ReadVarInt(b).err = "none",
           b = <<>> \/ ReadVarInt(SubSeq(b, 1, Len(b) - 1)).err = "EOF",
           NEW z \in Seq(Bytes)
    PROVE  /\ ReadVarInt(b \o z) = Gives(ReadVarInt(b).val, z)
           /\ ReadVarInt(b).val \in Int /\ ReadVarInt(b).val < Word \div 2
<1>1. PICK p, x : /\ IsVarInt(p) /\ x \in Seq(Bytes) /\ b = p \o x
                  /\ ReadVarInt(b) = Gives(Signed(GroupsValue(p)), x)
  BY ReadVarIntSplits
<1>2. p \in Seq(Bytes) /\ Len(p) \in Nat /\ Len(p) >= 1 /\ Len(x) \in Nat /\ Len(b) \in Nat
      /\ Len(b) = Len(p) + Len(x) /\ Len(<<>>) = 0
  BY <1>1, Cut, LenProperties, EmptySeq DEF IsVarInt, EndsAt
<1>3. x = <<>>
  <2>1. SUFFICES ASSUME x # <<>> PROVE FALSE
    OBVIOUS
  <2>2. Len(x) >= 1
    BY <1>1, <1>2, <2>1, EmptySeq
  <2> DEFINE y == SubSeq(x, 1, Len(x) - 1)
             q == SubSeq(b, 1, Len(b) - 1)
  <2>3. Len(x) - 1 \in 0..Len(x) /\ y \in Seq(Bytes) /\ Len(y) = Len(x) - 1
        /\ \A k \in 1..(Len(x) - 1) : y[k] = x[k]
    <3>1. Len(x) - 1 \in 0..Len(x)
      BY <1>2, <2>2
    <3> QED
      BY <1>1, <3>1, Split
  <2>4. Len(b) - 1 \in 0..Len(b) /\ q \in Seq(Bytes) /\ Len(q) = Len(b) - 1
        /\ \A k \in 1..(Len(b) - 1) : q[k] = b[k]
    BY <1>2, <2>2, Split
  <2>5. p \o y \in Seq(Bytes) /\ Len(p \o y) = Len(p) + Len(y)
        /\ (\A k \in 1..Len(p) : (p \o y)[k] = p[k])
        /\ (\A k \in (Len(p) + 1)..(Len(p) + Len(y)) : (p \o y)[k] = y[k - Len(p)])
    BY <1>2, <2>3, ConcatProperties
  <2>6. (\A k \in 1..Len(p) : b[k] = p[k])
        /\ (\A k \in (Len(p) + 1)..(Len(p) + Len(x)) : b[k] = x[k - Len(p)])
    BY <1>1, <1>2, ConcatProperties
  <2> DEFINE w == p \o y
  <2>7. w \in Seq(Bytes) /\ Len(w) = Len(q)
    BY <1>2, <2>3, <2>4, <2>5
  <2>8. ASSUME NEW k \in 1..Len(q) PROVE w[k] = q[k]
    <3>1. CASE k <= Len(p)
      BY <1>2, <2>2, <2>4, <2>5, <2>6, <3>1
    <3>2. CASE k > Len(p)
      <4>1. k \in (Len(p) + 1)..(Len(p) + Len(y)) /\ k \in (Len(p) + 1)..(Len(p) + Len(x))
            /\ k - Len(p) \in 1..(Len(x) - 1) /\ k \in 1..(Len(b) - 1)
        BY <1>2, <2>3, <2>4, <3>2
      <4>2. w[k] = y[k - Len(p)] /\ b[k] = x[k - Len(p)]
        BY <2>5, <2>6, <4>1
      <4> QED
        BY <2>3, <2>4, <4>1, <4>2
    <3> QED
      BY <1>2, <2>4, <3>1, <3>2
  <2> HIDE DEF w, q, y
  <2>9. w = q
    BY <2>4, <2>7, <2>8, SeqEqual
  <2>10. ReadVarInt(w).err = "none"
    BY <1>1, <2>3, ReadVarIntReads DEF Gives, w
  <2>11. b # <<>>
    BY <1>2, <2>2
  <2> QED
    BY <2>9, <2>10, <2>11 DEF q
<1>4. b = p
  BY <1>1, <1>2, <1>3, ConcatEmptySeq
<1>5. ReadVarInt(b).val = Signed(GroupsValue(p))
  BY <1>1 DEF Gives
<1>6. GroupsValue(p) \in Words
  BY <1>2, GroupsValueTyped
<1>7. Signed(GroupsValue(p)) \in Int /\ Signed(GroupsValue(p)) < Word \div 2
  BY <1>6, Sizes, SignedWhole DEF Signed, Words
<1> QED
  BY <1>1, <1>4, <1>5, <1>7, ReadVarIntReads

\* A length that has not ended is not too long.
LEMMA OpenLength ==
    ASSUME NEW b \in Seq(Bytes), ReadVarInt(b).err = "EOF"
    PROVE  Len(b) <= MaxGroups
<1>1. DecodeVarInt(b).err = "EOF"
  BY ReadVarIntDef
<1>2. \A k : EndsAt(b, k) => ~(k <= MaxGroups)
  BY <1>1, DecodeEnds DEF Gives
<1>3. DecodeVarInt(b) = Fails(IF Len(b) > MaxGroups THEN "size" ELSE "EOF")
  BY <1>2, DecodeFails
<1> QED
  BY <1>1, <1>3, LenProperties, Sizes DEF Fails

\* A sequence read in two pieces.
LEMMA Onwards ==
    ASSUME NEW s \in Seq(Bytes), NEW i \in 0..Len(s), NEW k \in i..Len(s)
    PROVE  /\ SubSeq(s, i + 1, k) \in Seq(Bytes) /\ From(s, k + 1) \in Seq(Bytes)
           /\ SubSeq(s, i + 1, k) \o From(s, k + 1) = From(s, i + 1)
<1>1. Len(s) \in Nat /\ i \in Nat /\ k \in Nat /\ i <= k /\ k <= Len(s)
  BY LenProperties
<1> DEFINE a == SubSeq(s, i + 1, k)
           c == SubSeq(s, k + 1, Len(s))
           d == SubSeq(s, i + 1, Len(s))
<1>2. a \in Seq(Bytes) /\ Len(a) = k - i /\ \A j \in 1..(k - i) : a[j] = s[i + j]
  BY <1>1
<1>3. c \in Seq(Bytes) /\ Len(c) = Len(s) - k /\ \A j \in 1..(Len(s) - k) : c[j] = s[k + j]
  BY <1>1
<1>4. d \in Seq(Bytes) /\ Len(d) = Len(s) - i /\ \A j \in 1..(Len(s) - i) : d[j] = s[i + j]
  BY <1>1
<1> HIDE DEF a, c, d
<1>5. a \o c \in Seq(Bytes) /\ Len(a \o c) = Len(a) + Len(c)
      /\ (\A j \in 1..Len(a) : (a \o c)[j] = a[j])
      /\ (\A j \in (Len(a) + 1)..(Len(a) + Len(c)) : (a \o c)[j] = c[j - Len(a)])
  <2>1. a \in Seq(Bytes) /\ c \in Seq(Bytes)
    BY <1>2, <1>3
  <2> QED
    BY <2>1, ConcatProperties
<1>6. ASSUME NEW j \in 1..Len(d) PROVE (a \o c)[j] = d[j]
  <2>1. CASE j <= k - i
    <3>1. j \in 1..Len(a) /\ j \in 1..(k - i) /\ j \in 1..(Len(s) - i)
      BY <1>1, <1>2, <1>4, <2>1
    <3>2. (a \o c)[j] = a[j]
      BY <1>5, <3>1
    <3>3. a[j] = s[i + j] /\ d[j] = s[i + j]
      BY <1>2, <1>4, <3>1
    <3> QED
      BY <3>2, <3>3
  <2>2. CASE j > k - i
    <3>1. j \in (Len(a) + 1)..(Len(a) + Len(c)) /\ j - Len(a) \in 1..(Len(s) - k)
          /\ k + (j - Len(a)) = i + j /\ j \in 1..(Len(s) - i)
      BY <1>1, <1>2, <1>3, <1>4, <2>2
    <3> QED
      BY <1>3, <1>4, <1>5, <3>1
  <2> QED
    <3>1. Len(d) \in Int
      BY <1>1, <1>4
    <3>2. j \in Int /\ k - i \in Int
      BY <1>1, <3>1
    <3>3. j <= k - i \/ j > k - i
      BY <3>2
    <3> QED
      BY <2>1, <2>2, <3>3, Zenon
<1>7. Len(a \o c) = Len(d)
  BY <1>1, <1>2, <1>3, <1>4, <1>5
<1>8. a \o c = d
  BY <1>4, <1>5, <1>6, <1>7, SeqEqual
<1> QED
  BY <1>2, <1>3, <1>8 DEF a, c, d, From

-----------------------------------------------------------------------------
(* The reader's invariant, and each of its steps.                           *)

\* What the reader has of the packet it is reading, or has not even read yet.
Unread == From(script, fetched + 1)
Pending == part \o (buffered \o Unread)

StreamTypes ==
    /\ fetched \in 0..Len(script)
    /\ script \in Seq(Bytes) /\ buffered \in Seq(Bytes) /\ part \in Seq(Bytes)
    /\ need \in 0..(Word \div 2 - 1)
    /\ packets \in Seq([id : Bytes, data : Seq(Bytes)])
    /\ stage \in {"length", "body", "answer", "done", "failed", "panicked"}
    /\ why \in {"none", "EOF", "slow", "size", "length", "handshake", "login"}
    /\ deadline \in BOOLEAN
    /\ answer \in {"none", "empty", "status"}

\* How many packets have been read.  The bytes of a length are taken one by one.
Phases ==
    /\ Reading => IF answer = "status" THEN Len(packets) = 2 ELSE answer = "none" /\ Len(packets) <= 1
    /\ stage = "length" =>
          part = <<>> \/ ReadVarInt(SubSeq(part, 1, Len(part) - 1)).err = "EOF"
    /\ stage = "body" => Len(part) <= need /\ need >= 1
    /\ stage = "answer" => answer = "none" /\ Len(packets) = 2 /\ part = <<>>
    /\ stage = "done" => IF answer = "status" THEN Len(packets) = 3 ELSE Len(packets) = 2
    /\ stage \in {"failed", "panicked"} => Len(packets) <= 2

\* A game client sends the beginning of what it means to, and what is left out is
\* what it would have sent last.
Sent ==
    IF intent = NoIntent THEN script \in Others
    ELSE /\ intent \in Intents
         /\ \E y \in Seq(Bytes) : script \o y = Full(intent, answer) /\ (answer = "status" => y = <<>>)

PacketsRead ==
    Len(packets) <= 2 \/ intent # NoIntent =>
        Whole(script, Len(packets)) /\ packets = After(script, Len(packets)).packets

\* Nothing is lost between the packets read and the bytes to come.
InFrame == answer # "status" \/ intent # NoIntent
RestUnread ==
    /\ InFrame /\ stage \in {"length", "answer"} => After(script, Len(packets)).rest = Pending
    /\ InFrame /\ stage = "body" => ReadVarInt(After(script, Len(packets)).rest) = Gives(need, Pending)

Understood ==
    intent # NoIntent => \A k \in 1..Len(packets) : packets[k] = Expected(intent)[k]

Reader ==
    StreamTypes /\ Phases /\ Sent /\ PacketsRead /\ RestUnread /\ Understood /\ HonestAccepted

\* Only a client that was sent its status has something more to send.
LEMMA FullOf ==
    ASSUME NEW i, NEW a, NEW c, a = "status" <=> c = "status"
    PROVE  Full(i, a) = Full(i, c) /\ Count(a) = Count(c)
BY DEF Full, Count

\* A game client sends what it has not sent yet, and then its next packet is there.
LEMMA ToCome ==
    ASSUME Reader, Reading \/ stage = "answer", intent # NoIntent
    PROVE  /\ After(script, Len(packets)).rest \in Seq(Bytes)
           /\ intent \in Intents
           /\ \E y \in Seq(Bytes) :
                 /\ script \o y = Full(intent, answer) /\ (answer = "status" => y = <<>>)
                 /\ Reading =>
                      /\ Len(packets) \in 0..2
                      /\ ReadPacket(After(script, Len(packets)).rest \o y).err = "none"
                      /\ ReadPacket(After(script, Len(packets)).rest \o y).val
                            = Expected(intent)[Len(packets) + 1]
                 /\ stage = "answer" => After(script, 2).rest \o y = <<>>
<1> DEFINE n == Len(packets)
           a == After(script, n).rest
<1>1. /\ script \in Seq(Bytes) /\ n \in Nat /\ Whole(script, n) /\ intent \in Intents
      /\ (Reading => IF answer = "status" THEN n = 2 ELSE n <= 1)
      /\ (stage = "answer" => n = 2 /\ answer = "none")
  BY LenProperties DEF Reader, StreamTypes, Phases, Sent, PacketsRead
<1>2. PICK y \in Seq(Bytes) : script \o y = Full(intent, answer) /\ (answer = "status" => y = <<>>)
  BY DEF Reader, Sent
<1>3. /\ Whole(Full(intent, answer), Count(answer))
      /\ \A k \in 0..(Count(answer) - 1) :
            ReadPacket(After(Full(intent, answer), k).rest).val = Expected(intent)[k + 1]
      /\ After(Full(intent, answer), Count(answer)).rest = <<>>
  BY <1>1, FullReads
<1>4. n \in 0..Count(answer) /\ (Reading => n \in 0..(Count(answer) - 1)) /\ n \in 0..2
      /\ (stage = "answer" => Count(answer) = 2)
  <2> HIDE DEF n
  <2>1. Count(answer) = IF answer = "status" THEN 3 ELSE 2
    BY DEF Count
  <2> QED
    BY <1>1, <2>1
<1>5. n \in 0..n /\ a \in Seq(Bytes)
  BY <1>1, AfterTyped
<1> HIDE DEF n
<1>6. After(script \o y, n) = [packets |-> After(script, n).packets, rest |-> After(script, n).rest \o y]
  BY <1>1, <1>2, <1>5, AfterMore
<1>7. After(Full(intent, answer), n).rest = a \o y
  BY <1>2, <1>6
<1>8. ASSUME Reading
      PROVE  ReadPacket(a \o y).err = "none" /\ ReadPacket(a \o y).val = Expected(intent)[n + 1]
  <2>1. n \in 0..(Count(answer) - 1)
    BY <1>4, <1>8
  <2>2. ReadPacket(After(Full(intent, answer), n).rest).err = "none"
    BY <1>3, <2>1, Zenon DEF Whole
  <2>3. ReadPacket(After(Full(intent, answer), n).rest).val = Expected(intent)[n + 1]
    BY <1>3, <2>1, Zenon
  <2> QED
    BY <1>7, <2>2, <2>3, Zenon
<1>9. ASSUME stage = "answer" PROVE After(script, 2).rest \o y = <<>>
  BY <1>1, <1>3, <1>4, <1>7, <1>9
<1> QED
  BY <1>1, <1>2, <1>4, <1>5, <1>8, <1>9 DEF n

-----------------------------------------------------------------------------
\* Bytes that only move from the connection to the buffer and on.
LEMMA Moved ==
    ASSUME Reader, Reading, StreamTypes', Phases', Pending' = Pending,
           UNCHANGED <<intent, script, packets, stage, why, answer, need>>
    PROVE  Reader'
<1>1. Sent' /\ Understood' /\ HonestAccepted'
  BY DEF Reader, Sent, Understood, HonestAccepted
<1>2. PacketsRead' /\ RestUnread'
  BY DEF Reader, PacketsRead, RestUnread, InFrame
<1> QED
  BY <1>1, <1>2 DEF Reader

\* The reader's buffer is filled.
LEMMA FetchReads == ASSUME Reader, Fetch PROVE Reader'
<1>1. /\ fetched \in 0..Len(script) /\ fetched < Len(script) /\ script \in Seq(Bytes)
      /\ buffered = <<>> /\ Reading
  BY DEF Reader, StreamTypes, Fetch, Waits, WantsByte, WantsBody, Reading
<1>2. PICK k \in (fetched + 1)..Len(script) :
         fetched' = k /\ buffered' = SubSeq(script, fetched + 1, k)
  BY DEF Fetch
<1>3. UNCHANGED <<intent, script, part, need, packets, stage, why, deadline, outVars>>
  BY DEF Fetch
<1>4. k \in fetched..Len(script) /\ k \in 0..Len(script)
  BY <1>1, LenProperties
<1>5. /\ SubSeq(script, fetched + 1, k) \in Seq(Bytes)
      /\ SubSeq(script, fetched + 1, k) \o From(script, k + 1) = From(script, fetched + 1)
      /\ From(script, fetched + 1) \in Seq(Bytes)
  BY <1>1, <1>4, Onwards, SMTT(30)
<1>6. StreamTypes'
  BY <1>2, <1>3, <1>4, <1>5 DEF Reader, StreamTypes, outVars
<1>7. Phases'
  BY <1>3 DEF Reader, Phases, outVars, Reading
<1>8. Pending' = Pending
  <2>1. <<>> \o From(script, fetched + 1) = From(script, fetched + 1)
    BY <1>5, ConcatEmptySeq
  <2>2. Pending = part \o From(script, fetched + 1)
    BY <1>1, <2>1 DEF Pending, Unread
  <2>3. Pending' = part \o (SubSeq(script, fetched + 1, k) \o From(script, k + 1))
    BY <1>2, <1>3 DEF Pending, Unread
  <2> QED
    BY <1>5, <2>2, <2>3
<1> QED
  BY <1>1, <1>3, <1>6, <1>7, <1>8, Moved DEF outVars

\* One byte of a length.
LEMMA TakeByteReads == ASSUME Reader, TakeByte PROVE Reader'
<1>1. /\ fetched \in 0..Len(script) /\ script \in Seq(Bytes) /\ part \in Seq(Bytes)
      /\ buffered \in Seq(Bytes) /\ buffered # <<>> /\ Reading /\ stage = "length"
      /\ ReadVarInt(part).err = "EOF"
  BY DEF Reader, StreamTypes, TakeByte, WantsByte, Reading
<1>2. /\ part' = Append(part, Head(buffered)) /\ buffered' = Tail(buffered)
      /\ UNCHANGED <<intent, script, fetched, need, packets, stage, why, deadline, outVars>>
  BY DEF TakeByte
<1> DEFINE h == Head(buffered)
           t == Tail(buffered)
<1>3. h \in Bytes /\ t \in Seq(Bytes) /\ buffered = <<h>> \o t
  BY <1>1, HeadTailProperties
<1>4. Unread \in Seq(Bytes) /\ Unread' = Unread
  <2>1. fetched \in fetched..Len(script)
    BY <1>1
  <2>2. From(script, fetched + 1) \in Seq(Bytes)
    BY <1>1, <2>1, Onwards
  <2> QED
    BY <1>2, <2>2 DEF Unread
<1>5. part' \in Seq(Bytes) /\ Len(part') = Len(part) + 1 /\ Len(part) \in Nat
      /\ part' = part \o <<h>> /\ SubSeq(part', 1, Len(part') - 1) = part
  <2>1. Append(part, h) \in Seq(Bytes) /\ Len(Append(part, h)) = Len(part) + 1
    BY <1>1, <1>3, AppendProperties
  <2>2. Append(part, h) = part \o <<h>>
    BY <1>1, <1>3, AppendIsConcat
  <2>3. <<h>> \in Seq(Bytes)
    BY <1>3
  <2>4. SubSeq(part \o <<h>>, 1, Len(part)) = part /\ Len(part) \in Nat
    BY <1>1, <2>3, Cut, LenProperties
  <2>5. Len(part') - 1 = Len(part)
    BY <1>2, <2>1, <2>4
  <2> QED
    BY <1>2, <2>1, <2>2, <2>4, <2>5
<1>6. StreamTypes'
  BY <1>2, <1>3, <1>5 DEF Reader, StreamTypes, outVars
<1>7. Phases'
  BY <1>1, <1>2, <1>5 DEF Reader, Phases, outVars, Reading
<1>8. Pending' = Pending
  <2> DEFINE u == Unread
  <2>1. u \in Seq(Bytes) /\ <<h>> \in Seq(Bytes) /\ Pending = part \o (buffered \o u)
        /\ Pending' = part' \o (t \o u)
    BY <1>2, <1>3, <1>4 DEF Pending
  <2> HIDE DEF u, h, t
  <2>2. (<<h>> \o t) \o u = <<h>> \o (t \o u)
    BY <1>3, <2>1, Assoc
  <2>3. t \o u \in Seq(Bytes)
    BY <1>3, <2>1, Cut
  <2>4. (part \o <<h>>) \o (t \o u) = part \o (<<h>> \o (t \o u))
    BY <1>1, <2>1, <2>3, Assoc
  <2> QED
    BY <1>3, <1>5, <2>1, <2>2, <2>4
<1> QED
  BY <1>1, <1>2, <1>6, <1>7, <1>8, Moved DEF outVars

\* As much of a body as there is.
LEMMA TakeBodyReads == ASSUME Reader, TakeBody PROVE Reader'
<1>1. /\ fetched \in 0..Len(script) /\ script \in Seq(Bytes) /\ part \in Seq(Bytes)
      /\ buffered \in Seq(Bytes) /\ Reading /\ stage = "body" /\ need \in Nat
      /\ Len(part) < need /\ Len(part) \in Nat /\ Len(buffered) \in Nat
  BY Sizes, LenProperties DEF Reader, StreamTypes, TakeBody, WantsBody, Reading
<1> DEFINE m == need - Len(part)
           k == IF m < Len(buffered) THEN m ELSE Len(buffered)
           t == SubSeq(buffered, 1, k)
           r == SubSeq(buffered, k + 1, Len(buffered))
<1>2. k \in 0..Len(buffered) /\ k <= m /\ m \in Nat
  BY <1>1
<1>3. t \in Seq(Bytes) /\ Len(t) = k /\ r \in Seq(Bytes) /\ buffered = t \o r
  BY <1>1, <1>2, Split
<1>4. /\ part' = part \o t /\ buffered' = r
      /\ UNCHANGED <<intent, script, fetched, need, packets, stage, why, deadline, outVars>>
  <2>1. UpTo(buffered, m) = t
    BY DEF UpTo
  <2>2. From(buffered, Len(t) + 1) = r
    BY <1>3 DEF From
  <2> QED
    BY <2>1, <2>2 DEF TakeBody
<1> HIDE DEF t, r
<1>5. part' \in Seq(Bytes) /\ Len(part') = Len(part) + k
  <2>1. part \o t \in Seq(Bytes) /\ Len(part \o t) = Len(part) + Len(t)
    BY <1>1, <1>3, Cut
  <2> QED
    BY <1>3, <1>4, <2>1
<1> HIDE DEF k
<1>6. Len(part') <= need
  BY <1>1, <1>2, <1>5
<1>7. Unread \in Seq(Bytes) /\ Unread' = Unread
  <2>1. fetched \in fetched..Len(script)
    BY <1>1
  <2>2. From(script, fetched + 1) \in Seq(Bytes)
    BY <1>1, <2>1, Onwards
  <2> QED
    BY <1>4, <2>2 DEF Unread
<1>8. StreamTypes'
  BY <1>3, <1>4, <1>5 DEF Reader, StreamTypes, outVars
<1>9. Phases'
  BY <1>1, <1>4, <1>6 DEF Reader, Phases, outVars, Reading
<1>10. Pending' = Pending
  <2> DEFINE u == Unread
  <2>1. u \in Seq(Bytes) /\ Pending = part \o (buffered \o u) /\ Pending' = (part \o t) \o (r \o u)
    BY <1>4, <1>7 DEF Pending
  <2> HIDE DEF u
  <2>2. (t \o r) \o u = t \o (r \o u)
    BY <1>3, <2>1, Assoc
  <2>3. r \o u \in Seq(Bytes)
    BY <1>3, <2>1, Cut
  <2>4. (part \o t) \o (r \o u) = part \o (t \o (r \o u))
    <3>1. AreAssociative(part, t, r \o u)
      BY <1>1, <1>3, <2>3, Associates, Zenon
    <3> QED
      BY <3>1 DEF AreAssociative
  <2> QED
    BY <1>3, <2>1, <2>2, <2>4
<1> QED
  BY <1>1, <1>4, <1>8, <1>9, <1>10, Moved DEF outVars

\* What is still to be read is a byte sequence.
LEMMA PendingTyped ==
    ASSUME Reader
    PROVE  Unread \in Seq(Bytes) /\ buffered \o Unread \in Seq(Bytes) /\ Pending \in Seq(Bytes)
           /\ part \in Seq(Bytes)
<1>1. /\ fetched \in 0..Len(script) /\ script \in Seq(Bytes) /\ part \in Seq(Bytes)
      /\ buffered \in Seq(Bytes)
  BY DEF Reader, StreamTypes
<1>2. fetched \in fetched..Len(script)
  BY <1>1
<1>3. Unread \in Seq(Bytes)
  BY <1>1, <1>2, Onwards DEF Unread
<1>4. buffered \o Unread \in Seq(Bytes)
  BY <1>1, <1>3, Cut
<1> QED
  BY <1>1, <1>3, <1>4, Cut DEF Pending

\* A length has ended.
LEMMA LengthReadReads == ASSUME Reader, LengthRead PROVE Reader'
<1> DEFINE l == ReadVarInt(part).val
           z == buffered \o Unread
<1>1. /\ stage = "length" /\ ReadVarInt(part).err = "none" /\ l >= 1
      /\ stage' = "body" /\ need' = l /\ part' = <<>>
      /\ UNCHANGED <<intent, script, fetched, buffered, packets, why, deadline, outVars>>
  BY DEF LengthRead
<1>2. part \in Seq(Bytes) /\ z \in Seq(Bytes) /\ Pending = part \o z
      /\ (part = <<>> \/ ReadVarInt(SubSeq(part, 1, Len(part) - 1)).err = "EOF")
  BY <1>1, PendingTyped DEF Pending, Reader, Phases
<1>3. ReadVarInt(part \o z) = Gives(l, z) /\ l \in Int /\ l < Word \div 2
  BY <1>1, <1>2, LengthEnds
<1>4. Word \div 2 \in Int
  BY Sizes
<1>5. l \in 0..(Word \div 2 - 1)
  BY <1>1, <1>3, <1>4
<1>6. StreamTypes'
  BY <1>1, <1>5, EmptySeq DEF Reader, StreamTypes, outVars
<1>7. Phases'
  <2>1. Len(<<>>) = 0
    BY EmptySeq
  <2>2. Reading
    BY <1>1 DEF Reading
  <2> QED
    BY <1>1, <1>3, <2>1, <2>2 DEF Reader, Phases, outVars
<1>8. Pending' = z
  <2>1. Pending' = <<>> \o z
    BY <1>1 DEF Pending, Unread
  <2> QED
    BY <1>2, <2>1, ConcatEmptySeq
<1>9. Sent' /\ Understood' /\ HonestAccepted' /\ PacketsRead'
  BY <1>1 DEF Reader, Sent, Understood, HonestAccepted, PacketsRead, outVars
<1> HIDE DEF z, l
<1>10. RestUnread'
  BY <1>1, <1>2, <1>3, <1>8 DEF Reader, RestUnread, InFrame, outVars
<1> QED
  BY <1>6, <1>7, <1>9, <1>10 DEF Reader

-----------------------------------------------------------------------------
\* The connection is closed.
LEMMA Ended ==
    ASSUME Reader, Reading, stage' = "failed",
           why' \in {"EOF", "slow", "size", "length"},
           UNCHANGED <<intent, script, readerVars, deadline, outVars>>,
           intent # NoIntent => why' = "slow" \/ (why' = "EOF" /\ Len(script) < Len(HonestBytes(intent)))
    PROVE  Reader'
<1>1. StreamTypes'
  BY DEF Reader, StreamTypes, readerVars, outVars
<1>2. Phases'
  <2>1. Len(packets) <= 2
    <3> DEFINE n == Len(packets)
    <3>1. n \in Nat
      BY LenProperties DEF Reader, StreamTypes
    <3>2. n = 2 \/ n <= 1
      BY DEF Reader, Phases
    <3> HIDE DEF n
    <3>3. n <= 2
      BY <3>1, <3>2
    <3> QED
      BY <3>3 DEF n
  <2> QED
    BY <2>1 DEF Phases, readerVars, outVars, Reading
<1>3. Sent' /\ Understood' /\ PacketsRead'
  BY DEF Reader, Sent, Understood, PacketsRead, readerVars, outVars
<1>4. RestUnread' /\ HonestAccepted'
  BY DEF RestUnread, HonestAccepted
<1> QED
  BY <1>1, <1>2, <1>3, <1>4 DEF Reader

\* The client has closed: then it has not sent everything.
LEMMA ClientLeftReads == ASSUME Reader, ClientLeft PROVE Reader'
<1>1. /\ Reading /\ buffered = <<>> /\ fetched = Len(script) /\ stage' = "failed" /\ why' = "EOF"
      /\ UNCHANGED <<intent, script, readerVars, deadline, outVars>>
      /\ (WantsByte \/ WantsBody)
  BY DEF ClientLeft, Waits, Fail, WantsByte, WantsBody, Reading
<1>2. ASSUME intent # NoIntent PROVE Len(script) < Len(HonestBytes(intent))
  <2> DEFINE a == After(script, Len(packets)).rest
  <2>1. PICK y \in Seq(Bytes) :
            /\ script \o y = Full(intent, answer) /\ (answer = "status" => y = <<>>)
            /\ ReadPacket(a \o y).err = "none"
    BY <1>1, <1>2, ToCome
  <2>2. a \in Seq(Bytes) /\ intent \in Intents /\ script \in Seq(Bytes)
    BY <1>1, <1>2, ToCome DEF Reader, StreamTypes
  <2>3. Pending = part /\ part \in Seq(Bytes)
    <3>1. Unread = <<>>
      <4>1. Len(script) \in Nat
        BY <2>2, LenProperties
      <4>2. Unread \in Seq(Bytes) /\ Len(Unread) = 0
        BY <1>1, <2>2, <4>1 DEF Unread, From
      <4> QED
        BY <4>2, EmptySeq
    <3>2. buffered \o Unread = <<>> /\ part \in Seq(Bytes)
      BY <1>1, <3>1, PendingTyped, ConcatEmptySeq, EmptySeq
    <3> QED
      BY <3>2, ConcatEmptySeq DEF Pending
  <2>4. y # <<>>
    <3>1. SUFFICES ASSUME y = <<>> PROVE FALSE
      OBVIOUS
    <3>2. a \o y = a
      BY <2>2, <3>1, ConcatEmptySeq
    <3> HIDE DEF a
    <3>3. ReadPacket(a).err = "none"
      BY <2>1, <3>2
    <3>4. /\ ReadVarInt(a).err = "none"
          /\ ReadNBytes(ReadVarInt(a).rest, ReadVarInt(a).val).err = "none"
      BY <2>2, <3>3, PacketHasLength
    <3>5. CASE WantsByte
      <4>1. a = part
        BY <1>2, <2>3, <3>5 DEF Reader, RestUnread, InFrame, WantsByte, a
      <4> QED
        BY <3>4, <3>5, <4>1 DEF WantsByte
    <3>6. CASE WantsBody
      <4>1. ReadVarInt(a) = Gives(need, part)
        BY <1>2, <2>3, <3>6 DEF Reader, RestUnread, InFrame, WantsBody, a
      <4>2. ReadNBytes(part, need).err = "none"
        BY <3>4, <4>1 DEF Gives
      <4>3. need \in Int /\ Len(part) < need
        BY <3>6, Sizes DEF Reader, StreamTypes, WantsBody
      <4>4. need <= Len(part)
        BY <2>3, <4>2, <4>3, ReadNBytesSplits
      <4> QED
        BY <2>3, <4>3, <4>4, LenProperties
    <3> QED
      BY <1>1, <3>5, <3>6
  <2>5. answer # "status" /\ script \o y = HonestBytes(intent)
    BY <2>1, <2>4 DEF Full
  <2>6. Len(script \o y) = Len(script) + Len(y) /\ Len(script) \in Nat /\ Len(y) \in Nat
    BY <2>2, Cut, LenProperties
  <2>7. Len(y) # 0
    BY <2>4, EmptySeq
  <2> QED
    BY <2>5, <2>6, <2>7
<1> QED
  BY <1>1, <1>2, Ended

\* It is too slow.
LEMMA DeadlineReads == ASSUME Reader, Deadline PROVE Reader'
<1>1. /\ Reading /\ stage' = "failed" /\ why' = "slow"
      /\ UNCHANGED <<intent, script, readerVars, deadline, outVars>>
  BY DEF Deadline, Waits, Fail, WantsByte, WantsBody, Reading
<1> QED
  BY <1>1, Ended

\* A game client sends no length that is refused.
LEMMA LengthRefusedReads == ASSUME Reader, LengthRefused PROVE Reader'
<1> DEFINE l == ReadVarInt(part)
<1>1. /\ Reading /\ stage = "length" /\ stage' = "failed" /\ why' \in {"size", "length"}
      /\ l.err = "size" \/ (l.err = "none" /\ l.val < 1)
      /\ UNCHANGED <<intent, script, readerVars, deadline, outVars>>
  BY DEF LengthRefused, Fail, Reading
<1>2. ASSUME intent # NoIntent PROVE FALSE
  <2> DEFINE z == buffered \o Unread
             a == After(script, Len(packets)).rest
  <2>1. PICK y \in Seq(Bytes) : ReadPacket(a \o y).err = "none"
    BY <1>1, <1>2, ToCome
  <2>2. a = part \o z /\ part \in Seq(Bytes) /\ z \in Seq(Bytes)
    BY <1>1, <1>2, PendingTyped DEF Reader, RestUnread, InFrame, Pending
  <2> HIDE DEF z, a
  <2>3. z \o y \in Seq(Bytes) /\ a \o y = part \o (z \o y)
    BY <2>2, Cut, Assoc
  <2>4. part \o (z \o y) \in Seq(Bytes)
    BY <2>2, <2>3, Cut
  <2> DEFINE w == z \o y
             b == part \o w
  <2> HIDE DEF w, b
  <2>5. w \in Seq(Bytes) /\ b = part \o w /\ b \in Seq(Bytes) /\ ReadPacket(b).err = "none"
    BY <2>1, <2>3, <2>4 DEF w, b
  <2>6. ReadVarInt(b).err = "none" /\ ReadVarInt(b).val >= 1
    BY <2>5, PacketHasLength
  <2>7. CASE l.err = "size"
    BY <2>2, <2>5, <2>6, <2>7, TooLong
  <2>8. CASE l.err = "none" /\ l.val < 1
    <3>1. part = <<>> \/ ReadVarInt(SubSeq(part, 1, Len(part) - 1)).err = "EOF"
      BY <1>1 DEF Reader, Phases
    <3>2. ReadVarInt(b) = Gives(l.val, w) /\ l.val \in Int
      BY <2>2, <2>5, <2>8, <3>1, LengthEnds
    <3>3. ReadVarInt(b).val = l.val
      BY <3>2 DEF Gives
    <3> QED
      BY <2>6, <2>8, <3>2, <3>3
  <2> QED
    BY <1>1, <2>7, <2>8
<1> QED
  BY <1>1, <1>2, Ended

\* A packet has been read: the next of those the client sends.
LEMMA PacketEnds ==
    ASSUME Reader, NEW n \in 1..3, ReadPacketEnds(n)
    PROVE  LET pk == Packet(Head(part), Tail(part))
           IN  /\ pk \in [id : Bytes, data : Seq(Bytes)] /\ Len(pk.data) + 1 < Word \div 2
               /\ packets' = Append(packets, pk) /\ part' = <<>>
               /\ packets' \in Seq([id : Bytes, data : Seq(Bytes)]) /\ Len(packets') = n
               /\ \A k \in 1..(n - 1) : packets'[k] = packets[k]
               /\ packets'[n] = pk
               /\ n = 3 <=> answer = "status"
               /\ n < 3 => answer = "none"
               /\ InFrame => /\ Whole(script, n) /\ packets' = After(script, n).packets
                             /\ After(script, n).rest = buffered \o Unread
               /\ intent # NoIntent => intent \in Intents /\ pk = Expected(intent)[n]
<1> DEFINE pk == Packet(Head(part), Tail(part))
           z == buffered \o Unread
           a == After(script, n - 1).rest
<1>1. /\ stage = "body" /\ Len(part) = need /\ Len(packets) = n - 1 /\ Reading
      /\ packets' = Append(packets, pk) /\ part' = <<>> /\ need >= 1
      /\ packets \in Seq([id : Bytes, data : Seq(Bytes)]) /\ need \in 0..(Word \div 2 - 1)
      /\ script \in Seq(Bytes)
  BY DEF ReadPacketEnds, Reader, StreamTypes, Phases, Reading
<1>2. part \in Seq(Bytes) /\ z \in Seq(Bytes) /\ Pending = part \o z /\ Len(part) >= 1
      /\ Len(part) \in Nat /\ Word \div 2 \in Nat
  BY <1>1, PendingTyped, LenProperties, Sizes DEF Pending
<1>3. pk \in [id : Bytes, data : Seq(Bytes)] /\ Len(pk.data) + 1 < Word \div 2
  <2>1. part # <<>>
    BY <1>2, EmptySeq
  <2>2. Head(part) \in Bytes /\ Tail(part) \in Seq(Bytes) /\ Len(Tail(part)) = Len(part) - 1
    BY <1>2, <2>1, HeadTailProperties
  <2>3. pk.data = Tail(part) /\ pk \in [id : Bytes, data : Seq(Bytes)]
    BY <2>2 DEF Packet
  <2> HIDE DEF pk
  <2> QED
    BY <1>1, <1>2, <2>2, <2>3
<1> HIDE DEF pk, z, a
<1>4. Append(packets, pk) \in Seq([id : Bytes, data : Seq(Bytes)])
      /\ Len(Append(packets, pk)) = Len(packets) + 1
      /\ (\A k \in 1..Len(packets) : Append(packets, pk)[k] = packets[k])
      /\ Append(packets, pk)[Len(packets) + 1] = pk
  BY <1>1, <1>3, AppendProperties
<1>5. packets' \in Seq([id : Bytes, data : Seq(Bytes)]) /\ Len(packets') = n
      /\ (\A k \in 1..(n - 1) : packets'[k] = packets[k]) /\ packets'[n] = pk
  BY <1>1, <1>4
<1>6. (n = 3 <=> answer = "status") /\ (n < 3 => answer = "none")
  BY <1>1 DEF Reader, Phases
<1>7. ASSUME InFrame PROVE ReadVarInt(a) = Gives(Len(part), part \o z)
  BY <1>1, <1>2, <1>7 DEF Reader, RestUnread, a
<1>8. ASSUME InFrame
      PROVE  ReadPacket(a) = Gives(pk, z)
  BY <1>2, <1>7, <1>8, BodyRead DEF pk
<1>9. Whole(script, n - 1) /\ packets = After(script, n - 1).packets
  BY <1>1 DEF Reader, PacketsRead
<1>10. ASSUME InFrame
       PROVE  Whole(script, n) /\ packets' = After(script, n).packets /\ After(script, n).rest = z
  <2>1. After(script, (n - 1) + 1) = AfterOne(After(script, n - 1))
    BY AfterDef
  <2>2. After(script, n) = AfterOne(After(script, n - 1))
    BY <2>1
  <2>3. ReadPacket(After(script, n - 1).rest) = Gives(pk, z)
    BY <1>8, <1>10 DEF a
  <2>4. After(script, n) = [packets |-> Append(packets, pk), rest |-> z]
    <3> DEFINE c == After(script, n - 1)
    <3>1. ReadPacket(c.rest).val = pk /\ ReadPacket(c.rest).rest = z /\ c.packets = packets
      BY <1>9, <2>3 DEF Gives
    <3> HIDE DEF c
    <3>2. AfterOne(c) = [packets |-> Append(packets, pk), rest |-> z]
      BY <3>1 DEF AfterOne
    <3> QED
      BY <2>2, <3>2 DEF c
  <2>5. ReadPacket(After(script, n - 1).rest).err = "none"
    BY <2>3 DEF Gives
  <2>6. Whole(script, n)
    <3>1. ASSUME NEW k \in 0..(n - 1) PROVE k \in 0..((n - 1) - 1) \/ k = n - 1
      OBVIOUS
    <3> QED
      BY <1>9, <2>5, <3>1, Zenon DEF Whole
  <2> QED
    BY <1>1, <2>4, <2>6
<1>11. ASSUME intent # NoIntent PROVE intent \in Intents /\ pk = Expected(intent)[n]
  <2>1. PICK y \in Seq(Bytes) :
            /\ ReadPacket(After(script, Len(packets)).rest \o y).err = "none"
            /\ ReadPacket(After(script, Len(packets)).rest \o y).val = Expected(intent)[Len(packets) + 1]
    BY <1>1, <1>11, ToCome
  <2>2. a \in Seq(Bytes) /\ intent \in Intents
    BY <1>1, <1>11, ToCome DEF a
  <2>3. ReadPacket(a) = Gives(pk, z)
    BY <1>8, <1>11 DEF InFrame
  <2>4. ReadPacket(a).err = "none" /\ ReadPacket(a).val = pk
    BY <2>3 DEF Gives
  <2>5. ReadPacket(a \o y).val = pk
    <3>1. ReadPacket(a \o y) = Gives(ReadPacket(a).val, ReadPacket(a).rest \o y)
      BY <2>2, <2>4, ReadPacketMore
    <3> QED
      BY <2>4, <3>1 DEF Gives
  <2>6. Len(packets) + 1 = n
    BY <1>1
  <2> QED
    BY <1>1, <2>1, <2>2, <2>5, <2>6 DEF a
<1> QED
  BY <1>1, <1>3, <1>5, <1>6, <1>10, <1>11 DEF pk, z

\* A packet more keeps the invariant.
LEMMA PacketTaken ==
    ASSUME Reader, NEW n \in 1..3, ReadPacketEnds(n), answer' = answer, deadline' \in BOOLEAN,
           why' \in {"none", "EOF", "slow", "size", "length", "handshake", "login"},
           \/ stage' = "length" /\ n = 1
           \/ stage' = "answer" /\ n = 2
           \/ stage' = "done" /\ n = 3
           \/ stage' \in {"failed", "panicked"} /\ n < 3,
           HonestAccepted'
    PROVE  Reader'
<1> DEFINE pk == Packet(Head(part), Tail(part))
<1>1. /\ packets' = Append(packets, pk) /\ part' = <<>>
      /\ packets' \in Seq([id : Bytes, data : Seq(Bytes)]) /\ Len(packets') = n
      /\ \A k \in 1..(n - 1) : packets'[k] = packets[k]
      /\ packets'[n] = pk
      /\ n = 3 <=> answer = "status"
      /\ n < 3 => answer = "none"
      /\ InFrame => /\ Whole(script, n) /\ packets' = After(script, n).packets
                    /\ After(script, n).rest = buffered \o Unread
      /\ intent # NoIntent => intent \in Intents /\ pk = Expected(intent)[n]
  BY PacketEnds
<1> HIDE DEF pk
<1>2. UNCHANGED <<intent, script, fetched, buffered>> /\ need' = 0 /\ Len(packets) = n - 1
  BY DEF ReadPacketEnds
<1>3. StreamTypes'
  <2>1. 0 \in 0..(Word \div 2 - 1)
    <3>1. Word \div 2 \in Nat /\ Word \div 2 >= 1
      BY PendingTyped, Sizes DEF Reader, StreamTypes
    <3> QED
      BY <3>1
  <2> QED
    BY <1>1, <1>2, <2>1, EmptySeq DEF Reader, StreamTypes
<1>4. Phases'
  BY <1>1 DEF Phases, Reading
<1>5. Sent'
  BY <1>2 DEF Reader, Sent
<1>6. PacketsRead'
  BY <1>1, <1>2 DEF PacketsRead, InFrame
<1>7. Understood'
  <2>1. ASSUME intent # NoIntent, NEW k \in 1..n PROVE packets'[k] = Expected(intent)[k]
    <3>1. CASE k = n
      BY <1>1, <2>1, <3>1
    <3>2. CASE k # n
      <4>1. k \in 1..(n - 1)
        BY <3>2
      <4> QED
        BY <1>1, <1>2, <2>1, <4>1 DEF Reader, Understood
    <3> QED
      BY <3>1, <3>2
  <2> QED
    BY <1>1, <1>2, <2>1 DEF Understood
<1>8. RestUnread'
  <2>1. Pending' = buffered \o Unread
    <3>1. Pending' = <<>> \o (buffered \o Unread)
      BY <1>1, <1>2 DEF Pending, Unread
    <3> QED
      BY <3>1, PendingTyped, ConcatEmptySeq
  <2>2. InFrame' = InFrame
    BY <1>2 DEF InFrame
  <2> QED
    BY <1>1, <1>2, <2>1, <2>2 DEF RestUnread
<1> QED
  BY <1>3, <1>4, <1>5, <1>6, <1>7, <1>8 DEF Reader

\* A game client's first packet is its handshake.
LEMMA FirstUnderstood ==
    ASSUME NEW i \in Intents
    PROVE  /\ UnmarshalServerBoundHandshake(Expected(i)[1]).err = "none"
           /\ ParsedHandshake(Expected(i)[1]) = Handshake(i)
           /\ Handshake(i).NextState = i.NextState
<1>1. Expected(i)[1] = MarshalHandshake(Handshake(i))
  BY DEF Expected
<1>2. UnmarshalServerBoundHandshake(Expected(i)[1]) = Gives(Handshake(i), <<>>)
  BY <1>1, HandshakeFits, HandshakeRoundTrip
<1>3. UnmarshalServerBoundHandshake(Expected(i)[1]).err = "none"
      /\ UnmarshalServerBoundHandshake(Expected(i)[1]).val = Handshake(i)
  BY <1>2 DEF Gives
<1> QED
  BY <1>3 DEF ParsedHandshake, Handshake

\* ... and its second, in a login, its name.
LEMMA SecondUnderstood ==
    ASSUME NEW i \in Intents, RequestState(i.NextState) = "login"
    PROVE  UnmarshalText(Expected(i)[2]).err = "none" /\ UnmarshalText(Expected(i)[2]).val = i.name
<1>1. Expected(i)[2] = MarshalText(i.name)
  BY DEF Expected, SecondPacket
<1>2. UnmarshalText(Expected(i)[2]) = Gives(i.name, <<>>)
  BY <1>1, HandshakeFits, TextRoundTrip
<1> QED
  BY <1>2 DEF Gives

\* ReadConnection takes the first packet.
LEMMA HandshakeReadReads == ASSUME Reader, HandshakeRead PROVE Reader'
<1> DEFINE pk == Packet(Head(part), Tail(part))
<1>1. /\ ReadPacketEnds(1) /\ deadline' = deadline /\ answer' = answer /\ 1 \in 1..3
      /\ why \in {"none", "EOF", "slow", "size", "length", "handshake", "login"}
      /\ deadline \in BOOLEAN /\ stage = "body" /\ intent' = intent
  BY DEF HandshakeRead, outVars, Reader, StreamTypes, ReadPacketEnds
<1>2. \/ UnmarshalServerBoundHandshake(pk).err = "panic" /\ stage' = "panicked" /\ why' = why
      \/ /\ UnmarshalServerBoundHandshake(pk).err # "panic"
         /\ RequestState(ParsedHandshake(pk).NextState) = "unknown"
         /\ stage' = "failed" /\ why' = "handshake"
      \/ stage' = "length" /\ why' = why
  BY DEF HandshakeRead, Fail
<1>3. intent # NoIntent => intent \in Intents /\ pk = Expected(intent)[1]
  BY <1>1, PacketEnds
<1> HIDE DEF pk
<1>4. HonestAccepted'
  <2>1. SUFFICES ASSUME stage' \in {"failed", "panicked"}, intent # NoIntent,
                        RequestState(intent.NextState) # "unknown"
                 PROVE  FALSE
    BY <1>1 DEF HonestAccepted
  <2>2. /\ UnmarshalServerBoundHandshake(pk).err = "none"
        /\ ParsedHandshake(pk).NextState = intent.NextState
    BY <1>3, <2>1, FirstUnderstood
  <2> QED
    BY <1>2, <2>1, <2>2
<1>5. /\ why' \in {"none", "EOF", "slow", "size", "length", "handshake", "login"}
      /\ stage' = "length" \/ stage' \in {"failed", "panicked"}
  BY <1>1, <1>2
<1> QED
  BY <1>1, <1>4, <1>5, PacketTaken

\* ... and the second.
LEMMA SecondReadReads == ASSUME Reader, SecondRead PROVE Reader'
<1> DEFINE pk == Packet(Head(part), Tail(part))
           name == UnmarshalText(pk)
<1>1. /\ ReadPacketEnds(2) /\ deadline' = FALSE /\ answer' = answer /\ 2 \in 1..3
      /\ why \in {"none", "EOF", "slow", "size", "length", "handshake", "login"}
      /\ stage = "body" /\ intent' = intent /\ Len(packets) = 1
  BY DEF SecondRead, outVars, Reader, StreamTypes, ReadPacketEnds
<1>2. \/ ReqType = "login" /\ name.err # "none" /\ stage' = "panicked" /\ why' = why
      \/ ReqType = "login" /\ name.err # "none" /\ stage' = "failed" /\ why' = "login"
      \/ stage' = "answer" /\ why' = why
  BY DEF SecondRead, Fail
<1>3. intent # NoIntent => intent \in Intents /\ pk = Expected(intent)[2]
  BY <1>1, PacketEnds
<1>4. intent # NoIntent => packets[1] = Expected(intent)[1]
  BY <1>1 DEF Reader, Understood
<1> HIDE DEF pk
<1>5. HonestAccepted'
  <2>1. SUFFICES ASSUME stage' \in {"failed", "panicked"}, intent # NoIntent PROVE FALSE
    BY <1>1 DEF HonestAccepted
  <2>2. ReqType = RequestState(intent.NextState)
    BY <1>3, <1>4, <2>1, FirstUnderstood DEF ReqType
  <2>3. RequestState(intent.NextState) = "login" /\ name.err # "none"
    BY <1>2, <2>1, <2>2
  <2> QED
    BY <1>3, <2>1, <2>3, SecondUnderstood
<1>6. /\ why' \in {"none", "EOF", "slow", "size", "length", "handshake", "login"}
      /\ stage' = "answer" \/ stage' \in {"failed", "panicked"}
  BY <1>1, <1>2
<1>7. deadline' \in BOOLEAN
  BY <1>1
<1> QED
  BY <1>1, <1>5, <1>6, <1>7, PacketTaken

\* SendResponse takes the ping.
LEMMA PingReadReads == ASSUME Reader, PingRead PROVE Reader'
<1>1. /\ ReadPacketEnds(3) /\ deadline' = deadline /\ answer' = answer /\ why' = why /\ 3 \in 1..3
      /\ why \in {"none", "EOF", "slow", "size", "length", "handshake", "login"}
      /\ deadline \in BOOLEAN /\ stage' = "done"
  BY DEF PingRead, outVars, Reader, StreamTypes, ReadPacketEnds
<1>2. HonestAccepted'
  BY <1>1 DEF HonestAccepted
<1> QED
  BY <1>1, <1>2, PacketTaken

-----------------------------------------------------------------------------
\* An answer after which nothing more is read.
LEMMA Answered ==
    ASSUME Reader, stage = "answer", stage' = "done", answer' \in {"none", "empty"},
           deadline' \in BOOLEAN, UNCHANGED <<intent, script, readerVars, why>>
    PROVE  Reader'
<1>1. answer = "none" /\ Len(packets) = 2
  BY DEF Reader, Phases
<1>2. StreamTypes' /\ Phases'
  BY <1>1 DEF Reader, StreamTypes, Phases, readerVars, Reading
<1>3. Sent'
  <2>1. Full(intent, answer') = Full(intent, answer)
    BY <1>1, FullOf
  <2> QED
    BY <1>1, <2>1 DEF Reader, Sent
<1>4. PacketsRead' /\ RestUnread' /\ Understood' /\ HonestAccepted'
  BY DEF Reader, PacketsRead, RestUnread, Understood, HonestAccepted, readerVars
<1> QED
  BY <1>2, <1>3, <1>4 DEF Reader

\* No answer, and an empty one.
LEMMA NotAnsweredReads == ASSUME Reader, NotAnswered PROVE Reader'
<1>1. answer = "none" /\ deadline \in BOOLEAN
  BY DEF NotAnswered, Reader, StreamTypes, Phases
<1> QED
  BY <1>1, Answered DEF NotAnswered, outVars

LEMMA SendEmptyReads == ASSUME Reader, SendEmpty PROVE Reader'
BY Answered DEF SendEmpty

\* A game client that waits for the status has sent all it had, and nothing is left of it.
LEMMA SendStatusReads == ASSUME Reader, SendStatus PROVE Reader'
<1> DEFINE ping == Marshal(MarshalPing(PingTime))
<1>1. /\ stage = "answer" /\ answer' = "status" /\ stage' = "length" /\ deadline' = TRUE
      /\ buffered' = <<>>
      /\ script' = (IF intent = NoIntent THEN script ELSE script \o ping)
      /\ UNCHANGED <<intent, fetched, part, need, packets, why>>
  BY DEF SendStatus
<1>2. /\ answer = "none" /\ Len(packets) = 2 /\ part = <<>> /\ script \in Seq(Bytes)
      /\ fetched \in 0..Len(script) /\ Len(script) \in Nat
      /\ Whole(script, 2) /\ packets = After(script, 2).packets
  <2>1. answer = "none" /\ Len(packets) = 2 /\ part = <<>>
    BY <1>1 DEF Reader, Phases
  <2>2. script \in Seq(Bytes) /\ fetched \in 0..Len(script) /\ Len(script) \in Nat
    BY LenProperties DEF Reader, StreamTypes
  <2>3. Whole(script, 2) /\ packets = After(script, 2).packets
    BY <2>1 DEF Reader, PacketsRead
  <2> QED
    BY <2>1, <2>2, <2>3
<1>3. CASE intent = NoIntent
  <2>1. script' = script
    BY <1>1, <1>3
  <2>2. StreamTypes'
    BY <1>1, <2>1, EmptySeq DEF Reader, StreamTypes
  <2>3. Phases'
    BY <1>1, <1>2 DEF Phases, Reading
  <2>4. Sent' /\ Understood' /\ HonestAccepted'
    BY <1>1, <1>3, <2>1 DEF Reader, Sent, Understood, HonestAccepted
  <2>5. PacketsRead' /\ RestUnread'
    BY <1>1, <1>2, <1>3, <2>1 DEF PacketsRead, RestUnread, InFrame
  <2> QED
    BY <2>2, <2>3, <2>4, <2>5 DEF Reader
<1>4. CASE intent # NoIntent
  <2>1. PICK y \in Seq(Bytes) : script \o y = Full(intent, answer) /\ After(script, 2).rest \o y = <<>>
    BY <1>1, <1>4, ToCome
  <2>2. intent \in Intents /\ After(script, 2).rest \in Seq(Bytes)
    BY <1>1, <1>2, <1>4, ToCome
  <2>3. After(script, 2).rest = <<>> /\ y = <<>>
    <3>1. Len(After(script, 2).rest \o y) = Len(After(script, 2).rest) + Len(y)
          /\ Len(After(script, 2).rest) \in Nat /\ Len(y) \in Nat
      BY <2>2, Cut, LenProperties
    <3>2. Len(After(script, 2).rest) = 0 /\ Len(y) = 0
      BY <2>1, <3>1, EmptySeq
    <3> QED
      BY <2>2, <3>2, EmptySeq
  <2>4. ping \in Seq(Bytes) /\ HonestBytes(intent) \in Seq(Bytes)
    BY <2>2, FullReads
  <2>5. script = HonestBytes(intent)
    BY <1>2, <2>1, <2>3, ConcatEmptySeq DEF Full
  <2> HIDE DEF ping
  <2>6. script' = script \o ping /\ script' \in Seq(Bytes) /\ Len(script') = Len(script) + Len(ping)
        /\ Len(ping) \in Nat /\ SubSeq(script', Len(script) + 1, Len(script')) = ping
    <3>1. script' = script \o ping
      BY <1>1, <1>4
    <3>2. /\ script \o ping \in Seq(Bytes) /\ Len(script \o ping) = Len(script) + Len(ping)
          /\ SubSeq(script \o ping, Len(script) + 1, Len(script \o ping)) = ping
      BY <1>2, <2>4, Cut
    <3> QED
      BY <2>4, <3>1, <3>2, LenProperties
  <2>7. fetched = Len(script)
    <3>1. Pending = <<>>
      BY <1>1, <1>2, <1>4, <2>3 DEF Reader, RestUnread, InFrame
    <3>2. buffered \in Seq(Bytes) /\ Unread \in Seq(Bytes) /\ buffered \o Unread \in Seq(Bytes)
      BY PendingTyped DEF Reader, StreamTypes
    <3>3. buffered \o Unread = <<>>
      BY <1>2, <3>1, <3>2, ConcatEmptySeq DEF Pending
    <3>4. Len(buffered) + Len(Unread) = 0 /\ Len(buffered) \in Nat /\ Len(Unread) \in Nat
      <4>1. Len(buffered \o Unread) = Len(buffered) + Len(Unread)
        BY <3>2, Cut
      <4> QED
        BY <3>2, <3>3, <4>1, LenProperties, EmptySeq
    <3>5. Len(Unread) = Len(script) - fetched
      <4>1. fetched \in Nat /\ fetched <= Len(script)
        BY <1>2
      <4> QED
        BY <1>2, <4>1 DEF Unread, From
    <3> QED
      BY <1>2, <3>4, <3>5
  <2>8. StreamTypes'
    <3>1. fetched' \in 0..Len(script')
      BY <1>1, <1>2, <2>6
    <3> QED
      BY <1>1, <2>6, <3>1, EmptySeq DEF Reader, StreamTypes
  <2>9. Phases'
    BY <1>1, <1>2 DEF Phases, Reading
  <2>10. Sent'
    <3>1. script' = Full(intent, "status")
      BY <2>5, <2>6 DEF Full, ping
    <3>2. script' \o <<>> = script' /\ <<>> \in Seq(Bytes)
      BY <2>6, ConcatEmptySeq, EmptySeq
    <3> QED
      BY <1>1, <1>4, <2>2, <3>1, <3>2 DEF Sent
  <2>11. Whole(script', 2) /\ After(script', 2) = [packets |-> packets, rest |-> ping]
    <3>1. Whole(script \o ping, 2)
          /\ After(script \o ping, 2) = [packets |-> After(script, 2).packets,
                                         rest |-> After(script, 2).rest \o ping]
      <4>1. 2 \in 0..2 /\ 2 \in Nat
        OBVIOUS
      <4> QED
        BY <1>2, <2>4, <4>1, AfterMore
    <3>2. After(script, 2).rest \o ping = ping
      BY <2>3, <2>4, ConcatEmptySeq
    <3> QED
      BY <1>2, <2>6, <3>1, <3>2
  <2>12. Pending' = ping
    <3>1. Unread' = ping
      BY <1>1, <2>6, <2>7 DEF Unread, From
    <3>2. Pending' = <<>> \o (<<>> \o ping)
      BY <1>1, <1>2, <3>1 DEF Pending
    <3>3. <<>> \o ping = ping
      BY <2>4, ConcatEmptySeq
    <3> QED
      BY <3>2, <3>3
  <2>13. PacketsRead' /\ RestUnread'
    <3>1. After(script', 2).packets = packets /\ After(script', 2).rest = ping
      BY <2>11
    <3> QED
      BY <1>1, <1>2, <2>11, <2>12, <3>1 DEF PacketsRead, RestUnread
  <2>14. Understood' /\ HonestAccepted'
    BY <1>1 DEF Reader, Understood, HonestAccepted
  <2> QED
    BY <2>8, <2>9, <2>10, <2>13, <2>14 DEF Reader
<1> QED
  BY <1>3, <1>4

-----------------------------------------------------------------------------
(* Server addresses: where the host ends.                                   *)

\* byte does not occur in s.
Lacks(s, byte) == \A k \in 1..Len(s) : s[k] # byte

IsSeparator(sep) == sep \in Seq(Bytes) /\ Len(sep) >= 1

\* sep comes after the first n bytes for the first time, or not at all and they are all.
EndsAfter(a, sep, n) ==
    /\ n \in 0..Len(a)
    /\ \A j \in 1..n : j \notin Separators(a, sep)
    /\ n # Len(a) => n + 1 \in Separators(a, sep)

\* What the separators are.
LEMMA SepBytes ==
    /\ IsSeparator(ForgeSeparator) /\ Len(ForgeSeparator) = 1 /\ ForgeSeparator[1] = 0
    /\ IsSeparator(RealIPSeparator) /\ Len(RealIPSeparator) = 3
    /\ RealIPSeparator[1] = Slash /\ RealIPSeparator[2] = Slash /\ RealIPSeparator[3] = Slash
    /\ Slash \in Bytes /\ Slash # 0 /\ Lacks(RealIPSeparator, 0)
<1>1. 0 \in Bytes
  BY Sizes
<1>2. Slash \in Bytes /\ Slash # 0
  BY CodecAssumption
<1>3. IsSeparator(ForgeSeparator) /\ Len(ForgeSeparator) = 1 /\ ForgeSeparator[1] = 0
  BY <1>1 DEF IsSeparator, ForgeSeparator
<1>4. /\ IsSeparator(RealIPSeparator) /\ Len(RealIPSeparator) = 3
      /\ RealIPSeparator[1] = Slash /\ RealIPSeparator[2] = Slash /\ RealIPSeparator[3] = Slash
  BY <1>2 DEF IsSeparator, RealIPSeparator
<1>5. Lacks(RealIPSeparator, 0)
  BY <1>2, <1>4 DEF Lacks
<1> QED
  BY <1>2, <1>3, <1>4, <1>5

OccursAt(a, sep, i) ==
    /\ i \in 1..Len(a) /\ i + Len(sep) - 1 <= Len(a)
    /\ \A k \in 1..Len(sep) : a[i + k - 1] = sep[k]

\* Where a separator occurs, all of it does.
LEMMA SeparatorAt ==
    ASSUME NEW a \in Seq(Bytes), NEW sep, IsSeparator(sep), NEW i
    PROVE  i \in Separators(a, sep) <=> OccursAt(a, sep, i)
<1>1. Len(a) \in Nat /\ Len(sep) \in Nat /\ Len(sep) >= 1
  BY LenProperties DEF IsSeparator
<1> QED
  BY <1>1 DEF Separators, OccursAt

\* Before stops at the first separator.
LEMMA BeforeReads ==
    ASSUME NEW a \in Seq(Bytes), NEW sep, NEW n, EndsAfter(a, sep, n)
    PROVE  /\ Before(a, sep) = SubSeq(a, 1, n) /\ Before(a, sep) \in Seq(Bytes)
           /\ Len(Before(a, sep)) = n
<1> DEFINE S == {i \in 1..Len(a) : \A j \in 1..i : j \notin Separators(a, sep)}
<1>1. Len(a) \in Nat /\ n \in 0..Len(a)
  BY LenProperties DEF EndsAfter
<1>2. S = 1..n
  <2>1. ASSUME NEW i \in 1..n PROVE i \in S
    BY <1>1 DEF EndsAfter
  <2>2. ASSUME NEW i \in S PROVE i \in 1..n
    <3>1. SUFFICES ASSUME i > n PROVE FALSE
      BY <1>1
    <3>2. n + 1 \in 1..i /\ n # Len(a)
      BY <1>1, <3>1
    <3> QED
      BY <3>2 DEF EndsAfter
  <2> QED
    BY <2>1, <2>2
<1>3. Cardinality(1..n) = n
  <2>1. 1 \in Int /\ n \in Int /\ n \in Nat
    BY <1>1
  <2>2. Cardinality(1..n) = IF 1 > n THEN 0 ELSE n - 1 + 1
    BY <2>1, FS_Interval, Zenon
  <2> QED
    BY <2>1, <2>2
<1>4. Before(a, sep) = SubSeq(a, 1, Cardinality(S))
  BY DEF Before
<1>5. AreSplit(a, n)
  BY <1>1, Splits, Zenon
<1> HIDE DEF S
<1> QED
  BY <1>2, <1>3, <1>4, <1>5, Zenon DEF AreSplit

\* ... and there is one, or the end.
LEMMA BeforeEnds ==
    ASSUME NEW a \in Seq(Bytes), NEW sep, IsSeparator(sep)
    PROVE  \E n : EndsAfter(a, sep, n) /\ (Separators(a, sep) = {} <=> n = Len(a))
<1>1. Len(a) \in Nat /\ \A i \in Separators(a, sep) : i \in 1..Len(a)
  BY LenProperties, SeparatorAt DEF OccursAt
<1>2. CASE Separators(a, sep) = {}
  BY <1>1, <1>2 DEF EndsAfter
<1>3. CASE Separators(a, sep) # {}
  <2> DEFINE T == Separators(a, sep)
  <2>1. T # {} /\ T \subseteq Nat
    BY <1>1, <1>3
  <2>2. PICK k \in T : \A j \in T : k <= j
    <3> HIDE DEF T
    <3> QED
      BY <2>1, Least
  <2>3. k \in 1..Len(a) /\ k - 1 \in 0..Len(a) /\ k - 1 # Len(a) /\ (k - 1) + 1 = k
    BY <1>1, <2>2
  <2>4. \A j \in 1..(k - 1) : j \notin T
    <3>1. ASSUME NEW j \in 1..(k - 1), j \in T PROVE FALSE
      <4>1. k <= j
        BY <2>2, <3>1
      <4> QED
        BY <2>3, <4>1
    <3> QED
      BY <3>1
  <2>5. EndsAfter(a, sep, k - 1)
    BY <2>2, <2>3, <2>4 DEF EndsAfter
  <2> QED
    BY <1>3, <2>3, <2>5
<1> QED
  BY <1>2, <1>3

\* Without a separator it is all of it.
LEMMA BeforeWhole ==
    ASSUME NEW a \in Seq(Bytes), NEW sep, Separators(a, sep) = {}
    PROVE  Before(a, sep) = a
<1>1. Len(a) \in Nat
  BY LenProperties
<1>2. EndsAfter(a, sep, Len(a))
  BY <1>1 DEF EndsAfter
<1>3. Before(a, sep) = SubSeq(a, 1, Len(a))
  BY <1>2, BeforeReads, Zenon
<1> QED
  BY <1>3, SubSeqFull

\* Two sequences in a row, byte by byte.
LEMMA BytesOf ==
    ASSUME NEW x \in Seq(Bytes), NEW y \in Seq(Bytes)
    PROVE  /\ x \o y \in Seq(Bytes) /\ Len(x \o y) = Len(x) + Len(y)
           /\ Len(x) \in Nat /\ Len(y) \in Nat
           /\ \A k \in 1..Len(x) : (x \o y)[k] = x[k]
           /\ \A k \in 1..Len(y) : (x \o y)[Len(x) + k] = y[k]
<1>1. /\ x \o y \in Seq(Bytes) /\ Len(x \o y) = Len(x) + Len(y) /\ Len(x) \in Nat /\ Len(y) \in Nat
      /\ \A i \in 1..(Len(x) + Len(y)) : (x \o y)[i] = IF i <= Len(x) THEN x[i] ELSE y[i - Len(x)]
  BY ConcatProperties, LenProperties
<1> DEFINE s == x \o y
<1> HIDE DEF s
<1>2. \A i \in 1..(Len(x) + Len(y)) : s[i] = IF i <= Len(x) THEN x[i] ELSE y[i - Len(x)]
  BY <1>1 DEF s
<1>3. \A k \in 1..Len(x) : s[k] = x[k]
  BY <1>1, <1>2
<1>4. ASSUME NEW k \in 1..Len(y) PROVE s[Len(x) + k] = y[k]
  <2>1. Len(x) + k \in 1..(Len(x) + Len(y)) /\ ~(Len(x) + k <= Len(x)) /\ (Len(x) + k) - Len(x) = k
    BY <1>1
  <2>2. s[Len(x) + k] = y[(Len(x) + k) - Len(x)]
    BY <1>2, <2>1, Zenon
  <2> QED
    BY <2>1, <2>2
<1> QED
  BY <1>1, <1>3, <1>4 DEF s

\* What comes before a separator, and what behind.
LEMMA BeforeFound ==
    ASSUME NEW x \in Seq(Bytes), NEW y \in Seq(Bytes), NEW sep, IsSeparator(sep),
           \A j \in 1..Len(x) : j \notin Separators(x \o (sep \o y), sep)
    PROVE  /\ Before(x \o (sep \o y), sep) = x
           /\ Behind(x \o (sep \o y), sep) = y
           /\ Separators(x \o (sep \o y), sep) # {}
<1> DEFINE w == sep \o y
           a == x \o w
           n == Len(x)
<1>1. sep \in Seq(Bytes) /\ Len(sep) \in Nat /\ Len(sep) >= 1
  BY LenProperties DEF IsSeparator
<1>2. /\ w \in Seq(Bytes) /\ Len(w) = Len(sep) + Len(y) /\ Len(y) \in Nat
      /\ \A k \in 1..Len(sep) : w[k] = sep[k]
  BY <1>1, BytesOf, Zenon
<1>3. SubSeq(w, Len(sep) + 1, Len(w)) = y
  BY <1>1, Cut
<1> HIDE DEF w
<1>4. /\ a \in Seq(Bytes) /\ Len(a) = n + Len(w) /\ n \in Nat
      /\ \A k \in 1..Len(w) : a[n + k] = w[k]
  BY <1>2, BytesOf
<1>5. SubSeq(a, 1, n) = x /\ SubSeq(a, n + 1, Len(a)) = w
  <2>1. /\ SubSeq(x \o w, 1, Len(x)) = x
        /\ SubSeq(x \o w, Len(x) + 1, Len(x \o w)) = w
        /\ Len(x \o w) = Len(x) + Len(w)
        /\ x \o w \in Seq(Bytes)
    BY <1>2, Cut
  <2> QED
    BY <2>1
<1>6. \A j \in 1..n : j \notin Separators(a, sep)
  BY DEF w
<1> HIDE DEF a, n
<1>7. n + 1 \in Separators(a, sep)
  <2>1. ASSUME NEW k \in 1..Len(sep) PROVE a[(n + 1) + k - 1] = sep[k]
    <3>1. k \in 1..Len(w) /\ (n + 1) + k - 1 = n + k
      BY <1>1, <1>2, <1>4
    <3> QED
      BY <1>2, <1>4, <3>1
  <2>2. n + 1 \in 1..Len(a) /\ (n + 1) + Len(sep) - 1 <= Len(a)
    BY <1>1, <1>2, <1>4
  <2> QED
    <3>1. OccursAt(a, sep, n + 1)
      BY <2>1, <2>2 DEF OccursAt
    <3> QED
      BY <1>4, <3>1, SeparatorAt
<1>8. EndsAfter(a, sep, n)
  BY <1>1, <1>2, <1>4, <1>6, <1>7 DEF EndsAfter
<1>9. Before(a, sep) = x /\ Len(Before(a, sep)) = n
  BY <1>4, <1>5, <1>8, BeforeReads, Zenon
<1>10. Behind(a, sep) = SubSeq(a, n + Len(sep) + 1, Len(a))
  BY <1>9 DEF Behind, From
<1>11. SubSeq(a, n + Len(sep) + 1, Len(a)) = y
  <2> DEFINE b == SubSeq(a, n + Len(sep) + 1, Len(a))
  <2>1. n + Len(sep) \in 0..Len(a)
    BY <1>1, <1>2, <1>4
  <2>2. /\ b \in Seq(Bytes) /\ Len(b) = Len(a) - (n + Len(sep))
        /\ \A i \in 1..(Len(a) - (n + Len(sep) + 1) + 1) : b[i] = a[(n + Len(sep) + 1) + i - 1]
    <3>1. AreSplit(a, n + Len(sep))
      BY <1>4, <2>1, Splits, Zenon
    <3>2. /\ n + Len(sep) + 1 \in Int /\ Len(a) \in Int
          /\ \A i \in (n + Len(sep) + 1)..Len(a) : a[i] \in Bytes
      <4>1. \A i \in (n + Len(sep) + 1)..Len(a) : i \in 1..Len(a)
        BY <1>1, <1>2, <1>4
      <4>2. \A i \in 1..Len(a) : a[i] \in Bytes
        BY <1>4, ElementOfSeq
      <4> QED
        BY <1>1, <1>2, <1>4, <4>1, <4>2
    <3>3. \A i \in 1..(Len(a) - (n + Len(sep) + 1) + 1) : b[i] = a[(n + Len(sep) + 1) + i - 1]
      <4> DEFINE m == n + Len(sep) + 1
                 l == Len(a)
      <4>1. m \in Int /\ l \in Int /\ \A i \in m..l : a[i] \in Bytes
        BY <3>2
      <4> HIDE DEF m, l, b
      <4>2. \A i \in 1..(l - m + 1) : SubSeq(a, m, l)[i] = a[m + i - 1]
        BY <4>1, SubSeqProperties
      <4> QED
        BY <4>2 DEF m, l, b
    <3> QED
      BY <3>1, <3>3, Zenon DEF AreSplit
  <2>3. Len(b) = Len(y)
    BY <1>1, <1>2, <1>4, <2>2
  <2>4. ASSUME NEW i \in 1..Len(y) PROVE b[i] = y[i]
    <3>1. b[i] = a[(n + Len(sep) + 1) + i - 1]
      BY <1>1, <1>2, <1>4, <2>2, <2>3
    <3>2. (n + Len(sep) + 1) + i - 1 = n + (Len(sep) + i) /\ Len(sep) + i \in 1..Len(w)
      BY <1>1, <1>2, <1>4
    <3>3. w[Len(sep) + i] = y[i]
      BY <1>1, BytesOf DEF w
    <3> QED
      BY <1>4, <3>1, <3>2, <3>3
  <2> HIDE DEF b
  <2>5. b = y
    BY <2>2, <2>3, <2>4, SeqEqual
  <2> QED
    BY <2>5 DEF b
<1> QED
  BY <1>7, <1>9, <1>10, <1>11 DEF a, w

\* A separator that is there stays the first whatever comes behind.
LEMMA BeforeMore ==
    ASSUME NEW a \in Seq(Bytes), NEW y \in Seq(Bytes), NEW sep, IsSeparator(sep),
           Separators(a, sep) # {}
    PROVE  Before(a \o y, sep) = Before(a, sep) /\ Separators(a \o y, sep) # {}
<1> DEFINE b == a \o y
<1>1. PICK n : EndsAfter(a, sep, n) /\ n # Len(a)
  BY BeforeEnds
<1>2. Len(sep) \in Nat /\ Len(sep) >= 1
  BY LenProperties DEF IsSeparator
<1>3. /\ b \in Seq(Bytes) /\ Len(b) = Len(a) + Len(y) /\ Len(a) \in Nat /\ Len(y) \in Nat
      /\ \A k \in 1..Len(a) : b[k] = a[k]
  BY BytesOf
<1> HIDE DEF b
<1>4. n \in 0..Len(a) /\ n + 1 \in Separators(a, sep) /\ n + Len(sep) <= Len(a)
      /\ \A k \in 1..Len(sep) : a[(n + 1) + k - 1] = sep[k]
  <2>1. n \in 0..Len(a) /\ n + 1 \in Separators(a, sep)
    BY <1>1 DEF EndsAfter
  <2>2. (n + 1) + Len(sep) - 1 <= Len(a) /\ \A k \in 1..Len(sep) : a[(n + 1) + k - 1] = sep[k]
    BY <2>1, SeparatorAt DEF OccursAt
  <2>3. n + Len(sep) <= Len(a)
    BY <1>2, <1>3, <2>1, <2>2
  <2> QED
    BY <2>1, <2>2, <2>3
<1>5. ASSUME NEW j \in 1..(n + 1)
      PROVE  j \in Separators(b, sep) <=> j \in Separators(a, sep)
  <2>1. /\ j \in 1..Len(a) /\ j \in 1..Len(b)
        /\ j + Len(sep) - 1 <= Len(a) /\ j + Len(sep) - 1 <= Len(b)
    BY <1>2, <1>3, <1>4
  <2>2. \A k \in 1..Len(sep) : b[j + k - 1] = a[j + k - 1]
    <3>1. ASSUME NEW k \in 1..Len(sep) PROVE b[j + k - 1] = a[j + k - 1]
      <4>1. j + k - 1 \in 1..Len(a)
        BY <1>2, <1>3, <1>4
      <4> QED
        BY <1>3, <4>1
    <3> QED
      BY <3>1
  <2>3. j \in Separators(b, sep) <=> \A k \in 1..Len(sep) : b[j + k - 1] = sep[k]
    <3>1. j \in Separators(b, sep) <=> OccursAt(b, sep, j)
      BY <1>3, SeparatorAt
    <3> QED
      BY <2>1, <3>1 DEF OccursAt
  <2>4. j \in Separators(a, sep) <=> \A k \in 1..Len(sep) : a[j + k - 1] = sep[k]
    <3>1. j \in Separators(a, sep) <=> OccursAt(a, sep, j)
      BY SeparatorAt
    <3> QED
      BY <2>1, <3>1 DEF OccursAt
  <2> QED
    BY <2>2, <2>3, <2>4
<1>6. EndsAfter(b, sep, n) /\ n + 1 \in Separators(b, sep)
  <2>1. n \in 0..Len(b) /\ n + 1 \in 1..(n + 1) /\ \A j \in 1..n : j \in 1..(n + 1)
    BY <1>3, <1>4
  <2> QED
    BY <1>1, <1>4, <1>5, <2>1 DEF EndsAfter
<1>7. SubSeq(b, 1, n) = SubSeq(a, 1, n)
  <2>1. AreSplit(a, n) /\ AreSplit(b, n)
    BY <1>3, <1>4, <1>6, Splits DEF EndsAfter
  <2> DEFINE p == SubSeq(a, 1, n)
             q == SubSeq(b, 1, n)
  <2>2. /\ p \in Seq(Bytes) /\ q \in Seq(Bytes) /\ Len(p) = n /\ Len(q) = n
        /\ \A i \in 1..n : p[i] = a[i] /\ q[i] = b[i]
    BY <2>1 DEF AreSplit
  <2> HIDE DEF p, q
  <2>3. \A i \in 1..n : i \in 1..Len(a)
    BY <1>3, <1>4
  <2>4. \A i \in 1..n : p[i] = q[i]
    BY <1>3, <2>2, <2>3
  <2>5. p = q
    BY <2>2, <2>4, SeqEqual
  <2> QED
    BY <2>5 DEF p, q
<1>8. Before(b, sep) = SubSeq(b, 1, n) /\ Before(a, sep) = SubSeq(a, 1, n)
  BY <1>1, <1>3, <1>6, BeforeReads
<1> QED
  BY <1>6, <1>7, <1>8 DEF b

\* What begins with a separator.
LEMMA Starts ==
    ASSUME NEW z \in Seq(Bytes), NEW sep, IsSeparator(sep), 1 \in Separators(z, sep)
    PROVE  \E y \in Seq(Bytes) : z = sep \o y
<1> DEFINE n == Len(sep)
           x == SubSeq(z, 1, n)
           y == SubSeq(z, n + 1, Len(z))
<1>1. sep \in Seq(Bytes) /\ n \in Nat /\ n >= 1 /\ Len(z) \in Nat
  BY LenProperties DEF IsSeparator
<1>2. OccursAt(z, sep, 1)
  BY SeparatorAt
<1>3. n \in 0..Len(z) /\ \A k \in 1..n : z[k] = sep[k]
  <2>1. 1 + n - 1 <= Len(z) /\ \A k \in 1..n : z[1 + k - 1] = sep[k]
    BY <1>2 DEF OccursAt
  <2>2. \A k \in 1..n : 1 + k - 1 = k
    BY <1>1
  <2> QED
    BY <1>1, <2>1, <2>2
<1>4. /\ x \in Seq(Bytes) /\ Len(x) = n /\ y \in Seq(Bytes) /\ z = x \o y
      /\ \A i \in 1..n : x[i] = z[i]
  <2>1. AreSplit(z, n)
    BY <1>3, Splits, Zenon
  <2> QED
    BY <2>1, Zenon DEF AreSplit
<1> HIDE DEF x, y
<1>5. x = sep
  <2>1. \A i \in 1..n : x[i] = sep[i]
    BY <1>3, <1>4
  <2> QED
    BY <1>1, <1>4, <2>1, SeqEqual
<1> QED
  BY <1>4, <1>5

\* A separator that is put in is there.
LEMMA Occurs ==
    ASSUME NEW x \in Seq(Bytes), NEW y \in Seq(Bytes), NEW sep, IsSeparator(sep)
    PROVE  Separators(x \o (sep \o y), sep) # {}
<1> DEFINE w == sep \o y
           a == x \o w
           n == Len(x)
<1>1. sep \in Seq(Bytes) /\ Len(sep) \in Nat /\ Len(sep) >= 1
  BY LenProperties DEF IsSeparator
<1>2. /\ w \in Seq(Bytes) /\ Len(w) = Len(sep) + Len(y) /\ Len(y) \in Nat
      /\ \A k \in 1..Len(sep) : w[k] = sep[k]
  BY <1>1, BytesOf, Zenon
<1> HIDE DEF w
<1>3. /\ a \in Seq(Bytes) /\ Len(a) = n + Len(w) /\ n \in Nat
      /\ \A k \in 1..Len(w) : a[n + k] = w[k]
  BY <1>2, BytesOf
<1> HIDE DEF a, n
<1>4. ASSUME NEW k \in 1..Len(sep) PROVE a[(n + 1) + k - 1] = sep[k]
  <2>1. k \in 1..Len(w) /\ (n + 1) + k - 1 = n + k
    BY <1>1, <1>2, <1>3
  <2> QED
    BY <1>2, <1>3, <2>1
<1>5. n + 1 \in 1..Len(a) /\ (n + 1) + Len(sep) - 1 <= Len(a)
  BY <1>1, <1>2, <1>3
<1>6. OccursAt(a, sep, n + 1)
  BY <1>4, <1>5 DEF OccursAt
<1>7. n + 1 \in Separators(a, sep)
  BY <1>3, <1>6, SeparatorAt
<1> QED
  BY <1>7 DEF a, w

\* Two pieces without a byte have none together.
LEMMA LacksJoined ==
    ASSUME NEW x \in Seq(Bytes), NEW y \in Seq(Bytes), NEW sep
    PROVE  Lacks(x \o y, sep) <=> Lacks(x, sep) /\ Lacks(y, sep)
<1> DEFINE s == x \o y
<1>1. /\ s \in Seq(Bytes) /\ Len(s) = Len(x) + Len(y) /\ Len(x) \in Nat /\ Len(y) \in Nat
      /\ (\A k \in 1..Len(x) : s[k] = x[k])
      /\ (\A k \in 1..Len(y) : s[Len(x) + k] = y[k])
  BY BytesOf
<1> HIDE DEF s
<1>2. ASSUME Lacks(s, sep) PROVE Lacks(x, sep) /\ Lacks(y, sep)
  <2>1. \A k \in 1..Len(x) : k \in 1..Len(s)
    BY <1>1
  <2>2. \A k \in 1..Len(y) : Len(x) + k \in 1..Len(s)
    BY <1>1
  <2> QED
    BY <1>1, <1>2, <2>1, <2>2 DEF Lacks
<1>3. ASSUME Lacks(x, sep), Lacks(y, sep) PROVE Lacks(s, sep)
  <2>1. ASSUME NEW k \in 1..Len(s) PROVE s[k] # sep
    <3>1. CASE k <= Len(x)
      BY <1>1, <1>3, <3>1 DEF Lacks
    <3>2. CASE k > Len(x)
      <4>1. k - Len(x) \in 1..Len(y) /\ Len(x) + (k - Len(x)) = k
        BY <1>1, <3>2
      <4>2. s[Len(x) + (k - Len(x))] = y[k - Len(x)] /\ y[k - Len(x)] # sep
        BY <1>1, <1>3, <4>1, Zenon DEF Lacks
      <4> QED
        BY <4>1, <4>2
    <3> QED
      BY <1>1, <3>1, <3>2
  <2> QED
    BY <2>1 DEF Lacks
<1> QED
  BY <1>2, <1>3 DEF s

\* Forge's separator is one byte.
LEMMA ForgeLacks ==
    ASSUME NEW a \in Seq(Bytes)
    PROVE  IsForgeAddress(a) <=> ~Lacks(a, 0)
<1>1. IsSeparator(ForgeSeparator) /\ Len(ForgeSeparator) = 1 /\ ForgeSeparator[1] = 0 /\ Len(a) \in Nat
  BY SepBytes, LenProperties
<1>2. ASSUME NEW i PROVE i \in Separators(a, ForgeSeparator) <=> i \in 1..Len(a) /\ a[i] = 0
  <2>1. i \in Separators(a, ForgeSeparator) <=> OccursAt(a, ForgeSeparator, i)
    BY <1>1, SeparatorAt
  <2> QED
    BY <1>1, <2>1 DEF OccursAt
<1> QED
  BY <1>2 DEF IsForgeAddress, Lacks

\* It comes where the rest begins.
LEMMA ForgeFound ==
    ASSUME NEW x \in Seq(Bytes), NEW y \in Seq(Bytes), Lacks(x, 0)
    PROVE  /\ Before(x \o (ForgeSeparator \o y), ForgeSeparator) = x
           /\ Behind(x \o (ForgeSeparator \o y), ForgeSeparator) = y
           /\ IsForgeAddress(x \o (ForgeSeparator \o y))
<1> DEFINE F == ForgeSeparator
           w == F \o y
           a == x \o w
<1>1. IsSeparator(F) /\ F \in Seq(Bytes) /\ Len(F) = 1 /\ F[1] = 0
  BY SepBytes DEF IsSeparator
<1> HIDE DEF F
<1>2. w \in Seq(Bytes)
  BY <1>1, BytesOf
<1> HIDE DEF w
<1>3. a \in Seq(Bytes) /\ Len(x) \in Nat /\ \A k \in 1..Len(x) : a[k] = x[k]
  BY <1>2, BytesOf
<1> HIDE DEF a
<1>4. ASSUME NEW j \in 1..Len(x), j \in Separators(a, F) PROVE FALSE
  <2>1. OccursAt(a, F, j)
    BY <1>1, <1>3, <1>4, SeparatorAt
  <2>2. a[j + 1 - 1] = 0 /\ j + 1 - 1 = j
    BY <1>1, <1>3, <2>1 DEF OccursAt
  <2> QED
    BY <1>3, <2>2 DEF Lacks
<1>5. \A j \in 1..Len(x) : j \notin Separators(x \o (F \o y), F)
  BY <1>4 DEF a, w
<1>6. /\ Before(x \o (F \o y), F) = x
      /\ Behind(x \o (F \o y), F) = y
      /\ Separators(x \o (F \o y), F) # {}
  BY <1>1, <1>5, BeforeFound
<1> QED
  BY <1>6 DEF F, IsForgeAddress

\* Every address is cut there.
LEMMA ForgeSplits ==
    ASSUME NEW a \in Seq(Bytes)
    PROVE  LET x == Before(a, ForgeSeparator)
           IN  /\ x \in Seq(Bytes) /\ Lacks(x, 0)
               /\ ~IsForgeAddress(a) => x = a
               /\ IsForgeAddress(a) => \E y \in Seq(Bytes) : a = x \o (ForgeSeparator \o y)
<1> DEFINE F == ForgeSeparator
           x == Before(a, F)
<1>1. IsSeparator(F) /\ Len(a) \in Nat
  BY SepBytes, LenProperties
<1>2. CASE ~IsForgeAddress(a)
  <2>1. x = a
    BY <1>2, BeforeWhole DEF IsForgeAddress
  <2> QED
    BY <1>2, <2>1, ForgeLacks
<1>3. CASE IsForgeAddress(a)
  <2>1. PICK n : EndsAfter(a, F, n) /\ n # Len(a)
    BY <1>1, <1>3, BeforeEnds DEF IsForgeAddress
  <2>2. n \in 0..Len(a) /\ n + 1 \in Separators(a, F)
    BY <2>1 DEF EndsAfter
  <2>3. x = SubSeq(a, 1, n)
    BY <2>1, BeforeReads
  <2> DEFINE z == SubSeq(a, n + 1, Len(a))
  <2>4. /\ x \in Seq(Bytes) /\ Len(x) = n /\ z \in Seq(Bytes) /\ Len(z) = Len(a) - n /\ a = x \o z
        /\ \A i \in 1..n : x[i] = a[i]
    <3>1. AreSplit(a, n)
      BY <2>2, Splits, Zenon
    <3> QED
      BY <2>3, <3>1, Zenon DEF AreSplit
  <2> HIDE DEF x, z
  <2>5. /\ Len(x \o z) = Len(x) + Len(z) /\ \A k \in 1..Len(z) : (x \o z)[Len(x) + k] = z[k]
    BY <2>4, BytesOf, Zenon
  <2>6. 1 \in Separators(z, F)
    <3>1. OccursAt(a, F, n + 1)
      BY <1>1, <2>2, SeparatorAt
    <3>2. n + 1 \in 1..Len(a) /\ (n + 1) + Len(F) - 1 <= Len(a)
          /\ \A k \in 1..Len(F) : a[(n + 1) + k - 1] = F[k]
      BY <3>1 DEF OccursAt
    <3>3. Len(F) = 1
      BY SepBytes
    <3>4. 1 \in 1..Len(z) /\ 1 + Len(F) - 1 <= Len(z)
      BY <1>1, <2>2, <2>4, <3>2, <3>3
    <3>5. z[1] = F[1]
      <4>1. a[(n + 1) + 1 - 1] = F[1] /\ (n + 1) + 1 - 1 = n + 1
        BY <2>2, <3>2, <3>3
      <4>2. a[n + 1] = z[1]
        BY <2>4, <2>5, <3>4
      <4> QED
        BY <4>1, <4>2
    <3>6. OccursAt(z, F, 1)
      <4>1. \A k \in 1..Len(F) : k = 1 /\ 1 + k - 1 = 1
        BY <3>3
      <4> QED
        BY <3>4, <3>5, <4>1 DEF OccursAt
    <3> QED
      BY <1>1, <2>4, <3>6, SeparatorAt
  <2>7. PICK y \in Seq(Bytes) : z = F \o y
    BY <1>1, <2>4, <2>6, Starts
  <2>8. Lacks(x, 0)
    <3>1. ASSUME NEW i \in 1..Len(x), x[i] = 0 PROVE FALSE
      <4>1. i \in 1..n /\ i \in 1..Len(a) /\ a[i] = 0
        BY <1>1, <2>2, <2>4, <3>1
      <4>2. i \notin Separators(a, F)
        BY <2>1, <4>1 DEF EndsAfter
      <4>3. OccursAt(a, F, i)
        <5>1. Len(F) = 1 /\ F[1] = 0
          BY SepBytes
        <5> HIDE DEF F
        <5>2. i + Len(F) - 1 <= Len(a) /\ \A k \in 1..Len(F) : i + k - 1 = i /\ k = 1
          BY <1>1, <4>1, <5>1
        <5> QED
          BY <4>1, <5>1, <5>2 DEF OccursAt
      <4> QED
        BY <1>1, <4>2, <4>3, SeparatorAt
    <3> QED
      BY <3>1 DEF Lacks
  <2> QED
    BY <1>3, <2>4, <2>7, <2>8 DEF x
<1> QED
  BY <1>2, <1>3

EndsInSlash(x) == x # <<>> /\ x[Len(x)] = Slash

\* RealIP's separator has three, and comes where the rest begins unless it runs into another.
LEMMA RealIPFound ==
    ASSUME NEW x \in Seq(Bytes), NEW y \in Seq(Bytes), ~IsRealIPAddress(x), ~EndsInSlash(x)
    PROVE  /\ Before(x \o (RealIPSeparator \o y), RealIPSeparator) = x
           /\ Behind(x \o (RealIPSeparator \o y), RealIPSeparator) = y
<1> DEFINE R == RealIPSeparator
           w == R \o y
           a == x \o w
<1>1. IsSeparator(R) /\ R \in Seq(Bytes) /\ Len(R) = 3 /\ R[1] = Slash /\ R[2] = Slash /\ R[3] = Slash
  BY SepBytes DEF IsSeparator
<1> HIDE DEF R
<1>2. w \in Seq(Bytes)
  BY <1>1, BytesOf
<1> HIDE DEF w
<1>3. a \in Seq(Bytes) /\ Len(x) \in Nat /\ \A k \in 1..Len(x) : a[k] = x[k]
  BY <1>2, BytesOf
<1> HIDE DEF a
<1>4. ASSUME NEW j \in 1..Len(x), j \in Separators(a, R) PROVE FALSE
  <2>1. OccursAt(a, R, j)
    BY <1>1, <1>3, <1>4, SeparatorAt
  <2>2. a[j + 1 - 1] = Slash /\ a[j + 2 - 1] = Slash /\ a[j + 3 - 1] = Slash
    BY <1>1, <2>1 DEF OccursAt
  <2>3. a[j] = Slash /\ a[j + 1] = Slash /\ a[j + 2] = Slash
    <3>1. j + 1 - 1 = j /\ j + 2 - 1 = j + 1 /\ j + 3 - 1 = j + 2
      BY <1>3
    <3> QED
      BY <2>2, <3>1
  <2>4. CASE j + 2 <= Len(x)
    <3>1. x[j] = Slash /\ x[j + 1] = Slash /\ x[j + 2] = Slash
      <4>1. j \in 1..Len(x) /\ j + 1 \in 1..Len(x) /\ j + 2 \in 1..Len(x)
        BY <1>3, <2>4
      <4> QED
        BY <1>3, <2>3, <4>1
    <3>2. ASSUME NEW k \in 1..Len(R) PROVE x[j + k - 1] = R[k]
      <4>1. \/ k = 1 /\ j + k - 1 = j
            \/ k = 2 /\ j + k - 1 = j + 1
            \/ k = 3 /\ j + k - 1 = j + 2
        BY <1>1, <1>3
      <4> QED
        BY <1>1, <3>1, <4>1
    <3>3. j + Len(R) - 1 <= Len(x)
      BY <1>1, <1>3, <2>4
    <3>4. OccursAt(x, R, j)
      BY <3>2, <3>3 DEF OccursAt
    <3> QED
      BY <1>1, <3>4, SeparatorAt DEF IsRealIPAddress, R
  <2>5. CASE ~(j + 2 <= Len(x))
    <3>1. Len(x) \in {j, j + 1} /\ Len(x) \in 1..Len(x) /\ x # <<>>
      BY <1>3, <2>5, EmptySeq
    <3>2. x[Len(x)] = a[Len(x)] /\ a[Len(x)] = Slash
      BY <1>3, <2>3, <3>1
    <3> QED
      BY <3>1, <3>2 DEF EndsInSlash
  <2> QED
    BY <2>4, <2>5
<1>5. \A j \in 1..Len(x) : j \notin Separators(x \o (R \o y), R)
  BY <1>4 DEF a, w
<1>6. /\ Before(x \o (R \o y), R) = x
      /\ Behind(x \o (R \o y), R) = y
  BY <1>1, <1>5, BeforeFound
<1> QED
  BY <1>6 DEF R

-----------------------------------------------------------------------------
\* basic.go, worker/worker.go: the host is what comes before the first separator of a mod.
LEMMA HostParsed ==
    ASSUME NEW h \in Seq(Bytes), NEW z \in Seq(Bytes), ~IsForgeAddress(h), ~IsRealIPAddress(h),
           \/ z = <<>>
           \/ 1 \in Separators(z, ForgeSeparator)
           \/ 1 \in Separators(z, RealIPSeparator) /\ ~EndsInSlash(h)
    PROVE  ParseServerAddress(h \o z) = h
<1>1. IsSeparator(ForgeSeparator) /\ IsSeparator(RealIPSeparator) /\ RealIPSeparator \in Seq(Bytes)
      /\ Lacks(RealIPSeparator, 0) /\ Lacks(h, 0)
  BY SepBytes, ForgeLacks DEF IsSeparator
<1>2. Before(h, RealIPSeparator) = h
  BY BeforeWhole DEF IsRealIPAddress
<1>3. CASE z = <<>>
  <2>1. h \o z = h
    BY <1>3, ConcatEmptySeq
  <2>2. Before(h, ForgeSeparator) = h
    BY BeforeWhole DEF IsForgeAddress
  <2> QED
    BY <1>2, <2>1, <2>2 DEF ParseServerAddress
<1>4. CASE 1 \in Separators(z, ForgeSeparator)
  <2>1. PICK y \in Seq(Bytes) : z = ForgeSeparator \o y
    BY <1>1, <1>4, Starts
  <2>2. Before(h \o z, ForgeSeparator) = h
    BY <1>1, <2>1, ForgeFound
  <2> QED
    BY <1>2, <2>2 DEF ParseServerAddress
<1>5. CASE 1 \in Separators(z, RealIPSeparator) /\ ~EndsInSlash(h)
  <2>1. PICK y \in Seq(Bytes) : z = RealIPSeparator \o y
    BY <1>1, <1>5, Starts
  <2> DEFINE p == Before(h \o z, ForgeSeparator)
  <2>2. \E u \in Seq(Bytes) : p = h \o (RealIPSeparator \o u)
    <3> DEFINE u == Before(y, ForgeSeparator)
               R == RealIPSeparator
               x == h \o (R \o u)
    <3>1. u \in Seq(Bytes) /\ Lacks(u, 0)
      BY ForgeSplits
    <3>2. R \o u \in Seq(Bytes) /\ x \in Seq(Bytes) /\ Lacks(x, 0)
      <4> HIDE DEF u, R
      <4>1. R \o u \in Seq(Bytes) /\ Lacks(R \o u, 0)
        BY <1>1, <3>1, LacksJoined, BytesOf DEF R
      <4> DEFINE v == R \o u
      <4> HIDE DEF v
      <4>2. v \in Seq(Bytes) /\ Lacks(v, 0)
        BY <4>1 DEF v
      <4>3. h \o v \in Seq(Bytes) /\ Lacks(h \o v, 0)
        BY <1>1, <4>2, LacksJoined, BytesOf
      <4> QED
        BY <4>1, <4>3 DEF v
    <3>3. CASE ~IsForgeAddress(y)
      <4>1. u = y
        BY <3>3, ForgeSplits
      <4>2. h \o z = x
        BY <2>1, <4>1
      <4> HIDE DEF x
      <4>3. Before(x, ForgeSeparator) = x
        BY <3>2, ForgeLacks, BeforeWhole DEF IsForgeAddress
      <4> QED
        BY <3>1, <4>2, <4>3 DEF x
    <3>4. CASE IsForgeAddress(y)
      <4>1. PICK t \in Seq(Bytes) : y = u \o (ForgeSeparator \o t)
        BY <3>4, ForgeSplits
      <4> DEFINE w == ForgeSeparator \o t
      <4>2. w \in Seq(Bytes)
        BY <1>1, BytesOf DEF IsSeparator
      <4> HIDE DEF w, u
      <4>3. AreAssociative(R, u, w) /\ AreAssociative(h, R \o u, w)
        BY <1>1, <3>1, <3>2, <4>2, Associates, Zenon DEF R
      <4>4. h \o z = x \o w
        BY <2>1, <4>1, <4>3 DEF AreAssociative, w
      <4> HIDE DEF x
      <4>5. Before(x \o (ForgeSeparator \o t), ForgeSeparator) = x
        BY <3>2, ForgeFound
      <4> QED
        BY <3>1, <4>4, <4>5 DEF x, w
    <3> QED
      BY <3>3, <3>4
  <2>3. PICK u \in Seq(Bytes) : p = h \o (RealIPSeparator \o u)
    BY <2>2
  <2>4. Before(h \o (RealIPSeparator \o u), RealIPSeparator) = h
    BY <1>5, RealIPFound
  <2> QED
    BY <2>3, <2>4 DEF ParseServerAddress
<1> QED
  BY <1>3, <1>4, <1>5

-----------------------------------------------------------------------------
(* What follows from the reader's invariant.                                *)

\* Nothing has been read.
LEMMA ReaderInit == ASSUME Init PROVE Reader
<1>1. /\ fetched = 0 /\ buffered = <<>> /\ part = <<>> /\ need = 0 /\ packets = <<>>
      /\ stage = "length" /\ why = "none" /\ deadline = TRUE /\ answer = "none"
  BY DEF Init
<1>2. script \in Seq(Bytes) /\ Sent
  <2>1. CASE intent \in Intents /\ \E k \in 0..Len(HonestBytes(intent)) :
                                      script = SubSeq(HonestBytes(intent), 1, k)
    <3>1. PICK k \in 0..Len(HonestBytes(intent)) : script = SubSeq(HonestBytes(intent), 1, k)
      BY <2>1
    <3>2. HonestBytes(intent) \in Seq(Bytes)
      BY <2>1, FullReads
    <3> DEFINE y == SubSeq(HonestBytes(intent), k + 1, Len(HonestBytes(intent)))
    <3>3. script \in Seq(Bytes) /\ y \in Seq(Bytes) /\ HonestBytes(intent) = script \o y
      BY <3>1, <3>2, Split
    <3>4. intent # NoIntent
      BY <2>1, PacketStreamAssumption DEF NoIntent
    <3>5. Full(intent, answer) = HonestBytes(intent) /\ answer # "status"
      BY <1>1 DEF Full
    <3> HIDE DEF y
    <3> QED
      BY <2>1, <3>3, <3>4, <3>5 DEF Sent
  <2>2. CASE intent = NoIntent /\ script \in Others
    BY <2>2, PacketStreamAssumption DEF Sent, Fits
  <2> QED
    BY <2>1, <2>2 DEF Init
<1>3. Len(script) \in Nat /\ Len(<<>>) = 0 /\ Word \div 2 \in Nat /\ Word \div 2 >= 1
  BY <1>2, LenProperties, EmptySeq, Sizes
<1>4. StreamTypes
  <2>1. 0 \in 0..Len(script) /\ 0 \in 0..(Word \div 2 - 1)
    BY <1>3
  <2>2. <<>> \in Seq(Bytes) /\ <<>> \in Seq([id : Bytes, data : Seq(Bytes)])
    BY EmptySeq
  <2> QED
    BY <1>1, <1>2, <2>1, <2>2 DEF StreamTypes
<1>5. Phases
  BY <1>1, <1>3 DEF Phases, Reading
<1>6. After(script, 0).packets = <<>> /\ After(script, 0).rest = script
  BY AfterDef DEF AfterNone
<1>7. PacketsRead
  <2>1. Whole(script, 0)
    BY DEF Whole
  <2> QED
    BY <1>1, <1>3, <1>6, <2>1 DEF PacketsRead
<1>8. Pending = script
  <2>1. 0 \in 0..Len(script) /\ 0 \in 0..0
    BY <1>3
  <2>2. SubSeq(script, 1, 0) = <<>> /\ SubSeq(script, 0 + 1, Len(script)) = script
    <3>1. script = SubSeq(script, 1, 0) \o SubSeq(script, 0 + 1, Len(script))
          /\ SubSeq(script, 1, 0) \in Seq(Bytes) /\ Len(SubSeq(script, 1, 0)) = 0
          /\ SubSeq(script, 0 + 1, Len(script)) \in Seq(Bytes)
      BY <1>2, <2>1, Split
    <3>2. SubSeq(script, 1, 0) = <<>>
      BY <3>1, EmptySeq
    <3> QED
      BY <3>1, <3>2, ConcatEmptySeq
  <2>3. Unread = script
    BY <1>1, <2>2 DEF Unread, From
  <2>4. <<>> \o script = script
    BY <1>2, ConcatEmptySeq
  <2> QED
    BY <1>1, <2>3, <2>4 DEF Pending
<1>9. RestUnread
  BY <1>1, <1>3, <1>6, <1>8 DEF RestUnread
<1>10. Understood /\ HonestAccepted
  BY <1>1, <1>3 DEF Understood, HonestAccepted
<1> QED
  BY <1>2, <1>4, <1>5, <1>7, <1>9, <1>10 DEF Reader

\* Every step keeps the reader's invariant.
LEMMA ReaderNext == ASSUME Reader, [Next]_vars PROVE Reader'
<1>1. CASE UNCHANGED vars
  <2>1. UNCHANGED <<intent, script, fetched, buffered, part, need, packets, stage, why, deadline, answer>>
    BY <1>1 DEF vars, readerVars, outVars
  <2>2. Pending' = Pending
    BY <2>1 DEF Pending, Unread
  <2>3. StreamTypes' /\ Phases'
    BY <2>1 DEF Reader, StreamTypes, Phases, Reading
  <2>4. Sent' /\ Understood' /\ HonestAccepted'
    BY <2>1 DEF Reader, Sent, Understood, HonestAccepted
  <2>5. PacketsRead' /\ RestUnread'
    BY <2>1, <2>2 DEF Reader, PacketsRead, RestUnread, InFrame
  <2> QED
    BY <2>3, <2>4, <2>5 DEF Reader
<1> QED
  BY <1>1, FetchReads, TakeByteReads, TakeBodyReads, LengthReadReads, LengthRefusedReads,
     ClientLeftReads, DeadlineReads, HandshakeReadReads, SecondReadReads, PingReadReads,
     NotAnsweredReads, SendEmptyReads, SendStatusReads DEF Next, Step

\* mc/conn.go, worker/worker.go: whatever the pieces and whenever the client leaves, nothing
\* it has sent is lost, doubled or taken out of order.
THEOREM ReaderKept == Spec => []Reader
<1>1. Init => Reader
  BY ReaderInit
<1>2. Reader /\ [Next]_vars => Reader'
  BY ReaderNext
<1> QED
  BY <1>1, <1>2, PTL DEF Spec

-----------------------------------------------------------------------------
\* The request is what the client meant.
LEMMA Recovered == ASSUME Reader PROVE RequestRecovered
<1>1. SUFFICES ASSUME HasRequest, intent # NoIntent
               PROVE  /\ Request = [type |-> RequestState(intent.NextState), addr |-> Request.addr,
                                     hs |-> Handshake(intent),
                                     name |-> IF intent.NextState = 2 THEN intent.name ELSE <<>>]
                      /\ ~SlashesMeet(intent) => Request.addr = ToLower(intent.host)
  BY DEF RequestRecovered
<1>2. intent \in Intents /\ Len(packets) \in Nat /\ Len(packets) >= 2
  BY <1>1, LenProperties DEF Reader, Sent, StreamTypes, HasRequest
<1>3. packets[1] = Expected(intent)[1] /\ packets[2] = Expected(intent)[2]
  BY <1>1, <1>2 DEF Reader, Understood
<1>4. ParsedHandshake(packets[1]) = Handshake(intent) /\ Handshake(intent).NextState = intent.NextState
  BY <1>2, <1>3, FirstUnderstood
<1>5. ReqType = RequestState(intent.NextState)
  BY <1>4 DEF ReqType
<1>6. ASSUME ~SlashesMeet(intent)
      PROVE  ParseServerAddress(Handshake(intent).ServerAddress) = intent.host
  <2> DEFINE h == intent.host
             z == intent.extra
  <2>1. /\ h \in Seq(Bytes) /\ ~IsForgeAddress(h) /\ ~IsRealIPAddress(h) /\ z \in Seq(Bytes)
        /\ z = <<>> \/ 1 \in Separators(z, ForgeSeparator) \/ 1 \in Separators(z, RealIPSeparator)
    BY <1>2, PacketStreamAssumption
  <2>2. EndsInSlash(h) => 1 \notin Separators(z, RealIPSeparator)
    BY <1>6 DEF SlashesMeet, EndsInSlash
  <2>3. Handshake(intent).ServerAddress = h \o z
    BY DEF Handshake
  <2> HIDE DEF h, z
  <2>4. ParseServerAddress(h \o z) = h
    BY <2>1, <2>2, HostParsed
  <2> QED
    BY <2>3, <2>4 DEF h
<1>7. ReqType = "login" <=> intent.NextState = 2
  <2>1. intent.NextState = 1 => intent.NextState # 2
    OBVIOUS
  <2> QED
    BY <1>5, <2>1 DEF RequestState
<1>8. ReqType = "login" => UnmarshalText(packets[2]).val = intent.name
  BY <1>2, <1>3, <1>5, SecondUnderstood
<1>9. Request.addr = ToLower(ParseServerAddress(Handshake(intent).ServerAddress))
  BY <1>4 DEF Request
<1>10. Request = [type |-> RequestState(intent.NextState), addr |-> Request.addr,
                  hs |-> Handshake(intent),
                  name |-> IF intent.NextState = 2 THEN intent.name ELSE <<>>]
  BY <1>4, <1>5, <1>7, <1>8 DEF Request
<1> QED
  BY <1>6, <1>9, <1>10

\* mc/packet.go, mc/packet_login.go: the readers of the three packages agree on all that
\* a client sends.
THEOREM StreamReadersAgree == Spec => []ReadersAgree
<1>1. Reader => ReadersAgree
  BY ReadersAlwaysAgree DEF Reader, StreamTypes, ReadersAgree
<1> QED
  BY <1>1, ReaderKept, PTL
-----------------------------------------------------------------------------
(* What RealIP puts into an address.                                        *)

\* Six sequences in a row.
AreStrung(a, b, c, d, e, f) ==
    /\ a \o b \o c \o d \o e \o f = a \o (b \o (c \o (d \o (e \o f))))
    /\ e \o f \in Seq(Bytes) /\ d \o (e \o f) \in Seq(Bytes)
    /\ c \o (d \o (e \o f)) \in Seq(Bytes) /\ b \o (c \o (d \o (e \o f))) \in Seq(Bytes)
    /\ a \o (b \o (c \o (d \o (e \o f)))) \in Seq(Bytes)
    /\ Len(a \o (b \o (c \o (d \o (e \o f)))))
          = Len(a) + Len(b) + Len(c) + Len(d) + Len(e) + Len(f)

\* Six pieces in a row.
LEMMA Strung ==
    ASSUME NEW a \in Seq(Bytes), NEW b \in Seq(Bytes), NEW c \in Seq(Bytes), NEW d \in Seq(Bytes),
           NEW e \in Seq(Bytes), NEW f \in Seq(Bytes)
    PROVE  AreStrung(a, b, c, d, e, f)
<1> DEFINE u == e \o f
           v == d \o u
           w == c \o v
           x == b \o w
           y == a \o x
           p == a \o b
           q == p \o c
           r == q \o d
<1>1. u \in Seq(Bytes) /\ Len(u) = Len(e) + Len(f) /\ p \in Seq(Bytes)
  BY Cut
<1>2. (r \o e) \o f = r \o u
  <2>1. q \in Seq(Bytes)
    <3> HIDE DEF p
    <3> QED
      BY <1>1, Cut
  <2>2. r \in Seq(Bytes)
    <3> HIDE DEF q
    <3> QED
      BY <2>1, Cut
  <2> HIDE DEF r
  <2>3. AreAssociative(r, e, f)
    BY <2>2, Associates, Zenon
  <2> QED
    BY <2>3 DEF AreAssociative
<1> HIDE DEF u
<1>3. v \in Seq(Bytes) /\ Len(v) = Len(d) + Len(u)
  <2>1. AreJoined(d, u)
    BY <1>1, Joins, Zenon
  <2> QED
    BY <2>1 DEF AreJoined
<1>4. (q \o d) \o u = q \o v
  <2>1. q \in Seq(Bytes)
    <3> HIDE DEF p
    <3> QED
      BY <1>1, Cut
  <2> HIDE DEF q
  <2>2. AreAssociative(q, d, u)
    BY <1>1, <2>1, Associates, Zenon
  <2> QED
    BY <2>2 DEF AreAssociative
<1> HIDE DEF v
<1>5. w \in Seq(Bytes) /\ Len(w) = Len(c) + Len(v)
  <2>1. AreJoined(c, v)
    BY <1>3, Joins, Zenon
  <2> QED
    BY <2>1 DEF AreJoined
<1>6. (p \o c) \o v = p \o w
  <2> HIDE DEF p
  <2> QED
    <3>1. p \in Seq(Bytes) /\ v \in Seq(Bytes)
      BY <1>1, <1>3
    <3>2. AreAssociative(p, c, v)
      BY <3>1, Associates, Zenon
    <3> QED
      BY <3>2 DEF AreAssociative
<1> HIDE DEF w
<1>7. x \in Seq(Bytes) /\ Len(x) = Len(b) + Len(w)
  <2>1. AreJoined(b, w)
    BY <1>5, Joins, Zenon
  <2> QED
    BY <2>1 DEF AreJoined
<1>8. (a \o b) \o w = a \o x
  <2>1. w \in Seq(Bytes)
    BY <1>5
  <2>2. AreAssociative(a, b, w)
    BY <2>1, Associates, Zenon
  <2> QED
    BY <2>2 DEF AreAssociative
<1> HIDE DEF x
<1>9. y \in Seq(Bytes) /\ Len(y) = Len(a) + Len(x)
  <2>1. AreJoined(a, x)
    BY <1>7, Joins, Zenon
  <2> QED
    BY <2>1 DEF AreJoined
<1>10. a \o b \o c \o d \o e \o f = y
  <2>1. r = q \o d /\ q = p \o c /\ p = a \o b
    OBVIOUS
  <2>2. (((((a \o b) \o c) \o d) \o e) \o f) = (r \o e) \o f
    OBVIOUS
  <2> HIDE DEF p, q, r
  <2> QED
    BY <1>2, <1>4, <1>6, <1>8, <2>1, <2>2
<1>11. Len(a) \in Nat /\ Len(b) \in Nat /\ Len(c) \in Nat /\ Len(d) \in Nat /\ Len(e) \in Nat /\ Len(f) \in Nat
  BY LenProperties
<1> HIDE DEF y
<1>12. Len(y) = Len(a) + Len(b) + Len(c) + Len(d) + Len(e) + Len(f)
  BY <1>1, <1>3, <1>5, <1>7, <1>9, <1>11
<1>13. y = a \o (b \o (c \o (d \o (e \o f))))
  BY DEF y, x, w, v, u
<1>14. /\ e \o f \in Seq(Bytes) /\ d \o (e \o f) \in Seq(Bytes)
       /\ c \o (d \o (e \o f)) \in Seq(Bytes) /\ b \o (c \o (d \o (e \o f))) \in Seq(Bytes)
  BY <1>1, <1>3, <1>5, <1>7, Zenon DEF x, w, v, u
<1> QED
  BY <1>9, <1>10, <1>12, <1>13, <1>14, Zenon DEF AreStrung

\* The pieces RealIP puts into an address.
LEMMA RealIPParts ==
    /\ ClientAddr \in Seq(Bytes) /\ Stamp \in Seq(Bytes) /\ Signature \in Seq(Bytes)
    /\ Lacks(ClientAddr, 0) /\ Lacks(Stamp, 0) /\ Lacks(Signature, 0)
    /\ ~IsRealIPAddress(ClientAddr) /\ ~EndsInSlash(ClientAddr)
<1>1. ASSUME NEW s \in Seq(Bytes \ {0}) PROVE s \in Seq(Bytes) /\ Lacks(s, 0)
  <2>1. \A k \in 1..Len(s) : s[k] \in Bytes \ {0}
    BY ElementOfSeq
  <2>2. Bytes \ {0} \subseteq Bytes
    OBVIOUS
  <2> QED
    BY <2>1, <2>2, SeqMonotonic DEF Lacks
<1>2. /\ ClientAddr \in Seq(Bytes \ {0, Slash}) /\ Stamp \in Seq(Bytes \ {0, Slash})
      /\ Signature \in Seq(Bytes \ {0})
      /\ ClientAddr \in Seq(Bytes \ {0}) /\ Stamp \in Seq(Bytes \ {0})
  <2>1. Bytes \ {0, Slash} \subseteq Bytes \ {0}
    OBVIOUS
  <2> QED
    BY <2>1, PacketStreamAssumption, SeqMonotonic
<1>3. /\ ClientAddr \in Seq(Bytes) /\ Lacks(ClientAddr, 0)
      /\ \A k \in 1..Len(ClientAddr) : ClientAddr[k] # Slash
  <2>1. \A k \in 1..Len(ClientAddr) : ClientAddr[k] \in Bytes \ {0, Slash}
    BY <1>2, ElementOfSeq
  <2> QED
    BY <1>1, <1>2, <2>1
<1>4. Stamp \in Seq(Bytes) /\ Lacks(Stamp, 0) /\ Signature \in Seq(Bytes) /\ Lacks(Signature, 0)
  BY <1>1, <1>2
<1>5. Len(ClientAddr) \in Nat
  BY <1>3, LenProperties
<1>6. ~EndsInSlash(ClientAddr)
  <2>1. SUFFICES ASSUME ClientAddr # <<>> PROVE ClientAddr[Len(ClientAddr)] # Slash
    BY DEF EndsInSlash
  <2>2. Len(ClientAddr) \in 1..Len(ClientAddr)
    BY <1>3, <1>5, <2>1, EmptySeq
  <2> QED
    BY <1>3, <2>2
<1>7. ~IsRealIPAddress(ClientAddr)
  <2>1. SUFFICES ASSUME NEW i \in Separators(ClientAddr, RealIPSeparator) PROVE FALSE
    BY DEF IsRealIPAddress
  <2>2. IsSeparator(RealIPSeparator) /\ Len(RealIPSeparator) = 3 /\ RealIPSeparator[1] = Slash
    BY SepBytes
  <2>3. OccursAt(ClientAddr, RealIPSeparator, i)
    BY <1>3, <2>2, SeparatorAt
  <2>4. i \in 1..Len(ClientAddr) /\ ClientAddr[i + 1 - 1] = Slash /\ i + 1 - 1 = i
    BY <1>5, <2>2, <2>3 DEF OccursAt
  <2> QED
    BY <1>3, <2>4
<1> QED
  BY <1>3, <1>4, <1>6, <1>7

\* What comes before Forge's separator has none of RealIP's that the whole has not.
LEMMA NoneInFront ==
    ASSUME NEW x \in Seq(Bytes), NEW y \in Seq(Bytes), ~IsRealIPAddress(x \o y)
    PROVE  ~IsRealIPAddress(x)
<1>1. IsSeparator(RealIPSeparator)
  BY SepBytes
<1> QED
  BY <1>1, BeforeMore DEF IsRealIPAddress

\* up is the address a with RealIP: what is behind the host, and that nothing is lost.
Tagged(a, up) ==
    LET host == Before(a, ForgeSeparator)
    IN  /\ up \in Seq(Bytes) /\ host \in Seq(Bytes) /\ ~IsRealIPAddress(host)
        /\ \E t \in Seq(Bytes) : up = host \o (RealIPSeparator \o
                                          (ClientAddr \o (RealIPSeparator \o t)))
        /\ \E w \in Seq(Bytes) : Before(up, ForgeSeparator) = host \o (RealIPSeparator \o w)
        /\ IsForgeAddress(up) <=> IsForgeAddress(a)
        /\ IsForgeAddress(a) => ForgePart(up) = ForgePart(a)

\* An address without RealIP gets it, whatever comes behind as long as it has no
\* separator of Forge.
LEMMA PutShape ==
    ASSUME NEW a \in Seq(Bytes), ~IsRealIPAddress(a), NEW g \in Seq(Bytes), Lacks(g, 0),
           NEW up, up = UpgradeToOldRealIP(a, ClientAddr, Stamp) \o g
    PROVE  UpgradeToOldRealIP(a, ClientAddr, Stamp) \in Seq(Bytes) /\ Tagged(a, up)
<1> DEFINE F == ForgeSeparator
           R == RealIPSeparator
           C == ClientAddr
           T == Stamp
           h == Before(a, F)
           E == IF IsForgeAddress(a) THEN F \o ForgePart(a) \o F ELSE <<>>
           x1 == h \o R
           x2 == x1 \o C
           x3 == x2 \o R
           X == x3 \o T
<1>1. /\ F \in Seq(Bytes) /\ R \in Seq(Bytes) /\ C \in Seq(Bytes) /\ T \in Seq(Bytes)
      /\ Lacks(R, 0) /\ Lacks(C, 0) /\ Lacks(T, 0)
  BY SepBytes, RealIPParts DEF IsSeparator
<1>2. /\ h \in Seq(Bytes) /\ Lacks(h, 0) /\ (~IsForgeAddress(a) => h = a)
      /\ IsForgeAddress(a) => \E y \in Seq(Bytes) : a = h \o (F \o y)
  BY ForgeSplits
<1>3. ~IsRealIPAddress(h)
  <2>1. CASE ~IsForgeAddress(a)
    BY <1>2, <2>1
  <2>2. CASE IsForgeAddress(a)
    <3>1. PICK y \in Seq(Bytes) : a = h \o (F \o y)
      BY <1>2, <2>2
    <3>2. F \o y \in Seq(Bytes)
      BY <1>1, BytesOf
    <3> HIDE DEF h, F
    <3> QED
      BY <1>2, <3>1, <3>2, NoneInFront
  <2> QED
    BY <2>1, <2>2
<1>4. IsForgeAddress(a) => /\ ForgePart(a) \in Seq(Bytes) /\ Lacks(ForgePart(a), 0)
  <2>1. SUFFICES ASSUME IsForgeAddress(a) PROVE ForgePart(a) \in Seq(Bytes) /\ Lacks(ForgePart(a), 0)
    OBVIOUS
  <2>2. PICK y \in Seq(Bytes) : a = h \o (F \o y)
    BY <1>2, <2>1
  <2>3. Behind(a, F) = y
    BY <1>2, <2>2, ForgeFound
  <2> QED
    BY <2>3, ForgeSplits DEF ForgePart
<1>5. E \in Seq(Bytes)
  <2>1. CASE IsForgeAddress(a)
    <3> DEFINE q == F \o ForgePart(a)
    <3>1. q \in Seq(Bytes)
      BY <1>1, <1>4, <2>1, BytesOf
    <3>2. E = q \o F
      BY <2>1
    <3> HIDE DEF q, F
    <3>3. q \o F \in Seq(Bytes)
      BY <1>1, <3>1, BytesOf
    <3> QED
      BY <3>2, <3>3
  <2>2. CASE ~IsForgeAddress(a)
    BY <2>2, EmptySeq
  <2> QED
    BY <2>1, <2>2
<1>6. UpgradeToOldRealIP(a, C, T) = X \o E /\ up = UpgradeToOldRealIP(a, C, T) \o g
  BY DEF UpgradeToOldRealIP
<1> DEFINE P == ForgePart(a)
           o == UpgradeToOldRealIP(a, C, T)
<1> HIDE DEF F, R, C, T, h, P
<1>7. X \in Seq(Bytes) /\ Lacks(X, 0)
  <2>1. x1 \in Seq(Bytes) /\ Lacks(x1, 0)
    BY <1>1, <1>2, BytesOf, LacksJoined
  <2> HIDE DEF x1
  <2>2. x2 \in Seq(Bytes) /\ Lacks(x2, 0)
    BY <1>1, <2>1, BytesOf, LacksJoined
  <2> HIDE DEF x2
  <2>3. x3 \in Seq(Bytes) /\ Lacks(x3, 0)
    BY <1>1, <2>2, BytesOf, LacksJoined
  <2> HIDE DEF x3
  <2> QED
    BY <1>1, <2>3, BytesOf, LacksJoined
<1>8. ASSUME NEW e \in Seq(Bytes)
      PROVE  /\ X \o e = h \o (R \o (C \o (R \o (T \o e)))) /\ X \o e \in Seq(Bytes)
             /\ T \o e \in Seq(Bytes) /\ R \o (T \o e) \in Seq(Bytes)
             /\ C \o (R \o (T \o e)) \in Seq(Bytes)
  <2>1. AreStrung(h, R, C, R, T, e)
    BY <1>1, <1>2, Strung, Zenon
  <2>2. X \o e = h \o R \o C \o R \o T \o e
    OBVIOUS
  <2> HIDE DEF X
  <2> QED
    BY <2>1, <2>2 DEF AreStrung
<1> HIDE DEF X, E
<1> DEFINE e == E \o g
<1>9. up = X \o e /\ e \in Seq(Bytes)
  <2>1. AreAssociative(X, E, g) /\ AreJoined(E, g)
    BY <1>5, <1>7, Associates, Joins, Zenon
  <2> QED
    BY <1>6, <2>1 DEF AreAssociative, AreJoined
<1>10. up \in Seq(Bytes) /\ \E t \in Seq(Bytes) : up = h \o (R \o (C \o (R \o t)))
  <2>1. e \in Seq(Bytes)
    BY <1>9
  <2> HIDE DEF e
  <2>2. /\ X \o e = h \o (R \o (C \o (R \o (T \o e)))) /\ X \o e \in Seq(Bytes)
        /\ T \o e \in Seq(Bytes)
    BY <1>8, <2>1
  <2>3. up = X \o e
    BY <1>9
  <2> DEFINE t == T \o e
  <2> HIDE DEF X, t
  <2>4. up = h \o (R \o (C \o (R \o t))) /\ t \in Seq(Bytes) /\ up \in Seq(Bytes)
    BY <2>2, <2>3 DEF t
  <2> QED
    BY <2>4
<1>11. \E w \in Seq(Bytes) : X = h \o (R \o w)
  <2>1. <<>> \in Seq(Bytes) /\ X \o <<>> = X
    BY <1>7, EmptySeq, ConcatEmptySeq
  <2>2. X \o <<>> = h \o (R \o (C \o (R \o (T \o <<>>)))) /\ C \o (R \o (T \o <<>>)) \in Seq(Bytes)
    BY <1>8, <2>1
  <2> QED
    BY <2>1, <2>2
<1>12. o \in Seq(Bytes)
  BY <1>5, <1>6, <1>8
<1> HIDE DEF o
<1>13. CASE ~IsForgeAddress(a)
  <2>1. e = g
    BY <1>13, ConcatEmptySeq DEF E
  <2>2. Lacks(X \o g, 0) /\ up = X \o g
    BY <1>7, <1>9, <2>1, LacksJoined
  <2>3. ~IsForgeAddress(up) /\ Before(up, F) = up
    BY <1>10, <2>2, ForgeLacks, BeforeWhole DEF IsForgeAddress, F
  <2>4. \E w \in Seq(Bytes) : up = h \o (R \o w)
    <3>1. up = h \o (R \o (C \o (R \o (T \o g)))) /\ C \o (R \o (T \o g)) \in Seq(Bytes)
      BY <1>8, <2>2
    <3> QED
      BY <3>1
  <2> QED
    BY <1>2, <1>3, <1>10, <1>12, <1>13, <2>3, <2>4 DEF Tagged, o, h, F, R, C, T
<1>14. CASE IsForgeAddress(a)
  <2> DEFINE Fg == F \o g
             PFg == P \o Fg
  <2>1. P \in Seq(Bytes) /\ Lacks(P, 0)
    BY <1>4, <1>14 DEF P
  <2>2. Fg \in Seq(Bytes) /\ e = F \o PFg /\ PFg \in Seq(Bytes)
    <3>1. AreJoined(F, g) /\ AreJoined(F, P) /\ AreAssociative(F, P, F)
      BY <1>1, <2>1, Associates, Joins, Zenon
    <3>2. Fg \in Seq(Bytes) /\ F \o P \in Seq(Bytes)
      BY <3>1 DEF AreJoined
    <3>3. AreAssociative(F \o P, F, g)
      BY <1>1, <3>2, Associates, Zenon
    <3>4. E = (F \o P) \o F
      BY <1>14 DEF E, P
    <3> HIDE DEF Fg
    <3>5. AreAssociative(F, P, Fg) /\ AreJoined(P, Fg)
      BY <1>1, <2>1, <3>2, Associates, Joins, Zenon
    <3> QED
      BY <3>2, <3>3, <3>4, <3>5 DEF AreAssociative, AreJoined, Fg
  <2>3. /\ Before(X \o (F \o PFg), F) = X
        /\ Behind(X \o (F \o PFg), F) = PFg
        /\ IsForgeAddress(X \o (F \o PFg))
    <3> HIDE DEF PFg
    <3> QED
      BY <1>7, <2>2, ForgeFound DEF F
  <2>4. Before(PFg, F) = P
    BY <2>1, ForgeFound DEF F
  <2>5. Before(up, F) = X /\ IsForgeAddress(up) /\ ForgePart(up) = P
    <3>1. up = X \o (F \o PFg)
      BY <1>9, <2>2
    <3> HIDE DEF PFg
    <3> QED
      BY <2>3, <2>4, <3>1 DEF ForgePart, F
  <2>6. \E w \in Seq(Bytes) : Before(up, F) = h \o (R \o w)
    BY <1>11, <2>5
  <2> QED
    BY <1>2, <1>3, <1>10, <1>12, <1>14, <2>5, <2>6 DEF Tagged, o, h, F, R, C, T, P
<1> QED
  BY <1>13, <1>14

\* mc/packet_login.go 181-225: both modifiers keep every address.
LEMMA Upgraded == ASSUME NEW a \in Seq(Bytes) PROVE UpgradeKeeps(a)
<1> DEFINE old == UpgradeToOldRealIP(a, ClientAddr, Stamp)
           new == UpgradeToNewRealIP(a, ClientAddr, Stamp, Signature)
           host == Before(a, ForgeSeparator)
           y == RealIPSeparator \o Signature
<1>1. /\ IsSeparator(RealIPSeparator) /\ IsSeparator(ForgeSeparator)
      /\ RealIPSeparator \in Seq(Bytes) /\ Signature \in Seq(Bytes) /\ ClientAddr \in Seq(Bytes)
      /\ Lacks(RealIPSeparator, 0) /\ Lacks(Signature, 0)
  BY SepBytes, RealIPParts DEF IsSeparator
<1>2. y \in Seq(Bytes) /\ Lacks(y, 0)
  BY <1>1, LacksJoined, BytesOf
<1>3. CASE IsRealIPAddress(a)
  <2>1. old = a
    BY <1>3 DEF UpgradeToOldRealIP
  <2>2. new = a \o y
    BY <1>1, <2>1, Assoc DEF UpgradeToNewRealIP
  <2>3. ParseServerAddress(a \o y) = ParseServerAddress(a)
    <3> HIDE DEF y
    <3>1. CASE IsForgeAddress(a)
      BY <1>1, <1>2, <3>1, BeforeMore DEF IsForgeAddress, ParseServerAddress
    <3>2. CASE ~IsForgeAddress(a)
      <4>1. Lacks(a, 0) /\ Before(a, ForgeSeparator) = a
        BY <3>2, ForgeLacks, BeforeWhole DEF IsForgeAddress
      <4>2. a \o y \in Seq(Bytes) /\ Lacks(a \o y, 0)
        BY <1>2, <4>1, LacksJoined, BytesOf
      <4>3. Before(a \o y, ForgeSeparator) = a \o y
        BY <4>2, ForgeLacks, BeforeWhole DEF IsForgeAddress
      <4>4. Before(a \o y, RealIPSeparator) = Before(a, RealIPSeparator)
        BY <1>1, <1>2, <1>3, BeforeMore DEF IsRealIPAddress
      <4> QED
        BY <4>1, <4>3, <4>4 DEF ParseServerAddress
    <3> QED
      BY <3>1, <3>2
  <2> QED
    BY <1>3, <2>1, <2>2, <2>3 DEF UpgradeKeeps
<1>4. CASE ~IsRealIPAddress(a)
  <2>1. ASSUME NEW g \in Seq(Bytes), Lacks(g, 0), NEW up, up = old \o g
        PROVE  /\ IsRealIPAddress(up)
               /\ IsForgeAddress(up) <=> IsForgeAddress(a)
               /\ IsForgeAddress(a) => ForgePart(up) = ForgePart(a)
               /\ host = <<>> \/ host[Len(host)] # Slash =>
                     /\ ParseServerAddress(up) = host
                     /\ Before(Behind(up, RealIPSeparator), RealIPSeparator) = ClientAddr
    <3>1. /\ up \in Seq(Bytes) /\ host \in Seq(Bytes) /\ ~IsRealIPAddress(host)
          /\ \E t \in Seq(Bytes) : up = host \o (RealIPSeparator \o
                                            (ClientAddr \o (RealIPSeparator \o t)))
          /\ \E w \in Seq(Bytes) : Before(up, ForgeSeparator) = host \o (RealIPSeparator \o w)
          /\ IsForgeAddress(up) <=> IsForgeAddress(a)
          /\ IsForgeAddress(a) => ForgePart(up) = ForgePart(a)
      <4>1. Tagged(a, up)
        BY <1>4, <2>1, PutShape
      <4> QED
        BY <4>1 DEF Tagged
    <3> HIDE DEF old, host
    <3>2. PICK t \in Seq(Bytes) : up = host \o (RealIPSeparator \o
                                            (ClientAddr \o (RealIPSeparator \o t)))
      BY <3>1
    <3>3. PICK w \in Seq(Bytes) : Before(up, ForgeSeparator) = host \o (RealIPSeparator \o w)
      BY <3>1
    <3> DEFINE c == ClientAddr \o (RealIPSeparator \o t)
    <3>4. c \in Seq(Bytes)
      <4> DEFINE d == RealIPSeparator \o t
      <4>1. d \in Seq(Bytes)
        BY <1>1, BytesOf
      <4> HIDE DEF d
      <4>2. ClientAddr \o d \in Seq(Bytes)
        BY <1>1, <4>1, BytesOf
      <4> QED
        BY <4>2 DEF d
    <3>5. Before(c, RealIPSeparator) = ClientAddr
      BY RealIPParts, RealIPFound
    <3> HIDE DEF c
    <3>6. up = host \o (RealIPSeparator \o c)
      BY <3>2 DEF c
    <3>7. IsRealIPAddress(up)
      BY <1>1, <3>1, <3>4, <3>6, Occurs DEF IsRealIPAddress
    <3>8. ASSUME ~EndsInSlash(host)
          PROVE  /\ ParseServerAddress(up) = host
                 /\ Before(Behind(up, RealIPSeparator), RealIPSeparator) = ClientAddr
      <4>1. Before(host \o (RealIPSeparator \o w), RealIPSeparator) = host
        BY <3>1, <3>8, RealIPFound
      <4>2. Behind(host \o (RealIPSeparator \o c), RealIPSeparator) = c
        BY <3>1, <3>4, <3>8, RealIPFound
      <4> QED
        BY <3>3, <3>5, <3>6, <4>1, <4>2 DEF ParseServerAddress
    <3> QED
      BY <3>1, <3>7, <3>8 DEF EndsInSlash
  <2>2. <<>> \in Seq(Bytes) /\ Lacks(<<>>, 0)
    BY EmptySeq DEF Lacks
  <2>3. old = old \o <<>> /\ new = old \o y
    <3>2. old \in Seq(Bytes)
      BY <1>4, <2>2, PutShape
    <3> HIDE DEF old
    <3>3. old \o <<>> = old
      BY <3>2, ConcatEmptySeq
    <3>4. new = (old \o RealIPSeparator) \o Signature
      BY DEF UpgradeToNewRealIP, old
    <3>5. (old \o RealIPSeparator) \o Signature = old \o y
      BY <1>1, <3>2, Assoc
    <3> QED
      BY <3>3, <3>4, <3>5
  <2> HIDE DEF old, new, host, y
  <2>4. ASSUME NEW up \in {old, new} PROVE \E g \in Seq(Bytes) : Lacks(g, 0) /\ up = old \o g
    BY <1>2, <2>2, <2>3
  <2>5. \A up \in {old, new} :
               /\ IsRealIPAddress(up)
               /\ IsForgeAddress(up) <=> IsForgeAddress(a)
               /\ IsForgeAddress(a) => ForgePart(up) = ForgePart(a)
               /\ host = <<>> \/ host[Len(host)] # Slash =>
                     /\ ParseServerAddress(up) = host
                     /\ Before(Behind(up, RealIPSeparator), RealIPSeparator) = ClientAddr
    BY <2>1, <2>4
  <2> QED
    BY <1>4, <2>5 DEF UpgradeKeeps, old, new, host
<1> QED
  BY <1>3, <1>4

-----------------------------------------------------------------------------
(* What a parsed handshake is.                                              *)

\* Whatever a packet holds, the address of a handshake made of it is bytes.
LEMMA AddressTyped ==
    ASSUME NEW pk, pk.data \in Seq(Bytes)
    PROVE  ParsedHandshake(pk).ServerAddress \in Seq(Bytes)
<1> DEFINE r == UnmarshalServerBoundHandshake(pk)
<1>1. CASE r.err # "none"
  BY <1>1, EmptySeq DEF ParsedHandshake
<1>2. CASE r.err = "none"
  <2>1. r = OldFields(pk.data)
    BY <1>2 DEF UnmarshalServerBoundHandshake, OldFields, Fails
  <2>2. OldFields(pk.data).err = "none"
    BY <1>2, <2>1
  <2>3. PICK p1, p2, s, w, p3, t :
            /\ AreParts(p1, p2, s, w, p3) /\ t \in Seq(Bytes)
            /\ pk.data = Joined(p1, p2, s, w, p3, t) /\ Len(s) < Word \div 2
    BY <2>2, OldFieldsSplits, Zenon
  <2>4. OldFields(pk.data) = Gives([HandshakeOf(p1, s, w, p3) EXCEPT !.ProtocolVersion = Signed(@)], t)
    <3>1. OldFields(Joined(p1, p2, s, w, p3, t))
             = Gives([HandshakeOf(p1, s, w, p3) EXCEPT !.ProtocolVersion = Signed(@)], t)
      BY <2>3, OldFieldsReads
    <3> QED
      BY <2>3, <3>1, Zenon
  <2>5. s \in Seq(Bytes)
    BY <2>3 DEF AreParts, IsVarInt
  <2>6. r.val.ServerAddress = s
    <3>1. r.val = [HandshakeOf(p1, s, w, p3) EXCEPT !.ProtocolVersion = Signed(@)]
      BY <2>1, <2>4 DEF Gives
    <3> QED
      BY <3>1 DEF HandshakeOf
  <2>7. ParsedHandshake(pk) = r.val
    BY <1>2 DEF ParsedHandshake
  <2> QED
    BY <2>5, <2>6, <2>7
<1> QED
  BY <1>1, <1>2

\* Whatever a client sends, RealIP keeps its address.
LEMMA RequestUpgraded == ASSUME Reader PROVE AddressesKept
<1>1. SUFFICES ASSUME HasRequest PROVE UpgradeKeeps(Request.hs.ServerAddress)
  BY DEF AddressesKept
<1>2. packets[1].data \in Seq(Bytes)
  <2>1. packets \in Seq([id : Bytes, data : Seq(Bytes)]) /\ 1 \in 1..Len(packets)
    BY <1>1, LenProperties DEF Reader, StreamTypes, HasRequest
  <2>2. packets[1] \in [id : Bytes, data : Seq(Bytes)]
    BY <2>1, ElementOfSeq
  <2> QED
    BY <2>2
<1>3. Request.hs = ParsedHandshake(packets[1])
  BY DEF Request
<1> QED
  BY <1>2, <1>3, AddressTyped, Upgraded

\* mc/packet_login.go 181-225: whatever address a client sends, RealIP puts the client's
\* next to the host and keeps what mods had put there.
THEOREM AddressesAlwaysKept == Spec => []AddressesKept
<1>1. Reader => AddressesKept
  BY RequestUpgraded
<1> QED
  BY <1>1, ReaderKept, PTL

-----------------------------------------------------------------------------
(* What is written to the client.                                           *)

Written ==
    /\ toClient \in Seq(Bytes)
    /\ answer = "status" =>
          toClient = IF stage = "done" THEN Marshal(MarshalText(StatusText)) \o Marshal(packets[3])
                     ELSE Marshal(MarshalText(StatusText))

\* A packet of a string that fits can be read.
LEMMA TextWritten ==
    ASSUME NEW s, Fits(s)
    PROVE  /\ Marshal(MarshalText(s)) \in Seq(Bytes)
           /\ \A x \in Seq(Bytes) : ReadPacket(Marshal(MarshalText(s)) \o x) = Gives(MarshalText(s), x)
           /\ UnmarshalText(MarshalText(s)).val = s
<1>1. s \in Seq(Bytes) /\ Len(s) + 3 * MaxGroups + 3 < Word \div 2
  BY DEF Fits
<1>2. IsWritable(MarshalText(s)) /\ UnmarshalText(MarshalText(s)) = Gives(s, <<>>)
  BY <1>1, TextRoundTrip
<1>3. Packet(MarshalText(s).id, MarshalText(s).data) = MarshalText(s)
  BY DEF MarshalText, Packet
<1>4. UnmarshalText(MarshalText(s)).val = s
  BY <1>2 DEF Gives
<1> QED
  BY <1>2, <1>3, <1>4, PacketRoundTrip

\* Steps that write nothing.
LEMMA NothingWritten ==
    ASSUME Reader, Written, Reading, UNCHANGED outVars, stage' # "done"
    PROVE  Written'
<1>1. answer \in {"none", "status"} /\ stage # "done"
  BY DEF Reader, Phases, Reading
<1> QED
  BY <1>1 DEF Written, outVars

\* Every step keeps what has been written.
LEMMA WrittenNext == ASSUME Reader, Written, [Next]_vars PROVE Written'
<1>1. CASE UNCHANGED vars
  BY <1>1 DEF Written, vars, readerVars, outVars
<1>2. CASE \/ Fetch \/ TakeByte \/ TakeBody \/ LengthRead \/ LengthRefused \/ ClientLeft \/ Deadline
  <2>1. Reading /\ UNCHANGED outVars /\ stage' # "done"
    <3>1. Fetch \/ TakeByte \/ TakeBody => Reading /\ UNCHANGED outVars /\ stage' # "done"
      BY DEF Fetch, TakeByte, TakeBody, Waits, WantsByte, WantsBody, Reading
    <3>2. LengthRead \/ LengthRefused => Reading /\ UNCHANGED outVars /\ stage' # "done"
      BY DEF LengthRead, LengthRefused, Fail, Reading
    <3>3. ClientLeft \/ Deadline => Reading /\ UNCHANGED outVars /\ stage' # "done"
      BY DEF ClientLeft, Deadline, Fail, Waits, WantsByte, WantsBody, Reading
    <3> QED
      BY <1>2, <3>1, <3>2, <3>3
  <2> QED
    BY <2>1, NothingWritten
<1>3. CASE HandshakeRead \/ SecondRead
  <2>1. Reading /\ UNCHANGED outVars /\ stage' # "done"
    <3>1. HandshakeRead => Reading /\ UNCHANGED outVars /\ stage' # "done"
      BY DEF HandshakeRead, ReadPacketEnds, Fail, Reading
    <3>2. SecondRead => Reading /\ UNCHANGED outVars /\ stage' # "done"
      BY DEF SecondRead, ReadPacketEnds, Fail, Reading
    <3> QED
      BY <1>3, <3>1, <3>2
  <2> QED
    BY <2>1, NothingWritten
<1>4. CASE PingRead
  <2> DEFINE pk == Packet(Head(part), Tail(part))
  <2>1. /\ ReadPacketEnds(3) /\ toClient' = toClient \o Marshal(pk) /\ stage' = "done"
        /\ answer' = answer /\ 3 \in 1..3 /\ stage = "body"
    BY <1>4 DEF PingRead, ReadPacketEnds
  <2>2. /\ pk \in [id : Bytes, data : Seq(Bytes)] /\ Len(pk.data) + 1 < Word \div 2
        /\ packets'[3] = pk /\ answer = "status"
    BY <2>1, PacketEnds
  <2> HIDE DEF pk
  <2>3. Marshal(pk) \in Seq(Bytes)
    BY <2>2, PacketRoundTrip DEF IsWritable
  <2>4. toClient = Marshal(MarshalText(StatusText)) /\ toClient \in Seq(Bytes)
    BY <2>1, <2>2 DEF Written
  <2>5. toClient' \in Seq(Bytes)
    BY <2>1, <2>3, <2>4, Cut
  <2> QED
    BY <2>1, <2>2, <2>4, <2>5 DEF Written
<1>5. CASE NotAnswered \/ SendEmpty
  <2>1. answer = "none" /\ answer' \in {"none", "empty"} /\ toClient \in Seq(Bytes)
    BY <1>5 DEF NotAnswered, SendEmpty, outVars, Reader, Phases, Written
  <2>2. Marshal(Packet(0, <<>>)) \in Seq(Bytes)
    <3>1. IsWritable(MarshalRequest)
          /\ Packet(MarshalRequest.id, MarshalRequest.data) = MarshalRequest
      BY SmallPacketsWritable DEF MarshalRequest, Packet
    <3>2. MarshalRequest = Packet(0, <<>>)
      BY DEF MarshalRequest
    <3> HIDE DEF MarshalRequest
    <3> QED
      BY <3>1, <3>2, PacketRoundTrip
  <2>3. toClient' \in Seq(Bytes)
    BY <1>5, <2>1, <2>2 DEF NotAnswered, SendEmpty, outVars
  <2> QED
    BY <2>1, <2>3 DEF Written
<1>6. CASE SendStatus
  <2>1. Fits(StatusText) /\ answer = "none"
    BY <1>6, PacketStreamAssumption DEF SendStatus, Reader, Phases
  <2>2. Marshal(MarshalText(StatusText)) \in Seq(Bytes)
    BY <2>1, TextWritten
  <2> QED
    BY <1>6, <2>1, <2>2 DEF SendStatus, Written
<1> QED
  BY <1>1, <1>2, <1>3, <1>4, <1>5, <1>6 DEF Next, Step

\* ... and what has been written is the answer to what was read.
THEOREM StreamKept == Spec => [](Reader /\ Written)
<1>1. Init => Reader /\ Written
  BY ReaderInit, EmptySeq DEF Init, Written
<1>2. Reader /\ Written /\ [Next]_vars => (Reader /\ Written)'
  BY ReaderNext, WrittenNext
<1> QED
  BY <1>1, <1>2, PTL DEF Spec

\* Packets, lengths and bodies are those of the script.
LEMMA Framing == ASSUME Reader, Written PROVE FramingKept
<1>1. Len(packets) \in Nat
  BY LenProperties DEF Reader, StreamTypes
<1>2. Len(packets) <= 3
  <2> DEFINE n == Len(packets)
  <2>1. /\ stage \in {"length", "body"} => n = 2 \/ n <= 1
        /\ stage = "answer" => n = 2
        /\ stage = "done" => n = 3 \/ n = 2
        /\ stage \in {"failed", "panicked"} => n <= 2
    BY DEF Reader, Phases, Reading
  <2>2. stage \in {"length", "body", "answer", "done", "failed", "panicked"}
    BY DEF Reader, StreamTypes
  <2> HIDE DEF n
  <2>3. n \in Nat
    BY <1>1 DEF n
  <2>4. n <= 3
    BY <2>1, <2>2, <2>3
  <2> QED
    BY <2>4 DEF n
<1>3. stage = "length" => Len(part) <= MaxGroups + 1
  <2>1. SUFFICES ASSUME stage = "length", part # <<>> PROVE Len(part) <= MaxGroups + 1
    BY EmptySeq, Sizes
  <2>2. part \in Seq(Bytes) /\ Len(part) \in Nat /\ Len(part) # 0
    BY <2>1, EmptySeq, LenProperties DEF Reader, StreamTypes
  <2> DEFINE q == SubSeq(part, 1, Len(part) - 1)
  <2>3. Len(part) - 1 \in 0..Len(part)
    BY <2>2
  <2>4. q \in Seq(Bytes) /\ Len(q) = Len(part) - 1
    <3>1. AreSplit(part, Len(part) - 1)
      BY <2>2, <2>3, Splits, Zenon
    <3> QED
      BY <3>1, Zenon DEF AreSplit
  <2>5. ReadVarInt(q).err = "EOF"
    BY <2>1 DEF Reader, Phases
  <2> HIDE DEF q
  <2>6. Len(q) <= MaxGroups
    BY <2>4, <2>5, OpenLength
  <2> QED
    BY <2>2, <2>4, <2>6, Sizes
<1>4. stage = "body" => Len(part) <= need
  BY DEF Reader, Phases
<1>5. TypeOK
  BY <1>2, <1>3, <1>4 DEF TypeOK, Reader, StreamTypes, Written
<1>6. Len(packets) <= 2 \/ intent # NoIntent => packets = PacketsOf(script, Len(packets))
  BY DEF Reader, PacketsRead, PacketsOf
<1> QED
  BY <1>5, <1>6 DEF FramingKept

\* mc/packet.go: whatever the pieces the bytes come in, the packets are those of the bytes.
THEOREM FramingAlwaysKept == Spec => []FramingKept
<1>1. Reader /\ Written => FramingKept
  BY Framing
<1> QED
  BY <1>1, StreamKept, PTL

\* The client reads its status and its own ping.
LEMMA PongGoesBack == ASSUME Reader, Written PROVE PongEchoes
<1>1. SUFFICES ASSUME stage = "done", answer = "status", intent # NoIntent PROVE PongEchoes
  BY DEF PongEchoes
<1>2. intent \in Intents /\ Len(packets) = 3
  BY <1>1 DEF Reader, Phases, Sent
<1>3. packets[3] = MarshalPing(PingTime)
  <2>1. packets[3] = Expected(intent)[3]
    BY <1>1, <1>2 DEF Reader, Understood
  <2> QED
    BY <2>1 DEF Expected
<1>4. toClient = Marshal(MarshalText(StatusText)) \o Marshal(MarshalPing(PingTime))
  BY <1>1, <1>3 DEF Written
<1>5. Marshal(MarshalPing(PingTime)) \in Seq(Bytes)
  BY <1>2, FullReads
<1>6. Fits(StatusText)
  BY PacketStreamAssumption
<1>7. /\ \A x \in Seq(Bytes) : ReadPacket(Marshal(MarshalText(StatusText)) \o x)
                                  = Gives(MarshalText(StatusText), x)
      /\ UnmarshalText(MarshalText(StatusText)).val = StatusText
  BY <1>6, TextWritten
<1>8. ReadPacket(toClient) = Gives(MarshalText(StatusText), Marshal(MarshalPing(PingTime)))
  BY <1>4, <1>5, <1>7, Zenon
<1>9. ReadPacket(toClient).val = MarshalText(StatusText)
      /\ ReadPacket(toClient).rest = Marshal(MarshalPing(PingTime))
  BY <1>8 DEF Gives
<1> QED
  BY <1>7, <1>9, Zenon DEF PongEchoes

\* basic.go 45-119: what a game client asks for is what is made of its packets, with the
\* host in lower case; a client that says all of it in time is never refused, and one that
\* waits for the status gets its own ping back.
THEOREM ClientsAlwaysUnderstood == Spec => []ClientsUnderstood
<1>1. Reader /\ Written => ClientsUnderstood
  BY Recovered, PongGoesBack DEF ClientsUnderstood, Reader
<1> QED
  BY <1>1, StreamKept, PTL
=============================================================================
