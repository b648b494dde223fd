------------------------- MODULE UtilityCallsProofs -------------------------
(***************************************************************************)
(* Proofs about the utilities, for groups of any prime order, bytes and    *)
(* sizes of any kind, any hash functions with values where they ought to   *)
(* be, and a table of any size.                                            *)
(***************************************************************************)
EXTENDS UtilityCalls, SequenceTheorems, WellFoundedInduction, TLAPS

-----------------------------------------------------------------------------
(* Numbers modulo n.                                                       *)

LEMMA ModFacts ==
  ASSUME NEW n \in Nat \ {0}, NEW x \in Int
  PROVE  /\ x % n \in 0 .. n - 1
         /\ x \div n \in Int
         /\ x = n * (x \div n) + (x % n)
  OBVIOUS

LEMMA NoMultiple ==
  ASSUME NEW n \in Nat \ {0}, NEW k \in Int, -n < n * k, n * k < n
  PROVE  k = 0
<1>1. ASSUME k >= 1 PROVE FALSE
  <2>1. n * k = n + n * (k - 1) OBVIOUS
  <2>2. n * (k - 1) >= 0 BY <1>1
  <2> QED BY <2>1, <2>2
<1>2. ASSUME k <= -1 PROVE FALSE
  <2>1. n * k = -n - n * (-k - 1) OBVIOUS
  <2>2. n * (-k - 1) >= 0 BY <1>2
  <2> QED BY <2>1, <2>2
<1> QED BY <1>1, <1>2

LEMMA ModUnique ==
  ASSUME NEW n \in Nat \ {0}, NEW x \in Int, NEW q \in Int, NEW r \in 0 .. n - 1,
         x = n * q + r
  PROVE  x % n = r
<1> DEFINE s == x % n
           p == x \div n
<1>1. s \in 0 .. n - 1 /\ p \in Int /\ x = n * p + s
  BY ModFacts
<1> HIDE DEF s, p
<1>2. n * (p - q) = r - s
  BY <1>1
<1>3. p - q = 0
  <2>1. -n < r - s /\ r - s < n
    BY <1>1
  <2> QED BY <1>1, <1>2, <2>1, NoMultiple
<1>4. p = q BY <1>1, <1>3
<1>5. s = r BY <1>1, <1>4
<1> QED BY <1>5 DEF s

LEMMA ModShift ==
  ASSUME NEW n \in Nat \ {0}, NEW x \in Int, NEW y \in Int, NEW k \in Int, x = y + n * k
  PROVE  x % n = y % n
<1> DEFINE s == y % n
           p == y \div n
<1>1. s \in 0 .. n - 1 /\ p \in Int /\ y = n * p + s
  BY ModFacts
<1> HIDE DEF s, p
<1>2. x = n * (p + k) + s
  BY <1>1
<1>3. x % n = s
  <2>1. p + k \in Int BY <1>1
  <2> QED BY <1>1, <1>2, <2>1, ModUnique
<1> QED BY <1>3 DEF s

LEMMA SumMod ==
  ASSUME NEW n \in Nat \ {0}, NEW x \in Int, NEW y \in Int
  PROVE  ((x % n) + y) % n = (x + y) % n
<1> DEFINE s == x % n
           p == x \div n
<1>1. s \in 0 .. n - 1 /\ p \in Int /\ x = n * p + s
  BY ModFacts
<1> HIDE DEF s, p
<1>2. x + y = (s + y) + n * p
  BY <1>1
<1>3. (x + y) % n = (s + y) % n
  <2>1. x + y \in Int /\ s + y \in Int BY <1>1
  <2> QED BY <1>1, <1>2, <2>1, ModShift
<1> QED BY <1>3 DEF s

LEMMA ProductMod ==
  ASSUME NEW n \in Nat \ {0}, NEW x \in Int, NEW y \in Int
  PROVE  ((x % n) * y) % n = (x * y) % n
<1> DEFINE s == x % n
           p == x \div n
<1>1. s \in 0 .. n - 1 /\ p \in Int /\ x = n * p + s
  BY ModFacts
<1> HIDE DEF s, p
<1>2. x * y = s * y + n * (p * y)
  BY <1>1
<1>3. (x * y) % n = (s * y) % n
  <2>1. x * y \in Int /\ s * y \in Int /\ p * y \in Int BY <1>1
  <2> QED BY <1>1, <1>2, <2>1, ModShift
<1> QED BY <1>3 DEF s

-----------------------------------------------------------------------------
(* The group, on discrete logarithms.                                      *)

LEMMA OrderFacts == Order \in Nat \ {0, 1} /\ 0 \in Scalar /\ 1 \in Scalar /\ Scalar \subseteq Int
  BY VetKdAssumption DEF Scalar

LEMMA Closed ==
  ASSUME NEW p \in Scalar, NEW q \in Scalar
  PROVE  Plus(p, q) \in Scalar /\ Times(p, q) \in Scalar /\ Negated(p) \in Scalar
<1>1. p + q \in Int /\ p * q \in Int /\ Order - p \in Int
  BY OrderFacts
<1> QED
  BY <1>1, OrderFacts, ModFacts DEF Scalar, Plus, Times, Negated

LEMMA Reduced ==
  ASSUME NEW p \in Scalar
  PROVE  p % Order = p
<1>1. p = Order * 0 + p
  BY OrderFacts
<1> QED
  BY <1>1, OrderFacts, ModUnique DEF Scalar

LEMMA PlusLaws ==
  ASSUME NEW p \in Scalar, NEW q \in Scalar, NEW r \in Scalar
  PROVE  /\ Plus(p, q) = Plus(q, p)
         /\ Plus(p, 0) = p
         /\ Plus(Plus(p, q), r) = Plus(p, Plus(q, r))
         /\ Plus(p, Negated(p)) = 0
<1>1. p \in Int /\ q \in Int /\ r \in Int
  BY OrderFacts
<1>2. Plus(p, q) = Plus(q, p) /\ Plus(p, 0) = p
  BY <1>1, Reduced DEF Plus
<1>3. Plus(Plus(p, q), r) = (p + q + r) % Order
  <2>1. p + q \in Int BY <1>1
  <2> QED BY <1>1, <2>1, OrderFacts, SumMod DEF Plus
<1>4. Plus(Plus(q, r), p) = (q + r + p) % Order
  <2>1. q + r \in Int BY <1>1
  <2> QED BY <1>1, <2>1, OrderFacts, SumMod DEF Plus
<1>5. Plus(p, Plus(q, r)) = Plus(Plus(q, r), p)
  <2>1. Plus(q, r) \in Int BY Closed, OrderFacts
  <2> QED BY <1>1, <2>1 DEF Plus
<1>6. p + q + r = q + r + p
  BY <1>1
<1>7. Plus(Negated(p), p) = 0
  <2>1. Order - p \in Int BY <1>1, OrderFacts
  <2>2. Plus(Negated(p), p) = (Order - p + p) % Order
    BY <1>1, <2>1, OrderFacts, SumMod DEF Plus, Negated
  <2>3. Order - p + p = Order * 1 + 0 /\ Order * 1 + 0 \in Int
    BY <1>1, OrderFacts
  <2>4. (Order * 1 + 0) % Order = 0
    BY <2>3, OrderFacts, ModUnique
  <2> QED BY <2>2, <2>3, <2>4
<1>8. Plus(p, Negated(p)) = Plus(Negated(p), p)
  <2>1. Negated(p) \in Int BY Closed, OrderFacts
  <2> QED BY <1>1, <2>1 DEF Plus
<1> QED
  BY <1>2, <1>3, <1>4, <1>5, <1>6, <1>7, <1>8

LEMMA TimesLaws ==
  ASSUME NEW p \in Scalar, NEW q \in Scalar, NEW r \in Scalar
  PROVE  /\ Times(p, q) = Times(q, p)
         /\ Times(1, p) = p
         /\ Times(Times(p, q), r) = Times(p, Times(q, r))
         /\ Times(p, Plus(q, r)) = Plus(Times(p, q), Times(p, r))
         /\ Times(p, Negated(1)) = Negated(p)
<1>1. p \in Int /\ q \in Int /\ r \in Int
  BY OrderFacts
<1>2. Times(p, q) = Times(q, p)
  BY <1>1 DEF Times
<1>3. Times(1, p) = p
  BY <1>1, Reduced DEF Times
<1>4. Times(Times(p, q), r) = (p * q * r) % Order
  <2>1. p * q \in Int BY <1>1
  <2> QED BY <1>1, <2>1, OrderFacts, ProductMod DEF Times
<1>5. Times(p, Times(q, r)) = (p * q * r) % Order
  <2>1. q * r \in Int BY <1>1
  <2>2. (q * r) % Order \in Int BY <2>1, ModFacts, OrderFacts
  <2>3. p * ((q * r) % Order) = ((q * r) % Order) * p BY <1>1, <2>2
  <2>4. (((q * r) % Order) * p) % Order = (q * r * p) % Order
    BY <1>1, <2>1, OrderFacts, ProductMod
  <2>5. q * r * p = p * q * r BY <1>1
  <2> QED BY <2>3, <2>4, <2>5 DEF Times
<1>6. Times(p, Plus(q, r)) = (p * q + p * r) % Order
  <2>1. q + r \in Int BY <1>1
  <2>2. (q + r) % Order \in Int BY <2>1, ModFacts, OrderFacts
  <2>3. p * ((q + r) % Order) = ((q + r) % Order) * p BY <1>1, <2>2
  <2>4. ((q + r) % Order) * p % Order = ((q + r) * p) % Order
    BY <1>1, <2>1, OrderFacts, ProductMod
  <2>5. (q + r) * p = p * q + p * r BY <1>1
  <2> QED BY <2>3, <2>4, <2>5 DEF Times, Plus
<1>7. Plus(Times(p, q), Times(p, r)) = (p * q + p * r) % Order
  <2> DEFINE x == p * q
             y == p * r
  <2>1. x \in Int /\ y \in Int BY <1>1
  <2> HIDE DEF x, y
  <2>2. y % Order \in Int BY <2>1, ModFacts, OrderFacts
  <2>3. ((x % Order) + (y % Order)) % Order = (x + (y % Order)) % Order
    BY <2>1, <2>2, OrderFacts, SumMod
  <2>4. x + (y % Order) = (y % Order) + x BY <2>1, <2>2
  <2>5. ((y % Order) + x) % Order = (y + x) % Order
    BY <2>1, OrderFacts, SumMod
  <2>6. y + x = x + y BY <2>1
  <2> QED BY <2>3, <2>4, <2>5, <2>6 DEF Times, Plus, x, y
<1>8. Times(p, Negated(1)) = Negated(p)
  <2>1. Order - 1 \in Int /\ Order - 1 \in Scalar BY OrderFacts DEF Scalar
  <2>2. Negated(1) = Order - 1
    BY <2>1, Reduced DEF Negated
  <2>3. p * (Order - 1) = (Order - p) + Order * (p - 1)
    BY <1>1, OrderFacts
  <2>4. p * (Order - 1) \in Int /\ Order - p \in Int /\ p - 1 \in Int
    BY <1>1, OrderFacts
  <2>5. (p * (Order - 1)) % Order = (Order - p) % Order
    BY <2>3, <2>4, OrderFacts, ModShift
  <2> QED BY <2>2, <2>5 DEF Times, Negated
<1> QED
  BY <1>2, <1>3, <1>4, <1>5, <1>6, <1>7, <1>8

LEMMA Cancel ==
  ASSUME NEW p \in Scalar, NEW q \in Scalar
  PROVE  /\ Plus(Plus(p, q), Negated(q)) = p
         /\ Plus(Plus(p, Negated(q)), q) = p
         /\ Plus(Negated(p), q) = 0 <=> p = q
<1>1. Negated(q) \in Scalar /\ Negated(p) \in Scalar /\ 0 \in Scalar
  BY Closed, OrderFacts
<1>2. Plus(Plus(p, q), Negated(q)) = p
  <2>1. Plus(Plus(p, q), Negated(q)) = Plus(p, Plus(q, Negated(q)))
    BY <1>1, PlusLaws
  <2> QED BY <2>1, <1>1, PlusLaws
<1>3. Plus(Plus(p, Negated(q)), q) = p
  <2>1. Plus(Plus(p, Negated(q)), q) = Plus(p, Plus(Negated(q), q))
    BY <1>1, PlusLaws
  <2>2. Plus(Negated(q), q) = Plus(q, Negated(q))
    BY <1>1, PlusLaws
  <2> QED BY <2>1, <2>2, <1>1, PlusLaws
<1>4. ASSUME p = q PROVE Plus(Negated(p), q) = 0
  BY <1>1, <1>4, PlusLaws
<1>5. ASSUME Plus(Negated(p), q) = 0 PROVE p = q
  <2>1. Plus(p, Plus(Negated(p), q)) = p
    BY <1>5, PlusLaws
  <2>2. Plus(p, Plus(Negated(p), q)) = Plus(Plus(p, Negated(p)), q)
    BY <1>1, PlusLaws
  <2>3. Plus(Plus(p, Negated(p)), q) = Plus(0, q) /\ Plus(0, q) = Plus(q, 0) /\ Plus(q, 0) = q
    BY <1>1, PlusLaws
  <2> QED BY <2>1, <2>2, <2>3
<1> QED
  BY <1>2, <1>3, <1>4, <1>5

-----------------------------------------------------------------------------
(* Sequences that are put together and cut.                                *)

LEMMA SliceIs ==
  ASSUME NEW S, NEW w \in Seq(S), NEW t \in Seq(S), NEW m \in Nat, m + Len(t) <= Len(w),
         \A i \in 1 .. Len(t) : w[m + i] = t[i]
  PROVE  SubSeq(w, m + 1, m + Len(t)) = t
<1>1. Len(t) \in Nat /\ Len(w) \in Nat /\ \A i \in 1 .. Len(w) : w[i] \in S
  BY LenProperties, ElementOfSeq
<1> DEFINE a == m + 1
           b == m + Len(t)
           v == SubSeq(w, a, b)
<1>2. a \in Int /\ b \in Int /\ b - a + 1 = Len(t) /\ (IF a <= b THEN b - a + 1 ELSE 0) = Len(t)
  BY <1>1
<1>3. \A i \in a .. b : w[i] \in S
  BY <1>1
<1>4. \A i \in 1 .. Len(t) : w[a + i - 1] = t[i]
  BY <1>1
<1> HIDE DEF a, b
<1>5. /\ v \in Seq(S) /\ Len(v) = Len(t)
      /\ \A i \in 1 .. Len(t) : v[i] = w[a + i - 1]
  BY <1>2, <1>3, SubSeqProperties
<1> HIDE DEF v
<1>6. v = t
  BY <1>4, <1>5, SeqEqual
<1> QED
  BY <1>6 DEF v, a, b

LEMMA Cut ==
  ASSUME NEW S, NEW s \in Seq(S), NEW t \in Seq(S), NEW u \in Seq(S)
  PROVE  /\ s \o t \o u \in Seq(S)
         /\ Len(s \o t \o u) = Len(s) + Len(t) + Len(u)
         /\ SubSeq(s \o t \o u, 1, Len(s)) = s
         /\ SubSeq(s \o t \o u, Len(s) + 1, Len(s) + Len(t)) = t
         /\ SubSeq(s \o t \o u, Len(s) + Len(t) + 1, Len(s) + Len(t) + Len(u)) = u
<1> DEFINE w == s \o t \o u
<1>1. Len(s) \in Nat /\ Len(t) \in Nat /\ Len(u) \in Nat
  BY LenProperties
<1>2. /\ s \o t \in Seq(S) /\ Len(s \o t) = Len(s) + Len(t)
      /\ \A i \in 1 .. Len(s) + Len(t) : (s \o t)[i] = IF i <= Len(s) THEN s[i] ELSE t[i - Len(s)]
  BY ConcatProperties
<1>3. /\ w \in Seq(S) /\ Len(w) = Len(s \o t) + Len(u)
      /\ \A i \in 1 .. Len(s \o t) + Len(u) :
            w[i] = IF i <= Len(s \o t) THEN (s \o t)[i] ELSE u[i - Len(s \o t)]
  BY <1>2, ConcatProperties
<1>4. /\ Len(w) = Len(s) + Len(t) + Len(u)
      /\ \A i \in 1 .. Len(s) : w[0 + i] = s[i]
      /\ \A i \in 1 .. Len(t) : w[Len(s) + i] = t[i]
      /\ \A i \in 1 .. Len(u) : w[(Len(s) + Len(t)) + i] = u[i]
  BY <1>1, <1>2, <1>3
<1> HIDE DEF w
<1>5. SubSeq(w, 0 + 1, 0 + Len(s)) = s
  BY <1>1, <1>3, <1>4, SliceIs
<1>6. SubSeq(w, Len(s) + 1, Len(s) + Len(t)) = t
  BY <1>1, <1>3, <1>4, SliceIs
<1>7. SubSeq(w, (Len(s) + Len(t)) + 1, (Len(s) + Len(t)) + Len(u)) = u
  <2> DEFINE m == Len(s) + Len(t)
  <2>1. m \in Nat /\ m + Len(u) <= Len(w) /\ \A i \in 1 .. Len(u) : w[m + i] = u[i]
    BY <1>1, <1>4
  <2> HIDE DEF m
  <2>2. SubSeq(w, m + 1, m + Len(u)) = u
    BY <1>3, <2>1, SliceIs
  <2> QED
    BY <2>2 DEF m
<1> QED
  BY <1>1, <1>3, <1>4, <1>5, <1>6, <1>7 DEF w

LEMMA PartFacts ==
  ASSUME NEW S, NEW s \in Seq(S), NEW i \in Nat, NEW j \in Nat, i <= j, j <= Len(s)
  PROVE  SubSeq(s, i + 1, j) \in Seq(S) /\ Len(SubSeq(s, i + 1, j)) = j - i
<1>1. Len(s) \in Nat /\ \A k \in 1 .. Len(s) : s[k] \in S
  BY LenProperties, ElementOfSeq
<1>2. \A k \in i + 1 .. j : s[k] \in S
  BY <1>1
<1>3. i + 1 \in Int /\ (IF i + 1 <= j THEN j - (i + 1) + 1 ELSE 0) = j - i
  OBVIOUS
<1> QED
  BY <1>1, <1>2, <1>3, SubSeqProperties

LEMMA RestFacts ==
  ASSUME NEW S, NEW s \in Seq(S), NEW j \in Nat, j <= Len(s)
  PROVE  SubSeq(s, j + 1, Len(s)) \in Seq(S) /\ Len(SubSeq(s, j + 1, Len(s))) = Len(s) - j
<1>1. Len(s) \in Nat /\ Len(s) <= Len(s)
  BY LenProperties
<1> QED
  BY <1>1, PartFacts

LEMMA PartsJoin ==
  ASSUME NEW S, NEW s \in Seq(S), NEW i \in Nat, NEW j \in Nat, i <= j, j <= Len(s)
  PROVE  s = SubSeq(s, 1, i) \o SubSeq(s, i + 1, j) \o SubSeq(s, j + 1, Len(s))
<1>1. Len(s) \in Nat
  BY LenProperties
<1>2. SubSeq(s, 1, i) \o SubSeq(s, i + 1, j) = SubSeq(s, 1, j)
  <2>1. 1 \in 1 .. Len(s) + 1 /\ i \in 1 - 1 .. Len(s) /\ j \in i .. Len(s)
    BY <1>1
  <2> QED
    BY <2>1, ConcatAdjacentSubSeq
<1>3. SubSeq(s, 1, j) \o SubSeq(s, j + 1, Len(s)) = SubSeq(s, 1, Len(s))
  <2>1. 1 \in 1 .. Len(s) + 1 /\ j \in 1 - 1 .. Len(s) /\ Len(s) \in j .. Len(s)
    BY <1>1
  <2> QED
    BY <2>1, ConcatAdjacentSubSeq
<1> QED
  BY <1>2, <1>3, SubSeqFull

LEMMA FixedLength ==
  ASSUME NEW S, NEW n \in Nat, NEW s \in [1 .. n -> S]
  PROVE  s \in Seq(S) /\ Len(s) = n
  OBVIOUS

-----------------------------------------------------------------------------
(* Points, scalars and their bytes.                                        *)

LEMMA SizeFacts ==
  {G1Bytes, G2Bytes, SecretKeyBytes, SeedBytes, MinSeedBytes} \subseteq Nat \ {0}
  BY VetKdAssumption

LEMMA ByteFacts == Scalar \subseteq Byte /\ Byte \subseteq Nat /\ Seq(Byte) \subseteq Seq(Nat)
<1>1. Scalar \subseteq Byte /\ Byte \subseteq Nat
  BY VetKdAssumption DEF Scalar
<1> QED
  BY <1>1, SeqMonotonic

LEMMA CompressedFacts ==
  ASSUME NEW p \in Scalar, NEW n \in Nat \ {0}
  PROVE  /\ Compressed(p, n) \in Seq(Byte) /\ Len(Compressed(p, n)) = n
         /\ FromCompressed(Compressed(p, n), n) = Ok(p)
<1>1. Compressed(p, n) \in [1 .. n -> Byte] /\ Compressed(p, n)[1] = p
  BY ByteFacts DEF Compressed
<1>2. FromCompressed(Compressed(p, n), n) = Ok(p)
  BY <1>1 DEF FromCompressed
<1> QED
  BY <1>1, <1>2, FixedLength

LEMMA FromCompressedFacts ==
  ASSUME NEW b, NEW n \in Nat \ {0}, IsOk(FromCompressed(b, n))
  PROVE  /\ FromCompressed(b, n).value \in Scalar
         /\ b = Compressed(FromCompressed(b, n).value, n)
         /\ FromCompressed(b, n) = Ok(FromCompressed(b, n).value)
<1>1. PICK p \in Scalar : b = Compressed(p, n)
  BY DEF FromCompressed, IsOk, Err
<1>2. FromCompressed(b, n) = Ok(p)
  BY <1>1, CompressedFacts
<1> QED
  BY <1>1, <1>2 DEF Ok

LEMMA ScalarBytesFacts ==
  ASSUME NEW s \in Scalar
  PROVE  /\ ToScalarBytes(s) \in Seq(Byte) /\ Len(ToScalarBytes(s)) = SecretKeyBytes
         /\ FromScalarBytes(ToScalarBytes(s)) = Ok(s)
<1>1. ToScalarBytes(s) \in [1 .. SecretKeyBytes -> Byte] /\ ToScalarBytes(s)[SecretKeyBytes] = s
  BY ByteFacts, SizeFacts, OrderFacts DEF ToScalarBytes
<1>2. FromScalarBytes(ToScalarBytes(s)) = Ok(s)
  BY <1>1 DEF FromScalarBytes
<1> QED
  BY <1>1, <1>2, FixedLength, SizeFacts

-----------------------------------------------------------------------------
(* vetKeys, their verification and their encryption.                       *)

(* What the theorems assume of the hash functions: each has its values     *)
(* where its name says.  Nothing else about them is used.                  *)
HashesHaveValues ==
    /\ \A s \in Seq(Nat) : HashToG1(s) \in Scalar /\ RandomScalar(s) \in Scalar
    /\ \A s \in Seq(Nat) : \A dst : HashToScalar(s, dst) \in Scalar
    /\ \A s \in Seq(Nat), n \in Nat : Shake256(s, n) \in [1 .. n -> Byte]
    /\ \A s \in Seq(Nat), n \in Nat : \A label : Hkdf(s, label, n) \in [1 .. n -> Byte]

LEMMA VetKeyIsPoint ==
  ASSUME HashesHaveValues, NEW dpk \in Scalar, NEW input \in Seq(Byte)
  PROVE  AugmentedHashToG1(dpk, input) \in Scalar /\ VetKeyOf(dpk, input) \in Scalar
<1>1. Compressed(dpk, G2Bytes) \o input \in Seq(Nat)
  <2>1. Compressed(dpk, G2Bytes) \in Seq(Byte)
    BY CompressedFacts, SizeFacts
  <2> QED
    BY <2>1, ByteFacts, ConcatProperties
<1>2. AugmentedHashToG1(dpk, input) \in Scalar
  BY <1>1 DEF HashesHaveValues, AugmentedHashToG1
<1> QED
  BY <1>2, Closed DEF VetKeyOf

(* The pairing equation holds of the vetKey and of no other point.         *)
LEMMA OnlyVetKeyVerifies ==
  ASSUME HashesHaveValues, NEW dpk \in Scalar, NEW input \in Seq(Byte), NEW k \in Scalar
  PROVE  VerifyBlsSignature(dpk, input, k) <=> dpk # 0 /\ k = VetKeyOf(dpk, input)
<1> DEFINE h == AugmentedHashToG1(dpk, input)
<1>1. h \in Scalar /\ VetKeyOf(dpk, input) \in Scalar /\ VetKeyOf(dpk, input) = Times(h, dpk)
  BY VetKeyIsPoint DEF VetKeyOf
<1>2. GtMultipairing(k, Negated(1), h, dpk) = Plus(Negated(k), VetKeyOf(dpk, input))
  BY <1>1, TimesLaws, OrderFacts DEF GtMultipairing, Pairing
<1> QED
  BY <1>1, <1>2, Cancel DEF VerifyBlsSignature

LEMMA ConsistentFirstParts ==
  ASSUME NEW c1 \in Scalar, NEW c2 \in Scalar, NEW c3
  PROVE  Consistent([c1 |-> c1, c2 |-> c2, c3 |-> c3]) <=> c1 = c2
<1>1. GtMultipairing(c1, Negated(1), 1, c2) = Plus(Negated(c1), c2)
  BY TimesLaws, OrderFacts DEF GtMultipairing, Pairing
<1> QED
  BY <1>1, Cancel DEF Consistent

Encrypted == [c1 : Scalar, c2 : Scalar, c3 : Scalar]

LEMMA EncryptedForIsEncrypted ==
  ASSUME HashesHaveValues, NEW tsk \in Scalar, NEW dpk \in Scalar, NEW input \in Seq(Byte),
         NEW rho \in Scalar
  PROVE  EncryptedFor(tsk, dpk, input, rho) \in Encrypted
  BY VetKeyIsPoint, Closed DEF EncryptedFor, Encrypted

LEMMA DecryptsItsOwn ==
  ASSUME HashesHaveValues, NEW tsk \in Scalar, NEW dpk \in Scalar, NEW input \in Seq(Byte),
         NEW rho \in Scalar
  PROVE  DecryptAndVerify(EncryptedFor(tsk, dpk, input, rho), tsk, dpk, input)
            = IF dpk = 0 THEN Err("invalid encrypted key") ELSE Ok(VetKeyOf(dpk, input))
<1> DEFINE v == VetKeyOf(dpk, input)
           x == Times(tsk, rho)
           ek == EncryptedFor(tsk, dpk, input, rho)
<1>1. v \in Scalar /\ x \in Scalar /\ x = Times(rho, tsk) /\ Plus(v, x) \in Scalar
  BY VetKeyIsPoint, Closed, TimesLaws
<1>2. ek = [c1 |-> rho, c2 |-> rho, c3 |-> Plus(v, x)]
  BY DEF EncryptedFor
<1>3. Consistent(ek)
  BY <1>2, ConsistentFirstParts
<1>4. Plus(ek.c3, Negated(Times(ek.c1, tsk))) = v
  BY <1>1, <1>2, Cancel
<1>5. VerifyBlsSignature(dpk, input, v) <=> dpk # 0
  BY <1>1, OnlyVetKeyVerifies
<1> QED
  BY <1>3, <1>4, <1>5 DEF DecryptAndVerify

LEMMA DecryptsNothingElse ==
  ASSUME HashesHaveValues, NEW tsk \in Scalar, NEW dpk \in Scalar, NEW input \in Seq(Byte),
         NEW ek \in Encrypted, IsOk(DecryptAndVerify(ek, tsk, dpk, input))
  PROVE  /\ dpk # 0
         /\ DecryptAndVerify(ek, tsk, dpk, input) = Ok(VetKeyOf(dpk, input))
         /\ \E rho \in Scalar : ek = EncryptedFor(tsk, dpk, input, rho)
<1> DEFINE v == VetKeyOf(dpk, input)
           x == Times(ek.c1, tsk)
           k == Plus(ek.c3, Negated(x))
<1>1. /\ ek.c1 \in Scalar /\ ek.c2 \in Scalar /\ ek.c3 \in Scalar
      /\ ek = [c1 |-> ek.c1, c2 |-> ek.c2, c3 |-> ek.c3]
  BY DEF Encrypted
<1>2. x \in Scalar /\ k \in Scalar /\ x = Times(tsk, ek.c1)
  BY <1>1, Closed, TimesLaws
<1>3. Consistent(ek) /\ VerifyBlsSignature(dpk, input, k) /\ DecryptAndVerify(ek, tsk, dpk, input) = Ok(k)
  BY DEF DecryptAndVerify, IsOk, Err
<1>4. ek.c1 = ek.c2
  BY <1>1, <1>3, ConsistentFirstParts
<1>5. dpk # 0 /\ k = v
  BY <1>2, <1>3, OnlyVetKeyVerifies
<1>6. ek.c3 = Plus(v, x)
  BY <1>1, <1>2, <1>5, Cancel
<1>7. ek = EncryptedFor(tsk, dpk, input, ek.c1)
  BY <1>1, <1>2, <1>4, <1>6 DEF EncryptedFor
<1> QED
  BY <1>1, <1>3, <1>5, <1>7

(* The bytes of an encrypted vetKey and what is read from them.            *)
LEMMA EncryptedBytes ==
  ASSUME NEW ek \in Encrypted
  PROVE  /\ SerializeEncrypted(ek) \in Seq(Byte)
         /\ Len(SerializeEncrypted(ek)) = EncryptedVetKeyBytes
         /\ DeserializeEncrypted(SerializeEncrypted(ek)) = Ok(ek)
         /\ SubSeq(SerializeEncrypted(ek), C3Offset + 1, C3Offset + G1Bytes)
                = Compressed(ek.c3, G1Bytes)
<1> DEFINE s == Compressed(ek.c1, G1Bytes)
           t == Compressed(ek.c2, G2Bytes)
           u == Compressed(ek.c3, G1Bytes)
<1>1. /\ ek.c1 \in Scalar /\ ek.c2 \in Scalar /\ ek.c3 \in Scalar
      /\ ek = [c1 |-> ek.c1, c2 |-> ek.c2, c3 |-> ek.c3]
  BY DEF Encrypted
<1>2. G1Bytes \in Nat \ {0} /\ G2Bytes \in Nat \ {0}
  BY SizeFacts
<1>3. /\ s \in Seq(Byte) /\ Len(s) = G1Bytes /\ FromCompressed(s, G1Bytes) = Ok(ek.c1)
      /\ t \in Seq(Byte) /\ Len(t) = G2Bytes /\ FromCompressed(t, G2Bytes) = Ok(ek.c2)
      /\ u \in Seq(Byte) /\ Len(u) = G1Bytes /\ FromCompressed(u, G1Bytes) = Ok(ek.c3)
  BY <1>1, <1>2, CompressedFacts
<1>4. SerializeEncrypted(ek) = s \o t \o u
  BY DEF SerializeEncrypted
<1> HIDE DEF s, t, u
<1> DEFINE w == s \o t \o u
<1>5. /\ w \in Seq(Byte) /\ Len(w) = Len(s) + Len(t) + Len(u)
      /\ SubSeq(w, 1, Len(s)) = s
      /\ SubSeq(w, Len(s) + 1, Len(s) + Len(t)) = t
      /\ SubSeq(w, Len(s) + Len(t) + 1, Len(s) + Len(t) + Len(u)) = u
  <2>1. s \in Seq(Byte) /\ t \in Seq(Byte) /\ u \in Seq(Byte)
    BY <1>3
  <2> QED
    BY <2>1, Cut
<1> HIDE DEF w
<1>6. /\ Len(w) = EncryptedVetKeyBytes
      /\ SubSeq(w, 1, C2Offset) = s
      /\ SubSeq(w, C2Offset + 1, C3Offset) = t
      /\ SubSeq(w, C3Offset + 1, EncryptedVetKeyBytes) = u
      /\ SubSeq(w, C3Offset + 1, C3Offset + G1Bytes) = u
  <2>1. /\ C2Offset = Len(s) /\ C3Offset = Len(s) + Len(t)
        /\ EncryptedVetKeyBytes = Len(s) + Len(t) + Len(u)
        /\ C3Offset + G1Bytes = Len(s) + Len(t) + Len(u)
    BY <1>2, <1>3 DEF C2Offset, C3Offset, EncryptedVetKeyBytes
  <2> QED
    BY <1>5, <2>1
<1>7. DeserializeEncrypted(w) = Ok(ek)
  <2>1. \A p : IsOk(Ok(p)) /\ Ok(p).value = p
    BY DEF IsOk, Ok
  <2>2. /\ FromCompressed(SubSeq(w, 1, C2Offset), G1Bytes) = Ok(ek.c1)
        /\ FromCompressed(SubSeq(w, C2Offset + 1, C3Offset), G2Bytes) = Ok(ek.c2)
        /\ FromCompressed(SubSeq(w, C3Offset + 1, EncryptedVetKeyBytes), G1Bytes) = Ok(ek.c3)
    BY <1>3, <1>6
  <2>3. DeserializeEncrypted(w) = Ok([c1 |-> ek.c1, c2 |-> ek.c2, c3 |-> ek.c3])
    BY <1>6, <2>1, <2>2 DEF DeserializeEncrypted
  <2> QED
    BY <1>1, <2>3
<1> QED
  BY <1>4, <1>5, <1>6, <1>7 DEF w, u

LEMMA EncryptedFromBytes ==
  ASSUME NEW bytes \in Seq(Byte), IsOk(DeserializeEncrypted(bytes))
  PROVE  /\ DeserializeEncrypted(bytes).value \in Encrypted
         /\ bytes = SerializeEncrypted(DeserializeEncrypted(bytes).value)
<1> DEFINE s == SubSeq(bytes, 1, C2Offset)
           t == SubSeq(bytes, C2Offset + 1, C3Offset)
           u == SubSeq(bytes, C3Offset + 1, EncryptedVetKeyBytes)
           c1 == FromCompressed(s, G1Bytes)
           c2 == FromCompressed(t, G2Bytes)
           c3 == FromCompressed(u, G1Bytes)
<1>1. /\ Len(bytes) = EncryptedVetKeyBytes /\ IsOk(c1) /\ IsOk(c2) /\ IsOk(c3)
      /\ DeserializeEncrypted(bytes) = Ok([c1 |-> c1.value, c2 |-> c2.value, c3 |-> c3.value])
  BY DEF DeserializeEncrypted, IsOk, Err
<1>2. G1Bytes \in Nat \ {0} /\ G2Bytes \in Nat \ {0}
  BY SizeFacts
<1>3. bytes = s \o t \o u
  <2>1. /\ C2Offset \in Nat /\ C3Offset \in Nat /\ C2Offset <= C3Offset
        /\ C3Offset <= Len(bytes) /\ Len(bytes) = EncryptedVetKeyBytes
    BY <1>1, <1>2 DEF C2Offset, C3Offset, EncryptedVetKeyBytes
  <2> QED
    BY <2>1, PartsJoin
<1> HIDE DEF s, t, u
<1>4. /\ c1.value \in Scalar /\ s = Compressed(c1.value, G1Bytes)
      /\ c2.value \in Scalar /\ t = Compressed(c2.value, G2Bytes)
      /\ c3.value \in Scalar /\ u = Compressed(c3.value, G1Bytes)
  BY <1>1, <1>2, FromCompressedFacts
<1> HIDE DEF c1, c2, c3
<1> DEFINE ek == [c1 |-> c1.value, c2 |-> c2.value, c3 |-> c3.value]
<1>5. DeserializeEncrypted(bytes).value = ek
  BY <1>1 DEF Ok
<1>6. ek \in Encrypted
  BY <1>4 DEF Encrypted
<1>7. ek.c1 = c1.value /\ ek.c2 = c2.value /\ ek.c3 = c3.value
  OBVIOUS
<1> HIDE DEF ek
<1>8. bytes = SerializeEncrypted(ek)
  BY <1>3, <1>4, <1>7 DEF SerializeEncrypted
<1> QED
  BY <1>5, <1>6, <1>8

(* decrypt_and_verify as the property states it, for any bytes.            *)
LEMMA DecryptionIsExact ==
  ASSUME HashesHaveValues, NEW bytes \in Seq(Byte), NEW tsk \in Scalar, NEW dpk \in Scalar,
         NEW input \in Seq(Byte), NEW answer,
         answer = IF IsOk(DeserializeEncrypted(bytes))
                  THEN DecryptAndVerify(DeserializeEncrypted(bytes).value, tsk, dpk, input)
                  ELSE DeserializeEncrypted(bytes)
  PROVE  /\ IsOk(answer) <=>
                /\ \E rho \in Scalar : bytes = SerializeEncrypted(EncryptedFor(tsk, dpk, input, rho))
                /\ dpk # 0
         /\ IsOk(answer) => answer.value = VetKeyOf(dpk, input)
<1>1. ASSUME NEW rho \in Scalar, bytes = SerializeEncrypted(EncryptedFor(tsk, dpk, input, rho)),
             dpk # 0
      PROVE  IsOk(answer)
  <2> DEFINE ek == EncryptedFor(tsk, dpk, input, rho)
  <2>1. ek \in Encrypted
    BY EncryptedForIsEncrypted
  <2>2. DecryptAndVerify(ek, tsk, dpk, input) = Ok(VetKeyOf(dpk, input))
    BY <1>1, DecryptsItsOwn
  <2> HIDE DEF ek
  <2>3. DeserializeEncrypted(bytes) = Ok(ek)
    BY <1>1, <2>1, EncryptedBytes DEF ek
  <2> QED
    BY <2>2, <2>3 DEF IsOk, Ok
<1>2. ASSUME IsOk(answer)
      PROVE  /\ \E rho \in Scalar : bytes = SerializeEncrypted(EncryptedFor(tsk, dpk, input, rho))
             /\ dpk # 0
             /\ answer.value = VetKeyOf(dpk, input)
  <2> DEFINE ek == DeserializeEncrypted(bytes).value
  <2>1. IsOk(DeserializeEncrypted(bytes)) /\ answer = DecryptAndVerify(ek, tsk, dpk, input)
    BY <1>2
  <2>2. ek \in Encrypted /\ bytes = SerializeEncrypted(ek)
    BY <2>1, EncryptedFromBytes
  <2> HIDE DEF ek
  <2>3. /\ dpk # 0 /\ answer = Ok(VetKeyOf(dpk, input))
        /\ \E rho \in Scalar : ek = EncryptedFor(tsk, dpk, input, rho)
    BY <1>2, <2>1, <2>2, DecryptsNothingElse
  <2> QED
    BY <2>2, <2>3 DEF Ok
<1> QED
  BY <1>1, <1>2

-----------------------------------------------------------------------------
(* Derived keys: what the library computes offline from a public key is    *)
(* the public key of what the vetKD system derives from the secret.        *)

LEMMA OkFacts ==
  ASSUME NEW v
  PROVE  IsOk(Ok(v)) /\ Ok(v).value = v /\ ~ IsOk(Err(v))
  BY DEF IsOk, Ok, Err

Regroups(x, y, z) == (x \o y) \o z = x \o (y \o z)

LEMMA Regroup ==
  ASSUME NEW S, NEW x \in Seq(S), NEW y \in Seq(S), NEW z \in Seq(S)
  PROVE  Regroups(x, y, z)
<1>1. (x \o y) \o z = x \o (y \o z)
  BY ConcatAssociative, SMTT(60)
<1> QED
  BY <1>1 DEF Regroups

LEMMA RegroupFour ==
  ASSUME NEW S, NEW m \in Seq(S), NEW a \in Seq(S), NEW n \in Seq(S), NEW b \in Seq(S)
  PROVE  Regroups(m \o a, n, b)
<1> DEFINE x == m \o a
<1>1. x \in Seq(S)
  BY ConcatProperties
<1> HIDE DEF x
<1>2. Regroups(x, n, b)
  BY <1>1, Regroup
<1> QED
  BY <1>2 DEF x

LEMMA HashesOfTwo ==
  ASSUME HashesHaveValues, NEW a \in Seq(Byte), NEW b \in Seq(Byte), NEW dst
  PROVE  /\ HashToScalarTwoInputs(a, b, dst) \in Scalar
         /\ SystemHashToScalar(a, b, dst) = HashToScalarTwoInputs(a, b, dst)
<1>1. a \in Seq(Nat) /\ b \in Seq(Nat)
  BY ByteFacts
<1> DEFINE m == <<Len(a)>>
           n == <<Len(b)>>
<1>2. m \in Seq(Nat) /\ n \in Seq(Nat)
  BY <1>1, LenProperties
<1>3. LengthPrefixed(a) = m \o a /\ LengthPrefixed(b) = n \o b
  BY DEF LengthPrefixed
<1> HIDE DEF m, n
<1>4. m \o a \in Seq(Nat) /\ n \o b \in Seq(Nat)
  BY <1>1, <1>2, ConcatProperties
<1>5. (m \o a) \o (n \o b) \in Seq(Nat)
  BY <1>4, ConcatProperties
<1>6. m \o a \o n \o b = (m \o a) \o (n \o b)
  <2>1. Regroups(m \o a, n, b)
    BY <1>1, <1>2, RegroupFour
  <2> QED
    BY <2>1 DEF Regroups
<1>7. HashToScalarTwoInputs(a, b, dst) = HashToScalar((m \o a) \o (n \o b), dst)
  BY <1>3 DEF HashToScalarTwoInputs
<1>8. SystemHashToScalar(a, b, dst) = HashToScalar(m \o a \o n \o b, dst)
  BY DEF SystemHashToScalar, m, n
<1> QED
  BY <1>5, <1>6, <1>7, <1>8 DEF HashesHaveValues

(* The derived public key, by the name the library has for the two steps.  *)
Derived(mpk, canister, context) == DeriveSubKey(DeriveCanisterKey(mpk, canister), context)

LEMMA DerivedIsPoint ==
  ASSUME HashesHaveValues, NEW mpk \in Scalar, NEW canister \in Seq(Byte), NEW context \in Seq(Byte)
  PROVE  DeriveCanisterKey(mpk, canister) \in Scalar /\ Derived(mpk, canister, context) \in Scalar
<1>1. \A p \in Scalar : SerializePublicKey(p) \in Seq(Byte)
  BY CompressedFacts, SizeFacts DEF SerializePublicKey
<1>2. DeriveCanisterKey(mpk, canister) \in Scalar
  <2>1. HashToScalarTwoInputs(SerializePublicKey(mpk), canister, "canister-id") \in Scalar
    BY <1>1, HashesOfTwo
  <2> QED
    BY <2>1, Closed DEF DeriveCanisterKey
<1>3. \A p \in Scalar : DeriveSubKey(p, context) \in Scalar
  <2> SUFFICES ASSUME NEW p \in Scalar PROVE DeriveSubKey(p, context) \in Scalar
    OBVIOUS
  <2>1. HashToScalarTwoInputs(SerializePublicKey(p), context, "context") \in Scalar
    BY <1>1, HashesOfTwo
  <2> QED
    BY <2>1, Closed DEF DeriveSubKey
<1> QED
  BY <1>2, <1>3 DEF Derived

LEMMA SystemDerives ==
  ASSUME HashesHaveValues, NEW mpk \in Scalar, NEW canister \in Seq(Byte), NEW context \in Seq(Byte),
         NEW derived, derived = DeriveKey(DerivationContext(canister, context), Times(1, mpk))
  PROVE  /\ derived.key = Derived(mpk, canister, context)
         /\ Plus(derived.delta, mpk) = Derived(mpk, canister, context)
<1> DEFINE offset == HashToScalarTwoInputs(Compressed(mpk, G2Bytes), canister, "canister-id")
           canisterKey == Plus(mpk, offset)
           contextOffset == HashToScalarTwoInputs(Compressed(canisterKey, G2Bytes), context, "context")
<1>1. Times(1, mpk) = mpk
  BY TimesLaws
<1>2. /\ offset \in Scalar
      /\ SystemHashToScalar(Compressed(mpk, G2Bytes), canister, "canister-id") = offset
  <2>1. Compressed(mpk, G2Bytes) \in Seq(Byte)
    BY CompressedFacts, SizeFacts
  <2> QED
    BY <2>1, HashesOfTwo
<1> HIDE DEF offset
<1>3. canisterKey \in Scalar /\ Plus(Times(1, offset), mpk) = canisterKey
  BY <1>2, Closed, TimesLaws, PlusLaws
<1>4. DeriveCanisterKey(mpk, canister) = canisterKey
  BY DEF DeriveCanisterKey, SerializePublicKey, offset
<1> HIDE DEF canisterKey
<1>5. /\ contextOffset \in Scalar
      /\ SystemHashToScalar(Compressed(canisterKey, G2Bytes), context, "context") = contextOffset
  <2>1. Compressed(canisterKey, G2Bytes) \in Seq(Byte)
    BY <1>3, CompressedFacts, SizeFacts
  <2> QED
    BY <2>1, HashesOfTwo
<1>6. CASE context = << >>
  <2>1. derived = [key |-> canisterKey, delta |-> offset]
    BY <1>1, <1>2, <1>3, <1>6 DEF DeriveKey, DerivationContext
  <2>2. Derived(mpk, canister, context) = canisterKey
    BY <1>4, <1>6 DEF Derived, DeriveSubKey
  <2>3. Plus(offset, mpk) = canisterKey
    BY <1>2, PlusLaws DEF canisterKey
  <2> QED
    BY <2>1, <2>2, <2>3
<1>7. CASE context # << >>
  <2>1. /\ DerivationContext(canister, context).context # NoContext
        /\ DerivationContext(canister, context).context.value = context
        /\ DerivationContext(canister, context).canister = canister
    BY <1>7 DEF DerivationContext, NoContext, Ok, Err
  <2>2. derived = [key |-> Plus(Times(1, contextOffset), canisterKey),
                   delta |-> Plus(offset, contextOffset)]
    BY <1>1, <1>2, <1>3, <1>5, <2>1 DEF DeriveKey
  <2>3. Derived(mpk, canister, context) = Plus(canisterKey, contextOffset)
    BY <1>4, <1>7 DEF Derived, DeriveSubKey, SerializePublicKey
  <2> HIDE DEF contextOffset
  <2>4. Plus(Times(1, contextOffset), canisterKey) = Plus(canisterKey, contextOffset)
    BY <1>3, <1>5, TimesLaws, PlusLaws
  <2>5. Plus(Plus(offset, contextOffset), mpk) = Plus(canisterKey, contextOffset)
    <3>1. Plus(Plus(offset, contextOffset), mpk) = Plus(mpk, Plus(offset, contextOffset))
      BY <1>2, <1>5, Closed, PlusLaws
    <3>2. Plus(mpk, Plus(offset, contextOffset)) = Plus(Plus(mpk, offset), contextOffset)
      BY <1>2, <1>5, PlusLaws
    <3> QED
      BY <3>1, <3>2 DEF canisterKey
  <2> QED
    BY <2>2, <2>3, <2>4, <2>5
<1> QED
  BY <1>6, <1>7

LEMMA PublicKeyBytes ==
  ASSUME NEW p \in Scalar
  PROVE  DeserializePublicKey(SerializePublicKey(p)) = Ok(p)
<1>1. /\ Len(Compressed(p, G2Bytes)) = G2Bytes
      /\ FromCompressed(Compressed(p, G2Bytes), G2Bytes) = Ok(p)
  BY CompressedFacts, SizeFacts
<1> QED
  BY <1>1, OkFacts DEF DeserializePublicKey, SerializePublicKey

(* The replies of the vetKD system on a network.                           *)
LEMMA SystemReplies ==
  ASSUME HashesHaveValues, NEW network, NEW name \in DOMAIN network, network[name] \in Scalar,
         NEW canister \in Seq(Byte), NEW context \in Seq(Byte), NEW input \in Seq(Byte),
         NEW tsk \in Scalar, NEW rho \in Scalar, NEW dpk,
         dpk = Derived(network[name], canister, context)
  PROVE  /\ dpk \in Scalar
         /\ VetkdPublicKey(network, canister, context, name) = Ok(SerializePublicKey(dpk))
         /\ VetkdDeriveKey(network, canister, context, name, input, Compressed(tsk, G1Bytes), rho)
                = Ok(SerializeEncrypted(EncryptedFor(tsk, dpk, input, rho)))
<1> DEFINE msk == network[name]
           derivation == DerivationContext(canister, context)
           derived == DeriveKey(derivation, Times(1, msk))
<1>1. msk \in Scalar /\ dpk \in Scalar
  BY DerivedIsPoint
<1>2. derived.key = dpk /\ Plus(derived.delta, msk) = dpk
  BY SystemDerives
<1>3. VetkdPublicKey(network, canister, context, name) = Ok(SerializePublicKey(dpk))
  BY <1>2 DEF VetkdPublicKey, SerializePublicKey
<1>4. CreateEncryptedKey(msk, tsk, derivation, input, rho) = EncryptedFor(tsk, dpk, input, rho)
  <2> DEFINE v == VetKeyOf(dpk, input)
             x == Times(tsk, rho)
  <2>1. v \in Scalar /\ x \in Scalar
    BY <1>1, VetKeyIsPoint, Closed
  <2>2. Times(AugmentedHashToG1(dpk, input), dpk) = v
    BY DEF VetKeyOf
  <2>3. Plus(x, v) = Plus(v, x) /\ Times(1, rho) = rho
    BY <2>1, PlusLaws, TimesLaws
  <2> HIDE DEF v, x
  <2>4. CreateEncryptedKey(msk, tsk, derivation, input, rho)
            = [c1 |-> rho, c2 |-> rho, c3 |-> Plus(x, v)]
    BY <1>2, <2>2, <2>3 DEF CreateEncryptedKey, x
  <2> QED
    BY <2>3, <2>4 DEF EncryptedFor, v, x
<1>5. FromCompressed(Compressed(tsk, G1Bytes), G1Bytes) = Ok(tsk)
  BY CompressedFacts, SizeFacts
<1>6. VetkdDeriveKey(network, canister, context, name, input, Compressed(tsk, G1Bytes), rho)
        = Ok(SerializeEncrypted(EncryptedFor(tsk, dpk, input, rho)))
  BY <1>4, <1>5, OkFacts DEF VetkdDeriveKey
<1> QED
  BY <1>1, <1>3, <1>6

-----------------------------------------------------------------------------
(* The calls.                                                              *)

(* Each step but the last makes a call of one utility.                     *)
LEMMA FnOfCall ==
  ASSUME Next
  PROVE  /\ call'.fn = "decrypt_message" => CallDecryptMessage
         /\ call'.fn = "decrypt_and_verify" => CallDecryptAndVerify
         /\ call'.fn = "ibe_decrypt" => CallIbeDecrypt
         /\ call'.fn = "vrf_deserialize" => CallVrfDeserialize
         /\ call'.fn = "ibe_encrypt" => CallIbeEncrypt
         /\ call'.fn = "get_vetkey" => CallGetVetkey
         /\ call'.fn = "transport_key" => CallTransportKey
         /\ call'.fn = "derive_public_key" => CallDerivePublicKey
         /\ call'.fn = "sign_with_bls" => CallSignWithBls
         /\ call'.fn = "compute_vrf" => CallComputeVrf
         /\ call'.fn = "mul" => CallMul
<1>1. CallDecryptMessage => call'.fn = "decrypt_message"
  BY DEF CallDecryptMessage, Called
<1>2. CallDecryptAndVerify => call'.fn = "decrypt_and_verify"
  BY DEF CallDecryptAndVerify, Called
<1>3. CallIbeDecrypt => call'.fn = "ibe_decrypt"
  BY DEF CallIbeDecrypt, Called
<1>4. CallVrfDeserialize => call'.fn = "vrf_deserialize"
  BY DEF CallVrfDeserialize, Called
<1>5. CallIbeEncrypt => call'.fn = "ibe_encrypt"
  BY DEF CallIbeEncrypt, Called
<1>6. CallGetVetkey => call'.fn = "get_vetkey"
  BY DEF CallGetVetkey, Called
<1>7. CallSignWithBls => call'.fn = "sign_with_bls"
  BY DEF CallSignWithBls, Called
<1>8. CallComputeVrf => call'.fn = "compute_vrf"
  BY DEF CallComputeVrf, Called
<1>9. CallMul => call'.fn = "mul"
  BY DEF CallMul, Called
<1>10. CallTransportKey => call'.fn = "transport_key"
  BY DEF CallTransportKey, Called
<1>11. CallDerivePublicKey => call'.fn = "derive_public_key"
  BY DEF CallDerivePublicKey, Called
<1>12. Forget => call'.fn = "none"
  BY DEF Forget, NoCall
<1> QED
  BY <1>1, <1>2, <1>3, <1>4, <1>5, <1>6, <1>7, <1>8, <1>9, <1>10, <1>11, <1>12 DEF Next

LEMMA ArgumentFacts ==
  /\ TransportKey \subseteq Scalar /\ PublicKey \subseteq Scalar
  /\ Input \subseteq Seq(Byte) /\ SecretBytes \subseteq Seq(Byte) /\ ShortString \subseteq Seq(Byte)
  BY ArgumentsAssumption

(* A key comes out of bytes exactly when they are an encryption of it, for *)
(* groups, sizes and hash functions of any kind.                           *)
THEOREM OnlyVetKeysComeOut ==
  ASSUME HashesHaveValues
  PROVE  Spec => []OnlyTheVetKey
<1>1. Init => OnlyTheVetKey
  BY DEF Init, NoCall, OnlyTheVetKey
<1>2. OnlyTheVetKey /\ [Next]_vars => OnlyTheVetKey'
  <2>1. CASE UNCHANGED vars
    BY <2>1 DEF vars, OnlyTheVetKey
  <2>2. ASSUME Next, call'.fn = "decrypt_and_verify" PROVE OnlyTheVetKey'
    <3>1. CallDecryptAndVerify
      BY <2>2, FnOfCall
    <3>2. PICK bytes \in ShortString, tsk \in TransportKey, dpk \in PublicKey, input \in Input :
             Called([fn |-> "decrypt_and_verify", bytes |-> bytes,
                     tsk |-> tsk, dpk |-> dpk, input |-> input],
                    IF IsOk(DeserializeEncrypted(bytes))
                    THEN DecryptAndVerify(DeserializeEncrypted(bytes).value, tsk, dpk, input)
                    ELSE DeserializeEncrypted(bytes))
      BY <3>1 DEF CallDecryptAndVerify
    <3>3. /\ call'.bytes = bytes /\ call'.tsk = tsk /\ call'.dpk = dpk /\ call'.input = input
          /\ result' = IF IsOk(DeserializeEncrypted(bytes))
                       THEN DecryptAndVerify(DeserializeEncrypted(bytes).value, tsk, dpk, input)
                       ELSE DeserializeEncrypted(bytes)
      BY <3>2 DEF Called
    <3>4. bytes \in Seq(Byte) /\ tsk \in Scalar /\ dpk \in Scalar /\ input \in Seq(Byte)
      BY ArgumentFacts
    <3>5. /\ IsOk(result') <=>
                /\ \E rho \in Scalar : bytes = SerializeEncrypted(EncryptedFor(tsk, dpk, input, rho))
                /\ dpk # 0
          /\ IsOk(result') => result'.value = VetKeyOf(dpk, input)
      BY <3>3, <3>4, DecryptionIsExact
    <3> QED
      BY <3>3, <3>5 DEF OnlyTheVetKey
  <2>3. ASSUME Next, call'.fn # "decrypt_and_verify" PROVE OnlyTheVetKey'
    BY <2>3 DEF OnlyTheVetKey
  <2> QED
    BY <2>1, <2>2, <2>3
<1> QED
  BY <1>1, <1>2, PTL DEF Spec

LEMMA VetKeyBytes ==
  ASSUME NEW k \in Scalar
  PROVE  /\ SerializeVetKey(k) \in Seq(Byte) /\ Len(SerializeVetKey(k)) = G1Bytes
         /\ DeserializeVetKey(SerializeVetKey(k)) = Ok(k)
         /\ IsValidTransportPublicKeyEncoding(SerializeVetKey(k))
<1>1. /\ Compressed(k, G1Bytes) \in Seq(Byte) /\ Len(Compressed(k, G1Bytes)) = G1Bytes
      /\ FromCompressed(Compressed(k, G1Bytes), G1Bytes) = Ok(k)
  BY CompressedFacts, SizeFacts
<1> QED
  BY <1>1, OkFacts DEF SerializeVetKey, DeserializeVetKey, IsValidTransportPublicKeyEncoding

LEMMA VetKeyBytesVerify ==
  ASSUME HashesHaveValues, NEW dpk \in Scalar \ {0}, NEW input \in Seq(Byte)
  PROVE  VerifyBlsSignatureBytes(dpk, input, SerializeVetKey(VetKeyOf(dpk, input)))
<1>1. VetKeyOf(dpk, input) \in Scalar
  BY VetKeyIsPoint
<1>2. VerifyBlsSignature(dpk, input, VetKeyOf(dpk, input))
  BY <1>1, OnlyVetKeyVerifies
<1> QED
  BY <1>1, <1>2, VetKeyBytes, OkFacts DEF VerifyBlsSignatureBytes

(* A transport key is what its bytes stand for, or what its seed gives.    *)
LEMMA TransportKeyFacts ==
  ASSUME HashesHaveValues, NEW bytes \in Seq(Byte), NEW isSeed \in BOOLEAN, NEW tsk,
         tsk = IF isSeed THEN TransportKeyFromSeed(bytes) ELSE DeserializeTransportKey(bytes)
  PROVE  /\ IsOk(tsk) => tsk.value \in Scalar
         /\ IsOk(tsk) <=> IF isSeed THEN Len(bytes) = SecretKeyBytes
                          ELSE \E s \in Scalar : bytes = SerializeTransportKey(s)
<1>1. CASE isSeed
  <2>1. RandomScalar(bytes) \in Scalar
    BY ByteFacts DEF HashesHaveValues
  <2> QED
    BY <1>1, <2>1, OkFacts DEF TransportKeyFromSeed
<1>2. CASE ~ isSeed
  <2>1. ASSUME NEW s \in Scalar, bytes = ToScalarBytes(s)
        PROVE  IsOk(tsk) /\ tsk.value \in Scalar
    <3>1. FromScalarBytes(bytes) = Ok(s) /\ Len(bytes) = SecretKeyBytes
      BY <2>1, ScalarBytesFacts
    <3> QED
      BY <1>2, <3>1, OkFacts DEF DeserializeTransportKey
  <2>2. ASSUME IsOk(tsk) PROVE \E s \in Scalar : bytes = ToScalarBytes(s)
    <3>1. IsOk(FromScalarBytes(bytes))
      BY <1>2, <2>2, OkFacts DEF DeserializeTransportKey
    <3> QED
      BY <3>1, OkFacts DEF FromScalarBytes
  <2> QED
    BY <1>2, <2>1, <2>2 DEF SerializeTransportKey
<1> QED
  BY <1>1, <1>2


(* The master key by its name is that of the network's secret.             *)
LEMMA MasterKey ==
  ASSUME NEW network \in {Mainnet, PocketIc}, NEW name \in DOMAIN MainnetKey, NEW master,
         master = IF network = Mainnet THEN ForMainnetKey(name) ELSE ForPocketIcKey(name)
  PROVE  /\ name \in DOMAIN network /\ network[name] \in Scalar
         /\ master = Ok(network[name])
<1>1. CASE network = Mainnet
  <2>1. name \in DOMAIN Mainnet /\ Mainnet[name] = MainnetKey[name] /\ Mainnet[name] \in Scalar
    BY NetworksAssumption
  <2> QED
    BY <1>1, <2>1 DEF ForMainnetKey
<1>2. CASE network = PocketIc /\ network # Mainnet
  <2>1. /\ name \in DOMAIN PocketIcKey /\ name \in DOMAIN PocketIc
        /\ PocketIc[name] = PocketIcKey[name] /\ PocketIc[name] \in Scalar
    BY NetworksAssumption
  <2> QED
    BY <1>2, <2>1 DEF ForPocketIcKey
<1> QED
  BY <1>1, <1>2

-----------------------------------------------------------------------------
(* Signatures and VRF outputs of a canister.                               *)

(* The last point of a reply encrypted to the identity is the vetKey.      *)
LEMMA UnencryptedReply ==
  ASSUME HashesHaveValues, NEW dpk \in Scalar, NEW input \in Seq(Byte), NEW rho \in Scalar,
         NEW reply, reply = SerializeEncrypted(EncryptedFor(0, dpk, input, rho))
  PROVE  /\ reply \in Seq(Byte) /\ Len(reply) = EncryptedVetKeyBytes
         /\ SubSeq(reply, C3Offset + 1, C3Offset + G1Bytes) = SerializeVetKey(VetKeyOf(dpk, input))
<1> DEFINE ek == EncryptedFor(0, dpk, input, rho)
           v == VetKeyOf(dpk, input)
<1>1. ek \in Encrypted /\ v \in Scalar
  BY OrderFacts, EncryptedForIsEncrypted, VetKeyIsPoint
<1>2. ek.c3 = v
  <2>1. Times(0, rho) = 0
    <3>1. rho \in Int /\ 0 * rho = 0
      BY OrderFacts
    <3> QED
      BY <3>1, Reduced, OrderFacts DEF Times
  <2> QED
    BY <1>1, <2>1, PlusLaws DEF EncryptedFor
<1> HIDE DEF ek
<1>3. /\ SerializeEncrypted(ek) \in Seq(Byte)
      /\ Len(SerializeEncrypted(ek)) = EncryptedVetKeyBytes
      /\ SubSeq(SerializeEncrypted(ek), C3Offset + 1, C3Offset + G1Bytes) = Compressed(ek.c3, G1Bytes)
  BY <1>1, EncryptedBytes
<1>4. reply = SerializeEncrypted(ek)
  BY DEF ek
<1> QED
  BY <1>2, <1>3, <1>4 DEF SerializeVetKey

LEMMA OneByteMore ==
  ASSUME NEW s \in Seq(Byte)
  PROVE  s \o <<0>> \in Seq(Byte) /\ Len(s \o <<0>>) = Len(s) + 1 /\ s \o <<0>> # s
<1>1. 0 \in Byte /\ Len(s) \in Nat
  BY OrderFacts, ByteFacts, LenProperties
<1>2. <<0>> \in Seq(Byte) /\ Len(<<0>>) = 1
  BY <1>1
<1>3. s \o <<0>> \in Seq(Byte) /\ Len(s \o <<0>>) = Len(s) + 1
  BY <1>2, ConcatProperties
<1> QED
  BY <1>1, <1>3

(* What is cut from a reply of the vetKD system, a longer one, or none.    *)
LEMMA CutFromReply ==
  ASSUME HashesHaveValues, NEW network, NEW name \in DOMAIN network, network[name] \in Scalar,
         NEW canister \in Seq(Byte), NEW context \in Seq(Byte), NEW input \in Seq(Byte),
         NEW rho \in Scalar, NEW dpk, dpk = Derived(network[name], canister, context),
         NEW reply \in Replies(VetkdDeriveKey(network, canister, context, name, input,
                                              UnencryptedTransportKey, rho))
  PROVE  /\ dpk \in Scalar
         /\ IsOk(DeriveUnencryptedVetkey(reply))
                <=> IsOk(reply) /\ Len(reply.value) = EncryptedVetKeyBytes
         /\ IsOk(DeriveUnencryptedVetkey(reply)) =>
                DeriveUnencryptedVetkey(reply) = Ok(SerializeVetKey(VetKeyOf(dpk, input)))
<1> DEFINE bytes == SerializeEncrypted(EncryptedFor(0, dpk, input, rho))
<1>1. /\ dpk \in Scalar
      /\ VetkdDeriveKey(network, canister, context, name, input, UnencryptedTransportKey, rho)
            = Ok(bytes)
  BY OrderFacts, SystemReplies DEF UnencryptedTransportKey
<1>2. /\ bytes \in Seq(Byte) /\ Len(bytes) = EncryptedVetKeyBytes
      /\ SubSeq(bytes, C3Offset + 1, C3Offset + G1Bytes) = SerializeVetKey(VetKeyOf(dpk, input))
  BY <1>1, UnencryptedReply
<1> HIDE DEF bytes
<1>3. reply = Ok(bytes) \/ reply = Ok(bytes \o <<0>>) \/ reply = CallFailed
  BY <1>1, OkFacts DEF Replies
<1>4. CASE reply = Ok(bytes)
  BY <1>1, <1>2, <1>4, OkFacts DEF DeriveUnencryptedVetkey
<1>5. CASE reply = Ok(bytes \o <<0>>)
  <2>1. Len(bytes \o <<0>>) # EncryptedVetKeyBytes
    BY <1>2, OneByteMore, LenProperties
  <2> QED
    BY <1>1, <1>5, <2>1, OkFacts DEF DeriveUnencryptedVetkey
<1>6. CASE reply = CallFailed
  BY <1>1, <1>6, OkFacts DEF DeriveUnencryptedVetkey, CallFailed
<1> QED
  BY <1>3, <1>4, <1>5, <1>6

(* Whatever is signed, the signature verifies under the public key that is *)
(* returned for the same canister, context and key.                        *)
THEOREM SignaturesAreValid ==
  ASSUME HashesHaveValues
  PROVE  Spec => []SignaturesVerify
<1>1. Init => SignaturesVerify
  BY DEF Init, NoCall, SignaturesVerify
<1>2. SignaturesVerify /\ [Next]_vars => SignaturesVerify'
  <2>1. CASE UNCHANGED vars
    BY <2>1 DEF vars, SignaturesVerify
  <2>2. ASSUME Next, call'.fn = "sign_with_bls" PROVE SignaturesVerify'
    <3>1. CallSignWithBls
      BY <2>2, FnOfCall
    <3>0. PICK canister \in Input, context \in Input, input \in Input, rho \in TransportKey,
                name \in DOMAIN Mainnet, named \in BOOLEAN :
             \E reply \in Replies(VetkdDeriveKey(Mainnet, canister, context, name, input,
                                                UnencryptedTransportKey, rho)) :
                Called([fn |-> "sign_with_bls", input |-> input, reply |-> reply,
                        publicKey |-> BlsPublicKey(Mainnet, canister,
                                          IF named THEN Ok(canister) ELSE Err(<<>>), context, name)],
                       SignWithBls(reply))
      BY <3>1 DEF CallSignWithBls
    <3>2. PICK reply \in Replies(VetkdDeriveKey(Mainnet, canister, context, name, input,
                                                UnencryptedTransportKey, rho)) :
            Called([fn |-> "sign_with_bls", input |-> input, reply |-> reply,
                    publicKey |-> BlsPublicKey(Mainnet, canister,
                                      IF named THEN Ok(canister) ELSE Err(<<>>), context, name)],
                   SignWithBls(reply))
      BY <3>0
    <3> DEFINE dpk == Derived(Mainnet[name], canister, context)
    <3>3. /\ call'.input = input /\ call'.reply = reply
          /\ call'.publicKey = VetkdPublicKey(Mainnet, canister, context, name)
          /\ result' = DeriveUnencryptedVetkey(reply)
      BY <3>2, OkFacts DEF Called, BlsPublicKey, SignWithBls
    <3>4. /\ canister \in Seq(Byte) /\ context \in Seq(Byte) /\ input \in Seq(Byte)
          /\ rho \in Scalar /\ Mainnet[name] \in Scalar
      BY ArgumentFacts, NetworksAssumption
    <3>5. /\ dpk \in Scalar
          /\ IsOk(result') <=> IsOk(reply) /\ Len(reply.value) = EncryptedVetKeyBytes
          /\ IsOk(result') => result' = Ok(SerializeVetKey(VetKeyOf(dpk, input)))
      BY <3>3, <3>4, CutFromReply
    <3>6. DeserializePublicKey(call'.publicKey.value).value = dpk
      <4>1. VetkdPublicKey(Mainnet, canister, context, name) = Ok(SerializePublicKey(dpk))
        BY <3>4, SystemReplies
      <4> QED
        BY <3>3, <3>5, <4>1, PublicKeyBytes, OkFacts
    <3> HIDE DEF dpk
    <3>7. ASSUME IsOk(result'), dpk # 0
          PROVE  VerifyBlsSignatureBytes(dpk, input, result'.value)
      <4>1. result'.value = SerializeVetKey(VetKeyOf(dpk, input)) /\ dpk \in Scalar \ {0}
        BY <3>5, <3>7, OkFacts
      <4> QED
        BY <3>4, <4>1, VetKeyBytesVerify
    <3> QED
      BY <3>3, <3>5, <3>6, <3>7 DEF SignaturesVerify
  <2>3. ASSUME Next, call'.fn # "sign_with_bls" PROVE SignaturesVerify'
    BY <2>3 DEF SignaturesVerify
  <2> QED
    BY <2>1, <2>2, <2>3
<1> QED
  BY <1>1, <1>2, PTL DEF Spec

(* The bytes of a VRF output, and what is read from bytes.                 *)
LEMMA OutputBytes ==
  ASSUME NEW proof \in Scalar, NEW dpk \in Scalar, NEW input \in Seq(Byte),
         NEW vrf, vrf.proof = proof, vrf.dpk = dpk, vrf.input = input
  PROVE  VrfDeserialize(VrfSerialize(vrf)) = VrfCreate(proof, input, dpk)
<1> DEFINE s == Compressed(proof, G1Bytes)
           t == Compressed(dpk, G2Bytes)
           w == s \o t \o input
<1>1. G1Bytes \in Nat \ {0} /\ G2Bytes \in Nat \ {0} /\ Len(input) \in Nat
  BY SizeFacts, LenProperties
<1>2. s \in Seq(Byte) /\ Len(s) = G1Bytes /\ DeserializeVetKey(s) = Ok(proof)
  BY VetKeyBytes DEF SerializeVetKey
<1>3. t \in Seq(Byte) /\ Len(t) = G2Bytes /\ DeserializePublicKey(t) = Ok(dpk)
  BY <1>1, CompressedFacts, PublicKeyBytes DEF SerializePublicKey
<1>4. VrfSerialize(vrf) = w
  BY DEF VrfSerialize
<1> HIDE DEF s, t
<1>5. /\ Len(w) = Len(s) + Len(t) + Len(input)
      /\ SubSeq(w, 1, Len(s)) = s
      /\ SubSeq(w, Len(s) + 1, Len(s) + Len(t)) = t
      /\ SubSeq(w, Len(s) + Len(t) + 1, Len(s) + Len(t) + Len(input)) = input
  <2>1. s \in Seq(Byte) /\ t \in Seq(Byte)
    BY <1>2, <1>3
  <2> QED
    BY <2>1, Cut
<1> HIDE DEF w
<1>6. /\ ~ (Len(w) < G1Bytes + G2Bytes)
      /\ SubSeq(w, 1, G1Bytes) = s
      /\ SubSeq(w, G1Bytes + 1, G1Bytes + G2Bytes) = t
      /\ SubSeq(w, G1Bytes + G2Bytes + 1, Len(w)) = input
  BY <1>1, <1>2, <1>3, <1>5
<1>7. VrfDeserialize(w) = VrfCreate(proof, input, dpk)
  BY <1>2, <1>3, <1>6, OkFacts DEF VrfDeserialize
<1> QED
  BY <1>4, <1>7

LEMMA CreatedOutput ==
  ASSUME HashesHaveValues, NEW proof \in Scalar, NEW dpk \in Scalar, NEW input \in Seq(Byte)
  PROVE  /\ IsOk(VrfCreate(proof, input, dpk)) <=> dpk # 0 /\ proof = VetKeyOf(dpk, input)
         /\ IsOk(VrfCreate(proof, input, dpk)) =>
              LET vrf == VrfCreate(proof, input, dpk).value
              IN  /\ vrf.proof = proof /\ vrf.dpk = dpk /\ vrf.input = input
                  /\ VrfDeserialize(VrfSerialize(vrf)) = VrfCreate(proof, input, dpk)
<1>1. VerifyBlsSignature(dpk, input, proof) <=> dpk # 0 /\ proof = VetKeyOf(dpk, input)
  BY OnlyVetKeyVerifies
<1>2. IsOk(VrfCreate(proof, input, dpk)) <=> VerifyBlsSignature(dpk, input, proof)
  BY OkFacts DEF VrfCreate
<1> DEFINE vrf == VrfCreate(proof, input, dpk).value
<1>3. ASSUME IsOk(VrfCreate(proof, input, dpk))
      PROVE  vrf.proof = proof /\ vrf.dpk = dpk /\ vrf.input = input
  <2>1. VrfCreate(proof, input, dpk)
          = Ok([proof |-> proof, dpk |-> dpk, input |-> input,
                output |-> ComputeVrfHash(proof, dpk, input)])
    BY <1>2, <1>3 DEF VrfCreate
  <2> QED
    BY <2>1, OkFacts
<1> HIDE DEF vrf
<1>4. ASSUME IsOk(VrfCreate(proof, input, dpk))
      PROVE  VrfDeserialize(VrfSerialize(vrf)) = VrfCreate(proof, input, dpk)
  BY <1>3, <1>4, OutputBytes
<1> QED
  BY <1>1, <1>2, <1>3, <1>4 DEF vrf

LEMMA OutputFromBytes ==
  ASSUME HashesHaveValues, NEW bytes \in Seq(Byte), IsOk(VrfDeserialize(bytes))
  PROVE  LET vrf == VrfDeserialize(bytes).value
         IN  /\ vrf.dpk \in Scalar \ {0} /\ vrf.proof = VetKeyOf(vrf.dpk, vrf.input)
             /\ \E k \in 0 .. Len(bytes) : vrf.input = SubSeq(bytes, k + 1, Len(bytes))
             /\ VrfSerialize(vrf) = bytes
<1> DEFINE s == SubSeq(bytes, 1, G1Bytes)
           t == SubSeq(bytes, G1Bytes + 1, G1Bytes + G2Bytes)
           input == SubSeq(bytes, G1Bytes + G2Bytes + 1, Len(bytes))
           p == DeserializeVetKey(s)
           k == DeserializePublicKey(t)
           vrf == VrfDeserialize(bytes).value
<1>1. /\ ~ (Len(bytes) < G1Bytes + G2Bytes) /\ IsOk(p) /\ IsOk(k)
      /\ VrfDeserialize(bytes) = VrfCreate(p.value, input, k.value)
  BY OkFacts DEF VrfDeserialize
<1>2. G1Bytes \in Nat \ {0} /\ G2Bytes \in Nat \ {0} /\ Len(bytes) \in Nat
  BY SizeFacts, LenProperties
<1>3. input \in Seq(Byte) /\ bytes = s \o t \o input
  <2> DEFINE i == G1Bytes
             j == G1Bytes + G2Bytes
  <2>1. i \in Nat /\ j \in Nat /\ i <= j /\ j <= Len(bytes)
    BY <1>1, <1>2
  <2> HIDE DEF i, j
  <2>2. SubSeq(bytes, j + 1, Len(bytes)) \in Seq(Byte)
    BY <2>1, RestFacts
  <2>3. bytes = SubSeq(bytes, 1, i) \o SubSeq(bytes, i + 1, j) \o SubSeq(bytes, j + 1, Len(bytes))
    BY <2>1, PartsJoin
  <2> QED
    BY <2>2, <2>3 DEF i, j
<1> HIDE DEF s, t
<1>4. p.value \in Scalar /\ s = Compressed(p.value, G1Bytes)
  <2>1. IsOk(FromCompressed(s, G1Bytes)) /\ p = FromCompressed(s, G1Bytes)
    BY <1>1, OkFacts DEF DeserializeVetKey
  <2> QED
    BY <1>2, <2>1, FromCompressedFacts
<1>5. k.value \in Scalar /\ t = Compressed(k.value, G2Bytes)
  <2>1. IsOk(FromCompressed(t, G2Bytes)) /\ k = FromCompressed(t, G2Bytes)
    BY <1>1, OkFacts DEF DeserializePublicKey
  <2> QED
    BY <1>2, <2>1, FromCompressedFacts
<1>6. G1Bytes + G2Bytes \in 0 .. Len(bytes)
  BY <1>1, <1>2
<1>7. \E j \in 0 .. Len(bytes) : input = SubSeq(bytes, j + 1, Len(bytes))
  BY <1>6
<1> HIDE DEF p, k, input
<1>8. /\ k.value # 0 /\ p.value = VetKeyOf(k.value, input)
      /\ vrf.proof = p.value /\ vrf.dpk = k.value /\ vrf.input = input
  <2>1. IsOk(VrfCreate(p.value, input, k.value))
    BY <1>1
  <2> QED
    BY <1>1, <1>3, <1>4, <1>5, <2>1, CreatedOutput
<1> HIDE DEF vrf
<1>9. VrfSerialize(vrf) = bytes
  BY <1>3, <1>4, <1>5, <1>8 DEF VrfSerialize
<1> QED
  BY <1>5, <1>7, <1>8, <1>9 DEF vrf

(* VrfOutput::deserialize as the property states it, for any bytes.        *)
LEMMA OutputsAreExact ==
  ASSUME HashesHaveValues, NEW bytes \in Seq(Byte)
  PROVE  /\ IsOk(VrfDeserialize(bytes)) <=>
                \E dpk \in Scalar \ {0} :
                \E k \in 0 .. Len(bytes) :
                    LET input == SubSeq(bytes, k + 1, Len(bytes))
                    IN  bytes = VrfSerialize([proof |-> VetKeyOf(dpk, input), dpk |-> dpk,
                                              input |-> input])
         /\ IsOk(VrfDeserialize(bytes)) =>
                /\ VrfSerialize(VrfDeserialize(bytes).value) = bytes
                /\ VrfDeserialize(bytes).value.proof
                        = VetKeyOf(VrfDeserialize(bytes).value.dpk, VrfDeserialize(bytes).value.input)
<1>1. ASSUME NEW dpk \in Scalar \ {0}, NEW k \in 0 .. Len(bytes),
             bytes = VrfSerialize([proof |-> VetKeyOf(dpk, SubSeq(bytes, k + 1, Len(bytes))),
                                   dpk |-> dpk, input |-> SubSeq(bytes, k + 1, Len(bytes))])
      PROVE  IsOk(VrfDeserialize(bytes))
  <2> DEFINE input == SubSeq(bytes, k + 1, Len(bytes))
             vrf == [proof |-> VetKeyOf(dpk, input), dpk |-> dpk, input |-> input]
  <2>1. input \in Seq(Byte)
    <3>1. Len(bytes) \in Nat /\ k \in Nat /\ k <= Len(bytes)
      BY LenProperties
    <3> QED
      BY <3>1, RestFacts
  <2> HIDE DEF input
  <2>2. VetKeyOf(dpk, input) \in Scalar
    BY <2>1, VetKeyIsPoint
  <2>3. vrf.proof = VetKeyOf(dpk, input) /\ vrf.dpk = dpk /\ vrf.input = input
    OBVIOUS
  <2>4. bytes = VrfSerialize(vrf)
    BY <1>1 DEF input
  <2> HIDE DEF vrf
  <2>5. VrfDeserialize(bytes) = VrfCreate(VetKeyOf(dpk, input), input, dpk)
    BY <2>1, <2>2, <2>3, <2>4, OutputBytes
  <2> QED
    BY <2>1, <2>2, <2>5, CreatedOutput
<1>2. ASSUME IsOk(VrfDeserialize(bytes))
      PROVE  /\ \E dpk \in Scalar \ {0} :
                \E k \in 0 .. Len(bytes) :
                    LET input == SubSeq(bytes, k + 1, Len(bytes))
                    IN  bytes = VrfSerialize([proof |-> VetKeyOf(dpk, input), dpk |-> dpk,
                                              input |-> input])
             /\ VrfSerialize(VrfDeserialize(bytes).value) = bytes
             /\ VrfDeserialize(bytes).value.proof
                     = VetKeyOf(VrfDeserialize(bytes).value.dpk, VrfDeserialize(bytes).value.input)
  <2> DEFINE vrf == VrfDeserialize(bytes).value
  <2>1. /\ vrf.dpk \in Scalar \ {0} /\ vrf.proof = VetKeyOf(vrf.dpk, vrf.input)
        /\ \E k \in 0 .. Len(bytes) : vrf.input = SubSeq(bytes, k + 1, Len(bytes))
        /\ VrfSerialize(vrf) = bytes
    BY <1>2, OutputFromBytes
  <2> HIDE DEF vrf
  <2>2. VrfSerialize([proof |-> VetKeyOf(vrf.dpk, vrf.input), dpk |-> vrf.dpk, input |-> vrf.input])
          = VrfSerialize(vrf)
    BY <2>1 DEF VrfSerialize
  <2> QED
    BY <2>1, <2>2 DEF vrf
<1> QED
  BY <1>1, <1>2

(* The canister has what it needs to compute a VRF output.                 *)
IsAnswered(reply, publicKey, name, ownKey) ==
    /\ IsOk(reply) /\ Len(reply.value) = EncryptedVetKeyBytes
    /\ name \in DOMAIN MainnetKey \/ publicKey = Ok(SerializePublicKey(ownKey))

(* The same for what a canister computes: ComputeVrf of the replies.       *)
LEMMA ComputedOutput ==
  ASSUME HashesHaveValues, NEW network \in {Mainnet, PocketIc}, NEW name \in DOMAIN network,
         NEW canister \in Seq(Byte), NEW context \in Seq(Byte), NEW input \in Seq(Byte),
         NEW rho \in Scalar,
         NEW reply \in Replies(VetkdDeriveKey(network, canister, context, name, input,
                                              UnencryptedTransportKey, rho)),
         NEW publicKey \in Replies(VetkdPublicKey(network, canister, context, name)),
         NEW answer, answer = ComputeVrf(reply, publicKey, canister, context, name, input),
         NEW ownKey, ownKey = Derived(network[name], canister, context)
  PROVE  /\ IsOk(answer) =>
                /\ IsAnswered(reply, publicKey, name, ownKey)
                /\ answer.value.input = input
                /\ answer.value.proof = VetKeyOf(answer.value.dpk, input)
                /\ VrfDeserialize(VrfSerialize(answer.value)) = answer
         /\ network = Mainnet \/ name \notin DOMAIN MainnetKey =>
                /\ IsOk(answer) <=> IsAnswered(reply, publicKey, name, ownKey) /\ ownKey # 0
                /\ IsOk(answer) => answer.value.dpk = ownKey
<1> DEFINE bytes == DeriveUnencryptedVetkey(reply)
           vetkey == DeserializeVetKey(bytes.value)
           v == VetKeyOf(ownKey, input)
           isHardcoded == name \in DOMAIN MainnetKey
           master == ForMainnetKey(name)
           hardcodedKey == Derived(MainnetKey[name], canister, context)
           dpk == CASE IsOk(master) ->
                          Ok(DeriveSubKey(DeriveCanisterKey(master.value, canister), context))
                    [] ~IsOk(master) /\ IsOk(publicKey) ->
                          DeserializePublicKey(publicKey.value)
                    [] OTHER -> publicKey
           vrf == VrfCreate(vetkey.value, input, dpk.value)
<1>1. network[name] \in Scalar
  BY NetworksAssumption
<1>2. /\ ownKey \in Scalar
      /\ IsOk(bytes) <=> IsOk(reply) /\ Len(reply.value) = EncryptedVetKeyBytes
      /\ IsOk(bytes) => bytes = Ok(SerializeVetKey(v))
  BY <1>1, CutFromReply
<1>3. v \in Scalar
  BY <1>2, VetKeyIsPoint
<1>4. IsOk(bytes) => vetkey = Ok(v)
  BY <1>2, <1>3, VetKeyBytes, OkFacts
<1>5. VetkdPublicKey(network, canister, context, name) = Ok(SerializePublicKey(ownKey))
  <2>1. 0 \in Scalar
    BY OrderFacts
  <2> QED
    BY <1>1, <2>1, SystemReplies
<1>6. answer = IF IsOk(bytes) /\ IsOk(vetkey) /\ IsOk(dpk) /\ IsOk(vrf) THEN vrf
               ELSE Err("InvalidReply")
  BY DEF ComputeVrf
<1>7. isHardcoded => dpk = Ok(hardcodedKey) /\ hardcodedKey \in Scalar
  <2> SUFFICES ASSUME isHardcoded PROVE dpk = Ok(hardcodedKey) /\ hardcodedKey \in Scalar
    OBVIOUS
  <2>1. master = Ok(MainnetKey[name])
    BY DEF ForMainnetKey
  <2>2. MainnetKey[name] \in Scalar
    BY NetworksAssumption
  <2> QED
    BY <2>1, <2>2, DerivedIsPoint, OkFacts DEF Derived
<1>8. ~ isHardcoded =>
        /\ IsOk(dpk) <=> publicKey = Ok(SerializePublicKey(ownKey))
        /\ IsOk(dpk) => dpk = Ok(ownKey)
  <2> SUFFICES ASSUME ~ isHardcoded
               PROVE  /\ IsOk(dpk) <=> publicKey = Ok(SerializePublicKey(ownKey))
                      /\ IsOk(dpk) => dpk = Ok(ownKey)
    OBVIOUS
  <2> DEFINE own == SerializePublicKey(ownKey)
  <2>1. ~ IsOk(master)
    BY OkFacts DEF ForMainnetKey
  <2>2. own \in Seq(Byte) /\ Len(own) = G2Bytes /\ DeserializePublicKey(own) = Ok(ownKey)
    BY <1>2, CompressedFacts, SizeFacts, PublicKeyBytes DEF SerializePublicKey
  <2> HIDE DEF own, master
  <2>3. publicKey = Ok(own) \/ publicKey = Ok(own \o <<0>>) \/ publicKey = CallFailed
    BY <1>5, OkFacts DEF Replies, own
  <2>4. CASE publicKey = Ok(own)
    BY <2>1, <2>2, <2>4, OkFacts DEF own
  <2>5. CASE publicKey = Ok(own \o <<0>>)
    <3>1. Len(own \o <<0>>) = G2Bytes + 1 /\ own \o <<0>> # own /\ G2Bytes \in Nat
      BY <2>2, OneByteMore, SizeFacts
    <3>2. ~ IsOk(DeserializePublicKey(own \o <<0>>))
      BY <3>1, OkFacts DEF DeserializePublicKey
    <3>3. publicKey # Ok(own)
      BY <2>5, <3>1, OkFacts
    <3> QED
      BY <2>1, <2>5, <3>2, <3>3, OkFacts DEF own
  <2>6. CASE publicKey = CallFailed
    <3>1. ~ IsOk(publicKey) /\ publicKey # Ok(own)
      BY <2>6, OkFacts DEF CallFailed
    <3> QED
      BY <2>1, <3>1 DEF own
  <2> QED
    BY <2>3, <2>4, <2>5, <2>6
<1>9. IsOk(dpk) => dpk.value \in Scalar
  BY <1>2, <1>7, <1>8, OkFacts
<1>10. network = Mainnet /\ isHardcoded => hardcodedKey = ownKey
  BY NetworksAssumption
<1>11. IsAnswered(reply, publicKey, name, ownKey) <=> IsOk(bytes) /\ IsOk(dpk)
  BY <1>2, <1>7, <1>8, OkFacts DEF IsAnswered
<1> HIDE DEF bytes, vetkey, dpk, hardcodedKey, v, isHardcoded
<1>12. ASSUME IsOk(bytes), IsOk(dpk)
       PROVE  /\ IsOk(vrf) <=> dpk.value # 0 /\ v = VetKeyOf(dpk.value, input)
              /\ IsOk(vrf) => /\ vrf.value.proof = v /\ vrf.value.dpk = dpk.value
                              /\ vrf.value.input = input
                              /\ VrfDeserialize(VrfSerialize(vrf.value)) = vrf
  <2>1. vrf = VrfCreate(v, input, dpk.value)
    BY <1>4, <1>12, OkFacts
  <2> HIDE DEF vrf
  <2>2. dpk.value \in Scalar
    BY <1>9, <1>12
  <2> QED
    BY <1>3, <2>1, <2>2, CreatedOutput
<1> HIDE DEF vrf
<1>13. IsOk(answer) => IsOk(bytes) /\ IsOk(dpk) /\ IsOk(vrf) /\ answer = vrf
  BY <1>6, OkFacts
<1>14. IsOk(bytes) /\ IsOk(dpk) /\ IsOk(vrf) => answer = vrf
  BY <1>4, <1>6, OkFacts
<1>15. ASSUME IsOk(answer)
       PROVE  /\ IsAnswered(reply, publicKey, name, ownKey)
              /\ answer.value.input = input
              /\ answer.value.proof = VetKeyOf(answer.value.dpk, input)
              /\ VrfDeserialize(VrfSerialize(answer.value)) = answer
  BY <1>11, <1>12, <1>13, <1>15
<1>16. ASSUME network = Mainnet \/ ~ isHardcoded
       PROVE  /\ IsOk(answer) <=> IsAnswered(reply, publicKey, name, ownKey) /\ ownKey # 0
              /\ IsOk(answer) => answer.value.dpk = ownKey
  <2>1. IsOk(dpk) => dpk.value = ownKey
    BY <1>7, <1>8, <1>10, <1>16, OkFacts
  <2>2. v = VetKeyOf(ownKey, input)
    BY DEF v
  <2> QED
    BY <1>11, <1>12, <1>13, <1>14, <2>1, <2>2
<1> QED
  BY <1>15, <1>16 DEF isHardcoded

(* A VRF output is read back as it was written and is a proof for its key  *)
(* and input; one that a canister computes is for its own key, but for the *)
(* hardcoded names on another network.                                     *)
THEOREM OutputsAreProofs ==
  ASSUME HashesHaveValues
  PROVE  Spec => []OutputsVerify
<1>1. Init => OutputsVerify
  BY DEF Init, NoCall, OutputsVerify
<1>2. OutputsVerify /\ [Next]_vars => OutputsVerify'
  <2>1. CASE UNCHANGED vars
    BY <2>1 DEF vars, OutputsVerify
  <2>2. ASSUME Next, call'.fn = "vrf_deserialize" PROVE OutputsVerify'
    <3>1. CallVrfDeserialize
      BY <2>2, FnOfCall
    <3>2. PICK bytes \in ShortString :
             Called([fn |-> "vrf_deserialize", bytes |-> bytes], VrfDeserialize(bytes))
      BY <3>1 DEF CallVrfDeserialize
    <3>3. call'.bytes = bytes /\ result' = VrfDeserialize(bytes) /\ bytes \in Seq(Byte)
      BY <3>2, ArgumentFacts DEF Called
    <3> QED
      BY <2>2, <3>3, OutputsAreExact DEF OutputsVerify
  <2>3. ASSUME Next, call'.fn = "compute_vrf" PROVE OutputsVerify'
    <3>1. CallComputeVrf
      BY <2>3, FnOfCall
    <3>2. PICK network \in {Mainnet, PocketIc}, canister \in Input, context \in Input,
               input \in Input, rho \in TransportKey :
            \E name \in DOMAIN network :
            \E reply \in Replies(VetkdDeriveKey(network, canister, context, name, input,
                                                UnencryptedTransportKey, rho)),
               publicKey \in Replies(VetkdPublicKey(network, canister, context, name)) :
                Called([fn |-> "compute_vrf", network |-> network, name |-> name, input |-> input,
                        reply |-> reply, publicKey |-> publicKey,
                        ownKey |-> VetkdPublicKey(network, canister, context, name)],
                       ComputeVrf(reply, publicKey, canister, context, name, input))
      BY <3>1 DEF CallComputeVrf
    <3>3. PICK name \in DOMAIN network :
            \E reply \in Replies(VetkdDeriveKey(network, canister, context, name, input,
                                                UnencryptedTransportKey, rho)),
               publicKey \in Replies(VetkdPublicKey(network, canister, context, name)) :
                Called([fn |-> "compute_vrf", network |-> network, name |-> name, input |-> input,
                        reply |-> reply, publicKey |-> publicKey,
                        ownKey |-> VetkdPublicKey(network, canister, context, name)],
                       ComputeVrf(reply, publicKey, canister, context, name, input))
      BY <3>2
    <3>4. PICK reply \in Replies(VetkdDeriveKey(network, canister, context, name, input,
                                                UnencryptedTransportKey, rho)),
               publicKey \in Replies(VetkdPublicKey(network, canister, context, name)) :
                Called([fn |-> "compute_vrf", network |-> network, name |-> name, input |-> input,
                        reply |-> reply, publicKey |-> publicKey,
                        ownKey |-> VetkdPublicKey(network, canister, context, name)],
                       ComputeVrf(reply, publicKey, canister, context, name, input))
      BY <3>3
    <3> DEFINE answer == ComputeVrf(reply, publicKey, canister, context, name, input)
               own == Derived(network[name], canister, context)
               answered == IsAnswered(reply, publicKey, name, own)
    <3>5. /\ call'.network = network /\ call'.name = name /\ call'.input = input
          /\ call'.reply = reply /\ call'.publicKey = publicKey
          /\ call'.ownKey = VetkdPublicKey(network, canister, context, name)
          /\ result' = answer
      BY <3>4 DEF Called
    <3>6. /\ canister \in Seq(Byte) /\ context \in Seq(Byte) /\ input \in Seq(Byte)
          /\ rho \in Scalar /\ network[name] \in Scalar
      BY ArgumentFacts, NetworksAssumption
    <3>7. own \in Scalar /\ call'.ownKey = Ok(SerializePublicKey(own))
      BY <3>5, <3>6, SystemReplies
    <3>8. DeserializePublicKey(call'.ownKey.value).value = own
      BY <3>7, PublicKeyBytes, OkFacts
    <3>9. /\ IsOk(answer) =>
                /\ answered
                /\ answer.value.input = input
                /\ answer.value.proof = VetKeyOf(answer.value.dpk, input)
                /\ VrfDeserialize(VrfSerialize(answer.value)) = answer
          /\ network = Mainnet \/ name \notin DOMAIN MainnetKey =>
                /\ IsOk(answer) <=> answered /\ own # 0
                /\ IsOk(answer) => answer.value.dpk = own
      BY <3>6, ComputedOutput
    <3> HIDE DEF answer, own
    <3> QED
      BY <2>3, <3>5, <3>7, <3>8, <3>9 DEF OutputsVerify, IsAnswered
  <2>4. ASSUME Next, call'.fn # "vrf_deserialize", call'.fn # "compute_vrf" PROVE OutputsVerify'
    BY <2>4 DEF OutputsVerify
  <2> QED
    BY <2>1, <2>2, <2>3, <2>4
<1> QED
  BY <1>1, <1>2, PTL DEF Spec

-----------------------------------------------------------------------------
(* The vetKeys that the frontend's key manager asks for.                   *)

(* Bytes encrypt a vetKey under one public key and under another when the  *)
(* vetKeys are the same.                                                   *)
LEMMA SameEncryption ==
  ASSUME HashesHaveValues, NEW tsk \in Scalar, NEW dpk \in Scalar, NEW other \in Scalar,
         NEW input \in Seq(Byte), NEW rho \in Scalar, NEW r \in Scalar
  PROVE  SerializeEncrypted(EncryptedFor(tsk, dpk, input, rho))
             = SerializeEncrypted(EncryptedFor(tsk, other, input, r))
           => VetKeyOf(dpk, input) = VetKeyOf(other, input)
<1> DEFINE v == VetKeyOf(dpk, input)
           w == VetKeyOf(other, input)
           x == Times(tsk, rho)
           ek == EncryptedFor(tsk, dpk, input, rho)
           el == EncryptedFor(tsk, other, input, r)
<1>1. v \in Scalar /\ w \in Scalar
  BY VetKeyIsPoint
<1> SUFFICES ASSUME SerializeEncrypted(ek) = SerializeEncrypted(el)
             PROVE  v = w
  OBVIOUS
<1>2. ek = el
  <2>1. ek \in Encrypted /\ el \in Encrypted
    BY EncryptedForIsEncrypted
  <2> HIDE DEF ek, el
  <2>2. Ok(ek) = Ok(el)
    BY <2>1, EncryptedBytes
  <2>3. Ok(ek).value = ek /\ Ok(el).value = el
    BY OkFacts
  <2> QED
    BY <2>2, <2>3
<1>3. rho = r /\ Plus(v, x) = Plus(w, x)
  BY <1>2 DEF EncryptedFor
<1>4. x \in Scalar
  BY Closed
<1> HIDE DEF x, v, w
<1>5. Plus(Plus(v, x), Negated(x)) = v /\ Plus(Plus(w, x), Negated(x)) = w
  BY <1>1, <1>4, Cancel
<1> QED
  BY <1>3, <1>5

(* A byte too many.                                                        *)
Lengthened(bytes) == bytes \o <<0>>

(* What the frontend makes of the two answers, given what can come of them.*)
LEMMA ClientGets ==
  ASSUME HashesHaveValues, NEW tsk \in Scalar, NEW dpk \in Scalar, NEW later \in Scalar,
         NEW rho \in Scalar, NEW owner, NEW name, NEW input \in Seq(Byte),
         input = VetkeyInput(owner, name),
         NEW bytes, bytes = SerializeEncrypted(EncryptedFor(tsk, dpk, input, rho)),
         NEW own, own = SerializePublicKey(later),
         NEW ev, ev = Ok(bytes) \/ ev = Ok(Lengthened(bytes)) \/ ~ IsOk(ev),
         NEW vk \in Replies(Ok(own)),
         NEW answer, answer = GetVetkey(tsk, ev, vk, owner, name)
  PROVE  /\ IsOk(ev) /\ Len(ev.value) = EncryptedVetKeyBytes => ev = Ok(bytes)
         /\ IsOk(answer) <=> /\ IsOk(ev) /\ Len(ev.value) = EncryptedVetKeyBytes
                             /\ vk = Ok(own) /\ later # 0
                             /\ VetKeyOf(dpk, input) = VetKeyOf(later, input)
         /\ IsOk(answer) => answer.value = SerializeVetKey(VetKeyOf(dpk, input))
<1> DEFINE key == DeserializePublicKey(vk.value)
           encrypted == DeserializeEncrypted(ev.value)
           vetkey == DecryptAndVerify(encrypted.value, tsk, key.value, input)
<1>1. /\ bytes \in Seq(Byte) /\ Len(bytes) = EncryptedVetKeyBytes
      /\ IsOk(DeserializeEncrypted(bytes))
  BY EncryptedForIsEncrypted, EncryptedBytes, OkFacts
<1>2. own \in Seq(Byte) /\ Len(own) = G2Bytes /\ DeserializePublicKey(own) = Ok(later)
  BY CompressedFacts, SizeFacts, PublicKeyBytes DEF SerializePublicKey
<1>3. /\ IsOk(ev) /\ Len(ev.value) = EncryptedVetKeyBytes => ev = Ok(bytes)
      /\ IsOk(ev) /\ Len(ev.value) # EncryptedVetKeyBytes => ~ IsOk(encrypted)
  <2>1. Len(bytes \o <<0>>) # EncryptedVetKeyBytes
    BY <1>1, OneByteMore, LenProperties
  <2>2. IsOk(ev) /\ Len(ev.value) = EncryptedVetKeyBytes => ev = Ok(bytes)
    BY <2>1, OkFacts DEF Lengthened
  <2>3. IsOk(ev) /\ Len(ev.value) # EncryptedVetKeyBytes => ~ IsOk(encrypted)
    BY OkFacts DEF DeserializeEncrypted
  <2> QED
    BY <2>2, <2>3
<1>4. /\ vk = Ok(own) => IsOk(vk) /\ IsOk(key) /\ key.value = later
      /\ vk # Ok(own) => ~ IsOk(vk) \/ ~ IsOk(key)
  <2>1. vk = Ok(own) \/ vk = Ok(own \o <<0>>) \/ vk = CallFailed
    BY OkFacts DEF Replies
  <2>2. vk = Ok(own) => IsOk(vk) /\ IsOk(key) /\ key.value = later
    BY <1>2, OkFacts
  <2>3. Len(own \o <<0>>) # G2Bytes
    BY <1>2, OneByteMore, SizeFacts
  <2>4. vk = Ok(own \o <<0>>) => ~ IsOk(key)
    BY <2>3, OkFacts DEF DeserializePublicKey
  <2>5. vk = CallFailed => ~ IsOk(vk)
    BY OkFacts DEF CallFailed
  <2> QED
    BY <2>1, <2>2, <2>4, <2>5
<1>5. answer = IF ~ IsOk(ev) THEN ev
               ELSE IF ~ IsOk(vk) THEN vk
               ELSE IF ~ IsOk(key) THEN key
               ELSE IF ~ IsOk(encrypted) THEN encrypted
               ELSE IF ~ IsOk(vetkey) THEN vetkey
               ELSE Ok(SerializeVetKey(vetkey.value))
  BY DEF GetVetkey
<1>6. ASSUME ev = Ok(bytes), vk = Ok(own)
      PROVE  /\ IsOk(encrypted)
             /\ IsOk(vetkey) <=> later # 0 /\ VetKeyOf(dpk, input) = VetKeyOf(later, input)
             /\ IsOk(vetkey) => vetkey.value = VetKeyOf(later, input)
  <2>1. ev.value = bytes /\ IsOk(encrypted)
    BY <1>1, <1>6, OkFacts
  <2>2. key.value = later
    BY <1>4, <1>6
  <2>3. vetkey = IF IsOk(DeserializeEncrypted(bytes))
                 THEN DecryptAndVerify(DeserializeEncrypted(bytes).value, tsk, later, input)
                 ELSE DeserializeEncrypted(bytes)
    BY <2>1, <2>2
  <2> HIDE DEF vetkey, encrypted, key
  <2>4. /\ IsOk(vetkey) <=>
              /\ \E r \in Scalar : bytes = SerializeEncrypted(EncryptedFor(tsk, later, input, r))
              /\ later # 0
        /\ IsOk(vetkey) => vetkey.value = VetKeyOf(later, input)
    BY <1>1, <2>3, DecryptionIsExact
  <2>5. (\E r \in Scalar : bytes = SerializeEncrypted(EncryptedFor(tsk, later, input, r)))
           <=> VetKeyOf(dpk, input) = VetKeyOf(later, input)
    <3>1. ASSUME NEW r \in Scalar,
                 bytes = SerializeEncrypted(EncryptedFor(tsk, later, input, r))
          PROVE  VetKeyOf(dpk, input) = VetKeyOf(later, input)
      <4>1. SerializeEncrypted(EncryptedFor(tsk, dpk, input, rho))
              = SerializeEncrypted(EncryptedFor(tsk, later, input, r))
        BY <3>1
      <4> QED
        BY <4>1, SameEncryption
    <3>2. ASSUME VetKeyOf(dpk, input) = VetKeyOf(later, input)
          PROVE  bytes = SerializeEncrypted(EncryptedFor(tsk, later, input, rho))
      BY <3>2 DEF EncryptedFor
    <3> QED
      BY <3>1, <3>2
  <2> QED
    BY <2>1, <2>4, <2>5
<1> HIDE DEF key, encrypted, vetkey
<1>7. CASE ev = Ok(bytes) /\ vk = Ok(own)
  <2>1. IsOk(answer) <=> IsOk(vetkey)
    BY <1>4, <1>5, <1>6, <1>7, OkFacts
  <2>2. IsOk(vetkey) => answer = Ok(SerializeVetKey(vetkey.value))
    BY <1>4, <1>5, <1>6, <1>7, OkFacts
  <2>3. IsOk(ev) /\ Len(ev.value) = EncryptedVetKeyBytes
    BY <1>1, <1>7, OkFacts
  <2> QED
    BY <1>6, <1>7, <2>1, <2>2, <2>3, OkFacts
<1>8. CASE ~ (ev = Ok(bytes) /\ vk = Ok(own))
  <2>1. ~ IsOk(answer)
    BY <1>3, <1>4, <1>5, <1>8
  <2> QED
    BY <1>3, <1>8, <2>1
<1> QED
  BY <1>3, <1>7, <1>8

(* The bytes of an owner and a name are bytes.                             *)
LEMMA InputIsBytes ==
  ASSUME NEW owner \in KeyOwner, NEW name \in VetkeyName
  PROVE  /\ KeyIdToVetKdInput(owner, name) \in Seq(Byte)
         /\ VetkeyInput(owner, name) = KeyIdToVetKdInput(owner, name)
<1>1. owner \in Seq(Byte) /\ name \in Seq(Byte) /\ Len(owner) % 256 \in Byte
  BY ArgumentsAssumption
<1> DEFINE n == <<Len(owner) % 256>>
<1>2. n \in Seq(Byte)
  BY <1>1
<1> HIDE DEF n
<1>3. (n \o owner) \o name \in Seq(Byte)
  BY <1>1, <1>2, ConcatProperties
<1> QED
  BY <1>3 DEF n, KeyIdToVetKdInput, VetkeyInput

(* What the canister answers, and what can come of it on the way.          *)
LEMMA CanisterAnswers ==
  ASSUME HashesHaveValues, NEW canister \in Input, NEW config \in Configuration,
         NEW owner \in KeyOwner, NEW name \in VetkeyName, NEW mayRead \in BOOLEAN,
         NEW tsk \in Scalar, NEW rho \in Scalar,
         NEW ev \in Answers(GetEncryptedVetkey(Mainnet, canister, config, mayRead, owner, name,
                                               TransportPublicKey(tsk), rho)),
         NEW dpk, dpk = Derived(Mainnet[config.key_id], canister, config.domain_separator),
         NEW bytes, bytes = SerializeEncrypted(
                        EncryptedFor(tsk, dpk, KeyIdToVetKdInput(owner, name), rho))
  PROVE  /\ dpk \in Scalar
         /\ GetVetkeyVerificationKey(Mainnet, canister, config) = Ok(SerializePublicKey(dpk))
         /\ ev = Ok(bytes) \/ ev = Ok(bytes \o <<0>>) \/ ~ IsOk(ev)
         /\ IsOk(ev) => mayRead /\ Len(name) <= KeyNameSize
<1> DEFINE input == KeyIdToVetKdInput(owner, name)
           answer == GetEncryptedVetkey(Mainnet, canister, config, mayRead, owner, name,
                                        TransportPublicKey(tsk), rho)
<1>1. /\ canister \in Seq(Byte) /\ config.domain_separator \in Seq(Byte)
      /\ config.key_id \in DOMAIN Mainnet /\ Mainnet[config.key_id] \in Scalar
      /\ input \in Seq(Byte)
  BY ArgumentFacts, NetworksAssumption, InputIsBytes DEF Configuration
<1>2. TransportPublicKey(tsk) = Compressed(tsk, G1Bytes)
  BY TimesLaws DEF TransportPublicKey
<1>3. /\ dpk \in Scalar
      /\ GetVetkeyVerificationKey(Mainnet, canister, config) = Ok(SerializePublicKey(dpk))
      /\ VetkdDeriveKey(Mainnet, canister, config.domain_separator, config.key_id, input,
                        TransportPublicKey(tsk), rho) = Ok(bytes)
  BY <1>1, <1>2, SystemReplies DEF GetVetkeyVerificationKey
<1>4. Len(name) \in Nat /\ KeyNameSize \in Nat
  BY ArgumentsAssumption, KeyNameSizeAssumption, LenProperties
<1>5. CASE mayRead /\ Len(name) <= KeyNameSize
  <2>1. answer = Ok(bytes)
    <3>1. ~ (Len(name) > KeyNameSize)
      BY <1>4, <1>5
    <3> QED
      BY <1>3, <1>5, <3>1, Zenon DEF GetEncryptedVetkey
  <2> HIDE DEF answer
  <2>2. ev = Ok(bytes) \/ ev = Ok(bytes \o <<0>>) \/ ev = CallFailed
    BY <2>1, OkFacts DEF Answers, Replies, answer
  <2> QED
    BY <1>3, <1>5, <2>2, OkFacts DEF CallFailed
<1>6. CASE ~ (mayRead /\ Len(name) <= KeyNameSize)
  <2>1. ~ IsOk(answer)
    <3>1. Len(name) > KeyNameSize \/ ~ mayRead
      BY <1>4, <1>6
    <3>2. answer = Err("too large input") \/ answer = Err("unauthorized")
      BY <3>1, Zenon DEF GetEncryptedVetkey
    <3> QED
      BY <3>2, OkFacts, Zenon
  <2>2. ev = answer
    BY <2>1 DEF Answers
  <2> QED
    BY <1>3, <2>1, <2>2
<1> QED
  BY <1>5, <1>6

(* What the property says of a vetKey that the frontend asks for, of a     *)
(* transport key, and of a public key derived offline.                     *)
LEMMA AskedArrives ==
  ASSUME HashesHaveValues, CallGetVetkey
  PROVE  VetKeyArrives'
<1>1. PICK canister \in Input, config \in Configuration, later \in Configuration,
           owner \in KeyOwner, name \in VetkeyName, mayRead \in BOOLEAN,
           tsk \in TransportKey \ {0}, rho \in TransportKey :
        \E ev \in Answers(GetEncryptedVetkey(Mainnet, canister, config, mayRead, owner, name,
                                             TransportPublicKey(tsk), rho)),
           vk \in Replies(GetVetkeyVerificationKey(Mainnet, canister, later)) :
          Called([fn |-> "get_vetkey", owner |-> owner, name |-> name, mayRead |-> mayRead,
                  encryptedVetkey |-> ev, verificationKey |-> vk,
                  derivedUnder |-> GetVetkeyVerificationKey(Mainnet, canister, config),
                  servedLater |-> GetVetkeyVerificationKey(Mainnet, canister, later)],
                 GetVetkey(tsk, ev, vk, owner, name))
  BY DEF CallGetVetkey
<1>2. PICK ev \in Answers(GetEncryptedVetkey(Mainnet, canister, config, mayRead, owner, name,
                                             TransportPublicKey(tsk), rho)),
           vk \in Replies(GetVetkeyVerificationKey(Mainnet, canister, later)) :
          Called([fn |-> "get_vetkey", owner |-> owner, name |-> name, mayRead |-> mayRead,
                  encryptedVetkey |-> ev, verificationKey |-> vk,
                  derivedUnder |-> GetVetkeyVerificationKey(Mainnet, canister, config),
                  servedLater |-> GetVetkeyVerificationKey(Mainnet, canister, later)],
                 GetVetkey(tsk, ev, vk, owner, name))
  BY <1>1
<1> DEFINE input == KeyIdToVetKdInput(owner, name)
           dpk == Derived(Mainnet[config.key_id], canister, config.domain_separator)
           laterKey == Derived(Mainnet[later.key_id], canister, later.domain_separator)
           bytes == SerializeEncrypted(EncryptedFor(tsk, dpk, input, rho))
           own == SerializePublicKey(laterKey)
<1>3. /\ call'.fn = "get_vetkey" /\ call'.owner = owner /\ call'.name = name
      /\ call'.mayRead = mayRead /\ call'.encryptedVetkey = ev /\ call'.verificationKey = vk
      /\ call'.derivedUnder = GetVetkeyVerificationKey(Mainnet, canister, config)
      /\ call'.servedLater = GetVetkeyVerificationKey(Mainnet, canister, later)
      /\ result' = GetVetkey(tsk, ev, vk, owner, name)
  BY <1>2 DEF Called
<1>4. tsk \in Scalar /\ rho \in Scalar
  BY ArgumentFacts
<1>5. input \in Seq(Byte) /\ input = VetkeyInput(owner, name)
  BY InputIsBytes
<1>6. /\ dpk \in Scalar /\ call'.derivedUnder = Ok(SerializePublicKey(dpk))
      /\ ev = Ok(bytes) \/ ev = Ok(bytes \o <<0>>) \/ ~ IsOk(ev)
      /\ IsOk(ev) => mayRead /\ Len(name) <= KeyNameSize
  BY <1>3, <1>4, CanisterAnswers
<1>7. laterKey \in Scalar /\ GetVetkeyVerificationKey(Mainnet, canister, later) = Ok(own)
  <2>1. /\ canister \in Seq(Byte) /\ later.domain_separator \in Seq(Byte)
        /\ later.key_id \in DOMAIN Mainnet /\ Mainnet[later.key_id] \in Scalar
    BY ArgumentFacts, NetworksAssumption DEF Configuration
  <2> QED
    BY <1>4, <1>5, <2>1, SystemReplies DEF GetVetkeyVerificationKey
<1>8. /\ DeserializePublicKey(call'.derivedUnder.value).value = dpk
      /\ DeserializePublicKey(call'.servedLater.value).value = laterKey
      /\ call'.servedLater = Ok(own)
  BY <1>3, <1>6, <1>7, PublicKeyBytes, OkFacts
<1> HIDE DEF input, dpk, laterKey
<1>9. /\ IsOk(result') <=> /\ IsOk(ev) /\ Len(ev.value) = EncryptedVetKeyBytes
                           /\ vk = Ok(own) /\ laterKey # 0
                           /\ VetKeyOf(dpk, input) = VetKeyOf(laterKey, input)
      /\ IsOk(result') => result'.value = SerializeVetKey(VetKeyOf(dpk, input))
  BY <1>3, <1>4, <1>5, <1>6, <1>7, ClientGets DEF Lengthened
<1>10. ASSUME IsOk(result')
       PROVE  /\ mayRead /\ Len(name) <= KeyNameSize
              /\ DeserializeVetKey(result'.value) = Ok(VetKeyOf(dpk, input))
              /\ VerifyBlsSignatureBytes(laterKey, input, result'.value)
              /\ IsValidTransportPublicKeyEncoding(result'.value)
  <2>1. /\ result'.value = SerializeVetKey(VetKeyOf(laterKey, input))
        /\ VetKeyOf(dpk, input) = VetKeyOf(laterKey, input)
        /\ laterKey \in Scalar \ {0}
    BY <1>7, <1>9, <1>10
  <2>2. VetKeyOf(laterKey, input) \in Scalar
    BY <1>5, <1>7, VetKeyIsPoint
  <2> QED
    BY <1>5, <1>6, <1>9, <1>10, <2>1, <2>2, VetKeyBytes, VetKeyBytesVerify
<1>11. input = KeyIdToVetKdInput(call'.owner, call'.name)
  BY <1>3 DEF input
<1> HIDE DEF bytes, own
<1> QED
  BY <1>3, <1>8, <1>9, <1>10, <1>11 DEF VetKeyArrives

LEMMA TransportKeyArrives ==
  ASSUME HashesHaveValues, CallTransportKey
  PROVE  VetKeyArrives'
<1>1. PICK bytes \in SecretBytes, isSeed \in BOOLEAN :
        Called([fn |-> "transport_key", bytes |-> bytes, isSeed |-> isSeed],
               IF isSeed THEN TransportKeyFromSeed(bytes) ELSE DeserializeTransportKey(bytes))
  BY DEF CallTransportKey
<1>2. /\ call'.fn = "transport_key" /\ call'.bytes = bytes /\ call'.isSeed = isSeed
      /\ result' = IF isSeed THEN TransportKeyFromSeed(bytes) ELSE DeserializeTransportKey(bytes)
  BY <1>1 DEF Called
<1>3. bytes \in Seq(Byte)
  BY ArgumentFacts
<1>4. IsOk(result') <=> IF isSeed THEN Len(bytes) = SecretKeyBytes
                        ELSE \E s \in Scalar : bytes = SerializeTransportKey(s)
  BY <1>2, <1>3, TransportKeyFacts
<1> QED
  BY <1>2, <1>4 DEF VetKeyArrives

LEMMA PublicKeyArrives ==
  ASSUME HashesHaveValues, CallDerivePublicKey
  PROVE  VetKeyArrives'
<1>1. PICK network \in {Mainnet, PocketIc}, canister \in Input, context \in Input,
           name \in DOMAIN MainnetKey :
        LET master == IF network = Mainnet THEN ForMainnetKey(name) ELSE ForPocketIcKey(name)
            canisterKey == SerializePublicKey(DeriveCanisterKey(
                DeserializePublicKey(SerializePublicKey(master.value)).value, canister))
            key == DeriveSubKey(DeserializePublicKey(canisterKey).value, context)
        IN  Called([fn |-> "derive_public_key",
                    publicKey |-> VetkdPublicKey(network, canister, context, name)],
                   Ok(SerializePublicKey(key)))
  BY DEF CallDerivePublicKey
<1> DEFINE master == IF network = Mainnet THEN ForMainnetKey(name) ELSE ForPocketIcKey(name)
           canisterKey == SerializePublicKey(DeriveCanisterKey(
               DeserializePublicKey(SerializePublicKey(master.value)).value, canister))
           key == DeriveSubKey(DeserializePublicKey(canisterKey).value, context)
           dpk == Derived(network[name], canister, context)
<1>2. /\ call'.fn = "derive_public_key"
      /\ call'.publicKey = VetkdPublicKey(network, canister, context, name)
      /\ result' = Ok(SerializePublicKey(key))
  BY <1>1 DEF Called
<1>3. canister \in Seq(Byte) /\ context \in Seq(Byte)
  BY ArgumentFacts
<1>4. name \in DOMAIN network /\ network[name] \in Scalar /\ master = Ok(network[name])
  BY MasterKey
<1> HIDE DEF master
<1>5. key = dpk
  <2>1. DeserializePublicKey(SerializePublicKey(master.value)).value = network[name]
    BY <1>4, PublicKeyBytes, OkFacts
  <2>2. DeriveCanisterKey(network[name], canister) \in Scalar
    BY <1>3, <1>4, DerivedIsPoint
  <2>3. DeserializePublicKey(canisterKey).value = DeriveCanisterKey(network[name], canister)
    BY <2>1, <2>2, PublicKeyBytes, OkFacts
  <2> QED
    BY <2>3 DEF Derived
<1>6. VetkdPublicKey(network, canister, context, name) = Ok(SerializePublicKey(dpk))
  <2>1. 0 \in Scalar
    BY OrderFacts
  <2> QED
    BY <1>3, <1>4, <2>1, SystemReplies
<1> QED
  BY <1>2, <1>5, <1>6 DEF VetKeyArrives

(* A vetKey that the canister grants arrives at the frontend, with any     *)
(* random transport key, key id and configuration, exactly when nothing is *)
(* lost or altered and the verification key served later has the same      *)
(* vetKey; nothing arrives for a caller who is refused.  Transport keys    *)
(* and public keys made offline are the right ones.                        *)
THEOREM VetKeysArrive ==
  ASSUME HashesHaveValues
  PROVE  Spec => []VetKeyArrives
<1>1. Init => VetKeyArrives
  BY DEF Init, NoCall, VetKeyArrives
<1>2. VetKeyArrives /\ [Next]_vars => VetKeyArrives'
  <2>1. CASE UNCHANGED vars
    BY <2>1 DEF vars, VetKeyArrives
  <2>2. ASSUME Next, call'.fn \in {"get_vetkey", "transport_key", "derive_public_key"}
        PROVE  VetKeyArrives'
    BY <2>2, FnOfCall, AskedArrives, TransportKeyArrives, PublicKeyArrives
  <2>3. ASSUME Next, call'.fn \notin {"get_vetkey", "transport_key", "derive_public_key"}
        PROVE  VetKeyArrives'
    BY <2>3 DEF VetKeyArrives
  <2> QED
    BY <2>1, <2>2, <2>3
<1> QED
  BY <1>1, <1>2, PTL DEF Spec

-----------------------------------------------------------------------------
(* Identity-based encryption.                                              *)

(* What is cut from the first of two sequences is cut from both joined.    *)
LEMMA CutFromFirst ==
  ASSUME NEW S, NEW x \in Seq(S), NEW y \in Seq(S), NEW t \in Seq(S), NEW m \in Nat,
         m + Len(t) <= Len(x), SubSeq(x, m + 1, m + Len(t)) = t
  PROVE  SubSeq(x \o y, m + 1, m + Len(t)) = t
<1> DEFINE w == x \o y
<1>1. Len(x) \in Nat /\ Len(y) \in Nat /\ Len(t) \in Nat
  BY LenProperties
<1>2. /\ w \in Seq(S) /\ Len(w) = Len(x) + Len(y)
      /\ \A i \in 1 .. Len(x) + Len(y) : w[i] = IF i <= Len(x) THEN x[i] ELSE y[i - Len(x)]
  BY ConcatProperties
<1> HIDE DEF w
<1>3. ASSUME NEW i \in 1 .. Len(t)
      PROVE  w[m + i] = t[i]
  <2>1. m + i \in 1 .. Len(x) + Len(y) /\ m + i <= Len(x)
    BY <1>1
  <2>2. w[m + i] = x[m + i]
    BY <1>2, <2>1
  <2>3. x[m + i] = t[i]
    <3> DEFINE a == m + 1
               b == m + Len(t)
    <3>1. a \in Int /\ b \in Int /\ (IF a <= b THEN b - a + 1 ELSE 0) = Len(t)
      BY <1>1
    <3>2. \A k \in a .. b : x[k] \in S
      <4>1. \A k \in 1 .. Len(x) : x[k] \in S
        BY ElementOfSeq
      <4> QED
        BY <1>1, <4>1
    <3>3. SubSeq(x, a, b) = t
      OBVIOUS
    <3> HIDE DEF a, b
    <3>4. SubSeq(x, a, b)[i] = x[a + i - 1]
      BY <3>1, <3>2, SubSeqProperties
    <3> QED
      BY <1>1, <3>3, <3>4 DEF a
  <2> QED
    BY <2>2, <2>3
<1>4. m + Len(t) <= Len(w)
  BY <1>1, <1>2
<1>5. SubSeq(w, m + 1, m + Len(t)) = t
  BY <1>2, <1>3, <1>4, SliceIs
<1> QED
  BY <1>5 DEF w

LEMMA CutLast ==
  ASSUME NEW S, NEW x \in Seq(S), NEW y \in Seq(S)
  PROVE  /\ x \o y \in Seq(S) /\ Len(x \o y) = Len(x) + Len(y)
         /\ SubSeq(x \o y, Len(x) + 1, Len(x \o y)) = y
<1> DEFINE w == x \o y
<1>1. Len(x) \in Nat /\ Len(y) \in Nat
  BY LenProperties
<1>2. /\ w \in Seq(S) /\ Len(w) = Len(x) + Len(y)
      /\ \A i \in 1 .. Len(x) + Len(y) : w[i] = IF i <= Len(x) THEN x[i] ELSE y[i - Len(x)]
  BY ConcatProperties
<1> HIDE DEF w
<1>3. \A i \in 1 .. Len(y) : w[Len(x) + i] = y[i]
  <2> TAKE i \in 1 .. Len(y)
  <2>1. /\ Len(x) + i \in 1 .. Len(x) + Len(y)
        /\ ~ (Len(x) + i <= Len(x))
        /\ (Len(x) + i) - Len(x) = i
    BY <1>1
  <2>2. w[Len(x) + i] = y[(Len(x) + i) - Len(x)]
    BY <1>2, <2>1
  <2> QED
    BY <2>1, <2>2
<1>4. SubSeq(w, Len(x) + 1, Len(x) + Len(y)) = y
  BY <1>1, <1>2, <1>3, SliceIs
<1> QED
  BY <1>2, <1>4 DEF w

(* Four sequences, one after the other.                                    *)
Joined(s, t, u, v) == s \o t \o u \o v

AreParts(w, s, t, u, v) ==
    /\ Len(w) = Len(s) + Len(t) + Len(u) + Len(v)
    /\ SubSeq(w, 1, Len(s)) = s
    /\ SubSeq(w, Len(s) + 1, Len(s) + Len(t)) = t
    /\ SubSeq(w, Len(s) + Len(t) + 1, Len(s) + Len(t) + Len(u)) = u
    /\ SubSeq(w, Len(s) + Len(t) + Len(u) + 1, Len(s) + Len(t) + Len(u) + Len(v)) = v

LEMMA CutInFour ==
  ASSUME NEW S, NEW s \in Seq(S), NEW t \in Seq(S), NEW u \in Seq(S), NEW v \in Seq(S)
  PROVE  Joined(s, t, u, v) \in Seq(S) /\ AreParts(Joined(s, t, u, v), s, t, u, v)
<1> DEFINE x == s \o t \o u
           w == x \o v
           n == Len(s) + Len(t)
<1>1. Len(s) \in Nat /\ Len(t) \in Nat /\ Len(u) \in Nat /\ Len(v) \in Nat
  BY LenProperties
<1>2. /\ x \in Seq(S) /\ Len(x) = Len(s) + Len(t) + Len(u)
      /\ SubSeq(x, 0 + 1, 0 + Len(s)) = s
      /\ SubSeq(x, Len(s) + 1, Len(s) + Len(t)) = t
      /\ SubSeq(x, n + 1, n + Len(u)) = u
  BY <1>1, Cut
<1>3. n \in Nat /\ n = Len(s) + Len(t)
  BY <1>1
<1> HIDE DEF x, n
<1>4. /\ w \in Seq(S) /\ Len(w) = Len(x) + Len(v)
      /\ SubSeq(w, Len(x) + 1, Len(w)) = v
  BY <1>2, CutLast
<1>5. SubSeq(w, 0 + 1, 0 + Len(s)) = s
  BY <1>1, <1>2, CutFromFirst
<1>6. SubSeq(w, Len(s) + 1, Len(s) + Len(t)) = t
  BY <1>1, <1>2, CutFromFirst
<1>7. SubSeq(w, n + 1, n + Len(u)) = u
  BY <1>1, <1>2, <1>3, CutFromFirst
<1> HIDE DEF w
<1>8. /\ w \in Seq(S) /\ Len(w) = Len(s) + Len(t) + Len(u) + Len(v)
      /\ SubSeq(w, 1, Len(s)) = s
      /\ SubSeq(w, Len(s) + 1, Len(s) + Len(t)) = t
      /\ SubSeq(w, Len(s) + Len(t) + 1, Len(s) + Len(t) + Len(u)) = u
      /\ SubSeq(w, Len(s) + Len(t) + Len(u) + 1, Len(s) + Len(t) + Len(u) + Len(v)) = v
  BY <1>1, <1>2, <1>3, <1>4, <1>5, <1>6, <1>7
<1> QED
  BY <1>8 DEF w, x, Joined, AreParts

LEMMA FourPartsJoin ==
  ASSUME NEW S, NEW s \in Seq(S), NEW i \in Nat, NEW j \in Nat, NEW k \in Nat,
         i <= j, j <= k, k <= Len(s)
  PROVE  s = Joined(SubSeq(s, 1, i), SubSeq(s, i + 1, j), SubSeq(s, j + 1, k),
                    SubSeq(s, k + 1, Len(s)))
<1>1. Len(s) \in Nat
  BY LenProperties
<1>2. SubSeq(s, 1, i) \o SubSeq(s, i + 1, j) = SubSeq(s, 1, j)
  <2>1. 1 \in 1 .. Len(s) + 1 /\ i \in 1 - 1 .. Len(s) /\ j \in i .. Len(s)
    BY <1>1
  <2> QED
    BY <2>1, ConcatAdjacentSubSeq
<1>3. s = SubSeq(s, 1, j) \o SubSeq(s, j + 1, k) \o SubSeq(s, k + 1, Len(s))
  BY PartsJoin
<1> QED
  BY <1>2, <1>3 DEF Joined

(* Masking a second time with the same mask takes the mask away.           *)
LEMMA XorTwice ==
  ASSUME NEW n \in Nat, NEW a \in [1 .. n -> Byte], NEW b \in [1 .. n -> Byte]
  PROVE  /\ XorBuf(a, b) \in [1 .. n -> Byte]
         /\ XorBuf(XorBuf(a, b), b) = a
         /\ XorBuf(b, XorBuf(b, a)) = a
<1>1. Len(a) = n /\ Len(b) = n
  BY FixedLength
<1>2. \A x, y \in Byte : /\ XorByte(x, y) \in Byte /\ XorByte(XorByte(x, y), y) = x
                         /\ XorByte(x, y) = XorByte(y, x)
  BY VetKdAssumption
<1>3. XorBuf(a, b) \in [1 .. n -> Byte] /\ \A i \in 1 .. n : XorBuf(a, b)[i] = XorByte(a[i], b[i])
  BY <1>1, <1>2 DEF XorBuf
<1>4. XorBuf(b, a) \in [1 .. n -> Byte] /\ \A i \in 1 .. n : XorBuf(b, a)[i] = XorByte(b[i], a[i])
  BY <1>1, <1>2 DEF XorBuf
<1>5. XorBuf(XorBuf(a, b), b) = [i \in 1 .. n |-> XorByte(XorByte(a[i], b[i]), b[i])]
  <2>1. Len(XorBuf(a, b)) = n
    BY <1>3, FixedLength
  <2> QED
    BY <1>3, <2>1 DEF XorBuf
<1>6. XorBuf(b, XorBuf(b, a)) = [i \in 1 .. n |-> XorByte(b[i], XorByte(b[i], a[i]))]
  <2> HIDE DEF XorBuf
  <2>1. XorBuf(b, XorBuf(b, a)) = [i \in 1 .. n |-> XorByte(b[i], XorBuf(b, a)[i])]
    BY <1>1 DEF XorBuf
  <2> QED
    BY <1>4, <2>1
<1>7. \A i \in 1 .. n : XorByte(XorByte(a[i], b[i]), b[i]) = a[i]
                        /\ XorByte(b[i], XorByte(b[i], a[i])) = a[i]
  <2> SUFFICES ASSUME NEW i \in 1 .. n
               PROVE  XorByte(XorByte(a[i], b[i]), b[i]) = a[i]
                      /\ XorByte(b[i], XorByte(b[i], a[i])) = a[i]
    OBVIOUS
  <2> DEFINE x == a[i]
             y == b[i]
  <2>1. x \in Byte /\ y \in Byte
    OBVIOUS
  <2> HIDE DEF x, y
  <2>2. XorByte(y, XorByte(y, x)) = XorByte(XorByte(y, x), y) /\ XorByte(y, x) = XorByte(x, y)
    BY <1>2, <2>1
  <2>3. XorByte(XorByte(x, y), y) = x
    BY <1>2, <2>1
  <2> QED
    BY <2>2, <2>3 DEF x, y
<1>8. a = [i \in 1 .. n |-> a[i]]
  OBVIOUS
<1> QED
  BY <1>3, <1>5, <1>6, <1>7, <1>8

SeedBuffer == [1 .. SeedBytes -> Byte]

LEMMA SeedMasked ==
  ASSUME HashesHaveValues, NEW seed \in SeedBuffer, NEW t \in Scalar
  PROVE  MaskSeed(seed, t) \in SeedBuffer /\ MaskSeed(MaskSeed(seed, t), t) = seed
<1> DEFINE mask == Hkdf(<<t>>, MaskSeedSep, SeedBytes)
<1>1. SeedBytes \in Nat
  BY SizeFacts
<1>2. mask \in [1 .. SeedBytes -> Byte]
  <2>1. t \in Nat
    BY ByteFacts
  <2>2. <<t>> \in Seq(Nat)
    BY <2>1
  <2> QED
    BY <1>1, <2>2 DEF HashesHaveValues
<1> HIDE DEF mask
<1>3. \A s : MaskSeed(s, t) = XorBuf(mask, s)
  BY DEF MaskSeed, mask
<1>4. seed \in [1 .. SeedBytes -> Byte]
  BY DEF SeedBuffer
<1>5. XorBuf(mask, seed) \in [1 .. SeedBytes -> Byte]
  BY <1>1, <1>2, <1>4, XorTwice
<1>6. XorBuf(mask, XorBuf(mask, seed)) = seed
  BY <1>1, <1>2, <1>4, XorTwice
<1> QED
  BY <1>3, <1>5, <1>6 DEF SeedBuffer

LEMMA MessageMasked ==
  ASSUME HashesHaveValues, NEW seed \in SeedBuffer, NEW msg \in Seq(Byte)
  PROVE  /\ MaskMsg(msg, seed) \in Seq(Byte) /\ Len(MaskMsg(msg, seed)) = Len(msg)
         /\ MaskMsg(MaskMsg(msg, seed), seed) = msg
<1> DEFINE n == Len(msg)
           mask == Shake256(Hkdf(seed, MaskMsgSep(n), SeedBytes), n)
<1>1. n \in Nat /\ SeedBytes \in Nat
  BY SizeFacts, LenProperties
<1>2. seed \in Seq(Nat)
  BY <1>1, FixedLength, ByteFacts DEF SeedBuffer
<1>3. mask \in [1 .. n -> Byte]
  <2>1. Hkdf(seed, MaskMsgSep(n), SeedBytes) \in [1 .. SeedBytes -> Byte]
    BY <1>1, <1>2 DEF HashesHaveValues
  <2>2. Hkdf(seed, MaskMsgSep(n), SeedBytes) \in Seq(Nat)
    BY <1>1, <2>1, FixedLength, ByteFacts
  <2> QED
    BY <1>1, <2>2 DEF HashesHaveValues
<1>4. msg \in [1 .. n -> Byte]
  BY LenProperties, ElementOfSeq
<1>5. \A m : Len(m) = n => MaskMsg(m, seed) = XorBuf(m, mask)
  BY DEF MaskMsg
<1> HIDE DEF mask
<1>6. XorBuf(msg, mask) \in [1 .. n -> Byte] /\ XorBuf(XorBuf(msg, mask), mask) = msg
  BY <1>1, <1>3, <1>4, XorTwice
<1>7. XorBuf(msg, mask) \in Seq(Byte) /\ Len(XorBuf(msg, mask)) = n
  BY <1>1, <1>6, FixedLength
<1> QED
  BY <1>5, <1>6, <1>7

Ciphertext == [header : {IbeHeader}, c1 : Scalar, c2 : SeedBuffer, c3 : Seq(Byte)]

LEMMA CiphertextParts ==
  ASSUME NEW ct \in Ciphertext
  PROVE  /\ ct.header = IbeHeader /\ IbeHeader \in Seq(Byte)
         /\ Compressed(ct.c1, G2Bytes) \in Seq(Byte) /\ Len(Compressed(ct.c1, G2Bytes)) = G2Bytes
         /\ DeserializeG2(Compressed(ct.c1, G2Bytes)) = Ok(ct.c1)
         /\ ct.c2 \in Seq(Byte) /\ Len(ct.c2) = SeedBytes
         /\ ct.c3 \in Seq(Byte)
<1>1. ct.header = IbeHeader /\ ct.c1 \in Scalar /\ ct.c2 \in SeedBuffer /\ ct.c3 \in Seq(Byte)
  BY DEF Ciphertext
<1>2. /\ Compressed(ct.c1, G2Bytes) \in Seq(Byte) /\ Len(Compressed(ct.c1, G2Bytes)) = G2Bytes
      /\ FromCompressed(Compressed(ct.c1, G2Bytes), G2Bytes) = Ok(ct.c1)
  BY <1>1, CompressedFacts, SizeFacts
<1>3. DeserializeG2(Compressed(ct.c1, G2Bytes)) = Ok(ct.c1)
  BY <1>2, OkFacts DEF DeserializeG2
<1>4. ct.c2 \in Seq(Byte) /\ Len(ct.c2) = SeedBytes
  BY <1>1, FixedLength, SizeFacts DEF SeedBuffer
<1> QED
  BY <1>1, <1>2, <1>3, <1>4, VetKdAssumption

(* A ciphertext is read back from its bytes as it was written.             *)
LEMMA CiphertextBytes ==
  ASSUME NEW ct \in Ciphertext
  PROVE  /\ IbeSerialize(ct) \in Seq(Byte)
         /\ Len(IbeSerialize(ct)) = CiphertextSize(Len(ct.c3))
         /\ IbeDeserialize(IbeSerialize(ct)) = Ok(ct)
<1> DEFINE s == IbeHeader
           t == Compressed(ct.c1, G2Bytes)
           u == ct.c2
           v == ct.c3
           w == Joined(s, t, u, v)
<1>1. /\ s \in Seq(Byte) /\ t \in Seq(Byte) /\ u \in Seq(Byte) /\ v \in Seq(Byte)
      /\ Len(t) = G2Bytes /\ Len(u) = SeedBytes
      /\ DeserializeG2(t) = Ok(ct.c1)
  BY CiphertextParts
<1>2. IbeSerialize(ct) = w
  BY CiphertextParts DEF IbeSerialize, Joined
<1>3. Len(s) \in Nat /\ Len(v) \in Nat /\ G2Bytes \in Nat /\ SeedBytes \in Nat
  BY <1>1, LenProperties, SizeFacts
<1> HIDE DEF s, t, u, v
<1>4. /\ w \in Seq(Byte) /\ Len(w) = Len(s) + Len(t) + Len(u) + Len(v)
      /\ SubSeq(w, 1, Len(s)) = s
      /\ SubSeq(w, Len(s) + 1, Len(s) + Len(t)) = t
      /\ SubSeq(w, Len(s) + Len(t) + 1, Len(s) + Len(t) + Len(u)) = u
      /\ SubSeq(w, Len(s) + Len(t) + Len(u) + 1, Len(s) + Len(t) + Len(u) + Len(v)) = v
  <2>1. w \in Seq(Byte) /\ AreParts(w, s, t, u, v)
    BY <1>1, CutInFour
  <2> QED
    BY <2>1 DEF AreParts
<1> HIDE DEF w
<1>5. /\ Len(w) = Len(s) + G2Bytes + SeedBytes + Len(v)
      /\ SubSeq(w, 1, Len(s)) = s
      /\ SubSeq(w, Len(s) + 1, Len(s) + G2Bytes) = t
      /\ SubSeq(w, Len(s) + G2Bytes + 1, Len(s) + G2Bytes + SeedBytes) = u
      /\ SubSeq(w, Len(s) + G2Bytes + SeedBytes + 1, Len(w)) = v
  BY <1>1, <1>4
<1>6. Len(w) = CiphertextSize(Len(v)) /\ Len(w) >= IbeOverhead
  BY <1>3, <1>5 DEF CiphertextSize, IbeOverhead, s
<1>7. IbeDeserialize(w) = Ok([header |-> s, c1 |-> ct.c1, c2 |-> u, c3 |-> v])
  <2>1. s = IbeHeader /\ DeserializeG2(t) = Ok(ct.c1) /\ IsOk(Ok(ct.c1)) /\ Ok(ct.c1).value = ct.c1
    BY <1>1, OkFacts DEF s
  <2> QED
    BY <1>5, <1>6, <2>1 DEF IbeDeserialize
<1>8. [header |-> s, c1 |-> ct.c1, c2 |-> u, c3 |-> v] = ct
  BY DEF Ciphertext, s, u, v
<1> QED
  BY <1>2, <1>4, <1>6, <1>7, <1>8 DEF v

(* Bytes that are read as a ciphertext are the bytes of that ciphertext.   *)
LEMMA CiphertextFromBytes ==
  ASSUME NEW bytes \in Seq(Byte), IsOk(IbeDeserialize(bytes))
  PROVE  /\ IbeDeserialize(bytes).value \in Ciphertext
         /\ bytes = IbeSerialize(IbeDeserialize(bytes).value)
         /\ Len(bytes) = CiphertextSize(Len(IbeDeserialize(bytes).value.c3))
<1> DEFINE i == Len(IbeHeader)
           j == i + G2Bytes
           k == j + SeedBytes
           s == SubSeq(bytes, 1, i)
           t == SubSeq(bytes, i + 1, j)
           u == SubSeq(bytes, j + 1, k)
           v == SubSeq(bytes, k + 1, Len(bytes))
           c1 == DeserializeG2(t)
           ct == [header |-> s, c1 |-> c1.value, c2 |-> u, c3 |-> v]
<1>1. i \in Nat /\ G2Bytes \in Nat /\ SeedBytes \in Nat /\ Len(bytes) \in Nat
  BY VetKdAssumption, LenProperties, SizeFacts
<1>2. /\ Len(bytes) >= IbeOverhead /\ IsOk(c1) /\ s = IbeHeader
      /\ IbeDeserialize(bytes) = Ok(ct)
  BY OkFacts DEF IbeDeserialize
<1>3. i \in Nat /\ j \in Nat /\ k \in Nat /\ i <= j /\ j <= k /\ k <= Len(bytes) /\ k - j = SeedBytes
  BY <1>1, <1>2 DEF IbeOverhead
<1>4. c1.value \in Scalar /\ t = Compressed(c1.value, G2Bytes)
  <2>1. c1 = FromCompressed(t, G2Bytes) /\ IsOk(FromCompressed(t, G2Bytes))
    BY <1>2, OkFacts DEF DeserializeG2
  <2> HIDE DEF t, c1
  <2> QED
    BY <2>1, FromCompressedFacts, SizeFacts
<1> HIDE DEF i, j, k
<1>5. u \in Seq(Byte) /\ Len(u) = SeedBytes
  BY <1>3, PartFacts
<1>6. v \in Seq(Byte)
  BY <1>3, RestFacts
<1>7. bytes = Joined(s, t, u, v)
  <2>1. bytes = Joined(SubSeq(bytes, 1, i), SubSeq(bytes, i + 1, j), SubSeq(bytes, j + 1, k),
                      SubSeq(bytes, k + 1, Len(bytes)))
    <3> HIDE DEF s, t, u, v
    <3> QED
      BY <1>3, FourPartsJoin
  <2> QED
    BY <2>1
<1> HIDE DEF s, t, u, v, c1
<1>8. u \in SeedBuffer
  BY <1>5, ElementOfSeq DEF SeedBuffer
<1>9. ct \in Ciphertext
  BY <1>2, <1>4, <1>6, <1>8 DEF Ciphertext
<1>10. bytes = IbeSerialize(ct)
  BY <1>4, <1>7 DEF IbeSerialize, Joined
<1>11. Len(bytes) = CiphertextSize(Len(ct.c3))
  BY <1>9, <1>10, CiphertextBytes
<1> QED
  BY <1>2, <1>9, <1>10, <1>11, OkFacts

LEMMA MaskIsScalar ==
  ASSUME HashesHaveValues, NEW seed \in SeedBuffer, NEW msg \in Seq(Byte)
  PROVE  HashToMask(IbeHeader, seed, msg) \in Scalar
<1>1. IbeHeader \in Seq(Byte) /\ seed \in Seq(Byte)
  BY VetKdAssumption, FixedLength, SizeFacts DEF SeedBuffer
<1>2. IbeHeader \o seed \in Seq(Byte)
  BY <1>1, ConcatProperties
<1>3. IbeHeader \o seed \o msg \in Seq(Nat)
  BY <1>2, ByteFacts, ConcatProperties
<1> QED
  BY <1>3 DEF HashesHaveValues, HashToMask

LEMMA EncryptionParts ==
  ASSUME HashesHaveValues, NEW dpk \in Scalar, NEW input \in Seq(Byte), NEW msg \in Seq(Byte),
         NEW seed \in SeedBuffer, NEW t, t = HashToMask(IbeHeader, seed, msg)
  PROVE  /\ t \in Scalar /\ Pairing(VetKeyOf(dpk, input), t) \in Scalar
         /\ IbeEncrypt(dpk, input, msg, seed)
                = [header |-> IbeHeader, c1 |-> t,
                   c2 |-> MaskSeed(seed, Pairing(VetKeyOf(dpk, input), t)),
                   c3 |-> MaskMsg(msg, seed)]
<1>1. t \in Scalar
  BY MaskIsScalar
<1>2. Pairing(VetKeyOf(dpk, input), t) \in Scalar
  BY <1>1, VetKeyIsPoint, Closed DEF Pairing
<1>3. Times(Pairing(AugmentedHashToG1(dpk, input), dpk), t) = Pairing(VetKeyOf(dpk, input), t)
  BY DEF VetKeyOf, Pairing
<1> QED
  BY <1>1, <1>2, <1>3 DEF IbeEncrypt

LEMMA EncryptionIsCiphertext ==
  ASSUME HashesHaveValues, NEW dpk \in Scalar, NEW input \in Seq(Byte), NEW msg \in Seq(Byte),
         NEW seed \in SeedBuffer
  PROVE  /\ IbeEncrypt(dpk, input, msg, seed) \in Ciphertext
         /\ Len(IbeEncrypt(dpk, input, msg, seed).c3) = Len(msg)
<1> DEFINE t == HashToMask(IbeHeader, seed, msg)
           g == Pairing(VetKeyOf(dpk, input), t)
<1>1. /\ t \in Scalar /\ g \in Scalar
      /\ IbeEncrypt(dpk, input, msg, seed)
            = [header |-> IbeHeader, c1 |-> t, c2 |-> MaskSeed(seed, g), c3 |-> MaskMsg(msg, seed)]
  BY EncryptionParts
<1> HIDE DEF t, g
<1>2. MaskSeed(seed, g) \in SeedBuffer
  BY <1>1, SeedMasked
<1>3. MaskMsg(msg, seed) \in Seq(Byte) /\ Len(MaskMsg(msg, seed)) = Len(msg)
  BY MessageMasked
<1> QED
  BY <1>1, <1>2, <1>3 DEF Ciphertext

(* What was encrypted for an identity is decrypted with its vetKey.        *)
LEMMA DecryptsItsEncryption ==
  ASSUME HashesHaveValues, NEW dpk \in Scalar, NEW input \in Seq(Byte), NEW msg \in Seq(Byte),
         NEW seed \in SeedBuffer
  PROVE  IbeDecrypt(IbeEncrypt(dpk, input, msg, seed), VetKeyOf(dpk, input)) = Ok(msg)
<1> DEFINE t == HashToMask(IbeHeader, seed, msg)
           g == Pairing(VetKeyOf(dpk, input), t)
           ct == [header |-> IbeHeader, c1 |-> t, c2 |-> MaskSeed(seed, g), c3 |-> MaskMsg(msg, seed)]
<1>1. g \in Scalar /\ IbeEncrypt(dpk, input, msg, seed) = ct
  BY EncryptionParts
<1>2. MaskSeed(MaskSeed(seed, g), g) = seed
  <2> HIDE DEF g
  <2> QED
    BY <1>1, SeedMasked
<1>3. MaskMsg(MaskMsg(msg, seed), seed) = msg
  BY MessageMasked
<1>4. IbeDecrypt(ct, VetKeyOf(dpk, input)) = Ok(msg)
  BY <1>2, <1>3 DEF IbeDecrypt
<1> QED
  BY <1>1, <1>4

(* What is decrypted with its vetKey was encrypted for the identity.       *)
LEMMA DecryptsOnlyEncryptions ==
  ASSUME HashesHaveValues, NEW dpk \in Scalar, NEW input \in Seq(Byte), NEW ct \in Ciphertext,
         IsOk(IbeDecrypt(ct, VetKeyOf(dpk, input)))
  PROVE  LET msg == IbeDecrypt(ct, VetKeyOf(dpk, input)).value
         IN  /\ Len(msg) = Len(ct.c3)
             /\ \E seed \in SeedBuffer : ct = IbeEncrypt(dpk, input, msg, seed)
<1> DEFINE g == Pairing(VetKeyOf(dpk, input), ct.c1)
           seed == MaskSeed(ct.c2, g)
           msg == MaskMsg(ct.c3, seed)
           t == HashToMask(IbeHeader, seed, msg)
<1>1. /\ ct.c1 \in Scalar /\ ct.c2 \in SeedBuffer /\ ct.c3 \in Seq(Byte) /\ ct.header = IbeHeader
      /\ ct = [header |-> IbeHeader, c1 |-> ct.c1, c2 |-> ct.c2, c3 |-> ct.c3]
  BY DEF Ciphertext
<1>2. ct.c1 = t /\ IbeDecrypt(ct, VetKeyOf(dpk, input)) = Ok(msg)
  BY <1>1, OkFacts DEF IbeDecrypt
<1>3. g \in Scalar
  BY <1>1, VetKeyIsPoint, Closed DEF Pairing
<1>4. g = Pairing(VetKeyOf(dpk, input), t)
  BY <1>2
<1> HIDE DEF g
<1>5. seed \in SeedBuffer /\ MaskSeed(seed, g) = ct.c2
  BY <1>1, <1>3, SeedMasked
<1> HIDE DEF seed
<1>6. msg \in Seq(Byte) /\ Len(msg) = Len(ct.c3) /\ MaskMsg(msg, seed) = ct.c3
  BY <1>1, <1>5, MessageMasked
<1> HIDE DEF msg
<1>7. IbeEncrypt(dpk, input, msg, seed)
        = [header |-> IbeHeader, c1 |-> t, c2 |-> MaskSeed(seed, Pairing(VetKeyOf(dpk, input), t)),
           c3 |-> MaskMsg(msg, seed)]
  BY <1>5, <1>6, EncryptionParts
<1>8. ct = IbeEncrypt(dpk, input, msg, seed)
  BY <1>1, <1>2, <1>4, <1>5, <1>6, <1>7
<1>9. IbeDecrypt(ct, VetKeyOf(dpk, input)).value = msg
  BY <1>2, OkFacts
<1> QED
  BY <1>5, <1>6, <1>8, <1>9

LEMMA AcceptedSeed ==
  ASSUME HashesHaveValues, NEW bytes \in Seq(Byte)
  PROVE  /\ IsOk(IbeSeedFromBytes(bytes)) <=> Len(bytes) >= MinSeedBytes
         /\ IsOk(IbeSeedFromBytes(bytes)) => IbeSeedFromBytes(bytes).value \in SeedBuffer
<1>1. Len(bytes) \in Nat /\ MinSeedBytes \in Nat /\ SeedBytes \in Nat
  BY LenProperties, SizeFacts
<1>2. Len(bytes) = SeedBytes => bytes \in SeedBuffer
  BY ElementOfSeq DEF SeedBuffer
<1>3. Hkdf(bytes, <<"ibe-hash-seed">>, SeedBytes) \in SeedBuffer
  BY <1>1, ByteFacts DEF HashesHaveValues, SeedBuffer
<1> DEFINE hashed == Hkdf(bytes, <<"ibe-hash-seed">>, SeedBytes)
           seed == IbeSeedFromBytes(bytes)
<1>4. seed = IF Len(bytes) < MinSeedBytes THEN Err("Insufficient input material")
             ELSE IF Len(bytes) = SeedBytes THEN Ok(bytes)
             ELSE Ok(hashed)
  BY DEF IbeSeedFromBytes
<1>5. hashed \in SeedBuffer
  BY <1>3
<1> HIDE DEF seed, hashed
<1>6. CASE Len(bytes) < MinSeedBytes
  <2>1. ~ IsOk(seed)
    BY <1>4, <1>6, OkFacts
  <2> QED
    BY <1>1, <1>6, <2>1 DEF seed
<1>7. CASE ~ (Len(bytes) < MinSeedBytes)
  <2>1. (seed = Ok(bytes) /\ Len(bytes) = SeedBytes) \/ seed = Ok(hashed)
    BY <1>4, <1>7
  <2>2. IsOk(seed) /\ seed.value \in SeedBuffer
    BY <1>2, <1>5, <2>1, OkFacts
  <2> QED
    BY <1>1, <1>7, <2>2 DEF seed
<1> QED
  BY <1>6, <1>7

(* IbeCiphertext::deserialize and decrypt as the property states it.       *)
LEMMA OnlyEncryptionsOpen ==
  ASSUME HashesHaveValues, NEW bytes \in Seq(Byte), NEW dpk \in Scalar, NEW input \in Seq(Byte),
         NEW answer,
         answer = IF IsOk(IbeDeserialize(bytes))
                  THEN IbeDecrypt(IbeDeserialize(bytes).value, VetKeyOf(dpk, input))
                  ELSE IbeDeserialize(bytes)
  PROVE  IF IsOk(answer)
         THEN /\ \E seed \in SeedBuffer :
                    bytes = IbeSerialize(IbeEncrypt(dpk, input, answer.value, seed))
              /\ PlaintextSize(Len(bytes)) = Ok(Len(answer.value))
         ELSE \A msg \in Seq(Byte), seed \in SeedBuffer :
                bytes # IbeSerialize(IbeEncrypt(dpk, input, msg, seed))
<1>1. ASSUME IsOk(answer)
      PROVE  /\ \E seed \in SeedBuffer :
                    bytes = IbeSerialize(IbeEncrypt(dpk, input, answer.value, seed))
             /\ PlaintextSize(Len(bytes)) = Ok(Len(answer.value))
  <2> DEFINE ct == IbeDeserialize(bytes).value
  <2>1. /\ IsOk(IbeDeserialize(bytes))
        /\ answer = IbeDecrypt(ct, VetKeyOf(dpk, input))
    BY <1>1
  <2>2. /\ ct \in Ciphertext /\ bytes = IbeSerialize(ct)
        /\ Len(bytes) = CiphertextSize(Len(ct.c3))
    BY <2>1, CiphertextFromBytes
  <2> HIDE DEF ct
  <2>3. /\ Len(answer.value) = Len(ct.c3)
        /\ \E seed \in SeedBuffer : ct = IbeEncrypt(dpk, input, answer.value, seed)
    BY <1>1, <2>1, <2>2, DecryptsOnlyEncryptions
  <2>4. PlaintextSize(Len(bytes)) = Ok(Len(answer.value))
    <3>1. Len(ct.c3) \in Nat /\ IbeOverhead \in Nat
      <4>1. ct.c3 \in Seq(Byte) /\ IbeHeader \in Seq(Byte)
        BY <2>2, VetKdAssumption DEF Ciphertext
      <4> QED
        BY <4>1, LenProperties, SizeFacts DEF IbeOverhead
    <3> QED
      BY <2>2, <2>3, <3>1 DEF CiphertextSize, PlaintextSize
  <2> QED
    BY <2>2, <2>3, <2>4
<1>2. ASSUME NEW msg \in Seq(Byte), NEW seed \in SeedBuffer,
             bytes = IbeSerialize(IbeEncrypt(dpk, input, msg, seed))
      PROVE  IsOk(answer)
  <2> DEFINE ct == IbeEncrypt(dpk, input, msg, seed)
  <2>1. ct \in Ciphertext /\ IbeDecrypt(ct, VetKeyOf(dpk, input)) = Ok(msg)
    BY EncryptionIsCiphertext, DecryptsItsEncryption
  <2>2. bytes = IbeSerialize(ct)
    BY <1>2
  <2> HIDE DEF ct
  <2>3. IbeDeserialize(bytes) = Ok(ct)
    BY <2>1, <2>2, CiphertextBytes
  <2> QED
    BY <2>1, <2>3, OkFacts
<1> QED
  BY <1>1, <1>2

(* A ciphertext opens exactly when it is an encryption, to its message and *)
(* with the sizes announced, and a seed of any accepted length makes one.  *)
THEOREM EncryptionsAreExact ==
  ASSUME HashesHaveValues
  PROVE  Spec => []OnlyEncryptionsDecrypt
<1>1. Init => OnlyEncryptionsDecrypt
  BY DEF Init, NoCall, OnlyEncryptionsDecrypt
<1>2. OnlyEncryptionsDecrypt /\ [Next]_vars => OnlyEncryptionsDecrypt'
  <2>1. CASE UNCHANGED vars
    BY <2>1 DEF vars, OnlyEncryptionsDecrypt
  <2>2. ASSUME Next, call'.fn = "ibe_decrypt" PROVE OnlyEncryptionsDecrypt'
    <3>1. CallIbeDecrypt
      BY <2>2, FnOfCall
    <3>2. PICK bytes \in ShortString, dpk \in PublicKey, input \in Input :
             Called([fn |-> "ibe_decrypt", bytes |-> bytes, dpk |-> dpk, input |-> input],
                    IF IsOk(IbeDeserialize(bytes))
                    THEN IbeDecrypt(IbeDeserialize(bytes).value, VetKeyOf(dpk, input))
                    ELSE IbeDeserialize(bytes))
      BY <3>1 DEF CallIbeDecrypt
    <3>3. /\ call'.fn = "ibe_decrypt" /\ call'.bytes = bytes /\ call'.dpk = dpk
          /\ call'.input = input
          /\ result' = IF IsOk(IbeDeserialize(bytes))
                       THEN IbeDecrypt(IbeDeserialize(bytes).value, VetKeyOf(dpk, input))
                       ELSE IbeDeserialize(bytes)
      BY <3>2 DEF Called
    <3>4. bytes \in Seq(Byte) /\ dpk \in Scalar /\ input \in Seq(Byte) /\ Input \subseteq Seq(Byte)
      BY ArgumentFacts
    <3>5. IF IsOk(result')
          THEN /\ \E seed \in SeedBuffer :
                    bytes = IbeSerialize(IbeEncrypt(dpk, input, result'.value, seed))
               /\ PlaintextSize(Len(bytes)) = Ok(Len(result'.value))
          ELSE \A msg \in Seq(Byte), seed \in SeedBuffer :
                bytes # IbeSerialize(IbeEncrypt(dpk, input, msg, seed))
      BY <3>3, <3>4, OnlyEncryptionsOpen
    <3>6. Seed = SeedBuffer
      BY ArgumentsAssumption DEF SeedBuffer
    <3> QED
      BY <3>3, <3>4, <3>5, <3>6 DEF OnlyEncryptionsDecrypt
  <2>3. ASSUME Next, call'.fn = "ibe_encrypt" PROVE OnlyEncryptionsDecrypt'
    <3>1. CallIbeEncrypt
      BY <2>3, FnOfCall
    <3>2. PICK bytes \in SecretBytes, dpk \in PublicKey, input \in Input, m \in Input :
             Called([fn |-> "ibe_encrypt", seed |-> bytes, dpk |-> dpk, input |-> input,
                     msg |-> m],
                    IF IsOk(IbeSeedFromBytes(bytes))
                    THEN Ok(IbeSerialize(IbeEncrypt(dpk, input, m, IbeSeedFromBytes(bytes).value)))
                    ELSE IbeSeedFromBytes(bytes))
      BY <3>1 DEF CallIbeEncrypt
    <3> DEFINE seed == IbeSeedFromBytes(bytes)
               ct == IbeEncrypt(dpk, input, m, seed.value)
    <3>3. /\ call'.fn = "ibe_encrypt" /\ call'.seed = bytes /\ call'.dpk = dpk
          /\ call'.input = input /\ call'.msg = m
          /\ result' = IF IsOk(seed) THEN Ok(IbeSerialize(ct)) ELSE seed
      BY <3>2 DEF Called
    <3>4. bytes \in Seq(Byte) /\ dpk \in Scalar /\ input \in Seq(Byte) /\ m \in Seq(Byte)
      BY ArgumentFacts
    <3>5. /\ IsOk(seed) <=> Len(bytes) >= MinSeedBytes
          /\ IsOk(seed) => seed.value \in SeedBuffer
      BY <3>4, AcceptedSeed
    <3> HIDE DEF seed
    <3>6. IsOk(seed) => /\ ct \in Ciphertext /\ Len(ct.c3) = Len(m)
                        /\ IbeDecrypt(ct, VetKeyOf(dpk, input)) = Ok(m)
      BY <3>4, <3>5, EncryptionIsCiphertext, DecryptsItsEncryption
    <3> HIDE DEF ct
    <3>7. IsOk(result') <=> IsOk(seed)
      BY <3>3, OkFacts
    <3>8. ASSUME IsOk(result')
          PROVE  /\ Len(result'.value) = CiphertextSize(Len(m))
                 /\ IbeDecrypt(IbeDeserialize(result'.value).value, VetKeyOf(dpk, input)) = Ok(m)
      <4>1. IsOk(seed) /\ result'.value = IbeSerialize(ct)
        BY <3>3, <3>7, <3>8, OkFacts
      <4>2. Len(IbeSerialize(ct)) = CiphertextSize(Len(ct.c3)) /\ IbeDeserialize(IbeSerialize(ct)) = Ok(ct)
        BY <3>6, <4>1, CiphertextBytes
      <4> QED
        BY <3>6, <4>1, <4>2, OkFacts
    <3> QED
      BY <3>3, <3>5, <3>7, <3>8 DEF OnlyEncryptionsDecrypt
  <2>4. ASSUME Next, call'.fn # "ibe_decrypt", call'.fn # "ibe_encrypt"
        PROVE  OnlyEncryptionsDecrypt'
    BY <2>4 DEF OnlyEncryptionsDecrypt
  <2> QED
    BY <2>1, <2>2, <2>3, <2>4
<1> QED
  BY <1>1, <1>2, PTL DEF Spec

-----------------------------------------------------------------------------
(* Messages: where the bytes come from that a reader may be given.         *)

Keys ==
    {DeriveAesGcmKey(v, ds) : v \in Vetkey \cup {Author}, ds \in DomainSep}
    \cup {LegacyKey(v, ds) : v \in Vetkey \cup {Author}, ds \in DomainSep}

SealedData == {Header \o aad : aad \in AssociatedData} \cup {<<>>}

SealedByte == Keys \X Nonce \X SealedData \X Plaintext \X Nat

MessageByte == {<<i>> : i \in 1 .. HeaderSize} \cup NonceByte \cup SealedByte

LEMMA MessageSizes ==
  /\ HeaderSize \in Nat \ {0} /\ NonceSize \in Nat \ {0} /\ TagSize \in Nat \ {0}
  /\ \A m \in Plaintext : Len(m) \in Nat
  BY SizesAssumption, MessagesAssumption

(* A byte with a sealed byte's form was sealed, by someone who writes.     *)
LEMMA SealedOnly ==
  ASSUME NEW b \in MessageByte, Len(b) = 5
  PROVE  b \in SealedByte
<1>1. \A i : Len(<<i>>) = 1
  OBVIOUS
<1> QED
  BY <1>1, MessagesAssumption DEF MessageByte

LEMMA HeaderFacts == Header \in Seq(MessageByte) /\ Len(Header) = HeaderSize
<1>1. Header \in [1 .. HeaderSize -> MessageByte]
  BY DEF Header, MessageByte
<1> QED
  BY <1>1, FixedLength, MessageSizes

LEMMA NonceFacts ==
  ASSUME NEW n \in Nonce
  PROVE  n \in Seq(MessageByte) /\ Len(n) = NonceSize
<1>1. n \in [1 .. NonceSize -> MessageByte]
  BY MessagesAssumption DEF MessageByte
<1> QED
  BY <1>1, FixedLength, MessageSizes

(* What AES-GCM makes of a message it opens again.                         *)
LEMMA SealedFacts ==
  ASSUME NEW key \in Keys, NEW n \in Nonce, NEW m \in Plaintext,
         NEW data \in SealedData, NEW sealed, sealed = GcmEncrypt(key, n, data, m)
  PROVE  /\ sealed \in Seq(MessageByte) /\ Len(sealed) = Len(m) + TagSize
         /\ GcmDecrypt(key, n, data, sealed) = Ok(m)
<1>1. Len(m) + TagSize \in Nat /\ 1 \in 1 .. Len(m) + TagSize
  BY MessageSizes
<1>2. sealed = [i \in 1 .. Len(m) + TagSize |-> <<key, n, data, m, i>>]
  BY DEF GcmEncrypt
<1>3. \A i \in 1 .. Len(m) + TagSize : <<key, n, data, m, i>> \in MessageByte
  <2>1. \A i \in 1 .. Len(m) + TagSize : i \in Nat
    BY <1>1
  <2> QED
    BY <2>1 DEF MessageByte, SealedByte
<1>4. sealed \in [1 .. Len(m) + TagSize -> MessageByte]
  BY <1>2, <1>3
<1>5. sealed[1] = <<key, n, data, m, 1>>
  BY <1>1, <1>2
<1>6. Len(sealed[1]) = 5 /\ sealed[1][4] = m
  BY <1>5
<1>7. GcmDecrypt(key, n, data, sealed) = Ok(m)
  BY <1>6 DEF GcmDecrypt
<1> QED
  BY <1>1, <1>4, <1>7, FixedLength

(* What AES-GCM opens was sealed with the same key, nonce and data.        *)
LEMMA OpenedWasSealed ==
  ASSUME NEW key, NEW n, NEW data, NEW sealed \in Seq(MessageByte), Len(sealed) >= TagSize,
         IsOk(GcmDecrypt(key, n, data, sealed))
  PROVE  \E m \in Plaintext :
            /\ n \in Nonce /\ sealed = GcmEncrypt(key, n, data, m)
            /\ Len(sealed) = Len(m) + TagSize
            /\ GcmDecrypt(key, n, data, sealed) = Ok(m)
<1> DEFINE b == sealed[1]
           m == b[4]
<1>1. /\ Len(b) = 5 /\ sealed = GcmEncrypt(key, n, data, m)
      /\ GcmDecrypt(key, n, data, sealed) = Ok(m)
  BY OkFacts DEF GcmDecrypt
<1>2. b \in MessageByte
  BY MessageSizes, ElementOfSeq, LenProperties
<1>3. b \in SealedByte
  BY <1>1, <1>2, SealedOnly
<1>4. b[2] \in Nonce /\ m \in Plaintext
  BY <1>3 DEF SealedByte
<1>5. Len(m) + TagSize \in Nat /\ 1 \in 1 .. Len(m) + TagSize
  BY <1>4, MessageSizes
<1> HIDE DEF m
<1>6. sealed = [j \in 1 .. Len(m) + TagSize |-> <<key, n, data, m, j>>]
  BY <1>1 DEF GcmEncrypt
<1>7. b = <<key, n, data, m, 1>>
  BY <1>5, <1>6
<1>8. n \in Nonce
  BY <1>4, <1>7
<1>9. Len(sealed) = Len(m) + TagSize
  BY <1>5, <1>6
<1> QED
  BY <1>1, <1>4, <1>8, <1>9

LEMMA CutInTwo ==
  ASSUME NEW S, NEW x \in Seq(S), NEW y \in Seq(S)
  PROVE  /\ x \o y \in Seq(S) /\ Len(x \o y) = Len(x) + Len(y)
         /\ SubSeq(x \o y, 1, Len(x)) = x
         /\ SubSeq(x \o y, Len(x) + 1, Len(x \o y)) = y
<1> DEFINE w == x \o y
<1>1. Len(x) \in Nat /\ Len(y) \in Nat
  BY LenProperties
<1>2. /\ w \in Seq(S) /\ Len(w) = Len(x) + Len(y)
      /\ \A i \in 1 .. Len(x) + Len(y) : w[i] = IF i <= Len(x) THEN x[i] ELSE y[i - Len(x)]
  BY ConcatProperties
<1>3. SubSeq(w, Len(x) + 1, Len(w)) = y
  BY CutLast
<1> HIDE DEF w
<1>4. 0 + Len(x) <= Len(w) /\ \A i \in 1 .. Len(x) : w[0 + i] = x[i]
  BY <1>1, <1>2
<1>5. SubSeq(w, 0 + 1, 0 + Len(x)) = x
  BY <1>2, <1>4, SliceIs
<1> QED
  BY <1>1, <1>2, <1>3, <1>5 DEF w

LEMMA TwoPartsJoin ==
  ASSUME NEW S, NEW s \in Seq(S), NEW j \in Nat, j <= Len(s)
  PROVE  s = SubSeq(s, 1, j) \o SubSeq(s, j + 1, Len(s))
<1>1. 1 \in 1 .. Len(s) + 1 /\ j \in 1 - 1 .. Len(s) /\ Len(s) \in j .. Len(s)
  BY LenProperties
<1>2. SubSeq(s, 1, j) \o SubSeq(s, j + 1, Len(s)) = SubSeq(s, 1, Len(s))
  BY <1>1, ConcatAdjacentSubSeq
<1> QED
  BY <1>2, SubSeqFull

LEMMA KeyFacts ==
  ASSUME NEW v \in Vetkey \cup {Author}, NEW ds \in DomainSep, NEW aad \in AssociatedData
  PROVE  /\ DeriveAesGcmKey(v, ds) \in Keys /\ LegacyKey(v, ds) \in Keys
         /\ Header \o aad \in SealedData /\ <<>> \in SealedData
<1>1. DeriveAesGcmKey(v, ds) \in {DeriveAesGcmKey(v_1, ds_1) : v_1 \in Vetkey \cup {Author}, ds_1 \in DomainSep}
  OBVIOUS
<1>2. LegacyKey(v, ds) \in {LegacyKey(v_1, ds_1) : v_1 \in Vetkey \cup {Author}, ds_1 \in DomainSep}
  OBVIOUS
<1>3. Header \o aad \in {Header \o aad_1 : aad_1 \in AssociatedData}
  OBVIOUS
<1>4. DeriveAesGcmKey(v, ds) \in Keys
  BY <1>1 DEF Keys
<1>5. LegacyKey(v, ds) \in Keys
  BY <1>2 DEF Keys
<1>6. Header \o aad \in SealedData /\ <<>> \in SealedData
  BY <1>3 DEF SealedData
<1> QED
  BY <1>4, <1>5, <1>6

(* A message is decrypted with the key, separator and data it was          *)
(* encrypted with.                                                         *)
LEMMA OpensItsMessage ==
  ASSUME NEW v \in Vetkey \cup {Author}, NEW ds \in DomainSep, NEW aad \in AssociatedData,
         NEW m \in Plaintext, NEW n \in Nonce,
         NEW c, c = EncryptMessage(v, m, ds, aad, n)
  PROVE  c \in Seq(MessageByte) /\ DecryptMessage(v, c, ds, aad) = Ok(m)
<1> DEFINE key == DeriveAesGcmKey(v, ds)
           data == Header \o aad
           s == GcmEncrypt(key, n, data, m)
<1>1. key \in Keys /\ data \in SealedData
  BY KeyFacts
<1>2. c = Header \o n \o s
  BY DEF EncryptMessage
<1>3. /\ s \in Seq(MessageByte) /\ Len(s) = Len(m) + TagSize
      /\ GcmDecrypt(key, n, data, s) = Ok(m)
  <2> HIDE DEF key, data
  <2> QED
    BY <1>1, SealedFacts
<1>4. /\ HeaderSize \in Nat /\ NonceSize \in Nat /\ TagSize \in Nat /\ Len(m) \in Nat
      /\ n \in Seq(MessageByte) /\ Len(n) = NonceSize
      /\ Header \in Seq(MessageByte) /\ Len(Header) = HeaderSize
  BY MessageSizes, NonceFacts, HeaderFacts
<1> HIDE DEF s
<1>5. /\ c \in Seq(MessageByte) /\ Len(c) = HeaderSize + NonceSize + Len(s)
      /\ SubSeq(c, 1, HeaderSize) = Header
      /\ SubSeq(c, HeaderSize + 1, HeaderSize + NonceSize) = n
      /\ SubSeq(c, HeaderSize + NonceSize + 1, Len(c)) = s
  <2> DEFINE w == Header \o n \o s
  <2>1. Header \in Seq(MessageByte) /\ n \in Seq(MessageByte) /\ s \in Seq(MessageByte)
    BY <1>3, <1>4
  <2>2. /\ w \in Seq(MessageByte) /\ Len(w) = Len(Header) + Len(n) + Len(s)
        /\ SubSeq(w, 1, Len(Header)) = Header
        /\ SubSeq(w, Len(Header) + 1, Len(Header) + Len(n)) = n
        /\ SubSeq(w, Len(Header) + Len(n) + 1, Len(Header) + Len(n) + Len(s)) = s
    BY <2>1, Cut
  <2>3. c = w
    BY <1>2
  <2> HIDE DEF w
  <2> QED
    BY <1>4, <2>2, <2>3
<1>6. HasHeader(c) /\ Len(c) >= HeaderSize + NonceSize + TagSize
  BY <1>3, <1>4, <1>5 DEF HasHeader
<1>7. DecryptWithHeader(v, c, ds, aad) = Ok(m)
  BY <1>3, <1>5 DEF DecryptWithHeader
<1>8. ~ (Len(c) < HeaderSize + NonceSize + TagSize)
  BY <1>3, <1>4, <1>5
<1> QED
  BY <1>5, <1>6, <1>7, <1>8 DEF DecryptMessage

(* So is an old one, of the sizes that are told from the new format.       *)
LEMMA OpensOldMessage ==
  ASSUME NEW v \in Vetkey \cup {Author}, NEW ds \in DomainSep,
         NEW m \in Plaintext, NEW n \in Nonce,
         NEW c, c = LegacyEncryptMessage(v, m, ds, n)
  PROVE  /\ c \in Seq(MessageByte)
         /\ ~ HasHeader(c) /\ Len(m) >= HeaderSize => DecryptMessage(v, c, ds, <<>>) = Ok(m)
<1> DEFINE key == LegacyKey(v, ds)
           s == GcmEncrypt(key, n, <<>>, m)
<1>1. key \in Keys /\ <<>> \in SealedData
  BY DEF Keys, SealedData
<1>2. c = n \o s
  BY DEF LegacyEncryptMessage
<1>3. /\ s \in Seq(MessageByte) /\ Len(s) = Len(m) + TagSize
      /\ GcmDecrypt(key, n, <<>>, s) = Ok(m)
  <2> HIDE DEF key
  <2> QED
    BY <1>1, SealedFacts
<1>4. /\ HeaderSize \in Nat /\ NonceSize \in Nat /\ TagSize \in Nat /\ Len(m) \in Nat
      /\ n \in Seq(MessageByte) /\ Len(n) = NonceSize
  BY MessageSizes, NonceFacts
<1> HIDE DEF s
<1>5. /\ c \in Seq(MessageByte) /\ Len(c) = NonceSize + Len(s)
      /\ SubSeq(c, 1, NonceSize) = n
      /\ SubSeq(c, NonceSize + 1, Len(c)) = s
  <2> DEFINE w == n \o s
  <2>1. n \in Seq(MessageByte) /\ s \in Seq(MessageByte)
    BY <1>3, <1>4
  <2>2. /\ w \in Seq(MessageByte) /\ Len(w) = Len(n) + Len(s)
        /\ SubSeq(w, 1, Len(n)) = n
        /\ SubSeq(w, Len(n) + 1, Len(w)) = s
    BY <2>1, CutInTwo
  <2>3. c = w
    BY <1>2
  <2> HIDE DEF w
  <2> QED
    BY <1>4, <2>2, <2>3
<1>6. DecryptLegacy(v, c, ds) = Ok(m)
  BY <1>3, <1>5 DEF DecryptLegacy
<1>7. Len(m) >= HeaderSize => ~ (Len(c) < HeaderSize + NonceSize + TagSize)
  BY <1>3, <1>4, <1>5
<1> QED
  BY <1>5, <1>6, <1>7 DEF DecryptMessage

(* Whatever is decrypted is a message of one format or the other.          *)
LEMMA OpensNothingElse ==
  ASSUME NEW v, NEW ds, NEW aad, NEW c \in Seq(MessageByte),
         IsOk(DecryptMessage(v, c, ds, aad))
  PROVE  \E m \in Plaintext : \E n \in Nonce :
            /\ DecryptMessage(v, c, ds, aad) = Ok(m)
            /\ \/ c = EncryptMessage(v, m, ds, aad, n)
               \/ /\ c = LegacyEncryptMessage(v, m, ds, n)
                  /\ aad = <<>> /\ ~ HasHeader(c) /\ Len(m) >= HeaderSize
<1>1. /\ HeaderSize \in Nat /\ NonceSize \in Nat /\ TagSize \in Nat /\ Len(c) \in Nat
      /\ \A m \in Plaintext : Len(m) \in Nat
  BY MessageSizes, LenProperties
<1>2. Len(c) >= HeaderSize + NonceSize + TagSize
  BY <1>1, OkFacts DEF DecryptMessage
<1>3. CASE HasHeader(c)
  <2> DEFINE i == HeaderSize
             j == HeaderSize + NonceSize
             n == SubSeq(c, i + 1, j)
             s == SubSeq(c, j + 1, Len(c))
             key == DeriveAesGcmKey(v, ds)
  <2>1. i \in Nat /\ j \in Nat /\ i <= j /\ j <= Len(c) /\ Len(c) - j >= TagSize
    BY <1>1, <1>2
  <2>2. /\ SubSeq(c, 1, i) = Header
        /\ DecryptMessage(v, c, ds, aad) = GcmDecrypt(key, n, Header \o aad, s)
    <3>1. SubSeq(c, 1, HeaderSize) = Header
      BY <1>3 DEF HasHeader
    <3>2. DecryptMessage(v, c, ds, aad) = DecryptWithHeader(v, c, ds, aad)
      BY <1>1, <1>2, <1>3 DEF DecryptMessage
    <3>3. DecryptWithHeader(v, c, ds, aad) = GcmDecrypt(key, n, SubSeq(c, 1, i) \o aad, s)
      BY DEF DecryptWithHeader
    <3> QED
      BY <3>1, <3>2, <3>3
  <2> HIDE DEF i, j, key
  <2>3. s \in Seq(MessageByte) /\ Len(s) = Len(c) - j
    BY <2>1, RestFacts
  <2>4. c = SubSeq(c, 1, i) \o n \o s
    BY <2>1, PartsJoin
  <2> HIDE DEF n, s
  <2>5. \E m \in Plaintext :
            /\ n \in Nonce /\ s = GcmEncrypt(key, n, Header \o aad, m)
            /\ Len(s) = Len(m) + TagSize
            /\ GcmDecrypt(key, n, Header \o aad, s) = Ok(m)
    BY <2>1, <2>2, <2>3, OpenedWasSealed
  <2> QED
    BY <2>2, <2>4, <2>5 DEF EncryptMessage, key
<1>4. CASE ~ HasHeader(c)
  <2> DEFINE n == SubSeq(c, 1, NonceSize)
             s == SubSeq(c, NonceSize + 1, Len(c))
             key == LegacyKey(v, ds)
  <2>1. aad = <<>> /\ DecryptMessage(v, c, ds, aad) = GcmDecrypt(key, n, <<>>, s)
    BY <1>1, <1>2, <1>4, OkFacts DEF DecryptMessage, DecryptLegacy
  <2>2. NonceSize <= Len(c)
    BY <1>1, <1>2
  <2>3. s \in Seq(MessageByte) /\ Len(s) = Len(c) - NonceSize
    BY <1>1, <2>2, RestFacts
  <2>4. c = n \o s
    BY <1>1, <2>2, TwoPartsJoin
  <2>5. Len(s) >= HeaderSize + TagSize
    BY <1>1, <1>2, <2>3
  <2> HIDE DEF n, s, key
  <2>6. PICK m \in Plaintext :
            /\ n \in Nonce /\ s = GcmEncrypt(key, n, <<>>, m)
            /\ Len(s) = Len(m) + TagSize
            /\ GcmDecrypt(key, n, <<>>, s) = Ok(m)
    <3>1. Len(s) >= TagSize
      BY <1>1, <2>3, <2>5
    <3> QED
      BY <2>1, <2>3, <3>1, OpenedWasSealed
  <2>7. Len(m) >= HeaderSize
    BY <1>1, <2>5, <2>6
  <2> QED
    BY <1>4, <2>1, <2>4, <2>6, <2>7 DEF LegacyEncryptMessage, key
<1> QED
  BY <1>3, <1>4

LEMMA WrittenBytes ==
  ASSUME NEW c \in Written
  PROVE  c \in Seq(MessageByte)
<1>1. Author \in Vetkey \cup {Author}
  OBVIOUS
<1>2. CASE \E m \in Plaintext, ds \in DomainSep, aad \in AssociatedData, n \in Nonce :
             c = EncryptMessage(Author, m, ds, aad, n)
  BY <1>1, <1>2, OpensItsMessage
<1>3. CASE \E m \in Plaintext, ds \in DomainSep, n \in Nonce :
             c = LegacyEncryptMessage(Author, m, ds, n)
  BY <1>1, <1>3, OpensOldMessage
<1> QED
  BY <1>2, <1>3 DEF Written

(* Cutting and joining makes no byte that was not there.                   *)
LEMMA SplicedBytes ==
  ASSUME NEW c \in Spliced
  PROVE  c \in Seq(MessageByte)
<1> DEFINE joined(x, y, k, l) == SubSeq(x, 1, k) \o SubSeq(y, l, Len(y))
           all(x, y) == {joined(x, y, k, l) : k \in 0 .. Len(x), l \in 1 .. Len(y) + 1}
<1>1. Spliced = UNION {all(x, y) : x \in Written, y \in Written}
  BY DEF Spliced
<1> HIDE DEF all
<1>2. PICK a \in Written, b \in Written : c \in all(a, b)
  BY <1>1
<1> HIDE DEF joined
<1>3. PICK i \in 0 .. Len(a), j \in 1 .. Len(b) + 1 : c = joined(a, b, i, j)
  BY <1>2 DEF all
<1>4. a \in Seq(MessageByte) /\ b \in Seq(MessageByte)
  BY WrittenBytes
<1>5. SubSeq(a, 0 + 1, i) \in Seq(MessageByte)
  <2>1. i \in Nat /\ 0 <= i /\ i <= Len(a)
    BY <1>4, LenProperties
  <2> QED
    BY <1>4, <2>1, PartFacts
<1>6. SubSeq(b, (j - 1) + 1, Len(b)) \in Seq(MessageByte)
  <2> DEFINE k == j - 1
  <2>1. k \in Nat /\ k <= Len(b)
    BY <1>4, LenProperties
  <2> HIDE DEF k
  <2>2. SubSeq(b, k + 1, Len(b)) \in Seq(MessageByte)
    BY <1>4, <2>1, RestFacts
  <2> QED
    BY <2>2 DEF k
<1>7. (j - 1) + 1 = j
  <2>1. j \in Int
    BY <1>4, LenProperties
  <2> QED
    BY <2>1
<1>8. SubSeq(a, 1, i) \in Seq(MessageByte) /\ SubSeq(b, j, Len(b)) \in Seq(MessageByte)
  BY <1>5, <1>6, <1>7
<1> QED
  BY <1>3, <1>8, ConcatProperties DEF joined

(* A message opens to its plaintext for its key, separator and data, and   *)
(* whatever is cut and joined from messages opens in no other way.         *)
THEOREM MessagesAreSealed == Spec => []MessagesOpenAsSealed
<1>1. Init => MessagesOpenAsSealed
  BY DEF Init, NoCall, MessagesOpenAsSealed
<1>2. MessagesOpenAsSealed /\ [Next]_vars => MessagesOpenAsSealed'
  <2>1. CASE UNCHANGED vars
    BY <2>1 DEF vars, MessagesOpenAsSealed, Said
  <2>2. ASSUME Next, call'.fn = "decrypt_message" PROVE MessagesOpenAsSealed'
    <3>1. CallDecryptMessage
      BY <2>2, FnOfCall
    <3>2. PICK v \in Vetkey, c \in Spliced, ds \in DomainSep, aad \in AssociatedData :
             Called([fn |-> "decrypt_message", vetkey |-> v, ctext |-> c, domainSep |-> ds,
                     aad |-> aad],
                    DecryptMessage(v, c, ds, aad))
      BY <3>1 DEF CallDecryptMessage
    <3> DEFINE said == Said(call')
               opens(m) == DecryptMessage(v, c, ds, aad) = Ok(m)
    <3>3. /\ call'.vetkey = v /\ call'.ctext = c /\ call'.domainSep = ds /\ call'.aad = aad
          /\ result' = DecryptMessage(v, c, ds, aad)
      BY <3>2 DEF Called
    <3>4. c \in Seq(MessageByte) /\ v \in Vetkey \cup {Author}
      BY SplicedBytes
    <3>5. said = {m \in Plaintext : \E n \in Nonce :
                    \/ c = EncryptMessage(v, m, ds, aad, n)
                    \/ /\ c = LegacyEncryptMessage(v, m, ds, n)
                       /\ aad = <<>> /\ ~ HasHeader(c) /\ Len(m) >= HeaderSize}
      BY <3>3 DEF Said
    <3>6. \A m \in said : m \in Plaintext /\ opens(m)
      BY <3>4, <3>5, OpensItsMessage, OpensOldMessage
    <3>7. IsOk(result') => \E m \in said : opens(m)
      BY <3>3, <3>4, <3>5, OpensNothingElse
    <3> HIDE DEF said
    <3>8. ASSUME IsOk(result') PROVE said = {result'.value}
      <4>1. PICK m \in said : opens(m)
        BY <3>7, <3>8
      <4>2. \A m_2 \in said : m_2 = m
        BY <3>6, <4>1, OkFacts
      <4> QED
        BY <3>3, <4>1, <4>2, OkFacts
    <3>9. ASSUME ~ IsOk(result') PROVE said = {}
      BY <3>3, <3>6, <3>9, OkFacts
    <3> QED
      BY <3>8, <3>9 DEF MessagesOpenAsSealed, said
  <2>3. ASSUME Next, call'.fn # "decrypt_message" PROVE MessagesOpenAsSealed'
    BY <2>3 DEF MessagesOpenAsSealed
  <2> QED
    BY <2>1, <2>2, <2>3
<1> QED
  BY <1>1, <1>2, PTL DEF Spec

-----------------------------------------------------------------------------
(* The table.  What holds of each number is shown of the least one that it *)
(* would not hold of.                                                      *)

LEMMA LeastNat ==
  ASSUME NEW T, T \subseteq Nat, T # {}
  PROVE  \E n \in T : \A m \in T : n <= m
<1> DEFINE R == {ss \in Nat \X Nat : ss[1] < ss[2]}
<1>1. IsWellFoundedOn(R, Nat)
  BY NatLessThanWellFounded DEF OpToRel
<1>2. \E x \in T : \A y \in T : ~ (<<y, x>> \in R)
  <2> HIDE DEF R
  <2> QED BY <1>1, WFMin
<1>3. PICK n \in T : \A y \in T : ~ (<<y, n>> \in R)
  BY <1>2
<1>4. \A m \in T : ~ (m < n)
  BY <1>3
<1> QED
  BY <1>4

-----------------------------------------------------------------------------
(* Quotients, and powers of two.                                           *)

LEMMA DivUnique ==
  ASSUME NEW n \in Nat \ {0}, NEW x \in Int, NEW q \in Int, NEW r \in 0 .. n - 1,
         x = n * q + r
  PROVE  x \div n = q
<1> DEFINE s == x % n
           p == x \div n
<1>1. s \in 0 .. n - 1 /\ p \in Int /\ x = n * p + s
  BY ModFacts
<1>2. s = r
  BY ModUnique
<1> HIDE DEF s, p
<1>3. n * (p - q) = 0
  BY <1>1, <1>2
<1>4. p - q = 0
  BY <1>1, <1>3, NoMultiple
<1>5. p = q
  BY <1>1, <1>4
<1> QED
  BY <1>5 DEF p

(* Division by a product is division by its factors.                       *)
DividesBoth(x, a, b, n) ==
    /\ n \in Nat \ {0}
    /\ x \div n = (x \div a) \div b
    /\ x % n = (x % a) + a * ((x \div a) % b)
    /\ (x % n) \div a = (x \div a) % b
    /\ (x % n) % a = x % a

LEMMA DivModProduct ==
  ASSUME NEW x \in Nat, NEW a \in Nat \ {0}, NEW b \in Nat \ {0}, NEW n, n = a * b
  PROVE  DividesBoth(x, a, b, n)
<1> DEFINE r == x % a
           q == x \div a
           t == q % b
           s == q \div b
           y == r + a * t
<1>1. r \in 0 .. a - 1 /\ q \in Int /\ x = a * q + r
  BY ModFacts
<1>2. t \in 0 .. b - 1 /\ s \in Int /\ q = b * s + t
  <2> HIDE DEF q
  <2> QED
    BY <1>1, ModFacts
<1>3. n \in Nat \ {0}
  OBVIOUS
<1> HIDE DEF r, q, t, s
<1>4. x = n * s + y
  <2>1. a * q = a * (b * s) + a * t
    BY <1>1, <1>2
  <2>2. a * (b * s) = n * s
    BY <1>2
  <2> QED
    BY <1>1, <1>2, <1>3, <2>1, <2>2
<1>5. y \in 0 .. n - 1
  <2>1. a * t <= a * (b - 1) /\ 0 <= a * t /\ a * t \in Int
    BY <1>2
  <2>2. a * (b - 1) = n - a
    OBVIOUS
  <2> QED
    BY <1>1, <1>3, <2>1, <2>2
<1>6. x % n = y /\ x \div n = s
  <2> HIDE DEF y
  <2> QED
    BY <1>2, <1>3, <1>4, <1>5, ModUnique, DivUnique
<1>7. y % a = r /\ y \div a = t
  <2>1. y = a * t + r /\ y \in Int
    BY <1>1, <1>2
  <2> HIDE DEF y
  <2> QED
    BY <1>1, <1>2, <2>1, ModUnique, DivUnique
<1> QED
  BY <1>3, <1>6, <1>7 DEF s, r, t, q, DividesBoth

Two(k) == 2 ^ k

(* What the definition of ^ says, which the provers do not know.           *)
PowersMultiply == \A b \in {2, 256}, k \in Nat : b ^ (k + 1) = b * b ^ k

LEMMA TwoFacts ==
  ASSUME PowersMultiply
  PROVE  /\ Two(0) = 1 /\ \A k \in Nat : Two(k + 1) = 2 * Two(k)
         /\ 256 ^ 0 = 1 /\ \A k \in Nat : 256 ^ (k + 1) = 256 * 256 ^ k
  BY DEF PowersMultiply, Two

LEMMA TwoIsNat ==
  ASSUME PowersMultiply, NEW k \in Nat
  PROVE  Two(k) \in Nat \ {0}
<1> DEFINE T == {i \in Nat : Two(i) \notin Nat \ {0}}
<1>1. SUFFICES ASSUME T # {} PROVE FALSE
  OBVIOUS
<1>2. PICK n \in T : \A i \in T : n <= i
  <2>1. T \subseteq Nat
    OBVIOUS
  <2> HIDE DEF T
  <2> QED
    BY <1>1, <2>1, LeastNat
<1>3. CASE n = 0
  BY <1>3, TwoFacts
<1>4. CASE n # 0
  <2>1. n - 1 \in Nat /\ ~ (n <= n - 1)
    BY <1>4
  <2>2. Two(n - 1) \in Nat \ {0}
    BY <1>2, <2>1
  <2>3. Two((n - 1) + 1) = 2 * Two(n - 1)
    BY <2>1, TwoFacts
  <2>4. (n - 1) + 1 = n
    BY <2>1
  <2>5. Two(n) \in Nat \ {0}
    BY <2>2, <2>3, <2>4
  <2> QED
    BY <2>5
<1> QED
  BY <1>3, <1>4

LEMMA TwoSum ==
  ASSUME PowersMultiply, NEW j \in Nat, NEW k \in Nat
  PROVE  Two(j + k) = Two(j) * Two(k)
<1> DEFINE T == {i \in Nat : Two(j + i) # Two(j) * Two(i)}
<1>1. SUFFICES ASSUME T # {} PROVE FALSE
  OBVIOUS
<1>2. PICK n \in T : \A i \in T : n <= i
  <2>1. T \subseteq Nat
    OBVIOUS
  <2> HIDE DEF T
  <2> QED
    BY <1>1, <2>1, LeastNat
<1>3. CASE n = 0
  <2>1. Two(j) \in Nat
    BY TwoIsNat
  <2> QED
    BY <1>3, <2>1, TwoFacts
<1>4. CASE n # 0
  <2>1. n \in Nat /\ n - 1 \in Nat /\ ~ (n <= n - 1)
    BY <1>4
  <2> DEFINE m == n - 1
  <2>2. Two(j + m) = Two(j) * Two(m)
    BY <1>2, <2>1
  <2> HIDE DEF T
  <2>3. m \in Nat /\ m + 1 = n /\ j + m \in Nat /\ (j + m) + 1 = j + n
    BY <2>1
  <2> HIDE DEF m
  <2>4. Two(m + 1) = 2 * Two(m) /\ Two((j + m) + 1) = 2 * Two(j + m)
    BY <2>3, TwoFacts
  <2>5. Two(j) \in Nat /\ Two(m) \in Nat
    BY <2>3, TwoIsNat
  <2>6. Two(j + n) = Two(j) * Two(n)
    BY <2>2, <2>3, <2>4, <2>5
  <2> QED
    BY <2>6 DEF T
<1> QED
  BY <1>3, <1>4

LEMMA TwoGrows ==
  ASSUME PowersMultiply, NEW j \in Nat, NEW k \in Nat, j <= k
  PROVE  Two(j) <= Two(k)
<1> DEFINE i == k - j
<1>1. i \in Nat /\ k = j + i
  OBVIOUS
<1> HIDE DEF i
<1>2. Two(k) = Two(j) * Two(i) /\ Two(i) \in Nat \ {0} /\ Two(j) \in Nat
  BY <1>1, TwoSum, TwoIsNat
<1> QED
  BY <1>2

LEMMA SmallPowers ==
  ASSUME PowersMultiply
  PROVE  /\ Two(1) = 2 /\ Two(2) = 4 /\ Two(3) = 8 /\ Two(4) = 16
         /\ Two(5) = 32 /\ Two(6) = 64 /\ Two(7) = 128 /\ Two(8) = 256
  BY DEF Two

(* A byte is eight bits.                                                   *)
LEMMA BytePowers ==
  ASSUME PowersMultiply, NEW k \in Nat
  PROVE  256 ^ k = Two(8 * k)
<1> DEFINE T == {i \in Nat : 256 ^ i # Two(8 * i)}
<1>1. SUFFICES ASSUME T # {} PROVE FALSE
  OBVIOUS
<1>2. PICK n \in T : \A i \in T : n <= i
  <2>1. T \subseteq Nat
    OBVIOUS
  <2> HIDE DEF T
  <2> QED
    BY <1>1, <2>1, LeastNat
<1>3. CASE n = 0
  BY <1>3, TwoFacts
<1>4. CASE n # 0
  <2> DEFINE m == n - 1
  <2>1. m \in Nat /\ ~ (n <= m)
    BY <1>4
  <2>2. 256 ^ m = Two(8 * m)
    BY <1>2, <2>1
  <2>3. m + 1 = n /\ 8 * m \in Nat /\ 8 * m + 8 = 8 * n
    BY <2>1
  <2> HIDE DEF m, T
  <2>4. 256 ^ (m + 1) = 256 * 256 ^ m
    BY <2>1, TwoFacts
  <2>5. Two(8 * m + 8) = Two(8 * m) * Two(8)
    BY <2>3, TwoSum
  <2>6. Two(8) = 256 /\ Two(8 * m) \in Nat
    BY <2>3, SmallPowers, TwoIsNat
  <2>7. 256 ^ n = Two(8 * n)
    BY <2>2, <2>3, <2>4, <2>5, <2>6
  <2> QED
    BY <2>7 DEF T
<1> QED
  BY <1>3, <1>4

-----------------------------------------------------------------------------
(* The windows of a scalar.                                                *)

Width == 1 .. 7

LEMMA TableSizes ==
  ASSUME PowersMultiply
  PROVE  /\ SubgroupOrder \in Nat \ {0} /\ SubgroupBits \in Nat \ {0} /\ ScalarBytes \in Nat \ {0}
         /\ SubgroupOrder < Two(SubgroupBits) /\ SubgroupBits <= 8 * ScalarBytes
  BY TableAssumption DEF Two, BITS_IN_BYTE

LEMMA WidthFacts ==
  ASSUME PowersMultiply, NEW w \in Width
  PROVE  /\ w \in Nat \ {0} /\ Two(w) \in Nat \ {0} /\ Two(w) >= 2
         /\ Two(w - 1) \in Nat \ {0} /\ Two(w) = 2 * Two(w - 1)
<1>1. w - 1 \in Nat /\ (w - 1) + 1 = w
  BY DEF Width
<1>2. Two(w - 1) \in Nat \ {0} /\ Two((w - 1) + 1) = 2 * Two(w - 1)
  BY <1>1, TwoIsNat, TwoFacts
<1> QED
  BY <1>1, <1>2

(* Two bytes, the lower one shifted out and the upper one shifted in: the  *)
(* same bits as of the number they are bytes of.                           *)
InTwoBytes(y, S, U, P) ==
    (((y % 256) \div S) + ((((y \div 256) % 256) * U) % 256)) % P = (y \div S) % P

LEMMA BitsOfTwoBytes ==
  ASSUME NEW y \in Nat, NEW S \in Nat \ {0}, NEW U \in Nat \ {0}, S * U = 256,
         NEW P \in Nat \ {0}, NEW R \in Nat \ {0}, P * R = 256
  PROVE  InTwoBytes(y, S, U, P)
<1> DEFINE z == y \div 256
           u == y % 256
           k == z \div 256
           h == z % 256
           q == u \div S
           r == u % S
           p == (h * U) \div 256
           m == (h * U) % 256
<1>1. u \in 0 .. 255 /\ z \in Int /\ y = 256 * z + u
  BY ModFacts
<1>2. h \in 0 .. 255 /\ k \in Int /\ z = 256 * k + h
  <2> HIDE DEF z
  <2> QED
    BY <1>1, ModFacts
<1>3. r \in 0 .. S - 1 /\ q \in Int /\ u = S * q + r
  <2> HIDE DEF u
  <2> QED
    BY <1>1, ModFacts
<1>4. m \in 0 .. 255 /\ p \in Int /\ h * U = 256 * p + m
  <2> DEFINE a == h * U
  <2>1. a \in Int /\ 256 \in Nat \ {0}
    BY <1>2
  <2> HIDE DEF a
  <2>2. a % 256 \in 0 .. 256 - 1 /\ a \div 256 \in Int /\ a = 256 * (a \div 256) + (a % 256)
    BY <2>1, ModFacts
  <2> QED
    BY <2>2 DEF a
<1> HIDE DEF z, u, k, h, q, r, p, m
<1>5. y \div S = U * z + q
  <2> DEFINE a == U * z + q
  <2>1. a \in Int
    BY <1>1, <1>3
  <2>2. S * a = 256 * z + S * q
    <3>1. S * (U * z) = (S * U) * z
      BY <1>1
    <3> QED
      BY <1>1, <1>3, <3>1
  <2> HIDE DEF a
  <2>3. y = S * a + r
    BY <1>1, <1>3, <2>1, <2>2
  <2>4. y \div S = a
    BY <1>3, <2>1, <2>3, DivUnique
  <2> QED
    BY <2>4 DEF a
<1>6. q + m = (U * z + q) + P * (-(R * (p + U * k)))
  <2>1. U * z = U * (256 * k) + U * h
    BY <1>1, <1>2
  <2>2. U * (256 * k) = 256 * (U * k)
    BY <1>2
  <2>3. P * (-(R * (p + U * k))) = -(256 * (p + U * k))
    <3> DEFINE v == p + U * k
    <3>1. v \in Int
      BY <1>2, <1>4
    <3> HIDE DEF v
    <3>2. P * (R * v) = (P * R) * v
      BY <3>1
    <3>3. P * (-(R * v)) = -(P * (R * v))
      BY <3>1
    <3>4. P * (-(R * v)) = -(256 * v)
      BY <3>2, <3>3
    <3> QED
      BY <3>4 DEF v
  <2>4. U * h = h * U /\ U * h \in Int /\ U * k \in Int
    BY <1>2
  <2>5. 256 * (p + U * k) = 256 * p + 256 * (U * k)
    BY <1>4, <2>4
  <2> QED
    BY <1>1, <1>3, <1>4, <2>1, <2>2, <2>3, <2>4, <2>5
<1>7. (q + m) % P = (U * z + q) % P
  <2> DEFINE a == q + m
             b == U * z + q
             v == -(R * (p + U * k))
  <2>1. a \in Int /\ b \in Int /\ v \in Int /\ a = b + P * v
    BY <1>1, <1>2, <1>3, <1>4, <1>6
  <2> HIDE DEF a, b, v
  <2>2. a % P = b % P
    BY <2>1, ModShift
  <2> QED
    BY <2>2 DEF a, b
<1> QED
  BY <1>5, <1>7 DEF q, m, u, h, z, InTwoBytes

InOneByte(y, S, P) == ((y % 256) \div S) % P = (y \div S) % P

LEMMA BitsOfOneByte ==
  ASSUME NEW y \in Nat, NEW S \in Nat \ {0}, NEW P \in Nat \ {0}, NEW R \in Nat \ {0},
         S * (P * R) = 256
  PROVE  InOneByte(y, S, P)
<1> DEFINE n == P * R
           q == y \div S
<1>1. n \in Nat \ {0} /\ S * n = 256
  OBVIOUS
<1> HIDE DEF n
<1>2. (y % 256) \div S = q % n
  <2>1. 256 = S * n
    BY <1>1
  <2>2. DividesBoth(y, S, n, 256)
    BY <1>1, <2>1, DivModProduct
  <2> QED
    BY <2>2 DEF DividesBoth
<1>3. q \in Nat
  <2> DEFINE r == y % S
  <2>1. r \in 0 .. S - 1 /\ q \in Int /\ y = S * q + r
    BY ModFacts
  <2> HIDE DEF q, r
  <2>2. S * q > -S
    BY <2>1
  <2>3. ASSUME q <= -1 PROVE FALSE
    <3>1. S * q = -S - S * (-q - 1) /\ S * (-q - 1) >= 0
      BY <2>1, <2>3
    <3> QED
      BY <2>1, <2>2, <3>1
  <2> QED
    BY <2>1, <2>3
<1> HIDE DEF q
<1>4. (q % n) % P = q % P
  <2>1. n = P * R
    BY DEF n
  <2>2. DividesBoth(q, P, R, n)
    BY <1>3, <2>1, DivModProduct
  <2> QED
    BY <2>2 DEF DividesBoth
<1> QED
  BY <1>2, <1>4 DEF q, InOneByte

LEMMA TwoBytesAreBits ==
  ASSUME PowersMultiply, NEW w \in Width, NEW t \in 0 .. 7
  PROVE  /\ Two(t) \in Nat \ {0} /\ Two(8 - t) \in Nat \ {0} /\ Two(t) * Two(8 - t) = 256
         /\ Two(8 - w) \in Nat \ {0} /\ Two(w) * Two(8 - w) = 256
<1>1. t \in Nat /\ 8 - t \in Nat /\ t + (8 - t) = 8
  OBVIOUS
<1>2. w \in Nat /\ 8 - w \in Nat /\ w + (8 - w) = 8
  BY DEF Width
<1>3. Two(8) = 256
  BY SmallPowers
<1>4. Two(t) * Two(8 - t) = 256
  BY <1>1, <1>3, TwoSum
<1>5. Two(w) * Two(8 - w) = 256
  BY <1>2, <1>3, TwoSum
<1> QED
  BY <1>1, <1>2, <1>4, <1>5, TwoIsNat

LEMMA OneByteIsBits ==
  ASSUME PowersMultiply, NEW w \in Width, NEW t \in 0 .. 7, t <= 8 - w
  PROVE  /\ Two(8 - w - t) \in Nat \ {0}
         /\ Two(t) * (Two(w) * Two(8 - w - t)) = 256
<1> DEFINE k == 8 - w - t
<1>1. t \in Nat /\ w \in Nat /\ k \in Nat /\ w + k = 8 - t /\ 8 - t \in Nat
  BY DEF Width
<1> HIDE DEF k
<1>2. Two(w) * Two(k) = Two(8 - t) /\ Two(k) \in Nat \ {0}
  BY <1>1, TwoSum, TwoIsNat
<1>3. Two(t) * Two(8 - t) = 256
  BY TwoBytesAreBits
<1> QED
  BY <1>2, <1>3 DEF k

LEMMA QuotientIsNat ==
  ASSUME NEW y \in Nat, NEW S \in Nat \ {0}
  PROVE  y \div S \in Nat
<1> DEFINE q == y \div S
           r == y % S
<1>1. r \in 0 .. S - 1 /\ q \in Int /\ y = S * q + r
  BY ModFacts
<1> HIDE DEF q, r
<1>2. S * q > -S
  BY <1>1
<1>3. ASSUME q <= -1 PROVE FALSE
  <2>1. S * q = -S - S * (-q - 1) /\ S * (-q - 1) >= 0
    BY <1>1, <1>3
  <2> QED
    BY <1>1, <1>2, <2>1
<1>4. q \in Nat
  BY <1>1, <1>3
<1> QED
  BY <1>4 DEF q

LEMMA SmallQuotient ==
  ASSUME NEW x \in Nat, NEW A \in Nat \ {0}, NEW n \in Nat \ {0}, x < A * n
  PROVE  x \div A \in 0 .. n - 1
<1> DEFINE q == x \div A
           r == x % A
<1>1. r \in 0 .. A - 1 /\ q \in Int /\ x = A * q + r
  BY ModFacts
<1>2. q \in Nat
  BY QuotientIsNat
<1> HIDE DEF q, r
<1>3. ASSUME q >= n PROVE FALSE
  <2>1. A * q >= A * n
    BY <1>2, <1>3
  <2> QED
    BY <1>1, <2>1
<1>4. q \in 0 .. n - 1
  BY <1>2, <1>3
<1> QED
  BY <1>4 DEF q

LEMMA BytesOfScalar ==
  ASSUME NEW x \in Nat, NEW k \in 1 .. ScalarBytes
  PROVE  /\ Len(ScalarToBytes(x)) = ScalarBytes
         /\ ScalarToBytes(x)[k] = (x \div 256 ^ (ScalarBytes - k)) % 256
  BY TableAssumption DEF ScalarToBytes

(* A byte of a scalar and the one above it, of the number that the scalar  *)
(* is without the bytes below them.                                        *)
BytesAt(x, q, y) ==
    /\ y \in Nat
    /\ ScalarToBytes(x)[ScalarBytes - q] = y % 256
    /\ q + 1 < ScalarBytes => ScalarToBytes(x)[ScalarBytes - q - 1] = (y \div 256) % 256
    /\ q + 1 = ScalarBytes => y \in 0 .. 255

LEMMA BytesAtOffset ==
  ASSUME PowersMultiply, NEW x \in Nat, x < Two(SubgroupBits), NEW q \in 0 .. ScalarBytes - 1
  PROVE  /\ 256 ^ q \in Nat \ {0}
         /\ BytesAt(x, q, x \div 256 ^ q)
<1> DEFINE A == 256 ^ q
           y == x \div A
<1>1. ScalarBytes \in Nat /\ SubgroupBits \in Nat /\ q \in Nat /\ SubgroupBits <= 8 * ScalarBytes
  BY TableSizes
<1>2. A \in Nat \ {0}
  <2>1. A = Two(8 * q) /\ 8 * q \in Nat
    BY <1>1, BytePowers
  <2> QED
    BY <2>1, TwoIsNat
<1>3. 256 ^ (q + 1) = A * 256
  <2>1. 256 ^ (q + 1) = 256 * A
    BY <1>1, TwoFacts
  <2> HIDE DEF A
  <2> QED
    BY <1>2, <2>1
<1>4. y \in Nat
  <2> HIDE DEF A
  <2> QED
    BY <1>2, QuotientIsNat
<1>5. ScalarToBytes(x)[ScalarBytes - q] = y % 256
  <2> DEFINE k == ScalarBytes - q
  <2>1. k \in 1 .. ScalarBytes /\ ScalarBytes - k = q
    BY <1>1
  <2> HIDE DEF k
  <2>2. ScalarToBytes(x)[k] = (x \div 256 ^ (ScalarBytes - k)) % 256
    BY <2>1, BytesOfScalar
  <2>3. ScalarToBytes(x)[k] = (x \div 256 ^ q) % 256
    BY <2>1, <2>2
  <2> QED
    BY <2>3 DEF k
<1>6. ASSUME q + 1 < ScalarBytes
      PROVE  ScalarToBytes(x)[ScalarBytes - q - 1] = (y \div 256) % 256
  <2> DEFINE k == ScalarBytes - q - 1
  <2>1. k \in 1 .. ScalarBytes /\ ScalarBytes - k = q + 1
    BY <1>1, <1>6
  <2> HIDE DEF k
  <2>2. ScalarToBytes(x)[k] = (x \div 256 ^ (ScalarBytes - k)) % 256
    BY <2>1, BytesOfScalar
  <2>3. ScalarToBytes(x)[k] = (x \div (A * 256)) % 256
    BY <1>3, <2>1, <2>2
  <2>4. x \div (A * 256) = y \div 256
    <3> DEFINE n == A * 256
    <3>1. 256 \in Nat \ {0}
      OBVIOUS
    <3> HIDE DEF A
    <3>2. n = A * 256
      OBVIOUS
    <3> HIDE DEF n
    <3>3. DividesBoth(x, A, 256, n)
      BY <1>2, <3>1, <3>2, DivModProduct
    <3> QED
      BY <3>2, <3>3 DEF DividesBoth
  <2> QED
    BY <2>3, <2>4 DEF k
<1>7. ASSUME q + 1 = ScalarBytes
      PROVE  y \in 0 .. 255
  <2>1. x < A * 256
    <3>1. 8 * ScalarBytes \in Nat /\ Two(SubgroupBits) <= Two(8 * ScalarBytes)
      BY <1>1, TwoGrows
    <3>2. Two(8 * ScalarBytes) = 256 ^ ScalarBytes
      BY <1>1, BytePowers
    <3>3. 256 ^ ScalarBytes = A * 256
      BY <1>3, <1>7
    <3>4. Two(SubgroupBits) \in Nat /\ A * 256 \in Nat /\ Two(SubgroupBits) <= A * 256
      <4>1. Two(SubgroupBits) \in Nat
        BY <1>1, TwoIsNat
      <4> HIDE DEF A
      <4>2. A * 256 \in Nat
        BY <1>2
      <4> QED
        BY <4>1, <4>2, <3>1, <3>2, <3>3
    <3> HIDE DEF A
    <3> QED
      BY <3>4
  <2>2. y \in 0 .. 256 - 1
    <3> HIDE DEF A
    <3>1. 256 \in Nat \ {0}
      OBVIOUS
    <3> QED
      BY <1>2, <2>1, <3>1, SmallQuotient
  <2> QED
    BY <2>2
<1> QED
  BY <1>2, <1>4, <1>5, <1>6, <1>7 DEF BytesAt

LEMMA WindowBits ==
  ASSUME PowersMultiply, NEW w \in Width, NEW x \in Nat, x < Two(SubgroupBits),
         NEW o \in Nat, o < SubgroupBits
  PROVE  GetWindow(ScalarToBytes(x), o, w) = (x \div Two(o)) % Two(w)
<1> DEFINE q == o \div 8
           t == o % 8
           s == ScalarToBytes(x)
           A == 256 ^ q
           y == x \div A
           S == Two(t)
           P == Two(w)
<1>1. /\ ScalarBytes \in Nat /\ SubgroupBits \in Nat /\ SubgroupBits <= 8 * ScalarBytes
      /\ Len(s) = ScalarBytes
  BY TableSizes, BytesOfScalar
<1>2. t \in 0 .. 7 /\ q \in 0 .. ScalarBytes - 1 /\ o = 8 * q + t
  <2>1. t \in 0 .. 7 /\ q \in Int /\ o = 8 * q + t
    BY ModFacts
  <2> HIDE DEF q, t
  <2> QED
    BY <1>1, <2>1
<1> HIDE DEF q, t
<1>3. A \in Nat \ {0} /\ BytesAt(x, q, y)
  BY <1>2, BytesAtOffset
<1>4. S \in Nat \ {0} /\ P \in Nat \ {0}
  BY <1>2, TwoBytesAreBits, WidthFacts
<1>5. x \div Two(o) = y \div S
  <2>1. Two(o) = A * S
    <3>1. 8 * q \in Nat /\ q \in Nat /\ t \in Nat /\ o = 8 * q + t
      BY <1>2
    <3> QED
      BY <3>1, TwoSum, BytePowers
  <2> DEFINE n == Two(o)
  <2>2. n = A * S
    BY <2>1
  <2> HIDE DEF n, A, S
  <2>3. DividesBoth(x, A, S, n)
    BY <1>3, <1>4, <2>2, DivModProduct
  <2> QED
    BY <2>3 DEF DividesBoth, n
<1> DEFINE U == Two(8 - t)
           low == (y % 256) \div S
           high == (((y \div 256) % 256) * U) % 256
<1>6. GetWindow(s, o, w) = IF t <= 8 - w \/ q + 1 = ScalarBytes THEN low % P ELSE (low + high) % P
  <2> DEFINE b == ScalarBytes - 1 - q
  <2>1. GetWindow(s, o, w) =
          (IF t <= 8 - w \/ b = 0 THEN s[b + 1] \div 2 ^ t
           ELSE (s[b + 1] \div 2 ^ t) + ((s[b] * 2 ^ (8 - t)) % 256)) % 2 ^ w
    <3> HIDE DEF s
    <3> QED
      BY <1>1 DEF GetWindow, BITS_IN_BYTE, q, t
  <2>2. b + 1 = ScalarBytes - q /\ b = ScalarBytes - q - 1 /\ (b = 0 <=> q + 1 = ScalarBytes)
        /\ (b # 0 => q + 1 < ScalarBytes)
    BY <1>1, <1>2
  <2>3. s[b + 1] = y % 256 /\ (b # 0 => s[b] = (y \div 256) % 256)
    <3> HIDE DEF y, s, b
    <3>1. /\ s[ScalarBytes - q] = y % 256
          /\ q + 1 < ScalarBytes => s[ScalarBytes - q - 1] = (y \div 256) % 256
      BY <1>3 DEF BytesAt, s
    <3> QED
      BY <2>2, <3>1
  <2> HIDE DEF b, y, s
  <2>4. CASE t <= 8 - w \/ b = 0
    BY <2>1, <2>2, <2>3, <2>4 DEF Two
  <2>5. CASE ~ (t <= 8 - w \/ b = 0)
    BY <2>1, <2>2, <2>3, <2>5 DEF Two
  <2> QED
    BY <2>4, <2>5
<1>7. y \in Nat /\ (q + 1 = ScalarBytes => y \in 0 .. 255)
  BY <1>3 DEF BytesAt
<1> HIDE DEF y, s
<1>8. CASE t <= 8 - w
  <2> DEFINE R == Two(8 - w - t)
  <2>1. R \in Nat \ {0} /\ S * (P * R) = 256
    BY <1>2, <1>8, OneByteIsBits
  <2> HIDE DEF R, S, P
  <2>2. InOneByte(y, S, P)
    BY <1>4, <1>7, <2>1, BitsOfOneByte
  <2> QED
    BY <1>5, <1>6, <1>8, <2>2 DEF P, s, InOneByte
<1>9. CASE q + 1 = ScalarBytes
  <2>1. y % 256 = y
    BY <1>7, <1>9
  <2> QED
    BY <1>5, <1>6, <1>9, <2>1 DEF s
<1>10. CASE ~ (t <= 8 - w) /\ q + 1 # ScalarBytes
  <2> DEFINE R == Two(8 - w)
  <2>1. R \in Nat \ {0} /\ P * R = 256 /\ U \in Nat \ {0} /\ S * U = 256
    BY <1>2, TwoBytesAreBits
  <2> HIDE DEF R, S, P, U
  <2>2. InTwoBytes(y, S, U, P)
    BY <1>4, <1>7, <2>1, BitsOfTwoBytes
  <2> QED
    BY <1>5, <1>6, <1>10, <2>2 DEF P, s, InTwoBytes
<1> QED
  BY <1>8, <1>9, <1>10

-----------------------------------------------------------------------------
(* The table: entry j of row i is the point times (j + 1) * 2^(w * i).     *)

TablePoint == 0 .. SubgroupOrder - 1
Multiple(k, p) == (k * p) % SubgroupOrder

LEMMA MultiplesAdd ==
  ASSUME PowersMultiply, NEW p \in Int, NEW j \in Int, NEW k \in Int
  PROVE  /\ Multiple(j, p) \in TablePoint
         /\ Add(Multiple(j, p), Multiple(k, p)) = Multiple(j + k, p)
         /\ Multiple(j, Multiple(k, p)) = Multiple(j * k, p)
         /\ Double(Multiple(j, p)) = Multiple(2 * j, p)
<1>1. SubgroupOrder \in Nat \ {0}
  BY TableSizes
<1>2. \A i \in Int : i * p \in Int /\ Multiple(i, p) \in TablePoint /\ Multiple(i, p) \in Int
  BY <1>1, ModFacts DEF Multiple, TablePoint
<1>3. \A i, l \in Int : Add(Multiple(i, p), Multiple(l, p)) = Multiple(i + l, p)
  <2> SUFFICES ASSUME NEW i \in Int, NEW l \in Int
               PROVE  Add(Multiple(i, p), Multiple(l, p)) = Multiple(i + l, p)
    OBVIOUS
  <2> DEFINE a == i * p
             b == l * p
             c == b % SubgroupOrder
  <2>1. a \in Int /\ b \in Int /\ c \in Int /\ (i + l) * p = a + b
    BY <1>2 DEF Multiple
  <2>2. Add(Multiple(i, p), Multiple(l, p)) = ((a % SubgroupOrder) + c) % SubgroupOrder
    BY DEF Add, Multiple
  <2>3. Multiple(i + l, p) = (a + b) % SubgroupOrder
    BY <2>1 DEF Multiple
  <2>4. ((a % SubgroupOrder) + c) % SubgroupOrder = (a + c) % SubgroupOrder
    <3> HIDE DEF a, c
    <3> QED
      BY <1>1, <2>1, SumMod
  <2>5. ((b % SubgroupOrder) + a) % SubgroupOrder = (b + a) % SubgroupOrder
    <3> HIDE DEF a, b
    <3> QED
      BY <1>1, <2>1, SumMod
  <2>6. a + c = (b % SubgroupOrder) + a /\ b + a = a + b
    <3> HIDE DEF a, b
    <3> QED
      BY <2>1
  <2> HIDE DEF a, b, c
  <2> QED
    BY <2>2, <2>3, <2>4, <2>5, <2>6
<1>4. Multiple(j, Multiple(k, p)) = Multiple(j * k, p)
  <2> DEFINE a == k * p
             b == a % SubgroupOrder
  <2>1. a \in Int /\ b \in Int /\ (j * k) * p = a * j
    BY <1>2 DEF Multiple
  <2> HIDE DEF a
  <2>2. j * b = b * j
    BY <2>1
  <2>3. (b * j) % SubgroupOrder = (a * j) % SubgroupOrder
    BY <1>1, <2>1, ProductMod
  <2> QED
    BY <2>1, <2>2, <2>3 DEF Multiple, a
<1>5. Double(Multiple(j, p)) = Multiple(2 * j, p)
  <2>1. j + j = 2 * j
    OBVIOUS
  <2> QED
    BY <1>3, <2>1 DEF Double
<1> QED
  BY <1>2, <1>3, <1>4, <1>5

LEMMA MultipleOfOne ==
  ASSUME PowersMultiply, NEW p \in TablePoint
  PROVE  Multiple(1, p) = p /\ p \in Int /\ Multiple(0, p) = 0
<1>1. SubgroupOrder \in Nat \ {0}
  BY TableSizes
<1>2. p \in Int /\ p \in 0 .. SubgroupOrder - 1 /\ 1 * p = SubgroupOrder * 0 + p
  BY <1>1 DEF TablePoint
<1>3. 0 \in 0 .. SubgroupOrder - 1 /\ 0 * p = SubgroupOrder * 0 + 0
  BY <1>1, <1>2
<1>4. \A x \in Int, r \in 0 .. SubgroupOrder - 1 : x = SubgroupOrder * 0 + r => x % SubgroupOrder = r
  BY <1>1, ModUnique
<1>5. 1 * p \in Int /\ 0 * p \in Int
  BY <1>2
<1> QED
  BY <1>2, <1>3, <1>4, <1>5 DEF Multiple

RowIndex(w) == 0 .. WindowElements(w) - 1

LEMMA RowIndexFacts ==
  ASSUME PowersMultiply, NEW w \in Width
  PROVE  /\ WindowElements(w) = Two(w) - 1 /\ WindowElements(w) \in Nat \ {0}
         /\ 0 \in RowIndex(w)
         /\ WindowElements(w) \div 2 = Two(w - 1) - 1
         /\ WindowElements(w) \div 2 \in RowIndex(w)
         /\ \A j \in RowIndex(w) \ {0} :
              /\ j % 2 = 1 => j \div 2 \in RowIndex(w) /\ j \div 2 < j /\ j + 1 = 2 * ((j \div 2) + 1)
              /\ j - 1 \in RowIndex(w)
<1>1. WindowElements(w) = Two(w) - 1
  BY DEF WindowElements, Two
<1>2. Two(w - 1) \in Nat \ {0} /\ Two(w) = 2 * Two(w - 1)
  BY WidthFacts
<1>3. WindowElements(w) \div 2 = Two(w - 1) - 1
  <2> DEFINE n == WindowElements(w)
             h == Two(w - 1)
  <2>1. n = 2 * h - 1 /\ h \in Nat \ {0}
    BY <1>1, <1>2
  <2> HIDE DEF n, h
  <2>2. n \div 2 = h - 1
    BY <2>1
  <2> QED
    BY <2>2 DEF n, h
<1>4. \A j \in Nat \ {0} : j % 2 = 1 => j \div 2 \in Nat /\ j \div 2 < j /\ j + 1 = 2 * ((j \div 2) + 1)
  OBVIOUS
<1> QED
  BY <1>1, <1>2, <1>3, <1>4 DEF RowIndex

(* What the definition of a row says of a function.                        *)
IsRow(r, first, w) ==
    r = [j \in RowIndex(w) |->
            IF j = 0 THEN first
            ELSE IF j % 2 = 1 THEN Double(r[j \div 2]) ELSE Add(r[j - 1], r[0])]

RowOf(first, w) == [j \in RowIndex(w) |-> Multiple(j + 1, first)]

LEMMA RowExists ==
  ASSUME PowersMultiply, NEW w \in Width, NEW first \in TablePoint
  PROVE  IsRow(RowOf(first, w), first, w)
<1> DEFINE r == RowOf(first, w)
<1> SUFFICES ASSUME NEW j \in RowIndex(w)
             PROVE  r[j] = IF j = 0 THEN first
                           ELSE IF j % 2 = 1 THEN Double(r[j \div 2]) ELSE Add(r[j - 1], r[0])
  BY DEF IsRow, RowOf
<1>1. \A i \in RowIndex(w) : r[i] = Multiple(i + 1, first)
  BY DEF RowOf
<1> HIDE DEF r
<1>2. first \in Int /\ Multiple(1, first) = first
  BY MultipleOfOne
<1>3. CASE j = 0
  <2>1. 0 + 1 = 1
    OBVIOUS
  <2> QED
    BY <1>1, <1>2, <1>3, <2>1
<1>4. CASE j # 0 /\ j % 2 = 1
  <2> DEFINE i == j \div 2
  <2>1. i \in RowIndex(w) /\ j + 1 = 2 * (i + 1)
    BY <1>4, RowIndexFacts
  <2> HIDE DEF i
  <2>2. i + 1 \in Int
    BY <2>1 DEF RowIndex
  <2>3. Double(Multiple(i + 1, first)) = Multiple(2 * (i + 1), first)
    BY <1>2, <2>2, MultiplesAdd
  <2>4. r[j] = Double(r[i])
    BY <1>1, <2>1, <2>3
  <2> QED
    BY <1>4, <2>4 DEF i
<1>5. CASE j # 0 /\ j % 2 # 1
  <2> DEFINE i == j - 1
  <2>1. i \in RowIndex(w) /\ 0 \in RowIndex(w)
    BY <1>5, RowIndexFacts
  <2>2. i + 1 \in Int /\ 0 + 1 = 1 /\ 1 \in Int /\ j + 1 = (i + 1) + 1
    BY <2>1 DEF RowIndex
  <2> HIDE DEF i
  <2>3. Add(Multiple(i + 1, first), Multiple(1, first)) = Multiple((i + 1) + 1, first)
    BY <1>2, <2>2, MultiplesAdd
  <2>4. r[j] = Add(r[i], r[0])
    BY <1>1, <2>1, <2>2, <2>3
  <2> QED
    BY <1>5, <2>4 DEF i
<1> QED
  BY <1>3, <1>4, <1>5

LEMMA RowIsUnique ==
  ASSUME PowersMultiply, NEW w \in Width, NEW first \in TablePoint,
         NEW r, IsRow(r, first, w), NEW s, IsRow(s, first, w)
  PROVE  r = s
<1> DEFINE T == {j \in RowIndex(w) : r[j] # s[j]}
<1>1. /\ r = [j \in RowIndex(w) |-> r[j]] /\ s = [j \in RowIndex(w) |-> s[j]]
      /\ \A j \in RowIndex(w) :
           /\ r[j] = IF j = 0 THEN first
                     ELSE IF j % 2 = 1 THEN Double(r[j \div 2]) ELSE Add(r[j - 1], r[0])
           /\ s[j] = IF j = 0 THEN first
                     ELSE IF j % 2 = 1 THEN Double(s[j \div 2]) ELSE Add(s[j - 1], s[0])
  BY DEF IsRow
<1>2. T = {}
  <2>1. SUFFICES ASSUME T # {} PROVE FALSE
    OBVIOUS
  <2>2. RowIndex(w) \subseteq Nat
    BY DEF RowIndex
  <2>3. PICK n \in T : \A j \in T : n <= j
    <3>1. T \subseteq Nat
      BY <2>2
    <3> HIDE DEF T
    <3> QED
      BY <2>1, <3>1, LeastNat
  <2>4. n \in RowIndex(w) /\ n \in Nat /\ r[n] # s[n] /\ r[0] = s[0] /\ n # 0
    BY <1>1, <2>2, RowIndexFacts
  <2>5. \A j \in RowIndex(w) : j < n => r[j] = s[j]
    BY <2>2, <2>3, <2>4
  <2> HIDE DEF T
  <2>6. CASE n % 2 = 1
    BY <1>1, <2>4, <2>5, <2>6, RowIndexFacts
  <2>7. CASE n % 2 # 1
    <3>1. n - 1 \in RowIndex(w) /\ n - 1 < n
      BY <2>4, RowIndexFacts
    <3> QED
      BY <1>1, <2>4, <2>5, <2>7, <3>1
  <2> QED
    BY <2>6, <2>7
<1>3. \A j \in RowIndex(w) : r[j] = s[j]
  BY <1>2
<1> QED
  BY <1>1, <1>3

LEMMA RowsAreMultiples ==
  ASSUME PowersMultiply, NEW w \in Width, NEW first \in TablePoint
  PROVE  TableRow(first, w) = RowOf(first, w)
<1>1. TableRow(first, w) = CHOOSE r : IsRow(r, first, w)
  BY DEF TableRow, IsRow, RowIndex
<1>2. IsRow(RowOf(first, w), first, w)
  BY RowExists
<1>3. IsRow(TableRow(first, w), first, w)
  BY <1>1, <1>2
<1> QED
  BY <1>2, <1>3, RowIsUnique

WindowIndex(w) == 0 .. Windows(w) - 1

LEMMA WindowFacts ==
  ASSUME PowersMultiply, NEW w \in Width
  PROVE  /\ Windows(w) \in Nat \ {0}
         /\ w * Windows(w) \in Nat /\ SubgroupBits <= w * Windows(w)
         /\ \A i \in WindowIndex(w) : w * i \in Nat /\ w * i < SubgroupBits
<1> DEFINE n == Windows(w)
           x == SubgroupBits + w - 1
           r == x % w
<1>1. w \in Nat \ {0} /\ SubgroupBits \in Nat \ {0} /\ x \in Nat
  BY WidthFacts, TableSizes
<1>2. r \in 0 .. w - 1 /\ n \in Int /\ x = w * n + r
  <2> HIDE DEF x
  <2>1. r \in 0 .. w - 1 /\ x \div w \in Int /\ x = w * (x \div w) + r
    BY <1>1, ModFacts
  <2> QED
    BY <2>1 DEF Windows, x
<1>3. n \in Nat
  <2> HIDE DEF x
  <2>1. x \div w \in Nat
    BY <1>1, QuotientIsNat
  <2> QED
    BY <2>1 DEF Windows, x
<1> HIDE DEF n, r
<1>4. SubgroupBits <= w * n /\ w * n \in Nat
  BY <1>1, <1>2, <1>3
<1>5. n # 0
  BY <1>1, <1>4
<1>6. ASSUME NEW i \in 0 .. n - 1
      PROVE  w * i \in Nat /\ w * i < SubgroupBits
  <2>1. w * i <= w * (n - 1) /\ w * i \in Nat
    BY <1>1, <1>3, <1>6
  <2>2. w * (n - 1) = w * n - w /\ w * (n - 1) \in Int
    BY <1>1, <1>3
  <2> QED
    BY <1>1, <1>2, <1>4, <2>1, <2>2
<1> QED
  BY <1>3, <1>4, <1>5, <1>6 DEF n, WindowIndex

(* What the definition of the table says of a function.                    *)
RowAfter(T, i, pt, w) ==
    TableRow(IF i = 0 THEN pt ELSE Double(T[i - 1][WindowElements(w) \div 2]), w)

IsTable(T, pt, w) == T = [i \in WindowIndex(w) |-> RowAfter(T, i, pt, w)]

TableOf(pt, w) == [i \in WindowIndex(w) |-> RowOf(Multiple(Two(w * i), pt), w)]

LEMMA TableExists ==
  ASSUME PowersMultiply, NEW w \in Width, NEW pt \in TablePoint
  PROVE  IsTable(TableOf(pt, w), pt, w)
<1> DEFINE T == TableOf(pt, w)
<1> SUFFICES ASSUME NEW i \in WindowIndex(w)
             PROVE  T[i] = RowAfter(T, i, pt, w)
  BY DEF IsTable, TableOf
<1>1. \A k \in WindowIndex(w) : T[k] = RowOf(Multiple(Two(w * k), pt), w)
  BY DEF TableOf
<1> HIDE DEF T
<1>2. pt \in Int /\ Multiple(1, pt) = pt /\ w \in Nat \ {0}
  BY MultipleOfOne, WidthFacts
<1>3. \A k \in WindowIndex(w) : w * k \in Nat /\ Two(w * k) \in Nat /\ Multiple(Two(w * k), pt) \in TablePoint
  <2> SUFFICES ASSUME NEW k \in WindowIndex(w)
               PROVE  w * k \in Nat /\ Two(w * k) \in Nat /\ Multiple(Two(w * k), pt) \in TablePoint
    OBVIOUS
  <2>1. w * k \in Nat
    BY WindowFacts
  <2>2. Two(w * k) \in Nat
    BY <2>1, TwoIsNat
  <2> QED
    BY <1>2, <2>1, <2>2, MultiplesAdd
<1>4. CASE i = 0
  <2>1. w * 0 = 0 /\ Two(0) = 1
    BY <1>2, TwoFacts
  <2>2. T[i] = RowOf(pt, w)
    BY <1>1, <1>2, <1>4, <2>1
  <2> QED
    BY <1>4, <2>2, RowsAreMultiples DEF RowAfter
<1>5. CASE i # 0
  <2> DEFINE k == i - 1
             first == Multiple(Two(w * k), pt)
             half == WindowElements(w) \div 2
  <2>1. k \in WindowIndex(w) /\ i = k + 1
    BY <1>5, WindowFacts DEF WindowIndex
  <2>2. w * k \in Nat /\ w * i = w + w * k
    BY <1>2, <1>3, <2>1 DEF WindowIndex
  <2> HIDE DEF k
  <2>3. Two(w * k) \in Nat /\ first \in TablePoint /\ first \in Int
    BY <1>3, <2>1, MultipleOfOne
  <2>4. T[k][half] = Multiple(half + 1, first)
    <3>1. half \in RowIndex(w)
      BY RowIndexFacts
    <3> HIDE DEF half, first
    <3>2. RowOf(first, w)[half] = Multiple(half + 1, first)
      BY <3>1 DEF RowOf
    <3> QED
      BY <1>1, <2>1, <3>2 DEF first
  <2>5. half + 1 = Two(w - 1) /\ 2 * Two(w - 1) = Two(w) /\ half + 1 \in Int /\ Two(w) \in Int
    BY RowIndexFacts, WidthFacts
  <2> HIDE DEF half
  <2>6. Double(T[k][half]) = Multiple(Two(w), first)
    <3> HIDE DEF first
    <3>1. Double(Multiple(half + 1, first)) = Multiple(2 * (half + 1), first)
      BY <2>3, <2>5, MultiplesAdd
    <3> QED
      BY <2>4, <2>5, <3>1
  <2>7. Multiple(Two(w), first) = Multiple(Two(w * i), pt)
    <3>1. Multiple(Two(w), first) = Multiple(Two(w) * Two(w * k), pt)
      BY <1>2, <2>3, <2>5, MultiplesAdd
    <3>2. Two(w + w * k) = Two(w) * Two(w * k)
      BY <1>2, <2>2, TwoSum
    <3> QED
      BY <2>2, <3>1, <3>2
  <2>8. TableRow(Multiple(Two(w * i), pt), w) = T[i]
    BY <1>1, <1>3, RowsAreMultiples
  <2>9. RowAfter(T, i, pt, w) = TableRow(Double(T[k][half]), w)
    BY <1>5 DEF RowAfter, k, half
  <2> QED
    BY <2>6, <2>7, <2>8, <2>9
<1> QED
  BY <1>4, <1>5

LEMMA TableIsUnique ==
  ASSUME PowersMultiply, NEW w \in Width, NEW pt \in TablePoint,
         NEW T, IsTable(T, pt, w), NEW U, IsTable(U, pt, w)
  PROVE  T = U
<1> DEFINE D == {i \in WindowIndex(w) : T[i] # U[i]}
<1>1. /\ T = [i \in WindowIndex(w) |-> T[i]] /\ U = [i \in WindowIndex(w) |-> U[i]]
      /\ \A i \in WindowIndex(w) : T[i] = RowAfter(T, i, pt, w) /\ U[i] = RowAfter(U, i, pt, w)
  BY DEF IsTable
<1>2. D = {}
  <2>1. SUFFICES ASSUME D # {} PROVE FALSE
    OBVIOUS
  <2>2. WindowIndex(w) \subseteq Nat
    BY DEF WindowIndex
  <2>3. PICK n \in D : \A i \in D : n <= i
    <3>1. D \subseteq Nat
      BY <2>2
    <3> HIDE DEF D
    <3> QED
      BY <2>1, <3>1, LeastNat
  <2>4. n \in WindowIndex(w) /\ T[n] # U[n]
    OBVIOUS
  <2>5. n # 0
    <3>1. RowAfter(T, 0, pt, w) = RowAfter(U, 0, pt, w)
      BY DEF RowAfter
    <3> QED
      BY <1>1, <2>4, <3>1
  <2>6. n - 1 \in WindowIndex(w) /\ ~ (n <= n - 1)
    BY <2>4, <2>5, WindowFacts DEF WindowIndex
  <2>7. T[n - 1] = U[n - 1]
    BY <2>3, <2>6
  <2>8. RowAfter(T, n, pt, w) = RowAfter(U, n, pt, w)
    BY <2>7 DEF RowAfter
  <2> QED
    BY <1>1, <2>4, <2>8
<1> QED
  BY <1>1, <1>2

LEMMA TableIsOfMultiples ==
  ASSUME PowersMultiply, NEW w \in Width, NEW pt \in TablePoint
  PROVE  New(pt, w) = TableOf(pt, w)
<1>1. New(pt, w) = CHOOSE T : IsTable(T, pt, w)
  BY DEF New, IsTable, RowAfter, WindowIndex
<1>2. IsTable(TableOf(pt, w), pt, w)
  BY TableExists
<1>3. IsTable(New(pt, w), pt, w)
  BY <1>1, <1>2
<1> QED
  BY <1>2, <1>3, TableIsUnique

-----------------------------------------------------------------------------
(* The products, window by window.                                         *)

LEMMA AddLaws ==
  ASSUME PowersMultiply, NEW p \in TablePoint, NEW q \in TablePoint, NEW e \in TablePoint
  PROVE  /\ Add(Add(p, e), q) = Add(Add(p, q), e)
         /\ Add(p, 0) = p /\ Add(0, p) = p
<1>1. SubgroupOrder \in Nat \ {0}
  BY TableSizes
<1>2. p \in Int /\ q \in Int /\ e \in Int /\ p + e \in Int /\ p + q \in Int
  BY <1>1 DEF TablePoint
<1>3. Add(Add(p, e), q) = ((p + e) + q) % SubgroupOrder
  BY <1>1, <1>2, SumMod DEF Add
<1>4. Add(Add(p, q), e) = ((p + q) + e) % SubgroupOrder
  BY <1>1, <1>2, SumMod DEF Add
<1>5. (p + e) + q = (p + q) + e
  BY <1>2
<1>6. p % SubgroupOrder = p
  <2>1. 1 * p = p
    BY <1>2
  <2> QED
    BY <2>1, MultipleOfOne DEF Multiple
<1>7. p + 0 = p /\ 0 + p = p
  BY <1>2
<1> QED
  BY <1>3, <1>4, <1>5, <1>6, <1>7 DEF Add

LEMMA WindowOfProduct ==
  ASSUME PowersMultiply, NEW w \in Width, NEW pt \in TablePoint,
         NEW x \in TablePoint, NEW k \in WindowIndex(w),
         NEW b, b = GetWindow(ScalarToBytes(x), w * k, w)
  PROVE  /\ b \in Nat /\ (b > 0 <=> b - 1 \in RowIndex(w))
         /\ b > 0 => New(pt, w)[k][b - 1] = Multiple(b * Two(w * k), pt)
         /\ b = 0 => Multiple(b * Two(w * k), pt) = 0
         /\ DOMAIN New(pt, w)[k] = RowIndex(w)
         /\ Multiple(x % Two(w * k), pt) \in TablePoint
         /\ Multiple(b * Two(w * k), pt) \in TablePoint
         /\ Add(Multiple(x % Two(w * k), pt), Multiple(b * Two(w * k), pt))
              = Multiple(x % Two(w * (k + 1)), pt)
<1> DEFINE A == Two(w * k)
           B == Two(w)
           C == Two(w * (k + 1))
           first == Multiple(A, pt)
           low == x % A
<1>1. w * k \in Nat /\ w * k < SubgroupBits /\ w \in Nat \ {0} /\ k \in Nat
  BY WindowFacts, WidthFacts DEF WindowIndex
<1>2. A \in Nat \ {0} /\ B \in Nat \ {0} /\ C = A * B
  <2>1. w * (k + 1) = w * k + w
    BY <1>1
  <2> QED
    BY <1>1, <2>1, TwoIsNat, TwoSum
<1>3. x \in Nat /\ x < Two(SubgroupBits) /\ pt \in Int
  <2>1. Two(SubgroupBits) \in Nat
    BY TableSizes, TwoIsNat
  <2> QED
    BY <2>1, TableSizes DEF TablePoint
<1>4. b = (x \div A) % B
  BY <1>1, <1>3, WindowBits
<1> HIDE DEF A, B, C
<1>5. b \in 0 .. B - 1
  <2>1. x \div A \in Nat
    BY <1>2, <1>3, QuotientIsNat
  <2> DEFINE y == x \div A
  <2>2. y \in Int /\ b = y % B
    BY <1>4, <2>1
  <2> HIDE DEF y
  <2> QED
    BY <1>2, <2>2, ModFacts
<1>6. RowIndex(w) = 0 .. B - 2
  <2>1. WindowElements(w) = B - 1
    BY RowIndexFacts DEF B
  <2> QED
    BY <1>2, <2>1 DEF RowIndex
<1>7. b \in Nat /\ (b > 0 <=> b - 1 \in RowIndex(w))
  BY <1>2, <1>5, <1>6
<1>8. first \in TablePoint
  BY <1>2, <1>3, MultiplesAdd
<1>9. New(pt, w)[k] = RowOf(first, w)
  BY TableIsOfMultiples DEF TableOf, A
<1> HIDE DEF first
<1>10. Multiple(b * A, pt) = Multiple(b, first)
  BY <1>2, <1>3, <1>7, MultiplesAdd DEF first
<1>11. ASSUME b > 0 PROVE New(pt, w)[k][b - 1] = Multiple(b * A, pt)
  <2> DEFINE j == b - 1
  <2>1. j \in RowIndex(w) /\ j + 1 = b
    BY <1>7, <1>11
  <2> HIDE DEF j
  <2>2. RowOf(first, w)[j] = Multiple(j + 1, first)
    BY <2>1 DEF RowOf
  <2> QED
    BY <1>9, <1>10, <2>1, <2>2 DEF j
<1>12. b = 0 => Multiple(b * A, pt) = 0
  <2>1. b = 0 => b * A = 0
    BY <1>2
  <2> QED
    BY <2>1, MultipleOfOne
<1>13. DOMAIN New(pt, w)[k] = RowIndex(w)
  BY <1>9 DEF RowOf
<1>14. low \in Int /\ b * A \in Int
  BY <1>2, <1>3, <1>7, ModFacts
<1>15. x % C = low + b * A
  <2>1. DividesBoth(x, A, B, C)
    BY <1>2, <1>3, DivModProduct
  <2>2. x % C = low + A * b
    BY <1>4, <2>1 DEF DividesBoth
  <2>3. A * b = b * A
    BY <1>2, <1>7
  <2> QED
    BY <2>2, <2>3
<1> HIDE DEF low
<1>16. /\ Multiple(low, pt) \in TablePoint /\ Multiple(b * A, pt) \in TablePoint
       /\ Add(Multiple(low, pt), Multiple(b * A, pt)) = Multiple(low + b * A, pt)
  <2> DEFINE c == b * A
  <2>1. c \in Int
    BY <1>14
  <2> HIDE DEF c
  <2>2. /\ Multiple(low, pt) \in TablePoint /\ Multiple(c, pt) \in TablePoint
        /\ Add(Multiple(low, pt), Multiple(c, pt)) = Multiple(low + c, pt)
    BY <1>3, <1>14, <2>1, MultiplesAdd
  <2> QED
    BY <2>2 DEF c
<1> QED
  BY <1>7, <1>11, <1>12, <1>13, <1>15, <1>16 DEF A, C, low

AccumIndex(w) == 0 .. Windows(w)

(* What the definitions of the accumulators say of a function.             *)
AfterWindow(G, i, tbl, x, w) ==
    Add(G[i - 1], CtSelect(tbl[i - 1], GetWindow(ScalarToBytes(x), w * (i - 1), w)))

AfterWindowVartime(G, i, tbl, x, w) ==
    LET b == GetWindow(ScalarToBytes(x), w * (i - 1), w)
    IN  IF b > 0 THEN Add(G[i - 1], tbl[i - 1][b - 1]) ELSE G[i - 1]

Accumulates(G, tbl, x, w) ==
    G = [i \in AccumIndex(w) |-> IF i = 0 THEN 0 ELSE AfterWindow(G, i, tbl, x, w)]

AccumulatesVartime(G, tbl, x, extra, w) ==
    G = [i \in AccumIndex(w) |-> IF i = 0 THEN extra ELSE AfterWindowVartime(G, i, tbl, x, w)]

AccumOf(pt, x, extra, w) ==
    [i \in AccumIndex(w) |-> Add(Multiple(x % Two(w * i), pt), extra)]

LEMMA AccumSteps ==
  ASSUME PowersMultiply, NEW w \in Width, NEW pt \in TablePoint,
         NEW x \in TablePoint, NEW extra \in TablePoint,
         NEW G, NEW i \in AccumIndex(w) \ {0},
         G[i - 1] = Add(Multiple(x % Two(w * (i - 1)), pt), extra)
  PROVE  /\ AfterWindow(G, i, New(pt, w), x, w) = Add(Multiple(x % Two(w * i), pt), extra)
         /\ AfterWindowVartime(G, i, New(pt, w), x, w) = Add(Multiple(x % Two(w * i), pt), extra)
<1> DEFINE k == i - 1
           b == GetWindow(ScalarToBytes(x), w * k, w)
           p == Multiple(x % Two(w * k), pt)
           q == Multiple(b * Two(w * k), pt)
           row == New(pt, w)[k]
<1>1. k \in WindowIndex(w) /\ k + 1 = i
  BY WindowFacts DEF AccumIndex, WindowIndex
<1> HIDE DEF k
<1>2. /\ b \in Nat /\ (b > 0 <=> b - 1 \in RowIndex(w))
      /\ b > 0 => row[b - 1] = q
      /\ b = 0 => q = 0
      /\ DOMAIN row = RowIndex(w)
      /\ p \in TablePoint /\ q \in TablePoint
      /\ Add(p, q) = Multiple(x % Two(w * (k + 1)), pt)
  BY <1>1, WindowOfProduct
<1>3. G[k] = Add(p, extra)
  BY DEF k
<1>4. AfterWindow(G, i, New(pt, w), x, w) = Add(G[k], CtSelect(row, b))
  BY DEF AfterWindow, k
<1>5. AfterWindowVartime(G, i, New(pt, w), x, w) =
        IF b > 0 THEN Add(G[k], row[b - 1]) ELSE G[k]
  BY DEF AfterWindowVartime, k
<1> HIDE DEF b, p, q, row
<1>6. CtSelect(row, b) = q
  BY <1>2 DEF CtSelect
<1>7. Add(Add(p, extra), q) = Add(Add(p, q), extra)
  BY <1>2, AddLaws
<1>8. b = 0 => Add(p, q) = p
  BY <1>2, AddLaws
<1>9. Add(Multiple(x % Two(w * i), pt), extra) = Add(Add(p, q), extra)
  BY <1>1, <1>2
<1>10. CASE b > 0
  BY <1>2, <1>3, <1>4, <1>5, <1>6, <1>7, <1>9, <1>10
<1>11. CASE b = 0
  BY <1>2, <1>3, <1>4, <1>5, <1>6, <1>7, <1>8, <1>9, <1>11
<1> QED
  BY <1>2, <1>10, <1>11

LEMMA AccumStarts ==
  ASSUME PowersMultiply, NEW w \in Width, NEW pt \in TablePoint,
         NEW x \in TablePoint, NEW extra \in TablePoint
  PROVE  /\ 0 \in AccumIndex(w) /\ Windows(w) \in AccumIndex(w)
         /\ AccumIndex(w) \subseteq Nat
         /\ \A i \in AccumIndex(w) \ {0} : i - 1 \in AccumIndex(w)
         /\ Add(Multiple(x % Two(w * 0), pt), extra) = extra
         /\ x % Two(w * Windows(w)) = x
<1>1. Windows(w) \in Nat /\ w * Windows(w) \in Nat /\ SubgroupBits <= w * Windows(w)
  BY WindowFacts
<1>2. w \in Nat /\ w * 0 = 0
  BY WidthFacts
<1>3. x \in Nat /\ x < Two(SubgroupBits)
  <2>1. Two(SubgroupBits) \in Nat
    BY TableSizes, TwoIsNat
  <2> QED
    BY <2>1, TableSizes DEF TablePoint
<1>4. Add(Multiple(x % Two(w * 0), pt), extra) = extra
  <2>1. Two(w * 0) = 1
    BY <1>2, TwoFacts
  <2>2. x % 1 = 0
    BY <1>3
  <2>3. Multiple(0, pt) = 0
    BY MultipleOfOne
  <2> QED
    BY <2>1, <2>2, <2>3, AddLaws
<1>5. x % Two(w * Windows(w)) = x
  <2> DEFINE n == Two(w * Windows(w))
  <2>1. n \in Nat \ {0} /\ Two(SubgroupBits) <= n /\ Two(SubgroupBits) \in Nat
    BY <1>1, TableSizes, TwoIsNat, TwoGrows
  <2> HIDE DEF n
  <2>2. x \in 0 .. n - 1 /\ x = n * 0 + x
    BY <1>3, <2>1
  <2>3. x % n = x
    BY <2>1, <2>2, ModUnique
  <2> QED
    BY <2>3 DEF n
<1> QED
  BY <1>1, <1>4, <1>5 DEF AccumIndex

(* A function that starts and goes on as an accumulator is the sums so far. *)
LEMMA AccumIsUnique ==
  ASSUME PowersMultiply, NEW w \in Width, NEW pt \in TablePoint,
         NEW x \in TablePoint, NEW extra \in TablePoint,
         NEW G, G[0] = extra,
         \/ \A i \in AccumIndex(w) \ {0} : G[i] = AfterWindow(G, i, New(pt, w), x, w)
         \/ \A i \in AccumIndex(w) \ {0} : G[i] = AfterWindowVartime(G, i, New(pt, w), x, w)
  PROVE  \A i \in AccumIndex(w) : G[i] = Add(Multiple(x % Two(w * i), pt), extra)
<1> DEFINE Sum(i) == Add(Multiple(x % Two(w * i), pt), extra)
           D == {i \in AccumIndex(w) : G[i] # Sum(i)}
<1>1. /\ AccumIndex(w) \subseteq Nat /\ Sum(0) = extra
      /\ \A i \in AccumIndex(w) \ {0} : i - 1 \in AccumIndex(w)
  BY AccumStarts
<1>2. D = {}
  <2>1. SUFFICES ASSUME D # {} PROVE FALSE
    OBVIOUS
  <2>2. PICK n \in D : \A i \in D : n <= i
    <3>1. D \subseteq Nat
      BY <1>1
    <3> HIDE DEF D
    <3> QED
      BY <2>1, <3>1, LeastNat
  <2>3. n \in AccumIndex(w) /\ G[n] # Sum(n) /\ n # 0 /\ n \in Nat
    BY <1>1
  <2>4. n - 1 \in AccumIndex(w) /\ ~ (n <= n - 1)
    BY <1>1, <2>3
  <2>5. G[n - 1] = Sum(n - 1)
    BY <2>2, <2>4
  <2>6. G[n - 1] = Add(Multiple(x % Two(w * (n - 1)), pt), extra)
    BY <2>5
  <2> HIDE DEF D
  <2>7. /\ AfterWindow(G, n, New(pt, w), x, w) = Sum(n)
        /\ AfterWindowVartime(G, n, New(pt, w), x, w) = Sum(n)
    BY <2>3, <2>6, AccumSteps
  <2> HIDE DEF Sum
  <2>8. G[n] = Sum(n)
    BY <2>3, <2>7
  <2> QED
    BY <2>3, <2>8
<1> QED
  BY <1>2

LEMMA AccumExists ==
  ASSUME PowersMultiply, NEW w \in Width, NEW pt \in TablePoint,
         NEW x \in TablePoint, NEW extra \in TablePoint
  PROVE  /\ Accumulates(AccumOf(pt, x, 0, w), New(pt, w), x, w)
         /\ AccumulatesVartime(AccumOf(pt, x, extra, w), New(pt, w), x, extra, w)
<1>1. 0 \in TablePoint
  BY TableSizes DEF TablePoint
<1>2. ASSUME NEW e \in TablePoint, NEW i \in AccumIndex(w)
      PROVE  LET G == AccumOf(pt, x, e, w)
             IN  G[i] = (IF i = 0 THEN e ELSE AfterWindow(G, i, New(pt, w), x, w))
                 /\ G[i] = (IF i = 0 THEN e ELSE AfterWindowVartime(G, i, New(pt, w), x, w))
  <2> DEFINE G == AccumOf(pt, x, e, w)
  <2>1. \A j \in AccumIndex(w) : G[j] = Add(Multiple(x % Two(w * j), pt), e)
    BY DEF AccumOf
  <2> HIDE DEF G
  <2>2. CASE i = 0
    <3>1. G[i] = e
      BY <2>1, <2>2, AccumStarts
    <3> QED
      BY <2>2, <3>1 DEF G
  <2>3. CASE i # 0
    <3>1. i - 1 \in AccumIndex(w)
      BY <2>3, AccumStarts
    <3>2. G[i - 1] = Add(Multiple(x % Two(w * (i - 1)), pt), e)
      BY <2>1, <3>1
    <3>3. /\ AfterWindow(G, i, New(pt, w), x, w) = Add(Multiple(x % Two(w * i), pt), e)
          /\ AfterWindowVartime(G, i, New(pt, w), x, w) = Add(Multiple(x % Two(w * i), pt), e)
      BY <2>3, <3>2, AccumSteps
    <3>4. /\ G[i] = AfterWindow(G, i, New(pt, w), x, w)
          /\ G[i] = AfterWindowVartime(G, i, New(pt, w), x, w)
      BY <2>1, <3>3
    <3> QED
      BY <2>3, <3>4 DEF G
  <2> QED
    BY <2>2, <2>3
<1>3. \A e : AccumOf(pt, x, e, w) = [i \in AccumIndex(w) |-> AccumOf(pt, x, e, w)[i]]
  BY DEF AccumOf
<1>4. Accumulates(AccumOf(pt, x, 0, w), New(pt, w), x, w)
  <2> DEFINE G == AccumOf(pt, x, 0, w)
  <2>1. \A i \in AccumIndex(w) :
          G[i] = IF i = 0 THEN 0 ELSE AfterWindow(G, i, New(pt, w), x, w)
    BY <1>1, <1>2
  <2>2. G = [i \in AccumIndex(w) |-> G[i]]
    BY <1>3
  <2> HIDE DEF G
  <2>3. Accumulates(G, New(pt, w), x, w)
    BY <2>1, <2>2 DEF Accumulates
  <2> QED
    BY <2>3 DEF G
<1>5. AccumulatesVartime(AccumOf(pt, x, extra, w), New(pt, w), x, extra, w)
  <2> DEFINE G == AccumOf(pt, x, extra, w)
  <2>1. \A i \in AccumIndex(w) :
          G[i] = IF i = 0 THEN extra ELSE AfterWindowVartime(G, i, New(pt, w), x, w)
    BY <1>2
  <2>2. G = [i \in AccumIndex(w) |-> G[i]]
    BY <1>3
  <2> HIDE DEF G
  <2>3. AccumulatesVartime(G, New(pt, w), x, extra, w)
    BY <2>1, <2>2 DEF AccumulatesVartime
  <2> QED
    BY <2>3 DEF G
<1> QED
  BY <1>4, <1>5

LEMMA MulMultiplies ==
  ASSUME PowersMultiply, NEW w \in Width, NEW pt \in TablePoint, NEW x \in TablePoint
  PROVE  Mul(New(pt, w), x, w) = Multiple(x, pt)
<1> DEFINE G == CHOOSE H : Accumulates(H, New(pt, w), x, w)
<1>1. Mul(New(pt, w), x, w) = G[Windows(w)]
  BY DEF Mul, Accumulates, AfterWindow, AccumIndex
<1>2. 0 \in TablePoint
  BY TableSizes DEF TablePoint
<1>3. Accumulates(G, New(pt, w), x, w)
  <2>1. \E H : Accumulates(H, New(pt, w), x, w)
    BY <1>2, AccumExists
  <2> QED
    BY <2>1
<1> HIDE DEF G
<1>4. G[0] = 0 /\ \A i \in AccumIndex(w) \ {0} : G[i] = AfterWindow(G, i, New(pt, w), x, w)
  BY <1>3, AccumStarts DEF Accumulates
<1>5. \A i \in AccumIndex(w) : G[i] = Add(Multiple(x % Two(w * i), pt), 0)
  BY <1>2, <1>4, AccumIsUnique
<1>6. G[Windows(w)] = Add(Multiple(x, pt), 0)
  BY <1>2, <1>5, AccumStarts
<1>7. x \in Int /\ pt \in Int
  BY MultipleOfOne
<1>8. Multiple(x, pt) \in TablePoint
  BY <1>7, MultiplesAdd
<1> QED
  BY <1>1, <1>6, <1>8, AddLaws

LEMMA MulVartimeMultiplies ==
  ASSUME PowersMultiply, NEW w \in Width, NEW pt \in TablePoint, NEW x \in TablePoint,
         NEW extra \in TablePoint
  PROVE  MulVartime(New(pt, w), x, extra, w) = Add(Multiple(x, pt), extra)
<1> DEFINE G == CHOOSE H : AccumulatesVartime(H, New(pt, w), x, extra, w)
<1>1. MulVartime(New(pt, w), x, extra, w) = G[Windows(w)]
  BY DEF MulVartime, AccumulatesVartime, AfterWindowVartime, AccumIndex
<1>2. AccumulatesVartime(G, New(pt, w), x, extra, w)
  <2>1. \E H : AccumulatesVartime(H, New(pt, w), x, extra, w)
    BY AccumExists
  <2> QED
    BY <2>1
<1> HIDE DEF G
<1>3. G[0] = extra /\ \A i \in AccumIndex(w) \ {0} : G[i] = AfterWindowVartime(G, i, New(pt, w), x, w)
  BY <1>2, AccumStarts DEF AccumulatesVartime
<1>4. \A i \in AccumIndex(w) : G[i] = Add(Multiple(x % Two(w * i), pt), extra)
  BY <1>3, AccumIsUnique
<1> QED
  BY <1>1, <1>4, AccumStarts

(* A product by the table, in constant time or not, is the multiple of the *)
(* point, for each width of the windows and every scalar of the group.     *)
THEOREM TableIsRight ==
  ASSUME PowersMultiply
  PROVE  Spec => []TableMultiplies
<1>1. Init => TableMultiplies
  BY DEF Init, NoCall, TableMultiplies
<1>2. TableMultiplies /\ [Next]_vars => TableMultiplies'
  <2>1. CASE UNCHANGED vars
    BY <2>1 DEF vars, TableMultiplies
  <2>2. ASSUME Next, call'.fn = "mul" PROVE TableMultiplies'
    <3>1. CallMul
      BY <2>2, FnOfCall
    <3>2. PICK w \in WindowWidth, pt \in ExtraPoint, s \in TableScalar, extra \in ExtraPoint :
             Called([fn |-> "mul", width |-> w, pt |-> pt, scalar |-> s, extra |-> extra],
                    Ok(<<Mul(New(pt, w), s, w), MulVartime(New(pt, w), s, extra, w)>>))
      BY <3>1 DEF CallMul
    <3>3. w \in Width /\ pt \in TablePoint /\ s \in TablePoint /\ extra \in TablePoint
      BY TableArguments DEF Width, TablePoint, BITS_IN_BYTE
    <3>4. call'.scalar = s /\ call'.pt = pt /\ call'.extra = extra
      BY <3>2 DEF Called
    <3>5. result'.value = <<Mul(New(pt, w), s, w), MulVartime(New(pt, w), s, extra, w)>>
      BY <3>2, OkFacts DEF Called
    <3>6. /\ Mul(New(pt, w), s, w) = Multiple(s, pt)
          /\ MulVartime(New(pt, w), s, extra, w) = Add(Multiple(s, pt), extra)
      BY <3>3, MulMultiplies, MulVartimeMultiplies
    <3> QED
      BY <3>4, <3>5, <3>6 DEF TableMultiplies, Multiple
  <2>3. ASSUME Next, call'.fn # "mul" PROVE TableMultiplies'
    BY <2>3 DEF TableMultiplies
  <2> QED
    BY <2>1, <2>2, <2>3
<1> QED
  BY <1>1, <1>2, PTL DEF Spec
=============================================================================
