------------------------- MODULE PageScriptsProofs -------------------------
(* Proofs about the hashers of PageScripts, for any message, any cuts and  *)
(* any number of objects.                                                  *)
EXTENDS PageScripts, NatSets, FunctionTheorems, SequenceTheorems, TLAPS

-----------------------------------------------------------------------------
(* Words and their bytes *)

\* Byte i of b, counted from 0; none after the last one.
ByteOf(b, i) == IF i < Len(b) THEN b[i + 1] ELSE {}

LEMMA BytesOfWord ==
    ASSUME NEW b \in Seq(Byte), Len(b) <= 4
    PROVE  /\ WordOf(b) \in Word32
           /\ \A j \in 0 .. 3 : ByteAt(WordOf(b), j) = ByteOf(b, j)
<1>1. \A j \in DOMAIN b : b[j] \subseteq 0 .. 7
  BY DEF Byte
<1>2. ASSUME NEW p \in WordOf(b)
      PROVE  \E k \in 0 .. 3, i \in 0 .. 7 : k < Len(b) /\ i \in b[k + 1] /\ p = i + (24 - 8 * k)
  <2>1. PICK j \in DOMAIN b : p \in AtByte(b[j], j - 1)
    BY <1>2 DEF WordOf
  <2>2. PICK k \in 0 .. 3 : k + 1 = j /\ k < Len(b) /\ k = j - 1
    BY <2>1
  <2>3. p \in AtByte(b[k + 1], k)
    BY <2>1, <2>2
  <2>4. PICK i \in b[k + 1] : p = i + (24 - 8 * k)
    BY <2>3 DEF AtByte
  <2>5. i \in 0 .. 7
    BY <1>1, <2>2, <2>4
  <2> QED
    BY <2>2, <2>4, <2>5
<1>a. WordOf(b) \in Word32
  <2>1. ASSUME NEW k \in 0 .. 3, NEW i \in 0 .. 7 PROVE i + (24 - 8 * k) \in 0 .. 31
    OBVIOUS
  <2> QED
    BY <1>2, <2>1 DEF Word32, Places
<1>3. ASSUME NEW j \in 0 .. 3 PROVE ByteAt(WordOf(b), j) = ByteOf(b, j)
  <2>1. ASSUME NEW p \in ByteAt(WordOf(b), j) PROVE p \in ByteOf(b, j)
    <3>1. PICK q \in WordOf(b) : q \in (24 - 8 * j) .. (31 - 8 * j) /\ p = q - (24 - 8 * j)
      BY <2>1 DEF ByteAt
    <3>2. PICK k \in 0 .. 3, i \in 0 .. 7 : k < Len(b) /\ i \in b[k + 1] /\ q = i + (24 - 8 * k)
      BY <1>2, <3>1
    <3>3. k = j /\ i = p
      BY <3>1, <3>2
    <3> QED
      BY <3>2, <3>3 DEF ByteOf
  <2>2. ASSUME NEW p \in ByteOf(b, j) PROVE p \in ByteAt(WordOf(b), j)
    <3>1. j + 1 \in DOMAIN b /\ p \in b[j + 1]
      BY <2>2 DEF ByteOf
    <3>2. p \in 0 .. 7
      BY <1>1, <3>1
    <3>3. p + (24 - 8 * j) \in AtByte(b[j + 1], (j + 1) - 1)
      BY <3>1, <3>2 DEF AtByte
    <3>4. p + (24 - 8 * j) \in WordOf(b)
      BY <3>1, <3>3 DEF WordOf
    <3>5. p + (24 - 8 * j) \in (24 - 8 * j) .. (31 - 8 * j)
      BY <3>2
    <3>6. p = (p + (24 - 8 * j)) - (24 - 8 * j)
      BY <3>2
    <3> QED
      BY <3>4, <3>5, <3>6 DEF ByteAt
  <2> QED
    BY <2>1, <2>2
<1> QED
  BY <1>a, <1>3

\* A word is its four bytes.
LEMMA WordIsItsBytes ==
    ASSUME NEW x \in Word32, NEW y \in Word32,
           \A j \in 0 .. 3 : ByteAt(x, j) = ByteAt(y, j)
    PROVE  x = y
<1>1. ASSUME NEW u \in Word32, NEW v \in Word32, \A j \in 0 .. 3 : ByteAt(u, j) = ByteAt(v, j)
      PROVE  u \subseteq v
  <2> SUFFICES ASSUME NEW p \in u PROVE p \in v
    OBVIOUS
  <2>1. p \in 0 .. 31
    BY DEF Word32, Places
  <2>2. PICK j \in 0 .. 3 : p \in (24 - 8 * j) .. (31 - 8 * j)
    <3>1. \/ p \in (24 - 8 * 0) .. (31 - 8 * 0) \/ p \in (24 - 8 * 1) .. (31 - 8 * 1)
          \/ p \in (24 - 8 * 2) .. (31 - 8 * 2) \/ p \in (24 - 8 * 3) .. (31 - 8 * 3)
      BY <2>1
    <3> QED
      BY <3>1
  <2>3. p - (24 - 8 * j) \in ByteAt(u, j)
    BY <2>2 DEF ByteAt
  <2>4. p - (24 - 8 * j) \in ByteAt(v, j)
    BY <1>1, <2>3
  <2>5. PICK q \in v : q \in (24 - 8 * j) .. (31 - 8 * j) /\ p - (24 - 8 * j) = q - (24 - 8 * j)
    BY <2>4 DEF ByteAt
  <2> QED
    BY <2>1, <2>5
<1> QED
  BY <1>1

LEMMA BytesOfAnyWord ==
    /\ \A x \in Word32, j \in 0 .. 3 : ByteAt(x, j) \in Byte
    /\ {} \in Word32
    /\ \A j \in 0 .. 3 : ByteAt({}, j) = {}
<1>1. ASSUME NEW x \in Word32, NEW j \in 0 .. 3 PROVE ByteAt(x, j) \in Byte
  BY DEF ByteAt, Byte, Word32, Places
<1>2. \A j \in 0 .. 3 : ByteAt({}, j) = {}
  BY DEF ByteAt
<1> QED
  BY <1>1, <1>2 DEF Word32

-----------------------------------------------------------------------------
(* Arrays *)

LEMMA WrittenIs ==
    ASSUME NEW S, NEW s \in Seq(S)
    PROVE  Written(s) = s
BY DEF Written

LEMMA Listed ==
    ASSUME NEW S, NEW n \in Nat, NEW f \in [1 .. n -> S]
    PROVE  /\ f \in Seq(S) /\ Len(f) = n /\ DOMAIN f = 1 .. n
           /\ Written(f) = f
<1>1. f \in Seq(S)
  OBVIOUS
<1> QED
  BY <1>1, WrittenIs

LEMMA SameSeq ==
    ASSUME NEW S, NEW s \in Seq(S), NEW t \in Seq(S), Len(s) = Len(t),
           \A i \in 1 .. Len(s) : s[i] = t[i]
    PROVE  s = t
OBVIOUS

LEMMA AtIs ==
    ASSUME NEW words \in Chain
    PROVE  /\ \A i \in Int : At(words, i) \in Word32
           /\ \A i \in 0 .. Len(words) - 1 : At(words, i) = words[i + 1]
           /\ \A i \in Int : i < 0 \/ i >= Len(words) => At(words, i) = {}
BY BytesOfAnyWord DEF At, Chain

LEMMA BytesIs ==
    ASSUME NEW w \in Arrays
    PROVE  /\ Bytes(w) \in Seq(Byte)
           /\ Len(Bytes(w)) = w.sigBytes
           /\ \A i \in 1 .. w.sigBytes : Bytes(w)[i] = ByteAt(At(w.words, (i - 1) \div 4), (i - 1) % 4)
<1> DEFINE f == [i \in 1 .. w.sigBytes |-> ByteAt(At(w.words, (i - 1) \div 4), (i - 1) % 4)]
<1>1. w.words \in Chain /\ w.sigBytes \in Nat
  BY DEF Arrays
<1>2. ASSUME NEW i \in 1 .. w.sigBytes PROVE f[i] \in Byte
  <2>1. (i - 1) \div 4 \in Int /\ (i - 1) % 4 \in 0 .. 3
    BY <1>1
  <2> QED
    BY <1>1, <2>1, AtIs, BytesOfAnyWord
<1>3. f \in [1 .. w.sigBytes -> Byte]
  BY <1>2
<1> HIDE DEF f
<1>4. Written(f) = f /\ f \in Seq(Byte) /\ Len(f) = w.sigBytes
  BY <1>1, <1>3, Listed
<1>5. Bytes(w) = f
  BY <1>4 DEF Bytes, f
<1> QED
  BY <1>4, <1>5 DEF f

LEMMA WordsForIs ==
    ASSUME NEW n \in Nat
    PROVE  /\ WordsFor(n) \in Nat
           /\ \A k \in Nat : k < WordsFor(n) <=> 4 * k < n
           /\ \A m \in Nat : WordsFor(4 * m + n) = m + WordsFor(n)
           /\ \A m \in Nat : WordsFor(4 * m) = m
BY DEF WordsFor

LEMMA OfBytesIs ==
    ASSUME NEW b \in Seq(Byte)
    PROVE  /\ OfBytes(b) \in Arrays
           /\ OfBytes(b).sigBytes = Len(b)
           /\ Len(OfBytes(b).words) = WordsFor(Len(b))
           /\ \A k \in Nat, j \in 0 .. 3 : ByteAt(At(OfBytes(b).words, k), j) = ByteOf(b, 4 * k + j)
<1> DEFINE n == Len(b)
           W == WordsFor(n)
           Part(k) == SubSeq(b, 4 * k - 3, IF 4 * k <= n THEN 4 * k ELSE n)
           f == [k \in 1 .. W |-> WordOf(Part(k))]
<1>1. n \in Nat /\ W \in Nat
  BY WordsForIs
<1>2. ASSUME NEW k \in Nat, k < W
      PROVE  /\ Part(k + 1) \in Seq(Byte) /\ Len(Part(k + 1)) <= 4
             /\ \A j \in 0 .. 3 : ByteOf(Part(k + 1), j) = ByteOf(b, 4 * k + j)
  <2> DEFINE t == IF 4 * (k + 1) <= n THEN 4 * (k + 1) ELSE n
  <2>1. 4 * k < n
    BY <1>1, <1>2, WordsForIs
  <2>2. t \in Nat /\ t <= n /\ 4 * k + 1 <= t /\ t <= 4 * k + 4 /\ 4 * (k + 1) - 3 = 4 * k + 1
    BY <1>1, <2>1
  <2>3. t = 4 * k + 4 \/ t = n
    BY <2>2
  <2>4. Part(k + 1) = SubSeq(b, 4 * k + 1, t)
    BY <2>2
  <2> HIDE DEF t, Part
  <2>5. /\ SubSeq(b, 4 * k + 1, t) \in Seq(Byte)
        /\ Len(SubSeq(b, 4 * k + 1, t)) = t - 4 * k
        /\ \A i \in 1 .. t - 4 * k : SubSeq(b, 4 * k + 1, t)[i] = b[4 * k + i]
    <3> DEFINE a == 4 * k + 1
    <3>1. a \in Nat /\ a >= 1 /\ t - a + 1 = t - 4 * k /\ a <= t
      BY <2>2
    <3>2. \A i \in Nat : a + i - 1 = 4 * k + i
      OBVIOUS
    <3> HIDE DEF a
    <3>3. /\ SubSeq(b, a, t) \in Seq(Byte)
          /\ Len(SubSeq(b, a, t)) = t - a + 1
          /\ \A i \in 1 .. t - a + 1 : SubSeq(b, a, t)[i] = b[a + i - 1]
      BY <1>1, <2>2, <3>1
    <3> DEFINE s == SubSeq(b, a, t)
               m == t - 4 * k
    <3>4. t - a + 1 = m /\ m \in Nat
      BY <2>2, <3>1
    <3> HIDE DEF s, m
    <3>5. s \in Seq(Byte) /\ Len(s) = m /\ \A i \in 1 .. m : s[i] = b[a + i - 1]
      BY <3>3, <3>4 DEF s
    <3>6. \A i \in 1 .. m : s[i] = b[4 * k + i]
      BY <3>2, <3>4, <3>5
    <3> QED
      BY <3>5, <3>6, Zenon DEF s, m, a
  <2>6. ASSUME NEW j \in 0 .. 3 PROVE ByteOf(Part(k + 1), j) = ByteOf(b, 4 * k + j)
    <3>1. j < t - 4 * k <=> 4 * k + j < n
      BY <1>1, <2>2, <2>3
    <3>2. j < t - 4 * k => SubSeq(b, 4 * k + 1, t)[j + 1] = b[4 * k + j + 1]
      <4>1. HAVE j < t - 4 * k
      <4>2. j + 1 \in 1 .. t - 4 * k /\ 4 * k + (j + 1) = 4 * k + j + 1
        BY <2>2, <4>1
      <4> QED
        BY <2>5, <4>2
    <3> QED
      BY <2>4, <2>5, <3>1, <3>2 DEF ByteOf
  <2>7. t - 4 * k <= 4
    BY <2>2
  <2>8. Part(k + 1) \in Seq(Byte) /\ Len(Part(k + 1)) <= 4
    BY <2>4, <2>5, <2>7
  <2> QED
    BY <2>6, <2>8
<1>3. ASSUME NEW k \in 1 .. W PROVE WordOf(Part(k)) \in Word32
  <2>1. k - 1 \in Nat /\ k - 1 < W /\ (k - 1) + 1 = k
    BY <1>1
  <2> HIDE DEF Part
  <2>2. Part(k) \in Seq(Byte) /\ Len(Part(k)) <= 4
    BY <1>2, <2>1
  <2> QED
    BY <2>2, BytesOfWord
<1>4. f \in [1 .. W -> Word32]
  BY <1>3
<1> HIDE DEF f, Part
<1>5. f \in Seq(Word32) /\ Len(f) = W /\ DOMAIN f = 1 .. W /\ Written(f) = f
  BY <1>1, <1>4, Listed
<1>6. OfBytes(b) = [words |-> f, sigBytes |-> n]
  BY <1>5 DEF OfBytes, WordArray, f, Part
<1>7. ASSUME NEW k \in Nat, NEW j \in 0 .. 3
      PROVE  ByteAt(At(f, k), j) = ByteOf(b, 4 * k + j)
  <2>1. CASE k < W
    <3>1. At(f, k) = f[k + 1] /\ f[k + 1] = WordOf(Part(k + 1))
      BY <1>1, <1>5, <2>1, AtIs DEF Chain, f
    <3> QED
      BY <1>2, <2>1, <3>1, BytesOfWord
  <2>2. CASE ~(k < W)
    <3>1. At(f, k) = {}
      BY <1>1, <1>5, <2>2, AtIs DEF Chain
    <3>2. ~(4 * k < n)
      BY <1>1, <2>2, WordsForIs
    <3> QED
      BY <1>1, <3>1, <3>2, BytesOfAnyWord DEF ByteOf
  <2> QED
    BY <2>1, <2>2
<1> QED
  BY <1>1, <1>5, <1>6, <1>7 DEF Arrays, Chain

\* The array of b, from what it holds.
LEMMA IsOfBytes ==
    ASSUME NEW w \in Arrays, NEW b \in Seq(Byte),
           w.sigBytes = Len(b), Len(w.words) = WordsFor(Len(b)),
           \A k \in Nat, j \in 0 .. 3 : k < WordsFor(Len(b)) =>
              ByteAt(At(w.words, k), j) = ByteOf(b, 4 * k + j)
    PROVE  w = OfBytes(b)
<1> DEFINE v == OfBytes(b)
           n == WordsFor(Len(b))
<1>1. /\ v \in Arrays /\ v.sigBytes = Len(b) /\ Len(v.words) = n
      /\ \A k \in Nat, j \in 0 .. 3 : ByteAt(At(v.words, k), j) = ByteOf(b, 4 * k + j)
      /\ n \in Nat
  <2>1. Len(b) \in Nat
    OBVIOUS
  <2>2. n \in Nat
    BY <2>1, WordsForIs
  <2> QED
    BY <2>2, OfBytesIs
<1>0. w.sigBytes = Len(b) /\ Len(w.words) = n
  OBVIOUS
<1> HIDE DEF v, n
<1>2. ASSUME NEW k \in Nat, k < n PROVE w.words[k + 1] = v.words[k + 1]
  <2>1. w.words \in Chain /\ v.words \in Chain /\ Len(w.words) = n
    BY <1>0, <1>1 DEF Arrays
  <2>a. k \in 0 .. n - 1 /\ k \in Int
    BY <1>1, <1>2
  <2>2. At(w.words, k) = w.words[k + 1] /\ At(v.words, k) = v.words[k + 1]
        /\ At(w.words, k) \in Word32 /\ At(v.words, k) \in Word32
    BY <1>1, <2>1, <2>a, AtIs
  <2>3. \A j \in 0 .. 3 : ByteAt(At(w.words, k), j) = ByteAt(At(v.words, k), j)
    BY <1>1, <1>2 DEF n
  <2> QED
    BY <2>2, <2>3, WordIsItsBytes
<1>3. w.words = v.words
  <2>1. w.words \in Seq(Word32) /\ v.words \in Seq(Word32) /\ Len(w.words) = n /\ Len(v.words) = n
    BY <1>0, <1>1 DEF Arrays, Chain
  <2>2. \A i \in 1 .. n : w.words[i] = v.words[i]
    <3> SUFFICES ASSUME NEW i \in 1 .. n PROVE w.words[i] = v.words[i]
      OBVIOUS
    <3>1. i - 1 \in Nat /\ i - 1 < n /\ (i - 1) + 1 = i
      BY <1>1
    <3> QED
      BY <1>2, <3>1
  <2> QED
    BY <2>1, <2>2, SameSeq
<1>4. w = [words |-> w.words, sigBytes |-> w.sigBytes] /\ v = [words |-> v.words, sigBytes |-> v.sigBytes]
  BY <1>1 DEF Arrays
<1>5. w = v
  BY <1>0, <1>1, <1>3, <1>4
<1> QED
  BY <1>5 DEF v

LEMMA BytesOfBytes ==
    ASSUME NEW b \in Seq(Byte)
    PROVE  Bytes(OfBytes(b)) = b
<1> DEFINE w == OfBytes(b)
<1>1. /\ w \in Arrays /\ w.sigBytes = Len(b)
      /\ \A k \in Nat, j \in 0 .. 3 : ByteAt(At(w.words, k), j) = ByteOf(b, 4 * k + j)
  BY OfBytesIs
<1> HIDE DEF w
<1>2. /\ Bytes(w) \in Seq(Byte) /\ Len(Bytes(w)) = Len(b)
      /\ \A i \in 1 .. Len(b) : Bytes(w)[i] = ByteAt(At(w.words, (i - 1) \div 4), (i - 1) % 4)
  BY <1>1, BytesIs
<1>3. ASSUME NEW i \in 1 .. Len(b) PROVE Bytes(w)[i] = b[i]
  <2> DEFINE k == (i - 1) \div 4
             j == (i - 1) % 4
  <2>1. k \in Nat /\ j \in 0 .. 3 /\ 4 * k + j = i - 1
    OBVIOUS
  <2>2. Bytes(w)[i] = ByteAt(At(w.words, k), j)
    BY <1>2
  <2> HIDE DEF k, j
  <2>3. Bytes(w)[i] = ByteOf(b, i - 1)
    BY <1>1, <2>1, <2>2
  <2> QED
    BY <2>3 DEF ByteOf
<1> QED
  BY <1>2, <1>3 DEF w

LEMMA AtJoined ==
    ASSUME NEW x \in Chain, NEW y \in Chain
    PROVE  /\ x \o y \in Chain /\ Len(x \o y) = Len(x) + Len(y)
           /\ \A k \in Nat : At(x \o y, k) = IF k < Len(x) THEN At(x, k) ELSE At(y, k - Len(x))
<1>1. x \o y \in Chain /\ Len(x \o y) = Len(x) + Len(y) /\ Len(x) \in Nat /\ Len(y) \in Nat
  BY DEF Chain
<1>2. ASSUME NEW k \in Nat PROVE At(x \o y, k) = IF k < Len(x) THEN At(x, k) ELSE At(y, k - Len(x))
  <2>1. CASE k < Len(x)
    <3>1. (x \o y)[k + 1] = x[k + 1]
      BY <2>1 DEF Chain
    <3> QED
      BY <1>1, <2>1, <3>1 DEF At
  <2>2. CASE k >= Len(x) /\ k < Len(x) + Len(y)
    <3>1. (x \o y)[k + 1] = y[(k + 1) - Len(x)]
      BY <2>2 DEF Chain
    <3>2. (k + 1) - Len(x) = (k - Len(x)) + 1
      BY <1>1
    <3> QED
      BY <1>1, <2>2, <3>1, <3>2 DEF At
  <2>3. CASE k >= Len(x) + Len(y)
    BY <1>1, <2>3 DEF At
  <2> QED
    BY <1>1, <2>1, <2>2, <2>3
<1> QED
  BY <1>1, <1>2

LEMMA ByteOfJoined ==
    ASSUME NEW a \in Seq(Byte), NEW b \in Seq(Byte)
    PROVE  /\ a \o b \in Seq(Byte) /\ Len(a \o b) = Len(a) + Len(b)
           /\ \A i \in Nat : ByteOf(a \o b, i) = IF i < Len(a) THEN ByteOf(a, i) ELSE ByteOf(b, i - Len(a))
<1>1. a \o b \in Seq(Byte) /\ Len(a \o b) = Len(a) + Len(b) /\ Len(a) \in Nat /\ Len(b) \in Nat
  OBVIOUS
<1>2. ASSUME NEW i \in Nat PROVE ByteOf(a \o b, i) = IF i < Len(a) THEN ByteOf(a, i) ELSE ByteOf(b, i - Len(a))
  <2>1. CASE i < Len(a)
    <3>1. (a \o b)[i + 1] = a[i + 1]
      BY <2>1
    <3> QED
      BY <1>1, <2>1, <3>1 DEF ByteOf
  <2>2. CASE i >= Len(a) /\ i < Len(a) + Len(b)
    <3>1. (a \o b)[i + 1] = b[(i + 1) - Len(a)]
      BY <2>2
    <3>2. (i + 1) - Len(a) = (i - Len(a)) + 1
      BY <1>1
    <3> QED
      BY <1>1, <2>2, <3>1, <3>2 DEF ByteOf
  <2>3. CASE i >= Len(a) + Len(b)
    BY <1>1, <2>3 DEF ByteOf
  <2> QED
    BY <1>1, <2>1, <2>2, <2>3
<1> QED
  BY <1>1, <1>2

LEMMA ClampIs ==
    ASSUME NEW w \in Arrays
    PROVE  /\ Clamp(w) \in Arrays /\ Clamp(w).sigBytes = w.sigBytes
           /\ Len(Clamp(w).words) = WordsFor(w.sigBytes)
           /\ \A k \in Nat : 4 * (k + 1) <= w.sigBytes => At(Clamp(w).words, k) = At(w.words, k)
<1> DEFINE n == WordsFor(w.sigBytes)
           kept(k) == IF k = w.sigBytes \div 4
                      THEN At(w.words, k) \cap (32 - 8 * (w.sigBytes % 4)) .. 31
                      ELSE At(w.words, k)
           f == [k \in 1 .. n |-> kept(k - 1)]
<1>1. w.words \in Chain /\ w.sigBytes \in Nat
  BY DEF Arrays
<1>2. n \in Nat
  BY <1>1, WordsForIs
<1>3. ASSUME NEW k \in 1 .. n PROVE f[k] \in Word32
  <2>1. At(w.words, k - 1) \in Word32
    BY <1>1, <1>2, AtIs
  <2> QED
    BY <2>1 DEF Word32
<1>4. f \in [1 .. n -> Word32]
  BY <1>3
<1>5. Clamp(w) = WordArray(f, w.sigBytes)
  BY DEF Clamp
<1>6. ASSUME NEW k \in Nat, 4 * (k + 1) <= w.sigBytes PROVE k < n /\ f[k + 1] = At(w.words, k)
  <2>1. k < n
    <3>1. 4 * k < w.sigBytes
      BY <1>1, <1>6
    <3> QED
      BY <1>1, <3>1, WordsForIs
  <2>2. k # w.sigBytes \div 4
    BY <1>1, <1>6
  <2>3. k + 1 \in 1 .. n /\ (k + 1) - 1 = k
    BY <1>2, <2>1
  <2> QED
    BY <2>1, <2>2, <2>3
<1> HIDE DEF f
<1>7. f \in Chain /\ Len(f) = n /\ DOMAIN f = 1 .. n /\ Written(f) = f
  BY <1>2, <1>4, Listed DEF Chain
<1>8. Clamp(w) = [words |-> f, sigBytes |-> w.sigBytes]
  BY <1>5, <1>7 DEF WordArray
<1>9. ASSUME NEW k \in Nat, 4 * (k + 1) <= w.sigBytes PROVE At(f, k) = At(w.words, k)
  BY <1>2, <1>6, <1>7, <1>9 DEF At
<1> QED
  BY <1>1, <1>7, <1>8, <1>9 DEF Arrays

LEMMA PushedIs ==
    ASSUME NEW v \in Arrays
    PROVE  /\ Pushed(v) \in Chain
           /\ \A k \in Nat : k < WordsFor(v.sigBytes) => At(Pushed(v), k) = At(v.words, k)
           /\ \A k \in Nat : At(v.words, k) = {} => At(Pushed(v), k) = {}
           /\ Len(v.words) = WordsFor(v.sigBytes) => Pushed(v) = v.words
<1> DEFINE n == WordsFor(v.sigBytes)
           f == [k \in 1 .. n |-> At(v.words, k - 1)]
<1>1. v.words \in Chain /\ n \in Nat
  <2>1. v.words \in Chain /\ v.sigBytes \in Nat
    BY DEF Arrays
  <2> QED
    BY <2>1, WordsForIs
<1>2. Pushed(v) = v.words \/ Pushed(v) = f
  BY Zenon DEF Pushed
<1> HIDE DEF n
<1>3. f \in [1 .. n -> Word32]
  BY <1>1, AtIs
<1>4. f \in Chain /\ Len(f) = n
  BY <1>1, <1>3, Listed DEF Chain
<1>5. ASSUME NEW k \in Nat PROVE At(f, k) = IF k < n THEN At(v.words, k) ELSE {}
  <2>1. CASE k < n
    <3>1. k \in 0 .. (Len(f) - 1) /\ k + 1 \in 1 .. n /\ (k + 1) - 1 = k
      BY <1>1, <1>4, <2>1
    <3> QED
      BY <2>1, <3>1 DEF At
  <2>2. CASE ~(k < n)
    <3>1. k \notin 0 .. (Len(f) - 1)
      BY <1>1, <1>4, <2>2
    <3> QED
      BY <2>2, <3>1 DEF At
  <2> QED
    BY <2>1, <2>2
<1>6. Len(v.words) = n => f = v.words
  <2> SUFFICES ASSUME Len(v.words) = n PROVE f = v.words
    OBVIOUS
  <2> DEFINE w == v.words
  <2>1. w \in Seq(Word32) /\ Len(w) = n
    BY <1>1 DEF Chain
  <2>2. ASSUME NEW k \in 1 .. n PROVE f[k] = w[k]
    <3>1. k - 1 \in 0 .. Len(w) - 1 /\ (k - 1) + 1 = k
      BY <1>1, <2>1
    <3> QED
      BY <3>1 DEF At
  <2>3. f \in Seq(Word32) /\ Len(f) = n
    BY <1>4 DEF Chain
  <2> HIDE DEF f, w
  <2>4. f = w
    BY <2>1, <2>2, <2>3
  <2> QED
    BY <2>4 DEF w
<1> HIDE DEF f
<1>7. /\ Pushed(v) \in Chain
      /\ \A k \in Nat : k < n => At(Pushed(v), k) = At(v.words, k)
      /\ \A k \in Nat : At(v.words, k) = {} => At(Pushed(v), k) = {}
      /\ Len(v.words) = n => Pushed(v) = v.words
  BY <1>1, <1>2, <1>4, <1>5, <1>6
<1> QED
  BY <1>7 DEF n

LEMMA ConcatTyped ==
    ASSUME NEW w \in Arrays, NEW v \in Arrays
    PROVE  Concat(w, v) \in Arrays /\ Concat(w, v).sigBytes = w.sigBytes + v.sigBytes
<1>1. w.sigBytes \in Nat /\ v.sigBytes \in Nat /\ v.words \in Chain
  BY DEF Arrays
<1>2. CASE w.sigBytes % 4 # 0
  <2>1. /\ Bytes(w) \in Seq(Byte) /\ Bytes(v) \in Seq(Byte)
        /\ Len(Bytes(w)) = w.sigBytes /\ Len(Bytes(v)) = v.sigBytes
    BY BytesIs
  <2>2. Bytes(w) \o Bytes(v) \in Seq(Byte) /\ Len(Bytes(w) \o Bytes(v)) = w.sigBytes + v.sigBytes
    BY <2>1, ByteOfJoined
  <2> QED
    BY <1>2, <2>2, OfBytesIs DEF Concat
<1>3. CASE w.sigBytes % 4 = 0
  <2> DEFINE x == Clamp(w).words \o Pushed(v)
  <2>1. Clamp(w).words \in Chain
    BY ClampIs DEF Arrays
  <2>2. x \in Chain
    BY <2>1, PushedIs, AtJoined
  <2>3. Written(x) = x
    BY <2>2, WrittenIs DEF Chain
  <2> HIDE DEF x
  <2>4. Concat(w, v) = [words |-> x, sigBytes |-> w.sigBytes + v.sigBytes]
    BY <1>3, <2>3 DEF Concat, WordArray, x
  <2> QED
    BY <1>1, <2>2, <2>4 DEF Arrays
<1> QED
  BY <1>2, <1>3

\* Concat joins what the arrays hold, whether or not the first ends with a word.
LEMMA ConcatJoins ==
    ASSUME NEW a \in Seq(Byte), NEW b \in Seq(Byte)
    PROVE  Concat(OfBytes(a), OfBytes(b)) = OfBytes(a \o b)
<1> DEFINE w == OfBytes(a)
           v == OfBytes(b)
<1>1. /\ w \in Arrays /\ w.sigBytes = Len(a) /\ Len(w.words) = WordsFor(Len(a))
      /\ \A k \in Nat, j \in 0 .. 3 : ByteAt(At(w.words, k), j) = ByteOf(a, 4 * k + j)
  BY OfBytesIs
<1>2. /\ v \in Arrays /\ v.sigBytes = Len(b) /\ Len(v.words) = WordsFor(Len(b))
      /\ \A k \in Nat, j \in 0 .. 3 : ByteAt(At(v.words, k), j) = ByteOf(b, 4 * k + j)
  BY OfBytesIs
<1>3. Bytes(w) = a /\ Bytes(v) = b
  BY BytesOfBytes
<1> HIDE DEF w, v
<1>4. CASE Len(a) % 4 # 0
  BY <1>1, <1>3, <1>4 DEF Concat, w, v
<1>5. CASE Len(a) % 4 = 0
  <2> DEFINE m == Len(a) \div 4
             x == Clamp(w).words
             y == v.words
             c == Concat(w, v)
  <2>1. m \in Nat /\ 4 * m = Len(a)
    BY <1>5
  <2>2. x \in Chain /\ Len(x) = m /\ y \in Chain
    <3>1. WordsFor(4 * m) = m
      <4>1. 0 \in Nat
        OBVIOUS
      <4> QED
        BY <2>1, <4>1, WordsForIs
    <3> QED
      BY <1>1, <1>2, <2>1, <3>1, ClampIs DEF Arrays
  <2>3. c \in Arrays /\ c.sigBytes = Len(a \o b) /\ c.words = x \o y
    <3>0. Pushed(v) = y
      BY <1>2, PushedIs
    <3>1. c \in Arrays /\ c.sigBytes = Len(a) + Len(b)
      BY <1>1, <1>2, ConcatTyped
    <3>2. Written(x \o y) = x \o y
      BY <2>2, AtJoined, WrittenIs DEF Chain
    <3>3. c.words = x \o y
      BY <1>1, <1>5, <3>0, <3>2 DEF Concat, WordArray
    <3> QED
      BY <3>1, <3>3, ByteOfJoined
  <2>4. Len(c.words) = WordsFor(Len(a \o b))
    <3>1. Len(c.words) = m + WordsFor(Len(b))
      BY <1>2, <2>2, <2>3, AtJoined
    <3>2. Len(a \o b) = 4 * m + Len(b) /\ Len(b) \in Nat
      BY <2>1
    <3> QED
      BY <2>1, <3>1, <3>2, WordsForIs
  <2>5. ASSUME NEW k \in Nat, NEW j \in 0 .. 3
        PROVE  ByteAt(At(c.words, k), j) = ByteOf(a \o b, 4 * k + j)
    <3>1. CASE k < m
      <4>1. At(c.words, k) = At(w.words, k)
        <5>1. At(c.words, k) = At(x, k)
          BY <2>2, <2>3, <3>1, AtJoined
        <5>2. 4 * (k + 1) <= Len(a)
          BY <2>1, <3>1
        <5> QED
          BY <1>1, <5>1, <5>2, ClampIs
      <4>2. 4 * k + j \in Nat /\ 4 * k + j < Len(a)
        BY <2>1, <3>1
      <4>3. ByteOf(a \o b, 4 * k + j) = ByteOf(a, 4 * k + j)
        BY <4>2, ByteOfJoined
      <4> QED
        BY <1>1, <4>1, <4>2, <4>3
    <3>2. CASE k >= m
      <4>1. k - m \in Nat
        BY <2>1, <3>2
      <4>2. At(c.words, k) = At(y, k - m)
        <5> HIDE DEF m, x, y, c
        <5>1. At(x \o y, k) = IF k < Len(x) THEN At(x, k) ELSE At(y, k - Len(x))
          BY <2>2, AtJoined
        <5>2. ~ (k < Len(x)) /\ Len(x) = m
          BY <2>1, <2>2, <3>2
        <5> QED
          BY <2>3, <5>1, <5>2
      <4>3. 4 * k + j \in Nat /\ ~(4 * k + j < Len(a)) /\ (4 * k + j) - Len(a) = 4 * (k - m) + j
        BY <2>1, <3>2
      <4>4. ByteAt(At(c.words, k), j) = ByteOf(b, 4 * (k - m) + j)
        BY <1>2, <4>1, <4>2
      <4> QED
        BY <4>3, <4>4, ByteOfJoined
    <3> QED
      BY <2>1, <3>1, <3>2
  <2>6. a \o b \in Seq(Byte)
    OBVIOUS
  <2>7. c \in Arrays /\ c.sigBytes = Len(a \o b)
    BY <2>3
  <2> HIDE DEF c, m, x, y
  <2>8. c = OfBytes(a \o b)
    BY <2>4, <2>5, <2>6, <2>7, IsOfBytes
  <2> QED
    BY <2>8 DEF c, w, v
<1> QED
  BY <1>4, <1>5

-----------------------------------------------------------------------------
(* The blocks of a message *)

\* A loop whose passes make values of S of values of S: it ends in S, with the
\* last value of its run.
LEMMA PassedIs ==
    ASSUME NEW S, NEW n \in Nat, NEW g, \A i \in 0 .. n - 1, x \in S : g[i][x] \in S, NEW first \in S
    PROVE  /\ Passed(S, n, g, first) \in S
           /\ \A f : f[0] = first /\ Runs(f, S, n, g) => Passed(S, n, g, first) = f[n]
<1> DEFINE pass == CHOOSE p : Passes(p, S, n, g)
<1>1. Passed(S, n, g, first) = pass[0][first]
  BY DEF Passed, Passes
<1>2. Passes(pass, S, n, g)
  BY LoopExists
<1> HIDE DEF pass
<1>3. ASSUME NEW f, f[0] = first, Runs(f, S, n, g) PROVE pass[0][first] = f[n]
  BY <1>2, <1>3, LoopIs
<1>4. PICK f : f[0] = first /\ Runs(f, S, n, g)
  BY RunExists
<1>5. f[n] \in S
  BY <1>4 DEF Runs
<1>6. pass[0][first] \in S
  BY <1>3, <1>4, <1>5
<1> QED
  BY <1>1, <1>3, <1>6

\* What the method of each hasher gives for the words of a block is a chaining
\* value again: BlockFunctionsTyped, below.
BlockFunctionsAreTyped ==
    \A hasher \in HasherNames :
        \A H \in HashStates(hasher), M \in [1 .. BlockSize(hasher) -> Word32] :
            DoProcessBlock[hasher][H][M] \in HashStates(hasher)

LEMMA BlockSizes ==
    ASSUME NEW hasher \in HasherNames
    PROVE  BlockSize(hasher) \in {16, 18, 26, 32, 34, 36}
BY DEF HasherNames, BlockSize, Sha3Names, OutputLength, Sha3BlockSize

LEMMA Places16 ==
    ASSUME NEW size \in {16, 18, 26, 32, 34, 36}, NEW i \in Nat, NEW m \in Nat
    PROVE  /\ i * size \in Nat
           /\ (m + i) * size = m * size + i * size
           /\ i < m => \A k \in 0 .. size - 1 : i * size + k < m * size
           /\ (m * (4 * size)) = 4 * (m * size)
<1>1. CASE size = 16  BY <1>1
<1>2. CASE size = 18  BY <1>2
<1>3. CASE size = 26  BY <1>3
<1>4. CASE size = 32  BY <1>4
<1>5. CASE size = 34  BY <1>5
<1>6. CASE size = 36  BY <1>6
<1> QED
  BY <1>1, <1>2, <1>3, <1>4, <1>5, <1>6

LEMMA BlockIs ==
    ASSUME NEW words \in Chain, NEW offset \in Nat, NEW n \in Nat
    PROVE  /\ Block(words, offset, n) \in [1 .. n -> Word32]
           /\ Block(words, offset, n) = [i \in 1 .. n |-> At(words, offset + i - 1)]
<1> DEFINE f == [i \in 1 .. n |-> At(words, offset + i - 1)]
<1>1. f \in [1 .. n -> Word32]
  <2>1. ASSUME NEW i \in 1 .. n PROVE At(words, offset + i - 1) \in Word32
    <3>1. offset + i - 1 \in Int
      OBVIOUS
    <3> QED
      BY <3>1, AtIs
  <2> QED
    BY <2>1
<1>2. Block(words, offset, n) = Written(f)
  BY DEF Block
<1> HIDE DEF f
<1>3. Written(f) = f
  BY <1>1, Listed
<1> QED
  BY <1>1, <1>2, <1>3 DEF f

\* The chaining value after the first n blocks of an array.
Absorbed(hasher, words, n, H) ==
    Loop(HashStates(hasher), n,
         LAMBDA K, i : DoProcessBlock[hasher][K][Block(words, i * BlockSize(hasher), BlockSize(hasher))], H)
\* The chaining values on the way: f[i] after i blocks.
Absorbs(hasher, words, n, f) ==
    /\ \A i \in 0 .. n : f[i] \in HashStates(hasher)
    /\ \A i \in 0 .. n - 1 :
          f[i + 1] = DoProcessBlock[hasher][f[i]][Block(words, i * BlockSize(hasher), BlockSize(hasher))]

LEMMA NextIsTyped ==
    ASSUME BlockFunctionsAreTyped, NEW hasher \in HasherNames, NEW words \in Chain, NEW i \in Nat,
           NEW K \in HashStates(hasher)
    PROVE  DoProcessBlock[hasher][K][Block(words, i * BlockSize(hasher), BlockSize(hasher))] \in HashStates(hasher)
<1> DEFINE size == BlockSize(hasher)
<1>1. size \in Nat /\ i * size \in Nat
  BY BlockSizes, Places16
<1> HIDE DEF size
<1>2. Block(words, i * size, size) \in [1 .. size -> Word32]
  BY <1>1, BlockIs
<1> QED
  BY <1>2 DEF size, BlockFunctionsAreTyped

LEMMA AbsorbsExists ==
    ASSUME BlockFunctionsAreTyped, NEW hasher \in HasherNames, NEW words \in Chain, NEW n \in Nat,
           NEW H \in HashStates(hasher)
    PROVE  \E f : f[0] = H /\ Absorbs(hasher, words, n, f)
<1> DEFINE S == HashStates(hasher)
           Next1(K, i) == DoProcessBlock[hasher][K][Block(words, i * BlockSize(hasher), BlockSize(hasher))]
           g == [i \in 0 .. n - 1 |-> [K \in S |-> Next1(K, i)]]
<1>1. \A i \in 0 .. n - 1, K \in S : g[i][K] = Next1(K, i) /\ Next1(K, i) \in S
  BY NextIsTyped
<1> HIDE DEF Next1, S, g
<1>2. PICK f : f[0] = H /\ Runs(f, S, n, g)
  <2>1. H \in S
    BY DEF S
  <2> QED
    BY <1>1, <2>1, RunExists
<1>3. (\A i \in 0 .. n : f[i] \in S) /\ \A i \in 0 .. n - 1 : f[i + 1] = Next1(f[i], i)
  BY <1>1, <1>2 DEF Runs
<1> QED
  BY <1>2, <1>3 DEF Absorbs, Next1, S

LEMMA AbsorbedIs ==
    ASSUME BlockFunctionsAreTyped, NEW hasher \in HasherNames, NEW words \in Chain, NEW n \in Nat,
           NEW f, Absorbs(hasher, words, n, f)
    PROVE  Absorbed(hasher, words, n, f[0]) = f[n]
<1> DEFINE S == HashStates(hasher)
           Next1(K, i) == DoProcessBlock[hasher][K][Block(words, i * BlockSize(hasher), BlockSize(hasher))]
           g == [i \in 0 .. n - 1 |-> [K \in S |-> Next1(K, i)]]
<1>1. \A i \in 0 .. n - 1, K \in S : g[i][K] = Next1(K, i) /\ Next1(K, i) \in S
  BY NextIsTyped
<1>2. Absorbed(hasher, words, n, f[0]) = Passed(S, n, g, f[0])
  BY DEF Absorbed, Loop
<1>3. (\A i \in 0 .. n : f[i] \in S) /\ \A i \in 0 .. n - 1 : f[i + 1] = Next1(f[i], i)
  BY DEF Absorbs
<1> HIDE DEF S, Next1, g
<1>4. Runs(f, S, n, g) /\ f[0] \in S
  BY <1>1, <1>3 DEF Runs
<1>5. \A h : h[0] = f[0] /\ Runs(h, S, n, g) => Passed(S, n, g, f[0]) = h[n]
  BY <1>1, <1>4, PassedIs
<1> QED
  BY <1>2, <1>4, <1>5

\* Block by block, the chaining values of an array are those of its parts.
LEMMA AbsorbedInParts ==
    ASSUME BlockFunctionsAreTyped, NEW hasher \in HasherNames, NEW x \in Chain, NEW y \in Chain,
           NEW m \in Nat, NEW n \in Nat, NEW H \in HashStates(hasher), Len(x) = m * BlockSize(hasher)
    PROVE  /\ Absorbed(hasher, x, m, H) \in HashStates(hasher)
           /\ Absorbed(hasher, x \o y, m + n, H) = Absorbed(hasher, y, n, Absorbed(hasher, x, m, H))
<1> DEFINE size == BlockSize(hasher)
           S == HashStates(hasher)
<1>1. size \in {16, 18, 26, 32, 34, 36} /\ Len(x) = m * size
  BY BlockSizes
<1> HIDE DEF size, S
<1>2. PICK f : f[0] = H /\ Absorbs(hasher, x, m, f)
  BY AbsorbsExists
<1>3. Absorbed(hasher, x, m, H) = f[m] /\ f[m] \in S
  <2>1. f[m] \in S
    BY <1>2 DEF Absorbs, S
  <2> QED
    BY <1>2, <2>1, AbsorbedIs
<1>4. PICK g : g[0] = f[m] /\ Absorbs(hasher, y, n, g)
  BY <1>3, AbsorbsExists DEF S
<1>5. Absorbed(hasher, y, n, f[m]) = g[n]
  BY <1>4, AbsorbedIs
<1> DEFINE h == [i \in 0 .. m + n |-> IF i <= m THEN f[i] ELSE g[i - m]]
<1>6. \A i \in 0 .. m : h[i] = f[i]
  OBVIOUS
<1>7. \A i \in 0 .. n : h[m + i] = g[i]
  <2> SUFFICES ASSUME NEW i \in 0 .. n PROVE h[m + i] = g[i]
    OBVIOUS
  <2>1. CASE i = 0
    BY <1>4, <2>1
  <2>2. CASE i # 0
    <3>1. m + i \in 0 .. m + n /\ ~ (m + i <= m) /\ (m + i) - m = i
      BY <2>2
    <3> QED
      BY <3>1
  <2> QED
    BY <2>1, <2>2
<1> HIDE DEF h
<1>8. x \o y \in Chain
  BY DEF Chain
<1>9. ASSUME NEW i \in 0 .. m - 1 PROVE Block(x \o y, i * size, size) = Block(x, i * size, size)
  <2> DEFINE p == i * size
  <2>1. p \in Nat /\ size \in Nat /\ \A k \in 0 .. size - 1 : p + k < Len(x)
    BY <1>1, Places16
  <2> HIDE DEF p
  <2>2. ASSUME NEW k \in 1 .. size PROVE At(x \o y, p + k - 1) = At(x, p + k - 1)
    <3>1. k - 1 \in 0 .. size - 1 /\ p + (k - 1) = p + k - 1
      BY <2>1
    <3>2. p + k - 1 \in Nat /\ p + k - 1 < Len(x)
      BY <2>1, <3>1
    <3> QED
      BY <3>2, AtJoined
  <2>3. Block(x \o y, p, size) = [k \in 1 .. size |-> At(x \o y, p + k - 1)]
    BY <1>8, <2>1, BlockIs
  <2>4. Block(x, p, size) = [k \in 1 .. size |-> At(x, p + k - 1)]
    BY <2>1, BlockIs
  <2>5. Block(x \o y, p, size) = Block(x, p, size)
    BY <2>2, <2>3, <2>4
  <2> QED
    BY <2>5 DEF p
<1>10. ASSUME NEW i \in 0 .. n - 1 PROVE Block(x \o y, (m + i) * size, size) = Block(y, i * size, size)
  <2> DEFINE p == i * size
             q == (m + i) * size
  <2>1. p \in Nat /\ q \in Nat /\ size \in Nat /\ q = Len(x) + p
    <3>1. p \in Nat /\ m * size \in Nat /\ size \in Nat /\ q = m * size + p
      BY <1>1, Places16
    <3> HIDE DEF p, q
    <3> QED
      BY <1>1, <3>1
  <2> HIDE DEF p, q
  <2>2. ASSUME NEW k \in 1 .. size PROVE At(x \o y, q + k - 1) = At(y, p + k - 1)
    <3> DEFINE l == Len(x)
               r == q + k - 1
    <3>1. l \in Nat
      BY DEF Chain
    <3> HIDE DEF l
    <3>2. r \in Nat /\ ~ (r < l) /\ r - l = p + k - 1
      BY <2>1, <3>1 DEF l
    <3> HIDE DEF r
    <3>3. At(x \o y, r) = IF r < l THEN At(x, r) ELSE At(y, r - l)
      BY <3>2, AtJoined DEF l
    <3>4. At(x \o y, r) = At(y, p + k - 1)
      BY <3>2, <3>3
    <3> QED
      BY <3>4 DEF r
  <2>3. Block(x \o y, q, size) = [k \in 1 .. size |-> At(x \o y, q + k - 1)]
    BY <1>8, <2>1, BlockIs
  <2>4. Block(y, p, size) = [k \in 1 .. size |-> At(y, p + k - 1)]
    BY <2>1, BlockIs
  <2>5. Block(x \o y, q, size) = Block(y, p, size)
    BY <2>2, <2>3, <2>4
  <2> QED
    BY <2>5 DEF p, q
<1>11. Absorbs(hasher, x \o y, m + n, h)
  <2>1. ASSUME NEW i \in 0 .. m + n PROVE h[i] \in S
    <3>1. CASE i <= m
      BY <1>2, <1>6, <3>1 DEF Absorbs, S
    <3>2. CASE i > m
      <4>1. i - m \in 0 .. n /\ m + (i - m) = i
        BY <3>2
      <4> QED
        BY <1>4, <1>7, <4>1 DEF Absorbs, S
    <3> QED
      BY <3>1, <3>2
  <2>2. ASSUME NEW i \in 0 .. (m + n) - 1
        PROVE  h[i + 1] = DoProcessBlock[hasher][h[i]][Block(x \o y, i * size, size)]
    <3>1. CASE i < m
      <4>1. i \in 0 .. m - 1 /\ h[i] = f[i] /\ h[i + 1] = f[i + 1]
        BY <1>6, <3>1
      <4>2. f[i + 1] = DoProcessBlock[hasher][f[i]][Block(x, i * size, size)]
        BY <1>2, <4>1 DEF Absorbs, size
      <4> QED
        BY <1>9, <4>1, <4>2
    <3>2. CASE i >= m
      <4>1. PICK j \in 0 .. n - 1 : i = m + j
        <5>1. i - m \in 0 .. n - 1 /\ i = m + (i - m)
          BY <3>2
        <5> QED
          BY <5>1
      <4>2. h[i] = g[j] /\ h[i + 1] = g[j + 1]
        <5>1. j \in 0 .. n /\ j + 1 \in 0 .. n /\ i + 1 = m + (j + 1)
          BY <4>1
        <5> QED
          BY <1>7, <4>1, <5>1
      <4>3. g[j + 1] = DoProcessBlock[hasher][g[j]][Block(y, j * size, size)]
        BY <1>4, <4>1 DEF Absorbs, size
      <4> QED
        BY <1>10, <4>1, <4>2, <4>3
    <3> QED
      BY <3>1, <3>2
  <2> QED
    BY <2>1, <2>2 DEF Absorbs, size, S
<1>12. Absorbed(hasher, x \o y, m + n, h[0]) = h[m + n]
  BY <1>8, <1>11, AbsorbedIs, m + n \in Nat
<1>13. h[0] = H /\ h[m + n] = g[n]
  BY <1>2, <1>6, <1>7
<1> QED
  BY <1>3, <1>5, <1>12, <1>13 DEF S

LEMMA AbsorbedTyped ==
    ASSUME BlockFunctionsAreTyped, NEW hasher \in HasherNames, NEW x \in Chain,
           NEW n \in Nat, NEW H \in HashStates(hasher)
    PROVE  /\ Absorbed(hasher, x, n, H) \in HashStates(hasher)
           /\ Absorbed(hasher, x, 0, H) = H
<1>1. PICK f : f[0] = H /\ Absorbs(hasher, x, n, f)
  BY AbsorbsExists
<1>2. Absorbed(hasher, x, n, H) = f[n] /\ f[n] \in HashStates(hasher)
  <2>1. f[n] \in HashStates(hasher)
    BY <1>1 DEF Absorbs
  <2> QED
    BY <1>1, <2>1, AbsorbedIs
<1>3. Absorbs(hasher, x, 0, f)
  BY <1>1 DEF Absorbs
<1>4. Absorbed(hasher, x, 0, f[0]) = f[0]
  BY <1>3, AbsorbedIs
<1> QED
  BY <1>1, <1>2, <1>4

\* The words of an array that begins with whole words.
LEMMA WordsJoined ==
    ASSUME NEW a \in Seq(Byte), NEW b \in Seq(Byte), NEW m \in Nat, Len(a) = 4 * m
    PROVE  /\ OfBytes(a).words \in Chain /\ OfBytes(b).words \in Chain
           /\ Len(OfBytes(a).words) = m
           /\ OfBytes(a \o b).words = OfBytes(a).words \o OfBytes(b).words
           /\ OfBytes(a \o b).sigBytes = Len(a) + Len(b)
<1> DEFINE w == OfBytes(a)
           v == OfBytes(b)
           x == w.words
           y == v.words
           c == [words |-> x \o y, sigBytes |-> Len(a \o b)]
<1>1. /\ w \in Arrays /\ w.sigBytes = Len(a) /\ Len(w.words) = WordsFor(Len(a))
      /\ \A k \in Nat, j \in 0 .. 3 : ByteAt(At(w.words, k), j) = ByteOf(a, 4 * k + j)
  BY OfBytesIs
<1>2. /\ v \in Arrays /\ v.sigBytes = Len(b) /\ Len(v.words) = WordsFor(Len(b))
      /\ \A k \in Nat, j \in 0 .. 3 : ByteAt(At(v.words, k), j) = ByteOf(b, 4 * k + j)
  BY OfBytesIs
<1> HIDE DEF w, v
<1>3. x \in Chain /\ y \in Chain /\ Len(x) = m /\ Len(y) = WordsFor(Len(b))
  <2>1. WordsFor(4 * m) = m
    <3>1. 0 \in Nat
      OBVIOUS
    <3> QED
      BY <3>1, WordsForIs
  <2> QED
    BY <1>1, <1>2, <2>1 DEF Arrays
<1>4. Len(a \o b) = 4 * m + Len(b) /\ Len(b) \in Nat /\ a \o b \in Seq(Byte)
  OBVIOUS
<1>5. x \o y \in Chain /\ Len(x \o y) = m + WordsFor(Len(b))
  BY <1>3, AtJoined
<1>a. Len(a \o b) \in Nat
  OBVIOUS
<1>b. \A k \in Nat, j \in 0 .. 3 :
         ByteAt(At(x, k), j) = ByteOf(a, 4 * k + j) /\ ByteAt(At(y, k), j) = ByteOf(b, 4 * k + j)
  BY <1>1, <1>2
<1> HIDE DEF x, y
<1>6. c \in Arrays /\ c.sigBytes = Len(a \o b) /\ c.words = x \o y
  BY <1>5, <1>a DEF Arrays
<1>7. Len(c.words) = WordsFor(Len(a \o b))
  BY <1>4, <1>5, <1>6, WordsForIs
<1> HIDE DEF c
<1>8. ASSUME NEW k \in Nat, NEW j \in 0 .. 3
      PROVE  ByteAt(At(c.words, k), j) = ByteOf(a \o b, 4 * k + j)
  <2>1. At(x \o y, k) = IF k < m THEN At(x, k) ELSE At(y, k - m)
    BY <1>3, AtJoined
  <2>2. ByteOf(a \o b, 4 * k + j) = IF 4 * k + j < Len(a) THEN ByteOf(a, 4 * k + j) ELSE ByteOf(b, (4 * k + j) - Len(a))
    BY ByteOfJoined, 4 * k + j \in Nat
  <2>3. CASE k < m
    <3>1. 4 * k + j < Len(a)
      BY <2>3
    <3> QED
      BY <1>b, <1>6, <2>1, <2>2, <2>3, <3>1
  <2>4. CASE k >= m
    <3>1. k - m \in Nat
      BY <2>4
    <3>2. ~ (4 * k + j < Len(a)) /\ (4 * k + j) - Len(a) = 4 * (k - m) + j /\ ~ (k < m)
      BY <2>4
    <3>3. ByteAt(At(y, k - m), j) = ByteOf(b, 4 * (k - m) + j)
      BY <1>b, <3>1
    <3> QED
      BY <1>6, <2>1, <2>2, <3>2, <3>3
  <2> QED
    BY <2>3, <2>4
<1>9. c = OfBytes(a \o b)
  BY <1>4, <1>6, <1>7, <1>8, IsOfBytes
<1> QED
  BY <1>3, <1>4, <1>6, <1>9 DEF w, v, x, y

-----------------------------------------------------------------------------
(* What is written after the message *)

LEMMA SameWords ==
    ASSUME NEW x \in Chain, NEW y \in Chain, Len(x) = Len(y),
           \A k \in 0 .. Len(x) - 1 : At(x, k) = At(y, k)
    PROVE  x = y
<1>1. x \in Seq(Word32) /\ y \in Seq(Word32) /\ Len(x) \in Nat
  BY DEF Chain
<1>2. ASSUME NEW i \in 1 .. Len(x) PROVE x[i] = y[i]
  <2>1. i - 1 \in 0 .. Len(x) - 1 /\ (i - 1) + 1 = i
    BY <1>1
  <2>2. At(x, i - 1) = x[i] /\ At(y, i - 1) = y[i]
    BY <2>1 DEF At
  <2> QED
    BY <2>1, <2>2
<1> QED
  BY <1>1, <1>2, SameSeq

LEMMA SetAtIs ==
    ASSUME NEW words \in Chain, NEW i \in Nat, NEW x \in Word32
    PROVE  /\ SetAt(words, i, x) \in Chain
           /\ Len(SetAt(words, i, x)) = IF Len(words) > i THEN Len(words) ELSE i + 1
           /\ \A k \in Nat : At(SetAt(words, i, x), k) = IF k = i THEN x ELSE At(words, k)
<1> DEFINE n == Max({Len(words), i + 1})
           f == [j \in 1 .. n |-> IF j = i + 1 THEN x ELSE At(words, j - 1)]
<1>1. Len(words) \in Nat
  BY DEF Chain
<1>2. n \in Nat /\ n = IF Len(words) > i THEN Len(words) ELSE i + 1
  BY <1>1 DEF Max
<1>3. f \in [1 .. n -> Word32]
  <2>1. ASSUME NEW j \in 1 .. n PROVE At(words, j - 1) \in Word32
    <3>1. j - 1 \in Int
      BY <1>2
    <3> QED
      BY <3>1, AtIs
  <2> QED
    BY <2>1
<1>4. \A k \in Nat : k < n => f[k + 1] = IF k = i THEN x ELSE At(words, k)
  <2> SUFFICES ASSUME NEW k \in Nat, k < n PROVE f[k + 1] = IF k = i THEN x ELSE At(words, k)
    OBVIOUS
  <2>1. k + 1 \in 1 .. n /\ (k + 1) - 1 = k /\ (k + 1 = i + 1 <=> k = i)
    BY <1>2
  <2> QED
    BY <2>1
<1>5. SetAt(words, i, x) = f
  BY DEF SetAt
<1> HIDE DEF f, n
<1>6. f \in Chain /\ Len(f) = n
  BY <1>2, <1>3, Listed DEF Chain
<1>7. ASSUME NEW k \in Nat PROVE At(f, k) = IF k = i THEN x ELSE At(words, k)
  <2>1. CASE k < n
    <3>1. At(f, k) = f[k + 1]
      BY <1>2, <1>6, <2>1 DEF At
    <3> QED
      BY <1>4, <2>1, <3>1
  <2>2. CASE k >= n
    <3>1. At(f, k) = {}
      BY <1>2, <1>6, <2>2 DEF At
    <3>2. k # i /\ k >= Len(words)
      BY <1>1, <1>2, <2>2
    <3> QED
      BY <3>1, <3>2, AtIs
  <2> QED
    BY <1>2, <2>1, <2>2
<1> QED
  BY <1>2, <1>5, <1>6, <1>7

LEMMA SetAtJoined ==
    ASSUME NEW x \in Chain, NEW y \in Chain, NEW i \in Nat, NEW v \in Word32
    PROVE  SetAt(x \o y, Len(x) + i, v) = x \o SetAt(y, i, v)
<1> DEFINE m == Len(x)
           n == Len(y)
           s == SetAt(x \o y, m + i, v)
           t == SetAt(y, i, v)
<1>1. m \in Nat /\ n \in Nat /\ x \o y \in Chain /\ Len(x \o y) = m + n
  BY AtJoined DEF Chain
<1>2. m + i \in Nat
  BY <1>1
<1>3. /\ s \in Chain /\ Len(s) = IF m + n > m + i THEN m + n ELSE m + i + 1
      /\ \A k \in Nat : At(s, k) = IF k = m + i THEN v ELSE At(x \o y, k)
  <2> DEFINE z == x \o y
             p == m + i
  <2>1. z \in Chain /\ Len(z) = m + n /\ p \in Nat
    BY <1>1, <1>2
  <2> HIDE DEF z, p
  <2>2. /\ SetAt(z, p, v) \in Chain
        /\ Len(SetAt(z, p, v)) = IF Len(z) > p THEN Len(z) ELSE p + 1
        /\ \A k \in Nat : At(SetAt(z, p, v), k) = IF k = p THEN v ELSE At(z, k)
    <3>1. SetAt(z, p, v) \in Chain
      BY <2>1, SetAtIs
    <3>2. Len(SetAt(z, p, v)) = IF Len(z) > p THEN Len(z) ELSE p + 1
      BY <2>1, SetAtIs
    <3>3. \A k \in Nat : At(SetAt(z, p, v), k) = IF k = p THEN v ELSE At(z, k)
      <4>1. z \in Chain /\ p \in Nat
        BY <2>1
      <4> QED
        BY <4>1, SetAtIs
    <3> QED
      BY <3>1, <3>2, <3>3
  <2> QED
    BY <2>1, <2>2 DEF z, p
<1>4. /\ t \in Chain /\ Len(t) = IF n > i THEN n ELSE i + 1
      /\ \A k \in Nat : At(t, k) = IF k = i THEN v ELSE At(y, k)
  <2>1. SetAt(y, i, v) \in Chain
    BY SetAtIs
  <2>2. Len(SetAt(y, i, v)) = IF Len(y) > i THEN Len(y) ELSE i + 1
    BY SetAtIs
  <2>3. \A k \in Nat : At(SetAt(y, i, v), k) = IF k = i THEN v ELSE At(y, k)
    BY SetAtIs
  <2> QED
    BY <2>1, <2>2, <2>3
<1> HIDE DEF s, t, m, n
<1>5. /\ x \o t \in Chain /\ Len(x \o t) = m + Len(t)
      /\ \A k \in Nat : At(x \o t, k) = IF k < m THEN At(x, k) ELSE At(t, k - m)
  BY <1>4, AtJoined DEF m
<1>6. Len(s) = Len(x \o t)
  BY <1>1, <1>3, <1>4, <1>5
<1>7. ASSUME NEW k \in Nat PROVE At(s, k) = At(x \o t, k)
  <2>1. At(x \o y, k) = IF k < m THEN At(x, k) ELSE At(y, k - m)
    BY AtJoined DEF m
  <2>2. CASE k < m
    BY <1>1, <1>3, <1>5, <2>1, <2>2
  <2>3. CASE k >= m
    <3>1. k - m \in Nat /\ (k = m + i <=> k - m = i)
      BY <1>1, <2>3
    <3>2. At(t, k - m) = IF k - m = i THEN v ELSE At(y, k - m)
      BY <1>4, <3>1
    <3> QED
      BY <1>1, <1>3, <1>5, <2>1, <2>3, <3>1, <3>2
  <2> QED
    BY <1>1, <2>2, <2>3
<1>8. s = x \o t
  <2>1. \A k \in 0 .. Len(s) - 1 : At(s, k) = At(x \o t, k)
    BY <1>7
  <2> DEFINE z == x \o t
  <2>2. s \in Chain /\ z \in Chain /\ Len(s) = Len(z)
    BY <1>3, <1>5, <1>6
  <2>3. \A k \in 0 .. Len(s) - 1 : At(s, k) = At(z, k)
    BY <2>1
  <2> HIDE DEF z
  <2>4. s = z
    BY <2>2, <2>3, SameWords
  <2> QED
    BY <2>4 DEF z
<1> QED
  BY <1>8 DEF s, t, m

LEMMA WordsWritten ==
    /\ \A n \in Nat : WordOfNat(n) \in Word32
    /\ \A x \in Word32 : SwapBytes(x) \in Word32
    /\ \A x, y \in Word32 : x \cup y \in Word32
    /\ \A bit \in 0 .. 7, j \in 0 .. 3 : Shl({bit}, 24 - 8 * j) \in Word32
<1>1. ASSUME NEW x \in Word32 PROVE SwapBytes(x) \in Word32
  <2>1. \A i \in 0 .. 31 : 8 * (3 - (i \div 8)) + (i % 8) \in 0 .. 31
    OBVIOUS
  <2> QED
    BY <2>1 DEF SwapBytes, Word32, Places
<1>2. ASSUME NEW bit \in 0 .. 7, NEW j \in 0 .. 3 PROVE Shl({bit}, 24 - 8 * j) \in Word32
  <2>1. \A i \in {bit} \cap 0 .. (31 - (24 - 8 * j)) : i + (24 - 8 * j) \in 0 .. 31
    OBVIOUS
  <2> QED
    BY <2>1 DEF Shl, Word32, Places
<1> QED
  BY <1>1, <1>2 DEF WordOfNat, Word32, Places

\* d is e after the whole words x.
Begins(x, d, e) ==
    /\ x \in Chain /\ e \in Arrays /\ d \in Arrays
    /\ d.words = x \o e.words
    /\ d.sigBytes = 4 * Len(x) + e.sigBytes

LEMMA MarkEndTyped ==
    ASSUME NEW d \in Arrays, NEW bit \in 0 .. 7
    PROVE  MarkEnd(d, bit) \in Chain
<1>1. d.words \in Chain /\ d.sigBytes \in Nat
  BY DEF Arrays
<1>2. d.sigBytes \div 4 \in Nat /\ d.sigBytes % 4 \in 0 .. 3
  BY <1>1
<1>3. At(d.words, d.sigBytes \div 4) \in Word32 /\ Shl({bit}, 24 - 8 * (d.sigBytes % 4)) \in Word32
  <2>1. d.sigBytes \div 4 \in Int
    BY <1>2
  <2> HIDE DEF Chain
  <2>2. At(d.words, d.sigBytes \div 4) \in Word32
    BY <1>1, <2>1, AtIs
  <2> QED
    BY <1>2, <2>2, WordsWritten
<1>4. At(d.words, d.sigBytes \div 4) \cup Shl({bit}, 24 - 8 * (d.sigBytes % 4)) \in Word32
  BY <1>3, WordsWritten
<1> QED
  BY <1>1, <1>2, <1>4, SetAtIs DEF MarkEnd

LEMMA MarkEndJoined ==
    ASSUME NEW x, NEW d, NEW e, Begins(x, d, e), NEW bit \in 0 .. 7
    PROVE  MarkEnd(d, bit) = x \o MarkEnd(e, bit)
<1> DEFINE m == Len(x)
           y == e.words
           s == e.sigBytes
           k == s \div 4
           mark == Shl({bit}, 24 - 8 * (s % 4))
<1>1. x \in Chain /\ y \in Chain /\ s \in Nat /\ m \in Nat /\ d.words = x \o y /\ d.sigBytes = 4 * m + s
  BY DEF Begins, Arrays, Chain
<1>2. k \in Nat /\ s % 4 \in 0 .. 3 /\ (4 * m + s) \div 4 = m + k /\ (4 * m + s) % 4 = s % 4
  <2> HIDE DEF m, s
  <2> QED
    BY <1>1
<1>3. mark \in Word32 /\ At(y, k) \in Word32
  <2>1. mark \in Word32
    BY <1>2, WordsWritten
  <2> HIDE DEF k, y, s
  <2>2. k \in Int
    BY <1>2
  <2> QED
    BY <1>1, <2>1, <2>2, AtIs
<1>4. At(y, k) \cup mark \in Word32
  BY <1>3, WordsWritten
<1>5. MarkEnd(d, bit) = SetAt(x \o y, m + k, At(x \o y, m + k) \cup mark)
  BY <1>1, <1>2 DEF MarkEnd
<1>6. MarkEnd(e, bit) = SetAt(y, k, At(y, k) \cup mark)
  BY DEF MarkEnd
<1> HIDE DEF k, mark, y, s
<1>7. At(x \o y, m + k) = At(y, k)
  <2>1. m + k \in Nat /\ ~ (m + k < m) /\ (m + k) - m = k
    BY <1>1, <1>2
  <2> QED
    BY <1>1, <2>1, AtJoined
<1>8. SetAt(x \o y, m + k, At(y, k) \cup mark) = x \o SetAt(y, k, At(y, k) \cup mark)
  BY <1>1, <1>2, <1>4, SetAtJoined
<1> QED
  BY <1>5, <1>6, <1>7, <1>8

LEMMA ArrayIs ==
    ASSUME NEW words \in Chain, NEW n \in Nat
    PROVE  /\ WordArray(words, n) = [words |-> words, sigBytes |-> n]
           /\ WordArray(words, n) \in Arrays
           /\ Create(words) = WordArray(words, 4 * Len(words)) /\ Create(words) \in Arrays
           /\ OneWordMore(words) = WordArray(words, 4 * (Len(words) + 1)) /\ OneWordMore(words) \in Arrays
<1>1. Written(words) = words /\ Len(words) \in Nat
  BY WrittenIs DEF Chain
<1> QED
  BY <1>1 DEF WordArray, Arrays, Create, OneWordMore

LEMMA JoinedMore ==
    ASSUME NEW x \in Chain, NEW y \in Chain
    PROVE  /\ Begins(x, Create(x \o y), Create(y))
           /\ Begins(x, OneWordMore(x \o y), OneWordMore(y))
<1> DEFINE z == x \o y
<1>1. z \in Chain /\ Len(z) = Len(x) + Len(y) /\ Len(x) \in Nat /\ Len(y) \in Nat
  BY AtJoined DEF Chain
<1>a. Len(z) \in Nat
  BY <1>1
<1> HIDE DEF z
<1>2. /\ Create(z) \in Arrays /\ Create(z).words = z /\ Create(z).sigBytes = 4 * Len(z)
      /\ OneWordMore(z) \in Arrays /\ OneWordMore(z).words = z /\ OneWordMore(z).sigBytes = 4 * (Len(z) + 1)
  <2>1. z \in Chain /\ 4 * Len(z) \in Nat /\ 4 * (Len(z) + 1) \in Nat
    BY <1>1, <1>a
  <2> QED
    BY <2>1, ArrayIs
<1>3. /\ Create(y) \in Arrays /\ Create(y).words = y /\ Create(y).sigBytes = 4 * Len(y)
      /\ OneWordMore(y) \in Arrays /\ OneWordMore(y).words = y /\ OneWordMore(y).sigBytes = 4 * (Len(y) + 1)
  BY <1>1, ArrayIs
<1>4. Begins(x, Create(z), Create(y)) /\ Begins(x, OneWordMore(z), OneWordMore(y))
  BY <1>1, <1>2, <1>3 DEF Begins, z
<1> QED
  BY <1>4 DEF z

\* The place of the length in the last block.
LEMMA LastPlaces ==
    ASSUME NEW s \in Nat
    PROVE  /\ (((8 * s) + 64) \div 512) * 16 + 14 \in Nat
           /\ ((((8 * s) + 128) \div 1024) * 32) + 30 \in Nat
           /\ \A B \in {18, 26, 34, 36} : (((s + 4 * B) \div (4 * B)) * B) - 1 \in Nat
<1>1. ASSUME NEW B \in {18, 26, 34, 36} PROVE (((s + 4 * B) \div (4 * B)) * B) - 1 \in Nat
  <2>1. CASE B = 18  BY <2>1
  <2>2. CASE B = 26  BY <2>2
  <2>3. CASE B = 34  BY <2>3
  <2>4. CASE B = 36  BY <2>4
  <2> QED
    BY <2>1, <2>2, <2>3, <2>4
<1> QED
  BY <1>1

LEMMA PadTyped ==
    ASSUME NEW e \in Arrays, NEW N \in Nat
    PROVE  /\ ShaPad(e, N) \in Arrays /\ Md5Pad(e, N) \in Arrays /\ Ripemd160Pad(e, N) \in Arrays
           /\ Sha512Pad(e, N) \in Arrays
           /\ \A length \in {224, 256, 384, 512} : Sha3Pad(e, length) \in Arrays
<1> DEFINE marked == MarkEnd(e, 7)
           L == LengthAt(e)
           last == ((((8 * e.sigBytes) + 128) \div 1024) * 32) + 30
           len == WordOfNat(8 * N)
<1>1. e.sigBytes \in Nat
  BY DEF Arrays
<1>2. marked \in Chain /\ MarkEnd(e, 0) \in Chain
  BY MarkEndTyped
<1>3. L \in Nat /\ L + 1 \in Nat /\ last \in Nat /\ last + 1 \in Nat
  <2>1. L \in Nat /\ last \in Nat
    BY <1>1, LastPlaces DEF LengthAt
  <2> QED
    BY <2>1
<1>4. len \in Word32 /\ SwapBytes(len) \in Word32 /\ {} \in Word32
  BY WordsWritten, BytesOfAnyWord, 8 * N \in Nat
<1> HIDE DEF marked, L, last, len
<1>5. \A i \in Nat, w \in Word32, words \in Chain : SetAt(words, i, w) \in Chain
  BY SetAtIs
<1>6. /\ SetAt(SetAt(marked, L, {}), L + 1, len) \in Chain
      /\ SetAt(SetAt(marked, L + 1, {}), L, SwapBytes(len)) \in Chain
      /\ SetAt(marked, L, SwapBytes(len)) \in Chain
      /\ SetAt(SetAt(marked, last, {}), last + 1, len) \in Chain
  <2>1. /\ SetAt(marked, L, {}) \in Chain /\ SetAt(marked, L + 1, {}) \in Chain /\ SetAt(marked, last, {}) \in Chain
        /\ SetAt(marked, L, SwapBytes(len)) \in Chain
    BY <1>2, <1>3, <1>4, <1>5
  <2> QED
    BY <1>3, <1>4, <1>5, <2>1
<1>7. ShaPad(e, N) \in Arrays
  BY <1>6, ArrayIs DEF ShaPad, marked, L, len
<1>8. Md5Pad(e, N) \in Arrays
  BY <1>6, ArrayIs DEF Md5Pad, marked, L, len
<1>9. Ripemd160Pad(e, N) \in Arrays
  BY <1>6, ArrayIs DEF Ripemd160Pad, marked, L, len
<1>10. Sha512Pad(e, N) \in Arrays
  BY <1>6, ArrayIs DEF Sha512Pad, marked, last, len
<1>11. ASSUME NEW length \in {224, 256, 384, 512} PROVE Sha3Pad(e, length) \in Arrays
  <2> DEFINE B == Sha3BlockSize(length)
             at == (((e.sigBytes + 4 * B) \div (4 * B)) * B) - 1
             m0 == MarkEnd(e, 0)
  <2>1. B \in {18, 26, 34, 36}
    BY DEF Sha3BlockSize
  <2> HIDE DEF B
  <2>2. at \in Nat
    BY <1>1, <2>1, LastPlaces
  <2> HIDE DEF at, m0
  <2>3. m0 \in Chain
    BY <1>2 DEF m0
  <2>a. at \in Int /\ {7} \in Word32
    BY <2>2 DEF Word32, Places
  <2>4. At(m0, at) \cup {7} \in Word32
    <3>1. At(m0, at) \in Word32
      BY <2>3, <2>a, AtIs
    <3> QED
      BY <2>a, <3>1, WordsWritten
  <2>5. SetAt(m0, at, At(m0, at) \cup {7}) \in Chain
    BY <1>5, <2>2, <2>3, <2>4
  <2>6. Create(SetAt(m0, at, At(m0, at) \cup {7})) \in Arrays
    BY <2>5, ArrayIs
  <2> QED
    BY <2>6 DEF Sha3Pad, B, at, m0
<1> QED
  BY <1>7, <1>8, <1>9, <1>10, <1>11

LEMMA MarkedIs ==
    ASSUME NEW x, NEW d, NEW e, Begins(x, d, e), NEW bit \in {0, 7}
    PROVE  /\ MarkEnd(e, bit) \in Chain
           /\ MarkEnd(d, bit) = x \o MarkEnd(e, bit)
<1>1. bit \in 0 .. 7 /\ e \in Arrays
  BY DEF Begins
<1> QED
  BY <1>1, MarkEndTyped, MarkEndJoined

LEMMA SetAtMoves ==
    ASSUME NEW x \in Chain, NEW m \in Nat, m = Len(x)
    PROVE  \A y \in Chain, i \in Nat, v \in Word32 :
              SetAt(y, i, v) \in Chain /\ SetAt(x \o y, m + i, v) = x \o SetAt(y, i, v)
<1> SUFFICES ASSUME NEW y \in Chain, NEW i \in Nat, NEW v \in Word32
             PROVE  SetAt(y, i, v) \in Chain /\ SetAt(x \o y, m + i, v) = x \o SetAt(y, i, v)
  OBVIOUS
<1>1. SetAt(y, i, v) \in Chain
  BY SetAtIs
<1>2. SetAt(x \o y, m + i, v) = x \o SetAt(y, i, v)
  BY SetAtJoined
<1> QED
  BY <1>1, <1>2

\* What is written after x and y is what is written after y, after x: whole
\* blocks of the message move the end and change nothing else.
LEMMA PadJoined32 ==
    ASSUME NEW x, NEW d, NEW e, Begins(x, d, e), NEW N \in Nat, NEW n \in Nat, Len(x) = 16 * n
    PROVE  /\ Begins(x, ShaPad(d, N), ShaPad(e, N))
           /\ Begins(x, Md5Pad(d, N), Md5Pad(e, N))
           /\ Begins(x, Ripemd160Pad(d, N), Ripemd160Pad(e, N))
<1> DEFINE marked == MarkEnd(e, 7)
           L == LengthAt(e)
           m == Len(x)
           len == WordOfNat(8 * N)
<1>1. x \in Chain /\ e.sigBytes \in Nat /\ d.sigBytes = 4 * (16 * n) + e.sigBytes /\ e \in Arrays /\ m \in Nat
  BY DEF Begins, Arrays
<1>2. marked \in Chain /\ MarkEnd(d, 7) = x \o marked
  BY MarkedIs
<1>3. L \in Nat /\ LengthAt(d) = m + L /\ LengthAt(d) + 1 = m + (L + 1) /\ L + 1 \in Nat
  <2>1. L \in Nat /\ LengthAt(d) = 16 * n + L
    <3> DEFINE s == e.sigBytes
    <3>1. s \in Nat /\ LengthAt(d) = (((8 * (4 * (16 * n) + s)) + 64) \div 512) * 16 + 14
      BY <1>1 DEF LengthAt
    <3>2. L = (((8 * s) + 64) \div 512) * 16 + 14
      BY DEF LengthAt
    <3> HIDE DEF s, L
    <3> QED
      BY <3>1, <3>2
  <2> HIDE DEF L
  <2>2. LengthAt(d) = m + L
    BY <2>1
  <2> QED
    BY <1>1, <2>1, <2>2
<1>4. len \in Word32 /\ SwapBytes(len) \in Word32 /\ {} \in Word32
  BY WordsWritten, BytesOfAnyWord, 8 * N \in Nat
<1>b. m = Len(x)
  OBVIOUS
<1> HIDE DEF marked, L, len, m
<1>5. \A w \in Chain, i \in Nat, v \in Word32 :
         SetAt(w, i, v) \in Chain /\ SetAt(x \o w, m + i, v) = x \o SetAt(w, i, v)
  BY <1>1, <1>b, SetAtMoves
<1>7. Begins(x, ShaPad(d, N), ShaPad(e, N))
  <2> DEFINE y == SetAt(SetAt(marked, L, {}), L + 1, len)
  <2>1. y \in Chain /\ SetAt(SetAt(x \o marked, m + L, {}), m + (L + 1), len) = x \o y
    <3> DEFINE z == SetAt(marked, L, {})
    <3>1. z \in Chain /\ SetAt(x \o marked, m + L, {}) = x \o z
      BY <1>2, <1>3, <1>4, <1>5
    <3> HIDE DEF z
    <3>2. SetAt(z, L + 1, len) \in Chain /\ SetAt(x \o z, m + (L + 1), len) = x \o SetAt(z, L + 1, len)
      BY <1>3, <1>4, <1>5, <3>1
    <3> QED
      BY <3>1, <3>2 DEF z
  <2>2. ShaPad(e, N) = Create(y)
    BY DEF ShaPad, marked, L, len
  <2>3. ShaPad(d, N) = Create(SetAt(SetAt(x \o marked, m + L, {}), m + (L + 1), len))
    BY <1>2, <1>3 DEF ShaPad, len
  <2> HIDE DEF y
  <2>4. ShaPad(d, N) = Create(x \o y)
    BY <2>1, <2>3
  <2> QED
    BY <1>1, <2>1, <2>2, <2>4, JoinedMore
<1>8. Begins(x, Md5Pad(d, N), Md5Pad(e, N))
  <2> DEFINE y == SetAt(SetAt(marked, L + 1, {}), L, SwapBytes(len))
  <2>1. y \in Chain /\ SetAt(SetAt(x \o marked, m + (L + 1), {}), m + L, SwapBytes(len)) = x \o y
    <3> DEFINE z == SetAt(marked, L + 1, {})
    <3>1. z \in Chain /\ SetAt(x \o marked, m + (L + 1), {}) = x \o z
      BY <1>2, <1>3, <1>4, <1>5
    <3> HIDE DEF z
    <3>2. SetAt(z, L, SwapBytes(len)) \in Chain /\ SetAt(x \o z, m + L, SwapBytes(len)) = x \o SetAt(z, L, SwapBytes(len))
      BY <1>3, <1>4, <1>5, <3>1
    <3> QED
      BY <3>1, <3>2 DEF z
  <2>2. Md5Pad(e, N) = OneWordMore(y)
    BY DEF Md5Pad, marked, L, len
  <2>3. Md5Pad(d, N) = OneWordMore(SetAt(SetAt(x \o marked, m + (L + 1), {}), m + L, SwapBytes(len)))
    BY <1>2, <1>3 DEF Md5Pad, len
  <2> HIDE DEF y
  <2>4. Md5Pad(d, N) = OneWordMore(x \o y)
    BY <2>1, <2>3
  <2> QED
    BY <1>1, <2>1, <2>2, <2>4, JoinedMore
<1>9. Begins(x, Ripemd160Pad(d, N), Ripemd160Pad(e, N))
  <2> DEFINE y == SetAt(marked, L, SwapBytes(len))
  <2>1. y \in Chain /\ SetAt(x \o marked, m + L, SwapBytes(len)) = x \o y
    BY <1>2, <1>3, <1>4, <1>5
  <2>2. Ripemd160Pad(e, N) = OneWordMore(y)
    BY DEF Ripemd160Pad, marked, L, len
  <2>3. Ripemd160Pad(d, N) = OneWordMore(SetAt(x \o marked, m + L, SwapBytes(len)))
    BY <1>2, <1>3 DEF Ripemd160Pad, len
  <2> HIDE DEF y
  <2>4. Ripemd160Pad(d, N) = OneWordMore(x \o y)
    BY <2>1, <2>3
  <2> QED
    BY <1>1, <2>1, <2>2, <2>4, JoinedMore
<1> QED
  BY <1>7, <1>8, <1>9

LEMMA PadJoined64 ==
    ASSUME NEW x, NEW d, NEW e, Begins(x, d, e), NEW N \in Nat, NEW n \in Nat, Len(x) = 32 * n
    PROVE  Begins(x, Sha512Pad(d, N), Sha512Pad(e, N))
<1> DEFINE marked == MarkEnd(e, 7)
           L == ((((8 * e.sigBytes) + 128) \div 1024) * 32) + 30
           m == Len(x)
           len == WordOfNat(8 * N)
<1>1. x \in Chain /\ e.sigBytes \in Nat /\ d.sigBytes = 4 * (32 * n) + e.sigBytes /\ e \in Arrays /\ m \in Nat
  BY DEF Begins, Arrays
<1>2. marked \in Chain /\ MarkEnd(d, 7) = x \o marked
  BY MarkedIs
<1>3. L \in Nat /\ ((((8 * d.sigBytes) + 128) \div 1024) * 32) + 30 = m + L
  <2> DEFINE s == e.sigBytes
             t == d.sigBytes
  <2>1. s \in Nat /\ t = 4 * (32 * n) + s /\ m = 32 * n
    BY <1>1
  <2>2. L = ((((8 * s) + 128) \div 1024) * 32) + 30
    OBVIOUS
  <2> HIDE DEF s, t, m, L
  <2>3. L \in Nat /\ ((((8 * t) + 128) \div 1024) * 32) + 30 = m + L
    BY <2>1, <2>2
  <2> QED
    BY <2>3 DEF t
<1>4. len \in Word32 /\ {} \in Word32
  BY WordsWritten, BytesOfAnyWord, 8 * N \in Nat
<1> DEFINE y == SetAt(SetAt(marked, L, {}), L + 1, len)
<1>5. Sha512Pad(e, N) = Create(y)
  BY DEF Sha512Pad
<1>6. Sha512Pad(d, N) = Create(SetAt(SetAt(x \o marked, m + L, {}), (m + L) + 1, len))
  <2> DEFINE p == ((((8 * d.sigBytes) + 128) \div 1024) * 32) + 30
  <2>1. Sha512Pad(d, N) = Create(SetAt(SetAt(MarkEnd(d, 7), p, {}), p + 1, len))
    BY DEF Sha512Pad
  <2>2. p = m + L
    BY <1>3
  <2> HIDE DEF L, len, p, marked, m
  <2> QED
    BY <1>2, <2>1, <2>2
<1>b. m = Len(x)
  OBVIOUS
<1> HIDE DEF marked, L, len, m
<1>7. L + 1 \in Nat
  BY <1>3
<1>8. y \in Chain /\ SetAt(SetAt(x \o marked, m + L, {}), m + (L + 1), len) = x \o y
  <2>1. \A w \in Chain, i \in Nat, v \in Word32 :
           SetAt(w, i, v) \in Chain /\ SetAt(x \o w, m + i, v) = x \o SetAt(w, i, v)
    BY <1>1, <1>b, SetAtMoves
  <2> DEFINE z == SetAt(marked, L, {})
  <2>2. z \in Chain /\ SetAt(x \o marked, m + L, {}) = x \o z
    BY <1>2, <1>3, <1>4, <2>1
  <2>3. y = SetAt(z, L + 1, len)
    OBVIOUS
  <2> HIDE DEF z, y
  <2>4. SetAt(z, L + 1, len) \in Chain /\ SetAt(x \o z, m + (L + 1), len) = x \o SetAt(z, L + 1, len)
    BY <1>4, <1>7, <2>1, <2>2
  <2> QED
    BY <2>2, <2>3, <2>4
<1> HIDE DEF y
<1>9. Sha512Pad(d, N) = Create(x \o y)
  <2>1. (m + L) + 1 = m + (L + 1)
    BY <1>1, <1>3
  <2> QED
    BY <1>6, <1>8, <2>1
<1> QED
  BY <1>1, <1>5, <1>8, <1>9, JoinedMore

LEMMA PadJoinedSha3 ==
    ASSUME NEW x, NEW d, NEW e, Begins(x, d, e), NEW n \in Nat, NEW length \in {224, 256, 384, 512},
           Len(x) = n * Sha3BlockSize(length)
    PROVE  Begins(x, Sha3Pad(d, length), Sha3Pad(e, length))
<1> DEFINE B == Sha3BlockSize(length)
           marked == MarkEnd(e, 0)
           last(s) == (((s + 4 * B) \div (4 * B)) * B) - 1
           L == last(e.sigBytes)
           m == Len(x)
           y == SetAt(marked, L, At(marked, L) \cup {7})
<1>1. B \in {18, 26, 34, 36}
  BY DEF Sha3BlockSize
<1>a. /\ Sha3Pad(e, length) = Create(y)
      /\ Sha3Pad(d, length) = Create(SetAt(MarkEnd(d, 0), last(d.sigBytes), At(MarkEnd(d, 0), last(d.sigBytes)) \cup {7}))
  BY DEF Sha3Pad
<1>2. x \in Chain /\ e.sigBytes \in Nat /\ d.sigBytes = 4 * (n * B) + e.sigBytes /\ e \in Arrays /\ m \in Nat
      /\ m = n * B
  BY DEF Begins, Arrays
<1> HIDE DEF B
<1>3. marked \in Chain /\ MarkEnd(d, 0) = x \o marked
  BY MarkedIs
<1>4. L \in Nat /\ last(d.sigBytes) = m + L
  <2> DEFINE s == e.sigBytes
             t == d.sigBytes
  <2>1. s \in Nat /\ t = 4 * (n * B) + s /\ m = n * B
    BY <1>2
  <2>a. L = last(s)
    OBVIOUS
  <2> HIDE DEF s, t, m, L
  <2>2. ASSUME B = 18 PROVE L \in Nat /\ last(t) = m + L
    BY <2>1, <2>a, <2>2
  <2>3. ASSUME B = 26 PROVE L \in Nat /\ last(t) = m + L
    BY <2>1, <2>a, <2>3
  <2>4. ASSUME B = 34 PROVE L \in Nat /\ last(t) = m + L
    BY <2>1, <2>a, <2>4
  <2>5. ASSUME B = 36 PROVE L \in Nat /\ last(t) = m + L
    BY <2>1, <2>a, <2>5
  <2>6. L \in Nat /\ last(t) = m + L
    <3> HIDE DEF last
    <3> QED
      BY <1>1, <2>2, <2>3, <2>4, <2>5
  <2> HIDE DEF last
  <2> QED
    BY <2>6 DEF t
<1>b. m = Len(x)
  OBVIOUS
<1> HIDE DEF marked, last, L, m
<1>5. At(x \o marked, m + L) = At(marked, L)
  <2>1. m + L \in Nat /\ ~ (m + L < m) /\ (m + L) - m = L
    BY <1>2, <1>4
  <2> QED
    BY <1>2, <1>3, <2>1, AtJoined DEF m
<1>6. At(marked, L) \cup {7} \in Word32
  <2>1. L \in Int /\ {7} \in Word32
    BY <1>4 DEF Word32, Places
  <2>2. At(marked, L) \in Word32
    BY <1>3, <2>1, AtIs
  <2> QED
    BY <2>1, <2>2, WordsWritten
<1>7. y \in Chain /\ SetAt(x \o marked, m + L, At(marked, L) \cup {7}) = x \o y
  <2>1. \A i \in Nat, v \in Word32 :
           SetAt(marked, i, v) \in Chain /\ SetAt(x \o marked, m + i, v) = x \o SetAt(marked, i, v)
    BY <1>2, <1>3, <1>b, SetAtMoves
  <2> QED
    BY <1>4, <1>6, <2>1
<1> HIDE DEF y
<1>8. Sha3Pad(d, length) = Create(x \o y)
  BY <1>a, <1>3, <1>4, <1>5, <1>7
<1> QED
  BY <1>a, <1>2, <1>7, <1>8, JoinedMore

LEMMA LastDataJoined ==
    ASSUME NEW hasher \in HasherNames, NEW x, NEW d, NEW e, Begins(x, d, e), NEW N \in Nat, NEW n \in Nat,
           Len(x) = n * BlockSize(hasher)
    PROVE  Begins(x, LastData(hasher, d, N), LastData(hasher, e, N))
<1>1. CASE hasher \in Sha3Names
  <2>1. OutputLength(hasher) \in {224, 256, 384, 512} /\ BlockSize(hasher) = Sha3BlockSize(OutputLength(hasher))
    BY <1>1 DEF Sha3Names, OutputLength, BlockSize
  <2>2. \A f \in Arrays : LastData(hasher, f, N) = Sha3Pad(f, OutputLength(hasher))
    BY <1>1 DEF LastData, Sha3Names
  <2>3. d \in Arrays /\ e \in Arrays
    BY DEF Begins
  <2> QED
    BY <2>1, <2>2, <2>3, PadJoinedSha3
<1>2. CASE hasher \in {"SHA384", "SHA512"}
  <2>1. BlockSize(hasher) = 32 /\ n * 32 = 32 * n
    BY <1>2 DEF BlockSize, Sha3Names
  <2>2. \A f \in Arrays : LastData(hasher, f, N) = Sha512Pad(f, N)
    BY <1>2 DEF LastData, Sha3Names
  <2>3. d \in Arrays /\ e \in Arrays
    BY DEF Begins
  <2> QED
    BY <2>1, <2>2, <2>3, PadJoined64
<1>3. CASE hasher \in {"MD5", "RIPEMD160", "SHA1", "SHA224", "SHA256"}
  <2>1. BlockSize(hasher) = 16 /\ n * 16 = 16 * n
    BY <1>3 DEF BlockSize, Sha3Names
  <2>2. \/ \A f \in Arrays : LastData(hasher, f, N) = Md5Pad(f, N)
        \/ \A f \in Arrays : LastData(hasher, f, N) = Ripemd160Pad(f, N)
        \/ \A f \in Arrays : LastData(hasher, f, N) = ShaPad(f, N)
    BY <1>3 DEF LastData, Sha3Names
  <2>3. d \in Arrays /\ e \in Arrays /\ Len(x) = 16 * n
    BY <2>1 DEF Begins
  <2>4. /\ Begins(x, ShaPad(d, N), ShaPad(e, N))
        /\ Begins(x, Md5Pad(d, N), Md5Pad(e, N))
        /\ Begins(x, Ripemd160Pad(d, N), Ripemd160Pad(e, N))
    BY <2>3, PadJoined32
  <2> QED
    BY <2>2, <2>3, <2>4
<1> QED
  BY <1>1, <1>2, <1>3 DEF HasherNames

LEMMA LastDataTyped ==
    ASSUME NEW hasher \in HasherNames, NEW e \in Arrays, NEW N \in Nat
    PROVE  LastData(hasher, e, N) \in Arrays
<1>1. CASE hasher \in Sha3Names
  <2>1. OutputLength(hasher) \in {224, 256, 384, 512}
    BY <1>1 DEF Sha3Names, OutputLength
  <2>2. LastData(hasher, e, N) = Sha3Pad(e, OutputLength(hasher))
    BY <1>1 DEF LastData, Sha3Names
  <2> QED
    BY <2>1, <2>2, PadTyped
<1>2. CASE hasher \notin Sha3Names
  <2>1. LastData(hasher, e, N) \in {Md5Pad(e, N), Ripemd160Pad(e, N), ShaPad(e, N), Sha512Pad(e, N)}
    BY <1>2 DEF LastData, Sha3Names, HasherNames
  <2> QED
    BY <2>1, PadTyped
<1> QED
  BY <1>1, <1>2

-----------------------------------------------------------------------------
(* The objects, whatever they hold *)

LEMMA ResetTyped ==
    ASSUME NEW hasher \in HasherNames
    PROVE  DoReset(hasher) \in HashStates(hasher)
<1>1. \A hi, lo : Word(hi, lo) \in Word32
  BY DEF Word, BitsOf, Word32, Places
<1> HIDE DEF Word
<1>2. CASE hasher \in Sha3Names
  <2>1. ZeroState \in Keccak
    BY BytesOfAnyWord DEF ZeroState, ZeroWord, Keccak, X64Word, Lane
  <2> QED
    BY <1>2, <2>1 DEF DoReset, HashStates, Sha3Names
<1>3. CASE hasher \in {"SHA384", "SHA512"}
  <2>1. Sha512Reset \in States64(8) /\ Sha384Reset \in States64(8)
    BY <1>1 DEF Sha512Reset, Sha384Reset, States64, X64Words, X64Word, Lane
  <2> QED
    BY <1>3, <2>1 DEF DoReset, HashStates, Sha3Names
<1>4. CASE hasher \in {"SHA224", "SHA256"}
  <2>1. Sha224Reset \in States(8) /\ Sha256Reset \in States(8)
    BY <1>1 DEF Sha224Reset, Sha256Reset, States, Words
  <2> QED
    BY <1>4, <2>1 DEF DoReset, HashStates, Sha3Names
<1>5. CASE hasher \in {"SHA1", "RIPEMD160", "MD5"}
  <2>1. Sha1Reset \in States(5) /\ Ripemd160Reset \in States(5) /\ Md5Reset \in States(4)
    BY <1>1 DEF Sha1Reset, Ripemd160Reset, Md5Reset, States, Words
  <2> QED
    BY <1>5, <2>1 DEF DoReset, HashStates, Sha3Names
<1> QED
  BY <1>2, <1>3, <1>4, <1>5 DEF HasherNames

LEMMA SwapAllTyped ==
    ASSUME NEW n \in Nat, NEW H \in [1 .. n -> Word32]
    PROVE  SwapAll(H) \in Chain /\ Len(SwapAll(H)) = n
<1>1. SwapAll(H) \in [1 .. n -> Word32]
  BY WordsWritten DEF SwapAll
<1> QED
  BY <1>1, Listed DEF Chain

LEMMA SqueezeTyped ==
    ASSUME NEW H \in Keccak, NEW length \in {224, 256, 384, 512}
    PROVE  /\ Squeeze(H, length) \in Arrays
           /\ Squeeze(H, length).sigBytes = length \div 8
<1> DEFINE n == 2 * ((length + 63) \div 64)
           f == [k \in 1 .. n |-> IF k % 2 = 1 THEN H[k \div 2].low ELSE H[(k \div 2) - 1].high]
<1>1. n \in 1 .. 16 /\ length \div 8 \in Nat
  OBVIOUS
<1>2. ASSUME NEW k \in 1 .. n
      PROVE  (IF k % 2 = 1 THEN H[k \div 2].low ELSE H[(k \div 2) - 1].high) \in Word32
  <2>1. (k % 2 = 1 => k \div 2 \in LaneIndex) /\ (k % 2 # 1 => (k \div 2) - 1 \in LaneIndex)
    BY <1>1 DEF LaneIndex
  <2>2. \A i \in LaneIndex : H[i].low \in Word32 /\ H[i].high \in Word32
    BY DEF Keccak, Lane
  <2> QED
    BY <2>1, <2>2
<1>3. f \in [1 .. n -> Word32]
  BY <1>2
<1>4. Squeeze(H, length) = WordArray(SwapAll(f), length \div 8)
  BY DEF Squeeze
<1> HIDE DEF f, n
<1>5. SwapAll(f) \in Chain
  BY <1>1, <1>3, SwapAllTyped
<1> QED
  BY <1>1, <1>4, <1>5, ArrayIs

\* A digest is an array of at most a block.
LEMMA DigestTyped ==
    ASSUME NEW hasher \in HasherNames, NEW H \in HashStates(hasher)
    PROVE  Digest(hasher, H) \in Arrays /\ Digest(hasher, H).sigBytes <= 4 * BlockSize(hasher)
<1>1. CASE hasher \in Sha3Names
  <2>1. OutputLength(hasher) \in {224, 256, 384, 512} /\ BlockSize(hasher) = Sha3BlockSize(OutputLength(hasher))
        /\ H \in Keccak
    BY <1>1 DEF Sha3Names, OutputLength, BlockSize, HashStates
  <2>2. Digest(hasher, H) = Squeeze(H, OutputLength(hasher))
    BY <1>1 DEF Digest, Sha3Names
  <2>3. OutputLength(hasher) \div 8 <= 4 * BlockSize(hasher)
    BY <2>1 DEF Sha3BlockSize
  <2> QED
    BY <2>1, <2>2, <2>3, SqueezeTyped
<1>2. CASE hasher \in {"SHA384", "SHA512"}
  <2>1. H \in [1 .. 8 -> Lane] /\ BlockSize(hasher) = 32
    BY <1>2 DEF HashStates, States64, Sha3Names, BlockSize
  <2>2. Len(H) = 8
    BY <2>1
  <2>3. ToX32(H) \in [1 .. 16 -> Word32]
    <3>1. ASSUME NEW k \in 1 .. 16
          PROVE  (IF k % 2 = 1 THEN H[(k + 1) \div 2].high ELSE H[k \div 2].low) \in Word32
      <4>1. (k % 2 = 1 => (k + 1) \div 2 \in 1 .. 8) /\ (k % 2 # 1 => k \div 2 \in 1 .. 8)
        OBVIOUS
      <4> QED
        BY <2>1, <4>1 DEF Lane
    <3> QED
      BY <2>2, <3>1 DEF ToX32
  <2> DEFINE x == ToX32(H)
  <2>a. x \in [1 .. 16 -> Word32]
    BY <2>3
  <2>b. Digest(hasher, H) \in {WordArray(x, 64), WordArray(x, 48)}
    BY <1>2 DEF Digest, Sha3Names
  <2> HIDE DEF x
  <2>4. x \in Chain
    BY <2>a, Listed DEF Chain
  <2>5. \A n \in Nat : WordArray(x, n) \in Arrays /\ WordArray(x, n).sigBytes = n
    BY <2>4, ArrayIs
  <2>6. 64 \in Nat /\ 48 \in Nat
    OBVIOUS
  <2>7. /\ WordArray(x, 64) \in Arrays /\ WordArray(x, 64).sigBytes = 64
        /\ WordArray(x, 48) \in Arrays /\ WordArray(x, 48).sigBytes = 48
    BY <2>5, <2>6
  <2> QED
    BY <2>1, <2>b, <2>7
<1>3. CASE hasher \in {"SHA224", "SHA256", "SHA1", "RIPEMD160", "MD5"}
  <2>1. PICK n \in {4, 5, 8} : H \in [1 .. n -> Word32]
    BY <1>3 DEF HashStates, States, Sha3Names
  <2>2. BlockSize(hasher) = 16
    BY <1>3 DEF Sha3Names, BlockSize
  <2>3. H \in Chain
    BY <2>1, Listed DEF Chain
  <2>4. SwapAll(H) \in Chain
    BY <2>1, SwapAllTyped
  <2> DEFINE x == SwapAll(H)
  <2>b. Digest(hasher, H) \in {WordArray(x, 16), WordArray(x, 20), WordArray(H, 20), WordArray(H, 32), WordArray(H, 28)}
    BY <1>3 DEF Digest, Sha3Names
  <2>c. x \in Chain
    BY <2>4
  <2> HIDE DEF x
  <2>5. \A m \in {16, 20, 28, 32} :
           /\ WordArray(x, m) \in Arrays /\ WordArray(x, m).sigBytes = m
           /\ WordArray(H, m) \in Arrays /\ WordArray(H, m).sigBytes = m
    BY <2>3, <2>c, ArrayIs
  <2>6. \A m \in {16, 20, 28, 32} : m <= 4 * 16
    OBVIOUS
  <2> QED
    BY <2>2, <2>b, <2>5, <2>6
<1> QED
  BY <1>1, <1>2, <1>3 DEF HasherNames

\* The objects that hasher makes.
ObjectsOf(hasher) == [hasher : {hasher}, data : Arrays, nDataBytes : Nat, hash : HashStates(hasher)]

LEMMA BlocksReadyIs ==
    ASSUME NEW hasher \in HasherNames, NEW n \in Nat
    PROVE  /\ BlocksReady(n, 4 * BlockSize(hasher), 0, FALSE) = n \div (4 * BlockSize(hasher))
           /\ n \div (4 * BlockSize(hasher)) \in Nat
           /\ BytesReady(n, 4 * BlockSize(hasher), n \div (4 * BlockSize(hasher))) = n - (n % (4 * BlockSize(hasher)))
           /\ n % (4 * BlockSize(hasher)) \in Nat
           /\ n % (4 * BlockSize(hasher)) <= n
           /\ n % (4 * BlockSize(hasher)) < 4 * BlockSize(hasher)
           /\ n = 4 * ((n \div (4 * BlockSize(hasher))) * BlockSize(hasher)) + (n % (4 * BlockSize(hasher)))
<1> DEFINE size == BlockSize(hasher)
           Facts == /\ BlocksReady(n, 4 * size, 0, FALSE) = n \div (4 * size)
                    /\ n \div (4 * size) \in Nat
                    /\ BytesReady(n, 4 * size, n \div (4 * size)) = n - (n % (4 * size))
                    /\ n % (4 * size) \in Nat /\ n % (4 * size) <= n /\ n % (4 * size) < 4 * size
                    /\ n = 4 * ((n \div (4 * size)) * size) + (n % (4 * size))
<1>1. size \in {16, 18, 26, 32, 34, 36}
  BY BlockSizes
<1> HIDE DEF size
<1>2. ASSUME size = 16 PROVE Facts  BY <1>2 DEF BlocksReady, BytesReady
<1>3. ASSUME size = 18 PROVE Facts  BY <1>3 DEF BlocksReady, BytesReady
<1>4. ASSUME size = 26 PROVE Facts  BY <1>4 DEF BlocksReady, BytesReady
<1>5. ASSUME size = 32 PROVE Facts  BY <1>5 DEF BlocksReady, BytesReady
<1>6. ASSUME size = 34 PROVE Facts  BY <1>6 DEF BlocksReady, BytesReady
<1>7. ASSUME size = 36 PROVE Facts  BY <1>7 DEF BlocksReady, BytesReady
<1> HIDE DEF Facts
<1>8. Facts
  BY <1>1, <1>2, <1>3, <1>4, <1>5, <1>6, <1>7
<1> QED
  BY <1>8 DEF Facts, size

\* What a run of _process does.
LEMMA ProcessIs ==
    ASSUME BlockFunctionsAreTyped, NEW hasher \in HasherNames, NEW h \in ObjectsOf(hasher)
    PROVE  /\ Process(h) \in ObjectsOf(hasher)
           /\ Process(h).nDataBytes = h.nDataBytes
           /\ Process(h).hash = Absorbed(hasher, h.data.words, h.data.sigBytes \div (4 * BlockSize(hasher)), h.hash)
           /\ Process(h).data = [words |-> SubSeq(h.data.words, (h.data.sigBytes \div (4 * BlockSize(hasher))) * BlockSize(hasher) + 1, Len(h.data.words)),
                                 sigBytes |-> h.data.sigBytes % (4 * BlockSize(hasher))]
<1> DEFINE size == BlockSize(hasher)
           s == h.data.sigBytes
           w == h.data.words
           n == s \div (4 * size)
           v == SubSeq(w, n * size + 1, Len(w))
           hash == Absorbed(hasher, w, n, h.hash)
           data == [words |-> v, sigBytes |-> s % (4 * size)]
<1>1. w \in Chain /\ s \in Nat /\ h.hash \in HashStates(hasher) /\ h.hasher = hasher /\ h.nDataBytes \in Nat
  BY DEF ObjectsOf, Arrays
<1>2. /\ BlocksReady(s, 4 * size, 0, FALSE) = n /\ n \in Nat
      /\ BytesReady(s, 4 * size, n) = s - (s % (4 * size))
      /\ s % (4 * size) \in Nat
  BY <1>1, BlocksReadyIs
<1>3. n * size \in Nat
  BY <1>2, BlockSizes, Places16
<1>4. v \in Chain
  <2> DEFINE a == n * size + 1
             l == Len(w)
  <2>1. a \in Nat /\ a >= 1 /\ l \in Nat /\ l <= Len(w) /\ w \in Seq(Word32)
    BY <1>1, <1>3 DEF Chain
  <2> HIDE DEF a, l, w
  <2>2. SubSeq(w, a, l) \in Seq(Word32)
    BY <2>1
  <2> QED
    BY <2>2 DEF a, l, w, Chain
<1>5. Unprocessed(h.data, size, n) = data
  <2>1. Unprocessed(h.data, size, n) = WordArray(v, s - BytesReady(s, 4 * size, n))
    BY DEF Unprocessed
  <2>2. s - BytesReady(s, 4 * size, n) = s % (4 * size)
    <3> DEFINE r == s % (4 * size)
    <3>1. BytesReady(s, 4 * size, n) = s - r /\ r \in Nat
      BY <1>2
    <3> HIDE DEF r
    <3>2. s - BytesReady(s, 4 * size, n) = r
      BY <1>1, <3>1
    <3> QED
      BY <3>2 DEF r
  <2> HIDE DEF v
  <2>3. Written(v) = v
    BY <1>4, WrittenIs DEF Chain
  <2> QED
    BY <2>1, <2>2, <2>3 DEF WordArray
<1>6. Process(h) = [h EXCEPT !.hash = hash, !.data = data]
  <2>1. Process(h) = [h EXCEPT !.hash = Loop(HashStates(h.hasher), BlocksReady(s, 4 * BlockSize(h.hasher), 0, FALSE),
                                LAMBDA H, i : DoProcessBlock[h.hasher][H][Block(w, i * BlockSize(h.hasher), BlockSize(h.hasher))], h.hash),
                               !.data = Unprocessed(h.data, BlockSize(h.hasher), BlocksReady(s, 4 * BlockSize(h.hasher), 0, FALSE))]
    BY DEF Process
  <2>2. Process(h) = [h EXCEPT !.hash = Absorbed(h.hasher, w, BlocksReady(s, 4 * BlockSize(h.hasher), 0, FALSE), h.hash),
                               !.data = Unprocessed(h.data, BlockSize(h.hasher), BlocksReady(s, 4 * BlockSize(h.hasher), 0, FALSE))]
    BY <2>1 DEF Absorbed
  <2> QED
    BY <1>1, <1>2, <1>5, <2>2
<1>7. hash \in HashStates(hasher)
  BY <1>1, <1>2, AbsorbedTyped
<1>8. data \in Arrays
  BY <1>2, <1>4 DEF Arrays
<1> HIDE DEF hash, data
<1>9. Process(h) \in ObjectsOf(hasher) /\ Process(h).nDataBytes = h.nDataBytes /\ Process(h).hash = hash /\ Process(h).data = data
  BY <1>6, <1>7, <1>8 DEF ObjectsOf
<1> QED
  BY <1>9 DEF hash, data

LEMMA AppendIs ==
    ASSUME NEW hasher \in HasherNames, NEW h \in ObjectsOf(hasher), NEW d \in Arrays
    PROVE  /\ AppendData(h, d) \in ObjectsOf(hasher)
           /\ AppendData(h, d).data = Concat(h.data, d)
           /\ AppendData(h, d).nDataBytes = h.nDataBytes + d.sigBytes
           /\ AppendData(h, d).hash = h.hash
<1>1. h.data \in Arrays /\ h.nDataBytes \in Nat /\ d.sigBytes \in Nat
  BY DEF ObjectsOf, Arrays
<1> DEFINE c == Concat(h.data, d)
           k == h.nDataBytes + d.sigBytes
<1>2. c \in Arrays /\ k \in Nat
  BY <1>1, ConcatTyped
<1>3. AppendData(h, d) = [h EXCEPT !.data = c, !.nDataBytes = k]
  BY DEF AppendData
<1> HIDE DEF c, k
<1>4. /\ AppendData(h, d) \in ObjectsOf(hasher) /\ AppendData(h, d).data = c
      /\ AppendData(h, d).nDataBytes = k /\ AppendData(h, d).hash = h.hash
  BY <1>2, <1>3 DEF ObjectsOf
<1> QED
  BY <1>4 DEF c, k

LEMMA WithLastDataIs ==
    ASSUME NEW hasher \in HasherNames, NEW h \in ObjectsOf(hasher)
    PROVE  /\ WithLastData(h) \in ObjectsOf(hasher)
           /\ WithLastData(h).data = LastData(hasher, h.data, h.nDataBytes)
           /\ WithLastData(h).hash = h.hash
<1>1. h.data \in Arrays /\ h.nDataBytes \in Nat /\ h.hasher = hasher
  BY DEF ObjectsOf
<1>2. LastData(hasher, h.data, h.nDataBytes) \in Arrays
  BY <1>1, LastDataTyped
<1> HIDE DEF LastData
<1> QED
  BY <1>1, <1>2 DEF WithLastData, ObjectsOf

LEMMA ObjectsTyped ==
    ASSUME BlockFunctionsAreTyped, NEW hasher \in HasherNames
    PROVE  /\ NewHasher(hasher) \in ObjectsOf(hasher)
           /\ \A h \in ObjectsOf(hasher) :
                /\ ResetHasher(h) = NewHasher(hasher)
                /\ Result(h) \in Arrays /\ Result(h).sigBytes <= 4 * BlockSize(hasher)
                /\ \A d \in Arrays : UpdateHasher(h, d) \in ObjectsOf(hasher) /\ FinalizeHasher(h, d) \in ObjectsOf(hasher)
<1>1. EmptyArray \in Arrays
  <2>1. <<>> \in Chain /\ 0 \in Nat
    BY DEF Chain
  <2> QED
    BY <2>1, ArrayIs DEF EmptyArray
<1>2. NewHasher(hasher) \in ObjectsOf(hasher)
  <2> HIDE DEF EmptyArray
  <2> QED
    BY <1>1, ResetTyped DEF NewHasher, ObjectsOf
<1>3. ASSUME NEW h \in ObjectsOf(hasher) PROVE ResetHasher(h) = NewHasher(hasher)
  <2> DEFINE e == EmptyArray
             r == DoReset(hasher)
  <2>1. h.hasher = hasher
    BY DEF ObjectsOf
  <2>2. ResetHasher(h) = [h EXCEPT !.data = e, !.nDataBytes = 0, !.hash = DoReset(h.hasher)]
    BY DEF ResetHasher
  <2>3. ResetHasher(h) = [h EXCEPT !.data = e, !.nDataBytes = 0, !.hash = r]
    BY <2>1, <2>2
  <2>4. NewHasher(hasher) = [hasher |-> hasher, data |-> e, nDataBytes |-> 0, hash |-> r]
    BY DEF NewHasher
  <2> HIDE DEF e, r
  <2>5. [h EXCEPT !.data = e, !.nDataBytes = 0, !.hash = r] = [hasher |-> hasher, data |-> e, nDataBytes |-> 0, hash |-> r]
    <3> DEFINE a == [h EXCEPT !.data = e, !.nDataBytes = 0, !.hash = r]
    <3>1. a \in [hasher : {hasher}, data : {e}, nDataBytes : {0}, hash : {r}]
      BY DEF ObjectsOf
    <3> HIDE DEF a
    <3>2. a = [hasher |-> hasher, data |-> e, nDataBytes |-> 0, hash |-> r]
      BY <3>1
    <3> QED
      BY <3>2 DEF a
  <2> QED
    BY <2>3, <2>4, <2>5
<1>4. ASSUME NEW h \in ObjectsOf(hasher) PROVE Result(h) \in Arrays /\ Result(h).sigBytes <= 4 * BlockSize(hasher)
  <2>1. h.hasher = hasher /\ h.hash \in HashStates(hasher)
    BY DEF ObjectsOf
  <2> QED
    BY <2>1, DigestTyped DEF Result
<1>5. ASSUME NEW h \in ObjectsOf(hasher), NEW d \in Arrays
      PROVE  UpdateHasher(h, d) \in ObjectsOf(hasher) /\ FinalizeHasher(h, d) \in ObjectsOf(hasher)
  <2>1. AppendData(h, d) \in ObjectsOf(hasher)
    BY AppendIs
  <2>2. WithLastData(AppendData(h, d)) \in ObjectsOf(hasher)
    BY <2>1, WithLastDataIs
  <2> QED
    BY <2>1, <2>2, ProcessIs DEF UpdateHasher, FinalizeHasher
<1> QED
  BY <1>2, <1>3, <1>4, <1>5

-----------------------------------------------------------------------------
(* A message in whole blocks and a tail *)

LEMMA CutSeq ==
    ASSUME NEW S, NEW t \in Seq(S), NEW n \in 0 .. Len(t)
    PROVE  /\ SubSeq(t, 1, n) \in Seq(S) /\ Len(SubSeq(t, 1, n)) = n
           /\ SubSeq(t, n + 1, Len(t)) \in Seq(S) /\ Len(SubSeq(t, n + 1, Len(t))) = Len(t) - n
           /\ SubSeq(t, 1, n) \o SubSeq(t, n + 1, Len(t)) = t
<1> DEFINE l == Len(t)
<1>1. l \in Nat /\ n \in Int /\ n + 1 \in Int /\ 1 \in Int /\ l \in Int /\ n \in 0 .. l
  OBVIOUS
<1>2. /\ \A i \in 1 .. n : t[i] \in S
      /\ \A i \in n + 1 .. l : t[i] \in S
  OBVIOUS
<1>3. SubSeq(t, 1, n) \in Seq(S) /\ Len(SubSeq(t, 1, n)) = (IF 1 <= n THEN n - 1 + 1 ELSE 0)
  BY <1>1, <1>2, SubSeqProperties
<1>4. SubSeq(t, n + 1, l) \in Seq(S) /\ Len(SubSeq(t, n + 1, l)) = (IF n + 1 <= l THEN l - (n + 1) + 1 ELSE 0)
  BY <1>1, <1>2, SubSeqProperties
<1>5. SubSeq(t, 1, n) \o SubSeq(t, n + 1, l) = SubSeq(t, 1, l)
  <2>1. 1 \in 1 .. l + 1 /\ n \in (1 - 1) .. l /\ l \in n .. l
    BY <1>1
  <2> QED
    BY <2>1, ConcatAdjacentSubSeq
<1>6. SubSeq(t, 1, l) = t
  BY SubSeqFull
<1> HIDE DEF l
<1>7. (IF 1 <= n THEN n - 1 + 1 ELSE 0) = n /\ (IF n + 1 <= l THEN l - (n + 1) + 1 ELSE 0) = l - n
  BY <1>1
<1> QED
  <2> DEFINE x == SubSeq(t, 1, n)
             y == SubSeq(t, n + 1, l)
  <2>1. x \in Seq(S) /\ Len(x) = n
    BY <1>3, <1>7
  <2>2. y \in Seq(S) /\ Len(y) = l - n
    BY <1>4, <1>7
  <2>3. x \o y = t
    BY <1>5, <1>6
  <2> HIDE DEF x, y
  <2>4. /\ x \in Seq(S) /\ Len(x) = n /\ y \in Seq(S) /\ Len(y) = l - n /\ x \o y = t
    BY <2>1, <2>2, <2>3
  <2> QED
    BY <2>4 DEF x, y, l

LEMMA TailOfJoin ==
    ASSUME NEW S, NEW x \in Seq(S), NEW y \in Seq(S)
    PROVE  SubSeq(x \o y, Len(x) + 1, Len(x \o y)) = y
<1> DEFINE n == Len(x)
           k == Len(y)
<1>1. n \in Nat /\ k \in Nat /\ Len(x \o y) = n + k
  OBVIOUS
<1>2. CASE k = 0
  <2>1. y = <<>>
    BY <1>1, <1>2, EmptySeq
  <2>2. n + 1 \in Int /\ n + k \in Int /\ n + k < n + 1
    BY <1>1, <1>2
  <2>3. SubSeq(x \o y, n + 1, n + k) = <<>>
    BY <2>2, SubSeqEmpty
  <2> QED
    BY <1>1, <2>1, <2>3
<1>3. CASE k # 0
  <2>1. n + 1 \in Len(x) + 1 .. Len(x) + Len(y) /\ n + k \in Len(x) + 1 .. Len(x) + Len(y)
    BY <1>1, <1>3
  <2>2. SubSeq(x \o y, n + 1, n + k) = SubSeq(y, n + 1 - Len(x), n + k - Len(x))
    BY <2>1, SubSeqOfConcat2
  <2>3. n + 1 - Len(x) = 1 /\ n + k - Len(x) = k
    BY <1>1
  <2>4. SubSeq(y, 1, k) = y
    BY SubSeqFull
  <2> QED
    BY <1>1, <2>2, <2>3, <2>4
<1> QED
  BY <1>2, <1>3

\* A message as its whole blocks and what is not in one yet.
Rest(hasher, t) == Len(t) % (4 * BlockSize(hasher))
HeadOf(hasher, t) == SubSeq(t, 1, Len(t) - Rest(hasher, t))
TailOf(hasher, t) == SubSeq(t, Len(t) - Rest(hasher, t) + 1, Len(t))
BlocksOf(hasher, t) == Len(t) \div (4 * BlockSize(hasher))
\* x holds n whole blocks of a hasher.
InBlocks(hasher, x, n) == x \in Seq(Byte) /\ n \in Nat /\ n * BlockSize(hasher) \in Nat /\ Len(x) = 4 * (n * BlockSize(hasher))

LEMMA HeadAndTail ==
    ASSUME NEW hasher \in HasherNames, NEW t \in Seq(Byte)
    PROVE  /\ InBlocks(hasher, HeadOf(hasher, t), BlocksOf(hasher, t))
           /\ TailOf(hasher, t) \in Seq(Byte) /\ Len(TailOf(hasher, t)) = Rest(hasher, t)
           /\ Rest(hasher, t) < 4 * BlockSize(hasher) /\ Rest(hasher, t) \in Nat
           /\ HeadOf(hasher, t) \o TailOf(hasher, t) = t
<1> DEFINE size == BlockSize(hasher)
           m == BlocksOf(hasher, t)
           r == Rest(hasher, t)
           l == Len(t)
           n == l - r
           q == m * size
<1>1. /\ m \in Nat /\ r \in Nat /\ r < 4 * size
      /\ l \in Nat /\ r <= l /\ l = 4 * q + r
  <2>1. l \in Nat
    OBVIOUS
  <2> QED
    BY <2>1, BlocksReadyIs DEF BlocksOf, Rest
<1>2. q \in Nat
  BY <1>1, BlockSizes, Places16
<1> HIDE DEF m, r, l, q, size
<1>3. n \in 0 .. l /\ n = 4 * q /\ l - n = r
  BY <1>1, <1>2
<1> HIDE DEF n
<1>4. /\ SubSeq(t, 1, n) \in Seq(Byte) /\ Len(SubSeq(t, 1, n)) = n
      /\ SubSeq(t, n + 1, l) \in Seq(Byte) /\ Len(SubSeq(t, n + 1, l)) = l - n
      /\ SubSeq(t, 1, n) \o SubSeq(t, n + 1, l) = t
  BY <1>3, CutSeq DEF l
<1>5. HeadOf(hasher, t) = SubSeq(t, 1, n) /\ TailOf(hasher, t) = SubSeq(t, n + 1, l)
  BY DEF HeadOf, TailOf, n, l, r
<1>6. InBlocks(hasher, HeadOf(hasher, t), m)
  BY <1>1, <1>2, <1>3, <1>4, <1>5 DEF InBlocks, q, size
<1> QED
  BY <1>1, <1>3, <1>4, <1>5, <1>6 DEF m, r, l, size

LEMMA Divided ==
    ASSUME NEW hasher \in HasherNames, NEW n \in Nat, NEW r \in Nat, r < 4 * BlockSize(hasher)
    PROVE  /\ (4 * (n * BlockSize(hasher)) + r) \div (4 * BlockSize(hasher)) = n
           /\ (4 * (n * BlockSize(hasher)) + r) % (4 * BlockSize(hasher)) = r
<1> DEFINE size == BlockSize(hasher)
           Divides == (4 * (n * size) + r) \div (4 * size) = n /\ (4 * (n * size) + r) % (4 * size) = r
<1>1. size \in {16, 18, 26, 32, 34, 36}
  BY BlockSizes
<1>2. r < 4 * size
  OBVIOUS
<1> HIDE DEF size
<1>3. ASSUME size = 16 PROVE Divides  BY <1>2, <1>3
<1>4. ASSUME size = 18 PROVE Divides  BY <1>2, <1>4
<1>5. ASSUME size = 26 PROVE Divides  BY <1>2, <1>5
<1>6. ASSUME size = 32 PROVE Divides  BY <1>2, <1>6
<1>7. ASSUME size = 34 PROVE Divides  BY <1>2, <1>7
<1>8. ASSUME size = 36 PROVE Divides  BY <1>2, <1>8
<1> HIDE DEF Divides
<1>9. Divides
  BY <1>1, <1>3, <1>4, <1>5, <1>6, <1>7, <1>8
<1> QED
  BY <1>9 DEF Divides, size

\* They are the only such parts.
LEMMA TheParts ==
    ASSUME NEW hasher \in HasherNames, NEW x, NEW n, InBlocks(hasher, x, n),
           NEW y \in Seq(Byte), Len(y) < 4 * BlockSize(hasher)
    PROVE  /\ BlocksOf(hasher, x \o y) = n
           /\ HeadOf(hasher, x \o y) = x
           /\ TailOf(hasher, x \o y) = y
<1> DEFINE size == BlockSize(hasher)
           t == x \o y
           r == Len(y)
           q == n * size
<1>1. /\ x \in Seq(Byte) /\ n \in Nat /\ q \in Nat /\ Len(x) = 4 * q
      /\ t \in Seq(Byte) /\ Len(t) = 4 * q + r /\ r \in Nat /\ r < 4 * size
  <2>1. x \in Seq(Byte) /\ n \in Nat /\ q \in Nat /\ Len(x) = 4 * q
    BY DEF InBlocks
  <2>2. t \in Seq(Byte) /\ Len(t) = Len(x) + r /\ r \in Nat
    BY <2>1, ConcatProperties
  <2> QED
    BY <2>1, <2>2
<1>2. (4 * q + r) \div (4 * size) = n /\ (4 * q + r) % (4 * size) = r
  <2>1. n \in Nat /\ r \in Nat /\ r < 4 * BlockSize(hasher)
    BY <1>1
  <2> HIDE DEF r
  <2> QED
    BY <2>1, Divided
<1>3. BlocksOf(hasher, t) = n /\ Rest(hasher, t) = r
  <2>1. BlocksOf(hasher, t) = Len(t) \div (4 * size) /\ Rest(hasher, t) = Len(t) % (4 * size)
    BY DEF BlocksOf, Rest
  <2> QED
    BY <1>1, <1>2, <2>1
<1> HIDE DEF size, q, r
<1>4. HeadOf(hasher, t) = SubSeq(t, 1, 4 * q) /\ TailOf(hasher, t) = SubSeq(t, 4 * q + 1, Len(t))
  <2>1. Len(t) - r = 4 * q
    BY <1>1
  <2> QED
    BY <1>3, <2>1 DEF HeadOf, TailOf
<1>5. SubSeq(t, 4 * q + 1, Len(t)) = y
  BY <1>1, TailOfJoin
<1>6. SubSeq(t, 1, 4 * q) = x
  <2>1. CASE q = 0
    <3>1. x = <<>> /\ SubSeq(t, 1, 4 * q) = <<>>
      <4>1. 1 \in Int /\ 4 * q \in Int /\ 4 * q < 1 /\ Len(x) = 0
        BY <1>1, <2>1
      <4> QED
        BY <1>1, <4>1, SubSeqEmpty, EmptySeq
    <3> QED
      BY <3>1
  <2>2. CASE q # 0
    <3>1. 1 \in 1 .. Len(x) /\ 4 * q \in 1 .. Len(x)
      BY <1>1, <2>2
    <3>2. SubSeq(t, 1, 4 * q) = SubSeq(x, 1, 4 * q)
      BY <1>1, <3>1, SubSeqOfConcat1
    <3>3. SubSeq(x, 1, 4 * q) = x
      BY <1>1, SubSeqFull
    <3> QED
      BY <3>2, <3>3
  <2> QED
    BY <2>1, <2>2
<1> QED
  BY <1>3, <1>4, <1>5, <1>6

LEMMA WholeJoined ==
    ASSUME NEW hasher \in HasherNames, NEW x, NEW m, InBlocks(hasher, x, m), NEW y, NEW n, InBlocks(hasher, y, n)
    PROVE  InBlocks(hasher, x \o y, m + n)
<1> DEFINE size == BlockSize(hasher)
<1>1. /\ x \in Seq(Byte) /\ m \in Nat /\ m * size \in Nat /\ Len(x) = 4 * (m * size)
      /\ y \in Seq(Byte) /\ n \in Nat /\ n * size \in Nat /\ Len(y) = 4 * (n * size)
  BY DEF InBlocks
<1>2. (m + n) * size = m * size + n * size /\ m + n \in Nat
  <2>1. size \in {16, 18, 26, 32, 34, 36}
    BY BlockSizes
  <2> HIDE DEF size
  <2>2. (m + n) * size = m * size + n * size
    BY <1>1, <2>1, Places16
  <2> QED
    BY <1>1, <2>2
<1>3. x \o y \in Seq(Byte) /\ Len(x \o y) = Len(x) + Len(y)
  BY <1>1, ConcatProperties
<1> DEFINE a == m * size
           b == n * size
           c == (m + n) * size
<1>a. a \in Nat /\ b \in Nat /\ c = a + b /\ Len(x) = 4 * a /\ Len(y) = 4 * b
  BY <1>1, <1>2
<1> HIDE DEF a, b, c
<1>4. c \in Nat
  BY <1>a
<1>5. Len(x \o y) = 4 * c
  BY <1>3, <1>a
<1> QED
  BY <1>2, <1>3, <1>4, <1>5 DEF InBlocks, c

\* Whole blocks in front change neither.
LEMMA WholeInFront ==
    ASSUME NEW hasher \in HasherNames, NEW x, NEW n, InBlocks(hasher, x, n), NEW u \in Seq(Byte)
    PROVE  /\ BlocksOf(hasher, x \o u) = n + BlocksOf(hasher, u)
           /\ HeadOf(hasher, x \o u) = x \o HeadOf(hasher, u)
           /\ TailOf(hasher, x \o u) = TailOf(hasher, u)
<1> DEFINE y == HeadOf(hasher, u)
           z == TailOf(hasher, u)
           m == BlocksOf(hasher, u)
<1>1. InBlocks(hasher, y, m) /\ z \in Seq(Byte) /\ Len(z) < 4 * BlockSize(hasher) /\ y \o z = u
  BY HeadAndTail
<1> HIDE DEF y, z, m
<1>2. InBlocks(hasher, x \o y, n + m)
  BY <1>1, WholeJoined
<1>3. x \o u = (x \o y) \o z
  <2>1. x \in Seq(Byte) /\ y \in Seq(Byte)
    BY <1>1 DEF InBlocks
  <2>2. z \in Seq(Byte) /\ u = y \o z
    BY <1>1
  <2>3. (x \o y) \o z = x \o (y \o z)
    BY <2>1, <2>2, ConcatAssociative
  <2> QED
    BY <2>2, <2>3
<1>4. /\ BlocksOf(hasher, (x \o y) \o z) = n + m /\ HeadOf(hasher, (x \o y) \o z) = x \o y
      /\ TailOf(hasher, (x \o y) \o z) = z
  BY <1>1, <1>2, TheParts
<1> QED
  BY <1>3, <1>4 DEF y, z, m

LEMMA WordsOfWhole ==
    ASSUME NEW hasher \in HasherNames, NEW x, NEW n, InBlocks(hasher, x, n), NEW y \in Seq(Byte)
    PROVE  /\ OfBytes(x).words \in Chain /\ OfBytes(y).words \in Chain
           /\ Len(OfBytes(x).words) = n * BlockSize(hasher)
           /\ OfBytes(x \o y).words = OfBytes(x).words \o OfBytes(y).words
           /\ OfBytes(x \o y).sigBytes = Len(x) + Len(y)
<1> DEFINE k == n * BlockSize(hasher)
<1>1. x \in Seq(Byte) /\ k \in Nat /\ Len(x) = 4 * k
  BY DEF InBlocks
<1> HIDE DEF k
<1>2. /\ OfBytes(x).words \in Chain /\ OfBytes(y).words \in Chain
      /\ Len(OfBytes(x).words) = k
      /\ OfBytes(x \o y).words = OfBytes(x).words \o OfBytes(y).words
      /\ OfBytes(x \o y).sigBytes = Len(x) + Len(y)
  BY <1>1, WordsJoined
<1> QED
  BY <1>2 DEF k

\* Blocks are absorbed in order, and only whole ones.
LEMMA OnlyWholeAbsorbed ==
    ASSUME BlockFunctionsAreTyped, NEW hasher \in HasherNames, NEW x, NEW m, InBlocks(hasher, x, m),
           NEW z \in Seq(Byte), NEW H \in HashStates(hasher)
    PROVE  Absorbed(hasher, OfBytes(x \o z).words, m, H) = Absorbed(hasher, OfBytes(x).words, m, H)
<1> DEFINE a == OfBytes(x).words
           c == OfBytes(z).words
           K == Absorbed(hasher, a, m, H)
<1>1. a \in Chain /\ c \in Chain /\ Len(a) = m * BlockSize(hasher) /\ OfBytes(x \o z).words = a \o c
  BY WordsOfWhole
<1>2. m \in Nat /\ m + 0 = m /\ 0 \in Nat
  BY DEF InBlocks
<1> HIDE DEF a, c
<1>3. K \in HashStates(hasher) /\ Absorbed(hasher, a \o c, m + 0, H) = Absorbed(hasher, c, 0, K)
  BY <1>1, <1>2, AbsorbedInParts
<1> HIDE DEF K
<1>4. Absorbed(hasher, c, 0, K) = K
  BY <1>1, <1>2, <1>3, AbsorbedTyped
<1> QED
  BY <1>1, <1>2, <1>3, <1>4 DEF a, K

LEMMA WholeAbsorbed ==
    ASSUME BlockFunctionsAreTyped, NEW hasher \in HasherNames, NEW x, NEW m, InBlocks(hasher, x, m),
           NEW y, NEW n, InBlocks(hasher, y, n), NEW H \in HashStates(hasher)
    PROVE  /\ Absorbed(hasher, OfBytes(x).words, m, H) \in HashStates(hasher)
           /\ Absorbed(hasher, OfBytes(x \o y).words, m + n, H)
                = Absorbed(hasher, OfBytes(y).words, n, Absorbed(hasher, OfBytes(x).words, m, H))
<1> DEFINE a == OfBytes(x).words
           b == OfBytes(y).words
<1>1. m \in Nat /\ n \in Nat /\ y \in Seq(Byte)
  BY DEF InBlocks
<1>2. a \in Chain /\ b \in Chain /\ Len(a) = m * BlockSize(hasher) /\ OfBytes(x \o y).words = a \o b
  BY <1>1, WordsOfWhole
<1> HIDE DEF a, b
<1>3. /\ Absorbed(hasher, a, m, H) \in HashStates(hasher)
      /\ Absorbed(hasher, a \o b, m + n, H) = Absorbed(hasher, b, n, Absorbed(hasher, a, m, H))
  BY <1>1, <1>2, AbsorbedInParts
<1> QED
  BY <1>2, <1>3 DEF a, b

-----------------------------------------------------------------------------
(* An object that was fed the bytes t *)

ChainOf(hasher, t) == Absorbed(hasher, OfBytes(HeadOf(hasher, t)).words, BlocksOf(hasher, t), DoReset(hasher))
Fed(hasher, t) ==
    [hasher |-> hasher, data |-> OfBytes(TailOf(hasher, t)), nDataBytes |-> Len(t), hash |-> ChainOf(hasher, t)]
\* The chaining value after its last block, without an object.
LastOf(hasher, t) == LastData(hasher, OfBytes(t), Len(t))
Final(hasher, t) ==
    Absorbed(hasher, LastOf(hasher, t).words, LastOf(hasher, t).sigBytes \div (4 * BlockSize(hasher)), DoReset(hasher))

LEMMA FedTyped ==
    ASSUME BlockFunctionsAreTyped, NEW hasher \in HasherNames, NEW t \in Seq(Byte)
    PROVE  Fed(hasher, t) \in ObjectsOf(hasher)
<1>1. /\ HeadOf(hasher, t) \in Seq(Byte) /\ BlocksOf(hasher, t) \in Nat /\ TailOf(hasher, t) \in Seq(Byte)
  BY HeadAndTail DEF InBlocks
<1>2. OfBytes(HeadOf(hasher, t)).words \in Chain /\ OfBytes(TailOf(hasher, t)) \in Arrays
  <2>1. OfBytes(HeadOf(hasher, t)) \in Arrays /\ OfBytes(TailOf(hasher, t)) \in Arrays
    BY <1>1, OfBytesIs
  <2> DEFINE w == OfBytes(HeadOf(hasher, t))
  <2> HIDE DEF w
  <2>2. w \in Arrays => w.words \in Chain
    BY DEF Arrays
  <2> QED
    BY <2>1, <2>2 DEF w
<1>3. ChainOf(hasher, t) \in HashStates(hasher)
  BY <1>1, <1>2, ResetTyped, AbsorbedTyped DEF ChainOf
<1>4. Len(t) \in Nat
  OBVIOUS
<1> QED
  BY <1>2, <1>3, <1>4 DEF Fed, ObjectsOf

LEMMA FedNothing ==
    ASSUME BlockFunctionsAreTyped, NEW hasher \in HasherNames
    PROVE  /\ EmptyArray = OfBytes(<<>>)
           /\ NewHasher(hasher) = Fed(hasher, <<>>)
<1> DEFINE e == <<>>
<1>1. e \in Seq(Byte) /\ Len(e) = 0
  BY EmptySeq
<1>2. EmptyArray = OfBytes(e)
  <2>1. EmptyArray \in Arrays /\ EmptyArray.sigBytes = 0 /\ Len(EmptyArray.words) = 0
    <3>1. <<>> \in Chain /\ 0 \in Nat
      BY DEF Chain
    <3>2. EmptyArray = [words |-> <<>>, sigBytes |-> 0] /\ EmptyArray \in Arrays
      BY <3>1, ArrayIs DEF EmptyArray
    <3> QED
      BY <3>2
  <2>2. WordsFor(0) = 0
    BY DEF WordsFor
  <2>3. \A k \in Nat, j \in 0 .. 3 : k < WordsFor(Len(e)) => ByteAt(At(EmptyArray.words, k), j) = ByteOf(e, 4 * k + j)
    BY <1>1, <2>2
  <2> HIDE DEF e
  <2> QED
    BY <1>1, <2>1, <2>2, <2>3, IsOfBytes
<1> HIDE DEF e
<1>3. InBlocks(hasher, e, 0)
  <2>1. 0 * BlockSize(hasher) = 0
    <3> DEFINE size == BlockSize(hasher)
    <3>1. size \in Nat
      BY BlockSizes
    <3> HIDE DEF size
    <3>2. 0 * size = 0
      BY <3>1
    <3> QED
      BY <3>2 DEF size
  <2> QED
    BY <1>1, <2>1 DEF InBlocks
<1>4. e \o e = e
  BY <1>1, ConcatEmptySeq DEF e
<1>5. BlocksOf(hasher, e) = 0 /\ HeadOf(hasher, e) = e /\ TailOf(hasher, e) = e
  <2>1. Len(e) < 4 * BlockSize(hasher)
    BY <1>1, BlockSizes
  <2>2. BlocksOf(hasher, e \o e) = 0 /\ HeadOf(hasher, e \o e) = e /\ TailOf(hasher, e \o e) = e
    BY <1>1, <1>3, <2>1, TheParts
  <2> QED
    BY <1>4, <2>2
<1>6. ChainOf(hasher, e) = DoReset(hasher)
  <2>1. OfBytes(e).words \in Chain
    <3>1. OfBytes(e) \in Arrays
      BY <1>1, OfBytesIs
    <3> QED
      BY <3>1 DEF Arrays
  <2>2. 0 \in Nat
    OBVIOUS
  <2> QED
    BY <1>5, <2>1, <2>2, ResetTyped, AbsorbedTyped DEF ChainOf
<1>7. NewHasher(hasher) = Fed(hasher, e)
  BY <1>1, <1>2, <1>5, <1>6 DEF NewHasher, Fed
<1> QED
  BY <1>2, <1>7 DEF e

LEMMA FedAppended ==
    ASSUME BlockFunctionsAreTyped, NEW hasher \in HasherNames, NEW a \in Seq(Byte), NEW b \in Seq(Byte)
    PROVE  /\ AppendData(Fed(hasher, a), OfBytes(b)) \in ObjectsOf(hasher)
           /\ AppendData(Fed(hasher, a), OfBytes(b)).data = OfBytes(TailOf(hasher, a) \o b)
           /\ AppendData(Fed(hasher, a), OfBytes(b)).nDataBytes = Len(a) + Len(b)
           /\ AppendData(Fed(hasher, a), OfBytes(b)).hash = ChainOf(hasher, a)
<1> DEFINE h == Fed(hasher, a)
           v == TailOf(hasher, a)
           d == OfBytes(b)
<1>1. h.data = OfBytes(v) /\ h.nDataBytes = Len(a) /\ h.hash = ChainOf(hasher, a)
  BY DEF Fed
<1>2. h \in ObjectsOf(hasher) /\ d \in Arrays /\ d.sigBytes = Len(b)
  BY FedTyped, OfBytesIs
<1>3. Concat(OfBytes(v), OfBytes(b)) = OfBytes(v \o b)
  <2>1. v \in Seq(Byte)
    BY HeadAndTail
  <2> QED
    BY <2>1, ConcatJoins
<1>4. Concat(h.data, d) = OfBytes(v \o b)
  BY <1>1, <1>3
<1> HIDE DEF h, v, d
<1>5. /\ AppendData(h, d) \in ObjectsOf(hasher)
      /\ AppendData(h, d).data = Concat(h.data, d)
      /\ AppendData(h, d).nDataBytes = h.nDataBytes + d.sigBytes
      /\ AppendData(h, d).hash = h.hash
  BY <1>2, AppendIs
<1>6. /\ AppendData(h, d) \in ObjectsOf(hasher) /\ AppendData(h, d).data = OfBytes(v \o b)
      /\ AppendData(h, d).nDataBytes = Len(a) + Len(b) /\ AppendData(h, d).hash = ChainOf(hasher, a)
  BY <1>1, <1>2, <1>4, <1>5
<1> QED
  BY <1>6 DEF h, v, d

\* Feeding b to it is feeding all to a new one: nothing is lost or absorbed
\* twice, wherever the message is cut.
LEMMA FedUpdates ==
    ASSUME BlockFunctionsAreTyped, NEW hasher \in HasherNames, NEW a \in Seq(Byte), NEW b \in Seq(Byte)
    PROVE  UpdateHasher(Fed(hasher, a), OfBytes(b)) = Fed(hasher, a \o b)
<1> DEFINE h == Fed(hasher, a)
           p == HeadOf(hasher, a)
           m == BlocksOf(hasher, a)
           v == TailOf(hasher, a)
           u == v \o b
           x == HeadOf(hasher, u)
           n == BlocksOf(hasher, u)
           y == TailOf(hasher, u)
           g == AppendData(h, OfBytes(b))
           H == ChainOf(hasher, a)
           size == BlockSize(hasher)
<1>1. InBlocks(hasher, p, m) /\ v \in Seq(Byte) /\ p \o v = a /\ p \in Seq(Byte)
  BY HeadAndTail DEF InBlocks
<1>2. u \in Seq(Byte) /\ Len(u) \in Nat
  BY <1>1
<1>3. InBlocks(hasher, x, n) /\ y \in Seq(Byte) /\ x \o y = u /\ Len(y) = Rest(hasher, u)
  BY <1>2, HeadAndTail
<1>4. h \in ObjectsOf(hasher) /\ OfBytes(b) \in Arrays
  BY FedTyped, OfBytesIs
<1>5. g \in ObjectsOf(hasher) /\ g.data = OfBytes(u) /\ g.nDataBytes = Len(a) + Len(b) /\ g.hash = H
  BY FedAppended
<1>6. a \o b = p \o u /\ a \o b \in Seq(Byte) /\ Len(a \o b) = Len(a) + Len(b)
  <2>1. (p \o v) \o b = p \o (v \o b)
    <3>1. p \in Seq(Byte) /\ v \in Seq(Byte)
      BY <1>1
    <3> HIDE DEF p, v
    <3> QED
      BY <3>1, ConcatAssociative
  <2>2. a \o b \in Seq(Byte) /\ Len(a \o b) = Len(a) + Len(b)
    BY ConcatProperties
  <2> QED
    BY <1>1, <2>1, <2>2
<1>7. BlocksOf(hasher, a \o b) = m + n /\ HeadOf(hasher, a \o b) = p \o x /\ TailOf(hasher, a \o b) = y
  <2> HIDE DEF p, m, u
  <2> QED
    BY <1>1, <1>2, <1>6, WholeInFront
<1>8. OfBytes(u).words = OfBytes(x).words \o OfBytes(y).words /\ OfBytes(u).sigBytes = Len(u)
      /\ Len(OfBytes(x).words) = n * size /\ OfBytes(x).words \in Chain /\ OfBytes(y).words \in Chain
  <2>1. OfBytes(u).sigBytes = Len(u)
    BY <1>2, OfBytesIs
  <2> HIDE DEF x, y, n, u, size
  <2>2. /\ OfBytes(x).words \in Chain /\ OfBytes(y).words \in Chain
        /\ Len(OfBytes(x).words) = n * BlockSize(hasher)
        /\ OfBytes(x \o y).words = OfBytes(x).words \o OfBytes(y).words
    BY <1>3, WordsOfWhole
  <2> QED
    BY <1>3, <2>1, <2>2 DEF size
<1>9. /\ Process(g) \in ObjectsOf(hasher)
      /\ Process(g).nDataBytes = Len(a) + Len(b)
      /\ Process(g).hash = Absorbed(hasher, OfBytes(u).words, n, H)
      /\ Process(g).data = [words |-> SubSeq(OfBytes(u).words, n * size + 1, Len(OfBytes(u).words)), sigBytes |-> Len(y)]
  <2>1. n = OfBytes(u).sigBytes \div (4 * BlockSize(hasher)) /\ Len(y) = OfBytes(u).sigBytes % (4 * BlockSize(hasher))
    <3> HIDE DEF y
    <3> QED
      BY <1>3, <1>8 DEF BlocksOf, Rest
  <2> HIDE DEF g, u, y, n, H
  <2>2. /\ Process(g) \in ObjectsOf(hasher)
        /\ Process(g).nDataBytes = g.nDataBytes
        /\ Process(g).hash = Absorbed(hasher, g.data.words, g.data.sigBytes \div (4 * BlockSize(hasher)), g.hash)
        /\ Process(g).data = [words |-> SubSeq(g.data.words, (g.data.sigBytes \div (4 * BlockSize(hasher))) * BlockSize(hasher) + 1, Len(g.data.words)),
                              sigBytes |-> g.data.sigBytes % (4 * BlockSize(hasher))]
    BY <1>5, ProcessIs
  <2> QED
    BY <1>5, <2>1, <2>2
<1>10. Process(g).data = OfBytes(y)
  <2>1. SubSeq(OfBytes(u).words, n * size + 1, Len(OfBytes(u).words)) = OfBytes(y).words
    <3> DEFINE c == OfBytes(x).words
               d == OfBytes(y).words
    <3>1. c \in Seq(Word32) /\ d \in Seq(Word32) /\ OfBytes(u).words = c \o d /\ n * size = Len(c)
      BY <1>8 DEF Chain
    <3> HIDE DEF c, d
    <3>2. SubSeq(c \o d, Len(c) + 1, Len(c \o d)) = d
      BY <3>1, TailOfJoin
    <3> QED
      BY <3>1, <3>2 DEF d
  <2>2. OfBytes(y) = [words |-> OfBytes(y).words, sigBytes |-> Len(y)]
    <3> DEFINE w == OfBytes(y)
    <3>1. w \in Arrays /\ w.sigBytes = Len(y)
      BY <1>3, OfBytesIs
    <3> HIDE DEF w, y
    <3>2. w = [words |-> w.words, sigBytes |-> Len(y)]
      BY <3>1 DEF Arrays
    <3> QED
      BY <3>2 DEF w
  <2> QED
    BY <1>9, <2>1, <2>2
<1>11. Process(g).hash = ChainOf(hasher, a \o b)
  <2> DEFINE R == DoReset(hasher)
  <2>1. R \in HashStates(hasher) /\ H = Absorbed(hasher, OfBytes(p).words, m, R)
    BY ResetTyped DEF ChainOf
  <2>2. ChainOf(hasher, a \o b) = Absorbed(hasher, OfBytes(p \o x).words, m + n, R)
    <3> HIDE DEF p, x, m, n
    <3> QED
      BY <1>7 DEF ChainOf
  <2> HIDE DEF p, x, m, n, R, H, u, y
  <2>a. R \in HashStates(hasher)
    BY <2>1
  <2>b. /\ Absorbed(hasher, OfBytes(p).words, m, R) \in HashStates(hasher)
        /\ Absorbed(hasher, OfBytes(p \o x).words, m + n, R)
             = Absorbed(hasher, OfBytes(x).words, n, Absorbed(hasher, OfBytes(p).words, m, R))
    BY <1>1, <1>3, <2>a, WholeAbsorbed
  <2>3. Absorbed(hasher, OfBytes(p \o x).words, m + n, R) = Absorbed(hasher, OfBytes(x).words, n, H)
        /\ H \in HashStates(hasher)
    BY <2>1, <2>b
  <2>4. Absorbed(hasher, OfBytes(x \o y).words, n, H) = Absorbed(hasher, OfBytes(x).words, n, H)
    <3>1. InBlocks(hasher, x, n) /\ y \in Seq(Byte)
      BY <1>3
    <3>2. H \in HashStates(hasher)
      BY <2>3
    <3> QED
      BY <3>1, <3>2, OnlyWholeAbsorbed
  <2> QED
    BY <1>3, <1>9, <2>2, <2>3, <2>4
<1>12. UpdateHasher(h, OfBytes(b)) = Process(g)
  BY DEF UpdateHasher
<1> DEFINE P == Process(g)
           C == ChainOf(hasher, a \o b)
           D == OfBytes(y)
           l == Len(a \o b)
<1>13. P \in ObjectsOf(hasher) /\ P.nDataBytes = l /\ P.hash = C /\ P.data = D
  BY <1>6, <1>9, <1>10, <1>11
<1>14. Fed(hasher, a \o b) = [hasher |-> hasher, data |-> D, nDataBytes |-> l, hash |-> C]
  <2> HIDE DEF y
  <2> QED
    BY <1>7 DEF Fed
<1> HIDE DEF P, C, D, l
<1>15. P = [hasher |-> hasher, data |-> D, nDataBytes |-> l, hash |-> C]
  BY <1>13 DEF ObjectsOf
<1> QED
  BY <1>12, <1>14, <1>15 DEF P

LEMMA BlocksAdded ==
    ASSUME NEW hasher \in HasherNames, NEW m \in Nat, NEW s \in Nat
    PROVE  /\ (4 * (m * BlockSize(hasher)) + s) \div (4 * BlockSize(hasher)) = m + (s \div (4 * BlockSize(hasher)))
           /\ s \div (4 * BlockSize(hasher)) \in Nat
<1> DEFINE size == BlockSize(hasher)
           Facts == /\ (4 * (m * size) + s) \div (4 * size) = m + (s \div (4 * size))
                    /\ s \div (4 * size) \in Nat
           k == s \div (4 * size)
           r == s % (4 * size)
<1>1. size \in {16, 18, 26, 32, 34, 36}
  BY BlockSizes
<1>2. k \in Nat /\ r \in Nat /\ r < 4 * size /\ s = 4 * (k * size) + r
  BY BlocksReadyIs
<1> HIDE DEF size, k, r
<1>3. /\ (m + k) * size = m * size + k * size /\ m * size \in Nat /\ k * size \in Nat /\ m + k \in Nat
  BY <1>1, <1>2, Places16
<1>4. 4 * (m * size) + s = 4 * ((m + k) * size) + r
  <2> DEFINE x == m * size
             y == k * size
             z == (m + k) * size
  <2>1. x \in Nat /\ y \in Nat /\ z = x + y /\ s = 4 * y + r
    BY <1>2, <1>3
  <2> HIDE DEF x, y, z
  <2>2. 4 * x + s = 4 * z + r
    BY <1>2, <2>1
  <2> QED
    BY <2>2 DEF x, z
<1>5. (4 * ((m + k) * size) + r) \div (4 * size) = m + k
  BY <1>2, <1>3, Divided DEF size
<1>8. Facts
  BY <1>2, <1>4, <1>5 DEF k
<1> QED
  BY <1>8 DEF size

\* However the message reached the object, its last block closes the same
\* message.
LEMMA FedFinalizes ==
    ASSUME BlockFunctionsAreTyped, NEW hasher \in HasherNames, NEW a \in Seq(Byte), NEW b \in Seq(Byte)
    PROVE  /\ FinalizeHasher(Fed(hasher, a), OfBytes(b)) \in ObjectsOf(hasher)
           /\ FinalizeHasher(Fed(hasher, a), OfBytes(b)).hash = Final(hasher, a \o b)
<1> DEFINE p == HeadOf(hasher, a)
           m == BlocksOf(hasher, a)
           v == TailOf(hasher, a)
           u == v \o b
           t == a \o b
           N == Len(a) + Len(b)
           size == BlockSize(hasher)
           X == OfBytes(p).words
           R == DoReset(hasher)
           H == ChainOf(hasher, a)
           d == LastData(hasher, OfBytes(t), N)
           e == LastData(hasher, OfBytes(u), N)
           g == AppendData(Fed(hasher, a), OfBytes(b))
           f == WithLastData(g)
<1>1. InBlocks(hasher, p, m) /\ v \in Seq(Byte) /\ p \o v = a /\ p \in Seq(Byte)
  BY HeadAndTail DEF InBlocks
<1>2. u \in Seq(Byte) /\ t = p \o u /\ t \in Seq(Byte) /\ Len(t) = N /\ N \in Nat
  <2>1. (p \o v) \o b = p \o (v \o b)
    <3>1. p \in Seq(Byte) /\ v \in Seq(Byte)
      BY <1>1
    <3> HIDE DEF p, v
    <3> QED
      BY <3>1, ConcatAssociative
  <2>2. t \in Seq(Byte) /\ Len(t) = Len(a) + Len(b)
    BY ConcatProperties
  <2>3. u \in Seq(Byte)
    BY <1>1, ConcatProperties
  <2>4. Len(a) \in Nat /\ Len(b) \in Nat
    OBVIOUS
  <2> QED
    BY <1>1, <2>1, <2>2, <2>3, <2>4
<1>3. m \in Nat /\ m * size \in Nat /\ Len(p) = 4 * (m * size)
  BY <1>1 DEF InBlocks
<1>4. g \in ObjectsOf(hasher) /\ g.data = OfBytes(u) /\ g.nDataBytes = N /\ g.hash = H
  BY FedAppended
<1>5. f \in ObjectsOf(hasher) /\ f.data = e /\ f.hash = H
  <2> HIDE DEF g, u, H, N
  <2>1. f \in ObjectsOf(hasher) /\ f.data = LastData(hasher, g.data, g.nDataBytes) /\ f.hash = g.hash
    BY <1>4, WithLastDataIs
  <2> QED
    BY <1>4, <2>1
<1>6. Process(f) \in ObjectsOf(hasher) /\ Process(f).hash = Absorbed(hasher, e.words, e.sigBytes \div (4 * size), H)
  <2> HIDE DEF f, e, H
  <2>1. /\ Process(f) \in ObjectsOf(hasher)
        /\ Process(f).hash = Absorbed(hasher, f.data.words, f.data.sigBytes \div (4 * BlockSize(hasher)), f.hash)
    BY <1>5, ProcessIs
  <2> QED
    BY <1>5, <2>1
<1>7. X \in Chain /\ Len(X) = m * size /\ Begins(X, OfBytes(t), OfBytes(u))
  <2> HIDE DEF p, m, u, t, size
  <2>1. /\ X \in Chain /\ OfBytes(u).words \in Chain /\ Len(X) = m * BlockSize(hasher)
        /\ OfBytes(p \o u).words = X \o OfBytes(u).words
    BY <1>1, <1>2, WordsOfWhole
  <2>2. OfBytes(t) \in Arrays /\ OfBytes(u) \in Arrays /\ OfBytes(u).sigBytes = Len(u) /\ OfBytes(t).sigBytes = Len(t)
    BY <1>2, OfBytesIs
  <2>3. Len(t) = Len(p) + Len(u)
    BY <1>1, <1>2, ConcatProperties
  <2> HIDE DEF X
  <2>4. OfBytes(t).sigBytes = 4 * Len(X) + OfBytes(u).sigBytes
    BY <1>3, <2>1, <2>2, <2>3 DEF size
  <2> QED
    BY <1>2, <2>1, <2>2, <2>4 DEF Begins, size
<1>8. Begins(X, d, e)
  <2> HIDE DEF X, u, t, N, m
  <2> QED
    BY <1>2, <1>3, <1>7, LastDataJoined DEF size
<1>9. e \in Arrays /\ d.words = X \o e.words /\ d.sigBytes = 4 * (m * size) + e.sigBytes
  <2> HIDE DEF X, d, e, m, size
  <2> QED
    BY <1>7, <1>8 DEF Begins
<1>10. Final(hasher, t) = Absorbed(hasher, d.words, d.sigBytes \div (4 * size), R)
  <2>1. LastOf(hasher, t) = d
    BY <1>2 DEF LastOf
  <2> HIDE DEF d, t
  <2> QED
    BY <2>1 DEF Final
<1> DEFINE n == e.sigBytes \div (4 * size)
<1>11. d.sigBytes \div (4 * size) = m + n /\ n \in Nat
  <2>1. e.sigBytes \in Nat
    <3> HIDE DEF e
    <3> QED
      BY <1>9 DEF Arrays
  <2> DEFINE k == e.sigBytes
  <2>2. d.sigBytes = 4 * (m * BlockSize(hasher)) + k /\ k \in Nat /\ m \in Nat
    BY <1>3, <1>9, <2>1
  <2> HIDE DEF d, e, m, k
  <2>3. /\ (4 * (m * BlockSize(hasher)) + k) \div (4 * BlockSize(hasher)) = m + (k \div (4 * BlockSize(hasher)))
        /\ k \div (4 * BlockSize(hasher)) \in Nat
    BY <2>2, BlocksAdded
  <2> QED
    BY <2>2, <2>3 DEF k
<1>12. H = Absorbed(hasher, X, m, R) /\ R \in HashStates(hasher)
  BY ResetTyped DEF ChainOf
<1>13. Absorbed(hasher, X \o e.words, m + n, R) = Absorbed(hasher, e.words, n, Absorbed(hasher, X, m, R))
  <2>1. e.words \in Chain
    <3> HIDE DEF e
    <3> QED
      BY <1>9 DEF Arrays
  <2>2. R \in HashStates(hasher)
    BY <1>12
  <2> DEFINE w == e.words
  <2>3. X \in Chain /\ Len(X) = m * BlockSize(hasher) /\ m \in Nat /\ n \in Nat /\ w \in Chain
    BY <1>3, <1>7, <1>11, <2>1
  <2> HIDE DEF X, w, n, m, R, H
  <2>4. Absorbed(hasher, X \o w, m + n, R) = Absorbed(hasher, w, n, Absorbed(hasher, X, m, R))
    BY <2>2, <2>3, AbsorbedInParts
  <2> QED
    BY <2>4 DEF w
<1>14. FinalizeHasher(Fed(hasher, a), OfBytes(b)) = Process(f)
  BY DEF FinalizeHasher
<1> HIDE DEF X, e, n, m, R, H, f, d, t, size
<1>15. Process(f).hash = Final(hasher, t) /\ Process(f) \in ObjectsOf(hasher)
  BY <1>6, <1>9, <1>10, <1>11, <1>12, <1>13 DEF n
<1> QED
  BY <1>14, <1>15 DEF t

\* In particular the digest of a message that is given in one call.
LEMMA HashOfBytes ==
    ASSUME BlockFunctionsAreTyped, NEW hasher \in HasherNames, NEW a \in Seq(Byte), NEW b \in Seq(Byte)
    PROVE  /\ HashOf(hasher, OfBytes(a \o b)) = Digest(hasher, Final(hasher, a \o b))
           /\ Result(FinalizeHasher(Fed(hasher, a), OfBytes(b))) = HashOf(hasher, OfBytes(a \o b))
<1> DEFINE t == a \o b
           e == <<>>
<1>1. t \in Seq(Byte)
  BY ConcatProperties
<1>2. e \in Seq(Byte) /\ e \o t = t /\ NewHasher(hasher) = Fed(hasher, e)
  BY <1>1, EmptySeq, ConcatEmptySeq, FedNothing
<1> DEFINE f == FinalizeHasher(Fed(hasher, a), OfBytes(b))
           g == FinalizeHasher(Fed(hasher, e), OfBytes(t))
<1>3. f \in ObjectsOf(hasher) /\ f.hash = Final(hasher, t)
  BY FedFinalizes
<1>4. g \in ObjectsOf(hasher) /\ g.hash = Final(hasher, t)
  <2>1. e \in Seq(Byte)
    BY <1>2
  <2>2. e \o t = t
    BY <1>2
  <2> HIDE DEF t, e
  <2>3. /\ FinalizeHasher(Fed(hasher, e), OfBytes(t)) \in ObjectsOf(hasher)
        /\ FinalizeHasher(Fed(hasher, e), OfBytes(t)).hash = Final(hasher, e \o t)
    BY <1>1, <2>1, FedFinalizes
  <2> QED
    BY <2>2, <2>3
<1>5. HashOf(hasher, OfBytes(t)) = Result(g)
  BY <1>2 DEF HashOf
<1> HIDE DEF f, g, t, e
<1>6. f.hasher = hasher /\ g.hasher = hasher
  BY <1>3, <1>4 DEF ObjectsOf
<1>7. Result(f) = Digest(hasher, Final(hasher, t)) /\ Result(g) = Digest(hasher, Final(hasher, t))
  BY <1>3, <1>4, <1>6 DEF Result
<1> QED
  BY <1>5, <1>7 DEF f, t

-----------------------------------------------------------------------------
(* HMAC: a hasher that is fed its padded key first *)

LEMMA WholeWords ==
    ASSUME NEW w \in Arrays, w.sigBytes = 4 * Len(w.words)
    PROVE  /\ w = OfBytes(Bytes(w))
           /\ Bytes(w) \in Seq(Byte) /\ Len(Bytes(w)) = w.sigBytes
<1> DEFINE b == Bytes(w)
           m == Len(w.words)
<1>1. m \in Nat
  BY DEF Arrays, Chain
<1>2. /\ b \in Seq(Byte) /\ Len(b) = w.sigBytes
      /\ \A i \in 1 .. w.sigBytes : b[i] = ByteAt(At(w.words, (i - 1) \div 4), (i - 1) % 4)
  BY BytesIs
<1> HIDE DEF b
<1>3. WordsFor(Len(b)) = m
  <2>1. Len(b) = 4 * m
    BY <1>2
  <2>2. 0 \in Nat
    OBVIOUS
  <2> HIDE DEF m
  <2> QED
    BY <1>1, <2>1, <2>2, WordsForIs
<1>4. ASSUME NEW k \in Nat, NEW j \in 0 .. 3, k < m
      PROVE  ByteAt(At(w.words, k), j) = ByteOf(b, 4 * k + j)
  <2> DEFINE i == 4 * k + j + 1
  <2>1. 4 * m = Len(b) /\ 4 * m = w.sigBytes
    BY <1>2
  <2> HIDE DEF m
  <2>2. i \in 1 .. 4 * m /\ (i - 1) \div 4 = k /\ (i - 1) % 4 = j /\ 4 * k + j < 4 * m /\ 4 * k + j + 1 = i
    BY <1>1, <1>4
  <2>3. ByteOf(b, 4 * k + j) = b[i]
    BY <2>1, <2>2 DEF ByteOf
  <2> HIDE DEF i
  <2>4. b[i] = ByteAt(At(w.words, (i - 1) \div 4), (i - 1) % 4)
    BY <1>2, <2>1, <2>2
  <2> QED
    BY <2>2, <2>3, <2>4
<1>5. w = OfBytes(b)
  BY <1>2, <1>3, <1>4, IsOfBytes
<1> QED
  BY <1>2, <1>5 DEF b

LEMMA MacKeyIs ==
    ASSUME BlockFunctionsAreTyped, NEW hasher \in HasherNames, NEW key \in Arrays
    PROVE  MacKey(hasher, key).words \in Chain /\ Len(MacKey(hasher, key).words) <= BlockSize(hasher)
<1> DEFINE short == IF key.sigBytes > 4 * BlockSize(hasher) THEN HashOf(hasher, key) ELSE key
           size == BlockSize(hasher)
<1>1. MacKey(hasher, key) = Clamp(short)
  BY DEF MacKey
<1>2. HashOf(hasher, key) \in Arrays /\ HashOf(hasher, key).sigBytes <= 4 * size
  <2>1. FinalizeHasher(NewHasher(hasher), key) \in ObjectsOf(hasher)
    BY ObjectsTyped
  <2> DEFINE f == FinalizeHasher(NewHasher(hasher), key)
  <2>2. HashOf(hasher, key) = Result(f)
    BY DEF HashOf
  <2> HIDE DEF f
  <2>3. Result(f) \in Arrays /\ Result(f).sigBytes <= 4 * BlockSize(hasher)
    BY <2>1, ObjectsTyped DEF f
  <2> QED
    BY <2>2, <2>3
<1>3. size \in Nat /\ key.sigBytes \in Nat
  BY BlockSizes DEF Arrays
<1>4. short \in Arrays /\ short.sigBytes <= 4 * size
  <2> HIDE DEF size
  <2> QED
    BY <1>2, <1>3 DEF size
<1> HIDE DEF short
<1>5. /\ Clamp(short) \in Arrays /\ Len(Clamp(short).words) = WordsFor(short.sigBytes)
  BY <1>4, ClampIs
<1>6. WordsFor(short.sigBytes) <= size
  <2> DEFINE s == short.sigBytes
  <2>1. s \in Nat
    BY <1>4 DEF Arrays
  <2> HIDE DEF s, size
  <2>2. WordsFor(s) <= size
    BY <1>3, <1>4, <2>1 DEF WordsFor, s
  <2> QED
    BY <2>2 DEF s
<1> DEFINE c == Clamp(short)
<1>7. c \in Arrays /\ Len(c.words) <= size
  BY <1>5, <1>6
<1> HIDE DEF c
<1>8. c.words \in Chain
  BY <1>7 DEF Arrays
<1> QED
  BY <1>1, <1>7, <1>8 DEF c

\* The bytes of a padded key: one whole block.
PadBytes(hasher, key, pad) == Bytes(PadKey(hasher, MacKey(hasher, key).words, pad))

LEMMA PadKeyIs ==
    ASSUME BlockFunctionsAreTyped, NEW hasher \in HasherNames, NEW key \in Arrays, NEW pad \in Byte
    PROVE  /\ PadKey(hasher, MacKey(hasher, key).words, pad) \in Arrays
           /\ PadKey(hasher, MacKey(hasher, key).words, pad) = OfBytes(PadBytes(hasher, key, pad))
           /\ PadBytes(hasher, key, pad) \in Seq(Byte)
           /\ Len(PadBytes(hasher, key, pad)) = 4 * BlockSize(hasher)
           /\ InBlocks(hasher, PadBytes(hasher, key, pad), 1)
<1> DEFINE words == MacKey(hasher, key).words
           size == BlockSize(hasher)
           mask == WordOf(<<pad, pad, pad, pad>>)
           n == Max({size, Len(words)})
           f == [i \in 1 .. n |-> IF i <= size THEN Xor(At(words, i - 1), mask) ELSE words[i]]
           w == PadKey(hasher, words, pad)
<1>1. words \in Chain /\ Len(words) <= size /\ Len(words) \in Nat /\ size \in Nat
  BY MacKeyIs, BlockSizes DEF Chain
<1>2. mask \in Word32
  <2>1. <<pad, pad, pad, pad>> \in Seq(Byte) /\ Len(<<pad, pad, pad, pad>>) <= 4
    OBVIOUS
  <2> QED
    BY <2>1, BytesOfWord
<1>3. w = WordArray(f, 4 * size)
  BY DEF PadKey
<1>4. n = size
  <2> HIDE DEF words, size
  <2>1. \E x \in {size, Len(words)} : \A y \in {size, Len(words)} : x >= y
    BY <1>1
  <2>2. n \in {size, Len(words)} /\ \A y \in {size, Len(words)} : n >= y
    BY <2>1 DEF Max
  <2> HIDE DEF n
  <2> QED
    BY <1>1, <2>2
<1>5. f \in [1 .. size -> Word32]
  <2> HIDE DEF words, size, mask, n
  <2>1. ASSUME NEW i \in 1 .. size PROVE Xor(At(words, i - 1), mask) \in Word32 /\ i <= size
    <3>1. i - 1 \in Int
      OBVIOUS
    <3>2. At(words, i - 1) \in Word32
      BY <1>1, <3>1, AtIs
    <3> QED
      BY <1>1, <1>2, <3>2 DEF Xor, Word32
  <2> QED
    BY <1>4, <2>1
<1> HIDE DEF f, w, size, words, mask, n
<1>6. f \in Chain /\ Len(f) = size
  BY <1>1, <1>5, Listed DEF Chain
<1>7. w \in Arrays /\ w.words = f /\ w.sigBytes = 4 * size
  <2>1. 4 * size \in Nat
    BY <1>1
  <2>2. WordArray(f, 4 * size) = [words |-> f, sigBytes |-> 4 * size] /\ WordArray(f, 4 * size) \in Arrays
    BY <1>6, <2>1, ArrayIs
  <2> QED
    BY <1>3, <2>2
<1>8. w = OfBytes(Bytes(w)) /\ Bytes(w) \in Seq(Byte) /\ Len(Bytes(w)) = 4 * size
  <2>1. w.sigBytes = 4 * Len(w.words)
    BY <1>6, <1>7
  <2> QED
    BY <1>7, <2>1, WholeWords
<1>9. PadBytes(hasher, key, pad) = Bytes(w)
  BY DEF PadBytes, w, words
<1>10. 1 * size \in Nat /\ 4 * size = 4 * (1 * size) /\ 1 \in Nat
  BY <1>1
<1>11. InBlocks(hasher, Bytes(w), 1)
  BY <1>8, <1>10 DEF InBlocks, size
<1> QED
  BY <1>7, <1>8, <1>9, <1>11 DEF w, words, size

InnerPad == {5, 4, 2, 1}
OuterPad == {6, 4, 3, 2}
InnerBytes(hasher, key) == PadBytes(hasher, key, InnerPad)

LEMMA PadsOf ==
    ASSUME BlockFunctionsAreTyped, NEW hasher \in HasherNames, NEW key \in Arrays, NEW h \in ObjectsOf(hasher)
    PROVE  /\ InnerBytes(hasher, key) \in Seq(Byte)
           /\ Len(InnerBytes(hasher, key)) = 4 * BlockSize(hasher)
           /\ InBlocks(hasher, InnerBytes(hasher, key), 1)
           /\ WithPads(h, MacKey(hasher, key)).inner = h
           /\ WithPads(h, MacKey(hasher, key)).iKey = OfBytes(InnerBytes(hasher, key))
           /\ WithPads(h, MacKey(hasher, key)).oKey = PadKey(hasher, MacKey(hasher, key).words, OuterPad)
           /\ PadKey(hasher, MacKey(hasher, key).words, OuterPad) \in Arrays
<1>1. InnerPad \in Byte /\ OuterPad \in Byte
  BY DEF InnerPad, OuterPad, Byte
<1>2. /\ InnerBytes(hasher, key) \in Seq(Byte)
      /\ Len(InnerBytes(hasher, key)) = 4 * BlockSize(hasher)
      /\ InBlocks(hasher, InnerBytes(hasher, key), 1)
      /\ PadKey(hasher, MacKey(hasher, key).words, InnerPad) = OfBytes(InnerBytes(hasher, key))
  BY <1>1, PadKeyIs DEF InnerBytes
<1>3. PadKey(hasher, MacKey(hasher, key).words, OuterPad) \in Arrays
  BY <1>1, PadKeyIs
<1>4. h.hasher = hasher
  BY DEF ObjectsOf
<1>5. /\ WithPads(h, MacKey(hasher, key)).inner = h
      /\ WithPads(h, MacKey(hasher, key)).iKey = PadKey(hasher, MacKey(hasher, key).words, InnerPad)
      /\ WithPads(h, MacKey(hasher, key)).oKey = PadKey(hasher, MacKey(hasher, key).words, OuterPad)
  BY <1>4 DEF WithPads, InnerPad, OuterPad
<1> QED
  BY <1>2, <1>3, <1>5

\* A reset makes the inner hasher a new one that was fed the inner key.
LEMMA ResetMacIs ==
    ASSUME BlockFunctionsAreTyped, NEW hasher \in HasherNames, NEW key \in Arrays, NEW h \in ObjectsOf(hasher)
    PROVE  /\ ResetMac(WithPads(h, MacKey(hasher, key))).inner = Fed(hasher, InnerBytes(hasher, key))
           /\ ResetMac(WithPads(h, MacKey(hasher, key))).oKey = PadKey(hasher, MacKey(hasher, key).words, OuterPad)
<1> DEFINE m == WithPads(h, MacKey(hasher, key))
           p == InnerBytes(hasher, key)
           e == <<>>
           w == PadKey(hasher, MacKey(hasher, key).words, OuterPad)
<1>1. p \in Seq(Byte) /\ m.inner = h /\ m.iKey = OfBytes(p) /\ m.oKey = w
  BY PadsOf
<1>2. m = [inner |-> h, oKey |-> w, iKey |-> OfBytes(p)]
  <2>1. m = [inner |-> m.inner, oKey |-> m.oKey, iKey |-> m.iKey]
    BY DEF WithPads
  <2> HIDE DEF m
  <2> QED
    BY <1>1, <2>1
<1>3. e \in Seq(Byte) /\ e \o p = p
  BY <1>1, EmptySeq, ConcatEmptySeq
<1>4. ResetHasher(h) = Fed(hasher, e)
  BY ObjectsTyped, FedNothing
<1>5. UpdateHasher(ResetHasher(h), m.iKey) = Fed(hasher, p)
  <2> HIDE DEF e, p
  <2>1. UpdateHasher(Fed(hasher, e), OfBytes(p)) = Fed(hasher, e \o p)
    BY <1>1, <1>3, FedUpdates
  <2> QED
    BY <1>1, <1>3, <1>4, <2>1
<1>6. ResetMac(m) = [m EXCEPT !.inner = UpdateHasher(ResetHasher(m.inner), m.iKey)]
  BY DEF ResetMac
<1> DEFINE F == Fed(hasher, p)
<1>7. ResetMac(m) = [m EXCEPT !.inner = F]
  BY <1>1, <1>5, <1>6
<1> HIDE DEF m, F, w, p
<1>8. ResetMac(m).inner = F /\ ResetMac(m).oKey = w
  BY <1>2, <1>7
<1> QED
  BY <1>8 DEF m, F, w, p

\* What it gives depends only on the chaining value of the inner hasher.
LEMMA FinalizeMacIs ==
    ASSUME BlockFunctionsAreTyped, NEW hasher \in HasherNames, NEW m, NEW data, NEW w \in Arrays, m.oKey = w,
           NEW f \in ObjectsOf(hasher), FinalizeHasher(m.inner, data) = f, m.inner \in ObjectsOf(hasher),
           NEW H \in HashStates(hasher), f.hash = H,
           m = [inner |-> m.inner, oKey |-> m.oKey, iKey |-> m.iKey]
    PROVE  /\ FinalizeMac(m, data).inner = FinalizeHasher(NewHasher(hasher), Concat(w, Digest(hasher, H)))
           /\ FinalizeMac(m, data).inner \in ObjectsOf(hasher)
<1> DEFINE d == Digest(hasher, H)
<1>1. Result(f) = d /\ d \in Arrays
  <2>1. f.hasher = hasher
    BY DEF ObjectsOf
  <2>2. Digest(hasher, H) \in Arrays
    BY DigestTyped
  <2> QED
    BY <2>1, <2>2 DEF Result
<1>2. ResetHasher(m.inner) = NewHasher(hasher)
  BY ObjectsTyped
<1>3. FinalizeMac(m, data) = [m EXCEPT !.inner = FinalizeHasher(ResetHasher(@), Concat(m.oKey, Result(FinalizeHasher(m.inner, data))))]
  BY DEF FinalizeMac
<1> DEFINE outer == FinalizeHasher(NewHasher(hasher), Concat(w, d))
<1>4. FinalizeMac(m, data) = [m EXCEPT !.inner = outer]
  BY <1>1, <1>2, <1>3
<1>5. outer \in ObjectsOf(hasher)
  <2>1. Concat(w, d) \in Arrays
    <3> HIDE DEF d
    <3> QED
      BY <1>1, ConcatTyped
  <2> DEFINE c == Concat(w, d)
  <2> HIDE DEF c
  <2>2. FinalizeHasher(NewHasher(hasher), c) \in ObjectsOf(hasher)
    BY <2>1, ObjectsTyped DEF c
  <2> QED
    BY <2>2 DEF c
<1> HIDE DEF outer
<1>6. FinalizeMac(m, data).inner = outer
  BY <1>4
<1> QED
  BY <1>5, <1>6 DEF outer

\* An HMAC that was fed a gives with b what one call gives for the whole.
LEMMA MacOfBytes ==
    ASSUME BlockFunctionsAreTyped, NEW hasher \in HasherNames, NEW key \in Arrays,
           NEW a \in Seq(Byte), NEW b \in Seq(Byte)
    PROVE  LET m == WithPads(Fed(hasher, InnerBytes(hasher, key) \o a), MacKey(hasher, key))
           IN  /\ FinalizeMac(m, OfBytes(b)).inner \in ObjectsOf(hasher)
               /\ Result(FinalizeMac(m, OfBytes(b)).inner) = MacOf(hasher, OfBytes(a \o b), key)
<1> DEFINE p == InnerBytes(hasher, key)
           t == a \o b
           pa == p \o a
           h == Fed(hasher, pa)
           m == WithPads(h, MacKey(hasher, key))
           n == NewMac(hasher, key)
           w == PadKey(hasher, MacKey(hasher, key).words, OuterPad)
           H == Final(hasher, p \o t)
           f == FinalizeHasher(h, OfBytes(b))
           g == FinalizeHasher(Fed(hasher, p), OfBytes(t))
<1>1. NewHasher(hasher) \in ObjectsOf(hasher)
  BY ObjectsTyped
<1>2. p \in Seq(Byte) /\ w \in Arrays
  BY <1>1, PadsOf
<1>3. t \in Seq(Byte) /\ pa \in Seq(Byte) /\ pa \o b = p \o t
  <2> HIDE DEF p
  <2>1. t \in Seq(Byte)
    BY ConcatProperties
  <2>2. pa \in Seq(Byte)
    BY <1>2, ConcatProperties
  <2>3. (p \o a) \o b = p \o (a \o b)
    BY <1>2, ConcatAssociative
  <2> QED
    BY <2>1, <2>2, <2>3
<1>4. h \in ObjectsOf(hasher)
  <2> HIDE DEF pa
  <2> QED
    BY <1>3, FedTyped
<1>5. m.inner = h /\ m.oKey = w
  <2> HIDE DEF h, w
  <2> QED
    BY <1>4, PadsOf DEF w
<1>6. m = [inner |-> m.inner, oKey |-> m.oKey, iKey |-> m.iKey]
  BY DEF WithPads
<1>7. n.inner = Fed(hasher, p) /\ n.oKey = w
  <2>1. n = ResetMac(WithPads(NewHasher(hasher), MacKey(hasher, key)))
    BY DEF NewMac
  <2> QED
    BY <1>1, <2>1, ResetMacIs
<1>8. n = [inner |-> n.inner, oKey |-> n.oKey, iKey |-> n.iKey]
  <2> DEFINE r == WithPads(NewHasher(hasher), MacKey(hasher, key))
             u == UpdateHasher(ResetHasher(r.inner), r.iKey)
  <2>1. r = [inner |-> r.inner, oKey |-> r.oKey, iKey |-> r.iKey]
    BY DEF WithPads
  <2>2. n = [r EXCEPT !.inner = u]
    BY DEF NewMac, ResetMac
  <2> HIDE DEF r, u, n
  <2> QED
    BY <2>1, <2>2
<1>9. f \in ObjectsOf(hasher) /\ f.hash = H
  <2>1. FinalizeHasher(Fed(hasher, pa), OfBytes(b)) \in ObjectsOf(hasher)
        /\ FinalizeHasher(Fed(hasher, pa), OfBytes(b)).hash = Final(hasher, pa \o b)
    <3> HIDE DEF pa
    <3> QED
      BY <1>3, FedFinalizes
  <2> QED
    BY <1>3, <2>1
<1>10. g \in ObjectsOf(hasher) /\ g.hash = H
  <2> HIDE DEF p, t
  <2> QED
    BY <1>2, <1>3, FedFinalizes
<1>11. H \in HashStates(hasher)
  <2> HIDE DEF f, H
  <2> QED
    BY <1>9 DEF ObjectsOf
<1> DEFINE outer == FinalizeHasher(NewHasher(hasher), Concat(w, Digest(hasher, H)))
<1>12. FinalizeMac(m, OfBytes(b)).inner = outer /\ outer \in ObjectsOf(hasher)
  <2>1. FinalizeHasher(m.inner, OfBytes(b)) = f /\ m.inner \in ObjectsOf(hasher)
    BY <1>4, <1>5
  <2> DEFINE d == OfBytes(b)
  <2> HIDE DEF m, w, f, H, d
  <2>2. FinalizeMac(m, d).inner = FinalizeHasher(NewHasher(hasher), Concat(w, Digest(hasher, H)))
        /\ FinalizeMac(m, d).inner \in ObjectsOf(hasher)
    BY <1>2, <1>5, <1>6, <1>9, <1>11, <2>1, FinalizeMacIs DEF d
  <2> QED
    BY <2>2 DEF d
<1>13. FinalizeMac(n, OfBytes(t)).inner = outer
  <2>1. FinalizeHasher(n.inner, OfBytes(t)) = g /\ n.inner \in ObjectsOf(hasher)
    <3>1. Fed(hasher, p) \in ObjectsOf(hasher)
      <4> HIDE DEF p
      <4> QED
        BY <1>2, FedTyped
    <3> QED
      BY <1>7, <3>1
  <2> DEFINE d == OfBytes(t)
  <2> HIDE DEF n, w, g, H, d
  <2>2. FinalizeMac(n, d).inner = FinalizeHasher(NewHasher(hasher), Concat(w, Digest(hasher, H)))
    BY <1>2, <1>7, <1>8, <1>10, <1>11, <2>1, FinalizeMacIs DEF d
  <2> QED
    BY <2>2 DEF d
<1>14. MacOf(hasher, OfBytes(t), key) = Result(FinalizeMac(n, OfBytes(t)).inner)
  BY DEF MacOf, MacResult
<1> HIDE DEF outer
<1>15. FinalizeMac(m, OfBytes(b)).inner \in ObjectsOf(hasher)
       /\ Result(FinalizeMac(m, OfBytes(b)).inner) = MacOf(hasher, OfBytes(t), key)
  BY <1>12, <1>13, <1>14
<1> QED
  BY <1>15

-----------------------------------------------------------------------------
(* The objects of a script *)

\* What an object has been fed before the message.
Prefix == IF IsMac THEN InnerBytes(job.hasher, job.key) ELSE <<>>
\* The digest that one call with the whole message gives.
AtOnce(t) == IF IsMac THEN MacOf(job.hasher, OfBytes(t), job.key) ELSE HashOf(job.hasher, OfBytes(t))

LEMMA ScriptObjects ==
    ASSUME BlockFunctionsAreTyped, job.hasher \in HasherNames, job.key \in Arrays
    PROVE  /\ Prefix \in Seq(Byte) /\ Len(Prefix) = (IF IsMac THEN 4 * BlockSize(job.hasher) ELSE 0)
           /\ \E n : InBlocks(job.hasher, Prefix, n)
           /\ Fresh = Fed(job.hasher, Prefix)
           /\ \A h \in ObjectsOf(job.hasher) : Rewound(h) = Fed(job.hasher, Prefix)
           /\ \A a, b \in Seq(Byte) :
                /\ Finished(Fed(job.hasher, Prefix \o a), OfBytes(b)) \in ObjectsOf(job.hasher)
                /\ Result(Finished(Fed(job.hasher, Prefix \o a), OfBytes(b))) = AtOnce(a \o b)
<1> DEFINE hasher == job.hasher
           key == job.key
<1>0. NewHasher(hasher) \in ObjectsOf(hasher) /\ NewHasher(hasher) = Fed(hasher, <<>>)
  BY ObjectsTyped, FedNothing
<1>1. CASE IsMac
  <2>1. Prefix = InnerBytes(hasher, key)
    BY <1>1 DEF Prefix
  <2>2. /\ Prefix \in Seq(Byte) /\ Len(Prefix) = 4 * BlockSize(hasher) /\ InBlocks(hasher, Prefix, 1)
    BY <1>0, <2>1, PadsOf
  <2>3. Fresh = Fed(hasher, Prefix)
    <3>1. Fresh = ResetMac(WithPads(NewHasher(hasher), MacKey(hasher, key))).inner
      BY <1>1 DEF Fresh, NewMac
    <3> QED
      BY <1>0, <2>1, <3>1, ResetMacIs
  <2>4. ASSUME NEW h \in ObjectsOf(hasher) PROVE Rewound(h) = Fed(hasher, Prefix)
    <3>1. Rewound(h) = ResetMac(WithPads(h, MacKey(hasher, key))).inner
      BY <1>1 DEF Rewound, MacWith
    <3> QED
      BY <2>1, <3>1, ResetMacIs
  <2>5. ASSUME NEW a \in Seq(Byte), NEW b \in Seq(Byte)
        PROVE  /\ Finished(Fed(hasher, Prefix \o a), OfBytes(b)) \in ObjectsOf(hasher)
               /\ Result(Finished(Fed(hasher, Prefix \o a), OfBytes(b))) = AtOnce(a \o b)
    <3> DEFINE m == WithPads(Fed(hasher, InnerBytes(hasher, key) \o a), MacKey(hasher, key))
               r == FinalizeMac(m, OfBytes(b)).inner
    <3>1. Finished(Fed(hasher, Prefix \o a), OfBytes(b)) = r
      BY <1>1, <2>1 DEF Finished, MacWith
    <3>2. r \in ObjectsOf(hasher) /\ Result(r) = MacOf(hasher, OfBytes(a \o b), key)
      BY MacOfBytes
    <3>3. AtOnce(a \o b) = MacOf(hasher, OfBytes(a \o b), key)
      BY <1>1 DEF AtOnce
    <3> QED
      BY <3>1, <3>2, <3>3
  <2> QED
    BY <1>1, <2>2, <2>3, <2>4, <2>5
<1>2. CASE ~ IsMac
  <2> DEFINE e == <<>>
  <2>1. Prefix = e
    BY <1>2 DEF Prefix
  <2>2. e \in Seq(Byte) /\ Len(e) = 0 /\ InBlocks(hasher, e, 0)
    <3>1. 0 * BlockSize(hasher) = 0
      <4> DEFINE size == BlockSize(hasher)
      <4>1. size \in Nat
        BY BlockSizes
      <4> HIDE DEF size
      <4>2. 0 * size = 0
        BY <4>1
      <4> QED
        BY <4>2 DEF size
    <3>2. e \in Seq(Byte) /\ Len(e) = 0
      BY EmptySeq
    <3> QED
      BY <3>1, <3>2 DEF InBlocks
  <2>3. Fresh = Fed(hasher, Prefix)
    BY <1>0, <1>2, <2>1 DEF Fresh
  <2>4. ASSUME NEW h \in ObjectsOf(hasher) PROVE Rewound(h) = Fed(hasher, Prefix)
    <3>1. Rewound(h) = ResetHasher(h)
      BY <1>2 DEF Rewound
    <3> QED
      BY <1>0, <2>1, <3>1, ObjectsTyped
  <2>5. ASSUME NEW a \in Seq(Byte), NEW b \in Seq(Byte)
        PROVE  /\ Finished(Fed(hasher, Prefix \o a), OfBytes(b)) \in ObjectsOf(hasher)
               /\ Result(Finished(Fed(hasher, Prefix \o a), OfBytes(b))) = AtOnce(a \o b)
    <3> DEFINE r == FinalizeHasher(Fed(hasher, a), OfBytes(b))
    <3>1. Finished(Fed(hasher, Prefix \o a), OfBytes(b)) = r
      <4>1. Prefix \o a = a
        BY <2>1, ConcatEmptySeq
      <4> QED
        BY <1>2, <4>1 DEF Finished
    <3>2. r \in ObjectsOf(hasher) /\ Result(r) = HashOf(hasher, OfBytes(a \o b))
      BY FedFinalizes, HashOfBytes
    <3>3. AtOnce(a \o b) = HashOf(hasher, OfBytes(a \o b))
      BY <1>2 DEF AtOnce
    <3> QED
      BY <3>1, <3>2, <3>3
  <2> QED
    BY <1>2, <2>1, <2>2, <2>3, <2>4, <2>5
<1> QED
  BY <1>1, <1>2

-----------------------------------------------------------------------------
(* A piece of the message *)

LEMMA HexGivesBack ==
    ASSUME NEW b \in Seq(Byte)
    PROVE  HexParse(HexStringify(OfBytes(b))) = OfBytes(b)
<1> DEFINE n == Len(b)
           digits == HexStringify(OfBytes(b))
           g == [i \in 1 .. (Len(digits) \div 2) |-> {p + 4 : p \in digits[2 * i - 1]} \cup digits[2 * i]]
<1>1. n \in Nat /\ OfBytes(b).sigBytes = n /\ Bytes(OfBytes(b)) = b
  BY OfBytesIs, BytesOfBytes
<1>2. digits = [i \in 1 .. 2 * n |-> IF i % 2 = 1 THEN {p - 4 : p \in b[(i + 1) \div 2] \cap 4..7} ELSE b[(i + 1) \div 2] \cap 0..3]
  BY <1>1 DEF HexStringify
<1>3. ASSUME NEW i \in 1 .. n
      PROVE  digits[2 * i - 1] = {p - 4 : p \in b[i] \cap 4..7} /\ digits[2 * i] = b[i] \cap 0..3
  <2>1. /\ 2 * i - 1 \in 1 .. 2 * n /\ 2 * i \in 1 .. 2 * n
        /\ (2 * i - 1) % 2 = 1 /\ ((2 * i - 1) + 1) \div 2 = i
        /\ (2 * i) % 2 = 0 /\ ((2 * i) + 1) \div 2 = i
    BY <1>1
  <2> HIDE DEF digits, n
  <2>2. digits[2 * i - 1] = {p - 4 : p \in b[i] \cap 4..7}
    BY <1>2, <2>1
  <2>3. digits[2 * i] = b[i] \cap 0..3
    BY <1>2, <2>1
  <2> QED
    BY <2>2, <2>3
<1>4. Len(digits) = 2 * n
  <2> DEFINE l == 2 * n
             f == [i \in 1 .. l |-> IF i % 2 = 1 THEN {p - 4 : p \in b[(i + 1) \div 2] \cap 4..7} ELSE b[(i + 1) \div 2] \cap 0..3]
             Digit == {f[i] : i \in 1 .. l}
  <2>1. l \in Nat /\ f \in [1 .. l -> Digit]
    BY <1>1
  <2> HIDE DEF f, l, Digit
  <2>2. Len(f) = l
    BY <2>1, Listed
  <2> QED
    BY <1>2, <2>2 DEF f, l
<1>5. (Len(digits) \div 2) = n
  <2> HIDE DEF digits, n
  <2> QED
    BY <1>1, <1>4
<1> HIDE DEF digits
<1>6. ASSUME NEW i \in 1 .. n PROVE {p + 4 : p \in digits[2 * i - 1]} \cup digits[2 * i] = b[i]
  <2> DEFINE x == b[i]
  <2>1. x \in SUBSET (0 .. 7)
    BY DEF Byte
  <2>2. digits[2 * i - 1] = {p - 4 : p \in x \cap 4..7} /\ digits[2 * i] = x \cap 0..3
    BY <1>3
  <2> HIDE DEF x
  <2>3. {p + 4 : p \in {p - 4 : p \in x \cap 4..7}} = x \cap 4..7
    <3>1. ASSUME NEW q \in x \cap 4..7 PROVE q \in {p + 4 : p \in {p - 4 : p \in x \cap 4..7}}
      <4>1. q - 4 \in {p - 4 : p \in x \cap 4..7} /\ q = (q - 4) + 4
        BY <2>1
      <4> QED
        BY <4>1
    <3>2. ASSUME NEW q \in {p + 4 : p \in {p - 4 : p \in x \cap 4..7}} PROVE q \in x \cap 4..7
      <4>1. PICK r \in x \cap 4..7 : q = (r - 4) + 4
        OBVIOUS
      <4>2. q = r
        BY <4>1
      <4> QED
        BY <4>2
    <3> QED
      BY <3>1, <3>2
  <2>4. (x \cap 4..7) \cup (x \cap 0..3) = x
    <3>1. \A k \in x : k \in 0 .. 7
      BY <2>1
    <3>2. \A k \in 0 .. 7 : k \in 4 .. 7 \/ k \in 0 .. 3
      OBVIOUS
    <3>3. \A k \in x : k \in 4 .. 7 \/ k \in 0 .. 3
      BY <3>1, <3>2
    <3> DEFINE hi == 4 .. 7
               lo == 0 .. 3
    <3>4. \A k \in x : k \in hi \/ k \in lo
      BY <3>3
    <3> HIDE DEF hi, lo
    <3>5. (x \cap hi) \cup (x \cap lo) = x
      BY <3>4
    <3> QED
      BY <3>5 DEF hi, lo
  <2> DEFINE hi == {p - 4 : p \in x \cap 4..7}
             lo == x \cap 0..3
             c == digits[2 * i - 1]
             d == digits[2 * i]
  <2>5. {p + 4 : p \in hi} \cup lo = x
    <3> DEFINE u == {p + 4 : p \in hi}
               v == x \cap 4..7
    <3>1. u = v /\ v \cup lo = x
      BY <2>3, <2>4
    <3> HIDE DEF u, v, lo
    <3>2. u \cup lo = x
      BY <3>1
    <3> QED
      BY <3>2 DEF u
  <2>6. c = hi /\ d = lo
    BY <2>2
  <2> HIDE DEF hi, lo, c, d
  <2>7. {p + 4 : p \in c} \cup d = x
    BY <2>5, <2>6
  <2> QED
    BY <2>7 DEF x, c, d
<1>7. g = b
  <2>1. g = [i \in 1 .. n |-> b[i]]
    BY <1>5, <1>6
  <2> QED
    BY <2>1
<1>8. HexParse(digits) = OfBytes(g)
  BY DEF HexParse
<1> QED
  BY <1>7, <1>8 DEF digits

LEMMA Latin1GivesBack ==
    ASSUME NEW b \in Seq(Byte)
    PROVE  Latin1Parse(b) = OfBytes(b)
<1> DEFINE g == [i \in DOMAIN b |-> b[i] \cap 0..7]
<1>1. \A i \in DOMAIN b : b[i] \cap 0..7 = b[i]
  BY DEF Byte
<1>2. g = [i \in DOMAIN b |-> b[i]]
  BY <1>1
<1>3. g = b
  BY <1>2
<1> QED
  BY <1>3 DEF Latin1Parse

\* What the script hands over is the bytes of the message it stands for.
LEMMA PieceIs ==
    ASSUME job \in Jobs,
           NEW from \in job.stops \cup {0}, NEW to \in job.stops, from <= to
    PROVE  /\ Piece(from, to) = OfBytes(SubSeq(Text, from + 1, to))
           /\ SubSeq(Text, from + 1, to) \in Seq(Byte)
           /\ from \in 0 .. Len(Text) /\ to \in 0 .. Len(Text)
           /\ SubSeq(Text, 1, from) \in Seq(Byte) /\ SubSeq(Text, 1, to) \in Seq(Byte)
           /\ Len(SubSeq(Text, 1, from)) = from /\ Len(SubSeq(Text, 1, to)) = to
           /\ SubSeq(Text, 1, from) \o SubSeq(Text, from + 1, to) = SubSeq(Text, 1, to)
<1> DEFINE b == SubSeq(Text, from + 1, to)
<1>1. Text \in Seq(Byte) /\ Len(Text) \in Nat
  BY TextAssumption
<1>2. from \in 0 .. Len(Text) /\ to \in 0 .. Len(Text)
  <2>1. job.stops \subseteq 0 .. Len(Text)
    BY JobAssumption
  <2> QED
    BY <1>1, <2>1
<1>3. b \in Seq(Byte)
  <2>1. from + 1 \in Int /\ to \in Int /\ \A i \in from + 1 .. to : Text[i] \in Byte
    BY <1>1, <1>2
  <2> QED
    BY <2>1, SubSeqProperties
<1>4. /\ SubSeq(Text, 1, from) \in Seq(Byte) /\ SubSeq(Text, 1, to) \in Seq(Byte)
      /\ Len(SubSeq(Text, 1, from)) = from /\ Len(SubSeq(Text, 1, to)) = to
  BY <1>1, <1>2, CutSeq
<1>5. SubSeq(Text, 1, from) \o b = SubSeq(Text, 1, to)
  <2>1. 1 \in 1 .. Len(Text) + 1 /\ from \in (1 - 1) .. Len(Text) /\ to \in from .. Len(Text)
    BY <1>1, <1>2
  <2> QED
    BY <1>1, <2>1, ConcatAdjacentSubSeq
<1>6. Piece(from, to) = OfBytes(b)
  <2>1. Piece(from, to) = Entered(job.entry, b)
    BY DEF Piece
  <2>2. CASE job.entry = "Latin1"
    <3>1. Entered(job.entry, b) = Latin1Parse(b)
      BY <2>2 DEF Entered
    <3> QED
      BY <1>3, <2>1, <3>1, Latin1GivesBack
  <2>3. CASE job.entry = "TypedArray"
    <3>1. Entered(job.entry, b) = OfTypedArray([bytes |-> b])
      BY <2>3 DEF Entered
    <3> QED
      BY <2>1, <3>1 DEF OfTypedArray
  <2>4. CASE job.entry = "Hex"
    <3>1. Entered(job.entry, b) = HexParse(HexStringify(OfBytes(b)))
      BY <2>4 DEF Entered
    <3> QED
      BY <1>3, <2>1, <3>1, HexGivesBack
  <2>5. CASE job.entry \notin {"Latin1", "Hex", "TypedArray"}
    <3>1. \A x \in job.stops \cup {0}, y \in job.stops : x <= y =>
             \A bytes \in {SubSeq(Text, x + 1, y)} : Entered(job.entry, bytes) = OfBytes(bytes)
      BY <2>5, PieceAssumption
    <3>2. \A bytes \in {b} : Entered(job.entry, bytes) = OfBytes(bytes)
      BY <3>1
    <3> QED
      BY <2>1, <3>2
  <2> QED
    BY <2>2, <2>3, <2>4, <2>5
<1> QED
  BY <1>2, <1>3, <1>4, <1>5, <1>6

-----------------------------------------------------------------------------
(* The invariant of the scripts that digest *)

\* The first n bytes of the message.
Taken(n) == SubSeq(Text, 1, n)

\* Every object keeps its own chaining value.
Storage ==
    /\ owners = [o \in Objects |-> o]
    /\ buffers = [o \in Objects |-> buffers[o]]
    /\ chains = [o \in Objects |-> chains[o]]
    /\ fedBytes = [o \in Objects |-> fedBytes[o]]
    /\ results = [o \in Objects |-> results[o]]
Idle(o) == ~ InUse(o) /\ results[o] = NoResult /\ fedBytes[o] = 0
Stops == job.stops \cup {0}
InHand(o) ==
    InUse(o) => /\ job.kind \in StreamKinds
                /\ HasherOf(o) \in ObjectsOf(job.hasher) /\ buffers[o] = BufferOf(HasherOf(o))
\* An object that feeds is one that was fed its prefix and the message so far.
FedSoFar(o) == Feeding(o) => HasherOf(o) = Fed(job.hasher, Prefix \o Taken(fedBytes[o]))
GivenAtOnce(o) ==
    results[o] # NoResult /\ job.kind \in StreamKinds =>
        results[o].length \in Stops /\ results[o].digest = AtOnce(Taken(results[o].length))
Sound(o) ==
    /\ fedBytes[o] \in Stops /\ (~ InUse(o) => fedBytes[o] = 0)
    /\ InHand(o)
    /\ FedSoFar(o)
    /\ GivenAtOnce(o)
ScriptInv ==
    /\ Storage
    /\ job \notin Jobs => job = NoJob /\ \A o \in Objects : Idle(o)
    /\ job \in Jobs => \A o \in Objects : Sound(o)

LEMMA JobKept ==
    ASSUME job' = job
    PROVE  /\ Prefix' = Prefix /\ Stops' = Stops
           /\ \A t : AtOnce(t)' = AtOnce(t)
BY DEF Prefix, Stops, AtOnce, IsMac

\* What happens to other objects does not concern an object.
LEMMA SoundKept ==
    ASSUME NEW o \in Objects, Sound(o), job' = job, buffers'[o] = buffers[o],
           chains'[owners'[o]] = chains[owners[o]], fedBytes'[o] = fedBytes[o], results'[o] = results[o]
    PROVE  Sound(o)'
<1>1. Prefix' = Prefix /\ Stops' = Stops /\ \A t : AtOnce(t)' = AtOnce(t)
  BY JobKept
<1>2. (InUse(o)' <=> InUse(o)) /\ HasherOf(o)' = HasherOf(o) /\ (Feeding(o)' <=> Feeding(o))
  BY DEF InUse, HasherOf, Feeding
<1>3. InHand(o)'
  BY <1>2 DEF Sound, InHand
<1>4. FedSoFar(o)'
  BY <1>1, <1>2 DEF Sound, FedSoFar
<1>5. GivenAtOnce(o)'
  <2>1. GivenAtOnce(o)
    BY DEF Sound
  <2> QED
    BY <1>1, <2>1 DEF GivenAtOnce, AtOnce, IsMac
<1>6. fedBytes'[o] \in Stops' /\ (~ InUse(o)' => fedBytes'[o] = 0)
  BY <1>1, <1>2 DEF Sound
<1> QED
  BY <1>3, <1>4, <1>5, <1>6 DEF Sound

\* The two ways in which an object gets its new state.
LEMMA PutIs ==
    ASSUME NEW hasher \in HasherNames, NEW o \in Objects, NEW h \in ObjectsOf(hasher),
           owners = [q \in Objects |-> q], buffers = [q \in Objects |-> buffers[q]],
           chains = [q \in Objects |-> chains[q]], job' = job, job.hasher = hasher,
           Keep(o, h) \/ GetOwn(o, h)
    PROVE  /\ owners' = owners
           /\ buffers' = [q \in Objects |-> buffers'[q]]
           /\ chains' = [q \in Objects |-> chains'[q]]
           /\ HasherOf(o)' = h /\ buffers'[o] = BufferOf(h) /\ InUse(o)'
           /\ \A q \in Objects \ {o} : buffers'[q] = buffers[q] /\ chains'[owners'[q]] = chains[owners[q]]
<1> DEFINE b == BufferOf(h)
           c == h.hash
<1>1. b.data = h.data /\ b.nDataBytes = h.nDataBytes /\ h.nDataBytes \in Nat
      /\ h = [hasher |-> hasher, data |-> h.data, nDataBytes |-> h.nDataBytes, hash |-> c]
  BY DEF BufferOf, ObjectsOf
<1> HIDE DEF b, c
<1>2. buffers' = [buffers EXCEPT ![o] = b] /\ chains' = [chains EXCEPT ![o] = c] /\ owners' = owners
  BY DEF Keep, GetOwn, b, c
<1>3. buffers'[o] = b /\ chains'[o] = c /\ owners'[o] = o
  BY <1>2
<1>4. InUse(o)'
  <2>1. b # Free
    BY <1>1 DEF Free
  <2> QED
    BY <1>3, <2>1 DEF InUse
<1>5. HasherOf(o)' = h
  BY <1>1, <1>3 DEF HasherOf
<1>6. \A q \in Objects \ {o} : buffers'[q] = buffers[q] /\ chains'[owners'[q]] = chains[owners[q]]
  BY <1>2
<1>7. buffers' = [q \in Objects |-> buffers'[q]] /\ chains' = [q \in Objects |-> chains'[q]]
  BY <1>2
<1> QED
  BY <1>2, <1>3, <1>4, <1>5, <1>6, <1>7 DEF b

LEMMA JobIs ==
    ASSUME job \in Jobs
    PROVE  /\ job.hasher \in HasherNames /\ job.key \in Arrays
           /\ Stops \subseteq 0 .. Len(Text) /\ Stops \subseteq Nat
           /\ 0 \in Stops /\ job.stops \subseteq Stops
           /\ \A n \in Stops : Taken(n) \in Seq(Byte) /\ Len(Taken(n)) = n
           /\ Taken(0) = <<>>
<1>1. job.hasher \in HasherNames /\ job.key \in Arrays /\ job.stops \subseteq 0 .. Len(Text)
  BY JobAssumption
<1>2. Text \in Seq(Byte) /\ Len(Text) \in Nat
  BY TextAssumption
<1>3. Stops \subseteq 0 .. Len(Text) /\ Stops \subseteq Nat
  BY <1>1, <1>2 DEF Stops
<1>4. 0 \in Stops /\ job.stops \subseteq Stops
  BY DEF Stops
<1>5. ASSUME NEW n \in Stops PROVE Taken(n) \in Seq(Byte) /\ Len(Taken(n)) = n
  <2>1. n \in 0 .. Len(Text)
    BY <1>3
  <2> QED
    BY <1>2, <2>1, CutSeq DEF Taken
<1>6. Taken(0) = <<>>
  BY SubSeqEmpty DEF Taken
<1> QED
  BY <1>1, <1>3, <1>4, <1>5, <1>6

LEMMA SoundStart ==
    ASSUME BlockFunctionsAreTyped, job \in Jobs
    PROVE  /\ Prefix \in Seq(Byte) /\ Prefix \o Taken(0) = Prefix
           /\ Fed(job.hasher, Prefix \o Taken(0)) \in ObjectsOf(job.hasher)
<1>1. job.hasher \in HasherNames /\ job.key \in Arrays /\ Taken(0) = <<>>
  BY JobIs
<1>2. Prefix \in Seq(Byte)
  BY <1>1, ScriptObjects
<1>3. Prefix \o Taken(0) = Prefix
  BY <1>1, <1>2, ConcatEmptySeq
<1>4. Fed(job.hasher, Prefix) \in ObjectsOf(job.hasher)
  BY <1>1, <1>2, FedTyped
<1> QED
  BY <1>2, <1>3, <1>4

LEMMA ScriptInit ==
    ASSUME ScriptsInit
    PROVE  ScriptInv
<1>1. /\ buffers = [o \in Objects |-> Free]
      /\ owners = [o \in Objects |-> o]
      /\ chains = [o \in Objects |-> <<>>]
      /\ fedBytes = [o \in Objects |-> 0]
      /\ results = [o \in Objects |-> NoResult]
      /\ job \in Jobs \/ job = NoJob
  BY DEF ScriptsInit, HashInit, HashStart
<1>2. Storage
  BY <1>1 DEF Storage
<1>3. ASSUME NEW o \in Objects PROVE Idle(o)
  BY <1>1 DEF Idle, InUse
<1>4. ASSUME job \in Jobs, NEW o \in Objects PROVE Sound(o)
  <2>1. 0 \in Stops
    BY DEF Stops
  <2>2. ~ InUse(o) /\ results[o] = NoResult /\ fedBytes[o] = 0
    BY <1>3 DEF Idle
  <2> QED
    BY <2>1, <2>2 DEF Sound, InHand, FedSoFar, GivenAtOnce, Feeding
<1> QED
  BY <1>1, <1>2, <1>3, <1>4 DEF ScriptInv

\* An action that changes one object and makes it sound keeps the invariant.
LEMMA OneChanges ==
    ASSUME ScriptInv, job \in Jobs, NEW o \in Objects, job' = job, Sound(o)', Storage',
           \A q \in Objects \ {o} : /\ buffers'[q] = buffers[q] /\ chains'[owners'[q]] = chains[owners[q]]
                                    /\ fedBytes'[q] = fedBytes[q] /\ results'[q] = results[q]
    PROVE  ScriptInv'
<1>1. ASSUME NEW q \in Objects PROVE Sound(q)'
  <2>1. CASE q = o
    BY <2>1
  <2>2. CASE q # o
    <3>1. Sound(q)
      BY DEF ScriptInv
    <3> QED
      BY <2>2, <3>1, SoundKept
  <2> QED
    BY <2>1, <2>2
<1> QED
  BY <1>1 DEF ScriptInv

LEMMA CreateKeeps ==
    ASSUME BlockFunctionsAreTyped, ScriptInv, job \in Jobs, NEW o \in Objects, CreateHasher(o)
    PROVE  ScriptInv'
<1> DEFINE F == Fed(job.hasher, Prefix)
<1>1. /\ job.kind \in StreamKinds /\ GetOwn(o, Fresh) /\ ~ InUse(o)
      /\ job' = job /\ fedBytes' = fedBytes /\ results' = results
  BY DEF CreateHasher
<1>2. Storage /\ Sound(o)
  BY DEF ScriptInv
<1>3. job.hasher \in HasherNames /\ job.key \in Arrays /\ 0 \in Stops
  BY JobIs
<1>4. Fresh = F /\ F \in ObjectsOf(job.hasher) /\ F = Fed(job.hasher, Prefix \o Taken(0))
  BY <1>3, ScriptObjects, SoundStart
<1>5. GetOwn(o, F)
  BY <1>1, <1>4
<1> HIDE DEF F
<1>6. /\ owners' = owners
      /\ buffers' = [q \in Objects |-> buffers'[q]]
      /\ chains' = [q \in Objects |-> chains'[q]]
      /\ HasherOf(o)' = F /\ buffers'[o] = BufferOf(F) /\ InUse(o)'
      /\ \A q \in Objects \ {o} : buffers'[q] = buffers[q] /\ chains'[owners'[q]] = chains[owners[q]]
  BY <1>1, <1>2, <1>3, <1>4, <1>5, PutIs DEF Storage
<1>7. Storage'
  BY <1>1, <1>2, <1>6 DEF Storage
<1>8. Prefix' = Prefix /\ Stops' = Stops /\ \A t : AtOnce(t)' = AtOnce(t)
  BY <1>1, JobKept
<1>9. fedBytes[o] = 0
  BY <1>1, <1>2 DEF Sound
<1>10. Sound(o)'
  <2>1. InHand(o)'
    BY <1>1, <1>4, <1>6 DEF InHand
  <2>2. FedSoFar(o)'
    BY <1>1, <1>4, <1>6, <1>8, <1>9 DEF FedSoFar
  <2>3. GivenAtOnce(o)'
    <3>1. GivenAtOnce(o)
      BY <1>2 DEF Sound
    <3> QED
      BY <1>1, <1>8, <3>1 DEF GivenAtOnce, AtOnce, IsMac
  <2> QED
    BY <1>1, <1>3, <1>6, <1>8, <1>9, <2>1, <2>2, <2>3 DEF Sound
<1> QED
  BY <1>1, <1>6, <1>7, <1>10, OneChanges

LEMMA UpdateKeeps ==
    ASSUME BlockFunctionsAreTyped, ScriptInv, job \in Jobs, NEW o \in Objects, NEW n \in job.stops, Update(o, n)
    PROVE  ScriptInv'
<1> DEFINE from == fedBytes[o]
           b == SubSeq(Text, from + 1, n)
           a == Prefix \o Taken(from)
           t == Taken(n)
           F == Fed(job.hasher, Prefix \o t)
<1>1. /\ Feeding(o) /\ InUse(o) /\ n > from
      /\ Keep(o, UpdateHasher(HasherOf(o), Piece(from, n)))
      /\ fedBytes' = [fedBytes EXCEPT ![o] = n]
      /\ job' = job /\ results' = results
  BY DEF Update, Feeding
<1>2. Storage /\ Sound(o)
  BY DEF ScriptInv
<1>3. job.hasher \in HasherNames /\ job.key \in Arrays /\ n \in Stops /\ from \in Stops /\ Stops \subseteq Nat
  BY <1>2, JobIs DEF Sound
<1>4. job.kind \in StreamKinds /\ HasherOf(o) = Fed(job.hasher, a)
  BY <1>1, <1>2 DEF Sound, InHand, FedSoFar
<1>5. Prefix \in Seq(Byte)
  BY <1>3, ScriptObjects
<1>6. /\ Piece(from, n) = OfBytes(b) /\ b \in Seq(Byte) /\ Taken(from) \in Seq(Byte) /\ t \in Seq(Byte)
      /\ Taken(from) \o b = t
  <2>1. from \in job.stops \cup {0} /\ from <= n
    BY <1>1, <1>3 DEF Stops
  <2> QED
    BY <1>4, <2>1, PieceIs DEF Taken
<1>7. a \in Seq(Byte) /\ a \o b = Prefix \o t /\ Prefix \o t \in Seq(Byte)
  <2> DEFINE u == Taken(from)
  <2>1. u \in Seq(Byte) /\ u \o b = t
    BY <1>6
  <2>4. b \in Seq(Byte)
    BY <1>6
  <2>5. u \in Seq(Byte)
    BY <2>1
  <2> HIDE DEF u, t, b
  <2>2. (Prefix \o u) \o b = Prefix \o (u \o b)
    BY <1>5, <2>4, <2>5, ConcatAssociative
  <2>3. Prefix \o u \in Seq(Byte) /\ Prefix \o t \in Seq(Byte)
    BY <1>5, <1>6, <2>1, ConcatProperties
  <2> QED
    BY <2>1, <2>2, <2>3 DEF u
<1>8. UpdateHasher(HasherOf(o), Piece(from, n)) = F
  <2>1. UpdateHasher(Fed(job.hasher, a), OfBytes(b)) = Fed(job.hasher, a \o b)
    <3> HIDE DEF a, b
    <3> QED
      BY <1>3, <1>6, <1>7, FedUpdates
  <2> QED
    BY <1>4, <1>6, <1>7, <2>1
<1>9. F \in ObjectsOf(job.hasher) /\ Keep(o, F)
  <2>1. F \in ObjectsOf(job.hasher)
    <3> HIDE DEF t
    <3> QED
      BY <1>3, <1>7, FedTyped
  <2> QED
    BY <1>1, <1>8, <2>1
<1> HIDE DEF F
<1>10. /\ owners' = owners
       /\ buffers' = [q \in Objects |-> buffers'[q]]
       /\ chains' = [q \in Objects |-> chains'[q]]
       /\ HasherOf(o)' = F /\ buffers'[o] = BufferOf(F) /\ InUse(o)'
       /\ \A q \in Objects \ {o} : buffers'[q] = buffers[q] /\ chains'[owners'[q]] = chains[owners[q]]
  BY <1>1, <1>2, <1>3, <1>9, PutIs DEF Storage
<1>11. fedBytes'[o] = n /\ \A q \in Objects \ {o} : fedBytes'[q] = fedBytes[q]
  BY <1>1, <1>2 DEF Storage
<1>12. Storage'
  BY <1>1, <1>2, <1>10 DEF Storage
<1>13. Prefix' = Prefix /\ Stops' = Stops /\ \A x : AtOnce(x)' = AtOnce(x)
  BY <1>1, JobKept
<1>14. Sound(o)'
  <2>1. InHand(o)'
    BY <1>1, <1>4, <1>9, <1>10 DEF InHand
  <2>2. FedSoFar(o)'
    BY <1>1, <1>10, <1>11, <1>13 DEF FedSoFar, F
  <2>3. GivenAtOnce(o)'
    BY <1>1 DEF GivenAtOnce, Feeding
  <2> QED
    BY <1>3, <1>10, <1>11, <1>13, <2>1, <2>2, <2>3 DEF Sound
<1> QED
  BY <1>1, <1>10, <1>11, <1>12, <1>14, OneChanges

LEMMA FinalizeKeeps ==
    ASSUME BlockFunctionsAreTyped, ScriptInv, job \in Jobs, NEW o \in Objects, NEW n \in Stops, Finalize(o, n)
    PROVE  ScriptInv'
<1> DEFINE from == fedBytes[o]
           b == IF n = from THEN <<>> ELSE SubSeq(Text, from + 1, n)
           data == IF n = from THEN EmptyArray ELSE Piece(from, n)
           u == Taken(from)
           t == Taken(n)
           F == Finished(HasherOf(o), data)
           r == [length |-> n, digest |-> Result(F)]
<1>1. /\ Feeding(o) /\ InUse(o) /\ n >= from
      /\ Keep(o, F) /\ results' = [results EXCEPT ![o] = r]
      /\ fedBytes' = [fedBytes EXCEPT ![o] = n]
      /\ job' = job
  BY DEF Finalize, GiveDigest, Feeding
<1>2. Storage /\ Sound(o)
  BY DEF ScriptInv
<1>3. job.hasher \in HasherNames /\ job.key \in Arrays /\ from \in Stops /\ Stops \subseteq Nat
  BY <1>2, JobIs DEF Sound
<1>4. job.kind \in StreamKinds /\ HasherOf(o) = Fed(job.hasher, Prefix \o u)
  BY <1>1, <1>2 DEF Sound, InHand, FedSoFar
<1>5. data = OfBytes(b) /\ b \in Seq(Byte) /\ u \in Seq(Byte) /\ u \o b = t
  <2>1. CASE n = from
    <3>1. u \in Seq(Byte)
      BY <1>3, JobIs
    <3> DEFINE e == <<>>
    <3>2. e \in Seq(Byte) /\ u \o e = u /\ EmptyArray = OfBytes(e)
      BY <1>3, <3>1, EmptySeq, ConcatEmptySeq, FedNothing
    <3> QED
      BY <2>1, <3>1, <3>2
  <2>2. CASE n # from
    <3>1. from \in job.stops \cup {0} /\ n \in job.stops /\ from <= n
      BY <1>1, <1>3, <2>2 DEF Stops
    <3>2. /\ Piece(from, n) = OfBytes(SubSeq(Text, from + 1, n)) /\ SubSeq(Text, from + 1, n) \in Seq(Byte)
          /\ u \in Seq(Byte) /\ u \o SubSeq(Text, from + 1, n) = t
      BY <1>4, <3>1, PieceIs DEF Taken
    <3> QED
      BY <2>2, <3>2
  <2> QED
    BY <2>1, <2>2
<1> HIDE DEF b, data
<1>6. F \in ObjectsOf(job.hasher) /\ Result(F) = AtOnce(t)
  <2>1. b \in Seq(Byte) /\ u \in Seq(Byte)
    BY <1>5
  <2> HIDE DEF u
  <2>2. /\ Finished(Fed(job.hasher, Prefix \o u), OfBytes(b)) \in ObjectsOf(job.hasher)
        /\ Result(Finished(Fed(job.hasher, Prefix \o u), OfBytes(b))) = AtOnce(u \o b)
    BY <1>3, <2>1, ScriptObjects
  <2> QED
    BY <1>4, <1>5, <2>2
<1>7. r.length = n /\ r.digest = AtOnce(t) /\ r # NoResult
  <2>1. n \in Nat
    BY <1>3
  <2> QED
    BY <1>6, <2>1 DEF NoResult
<1> HIDE DEF F, r
<1>10. /\ owners' = owners
       /\ buffers' = [q \in Objects |-> buffers'[q]]
       /\ chains' = [q \in Objects |-> chains'[q]]
       /\ HasherOf(o)' = F /\ buffers'[o] = BufferOf(F) /\ InUse(o)'
       /\ \A q \in Objects \ {o} : buffers'[q] = buffers[q] /\ chains'[owners'[q]] = chains[owners[q]]
  BY <1>1, <1>2, <1>3, <1>6, PutIs DEF Storage
<1>11. /\ fedBytes'[o] = n /\ \A q \in Objects \ {o} : fedBytes'[q] = fedBytes[q]
       /\ results'[o] = r /\ \A q \in Objects \ {o} : results'[q] = results[q]
  BY <1>1, <1>2 DEF Storage
<1>12. Storage'
  BY <1>1, <1>2, <1>10 DEF Storage
<1>13. Prefix' = Prefix /\ Stops' = Stops
  BY <1>1, JobKept
<1>14. Sound(o)'
  <2>1. InHand(o)'
    BY <1>1, <1>4, <1>6, <1>10 DEF InHand
  <2>2. FedSoFar(o)'
    BY <1>7, <1>11 DEF FedSoFar, Feeding
  <2>3. GivenAtOnce(o)'
    BY <1>1, <1>7, <1>11, <1>13 DEF GivenAtOnce, AtOnce, IsMac
  <2> QED
    BY <1>10, <1>11, <1>13, <2>1, <2>2, <2>3 DEF Sound
<1> QED
  BY <1>1, <1>10, <1>11, <1>12, <1>14, OneChanges

LEMMA ResetKeeps ==
    ASSUME BlockFunctionsAreTyped, ScriptInv, job \in Jobs, NEW o \in Objects, Reset(o)
    PROVE  ScriptInv'
<1> DEFINE F == Fed(job.hasher, Prefix)
<1>1. /\ InUse(o) /\ GetOwn(o, Rewound(HasherOf(o))) /\ job' = job
      /\ fedBytes' = [fedBytes EXCEPT ![o] = 0]
      /\ results' = [results EXCEPT ![o] = NoResult]
  BY DEF Reset
<1>2. Storage /\ Sound(o)
  BY DEF ScriptInv
<1>3. job.hasher \in HasherNames /\ job.key \in Arrays /\ 0 \in Stops
  BY JobIs
<1>4. job.kind \in StreamKinds /\ HasherOf(o) \in ObjectsOf(job.hasher)
  BY <1>1, <1>2 DEF Sound, InHand
<1>5. Rewound(HasherOf(o)) = F /\ F \in ObjectsOf(job.hasher) /\ F = Fed(job.hasher, Prefix \o Taken(0))
  BY <1>3, <1>4, ScriptObjects, SoundStart
<1>6. GetOwn(o, F)
  BY <1>1, <1>5
<1> HIDE DEF F
<1>7. /\ owners' = owners
      /\ buffers' = [q \in Objects |-> buffers'[q]]
      /\ chains' = [q \in Objects |-> chains'[q]]
      /\ HasherOf(o)' = F /\ buffers'[o] = BufferOf(F) /\ InUse(o)'
      /\ \A q \in Objects \ {o} : buffers'[q] = buffers[q] /\ chains'[owners'[q]] = chains[owners[q]]
  BY <1>1, <1>2, <1>3, <1>5, <1>6, PutIs DEF Storage
<1>8. /\ fedBytes'[o] = 0 /\ \A q \in Objects \ {o} : fedBytes'[q] = fedBytes[q]
      /\ results'[o] = NoResult /\ \A q \in Objects \ {o} : results'[q] = results[q]
  BY <1>1, <1>2 DEF Storage
<1>9. Storage'
  BY <1>1, <1>2, <1>7 DEF Storage
<1>10. Prefix' = Prefix /\ Stops' = Stops
  BY <1>1, JobKept
<1>11. Sound(o)'
  <2>1. InHand(o)'
    BY <1>1, <1>4, <1>5, <1>7 DEF InHand
  <2>2. FedSoFar(o)'
    BY <1>1, <1>5, <1>7, <1>8, <1>10 DEF FedSoFar
  <2>3. GivenAtOnce(o)'
    BY <1>8 DEF GivenAtOnce
  <2> QED
    BY <1>3, <1>7, <1>8, <1>10, <2>1, <2>2, <2>3 DEF Sound
<1> QED
  BY <1>1, <1>7, <1>8, <1>9, <1>11, OneChanges

\* A clone goes on from where the other is, on a chaining value of its own.
LEMMA CloneKeeps ==
    ASSUME BlockFunctionsAreTyped, ScriptInv, job \in Jobs, NEW o \in Objects, NEW p \in Objects, Clone(o, p)
    PROVE  ScriptInv'
<1>1. /\ Feeding(o) /\ InUse(o) /\ ~ InUse(p) /\ job.kind \in StreamKinds
      /\ buffers' = [buffers EXCEPT ![p] = buffers[o]]
      /\ owners' = [owners EXCEPT ![p] = p]
      /\ chains' = [chains EXCEPT ![p] = chains[owners[o]]]
      /\ fedBytes' = [fedBytes EXCEPT ![p] = fedBytes[o]]
      /\ job' = job /\ results' = results
  BY DEF Clone, Feeding, StreamKinds
<1>2. Storage /\ Sound(o) /\ Sound(p)
  BY DEF ScriptInv
<1>3. /\ buffers'[p] = buffers[o] /\ owners'[p] = p /\ chains'[p] = chains[owners[o]]
      /\ fedBytes'[p] = fedBytes[o] /\ results'[p] = results[p]
  BY <1>1, <1>2 DEF Storage
<1>4. \A q \in Objects \ {p} : /\ buffers'[q] = buffers[q] /\ chains'[owners'[q]] = chains[owners[q]]
                               /\ fedBytes'[q] = fedBytes[q] /\ results'[q] = results[q]
  BY <1>1, <1>2 DEF Storage
<1>5. Storage'
  BY <1>1, <1>2 DEF Storage
<1>6. Prefix' = Prefix /\ Stops' = Stops
  BY <1>1, JobKept
<1>7. HasherOf(p)' = HasherOf(o) /\ InUse(p)'
  BY <1>1, <1>3 DEF HasherOf, InUse
<1>8. Sound(p)'
  <2>1. InHand(p)'
    BY <1>1, <1>2, <1>3, <1>7 DEF Sound, InHand
  <2>2. FedSoFar(p)'
    BY <1>1, <1>2, <1>3, <1>6, <1>7 DEF Sound, FedSoFar
  <2>3. GivenAtOnce(p)'
    <3>1. GivenAtOnce(p)
      BY <1>2 DEF Sound
    <3> QED
      BY <1>1, <1>3, <1>6, <3>1 DEF GivenAtOnce, AtOnce, IsMac
  <2>4. fedBytes[o] \in Stops
    BY <1>2 DEF Sound
  <2> QED
    BY <1>3, <1>6, <1>7, <2>1, <2>2, <2>3, <2>4 DEF Sound
<1> QED
  BY <1>1, <1>4, <1>5, <1>8, OneChanges

LEMMA CallKeeps ==
    ASSUME BlockFunctionsAreTyped, ScriptInv, job \in Jobs, NEW o \in Objects, NEW n \in job.stops, Call(o, n)
    PROVE  ScriptInv'
<1> DEFINE r == [length |-> n, digest |-> OneCall(Piece(0, n), SubSeq(Text, 1, n))]
<1>1. /\ job.kind \notin StreamKinds /\ results' = [results EXCEPT ![o] = r]
      /\ job' = job /\ buffers' = buffers /\ owners' = owners /\ chains' = chains /\ fedBytes' = fedBytes
  BY DEF Call
<1> HIDE DEF r
<1>2. Storage /\ Sound(o)
  BY DEF ScriptInv
<1>3. \A q \in Objects \ {o} : results'[q] = results[q]
  BY <1>1, <1>2 DEF Storage
<1>4. Storage'
  BY <1>1, <1>2 DEF Storage
<1>5. ~ InUse(o) /\ ~ InUse(o)'
  BY <1>1, <1>2 DEF Sound, InHand, InUse
<1>6. Sound(o)'
  <2>1. InHand(o)' /\ FedSoFar(o)'
    BY <1>5 DEF InHand, FedSoFar, Feeding
  <2>2. GivenAtOnce(o)'
    BY <1>1 DEF GivenAtOnce
  <2>3. fedBytes'[o] \in Stops' /\ fedBytes'[o] = 0
    BY <1>1, <1>2, <1>5 DEF Sound, Stops
  <2> QED
    BY <2>1, <2>2, <2>3 DEF Sound
<1> QED
  BY <1>1, <1>3, <1>4, <1>6, OneChanges

LEMMA ScriptNext ==
    ASSUME BlockFunctionsAreTyped, ScriptInv, [ScriptsNext]_<<hvars, cvars>>
    PROVE  ScriptInv'
<1>1. ASSUME UNCHANGED hvars PROVE ScriptInv'
  <2>1. job' = job /\ buffers' = buffers /\ owners' = owners /\ chains' = chains /\ fedBytes' = fedBytes
        /\ results' = results
    BY <1>1 DEF hvars
  <2>2. Storage'
    BY <2>1 DEF Storage, ScriptInv
  <2>3. ASSUME job \in Jobs, NEW o \in Objects PROVE Sound(o)'
    BY <2>1, <2>3, SoundKept DEF ScriptInv
  <2>4. ASSUME job \notin Jobs PROVE job' = NoJob /\ \A o \in Objects : Idle(o)'
    BY <2>1, <2>4 DEF ScriptInv, Idle, InUse
  <2> QED
    BY <2>1, <2>2, <2>3, <2>4 DEF ScriptInv
<1>2. ASSUME job # NoJob, HashNext PROVE ScriptInv'
  <2>1. job \in Jobs
    BY <1>2 DEF ScriptInv
  <2>2. PICK o \in Objects :
           \/ CreateHasher(o)
           \/ Reset(o)
           \/ \E p \in Objects : Clone(o, p)
           \/ \E n \in job.stops : Update(o, n) \/ Call(o, n)
           \/ \E n \in job.stops \cup {0} : Finalize(o, n)
    BY <1>2 DEF HashNext
  <2>3. CASE CreateHasher(o)
    BY <2>1, <2>3, CreateKeeps
  <2>4. CASE Reset(o)
    BY <2>1, <2>4, ResetKeeps
  <2>5. CASE \E p \in Objects : Clone(o, p)
    BY <2>1, <2>5, CloneKeeps
  <2>6. CASE \E n \in job.stops : Update(o, n) \/ Call(o, n)
    BY <2>1, <2>6, UpdateKeeps, CallKeeps
  <2>7. CASE \E n \in job.stops \cup {0} : Finalize(o, n)
    BY <2>1, <2>7, FinalizeKeeps DEF Stops
  <2> QED
    BY <2>2, <2>3, <2>4, <2>5, <2>6, <2>7
<1> QED
  BY <1>1, <1>2 DEF ScriptsNext

LEMMA ScriptInvariant ==
    ASSUME BlockFunctionsAreTyped
    PROVE  ScriptsSpec => []ScriptInv
<1>1. ScriptsInit => ScriptInv
  BY ScriptInit
<1>2. ScriptInv /\ [ScriptsNext]_<<hvars, cvars>> => ScriptInv'
  BY ScriptNext
<1> QED
  BY <1>1, <1>2, PTL DEF ScriptsSpec

-----------------------------------------------------------------------------
(* What the runs check *)

LEMMA TypesFollow ==
    ASSUME ScriptInv
    PROVE  HashTypeOK
<1>1. Storage
  BY DEF ScriptInv
<1>2. ASSUME NEW o \in Objects, InUse(o)
      PROVE  job \in Jobs /\ HasherOf(o) \in ObjectsOf(job.hasher) /\ buffers[o] = BufferOf(HasherOf(o))
  <2>1. job \in Jobs
    BY <1>2 DEF ScriptInv, Idle
  <2> QED
    BY <1>2, <2>1 DEF ScriptInv, Sound, InHand
<1>3. ASSUME NEW o \in Objects, InUse(o)
      PROVE  /\ buffers[o] \in [data : Arrays, nDataBytes : Nat]
             /\ chains[owners[o]] \in HashStates(job.hasher)
  <2> DEFINE h == HasherOf(o)
  <2>1. h \in ObjectsOf(job.hasher) /\ buffers[o] = [data |-> h.data, nDataBytes |-> h.nDataBytes]
    BY <1>2, <1>3 DEF BufferOf
  <2>2. h.hash = chains[owners[o]]
    BY DEF HasherOf
  <2> HIDE DEF h
  <2> QED
    BY <2>1, <2>2 DEF ObjectsOf
<1>4. ASSUME NEW o \in Objects PROVE fedBytes[o] \in Nat
  <2>1. CASE job \in Jobs
    BY <2>1, JobIs DEF ScriptInv, Sound
  <2>2. CASE job \notin Jobs
    BY <2>2 DEF ScriptInv, Idle
  <2> QED
    BY <2>1, <2>2
<1>5. ASSUME NEW o \in Objects
      PROVE  /\ buffers[o] \in [data : [words : Chain, sigBytes : Nat], nDataBytes : Nat] \cup {Free}
             /\ InUse(o) => chains[owners[o]] \in HashStates(job.hasher)
  <2>1. CASE InUse(o)
    BY <1>3, <2>1 DEF Arrays
  <2>2. CASE ~ InUse(o)
    BY <2>2 DEF InUse
  <2> QED
    BY <2>1, <2>2
<1>6. owners \in [Objects -> Objects] /\ fedBytes \in [Objects -> Nat]
  BY <1>1, <1>4 DEF Storage
<1> QED
  BY <1>5, <1>6 DEF HashTypeOK

LEMMA TailFollows ==
    ASSUME BlockFunctionsAreTyped, ScriptInv
    PROVE  BufferHoldsTheTail
<1> SUFFICES ASSUME NEW o \in Objects, Feeding(o)
             PROVE  /\ buffers[o].nDataBytes = fedBytes[o] + (IF IsMac THEN 4 * BlockSize(job.hasher) ELSE 0)
                    /\ Bytes(buffers[o].data) = SubSeq(Text, fedBytes[o] - (fedBytes[o] % (4 * BlockSize(job.hasher))) + 1, fedBytes[o])
  BY DEF BufferHoldsTheTail
<1> DEFINE n == fedBytes[o]
           t == Taken(n)
           hasher == job.hasher
           F == Fed(hasher, Prefix \o t)
           r == n % (4 * BlockSize(hasher))
<1>1. job \in Jobs
  BY DEF ScriptInv, Idle, Feeding
<1>2. hasher \in HasherNames /\ job.key \in Arrays /\ n \in Nat /\ n \in 0 .. Len(Text) /\ t \in Seq(Byte) /\ Len(t) = n
  BY <1>1, JobIs DEF ScriptInv, Sound
<1>3. HasherOf(o) = F
  BY <1>1 DEF ScriptInv, Sound, FedSoFar
<1>4. buffers[o].nDataBytes = Len(Prefix \o t) /\ buffers[o].data = OfBytes(TailOf(hasher, Prefix \o t))
  BY <1>3 DEF HasherOf, Fed
<1>5. Prefix \in Seq(Byte) /\ Len(Prefix) = IF IsMac THEN 4 * BlockSize(hasher) ELSE 0
  BY <1>2, ScriptObjects
<1>6. Len(Prefix \o t) = Len(Prefix) + n /\ Len(Prefix) \in Nat
  <2> DEFINE p == Prefix
  <2>1. p \in Seq(Byte)
    BY <1>5
  <2>2. t \in Seq(Byte)
    BY <1>2
  <2>4. Len(t) = n
    BY <1>2
  <2> HIDE DEF t, n, p
  <2>3. Len(p \o t) = Len(p) + Len(t) /\ Len(p) \in Nat
    BY <2>1, <2>2, ConcatProperties
  <2> QED
    BY <2>3, <2>4 DEF p
<1>7. TailOf(hasher, Prefix \o t) = TailOf(hasher, t) /\ TailOf(hasher, t) \in Seq(Byte)
  <2>1. PICK m : InBlocks(hasher, Prefix, m)
    BY <1>2, ScriptObjects
  <2> HIDE DEF t, n
  <2> QED
    BY <1>2, <2>1, WholeInFront, HeadAndTail
<1>8. TailOf(hasher, t) = SubSeq(t, n - r + 1, n)
  BY <1>2 DEF TailOf, Rest
<1>9. r \in Nat /\ r <= n
  BY <1>2, BlocksReadyIs
<1> HIDE DEF n, r
<1>10. SubSeq(t, n - r + 1, n) = SubSeq(Text, n - r + 1, n)
  <2>1. Text \in Seq(Byte) /\ Len(Text) \in Nat
    BY TextAssumption
  <2>2. CASE r = 0
    <3>1. n - r + 1 \in Int /\ n \in Int /\ n < n - r + 1
      BY <1>2, <2>2
    <3> QED
      BY <3>1, SubSeqEmpty
  <2>3. CASE r # 0
    <3> DEFINE a == n - r + 1
    <3>1. 1 \in 1 .. Len(Text) /\ n \in 1 .. Len(Text) /\ a \in 1 .. n - 1 + 1 /\ n \in 1 .. n - 1 + 1
          /\ 1 + a - 1 = a /\ 1 + n - 1 = n
      BY <1>2, <1>9, <2>1, <2>3
    <3> HIDE DEF a
    <3>2. SubSeq(SubSeq(Text, 1, n), a, n) = SubSeq(Text, 1 + a - 1, 1 + n - 1)
      BY <2>1, <3>1, SubSeqOfSubSeq
    <3> QED
      BY <3>1, <3>2 DEF a, Taken
  <2> QED
    BY <2>2, <2>3
<1>11. Bytes(buffers[o].data) = SubSeq(Text, n - r + 1, n)
  <2> DEFINE x == TailOf(hasher, t)
  <2>1. buffers[o].data = OfBytes(x) /\ x \in Seq(Byte)
    BY <1>4, <1>7
  <2>2. x = SubSeq(Text, n - r + 1, n)
    BY <1>8, <1>10
  <2> HIDE DEF x
  <2> QED
    BY <2>1, <2>2, BytesOfBytes
<1>12. buffers[o].nDataBytes = n + (IF IsMac THEN 4 * BlockSize(hasher) ELSE 0)
  <2> DEFINE l == Len(Prefix)
             k == IF IsMac THEN 4 * BlockSize(hasher) ELSE 0
  <2>1. buffers[o].nDataBytes = l + n /\ l \in Nat /\ l = k
    BY <1>4, <1>5, <1>6
  <2> HIDE DEF l, k
  <2>2. buffers[o].nDataBytes = n + k
    BY <1>2, <2>1
  <2> QED
    BY <2>2 DEF k
<1> QED
  BY <1>11, <1>12 DEF n, r

LEMMA CutsFollow ==
    ASSUME ScriptInv
    PROVE  DigestIgnoresCuts
<1> SUFFICES ASSUME NEW o \in Objects, results[o] # NoResult, job.kind \in StreamKinds
             PROVE  results[o].digest = AtOnce(Taken(results[o].length))
  BY DEF DigestIgnoresCuts, AtOnce, Taken
<1>1. job \in Jobs
  BY DEF ScriptInv, Idle
<1> QED
  BY <1>1 DEF ScriptInv, Sound, GivenAtOnce

-----------------------------------------------------------------------------
(* The operators on words give words *)

LEMMA WordOperators ==
    /\ \A x, y \in Word32 : Xor(x, y) \in Word32 /\ x \cap y \in Word32 /\ x \ y \in Word32
    /\ \A x \in Word32 : Not(x) \in Word32
    /\ \A x \in Word32, n \in Nat : Shl(x, n) \in Word32 /\ Shr(x, n) \in Word32
    /\ \A x \in Word32, n \in Nat : Rotl(x, n) \in Word32 /\ Rotr(x, n) \in Word32
    /\ \A hi, lo : Word(hi, lo) \in Word32
<1>1. ASSUME NEW x \in Word32, NEW n \in Nat PROVE Shl(x, n) \in Word32 /\ Shr(x, n) \in Word32
  <2>1. \A i \in 0 .. 31 - n : i + n \in 0 .. 31
    OBVIOUS
  <2>2. \A i \in n .. 31 : i - n \in 0 .. 31
    OBVIOUS
  <2> QED
    BY <2>1, <2>2 DEF Shl, Shr, Word32, Places
<1>2. ASSUME NEW x \in Word32, NEW n \in Nat PROVE Rotl(x, n) \in Word32 /\ Rotr(x, n) \in Word32
  <2>1. \A i \in 0 .. 31 : (i + n) % 32 \in 0 .. 31 /\ (i + 32 - n) % 32 \in 0 .. 31
    OBVIOUS
  <2> QED
    BY <2>1 DEF Rotl, Rotr, Word32, Places
<1>3. \A x, y \in Word32 : Xor(x, y) \in Word32 /\ x \cap y \in Word32 /\ x \ y \in Word32
  BY DEF Xor, Word32
<1>4. \A x \in Word32 : Not(x) \in Word32
  BY DEF Not, Word32
<1>5. \A hi, lo : Word(hi, lo) \in Word32
  BY DEF Word, BitsOf, Word32, Places
<1> QED
  BY <1>1, <1>2, <1>3, <1>4, <1>5

\* f adds words whose carries are at the k highest places.
AddsHigh(f, k) ==
    \A x \in Word32, c \in Word32 :
        c \subseteq (32 - k) .. 31 => f[x][c] = IF c = {} THEN x ELSE f[Xor(x, c)][Shl(x \cap c, 1)]

\* Carries move up, and are gone after 32 places.
LEMMA CarriesMove ==
    ASSUME NEW x \in Word32, NEW c \in Word32, NEW k \in 0 .. 31, c \subseteq (32 - (k + 1)) .. 31
    PROVE  /\ Xor(x, c) \in Word32 /\ Shl(x \cap c, 1) \in Word32
           /\ Shl(x \cap c, 1) \subseteq (32 - k) .. 31
<1>1. x \cap c \in Word32 /\ Xor(x, c) \in Word32 /\ Shl(x \cap c, 1) \in Word32
  BY WordOperators
<1>2. ASSUME NEW i \in x \cap c, i \in 0 .. 30 PROVE i + 1 \in (32 - k) .. 31
  <2>1. i \in (32 - (k + 1)) .. 31
    OBVIOUS
  <2> QED
    BY <1>2, <2>1
<1> QED
  BY <1>1, <1>2 DEF Shl

LEMMA AdditionExists ==
    \E f : AddsHigh(f, 32)
<1> DEFINE Made == {k \in 0 .. 32 : \E f : AddsHigh(f, k)}
<1>1. 0 \in Made
  <2> DEFINE f == [x \in Word32 |-> [c \in Word32 |-> x]]
  <2>1. AddsHigh(f, 0)
    BY DEF AddsHigh
  <2>2. 0 \in 0 .. 32
    OBVIOUS
  <2> HIDE DEF f
  <2> QED
    BY <2>1, <2>2
<1>2. ASSUME NEW k \in 0 .. 32 - 1, k \in Made PROVE k + 1 \in Made
  <2>1. PICK f : AddsHigh(f, k)
    BY <1>2
  <2> DEFINE g == [x \in Word32 |-> [c \in Word32 |-> IF c = {} THEN x ELSE f[Xor(x, c)][Shl(x \cap c, 1)]]]
  <2>2. \A x, c \in Word32 : g[x][c] = IF c = {} THEN x ELSE f[Xor(x, c)][Shl(x \cap c, 1)]
    OBVIOUS
  <2> HIDE DEF g
  <2>3. ASSUME NEW x \in Word32, NEW c \in Word32, c \subseteq (32 - k) .. 31 PROVE g[x][c] = f[x][c]
    <3>1. f[x][c] = IF c = {} THEN x ELSE f[Xor(x, c)][Shl(x \cap c, 1)]
      BY <2>1, <2>3 DEF AddsHigh
    <3> QED
      BY <2>2, <3>1
  <2>4. ASSUME NEW x \in Word32, NEW c \in Word32, c \subseteq (32 - (k + 1)) .. 31
        PROVE  g[x][c] = IF c = {} THEN x ELSE g[Xor(x, c)][Shl(x \cap c, 1)]
    <3> DEFINE y == Xor(x, c)
               d == Shl(x \cap c, 1)
    <3>1. y \in Word32 /\ d \in Word32 /\ d \subseteq (32 - k) .. 31
      <4>1. k \in 0 .. 31
        OBVIOUS
      <4> QED
        BY <2>4, <4>1, CarriesMove
    <3> HIDE DEF y, d
    <3>2. g[y][d] = f[y][d]
      BY <2>3, <3>1
    <3> QED
      BY <2>2, <3>2 DEF y, d
  <2>5. AddsHigh(g, k + 1)
    BY <2>4 DEF AddsHigh
  <2> QED
    BY <2>5
<1> HIDE DEF Made
<1>3. 0 .. 32 \subseteq Made
  BY <1>1, <1>2, RangeInduction
<1>4. 32 \in Made
  BY <1>3
<1> QED
  BY <1>4 DEF Made

\* The recursion of Add, from which its carries are gone in the end.
LEMMA CarriedIs ==
    \A x, c \in Word32 : Carried[x][c] = IF c = {} THEN x ELSE Carried[Xor(x, c)][Shl(x \cap c, 1)]
<1> DEFINE Sums(f) == f = [x \in Word32 |-> [c \in Word32 |-> IF c = {} THEN x ELSE f[Xor(x, c)][Shl(x \cap c, 1)]]]
<1>1. \E f : Sums(f)
  <2>1. PICK f : AddsHigh(f, 32)
    BY AdditionExists
  <2> DEFINE g == [x \in Word32 |-> [c \in Word32 |-> f[x][c]]]
  <2>2. \A x, c \in Word32 : g[x][c] = f[x][c]
    OBVIOUS
  <2>3. ASSUME NEW x \in Word32, NEW c \in Word32
        PROVE  f[x][c] = IF c = {} THEN x ELSE g[Xor(x, c)][Shl(x \cap c, 1)]
    <3>1. c \subseteq (32 - 32) .. 31
      BY DEF Word32, Places
    <3>2. Xor(x, c) \in Word32 /\ x \cap c \in Word32 /\ Shl(x \cap c, 1) \in Word32
      BY WordOperators
    <3> HIDE DEF g
    <3> QED
      BY <2>1, <2>2, <3>1, <3>2 DEF AddsHigh
  <2>4. Sums(g)
    BY <2>3
  <2> HIDE DEF Sums, g
  <2> QED
    BY <2>4
<1>2. Sums(Carried)
  <2>1. Carried = CHOOSE f : Sums(f)
    BY DEF Carried
  <2> HIDE DEF Sums
  <2> QED
    BY <1>1, <2>1
<1>3. \A x, c \in Word32 : Carried[x][c] = IF c = {} THEN x ELSE Carried[Xor(x, c)][Shl(x \cap c, 1)]
  <2> DEFINE row(x) == [c \in Word32 |-> IF c = {} THEN x ELSE Carried[Xor(x, c)][Shl(x \cap c, 1)]]
  <2>1. Carried = [x \in Word32 |-> row(x)]
    BY <1>2
  <2> HIDE DEF row
  <2>2. \A x \in Word32 : Carried[x] = row(x)
    BY <2>1
  <2>3. \A x, c \in Word32 : row(x)[c] = IF c = {} THEN x ELSE Carried[Xor(x, c)][Shl(x \cap c, 1)]
    BY DEF row
  <2> QED
    BY <2>2, <2>3
<1> QED
  BY <1>3

\* (x + y) | 0 is a word.
LEMMA SumsTyped ==
    /\ \A x, y \in Word32 : Add(x, y) \in Word32
    /\ \A x, y, z \in Word32 : Sum3(x, y, z) \in Word32
    /\ \A x, y, z, w \in Word32 : Sum4(x, y, z, w) \in Word32
<1>3. \A x, c \in Word32 : Carried[x][c] = IF c = {} THEN x ELSE Carried[Xor(x, c)][Shl(x \cap c, 1)]
  BY CarriedIs
<1> DEFINE Typed(k) == \A x, c \in Word32 : c \subseteq (32 - k) .. 31 => Carried[x][c] \in Word32
           Done == {k \in 0 .. 32 : Typed(k)}
<1>4. 0 \in Done
  <2>1. ASSUME NEW x \in Word32, NEW c \in Word32, c \subseteq (32 - 0) .. 31 PROVE Carried[x][c] \in Word32
    <3>1. c = {}
      BY <2>1
    <3> QED
      BY <1>3, <3>1
  <2>2. 0 \in 0 .. 32
    OBVIOUS
  <2> QED
    BY <2>1, <2>2
<1>5. ASSUME NEW k \in 0 .. 32 - 1, k \in Done PROVE k + 1 \in Done
  <2>1. ASSUME NEW x \in Word32, NEW c \in Word32, c \subseteq (32 - (k + 1)) .. 31 PROVE Carried[x][c] \in Word32
    <3>1. Xor(x, c) \in Word32 /\ Shl(x \cap c, 1) \in Word32 /\ Shl(x \cap c, 1) \subseteq (32 - k) .. 31
      <4>1. k \in 0 .. 31
        OBVIOUS
      <4> QED
        BY <2>1, <4>1, CarriesMove
    <3>2. Carried[Xor(x, c)][Shl(x \cap c, 1)] \in Word32
      BY <1>5, <3>1
    <3> QED
      BY <1>3, <3>2
  <2> QED
    BY <2>1
<1> HIDE DEF Done
<1>6. 0 .. 32 \subseteq Done
  BY <1>4, <1>5, RangeInduction
<1>7. Typed(32)
  BY <1>6 DEF Done
<1>8. \A x, y \in Word32 : Add(x, y) \in Word32
  BY <1>7 DEF Add, Word32, Places
<1> QED
  BY <1>8 DEF Sum3, Sum4

\* Every element of x is a word.
Listed32(x) == \A i \in DOMAIN x : x[i] \in Word32

LEMMA ConstantsTyped ==
    /\ T \in States(64) /\ K256 \in States(64) /\ hl \in States(5) /\ hr \in States(5)
    /\ zl \in [1 .. 80 -> 0 .. 15] /\ zr \in [1 .. 80 -> 0 .. 15]
    /\ sl \in [1 .. 80 -> Nat] /\ sr \in [1 .. 80 -> Nat]
    /\ Md5Shift \in [1 .. 4 -> [1 .. 4 -> Nat]]
<1>1. \A h : Listed32(Words(h))
  BY WordOperators DEF Words, Listed32
<1>2. Listed32(T) /\ DOMAIN T = 1 .. 64
  <2>1. Listed32(T)
    BY <1>1 DEF T
  <2>2. DOMAIN T = 1 .. 64
    BY DEF T, Words
  <2> QED
    BY <2>1, <2>2
<1>3. Listed32(K256) /\ DOMAIN K256 = 1 .. 64
  <2>1. Listed32(K256)
    BY <1>1 DEF K256
  <2>2. DOMAIN K256 = 1 .. 64
    BY DEF K256, Words
  <2> QED
    BY <2>1, <2>2
<1>4. hl \in States(5) /\ hr \in States(5)
  BY <1>1 DEF hl, hr, Words, Listed32, States
<1>a. T = [i \in DOMAIN T |-> T[i]] /\ K256 = [i \in DOMAIN K256 |-> K256[i]]
  BY DEF T, K256, Words
<1>b. T \in States(64) /\ K256 \in States(64)
  BY <1>2, <1>3, <1>a DEF Listed32, States
<1>5. zl \in [1 .. 80 -> 0 .. 15]
  BY DEF zl
<1>6. zr \in [1 .. 80 -> 0 .. 15]
  BY DEF zr
<1>7. sl \in [1 .. 80 -> Nat]
  BY DEF sl
<1>8. sr \in [1 .. 80 -> Nat]
  BY DEF sr
<1>9. Md5Shift \in [1 .. 4 -> [1 .. 4 -> Nat]]
  BY DEF Md5Shift
<1> QED
  BY <1>4, <1>5, <1>6, <1>7, <1>8, <1>9, <1>b

LEMMA AddWordsTyped ==
    ASSUME NEW n \in Nat, NEW x \in States(n), NEW y \in States(n)
    PROVE  AddWords(x, y) \in States(n)
BY SumsTyped DEF AddWords, States

LEMMA Md5StepTyped ==
    ASSUME NEW M \in States(16), NEW v \in States(4), NEW i \in 0 .. 63
    PROVE  Md5Step(M, v, i) \in States(4)
<1> DEFINE q == i \div 16
           f == CASE q = 0 -> FF(v[2], v[3], v[4])
                  [] q = 1 -> GG(v[2], v[3], v[4])
                  [] q = 2 -> HH(v[2], v[3], v[4])
                  [] q = 3 -> II(v[2], v[3], v[4])
           w == SwapBytes(M[Md5Word(i) + 1])
           s == Md5Shift[q + 1][(i % 4) + 1]
           n == Sum4(v[1], f, w, T[i + 1])
<1>1. q \in 0 .. 3 /\ i + 1 \in 1 .. 64 /\ q + 1 \in 1 .. 4 /\ (i % 4) + 1 \in 1 .. 4
  OBVIOUS
<1>2. v[1] \in Word32 /\ v[2] \in Word32 /\ v[3] \in Word32 /\ v[4] \in Word32
  BY DEF States
<1>3. f \in Word32
  <2>1. \A b, c, d \in Word32 : /\ FF(b, c, d) \in Word32 /\ GG(b, c, d) \in Word32
                                /\ HH(b, c, d) \in Word32 /\ II(b, c, d) \in Word32
    BY WordOperators, WordsWritten DEF FF, GG, HH, II, Choose, Parity
  <2> HIDE DEF q
  <2>2. q = 0 \/ q = 1 \/ q = 2 \/ q = 3
    BY <1>1
  <2> QED
    BY <1>2, <2>1, <2>2
<1>4. w \in Word32
  <2>1. Md5Word(i) + 1 \in 1 .. 16
    <3>1. \A k \in Nat : k % 16 \in 0 .. 15
      OBVIOUS
    <3>2. i \in Nat /\ 5 * i + 1 \in Nat /\ 3 * i + 5 \in Nat /\ 7 * i \in Nat
      OBVIOUS
    <3>3. Md5Word(i) \in 0 .. 15
      BY <1>1, <3>1, <3>2 DEF Md5Word
    <3> QED
      BY <3>3
  <2> QED
    BY <2>1, WordsWritten DEF States
<1>5. T[i + 1] \in Word32 /\ s \in Nat
  BY <1>1, ConstantsTyped DEF States
<1>6. Md5Step(M, v, i) = <<v[4], Add(Rotl(n, s), v[2]), v[2], v[3]>>
  BY DEF Md5Step
<1> HIDE DEF f, w, s
<1>7. n \in Word32
  BY <1>2, <1>3, <1>4, <1>5, SumsTyped
<1> HIDE DEF n
<1>8. Add(Rotl(n, s), v[2]) \in Word32
  BY <1>2, <1>5, <1>7, WordOperators, SumsTyped
<1> QED
  BY <1>2, <1>6, <1>8 DEF States

LEMMA Md5BlockTyped ==
    ASSUME NEW H \in States(4), NEW M \in States(16)
    PROVE  Md5Block(H, M) \in States(4)
<1> DEFINE S == States(4)
           g == [i \in 0 .. 64 - 1 |-> [v \in S |-> Md5Step(M, v, i)]]
<1>1. ASSUME NEW i \in 0 .. 64 - 1, NEW v \in S PROVE g[i][v] \in S
  <2>1. Md5Step(M, v, i) \in S
    BY Md5StepTyped
  <2> QED
    BY <2>1
<1>2. Md5Block(H, M) = AddWords(H, Passed(S, 64, g, H))
  BY DEF Md5Block, Loop
<1> HIDE DEF g
<1>3. Passed(S, 64, g, H) \in S
  BY <1>1, PassedIs
<1> QED
  BY <1>2, <1>3, AddWordsTyped

LEMMA WordAt ==
    ASSUME NEW W \in Chain, NEW j \in Nat
    PROVE  At(W, j) \in Word32 /\ \A k \in Nat : At(W, j + k) \in Word32
<1>1. \A i \in Int : At(W, i) \in Word32
  BY AtIs
<1>2. j \in Int /\ \A k \in Nat : j + k \in Int
  OBVIOUS
<1> QED
  BY <1>1, <1>2

LEMMA Sha1ScheduleTyped ==
    ASSUME NEW M \in States(16)
    PROVE  Sha1Schedule(M) \in Chain
<1> DEFINE Next1(W, j) == Append(W, Rotl(Xor(Xor(At(W, j + 13), At(W, j + 8)), Xor(At(W, j + 2), At(W, j))), 1))
           g == [j \in 0 .. 64 - 1 |-> [W \in Chain |-> Next1(W, j)]]
<1>1. ASSUME NEW W \in Chain, NEW j \in 0 .. 64 - 1 PROVE Next1(W, j) \in Chain
  <2> DEFINE x == Rotl(Xor(Xor(At(W, j + 13), At(W, j + 8)), Xor(At(W, j + 2), At(W, j))), 1)
  <2>1. At(W, j + 13) \in Word32 /\ At(W, j + 8) \in Word32 /\ At(W, j + 2) \in Word32 /\ At(W, j) \in Word32
    BY WordAt
  <2>2. x \in Word32
    BY <2>1, WordOperators
  <2> HIDE DEF x
  <2>3. Append(W, x) \in Chain
    BY <2>2 DEF Chain
  <2> QED
    BY <2>3 DEF x
<1>2. M \in Chain
  <2>1. M \in [1 .. 16 -> Word32]
    BY DEF States
  <2>2. M \in Seq(Word32)
    BY <2>1, Listed
  <2> QED
    BY <2>2 DEF Chain
<1>3. Sha1Schedule(M) = Passed(Chain, 64, g, M)
  BY DEF Sha1Schedule, Loop
<1> HIDE DEF Next1
<1>4. ASSUME NEW j \in 0 .. 64 - 1, NEW W \in Chain PROVE g[j][W] \in Chain
  BY <1>1
<1> HIDE DEF g
<1>5. Passed(Chain, 64, g, M) \in Chain
  BY <1>2, <1>4, PassedIs
<1> QED
  BY <1>3, <1>5

LEMMA Sha1RoundTyped ==
    ASSUME NEW W \in Chain, NEW v \in States(5), NEW i \in 0 .. 79
    PROVE  Sha1Round(W, v, i) \in States(5)
<1> DEFINE f == Sha1Group(v[2], v[3], v[4], i)
           n == Sum4(Rotl(v[1], 5), v[5], At(W, i), f)
           r == Rotl(v[2], 30)
<1>1. v[1] \in Word32 /\ v[2] \in Word32 /\ v[3] \in Word32 /\ v[4] \in Word32 /\ v[5] \in Word32
  BY DEF States
<1>2. f \in Word32
  <2>1. \A b, c, d \in Word32 : Choose(b, c, d) \in Word32 /\ Parity(b, c, d) \in Word32 /\ Majority(b, c, d) \in Word32
    BY WordOperators, WordsWritten DEF Choose, Parity, Majority
  <2>2. \A x \in Word32 : \A hi, lo : Add(x, Word(hi, lo)) \in Word32
    BY WordOperators, SumsTyped
  <2>3. i < 20 \/ (i >= 20 /\ i < 40) \/ (i >= 40 /\ i < 60) \/ i >= 60
    OBVIOUS
  <2>4. /\ Choose(v[2], v[3], v[4]) \in Word32 /\ Parity(v[2], v[3], v[4]) \in Word32
        /\ Majority(v[2], v[3], v[4]) \in Word32
    BY <1>1, <2>1
  <2> QED
    BY <2>2, <2>3, <2>4 DEF Sha1Group
<1>3. At(W, i) \in Word32 /\ Rotl(v[1], 5) \in Word32 /\ r \in Word32
  <2>1. At(W, i) \in Word32
    BY WordAt
  <2> QED
    BY <1>1, <2>1, WordOperators
<1>4. Sha1Round(W, v, i) = <<n, v[1], r, v[3], v[4]>>
  BY DEF Sha1Round
<1> HIDE DEF f, r
<1>5. n \in Word32
  BY <1>1, <1>2, <1>3, SumsTyped
<1> HIDE DEF n
<1> QED
  BY <1>1, <1>3, <1>4, <1>5 DEF States

LEMMA Sha1BlockTyped ==
    ASSUME NEW H \in States(5), NEW M \in States(16)
    PROVE  Sha1Block(H, M) \in States(5)
<1> DEFINE S == States(5)
           W == Sha1Schedule(M)
           g == [i \in 0 .. 80 - 1 |-> [v \in S |-> Sha1Round(W, v, i)]]
<1>1. W \in Chain
  BY Sha1ScheduleTyped
<1>2. Sha1Block(H, M) = AddWords(H, Passed(S, 80, g, H))
  BY DEF Sha1Block, Loop
<1> HIDE DEF W
<1>3. ASSUME NEW i \in 0 .. 80 - 1, NEW v \in S PROVE g[i][v] \in S
  <2>1. Sha1Round(W, v, i) \in S
    BY <1>1, Sha1RoundTyped
  <2> QED
    BY <2>1
<1> HIDE DEF g
<1>4. Passed(S, 80, g, H) \in S
  BY <1>3, PassedIs
<1> QED
  BY <1>2, <1>4, AddWordsTyped

LEMMA Sha256Functions ==
    ASSUME NEW x \in Word32
    PROVE  /\ Gamma0(x) \in Word32 /\ Gamma1(x) \in Word32
           /\ Sigma0(x) \in Word32 /\ Sigma1(x) \in Word32
<1>1. \A n \in Nat : Rotr(x, n) \in Word32 /\ Shr(x, n) \in Word32
  BY WordOperators
<1>2. \A y, z \in Word32 : Xor(y, z) \in Word32
  BY WordOperators
<1>3. Gamma0(x) \in Word32 /\ Gamma1(x) \in Word32
  BY <1>1, <1>2 DEF Gamma0, Gamma1
<1>4. Sigma0(x) \in Word32 /\ Sigma1(x) \in Word32
  BY <1>1, <1>2 DEF Sigma0, Sigma1
<1> QED
  BY <1>3, <1>4

LEMMA Sha256ScheduleTyped ==
    ASSUME NEW M \in States(16)
    PROVE  Sha256Schedule(M) \in Chain
<1> DEFINE Next1(W, j) == Append(W, Sum4(Gamma0(At(W, j + 1)), At(W, j + 9), Gamma1(At(W, j + 14)), At(W, j)))
           g == [j \in 0 .. 48 - 1 |-> [W \in Chain |-> Next1(W, j)]]
<1>1. ASSUME NEW W \in Chain, NEW j \in 0 .. 48 - 1 PROVE Next1(W, j) \in Chain
  <2> DEFINE x == Sum4(Gamma0(At(W, j + 1)), At(W, j + 9), Gamma1(At(W, j + 14)), At(W, j))
  <2>1. At(W, j + 1) \in Word32 /\ At(W, j + 9) \in Word32 /\ At(W, j + 14) \in Word32 /\ At(W, j) \in Word32
    BY WordAt
  <2>2. Gamma0(At(W, j + 1)) \in Word32 /\ Gamma1(At(W, j + 14)) \in Word32
    BY <2>1, Sha256Functions
  <2>3. x \in Word32
    BY <2>1, <2>2, SumsTyped
  <2> HIDE DEF x
  <2>4. Append(W, x) \in Chain
    BY <2>3 DEF Chain
  <2> QED
    BY <2>4 DEF x
<1>2. M \in Chain
  <2>1. M \in [1 .. 16 -> Word32]
    BY DEF States
  <2>2. M \in Seq(Word32)
    BY <2>1, Listed
  <2> QED
    BY <2>2 DEF Chain
<1>3. Sha256Schedule(M) = Passed(Chain, 48, g, M)
  BY DEF Sha256Schedule, Loop
<1> HIDE DEF Next1
<1>4. ASSUME NEW j \in 0 .. 48 - 1, NEW W \in Chain PROVE g[j][W] \in Chain
  BY <1>1
<1> HIDE DEF g
<1>5. Passed(Chain, 48, g, M) \in Chain
  BY <1>2, <1>4, PassedIs
<1> QED
  BY <1>3, <1>5

LEMMA Sha256RoundTyped ==
    ASSUME NEW W \in Chain, NEW v \in States(8), NEW i \in 0 .. 63
    PROVE  Sha256Round(W, v, i) \in States(8)
<1> DEFINE ch == Xor(v[5] \cap v[6], v[7] \ v[5])
           maj == Xor(Xor(v[1] \cap v[2], v[1] \cap v[3]), v[2] \cap v[3])
           t1 == Add(Sum4(v[8], Sigma1(v[5]), ch, K256[i + 1]), At(W, i))
           n == Sum3(t1, Sigma0(v[1]), maj)
           m == Add(v[4], t1)
<1>1. /\ v[1] \in Word32 /\ v[2] \in Word32 /\ v[3] \in Word32 /\ v[4] \in Word32
      /\ v[5] \in Word32 /\ v[6] \in Word32 /\ v[7] \in Word32 /\ v[8] \in Word32
  BY DEF States
<1>2. ch \in Word32 /\ maj \in Word32
  BY <1>1, WordOperators
<1>3. At(W, i) \in Word32
  BY WordAt
<1>4. K256[i + 1] \in Word32
  BY ConstantsTyped DEF States
<1>5. Sigma0(v[1]) \in Word32 /\ Sigma1(v[5]) \in Word32
  BY <1>1, Sha256Functions
<1>6. Sha256Round(W, v, i) = <<n, v[1], v[2], v[3], m, v[5], v[6], v[7]>>
  BY DEF Sha256Round
<1> HIDE DEF ch, maj
<1>7. t1 \in Word32
  BY <1>1, <1>2, <1>3, <1>4, <1>5, SumsTyped
<1> HIDE DEF t1
<1>8. n \in Word32 /\ m \in Word32
  BY <1>1, <1>2, <1>5, <1>7, SumsTyped
<1> HIDE DEF n, m
<1> QED
  BY <1>1, <1>6, <1>8 DEF States

LEMMA Sha256BlockTyped ==
    ASSUME NEW H \in States(8), NEW M \in States(16)
    PROVE  Sha256Block(H, M) \in States(8)
<1> DEFINE S == States(8)
           W == Sha256Schedule(M)
           g == [i \in 0 .. 64 - 1 |-> [v \in S |-> Sha256Round(W, v, i)]]
<1>1. W \in Chain
  BY Sha256ScheduleTyped
<1>2. Sha256Block(H, M) = AddWords(H, Passed(S, 64, g, H))
  BY DEF Sha256Block, Loop
<1> HIDE DEF W
<1>3. ASSUME NEW i \in 0 .. 64 - 1, NEW v \in S PROVE g[i][v] \in S
  <2>1. Sha256Round(W, v, i) \in S
    BY <1>1, Sha256RoundTyped
  <2> QED
    BY <2>1
<1> HIDE DEF g
<1>4. Passed(S, 64, g, H) \in S
  BY <1>3, PassedIs
<1> QED
  BY <1>2, <1>4, AddWordsTyped

\* A step of a line of RIPEMD-160, whatever it takes from its tables.
LEMMA Ripemd160StepTyped ==
    ASSUME NEW v \in States(5), NEW k \in 1 .. 5, NEW x \in Word32, NEW h \in Word32, NEW s \in Nat
    PROVE  Ripemd160Step(v, F160(k, v[2], v[3], v[4]), x, h, s) \in States(5)
<1> DEFINE f == F160(k, v[2], v[3], v[4])
           n == Sum4(v[1], f, x, h)
           m == Add(Rotl(n, s), v[5])
           r == Rotl(v[3], 10)
<1>1. v[1] \in Word32 /\ v[2] \in Word32 /\ v[3] \in Word32 /\ v[4] \in Word32 /\ v[5] \in Word32
  BY DEF States
<1>2. f \in Word32
  <2>1. \A a, b, c \in Word32 : /\ Parity(a, b, c) \in Word32 /\ Choose(a, b, c) \in Word32
                                /\ Xor(a \cup Not(b), c) \in Word32 /\ (a \cap c) \cup (b \ c) \in Word32
                                /\ Xor(a, b \cup Not(c)) \in Word32
    BY WordOperators, WordsWritten DEF Parity, Choose
  <2>2. k = 1 \/ k = 2 \/ k = 3 \/ k = 4 \/ k = 5
    OBVIOUS
  <2> QED
    BY <1>1, <2>1, <2>2 DEF F160
<1>3. Ripemd160Step(v, f, x, h, s) = <<v[5], m, v[2], r, v[4]>>
  BY DEF Ripemd160Step
<1>4. r \in Word32
  BY <1>1, WordOperators
<1> HIDE DEF f, r
<1>5. n \in Word32
  BY <1>1, <1>2, SumsTyped
<1> HIDE DEF n
<1>6. m \in Word32
  BY <1>1, <1>5, WordOperators, SumsTyped
<1> HIDE DEF m
<1>7. Ripemd160Step(v, f, x, h, s) \in States(5)
  BY <1>1, <1>3, <1>4, <1>6 DEF States
<1> QED
  BY <1>7 DEF f

LEMMA Ripemd160BlockTyped ==
    ASSUME NEW H \in States(5), NEW M \in States(16)
    PROVE  Ripemd160Block(H, M) \in States(5)
<1> DEFINE S == States(5)
           a == [i \in 0 .. 80 - 1 |-> [v \in S |-> Ripemd160Left(M, v, i)]]
           b == [i \in 0 .. 80 - 1 |-> [v \in S |-> Ripemd160Right(M, v, i)]]
           l == Passed(S, 80, a, H)
           r == Passed(S, 80, b, H)
<1>1. ASSUME NEW i \in 0 .. 80 - 1, NEW v \in S
      PROVE  Ripemd160Left(M, v, i) \in S /\ Ripemd160Right(M, v, i) \in S
  <2>1. /\ i + 1 \in 1 .. 80 /\ (i \div 16) + 1 \in 1 .. 5 /\ 5 - (i \div 16) \in 1 .. 5
    OBVIOUS
  <2>2. /\ hl[(i \div 16) + 1] \in Word32 /\ hr[(i \div 16) + 1] \in Word32
        /\ sl[i + 1] \in Nat /\ sr[i + 1] \in Nat
        /\ zl[i + 1] + 1 \in 1 .. 16 /\ zr[i + 1] + 1 \in 1 .. 16
    <3>1. zl[i + 1] \in 0 .. 15 /\ zr[i + 1] \in 0 .. 15
      BY <2>1, ConstantsTyped
    <3>2. \A z \in 0 .. 15 : z + 1 \in 1 .. 16
      OBVIOUS
    <3> QED
      BY <2>1, <3>1, <3>2, ConstantsTyped DEF States
  <2>3. SwapBytes(M[zl[i + 1] + 1]) \in Word32 /\ SwapBytes(M[zr[i + 1] + 1]) \in Word32
    BY <2>2, WordsWritten DEF States
  <2>4. Ripemd160Left(M, v, i) \in S
    BY <2>1, <2>2, <2>3, Ripemd160StepTyped DEF Ripemd160Left
  <2>5. Ripemd160Right(M, v, i) \in S
    BY <2>1, <2>2, <2>3, Ripemd160StepTyped DEF Ripemd160Right
  <2> QED
    BY <2>4, <2>5
<1>2. Ripemd160Block(H, M) = [k \in 1 .. 5 |-> Sum3(H[(k % 5) + 1], l[((k + 1) % 5) + 1], r[((k + 2) % 5) + 1])]
  BY DEF Ripemd160Block, Loop
<1>3. ASSUME NEW i \in 0 .. 80 - 1, NEW v \in S PROVE a[i][v] \in S
  BY <1>1
<1>4. ASSUME NEW i \in 0 .. 80 - 1, NEW v \in S PROVE b[i][v] \in S
  BY <1>1
<1> HIDE DEF a, b
<1>5. l \in S
  BY <1>3, PassedIs
<1>6. r \in S
  BY <1>4, PassedIs
<1> HIDE DEF l, r
<1>7. ASSUME NEW k \in 1 .. 5
      PROVE  Sum3(H[(k % 5) + 1], l[((k + 1) % 5) + 1], r[((k + 2) % 5) + 1]) \in Word32
  <2>1. (k % 5) + 1 \in 1 .. 5 /\ ((k + 1) % 5) + 1 \in 1 .. 5 /\ ((k + 2) % 5) + 1 \in 1 .. 5
    OBVIOUS
  <2>2. H[(k % 5) + 1] \in Word32 /\ l[((k + 1) % 5) + 1] \in Word32 /\ r[((k + 2) % 5) + 1] \in Word32
    BY <1>5, <1>6, <2>1 DEF States
  <2> QED
    BY <2>2, SumsTyped
<1> QED
  BY <1>2, <1>7 DEF States

-----------------------------------------------------------------------------
(* The blocks of SHA-512 and SHA-3 *)

LEMMA LaneParts ==
    /\ \A x \in Lane : x.high \in Word32 /\ x.low \in Word32
    /\ \A high, low \in Word32 : X64Word(high, low) \in Lane
    /\ ZeroWord \in Lane
<1>1. \A x \in Lane : x.high \in Word32 /\ x.low \in Word32
  BY DEF Lane
<1>2. \A high, low \in Word32 : X64Word(high, low) \in Lane
  BY DEF X64Word, Lane
<1>3. {} \in Word32
  BY DEF Word32
<1>4. ZeroWord \in Lane
  BY <1>2, <1>3 DEF ZeroWord
<1> QED
  BY <1>1, <1>2, <1>4

\* The operators on lanes give lanes.
LEMMA LaneOperators ==
    /\ \A x, y \in Lane : Xor64(x, y) \in Lane /\ And64(x, y) \in Lane /\ AndNot64(x, y) \in Lane
    /\ \A x, y \in Lane : Add64(x, y) \in Lane
    /\ \A x \in Lane, n \in 0 .. 32 : Shr64(x, n) \in Lane
    /\ \A x \in Lane, n \in 0 .. 64 : Rotr64(x, n) \in Lane
<1>1. \A x, y \in Lane : Xor64(x, y) \in Lane /\ And64(x, y) \in Lane /\ AndNot64(x, y) \in Lane
  BY LaneParts, WordOperators DEF Xor64, And64, AndNot64
<1>2. ASSUME NEW x \in Lane, NEW y \in Lane PROVE Add64(x, y) \in Lane
  <2> DEFINE low == Add(x.low, y.low)
             c == Carry(low, y.low)
  <2>1. low \in Word32 /\ x.high \in Word32 /\ y.high \in Word32
    BY LaneParts, SumsTyped
  <2>2. c \in Word32
    BY DEF Carry, Word32, Places
  <2>3. Add64(x, y) = X64Word(Sum3(x.high, y.high, c), low)
    BY DEF Add64
  <2> HIDE DEF low, c
  <2>4. Sum3(x.high, y.high, c) \in Word32
    BY <2>1, <2>2, SumsTyped
  <2> QED
    BY <2>1, <2>3, <2>4, LaneParts
<1>3. \A x, y \in Word32, m, n \in Nat : Shr(x, m) \cup Shl(y, n) \in Word32
  BY WordOperators DEF Word32
<1>4. \A n \in 0 .. 32 : n \in Nat /\ 32 - n \in Nat
  OBVIOUS
<1>5. ASSUME NEW x \in Lane, NEW n \in 0 .. 32 PROVE Shr64(x, n) \in Lane
  <2>1. Shr(x.high, n) \in Word32 /\ Shr(x.low, n) \cup Shl(x.high, 32 - n) \in Word32
    BY <1>3, <1>4, LaneParts, WordOperators
  <2> QED
    BY <2>1, LaneParts DEF Shr64
<1>6. ASSUME NEW x \in Lane, NEW n \in 0 .. 64 PROVE Rotr64(x, n) \in Lane
  <2>1. CASE n < 32
    <3>1. n \in Nat /\ 32 - n \in Nat
      BY <2>1
    <3>2. Shr(x.high, n) \cup Shl(x.low, 32 - n) \in Word32 /\ Shr(x.low, n) \cup Shl(x.high, 32 - n) \in Word32
      BY <1>3, <3>1, LaneParts
    <3> QED
      BY <2>1, <3>2, LaneParts DEF Rotr64
  <2>2. CASE ~(n < 32)
    <3>1. n - 32 \in Nat /\ 64 - n \in Nat
      BY <2>2
    <3>2. Shr(x.low, n - 32) \cup Shl(x.high, 64 - n) \in Word32 /\ Shr(x.high, n - 32) \cup Shl(x.low, 64 - n) \in Word32
      BY <1>3, <3>1, LaneParts
    <3> QED
      BY <2>2, <3>2, LaneParts DEF Rotr64
  <2> QED
    BY <2>1, <2>2
<1> QED
  BY <1>1, <1>2, <1>5, <1>6

LEMMA K512Typed ==
    K512 \in States64(80)
<1>1. \A q : \A i \in DOMAIN X64Words(q) : X64Words(q)[i] \in Lane
  <2>1. ASSUME NEW q, NEW i \in DOMAIN X64Words(q) PROVE X64Words(q)[i] \in Lane
    <3>1. Word(q[i][1], q[i][2]) \in Word32 /\ Word(q[i][3], q[i][4]) \in Word32
      BY WordOperators
    <3>2. X64Words(q)[i] = X64Word(Word(q[i][1], q[i][2]), Word(q[i][3], q[i][4]))
      BY DEF X64Words
    <3> QED
      BY <3>1, <3>2, LaneParts
  <2> QED
    BY <2>1
<1>2. \A i \in DOMAIN K512 : K512[i] \in Lane
  BY <1>1 DEF K512
<1>3. DOMAIN K512 = 1 .. 80
  BY DEF K512, X64Words
<1>4. K512 = [i \in DOMAIN K512 |-> K512[i]]
  BY DEF K512, X64Words
<1> QED
  BY <1>2, <1>3, <1>4 DEF States64

LEMMA Sha512Functions ==
    ASSUME NEW x \in Lane
    PROVE  /\ Gamma0of64(x) \in Lane /\ Gamma1of64(x) \in Lane
           /\ Sigma64(x, 14, 18, 41) \in Lane /\ Sigma64(x, 28, 34, 39) \in Lane
<1>1. \A y, z \in Lane : Xor64(y, z) \in Lane
  BY LaneOperators
<1>2. \A n \in 0 .. 64 : Rotr64(x, n) \in Lane
  BY LaneOperators
<1>3. Shr64(x, 7) \in Lane /\ Shr64(x, 6) \in Lane
  <2>1. 7 \in 0 .. 32 /\ 6 \in 0 .. 32
    OBVIOUS
  <2> QED
    BY <2>1, LaneOperators
<1>4. Gamma0of64(x) \in Lane /\ Gamma1of64(x) \in Lane
  BY <1>1, <1>2, <1>3 DEF Gamma0of64, Gamma1of64
<1>5. Sigma64(x, 14, 18, 41) \in Lane /\ Sigma64(x, 28, 34, 39) \in Lane
  BY <1>1, <1>2 DEF Sigma64
<1> QED
  BY <1>4, <1>5

LEMMA Sha512ScheduleTyped ==
    ASSUME NEW M \in [1 .. 32 -> Word32]
    PROVE  Sha512Schedule(M) \in States64(80)
<1> DEFINE S == States64(80)
           first == [i \in 1 .. 80 |-> IF i <= 16 THEN X64Word(M[2 * i - 1], M[2 * i]) ELSE ZeroWord]
           g == [j \in 0 .. 64 - 1 |-> [W \in S |-> Extend512(W, j)]]
<1>1. ASSUME NEW j \in 0 .. 64 - 1, NEW W \in S PROVE Extend512(W, j) \in S
  <2> DEFINE x == Add64(Add64(Add64(X64At(W, j + 9), Gamma0of64(X64At(W, j + 1))), Gamma1of64(X64At(W, j + 14))),
                        X64At(W, j))
  <2>1. X64At(W, j + 9) \in Lane /\ X64At(W, j + 1) \in Lane /\ X64At(W, j + 14) \in Lane /\ X64At(W, j) \in Lane
    BY DEF X64At, States64
  <2>2. Gamma0of64(X64At(W, j + 1)) \in Lane /\ Gamma1of64(X64At(W, j + 14)) \in Lane
    BY <2>1, Sha512Functions
  <2>3. x \in Lane
    BY <2>1, <2>2, LaneOperators
  <2>4. Extend512(W, j) = [W EXCEPT ![j + 17] = x]
    BY DEF Extend512
  <2> HIDE DEF x
  <2> QED
    BY <2>3, <2>4 DEF States64
<1>2. first \in S
  <2>1. ASSUME NEW i \in 1 .. 80, i <= 16 PROVE X64Word(M[2 * i - 1], M[2 * i]) \in Lane
    <3>1. 2 * i - 1 \in 1 .. 32 /\ 2 * i \in 1 .. 32
      BY <2>1
    <3> QED
      BY <3>1, LaneParts
  <2> QED
    BY <2>1, LaneParts DEF States64
<1>3. Sha512Schedule(M) = Passed(S, 64, g, first)
  BY DEF Sha512Schedule, Loop
<1> HIDE DEF first
<1>4. ASSUME NEW j \in 0 .. 64 - 1, NEW W \in S PROVE g[j][W] \in S
  BY <1>1
<1> HIDE DEF g
<1>5. Passed(S, 64, g, first) \in S
  BY <1>2, <1>4, PassedIs
<1> QED
  BY <1>3, <1>5

LEMMA Sha512RoundTyped ==
    ASSUME NEW W \in States64(80), NEW v \in States64(8), NEW i \in 0 .. 79
    PROVE  Sha512Round(W, v, i) \in States64(8)
<1> DEFINE ch == Xor64(And64(v[5], v[6]), AndNot64(v[7], v[5]))
           maj == Xor64(Xor64(And64(v[1], v[2]), And64(v[1], v[3])), And64(v[2], v[3]))
           t1 == Add64(Add64(Add64(Add64(Sigma64(v[5], 14, 18, 41), v[8]), ch), K512[i + 1]), X64At(W, i))
           t2 == Add64(maj, Sigma64(v[1], 28, 34, 39))
           n == Add64(t2, t1)
           m == Add64(t1, v[4])
<1>1. /\ v[1] \in Lane /\ v[2] \in Lane /\ v[3] \in Lane /\ v[4] \in Lane
      /\ v[5] \in Lane /\ v[6] \in Lane /\ v[7] \in Lane /\ v[8] \in Lane
  BY DEF States64
<1>2. ch \in Lane /\ maj \in Lane
  BY <1>1, LaneOperators
<1>3. X64At(W, i) \in Lane
  BY DEF X64At, States64
<1>4. K512[i + 1] \in Lane
  BY K512Typed DEF States64
<1>5. Sigma64(v[1], 28, 34, 39) \in Lane /\ Sigma64(v[5], 14, 18, 41) \in Lane
  BY <1>1, Sha512Functions
<1>6. Sha512Round(W, v, i) = <<n, v[1], v[2], v[3], m, v[5], v[6], v[7]>>
  BY DEF Sha512Round
<1> HIDE DEF ch, maj
<1>7. t1 \in Lane /\ t2 \in Lane
  BY <1>1, <1>2, <1>3, <1>4, <1>5, LaneOperators
<1> HIDE DEF t1, t2
<1>8. n \in Lane /\ m \in Lane
  BY <1>1, <1>7, LaneOperators
<1> HIDE DEF n, m
<1> QED
  BY <1>1, <1>6, <1>8 DEF States64

LEMMA Sha512BlockTyped ==
    ASSUME NEW H \in States64(8), NEW M \in [1 .. 32 -> Word32]
    PROVE  Sha512Block(H, M) \in States64(8)
<1> DEFINE S == States64(8)
           W == Sha512Schedule(M)
           g == [i \in 0 .. 80 - 1 |-> [v \in S |-> Sha512Round(W, v, i)]]
           v1 == Passed(S, 80, g, H)
<1>1. W \in States64(80)
  BY Sha512ScheduleTyped
<1>2. Sha512Block(H, M) = [k \in 1 .. 8 |-> Add64(H[k], v1[k])]
  BY DEF Sha512Block, Loop
<1> HIDE DEF W
<1>3. ASSUME NEW i \in 0 .. 80 - 1, NEW v \in S PROVE g[i][v] \in S
  <2>1. Sha512Round(W, v, i) \in S
    BY <1>1, Sha512RoundTyped
  <2> QED
    BY <2>1
<1> HIDE DEF g
<1>4. v1 \in S
  BY <1>3, PassedIs
<1> HIDE DEF v1
<1> QED
  BY <1>2, <1>4, LaneOperators DEF States64

\* The offsets of SHA-3 are places of a lane.
LEMMA RhoOffsetsTyped ==
    RhoOffsets \in [LaneIndex -> 0 .. 63]
<1> DEFINE Walks == [x : 0 .. 4, y : 0 .. 4, offsets : [LaneIndex -> 0 .. 63]]
           first == [x |-> 1, y |-> 0, offsets |-> [i \in LaneIndex |-> 0]]
           g == [t \in 0 .. 24 - 1 |-> [w \in Walks |-> WalkOn(w, t)]]
<1>1. ASSUME NEW t \in 0 .. 24 - 1, NEW w \in Walks PROVE WalkOn(w, t) \in Walks
  <2> DEFINE n == (((t + 1) * (t + 2)) \div 2) % 64
             y1 == (2 * w.x + 3 * w.y) % 5
             o1 == [w.offsets EXCEPT ![w.x + (5 * w.y)] = n]
  <2>1. n \in 0 .. 63
    <3>1. (t + 1) * (t + 2) \in Nat
      OBVIOUS
    <3>2. \A k \in Nat : (k \div 2) % 64 \in 0 .. 63
      OBVIOUS
    <3> QED
      BY <3>1, <3>2
  <2>2. w.x \in 0 .. 4 /\ w.y \in 0 .. 4 /\ w.offsets \in [LaneIndex -> 0 .. 63]
    OBVIOUS
  <2>3. w.y % 5 \in 0 .. 4 /\ y1 \in 0 .. 4
    BY <2>2
  <2>4. o1 \in [LaneIndex -> 0 .. 63]
    BY <2>1, <2>2
  <2>5. WalkOn(w, t) = [x |-> w.y % 5, y |-> y1, offsets |-> o1]
    BY DEF WalkOn
  <2> HIDE DEF n, y1, o1
  <2> QED
    BY <2>3, <2>4, <2>5
<1>2. first \in Walks
  BY DEF LaneIndex
<1>3. RhoOffsets = Passed(Walks, 24, g, first).offsets
  BY DEF RhoOffsets, Loop
<1>4. ASSUME NEW t \in 0 .. 24 - 1, NEW w \in Walks PROVE g[t][w] \in Walks
  BY <1>1
<1> HIDE DEF g, first
<1>5. Passed(Walks, 24, g, first) \in Walks
  <2> HIDE DEF Walks
  <2> QED
    BY <1>2, <1>4, PassedIs
<1> QED
  BY <1>3, <1>5

\* Each lane is the target of a lane.
LEMMA PiSourceTyped ==
    ASSUME NEW k \in LaneIndex
    PROVE  PiSource[k] \in LaneIndex
<1> DEFINE y == k % 5
           x == (3 * (k \div 5) + y) % 5
           i == x + 5 * y
<1>1. y \in 0 .. 4 /\ x \in 0 .. 4 /\ k \div 5 \in 0 .. 4 /\ k = y + 5 * (k \div 5)
  BY DEF LaneIndex
<1>2. i \in LaneIndex /\ i % 5 = x /\ i \div 5 = y
  <2> HIDE DEF x, y
  <2> QED
    BY <1>1 DEF LaneIndex
<1>3. (2 * x + 3 * y) % 5 = k \div 5
  <2> DEFINE q == k \div 5
  <2>1. \A a, b \in 0 .. 4 : (2 * ((3 * a + b) % 5) + 3 * b) % 5 = a
    OBVIOUS
  <2>2. q \in 0 .. 4
    BY <1>1
  <2> HIDE DEF q
  <2>3. (2 * ((3 * q + y) % 5) + 3 * y) % 5 = q
    <3> HIDE DEF y
    <3> QED
      BY <1>1, <2>1, <2>2
  <2> QED
    BY <2>3 DEF q
<1> HIDE DEF x, y, i
<1>4. PiIndexes[i] = k
  BY <1>1, <1>2, <1>3 DEF PiIndexes
<1> QED
  BY <1>2, <1>4 DEF PiSource

LEMMA RoundConstantsTyped ==
    ASSUME NEW round \in 0 .. 23
    PROVE  RoundConstants[round] \in Lane
<1> DEFINE places == {(2^j) - 1 : j \in {k \in 0..6 : 0 \in Lfsr[(7 * round) + k + 1]}}
<1>1. RoundConstants[round] = X64Word({p - 32 : p \in places \cap 32..63}, places \cap 0..31)
  BY DEF RoundConstants
<1> HIDE DEF places
<1>2. {p - 32 : p \in places \cap 32..63} \in Word32
  BY DEF Word32, Places
<1>3. places \cap 0..31 \in Word32
  BY DEF Word32, Places
<1> QED
  BY <1>1, <1>2, <1>3, LaneParts

LEMMA AbsorbTyped ==
    ASSUME NEW size \in {18, 26, 34, 36}, NEW state \in Keccak, NEW M \in [1 .. size -> Word32]
    PROVE  Absorb(state, M) \in Keccak
<1>1. Len(M) = size /\ size \in Nat
  OBVIOUS
<1>2. ASSUME NEW i \in LaneIndex, ~(2 * i >= Len(M))
      PROVE  Xor64(state[i], X64Word(SwapBytes(M[(2 * i) + 2]), SwapBytes(M[(2 * i) + 1]))) \in Lane
  <2>1. (2 * i) + 2 \in 1 .. size /\ (2 * i) + 1 \in 1 .. size
    BY <1>1, <1>2 DEF LaneIndex
  <2>2. SwapBytes(M[(2 * i) + 2]) \in Word32 /\ SwapBytes(M[(2 * i) + 1]) \in Word32
    BY <2>1, WordsWritten
  <2>3. state[i] \in Lane
    BY DEF Keccak
  <2> QED
    BY <2>2, <2>3, LaneParts, LaneOperators
<1>3. \A i \in LaneIndex : state[i] \in Lane
  BY DEF Keccak
<1> QED
  BY <1>2, <1>3 DEF Absorb, Keccak

LEMMA Rotl64Typed ==
    ASSUME NEW x \in Lane, NEW n \in 0 .. 64
    PROVE  Rotl64(x, n) \in Lane
<1>1. 64 - n \in 0 .. 64
  OBVIOUS
<1>2. Rotr64(x, 64 - n) \in Lane
  BY <1>1, LaneOperators
<1> QED
  BY <1>2 DEF Rotl64

LEMMA ThetaTyped ==
    ASSUME NEW state \in Keccak
    PROVE  Theta[state] \in Keccak
<1> DEFINE mix == Neighbours[Parities(state)]
<1>1. Parities(state) \in Column
  <2>1. ASSUME NEW x \in 0 .. 4
        PROVE  Xor64(Xor64(Xor64(state[x], state[x + 5]), Xor64(state[x + 10], state[x + 15])), state[x + 20]) \in Lane
    <3>1. x \in LaneIndex /\ x + 5 \in LaneIndex /\ x + 10 \in LaneIndex /\ x + 15 \in LaneIndex /\ x + 20 \in LaneIndex
      BY DEF LaneIndex
    <3>2. state[x] \in Lane /\ state[x + 5] \in Lane /\ state[x + 10] \in Lane /\ state[x + 15] \in Lane /\ state[x + 20] \in Lane
      BY <3>1 DEF Keccak
    <3> QED
      BY <3>2, LaneOperators
  <2> QED
    BY <2>1 DEF Parities, Column
<1>2. ASSUME NEW T5 \in Column PROVE Neighbours[T5] \in Column
  <2>1. ASSUME NEW x \in 0 .. 4 PROVE Xor64(T5[(x + 4) % 5], Rotl64(T5[(x + 1) % 5], 1)) \in Lane
    <3>1. (x + 4) % 5 \in 0 .. 4 /\ (x + 1) % 5 \in 0 .. 4
      OBVIOUS
    <3>2. T5[(x + 4) % 5] \in Lane /\ T5[(x + 1) % 5] \in Lane
      BY <3>1 DEF Column
    <3>3. Rotl64(T5[(x + 1) % 5], 1) \in Lane
      BY <3>2, Rotl64Typed
    <3> QED
      BY <3>2, <3>3, LaneOperators
  <2>2. Neighbours[T5] = [x \in 0 .. 4 |-> Xor64(T5[(x + 4) % 5], Rotl64(T5[(x + 1) % 5], 1))]
    BY DEF Neighbours
  <2> QED
    BY <2>1, <2>2 DEF Column
<1>3. mix \in Column
  BY <1>1, <1>2
<1> HIDE DEF mix
<1>4. [i \in LaneIndex |-> Xor64(state[i], mix[i % 5])] \in Keccak
  <2>1. ASSUME NEW i \in LaneIndex PROVE Xor64(state[i], mix[i % 5]) \in Lane
    <3>1. i % 5 \in 0 .. 4
      BY DEF LaneIndex
    <3>2. mix[i % 5] \in Lane /\ state[i] \in Lane
      BY <1>3, <3>1 DEF Column, Keccak
    <3> QED
      BY <3>2, LaneOperators
  <2> QED
    BY <2>1 DEF Keccak
<1>5. Theta[state] = [i \in LaneIndex |-> Xor64(state[i], mix[i % 5])]
  BY <1>3 DEF Theta, mix
<1> QED
  BY <1>4, <1>5

LEMMA RhoPiTyped ==
    ASSUME NEW state \in Keccak
    PROVE  RhoPi[state] \in Keccak
<1> DEFINE moved(k) == IF PiSource[k] = 0 THEN state[0] ELSE Rotl64(state[PiSource[k]], RhoOffsets[PiSource[k]])
<1>1. ASSUME NEW k \in LaneIndex PROVE moved(k) \in Lane
  <2>1. PiSource[k] \in LaneIndex /\ 0 \in LaneIndex
    BY PiSourceTyped DEF LaneIndex
  <2>2. RhoOffsets[PiSource[k]] \in 0 .. 64
    <3>1. RhoOffsets[PiSource[k]] \in 0 .. 63
      BY <2>1, RhoOffsetsTyped
    <3> QED
      BY <3>1
  <2>3. state[PiSource[k]] \in Lane /\ state[0] \in Lane
    BY <2>1 DEF Keccak
  <2> QED
    BY <2>2, <2>3, Rotl64Typed
<1>2. RhoPi[state] = [k \in LaneIndex |-> moved(k)]
  BY DEF RhoPi
<1> HIDE DEF moved
<1> QED
  BY <1>1, <1>2 DEF Keccak

LEMMA ChiTyped ==
    ASSUME NEW lanes \in Keccak
    PROVE  Chi[lanes] \in Keccak
<1> DEFINE mixed(i) == Xor64(lanes[i], AndNot64(lanes[((i + 2) % 5) + 5 * (i \div 5)], lanes[((i + 1) % 5) + 5 * (i \div 5)]))
<1>1. ASSUME NEW i \in LaneIndex PROVE mixed(i) \in Lane
  <2>1. ((i + 2) % 5) + 5 * (i \div 5) \in LaneIndex /\ ((i + 1) % 5) + 5 * (i \div 5) \in LaneIndex
    BY DEF LaneIndex
  <2>2. /\ lanes[i] \in Lane /\ lanes[((i + 2) % 5) + 5 * (i \div 5)] \in Lane
        /\ lanes[((i + 1) % 5) + 5 * (i \div 5)] \in Lane
    BY <2>1 DEF Keccak
  <2> QED
    BY <2>2, LaneOperators
<1>2. Chi[lanes] = [i \in LaneIndex |-> mixed(i)]
  BY DEF Chi
<1> HIDE DEF mixed
<1> QED
  BY <1>1, <1>2 DEF Keccak

LEMMA Sha3BlockTyped ==
    ASSUME NEW size \in {18, 26, 34, 36}, NEW H \in Keccak, NEW M \in [1 .. size -> Word32]
    PROVE  Sha3Block(H, M) \in Keccak
<1> DEFINE Round(s, r) == Iota(Chi[RhoPi[Theta[s]]], r)
           g == [r \in 0 .. 24 - 1 |-> [s \in Keccak |-> Round(s, r)]]
<1>1. ASSUME NEW r \in 0 .. 24 - 1, NEW s \in Keccak PROVE Round(s, r) \in Keccak
  <2> DEFINE lanes == Chi[RhoPi[Theta[s]]]
  <2>1. lanes \in Keccak
    BY ThetaTyped, RhoPiTyped, ChiTyped
  <2>2. Xor64(lanes[0], RoundConstants[r]) \in Lane
    <3>1. RoundConstants[r] \in Lane
      <4>1. r \in 0 .. 23
        OBVIOUS
      <4> QED
        BY <4>1, RoundConstantsTyped
    <3>2. lanes[0] \in Lane
      <4> HIDE DEF lanes
      <4> QED
        BY <2>1 DEF Keccak, LaneIndex
    <3> QED
      BY <3>1, <3>2, LaneOperators
  <2>3. Round(s, r) = [lanes EXCEPT ![0] = Xor64(lanes[0], RoundConstants[r])]
    BY DEF Iota
  <2> HIDE DEF lanes, Round
  <2> QED
    BY <2>1, <2>2, <2>3 DEF Keccak
<1>2. Absorb(H, M) \in Keccak
  BY AbsorbTyped
<1>3. Sha3Block(H, M) = Passed(Keccak, 24, g, Absorb(H, M))
  BY DEF Sha3Block, Loop
<1> HIDE DEF Round
<1>4. ASSUME NEW r \in 0 .. 24 - 1, NEW s \in Keccak PROVE g[r][s] \in Keccak
  BY <1>1
<1> HIDE DEF g
<1>5. Passed(Keccak, 24, g, Absorb(H, M)) \in Keccak
  BY <1>2, <1>4, PassedIs
<1> QED
  BY <1>3, <1>5

\* Whatever the words of a block, what the _doProcessBlock of a hasher makes of
\* a chaining value is a chaining value again: as many words or pairs of words,
\* each of 32 bits (md5.js, sha1.js, sha256.js, sha512.js, ripemd160.js, sha3.js).
THEOREM BlockFunctionsTyped ==
    DoProcessBlock = BlockFunctions => BlockFunctionsAreTyped
<1> SUFFICES ASSUME DoProcessBlock = BlockFunctions, NEW hasher \in HasherNames,
                    NEW H \in HashStates(hasher), NEW M \in [1 .. BlockSize(hasher) -> Word32]
             PROVE  DoProcessBlock[hasher][H][M] \in HashStates(hasher)
  BY DEF BlockFunctionsAreTyped
<1>1. M \in Chain
  <2>1. BlockSize(hasher) \in Nat
    BY BlockSizes, Places16
  <2> HIDE DEF BlockSize
  <2>2. M \in Seq(Word32)
    BY <2>1, Listed
  <2> QED
    BY <2>2 DEF Chain
<1>2. CASE hasher = "MD5"
  <2>1. HashStates(hasher) = States(4) /\ BlockSize(hasher) = 16 /\ DoProcessBlock[hasher][H][M] = Md5Block(H, M)
    BY <1>1, <1>2 DEF BlockFunctions, HashStates, BlockSize, Sha3Names
  <2> QED
    BY <2>1, Md5BlockTyped DEF States
<1>3. CASE hasher = "SHA1"
  <2>1. HashStates(hasher) = States(5) /\ BlockSize(hasher) = 16 /\ DoProcessBlock[hasher][H][M] = Sha1Block(H, M)
    BY <1>1, <1>3 DEF BlockFunctions, HashStates, BlockSize, Sha3Names
  <2> QED
    BY <2>1, Sha1BlockTyped DEF States
<1>4. CASE hasher \in {"SHA224", "SHA256"}
  <2>1. HashStates(hasher) = States(8) /\ BlockSize(hasher) = 16 /\ DoProcessBlock[hasher][H][M] = Sha256Block(H, M)
    BY <1>1, <1>4 DEF BlockFunctions, HashStates, BlockSize, Sha3Names
  <2> QED
    BY <2>1, Sha256BlockTyped DEF States
<1>5. CASE hasher \in {"SHA384", "SHA512"}
  <2>1. HashStates(hasher) = States64(8) /\ BlockSize(hasher) = 32 /\ DoProcessBlock[hasher][H][M] = Sha512Block(H, M)
    BY <1>1, <1>5 DEF BlockFunctions, HashStates, BlockSize, Sha3Names
  <2> QED
    BY <2>1, Sha512BlockTyped
<1>6. CASE hasher = "RIPEMD160"
  <2>1. HashStates(hasher) = States(5) /\ BlockSize(hasher) = 16 /\ DoProcessBlock[hasher][H][M] = Ripemd160Block(H, M)
    BY <1>1, <1>6 DEF BlockFunctions, HashStates, BlockSize, Sha3Names
  <2> QED
    BY <2>1, Ripemd160BlockTyped DEF States
<1>7. CASE hasher \in Sha3Names
  <2>1. HashStates(hasher) = Keccak /\ DoProcessBlock[hasher][H][M] = Sha3Block(H, M)
    BY <1>1, <1>7 DEF BlockFunctions, HashStates, Sha3Names
  <2>2. BlockSize(hasher) \in {18, 26, 34, 36}
    BY <1>7 DEF BlockSize, Sha3Names, OutputLength, Sha3BlockSize
  <2> QED
    BY <2>1, <2>2, Sha3BlockTyped
<1> QED
  BY <1>2, <1>3, <1>4, <1>5, <1>6, <1>7 DEF HasherNames

\* The state is always what the hashers work on: typed arrays, no negative
\* length, a chaining value of the hasher's own shape.
THEOREM HashTypes ==
    ASSUME DoProcessBlock = BlockFunctions
    PROVE  ScriptsSpec => []HashTypeOK
<1>0. BlockFunctionsAreTyped
  BY BlockFunctionsTyped
<1>1. ScriptInv => HashTypeOK
  BY TypesFollow
<1> QED
  BY <1>0, <1>1, ScriptInvariant, PTL

\* Between two calls every byte fed is either absorbed or, if it is not in a
\* whole block yet, in the buffer (core.js:513-552), for any hasher, message,
\* cuts, clones and resets.
THEOREM BuffersHoldTheTail ==
    ASSUME DoProcessBlock = BlockFunctions
    PROVE  ScriptsSpec => []BufferHoldsTheTail
<1>0. BlockFunctionsAreTyped
  BY BlockFunctionsTyped
<1>1. ScriptInv => BufferHoldsTheTail
  BY <1>0, TailFollows
<1> QED
  BY <1>0, <1>1, ScriptInvariant, PTL

\* A digest or HMAC depends only on the bytes fed: not on the cuts, the text
\* form of the pieces, the clones made on the way or what the object digested
\* before its reset (Hasher and HMAC: update, finalize, reset, clone).
THEOREM DigestsIgnoreCuts ==
    ASSUME DoProcessBlock = BlockFunctions
    PROVE  ScriptsSpec => []DigestIgnoresCuts
<1>0. BlockFunctionsAreTyped
  BY BlockFunctionsTyped
<1>1. ScriptInv => DigestIgnoresCuts
  BY CutsFollow
<1> QED
  BY <1>0, <1>1, ScriptInvariant, PTL
=============================================================================
