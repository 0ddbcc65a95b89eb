------------------------- MODULE CipherScriptsProofs -------------------------
(***************************************************************************)
(* What one page encrypts the other page decrypts: the padded message, cut *)
(* into calls as each of the two likes, the text between them and the key  *)
(* that a password gives, for every job of CipherScripts and any message.  *)
(*                                                                         *)
(* The one thing supposed is BlockCiphersInvert: that AES, DES and         *)
(* TripleDES decrypt each block that they encrypt.                         *)
(***************************************************************************)
EXTENDS RoundTripProofs

-----------------------------------------------------------------------------
(* Paddings *)

LEMMA HoldsByBytes ==
    ASSUME NEW w \in Arrays, NEW b \in Seq(Byte), w.sigBytes = Len(b),
           \A k \in Nat, j \in 0 .. 3 : ByteAt(At(w.words, k), j) = ByteOf(b, 4 * k + j)
    PROVE  Holds(w, b)
<1> DEFINE v == OfBytes(b)
<1>1. /\ v \in Arrays
      /\ \A k \in Nat, j \in 0 .. 3 : ByteAt(At(v.words, k), j) = ByteOf(b, 4 * k + j)
  BY OfBytesIs
<1>2. \A u \in Arrays, k \in Nat : At(u.words, k) \in Word32
  BY AtIs DEF Arrays
<1> HIDE DEF v
<1>3. ASSUME NEW k \in Nat PROVE At(w.words, k) = At(v.words, k)
  <2>1. At(w.words, k) \in Word32 /\ At(v.words, k) \in Word32
    BY <1>1, <1>2
  <2>2. \A j \in 0 .. 3 : ByteAt(At(w.words, k), j) = ByteAt(At(v.words, k), j)
    BY <1>1
  <2> QED
    BY <2>1, <2>2, WordIsItsBytes
<1> QED
  BY <1>3, Zenon DEF Holds, v

LEMMA ByteOutside ==
    ASSUME NEW x \in Word32, NEW m \in 1 .. 3, \A j \in m .. 3 : ByteAt(x, j) = {}
    PROVE  x \cap (32 - 8 * m) .. 31 = x
<1>1. ASSUME NEW p \in x PROVE p \in (32 - 8 * m) .. 31
  <2> DEFINE j == 3 - (p \div 8)
  <2>1. p \in 0 .. 31
    BY DEF Word32, Places
  <2>2. j \in 0 .. 3 /\ p \in (24 - 8 * j) .. (31 - 8 * j) /\ (p < 32 - 8 * m => j >= m)
    BY <2>1
  <2>3. p - (24 - 8 * j) \in ByteAt(x, j)
    <3> HIDE DEF j
    <3> QED
      BY <2>2 DEF ByteAt
  <2> HIDE DEF j
  <2> QED
    BY <2>1, <2>2, <2>3
<1> QED
  BY <1>1

LEMMA ClampOfBytes ==
    ASSUME NEW b \in Seq(Byte)
    PROVE  Clamp(OfBytes(b)) = OfBytes(b)
<1> DEFINE w == OfBytes(b)
           s == w.sigBytes
           n == WordsFor(s)
           kept(k) == IF k = s \div 4 THEN At(w.words, k) \cap (32 - 8 * (s % 4)) .. 31 ELSE At(w.words, k)
           f == [k \in 1 .. n |-> kept(k - 1)]
           g == [k \in 1 .. n |-> At(w.words, k - 1)]
<1>1. /\ w \in Arrays /\ s = Len(b) /\ Len(w.words) = n /\ w.words \in Chain /\ s \in Nat /\ n \in Nat
      /\ \A k \in Nat, j \in 0 .. 3 : ByteAt(At(w.words, k), j) = ByteOf(b, 4 * k + j)
      /\ \A k \in Nat : At(w.words, k) \in Word32
  <2>1. /\ w \in Arrays /\ s = Len(b) /\ Len(w.words) = WordsFor(Len(b))
        /\ \A k \in Nat, j \in 0 .. 3 : ByteAt(At(w.words, k), j) = ByteOf(b, 4 * k + j)
    BY OfBytesIs
  <2> HIDE DEF w
  <2>2. w.words \in Chain /\ s \in Nat
    BY <2>1 DEF Arrays
  <2>3. n \in Nat
    BY <2>2, WordsForIs
  <2>4. \A k \in Int : At(w.words, k) \in Word32
    BY <2>2, AtIs
  <2> QED
    BY <2>1, <2>2, <2>3, <2>4
<1>2. w = [words |-> w.words, sigBytes |-> s]
  BY <1>1 DEF Arrays
<1>3. Clamp(w) = WordArray(f, s)
  BY DEF Clamp
<1>0. s \in Nat /\ s = Len(b) /\ n \in Nat /\ w.words \in Chain /\ Len(w.words) = n
  BY <1>1
<1> HIDE DEF w
<1>4. ASSUME NEW k \in 0 .. n - 1 PROVE kept(k) = At(w.words, k)
  <2>1. CASE k # s \div 4
    BY <2>1, Zenon
  <2>2. CASE k = s \div 4
    <3> DEFINE m == s % 4
               x == At(w.words, k)
    <3>1. k \in Nat /\ k < n
      BY <1>0
    <3>2. 4 * k < s
      BY <1>0, <3>1, WordsForIs
    <3>3. m \in 1 .. 3 /\ s = 4 * k + m
      BY <1>0, <2>2, <3>2
    <3> HIDE DEF m
    <3>4. ASSUME NEW j \in m .. 3 PROVE ByteAt(x, j) = {}
      <4>1. j \in 0 .. 3 /\ 4 * k + j >= Len(b) /\ 4 * k + j \in Nat
        BY <1>0, <3>1, <3>3
      <4>2. ByteOf(b, 4 * k + j) = {}
        BY <1>0, <4>1 DEF ByteOf
      <4> QED
        BY <1>1, <3>1, <4>1, <4>2
    <3>5. x \in Word32
      BY <1>1, <3>1
    <3> HIDE DEF x
    <3>6. x \cap (32 - 8 * m) .. 31 = x
      BY <3>3, <3>4, <3>5, ByteOutside
    <3> QED
      BY <2>2, <3>6, Zenon DEF m, x
  <2> QED
    BY <2>1, <2>2
<1>5. f = g
  <2> HIDE DEF kept, n, s
  <2>1. \A k \in 1 .. n : kept(k - 1) = At(w.words, k - 1)
    <3>1. \A k \in 1 .. n : k - 1 \in 0 .. n - 1
      BY <1>0
    <3> QED
      BY <1>4, <3>1
  <2> QED
    BY <2>1, Zenon
<1> HIDE DEF f, s, n
<1>6. g = w.words
  <2>1. \A k \in 1 .. n : g[k] = w.words[k]
    <3>1. \A k \in 1 .. n : k - 1 \in 0 .. Len(w.words) - 1 /\ (k - 1) + 1 = k
      BY <1>0
    <3>2. \A i \in 0 .. Len(w.words) - 1 : At(w.words, i) = w.words[i + 1]
      BY <1>0, AtIs
    <3> QED
      BY <3>1, <3>2
  <2>2. DOMAIN w.words = 1 .. n /\ w.words = [k \in DOMAIN w.words |-> w.words[k]]
    BY <1>0 DEF Chain
  <2> QED
    BY <2>1, <2>2
<1>7. Clamp(w) = WordArray(w.words, s)
  BY <1>3, <1>5, <1>6, Zenon
<1>8. WordArray(w.words, s) = w
  BY <1>0, <1>2, WrittenIs DEF WordArray, Chain
<1> QED
  BY <1>7, <1>8 DEF w

\* What is joined to an array that holds x.
LEMMA ConcatHolds ==
    ASSUME NEW x \in Seq(Byte), NEW v \in Arrays, NEW y, Bytes(v) = y, Len(x) % 4 = 0 => Holds(v, y)
    PROVE  Holds(Concat(OfBytes(x), v), x \o y)
<1> DEFINE w == OfBytes(x)
           c == Concat(w, v)
<1>1. /\ w \in Arrays /\ w.sigBytes = Len(x) /\ Bytes(w) = x /\ Len(w.words) = WordsFor(Len(x)) /\ Clamp(w) = w
      /\ \A k \in Nat, j \in 0 .. 3 : ByteAt(At(w.words, k), j) = ByteOf(x, 4 * k + j)
      /\ w.words \in Chain /\ v.words \in Chain /\ Len(x) \in Nat /\ v.sigBytes \in Nat
  BY OfBytesIs, BytesOfBytes, ClampOfBytes DEF Arrays
<1>2. y \in Seq(Byte) /\ Len(y) = v.sigBytes
  BY BytesIs
<1>3. x \o y \in Seq(Byte) /\ Len(x \o y) = Len(x) + Len(y)
      /\ \A i \in Nat : ByteOf(x \o y, i) = IF i < Len(x) THEN ByteOf(x, i) ELSE ByteOf(y, i - Len(x))
  BY <1>2, ByteOfJoined
<1>4. c \in Arrays /\ c.sigBytes = Len(x) + Len(y)
  BY <1>1, <1>2, ConcatTyped
<1>5. CASE Len(x) % 4 # 0
  <2>1. c = OfBytes(x \o y)
    BY <1>1, <1>5 DEF Concat
  <2> QED
    BY <1>3, <2>1, HoldsOfBytes DEF c, w
<1>6. CASE Len(x) % 4 = 0
  <2>1. Holds(v, y)
    BY <1>6
  <2>2. \A k \in Nat, j \in 0 .. 3 : ByteAt(At(v.words, k), j) = ByteOf(y, 4 * k + j)
    BY <2>1, BytesHeld
  <2> DEFINE z == Pushed(v)
  <2>3. z \in Chain /\ \A k \in Nat : At(z, k) = At(v.words, k)
    <3> DEFINE o == OfBytes(y)
               n == WordsFor(v.sigBytes)
    <3>1. o.words \in Chain /\ Len(o.words) = n /\ n \in Nat
      BY <1>1, <1>2, OfBytesIs, WordsForIs DEF Arrays
    <3>2. ASSUME NEW k \in Nat, ~(k < n) PROVE At(v.words, k) = {}
      <4>1. At(v.words, k) = At(o.words, k)
        BY <2>1 DEF Holds
      <4>2. At(o.words, k) = {}
        <5> HIDE DEF o, n
        <5> QED
          BY <3>1, <3>2, AtIs
      <4> QED
        BY <4>1, <4>2
    <3>3. /\ z \in Chain
          /\ \A k \in Nat : k < n => At(z, k) = At(v.words, k)
          /\ \A k \in Nat : At(v.words, k) = {} => At(z, k) = {}
      BY PushedIs
    <3> HIDE DEF z, n
    <3> QED
      BY <3>2, <3>3
  <2>4. c = WordArray(w.words \o z, Len(x) + Len(y))
    BY <1>1, <1>2, <1>6 DEF Concat
  <2> HIDE DEF w, c, z
  <2>5. /\ w.words \o z \in Chain
        /\ \A k \in Nat : At(w.words \o z, k) = IF k < Len(w.words) THEN At(w.words, k) ELSE At(z, k - Len(w.words))
    BY <1>1, <2>3, AtJoined
  <2>6. c.words = w.words \o z
    BY <2>4, <2>5, WrittenIs DEF WordArray, Chain
  <2>7. PICK m \in Nat : Len(w.words) = m /\ Len(x) = 4 * m
    <3> DEFINE m == Len(x) \div 4
    <3>1. m \in Nat /\ Len(x) = 4 * m
      <4>1. Len(x) \in Nat
        OBVIOUS
      <4> QED
        BY <1>6, <4>1
    <3> HIDE DEF m
    <3>2. WordsFor(4 * m) = m
      BY <3>1, WordsForIs
    <3> QED
      BY <1>1, <3>1, <3>2
  <2>8. ASSUME NEW k \in Nat, NEW j \in 0 .. 3
        PROVE  ByteAt(At(c.words, k), j) = ByteOf(x \o y, 4 * k + j)
    <3>1. 4 * k + j \in Nat
      OBVIOUS
    <3>2. CASE k < m
      <4>1. 4 * k + j < Len(x)
        BY <2>7, <3>2
      <4>2. At(c.words, k) = At(w.words, k)
        BY <2>5, <2>6, <2>7, <3>2
      <4>3. ByteOf(x \o y, 4 * k + j) = ByteOf(x, 4 * k + j)
        BY <1>3, <3>1, <4>1
      <4> QED
        BY <1>1, <4>2, <4>3
    <3>3. CASE k >= m
      <4>1. ~(4 * k + j < Len(x)) /\ (4 * k + j) - Len(x) = 4 * (k - m) + j /\ k - m \in Nat
        BY <2>7, <3>3
      <4>2. At(c.words, k) = At(v.words, k - m)
        <5>1. At(c.words, k) = At(z, k - m)
          BY <2>5, <2>6, <2>7, <3>3
        <5>2. At(z, k - m) = At(v.words, k - m)
          BY <2>3, <4>1
        <5> QED
          BY <5>1, <5>2
      <4>3. ByteOf(x \o y, 4 * k + j) = ByteOf(y, 4 * (k - m) + j)
        BY <1>3, <3>1, <4>1
      <4> QED
        BY <2>2, <4>1, <4>2, <4>3
    <3> QED
      BY <2>7, <3>2, <3>3
  <2>9. Holds(c, x \o y)
    BY <1>3, <1>4, <2>8, HoldsByBytes
  <2> QED
    BY <2>9 DEF c, w
<1> QED
  BY <1>1, <1>5, <1>6

\* Zeros after x.
Zeros(n) == [k \in 1 .. n |-> {}]
LEMMA ZerosAre ==
    ASSUME NEW n \in Nat
    PROVE  Zeros(n) \in Seq(Byte) /\ Len(Zeros(n)) = n /\ \A i \in Nat : ByteOf(Zeros(n), i) = {}
<1>1. {} \in Byte
  BY DEF Byte
<1>2. Zeros(n) \in Seq(Byte) /\ Len(Zeros(n)) = n /\ \A k \in 1 .. n : Zeros(n)[k] = {}
  BY <1>1 DEF Zeros
<1> QED
  BY <1>2 DEF ByteOf

LEMMA ZerosHold ==
    ASSUME NEW w, NEW x, Holds(w, x), Clamp(w).words = OfBytes(x).words, NEW n \in Nat
    PROVE  Holds(WordArray(Clamp(w).words, w.sigBytes + n), x \o Zeros(n))
<1> DEFINE v == WordArray(Clamp(w).words, w.sigBytes + n)
           b == x \o Zeros(n)
<1>1. x \in Seq(Byte) /\ w.sigBytes = Len(x) /\ Len(x) \in Nat
  BY DEF Holds
<1>2. /\ b \in Seq(Byte) /\ Len(b) = Len(x) + n
      /\ \A i \in Nat : ByteOf(b, i) = IF i < Len(x) THEN ByteOf(x, i) ELSE ByteOf(Zeros(n), i - Len(x))
  <2> DEFINE z == Zeros(n)
  <2>1. z \in Seq(Byte) /\ Len(z) = n
    BY ZerosAre
  <2> HIDE DEF z, v
  <2>2. /\ x \o z \in Seq(Byte) /\ Len(x \o z) = Len(x) + Len(z)
        /\ \A i \in Nat : ByteOf(x \o z, i) = IF i < Len(x) THEN ByteOf(x, i) ELSE ByteOf(z, i - Len(x))
    BY <1>1, <2>1, ByteOfJoined
  <2> QED
    BY <2>1, <2>2 DEF z
<1>3. \A i \in Nat : ByteOf(b, i) = ByteOf(x, i)
  <2> SUFFICES ASSUME NEW i \in Nat PROVE ByteOf(b, i) = ByteOf(x, i)
    OBVIOUS
  <2>1. CASE i < Len(x)
    BY <1>2, <2>1
  <2>2. CASE i >= Len(x)
    <3>1. ByteOf(x, i) = {}
      BY <1>1, <2>2 DEF ByteOf
    <3>2. ByteOf(Zeros(n), i - Len(x)) = {}
      BY <1>1, <2>2, ZerosAre
    <3> QED
      BY <1>1, <1>2, <2>2, <3>1, <3>2
  <2> QED
    BY <1>1, <2>1, <2>2
<1>4. OfBytes(x).words \in Chain /\ \A k \in Nat, j \in 0 .. 3 : ByteAt(At(OfBytes(x).words, k), j) = ByteOf(x, 4 * k + j)
  BY <1>1, OfBytesIs DEF Arrays
<1>5. v \in Arrays /\ v.words = OfBytes(x).words /\ v.sigBytes = Len(b)
  <2> DEFINE W == OfBytes(x).words
             l == w.sigBytes + n
  <2>1. W \in Chain /\ l \in Nat /\ l = Len(b) /\ v = WordArray(W, l)
    BY <1>1, <1>2, <1>4
  <2>2. Written(W) = W
    BY <2>1, WrittenIs DEF Chain
  <2> HIDE DEF W, l, v, b
  <2>3. v = [words |-> W, sigBytes |-> l]
    BY <2>1, <2>2, Zenon DEF WordArray
  <2> QED
    BY <2>1, <2>3 DEF Arrays, W
<1> HIDE DEF v, b
<1>6. \A k \in Nat, j \in 0 .. 3 : ByteAt(At(v.words, k), j) = ByteOf(b, 4 * k + j)
  <2> SUFFICES ASSUME NEW k \in Nat, NEW j \in 0 .. 3 PROVE ByteAt(At(v.words, k), j) = ByteOf(b, 4 * k + j)
    OBVIOUS
  <2>1. 4 * k + j \in Nat
    OBVIOUS
  <2> QED
    BY <1>3, <1>4, <1>5, <2>1
<1>7. Holds(v, b)
  BY <1>2, <1>5, <1>6, HoldsByBytes
<1> QED
  BY <1>7 DEF v, b

\* The bytes that a padding puts after r bytes.
LastByte(n) == [k \in 1 .. n |-> IF k = n THEN BitsOf(n) ELSE {}]
Filled(n, fill) == [k \in 1 .. n |-> ByteAt(fill, (k - 1) % 4)]
PadOf(padding, r, size, fill) ==
    LET n == size - (r % size)
    IN  CASE padding = "Pkcs7" -> [k \in 1 .. n |-> BitsOf(n)]
          [] padding = "AnsiX923" -> LastByte(n)
          [] padding = "Iso10126" -> Filled(n - 1, fill) \o <<BitsOf(n)>>
          [] padding = "Iso97971" -> <<{7}>> \o Zeros(n - 1)
          [] padding = "ZeroPadding" -> Zeros(IF r % size = 0 THEN 0 ELSE n)
          [] padding = "NoPadding" -> <<>>

\* n bytes complete r bytes to blocks.
Completes(n, r, size) == size \in {8, 16} /\ r \in Nat /\ n = size - (r % size)

LEMMA PadLength ==
    ASSUME NEW size, NEW r, NEW n, Completes(n, r, size)
    PROVE  /\ n \in 1 .. size /\ n \in 1 .. 16 /\ n \in Nat /\ n \in 0 .. 255 /\ (r + n) % size = 0 /\ n - 1 \in Nat
           /\ (r % 4) = 0 => n % 4 = 0
           /\ (r + n) % 4 = 0
           /\ ((r + 1) % size = 0 => n = 1) /\ ((r + 1) % size # 0 => n - 1 = size - ((r + 1) % size))
           /\ r % size = 0 => r % 4 = 0
<1>0. size \in {8, 16} /\ r \in Nat /\ n = size - (r % size)
  BY DEF Completes
<1>1. CASE size = 8
  BY <1>0, <1>1
<1>2. CASE size = 16
  BY <1>0, <1>2
<1> QED
  BY <1>0, <1>1, <1>2

\* The same word, or byte, n times.
LEMMA Repeated ==
    ASSUME NEW S, NEW c \in S, NEW n \in Nat
    PROVE  LET y == [k \in 1 .. n |-> c]
           IN  y \in Seq(S) /\ Len(y) = n /\ Written(y) = y /\ \A k \in 1 .. n : y[k] = c
<1> DEFINE y == [k \in 1 .. n |-> c]
<1>1. y \in [1 .. n -> S]
  OBVIOUS
<1>2. \A k \in 1 .. n : y[k] = c
  OBVIOUS
<1> HIDE DEF y
<1>3. y \in Seq(S) /\ Len(y) = n /\ Written(y) = y
  BY <1>1, Listed
<1> QED
  BY <1>2, <1>3 DEF y

\* A byte that is put where there was none.
LEMMA MarkedByte ==
    ASSUME NEW x \in Word32, NEW c \in Byte, NEW i \in 0 .. 3, ByteAt(x, i) = {}, NEW y, y = x \cup AtByte(c, i)
    PROVE  /\ y \in Word32 /\ ByteAt(y, i) = c
           /\ \A j \in 0 .. 3 : j # i => ByteAt(y, j) = ByteAt(x, j)
<1>1. AtByte(c, i) \in Word32
  BY BytesPlaced
<1>2. \A j \in 0 .. 3 : ByteAt(y, j) = ByteAt(x, j) \cup ByteAt(AtByte(c, i), j)
  BY DEF ByteAt
<1>3. \A p \in c : p \in 0 .. 7
  BY DEF Byte
<1>4. ASSUME NEW j \in 0 .. 3, j # i PROVE ByteAt(AtByte(c, i), j) = {}
  <2>1. ASSUME NEW p \in c PROVE ~(p + (24 - 8 * i) \in (24 - 8 * j) .. (31 - 8 * j))
    BY <1>3, <1>4
  <2> QED
    BY <2>1 DEF ByteAt, AtByte
<1>5. ByteAt(AtByte(c, i), i) = c
  <2>1. ASSUME NEW p \in c
        PROVE p + (24 - 8 * i) \in (24 - 8 * i) .. (31 - 8 * i) /\ (p + (24 - 8 * i)) - (24 - 8 * i) = p
    BY <1>3
  <2> QED
    BY <2>1 DEF ByteAt, AtByte
<1>6. y \in Word32
  BY <1>1, WordsWritten
<1>7. ByteAt(y, i) = c
  BY <1>2, <1>5
<1>8. ASSUME NEW j \in 0 .. 3, j # i PROVE ByteAt(y, j) = ByteAt(x, j)
  BY <1>2, <1>4, <1>8
<1> QED
  BY <1>6, <1>7, <1>8

LEMMA OneByte == \A c \in Byte : WordArray(<<AtByte(c, 0)>>, 1) = OfBytes(<<c>>) /\ <<c>> \in Seq(Byte)
<1> SUFFICES ASSUME NEW c \in Byte PROVE WordArray(<<AtByte(c, 0)>>, 1) = OfBytes(<<c>>) /\ <<c>> \in Seq(Byte)
  OBVIOUS
<1> DEFINE w == WordArray(<<AtByte(c, 0)>>, 1)
           x == AtByte(c, 0)
<1>1. <<c>> \in Seq(Byte) /\ Len(<<c>>) = 1
  OBVIOUS
<1>2. x \in Word32
  BY BytesPlaced
<1>3. ByteAt(x, 0) = c /\ \A j \in 1 .. 3 : ByteAt(x, j) = {}
  <2> DEFINE z == {}
  <2>1. x = z \cup AtByte(c, 0)
    OBVIOUS
  <2>2. z \in Word32 /\ (\A j \in 0 .. 3 : ByteAt(z, j) = {}) /\ 0 \in 0 .. 3
    BY BytesOfAnyWord
  <2> HIDE DEF z, x
  <2>3. ByteAt(x, 0) = c /\ \A j \in 0 .. 3 : j # 0 => ByteAt(x, j) = ByteAt(z, j)
    BY <2>1, <2>2, MarkedByte
  <2> QED
    BY <2>2, <2>3
<1> HIDE DEF x
<1>4. w.words = <<x>> /\ w.sigBytes = 1 /\ w \in Arrays
  <2>1. <<x>> \in Seq(Word32)
    BY <1>2
  <2>2. Written(<<x>>) = <<x>>
    BY <2>1, WrittenIs
  <2>3. w = [words |-> <<x>>, sigBytes |-> 1]
    BY <2>2, Zenon DEF WordArray, x
  <2> HIDE DEF w, x
  <2> QED
    BY <2>1, <2>3 DEF Arrays, Chain
<1> HIDE DEF w
<1>5. WordsFor(1) = 1
  BY DEF WordsFor
<1>6. ASSUME NEW k \in Nat, NEW j \in 0 .. 3, k < 1 PROVE ByteAt(At(w.words, k), j) = ByteOf(<<c>>, 4 * k + j)
  <2>1. k = 0
    BY <1>6
  <2>2. At(w.words, 0) = x
    BY <1>4 DEF At
  <2>3. ByteOf(<<c>>, j) = IF j = 0 THEN c ELSE {}
    BY <1>1 DEF ByteOf
  <2> QED
    BY <1>3, <2>1, <2>2, <2>3
<1>7. w = OfBytes(<<c>>)
  BY <1>1, <1>4, <1>5, <1>6, IsOfBytes
<1> QED
  BY <1>1, <1>7 DEF w

LEMMA Pkcs7Holds ==
    ASSUME NEW x \in Seq(Byte), NEW size, NEW n, Completes(n, Len(x), size)
    PROVE  Holds(Pkcs7Pad(OfBytes(x), size), x \o [k \in 1 .. n |-> BitsOf(n)])
<1> DEFINE c == BitsOf(n)
           y == [k \in 1 .. n |-> c]
           pw == WordOf(<<c, c, c, c>>)
           words == [k \in 1 .. WordsFor(n) |-> pw]
           v == WordArray(words, n)
<1>1. /\ n \in 1 .. 16 /\ n \in Nat /\ n \in 0 .. 255 /\ Len(x) \in Nat
      /\ Len(x) % 4 = 0 => n % 4 = 0
  BY PadLength
<1>2. c \in Byte
  <2> HIDE DEF c
  <2> QED
    BY <1>1, BitByBit DEF c
<1>3. Pkcs7Pad(OfBytes(x), size) = Concat(OfBytes(x), v)
  <2>1. PaddingBytes(OfBytes(x), size) = n
    BY OfBytesIs DEF PaddingBytes, Completes
  <2> QED
    BY <2>1, Zenon DEF Pkcs7Pad
<1> HIDE DEF c
<1>4. <<c, c, c, c>> \in Seq(Byte) /\ Len(<<c, c, c, c>>) <= 4 /\ \A j \in 0 .. 3 : ByteOf(<<c, c, c, c>>, j) = c
  BY <1>2 DEF ByteOf
<1>5. pw \in Word32 /\ \A j \in 0 .. 3 : ByteAt(pw, j) = c
  <2> DEFINE b == <<c, c, c, c>>
  <2>1. b \in Seq(Byte) /\ Len(b) <= 4 /\ \A j \in 0 .. 3 : ByteOf(b, j) = c
    BY <1>4
  <2> HIDE DEF b
  <2>2. WordOf(b) \in Word32 /\ \A j \in 0 .. 3 : ByteAt(WordOf(b), j) = ByteOf(b, j)
    BY <2>1, BytesOfWord
  <2> QED
    BY <2>1, <2>2 DEF b
<1>6. WordsFor(n) \in Nat /\ \A k \in Nat : k < WordsFor(n) <=> 4 * k < n
  BY <1>1, WordsForIs
<1> HIDE DEF pw
<1>7. v \in Arrays /\ v.words \in Chain /\ Len(v.words) = WordsFor(n) /\ v.sigBytes = n
      /\ \A k \in Nat : At(v.words, k) = IF k < WordsFor(n) THEN pw ELSE {}
  <2>1. words \in Seq(Word32) /\ Len(words) = WordsFor(n) /\ Written(words) = words /\ \A k \in 1 .. WordsFor(n) : words[k] = pw
    BY <1>5, <1>6, Repeated
  <2> HIDE DEF words
  <2>2. v = [words |-> words, sigBytes |-> n]
    BY <2>1, Zenon DEF WordArray
  <2> HIDE DEF v
  <2>3. v \in Arrays /\ v.words = words /\ v.sigBytes = n /\ words \in Chain
    BY <1>1, <2>1, <2>2 DEF Arrays, Chain
  <2>4. \A k \in Nat : At(words, k) = IF k < WordsFor(n) THEN pw ELSE {}
    <3> SUFFICES ASSUME NEW k \in Nat PROVE At(words, k) = IF k < WordsFor(n) THEN pw ELSE {}
      OBVIOUS
    <3> DEFINE m == WordsFor(n)
    <3>1. m \in Nat /\ Len(words) = m /\ \A i \in 1 .. m : words[i] = pw
      BY <1>6, <2>1
    <3> HIDE DEF m
    <3> QED
      BY <3>1 DEF At, m
  <2> QED
    BY <2>1, <2>3, <2>4
<1> HIDE DEF v
<1>8. y \in Seq(Byte) /\ Len(y) = n /\ (\A i \in 1 .. n : y[i] = c) /\ \A i \in Nat : ByteOf(y, i) = IF i < n THEN c ELSE {}
  <2>1. y \in Seq(Byte) /\ Len(y) = n /\ \A i \in 1 .. n : y[i] = c
    BY <1>1, <1>2, Repeated
  <2> HIDE DEF y
  <2> QED
    BY <1>1, <2>1 DEF ByteOf
<1> HIDE DEF y
<1>0. n \in Nat
  BY <1>1
<1>9. Bytes(v) = y
  <2>1. /\ Bytes(v) \in Seq(Byte) /\ Len(Bytes(v)) = n
        /\ \A i \in 1 .. n : Bytes(v)[i] = ByteAt(At(v.words, (i - 1) \div 4), (i - 1) % 4)
    BY <1>7, BytesIs
  <2>2. ASSUME NEW i \in 1 .. n PROVE Bytes(v)[i] = y[i]
    <3> DEFINE k == (i - 1) \div 4
               j == (i - 1) % 4
    <3>1. k \in Nat /\ j \in 0 .. 3 /\ 4 * k < n
      BY <1>0
    <3>2. Bytes(v)[i] = ByteAt(At(v.words, k), j)
      BY <2>1
    <3> HIDE DEF k, j
    <3>3. At(v.words, k) = pw
      BY <1>6, <1>7, <3>1
    <3> QED
      BY <1>5, <1>8, <3>1, <3>2, <3>3
  <2> QED
    BY <1>8, <2>1, <2>2, SameSeq
<1>10. ASSUME Len(x) % 4 = 0 PROVE Holds(v, y)
  <2>1. n % 4 = 0
    BY <1>1, <1>10
  <2>2. ASSUME NEW k \in Nat, NEW j \in 0 .. 3 PROVE ByteAt(At(v.words, k), j) = ByteOf(y, 4 * k + j)
    <3>1. 4 * k + j \in Nat
      OBVIOUS
    <3>2. CASE 4 * k < n
      <4>1. 4 * k + j < n
        BY <1>0, <2>1, <3>2
      <4> QED
        BY <1>5, <1>6, <1>7, <1>8, <3>1, <3>2, <4>1
    <3>3. CASE 4 * k >= n
      <4>1. ~(4 * k + j < n) /\ ~(4 * k < n)
        BY <1>0, <3>3
      <4> QED
        BY <1>6, <1>7, <1>8, <3>1, <4>1, BytesOfAnyWord
    <3> QED
      BY <1>0, <3>2, <3>3
  <2> QED
    BY <1>7, <1>8, <2>2, HoldsByBytes
<1>11. Holds(Concat(OfBytes(x), v), x \o y)
  BY <1>7, <1>9, <1>10, ConcatHolds
<1> QED
  BY <1>3, <1>11 DEF v, y, c, pw

LEMMA LastByteIs ==
    ASSUME NEW n \in 1 .. 16
    PROVE  /\ BitsOf(n) \in Byte
           /\ LastByte(n) \in Seq(Byte) /\ Len(LastByte(n)) = n
           /\ \A i \in Nat : ByteOf(LastByte(n), i) = IF i = n - 1 THEN BitsOf(n) ELSE {}
<1> DEFINE c == BitsOf(n)
<1>1. c \in Byte
  <2>1. n \in 0 .. 255
    OBVIOUS
  <2> HIDE DEF c
  <2> QED
    BY <2>1, BitByBit DEF c
<1>2. {} \in Byte
  BY DEF Byte
<1> HIDE DEF c
<1>3. LastByte(n) \in Seq(Byte) /\ Len(LastByte(n)) = n /\ \A k \in 1 .. n : LastByte(n)[k] = IF k = n THEN c ELSE {}
  BY <1>1, <1>2 DEF LastByte, c
<1>4. \A i \in Nat : ByteOf(LastByte(n), i) = IF i = n - 1 THEN c ELSE {}
  <2> SUFFICES ASSUME NEW i \in Nat PROVE ByteOf(LastByte(n), i) = IF i = n - 1 THEN c ELSE {}
    OBVIOUS
  <2> DEFINE y == LastByte(n)
  <2>1. Len(y) = n /\ \A k \in 1 .. n : y[k] = IF k = n THEN c ELSE {}
    BY <1>3
  <2> HIDE DEF y
  <2>2. CASE i < n
    <3>1. i + 1 \in 1 .. n /\ (i + 1 = n <=> i = n - 1)
      BY <2>2
    <3>2. ByteOf(y, i) = y[i + 1]
      BY <2>1, <2>2 DEF ByteOf
    <3> QED
      BY <2>1, <3>1, <3>2 DEF y
  <2>3. CASE i >= n
    BY <2>1, <2>3 DEF ByteOf, y
  <2> QED
    BY <2>2, <2>3
<1> QED
  BY <1>1, <1>3, <1>4 DEF c

LEMMA OneWordSet ==
    ASSUME NEW words \in Chain, NEW i \in Nat, NEW x \in Word32
    PROVE  /\ SetAt(words, i, x) \in Chain
           /\ \A k \in Nat : /\ k = i => At(SetAt(words, i, x), k) = x
                             /\ k # i => At(SetAt(words, i, x), k) = At(words, k)
<1>1. SetAt(words, i, x) \in Chain
  BY SetAtIs
<1>2. At(SetAt(words, i, x), i) = x
  BY SetAtIs
<1>3. ASSUME NEW k \in Nat, k # i PROVE At(SetAt(words, i, x), k) = At(words, k)
  BY <1>3, SetAtIs
<1> QED
  BY <1>1, <1>2, <1>3, Zenon

\* The last byte of the padding is put where there was none.
LEMMA AnsiX923Holds ==
    ASSUME NEW x \in Seq(Byte), NEW size, NEW n, Completes(n, Len(x), size)
    PROVE  Holds(AnsiX923Pad(OfBytes(x), size), x \o LastByte(n))
<1> DEFINE c == BitsOf(n)
           W == OfBytes(x).words
           last == Len(x) + n - 1
           p == last \div 4
           q == last % 4
           y == At(W, p) \cup AtByte(c, q)
           v == WordArray(SetAt(W, p, y), Len(x) + n)
           b == x \o LastByte(n)
<1>1. n \in 1 .. 16 /\ n \in Nat /\ Len(x) \in Nat
  BY PadLength
<1>2. /\ c \in Byte /\ LastByte(n) \in Seq(Byte) /\ Len(LastByte(n)) = n
      /\ \A i \in Nat : ByteOf(LastByte(n), i) = IF i = n - 1 THEN c ELSE {}
  BY <1>1, LastByteIs
<1>3. AnsiX923Pad(OfBytes(x), size) = v
  <2>1. OfBytes(x).sigBytes = Len(x) /\ Clamp(OfBytes(x)) = OfBytes(x)
    BY OfBytesIs, ClampOfBytes
  <2>2. PaddingBytes(OfBytes(x), size) = n
    BY <2>1, Zenon DEF PaddingBytes, Completes
  <2> QED
    BY <2>1, <2>2, Zenon DEF AnsiX923Pad
<1>4. /\ b \in Seq(Byte) /\ Len(b) = Len(x) + n
      /\ \A i \in Nat : ByteOf(b, i) = IF i < Len(x) THEN ByteOf(x, i) ELSE ByteOf(LastByte(n), i - Len(x))
  BY <1>2, ByteOfJoined
<1> HIDE DEF c, b
<1>5. W \in Chain /\ \A k \in Nat, j \in 0 .. 3 : ByteAt(At(W, k), j) = ByteOf(x, 4 * k + j)
  BY OfBytesIs DEF Arrays
<1>6. last \in Nat /\ last >= Len(x) /\ p \in Nat /\ q \in 0 .. 3 /\ last = 4 * p + q /\ last - Len(x) = n - 1
  BY <1>1
<1> HIDE DEF W, last, p, q
<1>7. At(W, p) \in Word32
  BY <1>5, <1>6, AtIs
<1>15. ByteAt(At(W, p), q) = {}
  <2>1. ByteOf(x, 4 * p + q) = {}
    BY <1>1, <1>6 DEF ByteOf
  <2> QED
    BY <1>5, <1>6, <2>1
<1>8. y \in Word32 /\ ByteAt(y, q) = c /\ \A j \in 0 .. 3 : j # q => ByteAt(y, j) = ByteAt(At(W, p), j)
  BY <1>2, <1>6, <1>7, <1>15, MarkedByte
<1> HIDE DEF y
<1>9. /\ SetAt(W, p, y) \in Chain
      /\ \A k \in Nat : At(SetAt(W, p, y), k) = IF k = p THEN y ELSE At(W, k)
  <2> HIDE DEF v
  <2>1. W \in Chain /\ p \in Nat /\ y \in Word32
    BY <1>5, <1>6, <1>8
  <2>2. /\ SetAt(W, p, y) \in Chain
        /\ \A k \in Nat : /\ k = p => At(SetAt(W, p, y), k) = y
                          /\ k # p => At(SetAt(W, p, y), k) = At(W, k)
    BY <2>1, OneWordSet, Zenon
  <2> QED
    BY <2>2
<1>10. v \in Arrays /\ v.sigBytes = Len(b) /\ v.words = SetAt(W, p, y)
  <2>1. Len(x) + n \in Nat
    BY <1>1
  <2> DEFINE Z == SetAt(W, p, y)
  <2>2. Z \in Chain /\ Written(Z) = Z
    BY <1>9, WrittenIs DEF Chain
  <2> HIDE DEF Z
  <2> QED
    BY <1>4, <2>1, <2>2 DEF WordArray, Arrays, Z
<1>11. \A i \in Nat : ByteOf(b, i) = IF i = last THEN c ELSE ByteOf(x, i)
  <2> SUFFICES ASSUME NEW i \in Nat PROVE ByteOf(b, i) = IF i = last THEN c ELSE ByteOf(x, i)
    OBVIOUS
  <2>1. CASE i < Len(x)
    BY <1>1, <1>4, <1>6, <2>1
  <2>2. CASE i >= Len(x)
    <3>1. ByteOf(x, i) = {}
      BY <1>1, <2>2 DEF ByteOf
    <3>2. i - Len(x) \in Nat /\ ~(i < Len(x)) /\ (i = last <=> i - Len(x) = n - 1)
      BY <1>1, <1>6, <2>2
    <3>3. ByteOf(LastByte(n), i - Len(x)) = IF i - Len(x) = n - 1 THEN c ELSE {}
      BY <1>2, <3>2
    <3> QED
      BY <1>4, <3>1, <3>2, <3>3
  <2> QED
    BY <1>1, <2>1, <2>2
<1>12. ByteOf(x, last) = {}
  BY <1>1, <1>6 DEF ByteOf
<1> HIDE DEF v
<1>13. ASSUME NEW k \in Nat, NEW j \in 0 .. 3 PROVE ByteAt(At(v.words, k), j) = ByteOf(b, 4 * k + j)
  <2>1. 4 * k + j \in Nat /\ (4 * k + j = last <=> k = p /\ j = q)
    BY <1>6
  <2>2. CASE k # p
    BY <1>5, <1>9, <1>10, <1>11, <2>1, <2>2
  <2>3. CASE k = p
    <3>1. At(v.words, k) = y
      BY <1>9, <1>10, <2>3
    <3>2. ByteAt(At(W, p), j) = ByteOf(x, 4 * k + j)
      BY <1>5, <1>6, <2>3
    <3>3. CASE j = q
      <4>1. ByteOf(x, 4 * k + j) = {} /\ ByteOf(b, 4 * k + j) = c
        BY <1>11, <1>12, <2>1, <2>3, <3>3
      <4> QED
        BY <1>8, <3>1, <3>3, <4>1
    <3>4. CASE j # q
      <4>1. ByteOf(b, 4 * k + j) = ByteOf(x, 4 * k + j)
        BY <1>11, <2>1, <3>4
      <4> QED
        BY <1>8, <3>1, <3>2, <3>4, <4>1
    <3> QED
      BY <3>3, <3>4
  <2> QED
    BY <2>2, <2>3
<1>14. Holds(v, b)
  BY <1>4, <1>10, <1>13, HoldsByBytes
<1> QED
  BY <1>3, <1>14 DEF b

ZerosFor(r, size) == IF r % size = 0 THEN 0 ELSE size - (r % size)
LEMMA ZeroHolds ==
    ASSUME NEW x \in Seq(Byte), NEW size, size \in {8, 16}
    PROVE  ZerosFor(Len(x), size) \in Nat /\ Holds(ZeroPad(OfBytes(x), size), x \o Zeros(ZerosFor(Len(x), size)))
<1> DEFINE w == OfBytes(x)
           n == ZerosFor(Len(x), size)
<1>1. w.sigBytes = Len(x) /\ Clamp(w) = w /\ Holds(w, x)
  BY OfBytesIs, ClampOfBytes, HoldsOfBytes
<1>2. n \in Nat
  <2>1. Len(x) \in Nat
    OBVIOUS
  <2> QED
    BY <2>1 DEF ZerosFor
<1>3. ZeroPad(w, size) = WordArray(Clamp(w).words, w.sigBytes + n)
  BY <1>1, Zenon DEF ZeroPad, ZerosFor
<1> HIDE DEF n
<1>4. Holds(WordArray(Clamp(w).words, w.sigBytes + n), x \o Zeros(n))
  BY <1>1, <1>2, ZerosHold
<1> QED
  BY <1>2, <1>3, <1>4 DEF n

LEMMA Iso97971Holds ==
    ASSUME NEW x \in Seq(Byte), NEW size, NEW n, Completes(n, Len(x), size)
    PROVE  Holds(Iso97971Pad(OfBytes(x), size), x \o (<<{7}>> \o Zeros(n - 1)))
<1> DEFINE y == x \o <<{7}>>
           m == ZerosFor(Len(y), size)
<1>1. {7} \in Byte /\ AtByte({7}, 0) = {31}
  BY DEF Byte, AtByte
<1>2. WordArray(<<{31}>>, 1) = OfBytes(<<{7}>>) /\ <<{7}>> \in Seq(Byte)
  BY <1>1, OneByte
<1>3. Concat(OfBytes(x), WordArray(<<{31}>>, 1)) = OfBytes(y)
  BY <1>2, ConcatJoins
<1>4. y \in Seq(Byte) /\ Len(y) = Len(x) + 1
  BY <1>2
<1>5. m = n - 1 /\ n - 1 \in Nat /\ size \in {8, 16}
  BY <1>4, PadLength DEF Completes, ZerosFor
<1>6. Iso97971Pad(OfBytes(x), size) = ZeroPad(OfBytes(y), size)
  BY <1>3, Zenon DEF Iso97971Pad
<1> HIDE DEF y, m
<1>7. Holds(ZeroPad(OfBytes(y), size), y \o Zeros(m))
  BY <1>4, <1>5, ZeroHolds DEF m
<1>8. y \o Zeros(n - 1) = x \o (<<{7}>> \o Zeros(n - 1))
  <2>1. Zeros(n - 1) \in Seq(Byte)
    BY <1>5, ZerosAre
  <2> QED
    BY <1>2, <2>1 DEF y
<1> QED
  BY <1>5, <1>6, <1>7, <1>8

LEMMA FilledIs ==
    ASSUME NEW m \in Nat, NEW fill \in Word32
    PROVE  /\ Random(m, fill) \in Arrays /\ Random(m, fill).sigBytes = m
           /\ Bytes(Random(m, fill)) = Filled(m, fill)
           /\ Filled(m, fill) \in Seq(Byte) /\ Len(Filled(m, fill)) = m
<1> DEFINE words == [k \in 1 .. WordsFor(m) |-> fill]
           v == Random(m, fill)
           y == Filled(m, fill)
<1>1. WordsFor(m) \in Nat /\ \A k \in Nat : k < WordsFor(m) <=> 4 * k < m
  BY WordsForIs
<1>2. words \in Seq(Word32) /\ Len(words) = WordsFor(m) /\ Written(words) = words /\ \A k \in 1 .. WordsFor(m) : words[k] = fill
  BY <1>1, Repeated
<1>3. v = [words |-> words, sigBytes |-> m]
  BY <1>2, Zenon DEF Random, WordArray
<1>4. \A k \in 1 .. m : ByteAt(fill, (k - 1) % 4) \in Byte
  <2>1. \A k \in 1 .. m : (k - 1) % 4 \in 0 .. 3
    OBVIOUS
  <2> QED
    BY <2>1, BytesOfAnyWord
<1>5. y \in [1 .. m -> Byte] /\ \A k \in 1 .. m : y[k] = ByteAt(fill, (k - 1) % 4)
  BY <1>4 DEF Filled
<1> HIDE DEF words, v, y
<1>6. v \in Arrays /\ v.sigBytes = m /\ v.words = words /\ words \in Chain
  BY <1>2, <1>3 DEF Arrays, Chain
<1>7. y \in Seq(Byte) /\ Len(y) = m
  BY <1>5, Listed
<1>8. Bytes(v) = y
  <2>1. /\ Bytes(v) \in Seq(Byte) /\ Len(Bytes(v)) = m
        /\ \A i \in 1 .. m : Bytes(v)[i] = ByteAt(At(v.words, (i - 1) \div 4), (i - 1) % 4)
    BY <1>6, BytesIs
  <2>2. ASSUME NEW i \in 1 .. m PROVE Bytes(v)[i] = y[i]
    <3> DEFINE k == (i - 1) \div 4
    <3>1. k \in Nat /\ 4 * k < m
      OBVIOUS
    <3>2. Bytes(v)[i] = ByteAt(At(words, k), (i - 1) % 4)
      BY <1>6, <2>1
    <3> HIDE DEF k
    <3>3. k < WordsFor(m)
      BY <1>1, <3>1
    <3>4. At(words, k) = fill
      <4>1. k \in 0 .. Len(words) - 1 /\ k + 1 \in 1 .. WordsFor(m)
        BY <1>1, <1>2, <3>1, <3>3
      <4> QED
        BY <1>2, <4>1 DEF At
    <3> QED
      BY <1>5, <3>2, <3>4
  <2> QED
    BY <1>7, <2>1, <2>2, SameSeq
<1> QED
  BY <1>6, <1>7, <1>8 DEF v, y

LEMMA Iso10126Holds ==
    ASSUME NEW x \in Seq(Byte), NEW size, NEW n, Completes(n, Len(x), size), NEW fill \in Word32
    PROVE  Holds(Iso10126Pad(OfBytes(x), size, fill), x \o (Filled(n - 1, fill) \o <<BitsOf(n)>>))
<1> DEFINE c == BitsOf(n)
           m == n - 1
           y == Filled(m, fill)
           v == Random(m, fill)
           w == OfBytes(x)
           u == Concat(w, v)
           e == WordArray(<<AtByte(c, 0)>>, 1)
<1>1. m \in Nat /\ (Len(x) + m) % 4 # 0 /\ Len(x) \in Nat
  <2>1. n \in 1 .. 16 /\ (Len(x) + n) % 4 = 0 /\ Len(x) \in Nat
    BY PadLength
  <2> QED
    BY <2>1
<1>2. c \in Byte
  <2>1. n \in 0 .. 255
    BY PadLength
  <2> HIDE DEF c
  <2> QED
    BY <2>1, BitByBit DEF c
<1>3. e = OfBytes(<<c>>) /\ <<c>> \in Seq(Byte)
  BY <1>2, OneByte
<1>4. Iso10126Pad(w, size, fill) = Concat(u, e)
  <2>1. w.sigBytes = Len(x)
    BY OfBytesIs
  <2>2. PaddingBytes(w, size) = n
    BY <2>1, Zenon DEF PaddingBytes, Completes
  <2> QED
    BY <2>2, Zenon DEF Iso10126Pad
<1> HIDE DEF c, m, y, v, w, u, e
<1>5. v \in Arrays /\ v.sigBytes = m /\ Bytes(v) = y /\ y \in Seq(Byte)
  BY <1>1, FilledIs DEF v, y
<1>6. w \in Arrays /\ w.sigBytes = Len(x) /\ Bytes(w) = x
  BY OfBytesIs, BytesOfBytes DEF w
<1>7. u \in Arrays /\ u.sigBytes = Len(x) + m /\ Bytes(u) = x \o y
  BY <1>5, <1>6, ConcatTyped, BytesJoined DEF u
<1>8. Bytes(e) = <<c>>
  BY <1>3, BytesOfBytes
<1>9. Concat(u, e) = OfBytes((x \o y) \o <<c>>)
  <2>1. u.sigBytes % 4 # 0
    BY <1>1, <1>7
  <2> QED
    BY <1>7, <1>8, <2>1, Zenon DEF Concat
<1>10. (x \o y) \o <<c>> = x \o (y \o <<c>>)
  BY <1>3, <1>5
<1>11. x \o (y \o <<c>>) \in Seq(Byte)
  BY <1>3, <1>5
<1>12. Holds(Concat(u, e), x \o (y \o <<c>>))
  BY <1>9, <1>10, <1>11, HoldsOfBytes
<1> QED
  BY <1>4, <1>12 DEF w, y, m, c

\* How many bytes each padding has.
LEMMA PadOfTyped ==
    ASSUME NEW padding \in PaddingNames, NEW size, size \in {8, 16}, NEW r \in Nat, NEW fill \in Word32, NEW p, p = PadOf(padding, r, size, fill)
    PROVE  /\ p \in Seq(Byte) /\ Len(p) <= size
           /\ padding # "NoPadding" => (r + Len(p)) % size = 0
           /\ padding = "NoPadding" => Len(p) = 0
           /\ padding \notin {"NoPadding", "ZeroPadding"} => Len(p) = size - (r % size)
           /\ padding = "ZeroPadding" => Len(p) < size
<1> DEFINE n == size - (r % size)
<1>0. Completes(n, r, size)
  BY DEF Completes
<1>1. n \in 1 .. size /\ n \in 1 .. 16 /\ n \in Nat /\ n \in 0 .. 255 /\ (r + n) % size = 0 /\ n - 1 \in Nat
  BY <1>0, PadLength
<1>2. /\ padding = "Pkcs7" => p = [k \in 1 .. n |-> BitsOf(n)]
      /\ padding = "AnsiX923" => p = LastByte(n)
      /\ padding = "Iso10126" => p = Filled(n - 1, fill) \o <<BitsOf(n)>>
      /\ padding = "Iso97971" => p = <<{7}>> \o Zeros(n - 1)
      /\ padding = "ZeroPadding" => p = Zeros(ZerosFor(r, size))
      /\ padding = "NoPadding" => p = <<>>
  BY Zenon DEF PadOf, ZerosFor
<1>3. ZerosFor(r, size) \in Nat /\ ZerosFor(r, size) < size /\ (r + ZerosFor(r, size)) % size = 0
  <2>1. CASE size = 8
    BY <2>1 DEF ZerosFor
  <2>2. CASE size = 16
    BY <2>2 DEF ZerosFor
  <2> QED
    BY <2>1, <2>2
<1> DEFINE c == BitsOf(n)
<1> HIDE DEF n
<1>4. c \in Byte /\ {7} \in Byte
  <2>1. c \in Byte
    <3> HIDE DEF c
    <3> QED
      BY <1>1, BitByBit DEF c
  <2> QED
    BY <2>1 DEF Byte
<1> HIDE DEF c
<1>5. CASE padding = "Pkcs7"
  <2>1. p = [k \in 1 .. n |-> c]
    BY <1>2, <1>5 DEF c
  <2>2. p \in Seq(Byte) /\ Len(p) = n
    BY <1>1, <1>4, <2>1, Repeated
  <2> QED
    BY <1>1, <1>5, <2>2 DEF n
<1>6. CASE padding = "AnsiX923"
  <2>1. p \in Seq(Byte) /\ Len(p) = n
    BY <1>1, <1>2, <1>6, LastByteIs
  <2> QED
    BY <1>1, <1>6, <2>1 DEF n
<1>7. CASE padding = "Iso10126"
  <2>1. Filled(n - 1, fill) \in Seq(Byte) /\ Len(Filled(n - 1, fill)) = n - 1
    BY <1>1, FilledIs
  <2>2. p \in Seq(Byte) /\ Len(p) = n
    <3> DEFINE s == Filled(n - 1, fill)
    <3>1. p = s \o <<c>> /\ s \in Seq(Byte) /\ Len(s) = n - 1
      BY <1>2, <1>7, <2>1 DEF c
    <3> HIDE DEF s
    <3> QED
      BY <1>1, <1>4, <3>1
  <2> QED
    BY <1>1, <1>7, <2>2 DEF n
<1>8. CASE padding = "Iso97971"
  <2>1. Zeros(n - 1) \in Seq(Byte) /\ Len(Zeros(n - 1)) = n - 1
    BY <1>1, ZerosAre
  <2>2. p \in Seq(Byte) /\ Len(p) = n
    <3> DEFINE s == Zeros(n - 1)
               t == {7}
    <3>1. p = <<t>> \o s /\ s \in Seq(Byte) /\ Len(s) = n - 1 /\ t \in Byte
      BY <1>2, <1>4, <1>8, <2>1
    <3> HIDE DEF s, t
    <3> QED
      BY <1>1, <3>1
  <2> QED
    BY <1>1, <1>8, <2>2 DEF n
<1>9. CASE padding = "ZeroPadding"
  <2>1. p \in Seq(Byte) /\ Len(p) = ZerosFor(r, size)
    BY <1>2, <1>3, <1>9, ZerosAre
  <2> QED
    BY <1>3, <1>9, <2>1
<1>10. CASE padding = "NoPadding"
  <2>1. p = <<>>
    BY <1>2, <1>10
  <2>2. p \in Seq(Byte) /\ Len(p) = 0
    BY <2>1
  <2> QED
    BY <1>10, <2>2
<1> QED
  BY <1>5, <1>6, <1>7, <1>8, <1>9, <1>10 DEF PaddingNames

\* A padded array holds the bytes and the padding after them.
LEMMA PaddedHolds ==
    ASSUME NEW padding \in PaddingNames, NEW size, size \in {8, 16}, NEW x \in Seq(Byte), NEW fill \in Word32
    PROVE  Holds(Padded(padding, OfBytes(x), size, fill), x \o PadOf(padding, Len(x), size, fill))
<1> DEFINE w == OfBytes(x)
           n == size - (Len(x) % size)
           p == PadOf(padding, Len(x), size, fill)
           y1 == Pkcs7Pad(w, size)
           y2 == AnsiX923Pad(w, size)
           y3 == Iso10126Pad(w, size, fill)
           y4 == Iso97971Pad(w, size)
           y5 == ZeroPad(w, size)
<1>1. Padded(padding, w, size, fill) =
        CASE padding = "Pkcs7" -> y1 [] padding = "AnsiX923" -> y2 [] padding = "Iso10126" -> y3
          [] padding = "Iso97971" -> y4 [] padding = "ZeroPadding" -> y5 [] padding = "NoPadding" -> w
  BY Zenon DEF Padded
<1>2. /\ padding = "Pkcs7" => p = [k \in 1 .. n |-> BitsOf(n)]
      /\ padding = "AnsiX923" => p = LastByte(n)
      /\ padding = "Iso10126" => p = Filled(n - 1, fill) \o <<BitsOf(n)>>
      /\ padding = "Iso97971" => p = <<{7}>> \o Zeros(n - 1)
      /\ padding = "ZeroPadding" => p = Zeros(ZerosFor(Len(x), size))
      /\ padding = "NoPadding" => p = <<>>
  BY Zenon DEF p, PadOf, ZerosFor
<1>3. Completes(n, Len(x), size)
  BY DEF Completes
<1>4. x \o <<>> = x
  OBVIOUS
<1> HIDE DEF n
<1>5. /\ Holds(y1, x \o [k \in 1 .. n |-> BitsOf(n)])
      /\ Holds(y2, x \o LastByte(n))
      /\ Holds(y3, x \o (Filled(n - 1, fill) \o <<BitsOf(n)>>))
      /\ Holds(y4, x \o (<<{7}>> \o Zeros(n - 1)))
      /\ Holds(y5, x \o Zeros(ZerosFor(Len(x), size)))
      /\ Holds(w, x)
  BY <1>3, Pkcs7Holds, AnsiX923Holds, Iso10126Holds, Iso97971Holds, ZeroHolds, HoldsOfBytes
<1> HIDE DEF w, y1, y2, y3, y4, y5, p
<1> DEFINE v == Padded(padding, w, size, fill)
<1>6. /\ padding = "Pkcs7" => v = y1
      /\ padding = "AnsiX923" => v = y2
      /\ padding = "Iso10126" => v = y3
      /\ padding = "Iso97971" => v = y4
      /\ padding = "ZeroPadding" => v = y5
      /\ padding = "NoPadding" => v = w
  <2> HIDE DEF v
  <2> QED
    BY <1>1 DEF v
<1> HIDE DEF v
<1>7. Holds(v, x \o p)
  BY <1>2, <1>4, <1>5, <1>6 DEF PaddingNames
<1> QED
  BY <1>7 DEF v, w, p

-----------------------------------------------------------------------------
(* Unpadding *)
LEMMA NumberBack ==
    ASSUME NEW n \in 1 .. 16
    PROVE  NumberOf(BitsOf(n)) = n
<1> DEFINE m == NumberOf(BitsOf(n))
<1>1. n \in 0 .. 255 /\ BitsOf(n) \in Byte
  <2>1. n \in 0 .. 255
    OBVIOUS
  <2> QED
    BY <2>1, BitByBit
<1>2. m \in 0 .. 255 /\ BitsOf(m) = BitsOf(n)
  BY <1>1, NumberIs
<1> HIDE DEF m
<1>3. \A i \in 0 .. 7 : (n \div 2^i) % 2 = 1 <=> (m \div 2^i) % 2 = 1
  BY <1>1, <1>2, BitByBit
<1>4. 2^0 = 1 /\ 2^1 = 2 /\ 2^2 = 4 /\ 2^3 = 8 /\ 2^4 = 16 /\ 2^5 = 32 /\ 2^6 = 64 /\ 2^7 = 128
  OBVIOUS
<1>5. /\ (n \div 1) % 2 = 1 <=> (m \div 1) % 2 = 1
      /\ (n \div 2) % 2 = 1 <=> (m \div 2) % 2 = 1
      /\ (n \div 4) % 2 = 1 <=> (m \div 4) % 2 = 1
      /\ (n \div 8) % 2 = 1 <=> (m \div 8) % 2 = 1
      /\ (n \div 16) % 2 = 1 <=> (m \div 16) % 2 = 1
      /\ (n \div 32) % 2 = 1 <=> (m \div 32) % 2 = 1
      /\ (n \div 64) % 2 = 1 <=> (m \div 64) % 2 = 1
      /\ (n \div 128) % 2 = 1 <=> (m \div 128) % 2 = 1
  <2>1. 0 \in 0 .. 7 /\ 1 \in 0 .. 7 /\ 2 \in 0 .. 7 /\ 3 \in 0 .. 7 /\ 4 \in 0 .. 7 /\ 5 \in 0 .. 7 /\ 6 \in 0 .. 7 /\ 7 \in 0 .. 7
    OBVIOUS
  <2>2. /\ (n \div 2^0) % 2 = 1 <=> (m \div 2^0) % 2 = 1
        /\ (n \div 2^1) % 2 = 1 <=> (m \div 2^1) % 2 = 1
        /\ (n \div 2^2) % 2 = 1 <=> (m \div 2^2) % 2 = 1
        /\ (n \div 2^3) % 2 = 1 <=> (m \div 2^3) % 2 = 1
        /\ (n \div 2^4) % 2 = 1 <=> (m \div 2^4) % 2 = 1
        /\ (n \div 2^5) % 2 = 1 <=> (m \div 2^5) % 2 = 1
        /\ (n \div 2^6) % 2 = 1 <=> (m \div 2^6) % 2 = 1
        /\ (n \div 2^7) % 2 = 1 <=> (m \div 2^7) % 2 = 1
    BY <1>3, <2>1, Zenon
  <2> QED
    BY <1>4, <2>2
<1>6. \A x \in 0 .. 255 : /\ (x \div 1) % 2 \in {0, 1} /\ (x \div 2) % 2 \in {0, 1} /\ (x \div 4) % 2 \in {0, 1}
         /\ (x \div 8) % 2 \in {0, 1} /\ (x \div 16) % 2 \in {0, 1} /\ (x \div 32) % 2 \in {0, 1}
         /\ (x \div 64) % 2 \in {0, 1} /\ (x \div 128) % 2 \in {0, 1}
         /\ x = ((x \div 1) % 2) + 2 * ((x \div 2) % 2) + 4 * ((x \div 4) % 2) + 8 * ((x \div 8) % 2)
                + 16 * ((x \div 16) % 2) + 32 * ((x \div 32) % 2) + 64 * ((x \div 64) % 2) + 128 * ((x \div 128) % 2)
  OBVIOUS
<1> QED
  BY <1>1, <1>2, <1>5, <1>6 DEF m

\* The first n bytes of what an array holds.
LEMMA Truncated ==
    ASSUME NEW w \in Arrays, NEW b, Bytes(w) = b, NEW n \in Nat, n <= Len(b), NEW v, v = [w EXCEPT !.sigBytes = n]
    PROVE  v \in Arrays /\ Bytes(v) = SubSeq(b, 1, n)
<1>1. v \in Arrays /\ v.sigBytes = n /\ v.words = w.words
  BY DEF Arrays
<1>2. /\ b \in Seq(Byte) /\ Len(b) = w.sigBytes
      /\ \A i \in 1 .. w.sigBytes : b[i] = ByteAt(At(w.words, (i - 1) \div 4), (i - 1) % 4)
  BY BytesIs
<1>3. /\ Bytes(v) \in Seq(Byte) /\ Len(Bytes(v)) = n
      /\ \A i \in 1 .. n : Bytes(v)[i] = ByteAt(At(w.words, (i - 1) \div 4), (i - 1) % 4)
  BY <1>1, BytesIs
<1>4. /\ SubSeq(b, 0 + 1, n) \in Seq(Byte) /\ Len(SubSeq(b, 0 + 1, n)) = n - 0
      /\ \A i \in 1 .. n - 0 : SubSeq(b, 0 + 1, n)[i] = b[0 + i]
  <2>1. 0 \in Nat /\ 0 <= n
    OBVIOUS
  <2> QED
    BY <1>2, <2>1, PartIs
<1>5. 0 + 1 = 1 /\ n - 0 = n /\ \A i \in 1 .. n : 0 + i = i /\ i \in 1 .. w.sigBytes
  BY <1>2 DEF Arrays
<1>6. \A i \in 1 .. n : Bytes(v)[i] = SubSeq(b, 1, n)[i]
  <2> DEFINE p(i) == ByteAt(At(w.words, (i - 1) \div 4), (i - 1) % 4)
  <2>1. \A i \in 1 .. w.sigBytes : b[i] = p(i)
    BY <1>2
  <2>2. \A i \in 1 .. n : Bytes(v)[i] = p(i)
    BY <1>3
  <2> HIDE DEF p
  <2>3. SubSeq(b, 1, n) = SubSeq(b, 0 + 1, n)
    BY <1>5
  <2> QED
    BY <1>4, <1>5, <2>1, <2>2, <2>3
<1>7. Bytes(v) = SubSeq(b, 1, n)
  <2> DEFINE z == SubSeq(b, 1, n)
             y == Bytes(v)
  <2>1. z \in Seq(Byte) /\ Len(z) = n
    BY <1>4, <1>5
  <2>2. y \in Seq(Byte) /\ Len(y) = n
    BY <1>3
  <2>3. \A i \in 1 .. n : y[i] = z[i]
    BY <1>6
  <2> HIDE DEF z, y
  <2>4. y = z
    BY <2>1, <2>2, <2>3, SameSeq
  <2> QED
    BY <2>4 DEF y, z
<1> QED
  BY <1>1, <1>7

\* Padded bytes without the padding.
LEMMA WithoutPad ==
    ASSUME NEW y \in Seq(Byte), NEW p \in Seq(Byte), NEW w \in Arrays, Bytes(w) = y \o p,
           NEW v, v = [w EXCEPT !.sigBytes = Len(y)]
    PROVE  v \in Arrays /\ Bytes(v) = y /\ w.sigBytes = Len(y) + Len(p) /\ Len(y) \in Nat /\ Len(p) \in Nat
<1>1. y \o p \in Seq(Byte) /\ Len(y \o p) = Len(y) + Len(p) /\ Len(y) \in Nat /\ Len(p) \in Nat
  BY ByteOfJoined
<1>2. v \in Arrays /\ Bytes(v) = SubSeq(y \o p, 1, Len(y))
  <2>1. Len(y) <= Len(y \o p)
    BY <1>1
  <2> DEFINE b == y \o p
             n == Len(y)
  <2>2. Bytes(w) = b /\ n \in Nat /\ n <= Len(b) /\ v = [w EXCEPT !.sigBytes = n]
    BY <1>1, <2>1
  <2> HIDE DEF b, n
  <2>3. v \in Arrays /\ Bytes(v) = SubSeq(b, 1, n)
    BY <2>2, Truncated
  <2> QED
    BY <2>3 DEF b, n
<1>3. SubSeq(y \o p, 1, Len(y)) = y
  OBVIOUS
<1> QED
  BY <1>1, <1>2, <1>3, BytesIs

\* Bytes in whole words whose last says how many end them.
CountsItself(y, p) == Len(p) \in 1 .. 16 /\ (Len(y) + Len(p)) % 4 = 0 /\ p[Len(p)] = BitsOf(Len(p))
LEMMA LastPlace ==
    ASSUME NEW r \in Nat, NEW n \in 1 .. 16, NEW m \in Nat, r = m + n, r % 4 = 0
    PROVE  r \in 1 .. r /\ (r - 1) % 4 = 3 /\ (r - 1) \div 4 \in Int
  OBVIOUS

LEMMA LastOfJoined ==
    ASSUME NEW y \in Seq(Byte), NEW p \in Seq(Byte), NEW s, s = Len(y) + Len(p), Len(p) > 0
    PROVE  (y \o p)[s] = p[Len(p)]
<1>1. \A i \in 1 .. Len(p) : (y \o p)[Len(y) + i] = p[i]
  OBVIOUS
<1>2. Len(p) \in 1 .. Len(p)
  OBVIOUS
<1> QED
  BY <1>1, <1>2

\* The paddings that say in their last byte how many they are.
LEMMA LastByteUnpadIs ==
    ASSUME NEW y \in Seq(Byte), NEW p \in Seq(Byte), NEW w \in Arrays, Bytes(w) = y \o p, CountsItself(y, p)
    PROVE  LastByteUnpad(w) \in Arrays /\ Bytes(LastByteUnpad(w)) = y
<1> DEFINE s == w.sigBytes
           k == (s - 1) \div 4
           x == At(w.words, k)
           n == Len(p)
           v == [w EXCEPT !.sigBytes = Len(y)]
<1>1. v \in Arrays /\ Bytes(v) = y /\ s = Len(y) + n /\ Len(y) \in Nat /\ n \in Nat
  BY WithoutPad
<1>2. s \in 1 .. s /\ (s - 1) % 4 = 3 /\ k \in Int /\ s \in Nat /\ n > 0
  <2>1. n \in 1 .. 16 /\ (Len(y) + n) % 4 = 0
    BY Zenon DEF CountsItself
  <2>2. s % 4 = 0
    BY <1>1, <2>1, Zenon
  <2>3. s \in Nat /\ n > 0
    <3>1. n \in 1 .. 16 /\ n \in Nat
      BY <1>1, <2>1, Zenon
    <3> HIDE DEF v, n, x, k
    <3>2. s \in Nat
      BY DEF Arrays
    <3>3. n > 0
      BY <3>1
    <3> QED
      BY <3>2, <3>3
  <2> QED
    BY <1>1, <2>1, <2>2, <2>3, LastPlace
<1>3. (y \o p)[s] = p[n] /\ p[n] = BitsOf(n)
  BY <1>1, <1>2, LastOfJoined DEF CountsItself
<1>4. ByteAt(x, 3) = BitsOf(n)
  <2>1. \A i \in 1 .. w.sigBytes : Bytes(w)[i] = ByteAt(At(w.words, (i - 1) \div 4), (i - 1) % 4)
    BY BytesIs
  <2>2. Bytes(w)[s] = ByteAt(At(w.words, (s - 1) \div 4), (s - 1) % 4)
    BY <1>2, <2>1, Zenon
  <2> QED
    BY <1>2, <1>3, <2>2, Zenon
<1>5. x \in Word32
  BY <1>2, AtIs DEF Arrays
<1>6. ByteAt(x, 3) = x \cap 0 .. 7
  <2> HIDE DEF x
  <2>1. 24 - 8 * 3 = 0 /\ 31 - 8 * 3 = 7
    OBVIOUS
  <2>2. ByteAt(x, 3) = {i - 0 : i \in x \cap 0 .. 7}
    BY <2>1, Zenon DEF ByteAt
  <2>3. \A i \in x \cap 0 .. 7 : i - 0 = i
    OBVIOUS
  <2> QED
    BY <2>2, <2>3
<1>7. NumberOf(x \cap 0 .. 7) = n
  <2>1. n \in 1 .. 16
    BY DEF CountsItself
  <2> QED
    BY <1>4, <1>6, <2>1, NumberBack
<1>8. LastByteUnpad(w) = [w EXCEPT !.sigBytes = s - NumberOf(x \cap 0 .. 7)]
  BY DEF LastByteUnpad
<1>9. s - n = Len(y)
  BY <1>1
<1> QED
  BY <1>1, <1>7, <1>8, <1>9

LEMMA GreatestIs ==
    ASSUME NEW S \in SUBSET Int, NEW x \in S, \A y \in S : y <= x
    PROVE  Max(S) = x
<1>1. \A y \in S : x >= y
  OBVIOUS
<1>2. Max(S) \in S /\ \A y \in S : Max(S) >= y
  BY <1>1 DEF Max
<1> DEFINE m == Max(S)
<1> HIDE DEF m
<1>3. m \in Int /\ x \in Int /\ m >= x /\ m <= x
  BY <1>2 DEF m
<1>4. m = x
  BY <1>3
<1> QED
  BY <1>4 DEF m

\* Zeros are taken away down to the last byte that is not one.
LEMMA ZeroUnpadIs ==
    ASSUME NEW z \in Seq(Byte), z # <<>>, z[Len(z)] # {}, NEW k \in Nat,
           NEW w \in Arrays, Bytes(w) = z \o Zeros(k)
    PROVE  ZeroUnpad(w) = [w EXCEPT !.sigBytes = Len(z)]
<1> DEFINE b == z \o Zeros(k)
           byte(i) == ByteAt(At(w.words, i \div 4), i % 4)
           S == {i \in 0 .. (w.sigBytes - 1) : byte(i) # {}}
           m == Len(z)
<1>1. Zeros(k) \in Seq(Byte) /\ Len(Zeros(k)) = k /\ \A i \in Nat : ByteOf(Zeros(k), i) = {}
  BY ZerosAre
<1>2. /\ b \in Seq(Byte) /\ Len(b) = m + k
      /\ \A i \in Nat : ByteOf(b, i) = IF i < m THEN ByteOf(z, i) ELSE ByteOf(Zeros(k), i - m)
  BY <1>1, ByteOfJoined
<1>3. m \in Nat /\ m > 0
  OBVIOUS
<1>4. w.sigBytes = m + k /\ \A i \in 1 .. w.sigBytes : b[i] = byte(i - 1)
  BY <1>2, BytesIs
<1> HIDE DEF b, byte, m
<1>5. \A i \in 0 .. (m + k) - 1 : byte(i) = ByteOf(b, i)
  <2> SUFFICES ASSUME NEW i \in 0 .. (m + k) - 1 PROVE byte(i) = ByteOf(b, i)
    OBVIOUS
  <2>1. i + 1 \in 1 .. w.sigBytes /\ (i + 1) - 1 = i /\ i < Len(b)
    BY <1>2, <1>3, <1>4
  <2>2. b[i + 1] = byte((i + 1) - 1)
    BY <1>4, <2>1
  <2> QED
    BY <2>1, <2>2 DEF ByteOf
<1>6. m - 1 \in S
  <2>1. m - 1 \in 0 .. (m + k) - 1 /\ m - 1 \in Nat /\ m - 1 < m /\ (m - 1) + 1 = m
    BY <1>3
  <2>2. ByteOf(b, m - 1) = ByteOf(z, m - 1)
    BY <1>2, <2>1
  <2>3. ByteOf(z, m - 1) = z[m]
    BY <2>1 DEF ByteOf, m
  <2>4. byte(m - 1) # {}
    BY <1>5, <2>1, <2>2, <2>3 DEF m
  <2> QED
    BY <1>4, <2>1, <2>4
<1>7. \A i \in S : i <= m - 1
  <2> SUFFICES ASSUME NEW i \in S, ~(i <= m - 1) PROVE FALSE
    OBVIOUS
  <2>1. i \in 0 .. (m + k) - 1 /\ i \in Nat /\ ~(i < m) /\ i - m \in Nat /\ byte(i) # {}
    BY <1>3, <1>4
  <2>2. byte(i) = ByteOf(b, i) /\ ByteOf(b, i) = ByteOf(Zeros(k), i - m) /\ ByteOf(Zeros(k), i - m) = {}
    BY <1>1, <1>2, <1>5, <2>1
  <2> QED
    BY <2>1, <2>2
<1>8. S \subseteq Int
  BY <1>3, <1>4
<1>9. S # {} /\ ZeroUnpad(w) = IF S = {} THEN Hangs ELSE [w EXCEPT !.sigBytes = Max(S) + 1]
  BY <1>6 DEF ZeroUnpad, byte
<1> HIDE DEF S
<1>10. Max(S) = m - 1
  BY <1>6, <1>7, <1>8, GreatestIs
<1>11. (m - 1) + 1 = m
  BY <1>3
<1>12. ZeroUnpad(w) = [w EXCEPT !.sigBytes = m]
  BY <1>9, <1>10, <1>11
<1> QED
  BY <1>12 DEF m

LEMMA Iso97971UnpadIs ==
    ASSUME NEW y \in Seq(Byte), NEW k \in Nat, NEW w \in Arrays, Bytes(w) = y \o (<<{7}>> \o Zeros(k))
    PROVE  Iso97971Unpad(w) = [w EXCEPT !.sigBytes = Len(y)]
<1> DEFINE z == y \o <<{7}>>
           m == Len(y)
<1>1. {7} \in Byte /\ m \in Nat
  BY DEF Byte
<1>2. z \in Seq(Byte) /\ z # <<>> /\ Len(z) = m + 1 /\ z[Len(z)] # {}
  BY <1>1
<1>3. Zeros(k) \in Seq(Byte)
  BY ZerosAre
<1>4. Bytes(w) = z \o Zeros(k)
  BY <1>1, <1>3
<1>5. ZeroUnpad(w) = [w EXCEPT !.sigBytes = Len(z)]
  <2> HIDE DEF z
  <2> QED
    BY <1>2, <1>4, ZeroUnpadIs
<1>6. ZeroUnpad(w) = [w EXCEPT !.sigBytes = m + 1]
  BY <1>2, <1>5
<1> HIDE DEF m, z
<1> DEFINE left == ZeroUnpad(w)
<1>7. left.sigBytes = m + 1 /\ [left EXCEPT !.sigBytes = (m + 1) - 1] = [w EXCEPT !.sigBytes = (m + 1) - 1]
  BY <1>6 DEF Arrays
<1>8. (m + 1) - 1 = m /\ m + 1 # -1000
  BY <1>1
<1>9. left # Hangs
  BY <1>7, <1>8 DEF Hangs, WordArray
<1>10. Iso97971Unpad(w) = [left EXCEPT !.sigBytes = left.sigBytes - 1]
  BY <1>9 DEF Iso97971Unpad
<1>11. Iso97971Unpad(w) = [left EXCEPT !.sigBytes = m]
  BY <1>7, <1>8, <1>10
<1> QED
  BY <1>7, <1>8, <1>11 DEF m

\* What unpadding gives back: the bytes that were padded.
NoZeroEnd(y) == y # <<>> /\ y[Len(y)] # {}
LEMMA UnpaddedIs ==
    ASSUME NEW padding \in PaddingNames, NEW size, size \in {8, 16}, NEW y \in Seq(Byte), NEW fill \in Word32,
           NEW p, p = PadOf(padding, Len(y), size, fill), NEW w \in Arrays, Bytes(w) = y \o p,
           padding = "ZeroPadding" => NoZeroEnd(y)
    PROVE  Unpadded(padding, w) \in Arrays /\ Bytes(Unpadded(padding, w)) = y
<1> DEFINE r == Len(y)
           n == size - (r % size)
<1>1. r \in Nat /\ Completes(n, r, size)
  BY DEF Completes
<1>2. p \in Seq(Byte) /\ Len(p) <= size
  BY <1>1, PadOfTyped
<1> HIDE DEF r, n
<1>3. n \in 1 .. 16 /\ n \in Nat /\ (r + n) % 4 = 0 /\ n - 1 \in Nat
  BY <1>1, PadLength
<1> DEFINE v == [w EXCEPT !.sigBytes = Len(y)]
<1>4. v \in Arrays /\ Bytes(v) = y
  BY <1>2, WithoutPad
<1>5. BitsOf(n) \in Byte
  BY <1>3, LastByteIs
<1> HIDE DEF v
<1>6. ASSUME padding \in {"Pkcs7", "AnsiX923", "Iso10126"}, CountsItself(y, p)
      PROVE  Unpadded(padding, w) \in Arrays /\ Bytes(Unpadded(padding, w)) = y
  <2>1. Unpadded(padding, w) = LastByteUnpad(w)
    BY <1>6 DEF Unpadded
  <2> QED
    BY <1>2, <1>6, <2>1, LastByteUnpadIs
<1>7. CASE padding = "Pkcs7"
  <2>1. p = [k \in 1 .. n |-> BitsOf(n)]
    BY <1>7, Zenon DEF PadOf, n, r
  <2>2. Len(p) = n /\ p[n] = BitsOf(n)
    BY <1>3, <1>5, <2>1
  <2>3. CountsItself(y, p)
    BY <1>3, <2>2, Zenon DEF CountsItself, r
  <2> QED
    BY <1>6, <1>7, <2>3
<1>8. CASE padding = "AnsiX923"
  <2>1. p = LastByte(n)
    BY <1>8, Zenon DEF PadOf, n, r
  <2>2. Len(p) = n /\ p[n] = BitsOf(n)
    BY <1>3, <1>5, <2>1, LastByteIs DEF LastByte
  <2>3. CountsItself(y, p)
    BY <1>3, <2>2, Zenon DEF CountsItself, r
  <2> QED
    BY <1>6, <1>8, <2>3
<1>9. CASE padding = "Iso10126"
  <2>1. p = Filled(n - 1, fill) \o <<BitsOf(n)>>
    BY <1>9, Zenon DEF PadOf, n, r
  <2>2. Filled(n - 1, fill) \in Seq(Byte) /\ Len(Filled(n - 1, fill)) = n - 1
    BY <1>3, FilledIs
  <2>3. Len(p) = n /\ p[n] = BitsOf(n)
    BY <1>3, <1>5, <2>1, <2>2
  <2>4. CountsItself(y, p)
    BY <1>3, <2>3, Zenon DEF CountsItself, r
  <2> QED
    BY <1>6, <1>9, <2>4
<1>10. CASE padding = "Iso97971"
  <2>1. p = <<{7}>> \o Zeros(n - 1)
    BY <1>10, Zenon DEF PadOf, n, r
  <2>2. Iso97971Unpad(w) = v
    BY <1>3, <2>1, Iso97971UnpadIs DEF v
  <2>3. Unpadded(padding, w) = Iso97971Unpad(w)
    BY <1>10 DEF Unpadded
  <2> QED
    BY <1>4, <2>2, <2>3
<1>11. CASE padding = "ZeroPadding"
  <2> DEFINE m == IF r % size = 0 THEN 0 ELSE n
  <2>1. p = Zeros(m)
    BY <1>11, Zenon DEF PadOf, n, r
  <2>2. m \in Nat
    BY <1>3
  <2> HIDE DEF m
  <2>3. ZeroUnpad(w) = v
    <3>1. y # <<>> /\ y[Len(y)] # {}
      BY <1>11 DEF NoZeroEnd
    <3>2. Bytes(w) = y \o Zeros(m)
      BY <2>1
    <3>3. ZeroUnpad(w) = [w EXCEPT !.sigBytes = Len(y)]
      BY <2>2, <3>1, <3>2, ZeroUnpadIs
    <3> QED
      BY <3>3 DEF v
  <2>4. Unpadded(padding, w) = ZeroUnpad(w)
    BY <1>11 DEF Unpadded
  <2> QED
    BY <1>4, <2>3, <2>4
<1>12. CASE padding = "NoPadding"
  <2>1. p = <<>>
    BY <1>12, Zenon DEF PadOf
  <2>2. Unpadded(padding, w) = w
    BY <1>12 DEF Unpadded
  <2>3. y \o p = y
    BY <2>1
  <2> QED
    BY <2>2, <2>3
<1> QED
  BY <1>7, <1>8, <1>9, <1>10, <1>11, <1>12 DEF PaddingNames
PaddedBy(padding, size, y, fill, p, w) ==
    /\ padding \in PaddingNames /\ size \in {8, 16} /\ y \in Seq(Byte) /\ fill \in Word32
    /\ p = PadOf(padding, Len(y), size, fill) /\ w \in Arrays /\ Bytes(w) = y \o p
    /\ padding = "ZeroPadding" => NoZeroEnd(y)
IsArrayOf(v, y) == v \in Arrays /\ Bytes(v) = y
LEMMA UnpaddedAt ==
    ASSUME NEW padding, NEW size, NEW y, NEW fill, NEW p, NEW w, PaddedBy(padding, size, y, fill, p, w)
    PROVE  IsArrayOf(Unpadded(padding, w), y)
<1>1. /\ padding \in PaddingNames /\ size \in {8, 16} /\ y \in Seq(Byte) /\ fill \in Word32
      /\ p = PadOf(padding, Len(y), size, fill) /\ w \in Arrays /\ Bytes(w) = y \o p
      /\ padding = "ZeroPadding" => NoZeroEnd(y)
  BY DEF PaddedBy
<1>2. Unpadded(padding, w) \in Arrays
  BY <1>1, UnpaddedIs
<1>3. Bytes(Unpadded(padding, w)) = y
  BY <1>1, UnpaddedIs
<1> QED
  BY <1>2, <1>3 DEF IsArrayOf

-----------------------------------------------------------------------------
(* The text that goes to the other page *)

\* An array of whole words is what its bytes are put into.
LEMMA BytesOfWhole ==
    ASSUME NEW w \in Arrays, w.sigBytes = 4 * Len(w.words)
    PROVE  OfBytes(Bytes(w)) = w
<1> DEFINE b == Bytes(w)
<1>1. /\ b \in Seq(Byte) /\ Len(b) = w.sigBytes
      /\ \A k \in Nat : 4 * (k + 1) <= w.sigBytes => At(w.words, k) = At(OfBytes(b).words, k)
  BY BytesIs, WholeHeld
<1> HIDE DEF b
<1>2. w.words \in Chain /\ Len(w.words) \in Nat
  BY DEF Arrays, Chain
<1>3. WordsFor(Len(b)) = Len(w.words)
  BY <1>1, <1>2, WordsForIs
<1>4. /\ OfBytes(b) \in Arrays /\ OfBytes(b).sigBytes = Len(b) /\ Len(OfBytes(b).words) = Len(w.words)
      /\ OfBytes(b).words \in Chain
  BY <1>1, <1>3, OfBytesIs DEF Arrays
<1>5. \A k \in 0 .. Len(w.words) - 1 : At(w.words, k) = At(OfBytes(b).words, k)
  BY <1>1, <1>2
<1>6. w.words = OfBytes(b).words
  BY <1>2, <1>4, <1>5, SameWords
<1>7. \A u, v \in Arrays : u.words = v.words /\ u.sigBytes = v.sigBytes => u = v
  BY DEF Arrays
<1> QED
  BY <1>1, <1>4, <1>6, <1>7 DEF b

Long(x, n) == Len(x) = n
\* Joined sequences, taken apart again.
LEMMA TakenApart ==
    ASSUME NEW x \in Chain, NEW y \in Chain, NEW z, z = x \o y
    PROVE  /\ z \in Chain /\ Len(z) = Len(x) + Len(y)
           /\ \A i \in 1 .. Len(x) : z[i] = x[i]
           /\ \A i \in 1 .. Len(y) : z[Len(x) + i] = y[i]
           /\ SubSeq(z, Len(x) + 1, Len(z)) = y
  BY DEF Chain

LEMMA TwoWords ==
    ASSUME NEW x \in Chain, NEW y \in Chain, Long(x, 2), Long(y, 2), NEW z, z = x \o y
    PROVE  z \in Chain /\ Len(z) = 4 /\ z[1] = x[1] /\ z[2] = x[2] /\ SubSeq(z, 3, 4) = y
<1>1. /\ z \in Chain /\ Len(z) = Len(x) + Len(y)
      /\ \A i \in 1 .. Len(x) : z[i] = x[i]
      /\ SubSeq(z, Len(x) + 1, Len(z)) = y
  BY DEF Chain
<1>2. Len(x) + 1 = 3 /\ Len(z) = 4 /\ 1 \in 1 .. Len(x) /\ 2 \in 1 .. Len(x)
  BY <1>1 DEF Long
<1>3. SubSeq(z, 3, 4) = y
  BY <1>1, <1>2, Zenon
<1> QED
  BY <1>1, <1>2, <1>3

LEMMA BeginsAlike ==
    ASSUME NEW x \in Chain, NEW y \in Chain, Long(x, 4), NEW z, z = x \o y
    PROVE  SubSeq(z, 3, 4) = SubSeq(x, 3, 4)
<1>1. z \in Chain /\ Len(z) = Len(x) + Len(y) /\ \A i \in 1 .. Len(x) : z[i] = x[i]
  BY DEF Chain
<1>2. Len(z) >= 4 /\ Len(x) = 4 /\ \A i \in 1 .. 4 : z[i] = x[i]
  BY <1>1 DEF Chain, Long
<1> QED
  BY <1>1, <1>2 DEF Chain

\* Two arrays of whole words before a third.
Salty(salt) == salt \in Arrays /\ Len(salt.words) = 2 /\ salt.sigBytes = 8
LEMMA SaltedIs ==
    ASSUME NEW salt, Salty(salt), NEW w \in Arrays, NEW all,
           all = OfBytes(Bytes(Concat(Concat(Create(Salted), salt), w)))
    PROVE  /\ all \in Arrays
           /\ all.sigBytes = 16 + w.sigBytes
           /\ all.words = (Salted \o salt.words) \o OfBytes(Bytes(w)).words
<1> DEFINE s == Create(Salted)
           b == Bytes(s)
           c == Bytes(salt)
           d == Bytes(w)
<1>1. Salted \in Chain /\ Len(Salted) = 2
  BY WordOperators DEF Salted, Chain
<1>2. s \in Arrays /\ s.words = Salted /\ s.sigBytes = 8
  <2>1. Create(Salted) = WordArray(Salted, 8)
    <3>1. 4 * Len(Salted) = 8
      BY <1>1
    <3> QED
      BY <3>1, Zenon DEF Create
  <2>2. WordArray(Salted, 8) = [words |-> Salted, sigBytes |-> 8] /\ WordArray(Salted, 8) \in Arrays
    BY <1>1, ArrayIs
  <2> QED
    BY <2>1, <2>2
<1>3. salt \in Arrays /\ Len(salt.words) = 2 /\ salt.sigBytes = 8
  BY DEF Salty
<1>4. OfBytes(b) = s /\ OfBytes(c) = salt
  <2>1. s.sigBytes = 4 * Len(s.words) /\ salt.sigBytes = 4 * Len(salt.words)
    <3> HIDE DEF s
    <3>1. Len(s.words) = 2
      BY <1>1, <1>2, Zenon
    <3> QED
      BY <1>2, <1>3, <3>1
  <2> HIDE DEF s
  <2> QED
    BY <1>2, <1>3, <2>1, BytesOfWhole
<1>5. b \in Seq(Byte) /\ Len(b) = 8 /\ c \in Seq(Byte) /\ Len(c) = 8 /\ d \in Seq(Byte) /\ Len(d) = w.sigBytes
  BY <1>2, <1>3, BytesIs
<1>6. Concat(s, salt) \in Arrays
  BY <1>2, <1>3, ConcatTyped
<1>7. Bytes(Concat(Concat(s, salt), w)) = (b \o c) \o d
  BY <1>2, <1>3, <1>6, BytesJoined
<1> HIDE DEF s, b, c, d
<1>8. b \o c \in Seq(Byte) /\ Len(b \o c) = 16 /\ (b \o c) \o d \in Seq(Byte) /\ Len((b \o c) \o d) = 16 + Len(d)
  <2>1. b \o c \in Seq(Byte) /\ Len(b \o c) = 16
    <3>1. b \o c \in Seq(Byte) /\ Len(b \o c) = Len(b) + Len(c)
      BY <1>5, ByteOfJoined, Zenon
    <3> QED
      BY <1>5, <3>1
  <2> DEFINE e == b \o c
  <2>2. e \in Seq(Byte) /\ Len(e) = 16
    BY <2>1
  <2> HIDE DEF e
  <2>3. e \o d \in Seq(Byte) /\ Len(e \o d) = 16 + Len(d)
    BY <1>5, <2>2, ByteOfJoined
  <2> QED
    BY <2>1, <2>3 DEF e
<1>9. OfBytes(b \o c).words = Salted \o salt.words
  <2>1. 2 \in Nat /\ Len(b) = 4 * 2
    BY <1>5
  <2>2. OfBytes(b \o c).words = OfBytes(b).words \o OfBytes(c).words
    BY <1>5, <2>1, WordsJoined
  <2> QED
    BY <1>2, <1>4, <2>2
<1>10. OfBytes((b \o c) \o d).words = OfBytes(b \o c).words \o OfBytes(d).words
  <2> DEFINE e == b \o c
  <2>1. 4 \in Nat /\ Len(e) = 4 * 4 /\ e \in Seq(Byte)
    BY <1>8
  <2> HIDE DEF e
  <2>2. OfBytes(e \o d).words = OfBytes(e).words \o OfBytes(d).words
    BY <1>5, <2>1, WordsJoined
  <2> QED
    BY <2>2 DEF e
<1>11. all = OfBytes((b \o c) \o d)
  BY <1>7 DEF s, b, c, d
<1> QED
  BY <1>5, <1>8, <1>9, <1>10, <1>11, OfBytesIs DEF d

LEMMA SaltedParsed ==
    ASSUME NEW salt, Salty(salt), NEW w \in Arrays
    PROVE  OpenSSLParse(OpenSSLStringify(CipherParams(w, salt))) = CipherParams(OfBytes(Bytes(w)), salt)
<1> DEFINE u == Concat(Concat(Create(Salted), salt), w)
           all == OfBytes(Bytes(u))
           d == OfBytes(Bytes(w))
           x == Salted \o salt.words
<1>1. salt \in Arrays /\ Len(salt.words) = 2 /\ salt.sigBytes = 8 /\ salt.words \in Chain
  BY DEF Salty, Arrays
<1>2. all \in Arrays /\ all.sigBytes = 16 + w.sigBytes /\ all.words = x \o d.words
  BY SaltedIs
<1>3. Salted \in Chain /\ Len(Salted) = 2
  BY WordOperators DEF Salted, Chain
<1>4. d \in Arrays /\ d.sigBytes = w.sigBytes /\ d.words \in Chain
  BY BytesIs, OfBytesIs DEF Arrays
<1>5. u \in Arrays
  BY <1>1, <1>3, ArrayIs, ConcatTyped
<1>6. salt # NoSalt
  <2>1. NoSalt.sigBytes = 0
    BY EmptySeq DEF NoSalt, EmptyArray, Create, WordArray
  <2> QED
    BY <1>1, <2>1
<1>7. OpenSSLStringify(CipherParams(w, salt)) = Base64Stringify(Map, u)
  <2>1. CipherParams(w, salt).salt = salt /\ CipherParams(w, salt).ciphertext = w
    BY DEF CipherParams
  <2> QED
    BY <1>6, <2>1, Zenon DEF OpenSSLStringify
<1>8. Base64Parse(Map, Base64Stringify(Map, u)) = all
  BY <1>5, Base64RoundTrip
<1> HIDE DEF u, all, d
<1>9. x \in Chain /\ Len(x) = 4 /\ x[1] = Salted[1] /\ x[2] = Salted[2] /\ SubSeq(x, 3, 4) = salt.words
  <2> DEFINE y == salt.words
  <2>1. y \in Chain /\ Len(y) = 2 /\ Salted \in Chain
    BY <1>1, <1>3
  <2> HIDE DEF y
  <2> DEFINE z == Salted \o y
  <2>2. z = Salted \o y
    OBVIOUS
  <2> HIDE DEF z
  <2>3. z \in Chain /\ Len(z) = 4 /\ z[1] = Salted[1] /\ z[2] = Salted[2] /\ SubSeq(z, 3, 4) = y
    BY <1>3, <2>1, <2>2, TwoWords DEF Long
  <2> QED
    BY <2>3 DEF y, z
<1> HIDE DEF x
<1>10. /\ all.words \in Chain /\ Len(all.words) = 4 + Len(d.words)
       /\ \A k \in Nat : At(all.words, k) = IF k < 4 THEN At(x, k) ELSE At(d.words, k - 4)
  <2>1. all.words = x \o d.words /\ d.words \in Chain
    BY <1>2, <1>4
  <2> QED
    <3> DEFINE y == d.words
    <3>1. y \in Chain /\ x \in Chain
      BY <1>9, <2>1
    <3>2. all.words = x \o y /\ Len(x) = 4
      BY <1>9, <2>1
    <3> HIDE DEF y
    <3>3. /\ x \o y \in Chain /\ Len(x \o y) = Len(x) + Len(y)
          /\ \A k \in Nat : At(x \o y, k) = IF k < Len(x) THEN At(x, k) ELSE At(y, k - Len(x))
      BY <3>1, AtJoined, Zenon
    <3> QED
      BY <3>2, <3>3, Zenon DEF y
<1>11. Block(all.words, 0, 2) = Salted
  <2>1. /\ Block(all.words, 0, 2) \in [1 .. 2 -> Word32]
        /\ \A k \in 1 .. 2 : Block(all.words, 0, 2)[k] = At(all.words, 0 + (k - 1))
    BY <1>10, BlockAt
  <2>2. \A k \in 1 .. 2 : 0 + (k - 1) \in Nat /\ 0 + (k - 1) < 4 /\ 0 + (k - 1) \in 0 .. Len(x) - 1 /\ (0 + (k - 1)) + 1 = k
    BY <1>9
  <2>3. \A k \in 1 .. 2 : At(x, 0 + (k - 1)) = x[k]
    BY <1>9, <2>2, AtIs
  <2>4. \A k \in 1 .. 2 : x[k] = Salted[k]
    BY <1>9
  <2>5. \A k \in 1 .. 2 : Block(all.words, 0, 2)[k] = Salted[k]
    BY <1>10, <2>1, <2>2, <2>3, <2>4
  <2>6. Salted \in [1 .. 2 -> Word32]
    BY WordOperators DEF Salted
  <2> QED
    BY <2>1, <2>5, <2>6
<1>12. SubSeq(all.words, 5, Len(all.words)) = d.words /\ SubSeq(all.words, 3, 4) = salt.words
  <2> DEFINE y == d.words
             z == all.words
  <2>1. y \in Chain /\ x \in Chain /\ z = x \o y
    BY <1>2, <1>4, <1>9
  <2> HIDE DEF y, z
  <2>2. SubSeq(z, Len(x) + 1, Len(z)) = y
    BY <2>1, TakenApart
  <2>3. Len(x) + 1 = 5
    BY <1>9
  <2>4. SubSeq(z, 3, 4) = SubSeq(x, 3, 4)
    BY <1>9, <2>1, BeginsAlike DEF Long
  <2> QED
    BY <1>9, <2>2, <2>3, <2>4 DEF y, z
<1>14. Create(salt.words) = salt
  <2>1. Create(salt.words) = WordArray(salt.words, 4 * Len(salt.words))
    BY Zenon DEF Create
  <2>2. 4 * Len(salt.words) = 8
    BY <1>1
  <2>3. WordArray(salt.words, 8) = [words |-> salt.words, sigBytes |-> 8]
    BY <1>1, ArrayIs
  <2>4. salt = [words |-> salt.words, sigBytes |-> salt.sigBytes]
    BY <1>1 DEF Arrays
  <2>5. salt.sigBytes = 8
    BY <1>1
  <2> QED
    BY <2>1, <2>2, <2>3, <2>4, <2>5, Zenon
<1>15. WordArray(d.words, all.sigBytes - 16) = d
  <2>1. all.sigBytes - 16 = d.sigBytes /\ d.sigBytes \in Nat
    BY <1>2, <1>4 DEF Arrays
  <2> QED
    <3>1. WordArray(d.words, d.sigBytes) = [words |-> d.words, sigBytes |-> d.sigBytes]
      BY <1>4, <2>1, ArrayIs, Zenon
    <3>2. d = [words |-> d.words, sigBytes |-> d.sigBytes]
      BY <1>4 DEF Arrays
    <3> QED
      BY <2>1, <3>1, <3>2, Zenon
<1> QED
  BY <1>7, <1>8, <1>11, <1>12, <1>14, <1>15, Zenon DEF OpenSSLParse, d

\* What is not salted, as long as it does not begin as what is.
LEMMA UnsaltedParsed ==
    ASSUME NEW w \in Arrays, Block(OfBytes(Bytes(w)).words, 0, 2) # Salted
    PROVE  OpenSSLParse(OpenSSLStringify(CipherParams(w, NoSalt))) = CipherParams(OfBytes(Bytes(w)), NoSalt)
<1>1. CipherParams(w, NoSalt).salt = NoSalt /\ CipherParams(w, NoSalt).ciphertext = w
  BY DEF CipherParams
<1>2. OpenSSLStringify(CipherParams(w, NoSalt)) = Base64Stringify(Map, w)
  BY <1>1, Zenon DEF OpenSSLStringify
<1>3. Base64Parse(Map, Base64Stringify(Map, w)) = OfBytes(Bytes(w))
  BY Base64RoundTrip
<1> QED
  BY <1>2, <1>3, Zenon DEF OpenSSLParse

LEMMA WireIs ==
    ASSUME NEW w \in Arrays, NEW salt
    PROVE  /\ Parsed("Hex", Stringified("Hex", CipherParams(w, salt))) = CipherParams(OfBytes(Bytes(w)), NoSalt)
           /\ Parsed("Page", Stringified("Page", CipherParams(w, salt))) = CipherParams(OfBytes(Bytes(w)), NoSalt)
           /\ \A params : Parsed("OpenSSL", Stringified("OpenSSL", params)) = OpenSSLParse(OpenSSLStringify(params))
<1>1. CipherParams(w, salt).ciphertext = w
  BY DEF CipherParams
<1>2. /\ \A text : Parsed("Hex", text) = CipherParams(HexFormatParse(text).ciphertext, NoSalt)
      /\ \A text : Parsed("Page", text) = CipherParams(Base64Parse(PageMap, text), NoSalt)
      /\ \A text : Parsed("OpenSSL", text) = OpenSSLParse(text)
      /\ \A params : Stringified("Hex", params) = HexFormatStringify(params)
      /\ \A params : Stringified("Page", params) = Base64Stringify(PageMap, params.ciphertext)
      /\ \A params : Stringified("OpenSSL", params) = OpenSSLStringify(params)
  BY DEF Parsed, Stringified
<1>3. HexFormatParse(HexFormatStringify(CipherParams(w, salt))).ciphertext = OfBytes(Bytes(w))
  BY <1>1, HexRoundTrip DEF HexFormatParse, HexFormatStringify
<1>4. Base64Parse(PageMap, Base64Stringify(PageMap, w)) = OfBytes(Bytes(w))
  BY Base64RoundTrip
<1> QED
  BY <1>1, <1>2, <1>3, <1>4, Zenon

-----------------------------------------------------------------------------
(* The last call of an object *)

LEMMA JoinedIs ==
    ASSUME NEW x \in Seq(Byte), NEW y \in Seq(Byte), NEW z, z = x \o y
    PROVE  /\ z \in Seq(Byte) /\ Len(z) = Len(x) + Len(y) /\ Len(x) \in Nat /\ Len(y) \in Nat
           /\ \A i \in 1 .. Len(x) : z[i] = x[i]
           /\ \A i \in 1 .. Len(y) : z[Len(x) + i] = y[i]
  OBVIOUS

\* Parts of x and what follows it.
Joins(x, y, z) == x \in Seq(Byte) /\ y \in Seq(Byte) /\ z = x \o y
Within(q, u, x) == q \in Nat /\ u \in Nat /\ q <= u /\ u <= Len(x)
Parted(x, y, z, q, u) ==
    /\ SubSeq(z, q + 1, u) = SubSeq(x, q + 1, u)
    /\ SubSeq(z, q + 1, Len(z)) = SubSeq(x, q + 1, Len(x)) \o y
    /\ Len(z) = Len(x) + Len(y) /\ z \in Seq(Byte)

LEMMA PartsOfJoined ==
    ASSUME NEW x, NEW y, NEW z, Joins(x, y, z), NEW q, NEW u, Within(q, u, x)
    PROVE  Parted(x, y, z, q, u)
<1>0. x \in Seq(Byte) /\ y \in Seq(Byte) /\ z = x \o y /\ q \in Nat /\ u \in Nat /\ q <= u /\ u <= Len(x)
  BY DEF Joins, Within
<1> USE <1>0
<1> DEFINE n == Len(z)
<1>1. /\ z \in Seq(Byte) /\ Len(z) = Len(x) + Len(y) /\ Len(x) \in Nat /\ Len(y) \in Nat
      /\ \A i \in 1 .. Len(x) : z[i] = x[i]
      /\ \A i \in 1 .. Len(y) : z[Len(x) + i] = y[i]
  OBVIOUS
<1>4. n = Len(z) /\ n = Len(x) + Len(y)
  BY <1>1
<1> HIDE DEF n
<1>2. SubSeq(z, q + 1, u) = SubSeq(x, q + 1, u)
  <2>1. /\ SubSeq(z, q + 1, u) \in Seq(Byte) /\ Len(SubSeq(z, q + 1, u)) = u - q
        /\ \A i \in 1 .. u - q : SubSeq(z, q + 1, u)[i] = z[q + i]
    BY <1>1, <1>4, PartIs
  <2>2. /\ SubSeq(x, q + 1, u) \in Seq(Byte) /\ Len(SubSeq(x, q + 1, u)) = u - q
        /\ \A i \in 1 .. u - q : SubSeq(x, q + 1, u)[i] = x[q + i]
    BY <1>1, <1>4, PartIs
  <2>3. \A i \in 1 .. u - q : SubSeq(z, q + 1, u)[i] = SubSeq(x, q + 1, u)[i]
    <3>1. \A i \in 1 .. u - q : q + i \in 1 .. Len(x)
      BY <1>1
    <3> DEFINE s == SubSeq(z, q + 1, u)
               t == SubSeq(x, q + 1, u)
    <3>2. (\A i \in 1 .. u - q : s[i] = z[q + i]) /\ (\A i \in 1 .. u - q : t[i] = x[q + i])
      BY <2>1, <2>2
    <3>3. \A i \in 1 .. Len(x) : z[i] = x[i]
      BY <1>1
    <3> HIDE DEF s, t
    <3>4. \A i \in 1 .. u - q : s[i] = t[i]
      BY <3>1, <3>2, <3>3
    <3> QED
      BY <3>4 DEF s, t
  <2> QED
    BY <2>1, <2>2, <2>3, SameSeq
<1>3. SubSeq(z, q + 1, n) = SubSeq(x, q + 1, Len(x)) \o y
  <2> DEFINE v == SubSeq(x, q + 1, Len(x))
             w == SubSeq(z, q + 1, n)
  <2>1. w \in Seq(Byte) /\ Len(w) = n - q /\ \A i \in 1 .. n - q : w[i] = z[q + i]
    <3>1. q <= n /\ n <= Len(z) /\ n \in Nat
      BY <1>1, <1>4
    <3> QED
      BY <1>1, <3>1, PartIs
  <2>2. v \in Seq(Byte) /\ Len(v) = Len(x) - q /\ \A i \in 1 .. Len(x) - q : v[i] = x[q + i]
    BY <1>1, <1>4, PartIs
  <2> DEFINE r == v \o y
  <2>0. r = v \o y
    OBVIOUS
  <2> HIDE DEF v, w, r
  <2>3. /\ r \in Seq(Byte) /\ Len(r) = Len(v) + Len(y)
        /\ \A i \in 1 .. Len(v) : r[i] = v[i]
        /\ \A i \in 1 .. Len(y) : r[Len(v) + i] = y[i]
    <3>1. v \in Seq(Byte)
      BY <2>2
    <3> QED
      BY <2>0, <3>1, JoinedIs
  <2>4. \A i \in 1 .. n - q : w[i] = r[i]
    <3> SUFFICES ASSUME NEW i \in 1 .. n - q PROVE w[i] = r[i]
      OBVIOUS
    <3>1. CASE i <= Len(v)
      BY <1>1, <1>4, <2>1, <2>2, <2>3, <3>1
    <3>2. CASE i > Len(v)
      <4> DEFINE j == i - Len(v)
      <4>1. j \in 1 .. Len(y) /\ Len(v) + j = i /\ q + i = Len(x) + j
        BY <1>1, <1>4, <2>2, <3>2
      <4> HIDE DEF j
      <4>2. w[i] = z[Len(x) + j] /\ r[Len(v) + j] = y[j] /\ z[Len(x) + j] = y[j]
        BY <1>1, <1>4, <2>1, <2>3, <4>1
      <4> QED
        BY <4>1, <4>2
    <3> QED
      BY <2>2, <3>1, <3>2
  <2>5. Len(r) = n - q /\ Len(w) = n - q /\ n - q \in Nat
    BY <1>1, <1>4, <2>1, <2>2, <2>3
  <2>6. w = r
    BY <2>1, <2>3, <2>4, <2>5, SameSeq
  <2> QED
    BY <2>6 DEF v, w, r
<1> QED
  BY <1>1, <1>2, <1>3, <1>4 DEF Parted

\* An object is given the bytes from t to u.
LEMMA Appended ==
    ASSUME NEW c, NEW b, NEW f, NEW D, Makes(c, b, f, D), NEW o, NEW a, NEW t, Come(c, b, f, o, a, t),
           NEW u \in Nat, t <= u, u <= Len(b),
           NEW q, q = 4 * (a * CipherBlockSize(c.cipher)),
           NEW o1, o1 = AppendData(o, OfBytes(SubSeq(b, t + 1, u)))
    PROVE  /\ o1 \in Alike(c) /\ o1.run = f[a] /\ o1.data = OfBytes(SubSeq(b, q + 1, u))
           /\ a \in Nat /\ t \in Nat /\ q \in Nat /\ q <= t
<1>1. o \in Alike(c) /\ a \in Nat /\ t \in Nat /\ q <= t /\ t <= Len(b) /\ o.run = f[a]
      /\ o.data = OfBytes(SubSeq(b, q + 1, t))
  BY DEF Come
<1>2. q \in Nat
  <2> DEFINE size == CipherBlockSize(c.cipher)
  <2>1. size \in {1, 2, 4}
    BY MakesSizes
  <2> HIDE DEF size
  <2>2. a * size \in Nat
    BY <1>1, <2>1, CipherPlaces
  <2>3. 4 * (a * size) \in Nat
    BY <2>2
  <2> QED
    BY <2>3 DEF size
<1>3. b \in Seq(Byte)
  BY DEF Makes
<1> DEFINE x == SubSeq(b, q + 1, t)
           y == SubSeq(b, t + 1, u)
           z == SubSeq(b, q + 1, u)
<1>4. x \in Seq(Byte) /\ y \in Seq(Byte) /\ z \in Seq(Byte) /\ x \o y = z /\ Len(y) \in Nat
  <2>1. t <= u /\ q <= t /\ q <= u /\ t <= Len(b) /\ u <= Len(b)
    BY <1>1, <1>2
  <2>2. x \in Seq(Byte) /\ y \in Seq(Byte) /\ z \in Seq(Byte)
    BY <1>1, <1>2, <1>3, <2>1, PartIs
  <2>5. t \in Nat /\ u \in Nat
    BY <1>1
  <2>3. x \o y = z
    BY <1>2, <1>3, <2>1, <2>5, PartsJoin, Zenon
  <2>4. Len(y) \in Nat
    BY <2>2
  <2> QED
    BY <2>2, <2>3, <2>4
<1> HIDE DEF x, z
<1> HIDE DEF y
<1>5. OfBytes(y) \in Arrays /\ OfBytes(z) \in Arrays /\ OfBytes(y).sigBytes = Len(y)
  BY <1>4, OfBytesIs
<1>6. Concat(o.data, OfBytes(y)) = OfBytes(z)
  BY <1>1, <1>4, ConcatJoins DEF x
<1> DEFINE k == o.nDataBytes + Len(y)
<1>7. o1 = [o EXCEPT !.data = OfBytes(z), !.nDataBytes = k]
  BY <1>5, <1>6 DEF AppendData, y
<1>8. k \in Nat
  BY <1>1, <1>4 DEF Alike
<1> HIDE DEF k
<1>9. o1 \in Alike(c) /\ o1.run = o.run /\ o1.data = OfBytes(z)
  BY <1>1, <1>5, <1>7, <1>8 DEF Alike
<1> QED
  BY <1>1, <1>2, <1>9 DEF z

\* The rest of the bytes is as long as all of them, but for whole blocks.
Rests(size, a, n, q) == size \in {2, 4} /\ a \in Nat /\ n \in Nat /\ q = 4 * (a * size) /\ q <= n
LEMMA RestsAlike ==
    ASSUME NEW size, NEW a, NEW n, NEW q, Rests(size, a, n, q), NEW z, z = 4 * size
    PROVE  (n - q) % z = n % z
<1>0. size \in {2, 4} /\ a \in Nat /\ n \in Nat /\ q = 4 * (a * size)
  BY DEF Rests
<1>1. CASE size = 2
  <2>1. q = 8 * a /\ z = 8
    BY <1>0, <1>1
  <2>2. (n - 8 * a) % 8 = n % 8
    BY <1>0
  <2> QED
    BY <2>1, <2>2
<1>2. CASE size = 4
  <2>1. q = 16 * a /\ z = 16
    BY <1>0, <1>2
  <2>2. (n - 16 * a) % 16 = n % 16
    BY <1>0
  <2> QED
    BY <2>1, <2>2
<1> QED
  BY <1>0, <1>1, <1>2

LEMMA PadOfRest ==
    ASSUME NEW padding, NEW m, NEW n, NEW size, NEW fill, m % size = n % size
    PROVE  PadOf(padding, m, size, fill) = PadOf(padding, n, size, fill)
  BY DEF PadOf

\* What is put after a message before the last block is encrypted.
PadBytesOf(c, whole, fill) ==
    IF c.cipher \in BlockCipherNames THEN PadOf(c.cfg.padding, Len(whole), 4 * CipherBlockSize(c.cipher), fill) ELSE <<>>
Pads(c, whole, fill, P) ==
    /\ c.cipher \in CipherNames /\ whole \in Seq(Byte) /\ fill \in Word32
    /\ c.cipher \in BlockCipherNames => c.cfg.padding \in PaddingNames
    /\ P = whole \o PadBytesOf(c, whole, fill)
PadsTo(c, whole, fill, P, p, size) ==
    /\ p \in Seq(Byte) /\ P \in Seq(Byte) /\ P = whole \o p /\ Len(P) = Len(whole) + Len(p)
    /\ Len(p) \in Nat /\ Len(whole) \in Nat
    /\ c.cipher \in BlockCipherNames =>
         /\ p = PadOf(c.cfg.padding, Len(whole), size, fill) /\ size \in {8, 16} /\ Len(p) <= size
         /\ c.cfg.padding = "ZeroPadding" => Len(p) < size
         /\ c.cfg.padding # "NoPadding" => (Len(whole) + Len(p)) % size = 0
         /\ c.cfg.padding = "NoPadding" => Len(p) = 0
    /\ c.cipher \notin BlockCipherNames => p = <<>> /\ P = whole

LEMMA PadsAre ==
    ASSUME NEW c, NEW whole, NEW fill, NEW P, Pads(c, whole, fill, P), NEW p, p = PadBytesOf(c, whole, fill),
           NEW size, size = 4 * CipherBlockSize(c.cipher)
    PROVE  PadsTo(c, whole, fill, P, p, size)
<1>1. /\ c.cipher \in CipherNames /\ whole \in Seq(Byte) /\ fill \in Word32
      /\ c.cipher \in BlockCipherNames => c.cfg.padding \in PaddingNames
      /\ P = whole \o p
  BY DEF Pads
<1>2. CASE c.cipher \in BlockCipherNames
  <2>1. size \in {8, 16}
    <3>1. CipherBlockSize(c.cipher) \in {2, 4}
      BY <1>2, CipherSizes
    <3> QED
      BY <3>1
  <2>2. p = PadOf(c.cfg.padding, Len(whole), size, fill)
    BY <1>2, Zenon DEF PadBytesOf
  <2> DEFINE r == Len(whole)
             padding == c.cfg.padding
  <2>3. r \in Nat /\ padding \in PaddingNames
    BY <1>1, <1>2
  <2> HIDE DEF r, padding
  <2>4. /\ p \in Seq(Byte) /\ Len(p) <= size
        /\ padding # "NoPadding" => (r + Len(p)) % size = 0
        /\ padding = "NoPadding" => Len(p) = 0
        /\ padding = "ZeroPadding" => Len(p) < size
    BY <1>1, <2>1, <2>2, <2>3, PadOfTyped DEF r, padding
  <2>5. P \in Seq(Byte) /\ Len(P) = r + Len(p) /\ Len(p) \in Nat
    <3>1. P \in Seq(Byte) /\ Len(P) = Len(whole) + Len(p)
      BY <1>1, <2>4, ByteOfJoined, Zenon
    <3> QED
      BY <2>4, <3>1 DEF r
  <2> QED
    BY <1>1, <1>2, <2>1, <2>2, <2>3, <2>4, <2>5, Zenon DEF r, padding, PadsTo
<1>3. CASE c.cipher \notin BlockCipherNames
  <2>1. p = <<>>
    BY <1>3, Zenon DEF PadBytesOf
  <2>2. whole \o <<>> = whole /\ Len(<<>>) = 0 /\ <<>> \in Seq(Byte) /\ Len(whole) \in Nat
    BY <1>1
  <2> QED
    BY <1>1, <1>3, <2>1, <2>2 DEF PadsTo
<1> QED
  BY <1>2, <1>3

\* o, an encryptor, was given t bytes of the message whole, which is padded to
\* P when the rest of them is.
Ends(c, whole, fill, P, f, D, o, a, t, size) ==
    /\ c.forward = TRUE /\ Pads(c, whole, fill, P) /\ Makes(c, P, f, D)
    /\ Come(c, P, f, o, a, t) /\ t <= Len(whole) /\ size = CipherBlockSize(c.cipher)
\* The message is padded when the last of it was given.
LEMMA LastPadded ==
    ASSUME NEW c, NEW whole, NEW fill, NEW P, NEW f, NEW D, NEW o, NEW a, NEW t, NEW size,
           Ends(c, whole, fill, P, f, D, o, a, t, size), NEW q, BlockPlace(q, a, size),
           NEW o2, o2 = PadLast(AppendData(o, OfBytes(SubSeq(whole, t + 1, Len(whole)))), fill)
    PROVE  /\ o2 \in Alike(c) /\ o2.run = f[a] /\ Holds(o2.data, SubSeq(P, q + 1, Len(P)))
           /\ a \in Nat /\ q \in Nat /\ q <= Len(P)
<1>0. /\ c.forward = TRUE /\ Pads(c, whole, fill, P) /\ Makes(c, P, f, D)
      /\ Come(c, P, f, o, a, t) /\ t <= Len(whole) /\ size = CipherBlockSize(c.cipher)
  BY DEF Ends
<1> DEFINE p == PadBytesOf(c, whole, fill)
           n == Len(whole)
<1>1. p = PadBytesOf(c, whole, fill)
  OBVIOUS
<1>2. whole \in Seq(Byte) /\ fill \in Word32 /\ n \in Nat /\ t <= n /\ c.cipher \in CipherNames
      /\ (c.cipher \in BlockCipherNames => c.cfg.padding \in PaddingNames)
  BY <1>0 DEF Pads
<1> HIDE DEF p
<1>3. /\ p \in Seq(Byte) /\ P \in Seq(Byte) /\ P = whole \o p /\ Len(P) = n + Len(p) /\ Len(p) \in Nat
      /\ c.cipher \in BlockCipherNames => p = PadOf(c.cfg.padding, n, 4 * size, fill) /\ 4 * size \in {8, 16}
      /\ c.cipher \notin BlockCipherNames => P = whole
  <2> DEFINE z == 4 * size
  <2>1. z = 4 * CipherBlockSize(c.cipher)
    BY <1>0
  <2> HIDE DEF z
  <2>2. /\ p \in Seq(Byte) /\ P \in Seq(Byte) /\ P = whole \o p /\ Len(P) = Len(whole) + Len(p)
        /\ Len(p) \in Nat /\ Len(whole) \in Nat
        /\ c.cipher \in BlockCipherNames =>
             /\ p = PadOf(c.cfg.padding, Len(whole), z, fill) /\ z \in {8, 16}
        /\ c.cipher \notin BlockCipherNames => P = whole
    <3>1. Pads(c, whole, fill, P)
      BY <1>0
    <3> QED
      <4>1. PadsTo(c, whole, fill, P, p, z)
        BY <1>1, <2>1, <3>1, PadsAre
      <4> QED
        BY <4>1, Zenon DEF PadsTo
  <2> QED
    BY <2>2 DEF z
<1> HIDE DEF n
<1> DEFINE o1 == AppendData(o, OfBytes(SubSeq(whole, t + 1, n)))
<1>4. t \in Nat /\ a \in Nat
  BY <1>0 DEF Come
<1>5. SubSeq(P, t + 1, n) = SubSeq(whole, t + 1, n)
  <2>1. Joins(whole, p, P) /\ Within(t, n, whole)
    BY <1>2, <1>3, <1>4 DEF Joins, Within, n
  <2> QED
    <3>1. Parted(whole, p, P, t, n)
      BY <2>1, PartsOfJoined
    <3> QED
      BY <3>1, Zenon DEF Parted
<1>6. o1 = AppendData(o, OfBytes(SubSeq(P, t + 1, n))) /\ n <= Len(P)
  <2>1. n <= Len(P)
    BY <1>2, <1>3
  <2> QED
    BY <1>5, <2>1, Zenon
<1> HIDE DEF o1
<1>7. /\ o1 \in Alike(c) /\ o1.run = f[a] /\ o1.data = OfBytes(SubSeq(P, q + 1, n))
      /\ a \in Nat /\ t \in Nat /\ q \in Nat /\ q <= t
  BY <1>0, <1>2, <1>6, Appended DEF BlockPlace
<1> DEFINE x == SubSeq(whole, q + 1, n)
<1>8. SubSeq(P, q + 1, n) = x /\ SubSeq(P, q + 1, Len(P)) = x \o p /\ x \in Seq(Byte) /\ Len(x) = n - q /\ q <= n
  <2>1. q <= n
    BY <1>2, <1>7
  <2>2. SubSeq(P, q + 1, n) = x /\ SubSeq(P, q + 1, Len(P)) = x \o p
    <3>1. p \in Seq(Byte) /\ P = whole \o p /\ q \in Nat /\ n \in Nat
          /\ whole \in Seq(Byte) /\ n = Len(whole) /\ n <= Len(whole)
      BY <1>2, <1>3, <1>7 DEF n
    <3> QED
      <4>1. Joins(whole, p, P) /\ Within(q, n, whole)
        BY <2>1, <3>1 DEF Joins, Within
      <4> QED
        <5>1. Parted(whole, p, P, q, n)
          BY <4>1, PartsOfJoined
        <5> QED
          BY <3>1, <5>1, Zenon DEF Parted
  <2>3. x \in Seq(Byte) /\ Len(x) = n - q
    BY <1>2, <1>7, <2>1, PartIs DEF n
  <2> QED
    BY <2>1, <2>2, <2>3
<1> HIDE DEF x
<1>9. o2 = PadLast(o1, fill)
  BY DEF o1, n
<1>10. CASE c.cipher \in BlockCipherNames
  <2> DEFINE d == Padded(c.cfg.padding, o1.data, 4 * size, fill)
  <2>1. o1.cipher = c.cipher /\ o1.forward = TRUE /\ o1.cfg = c.cfg
    BY <1>0, <1>7 DEF Alike
  <2>2. o2 = [o1 EXCEPT !.data = d]
    BY <1>0, <1>9, <1>10, <2>1 DEF PadLast
  <2>3. d = Padded(c.cfg.padding, OfBytes(x), 4 * size, fill)
    BY <1>7, <1>8
  <2> HIDE DEF d
  <2>4. Holds(d, x \o PadOf(c.cfg.padding, Len(x), 4 * size, fill))
    <3> DEFINE z == 4 * size
    <3>1. z \in {8, 16} /\ d = Padded(c.cfg.padding, OfBytes(x), z, fill)
      BY <1>3, <1>10, <2>3
    <3> HIDE DEF z
    <3>2. Holds(d, x \o PadOf(c.cfg.padding, Len(x), z, fill))
      BY <1>2, <1>8, <1>10, <3>1, PaddedHolds
    <3> QED
      BY <3>2 DEF z
  <2>5. PadOf(c.cfg.padding, Len(x), 4 * size, fill) = p
    <3>1. size \in {2, 4}
      BY <1>0, <1>10, CipherSizes
    <3>2. (n - q) % (4 * size) = n % (4 * size)
      <4> DEFINE z == 4 * size
      <4>1. Rests(size, a, n, q)
        BY <1>2, <1>7, <1>8, <3>1 DEF BlockPlace, Rests
      <4>2. z = 4 * size
        OBVIOUS
      <4> HIDE DEF z
      <4>3. (n - q) % z = n % z
        BY <4>1, <4>2, RestsAlike
      <4> QED
        BY <4>3 DEF z
    <3> DEFINE z == 4 * size
    <3>3. Len(x) % z = n % z
      BY <1>8, <3>2
    <3> HIDE DEF z
    <3>4. PadOf(c.cfg.padding, Len(x), z, fill) = PadOf(c.cfg.padding, n, z, fill)
      BY <3>3, PadOfRest
    <3> QED
      BY <1>3, <1>10, <3>4 DEF z
  <2>6. Holds(d, SubSeq(P, q + 1, Len(P)))
    BY <1>8, <2>4, <2>5
  <2>7. d \in Arrays
    BY <2>6 DEF Holds
  <2>8. o2 \in Alike(c) /\ o2.run = o1.run /\ o2.data = d
    BY <1>7, <2>2, <2>7 DEF Alike
  <2> QED
    <3>1. q <= Len(P)
      BY <1>2, <1>3, <1>7, <1>8
    <3> QED
      BY <1>7, <2>6, <2>8, <3>1, Zenon
<1>11. CASE c.cipher \notin BlockCipherNames
  <2>1. o2 = o1
    BY <1>7, <1>9, <1>11 DEF PadLast, Alike
  <2>2. P = whole /\ n = Len(P)
    BY <1>3, <1>11 DEF n
  <2>3. Holds(o1.data, x)
    BY <1>7, <1>8, HoldsOfBytes
  <2> QED
    BY <1>7, <1>8, <2>1, <2>2, <2>3
<1> QED
  BY <1>10, <1>11

\* An encryptor that is finalized returns what it had not returned of the
\* cipher text.
LEMMA EncryptorFinishes ==
    ASSUME NEW c, NEW whole, NEW fill, NEW P, NEW f, NEW D, NEW o, NEW a, NEW t, NEW size,
           Ends(c, whole, fill, P, f, D, o, a, t, size), NEW q, BlockPlace(q, a, size),
           NEW r, r = FinalizeCipher(o, OfBytes(SubSeq(whole, t + 1, Len(whole))), fill)
    PROVE  r.out \in Arrays /\ Bytes(r.out) = SubSeq(Bytes(WordArray(D, Len(P))), q + 1, Len(P))
<1> DEFINE o2 == PadLast(AppendData(o, OfBytes(SubSeq(whole, t + 1, Len(whole)))), fill)
           s == ProcessCipher(o2, TRUE)
<1>1. r = UnpadLast(s)
  BY DEF FinalizeCipher
<1>2. o2 = PadLast(AppendData(o, OfBytes(SubSeq(whole, t + 1, Len(whole)))), fill)
  OBVIOUS
<1> HIDE DEF o2
<1>3. /\ o2 \in Alike(c) /\ o2.run = f[a] /\ Holds(o2.data, SubSeq(P, q + 1, Len(P)))
      /\ a \in Nat /\ q \in Nat /\ q <= Len(P)
  BY <1>2, LastPadded
<1>4. Flushes(c, P, f, D, size, o2, a)
  <2>1. Behind(a, size, Len(P)) /\ LeftToDo(o2, P, a, size)
    BY <1>3, Zenon DEF Behind, LeftToDo, BlockPlace
  <2> QED
    BY <1>3, <2>1, Zenon DEF Flushes, Ends
<1>5. s = ProcessCipher(o2, TRUE)
  OBVIOUS
<1> HIDE DEF s
<1>6. Returns(s, c, SubSeq(Bytes(WordArray(D, Len(P))), q + 1, Len(P)))
  BY <1>4, <1>5, FlushIs
<1>7. s.o.forward = TRUE /\ s.out \in Arrays /\ Bytes(s.out) = SubSeq(Bytes(WordArray(D, Len(P))), q + 1, Len(P))
  BY <1>6, Zenon DEF Returns, Ends
<1>8. UnpadLast(s) = s
  BY <1>7 DEF UnpadLast
<1> QED
  BY <1>1, <1>7, <1>8, Zenon

\* A decryptor: g and P2 are what it makes of the cipher text E of the padded
\* bytes P.
Recovers(c, whole, fill, P, E, g, P2) ==
    /\ c.forward = FALSE /\ Pads(c, whole, fill, P) /\ Makes(c, E, g, P2)
    /\ Len(E) = Len(P) /\ Bytes(WordArray(P2, Len(E))) = P
    /\ c.cipher \in BlockCipherNames /\ c.cfg.padding = "ZeroPadding" => NoZeroEnd(whole)
\* A block cipher has a block kept back unless it has done none.
KeptBack(c, a, t) ==
    c.cipher \in BlockCipherNames => a = 0 \/ 4 * ((a + 1) * CipherBlockSize(c.cipher)) <= t

LEMMA KeptIsBehind ==
    ASSUME NEW c, NEW whole, NEW fill, NEW P, Pads(c, whole, fill, P), NEW a \in Nat, NEW t \in Nat, t <= Len(P), KeptBack(c, a, t),
           NEW q, q = 4 * (a * CipherBlockSize(c.cipher)), q <= t,
           c.cipher \in BlockCipherNames /\ c.cfg.padding = "ZeroPadding" => NoZeroEnd(whole)
    PROVE  /\ q \in Nat /\ q <= Len(whole)
           /\ c.cipher \in BlockCipherNames /\ c.cfg.padding = "ZeroPadding" => q < Len(whole)
<1> DEFINE size == CipherBlockSize(c.cipher)
           p == PadBytesOf(c, whole, fill)
           z == 4 * size
<1>1. p = PadBytesOf(c, whole, fill) /\ z = 4 * CipherBlockSize(c.cipher)
  OBVIOUS
<1>2. size \in {1, 2, 4}
  BY CipherSizes DEF Pads
<1> HIDE DEF size
<1>3. q = 4 * (a * size) /\ a * size \in Nat
  BY <1>2, CipherPlaces DEF size
<1>4. (a + 1) * size = a * size + size
  BY <1>2, CipherPlaces
<1> DEFINE e == a * size
           e1 == (a + 1) * size
<1>5. q = 4 * e /\ e \in Nat /\ e1 = e + size
  BY <1>3, <1>4
<1>6. KeptBack(c, a, t) => (c.cipher \in BlockCipherNames => a = 0 \/ 4 * e1 <= t)
  BY DEF KeptBack, size
<1>0. a = 0 => e = 0
  BY <1>2
<1> HIDE DEF p, z, e, e1
<1>7. /\ P \in Seq(Byte) /\ Len(P) = Len(whole) + Len(p) /\ Len(p) \in Nat /\ Len(whole) \in Nat
      /\ c.cipher \in BlockCipherNames => Len(p) <= z /\ (c.cfg.padding = "ZeroPadding" => Len(p) < z)
      /\ c.cipher \notin BlockCipherNames => P = whole
  <2>1. PadsTo(c, whole, fill, P, p, z)
    BY <1>1, PadsAre
  <2> QED
    BY <2>1, Zenon DEF PadsTo
<1>8. z = 4 * size
  BY DEF z, size
<1>9. CASE c.cipher \notin BlockCipherNames
  BY <1>5, <1>7, <1>9
<1>10. CASE c.cipher \in BlockCipherNames /\ a = 0
  <2>1. q = 0
    BY <1>0, <1>5, <1>10
  <2>2. NoZeroEnd(whole) => Len(whole) > 0
    <3>1. whole \in Seq(Byte)
      BY DEF Pads
    <3> QED
      BY <3>1 DEF NoZeroEnd
  <2> QED
    BY <1>7, <2>1, <2>2
<1>11. CASE c.cipher \in BlockCipherNames /\ 4 * e1 <= t
  BY <1>2, <1>5, <1>7, <1>8, <1>11
<1> QED
  BY <1>6, <1>9, <1>10, <1>11

\* What pads the message pads the rest of it from a block on too.
RestOf(c, whole, fill, P, a, q, x, p, z) ==
    /\ Pads(c, whole, fill, P) /\ a \in Nat /\ BlockPlace(q, a, CipherBlockSize(c.cipher))
    /\ q \in Nat /\ q <= Len(whole) /\ x = SubSeq(whole, q + 1, Len(whole))
    /\ p = PadBytesOf(c, whole, fill) /\ z = 4 * CipherBlockSize(c.cipher)
RestPadded(c, whole, fill, P, q, x, p, z) ==
    /\ x \in Seq(Byte) /\ Len(x) = Len(whole) - q /\ p \in Seq(Byte) /\ fill \in Word32
    /\ SubSeq(P, q + 1, Len(P)) = x \o p
    /\ c.cipher \in BlockCipherNames =>
         p = PadOf(c.cfg.padding, Len(x), z, fill) /\ z \in {8, 16} /\ c.cfg.padding \in PaddingNames
    /\ c.cipher \notin BlockCipherNames => SubSeq(P, q + 1, Len(P)) = x

LEMMA RestIsPadded ==
    ASSUME NEW c, NEW whole, NEW fill, NEW P, NEW a, NEW q, NEW x, NEW p, NEW z,
           RestOf(c, whole, fill, P, a, q, x, p, z)
    PROVE  RestPadded(c, whole, fill, P, q, x, p, z)
<1>1. /\ Pads(c, whole, fill, P) /\ p = PadBytesOf(c, whole, fill) /\ z = 4 * CipherBlockSize(c.cipher)
      /\ q \in Nat /\ q <= Len(whole) /\ x = SubSeq(whole, q + 1, Len(whole)) /\ a \in Nat
  BY DEF RestOf
<1>2. PadsTo(c, whole, fill, P, p, z)
  BY <1>1, PadsAre
<1>3. /\ p \in Seq(Byte) /\ P = whole \o p /\ Len(whole) \in Nat
      /\ c.cipher \in BlockCipherNames => p = PadOf(c.cfg.padding, Len(whole), z, fill) /\ z \in {8, 16}
      /\ c.cipher \notin BlockCipherNames => P = whole
  BY <1>2, Zenon DEF PadsTo
<1>4. whole \in Seq(Byte) /\ fill \in Word32 /\ (c.cipher \in BlockCipherNames => c.cfg.padding \in PaddingNames)
  BY <1>1 DEF Pads
<1>5. SubSeq(P, q + 1, Len(P)) = x \o p
  <2> DEFINE n == Len(whole)
  <2>1. Joins(whole, p, P) /\ Within(q, n, whole)
    BY <1>1, <1>3, <1>4 DEF Joins, Within
  <2>2. Parted(whole, p, P, q, n)
    BY <2>1, PartsOfJoined
  <2> QED
    BY <1>1, <2>2, Zenon DEF Parted
<1>6. x \in Seq(Byte) /\ Len(x) = Len(whole) - q
  BY <1>1, <1>3, <1>4, PartIs
<1>7. c.cipher \in BlockCipherNames => PadOf(c.cfg.padding, Len(x), z, fill) = PadOf(c.cfg.padding, Len(whole), z, fill)
  <2> HAVE c.cipher \in BlockCipherNames
  <2> DEFINE size == CipherBlockSize(c.cipher)
  <2>1. size \in {2, 4}
    BY CipherSizes
  <2>2. Rests(size, a, Len(whole), q) /\ z = 4 * size
    BY <1>1, <1>3, <2>1 DEF Rests, RestOf, BlockPlace
  <2> HIDE DEF size
  <2>3. (Len(whole) - q) % z = Len(whole) % z
    BY <2>2, RestsAlike
  <2>4. Len(x) % z = Len(whole) % z
    BY <1>6, <2>3, Zenon
  <2> QED
    BY <2>4, PadOfRest
<1>8. c.cipher \notin BlockCipherNames => SubSeq(P, q + 1, Len(P)) = x
  BY <1>1, <1>3, Zenon
<1> QED
  BY <1>3, <1>4, <1>5, <1>6, <1>7, <1>8, Zenon DEF RestPadded

\* A decryptor that is finalized returns what it had not returned of the
\* message.
Closes(c, whole, fill, P, E, g, P2, o, a, t, q) ==
    /\ Recovers(c, whole, fill, P, E, g, P2) /\ Come(c, E, g, o, a, t) /\ KeptBack(c, a, t)
    /\ BlockPlace(q, a, CipherBlockSize(c.cipher))

LEMMA FlushedLast ==
    ASSUME NEW c, NEW whole, NEW fill, NEW P, NEW E, NEW g, NEW P2, NEW o, NEW a, NEW t, NEW q,
           Closes(c, whole, fill, P, E, g, P2, o, a, t, q), NEW x,
           NEW s, s = ProcessCipher(PadLast(AppendData(o, OfBytes(SubSeq(E, t + 1, Len(E)))), x), TRUE)
    PROVE  Returns(s, c, SubSeq(P, q + 1, Len(P))) /\ a \in Nat /\ q \in Nat /\ t \in Nat /\ q <= t /\ t <= Len(P)
<1> DEFINE o1 == AppendData(o, OfBytes(SubSeq(E, t + 1, Len(E))))
           size == CipherBlockSize(c.cipher)
<1>1. /\ c.forward = FALSE /\ Makes(c, E, g, P2) /\ Len(E) = Len(P) /\ Bytes(WordArray(P2, Len(E))) = P
      /\ Come(c, E, g, o, a, t) /\ BlockPlace(q, a, CipherBlockSize(c.cipher))
  BY DEF Closes, Recovers
<1>2. Len(E) \in Nat /\ t <= Len(E) /\ E \in Seq(Byte)
  BY <1>1 DEF Come, Makes
<1>3. o1 = AppendData(o, OfBytes(SubSeq(E, t + 1, Len(E)))) /\ q = 4 * (a * CipherBlockSize(c.cipher)) /\ Len(E) <= Len(E)
  BY <1>1, <1>2 DEF BlockPlace
<1> HIDE DEF o1, size
<1>4. /\ o1 \in Alike(c) /\ o1.run = g[a] /\ o1.data = OfBytes(SubSeq(E, q + 1, Len(E)))
      /\ a \in Nat /\ t \in Nat /\ q \in Nat /\ q <= t
  BY <1>1, <1>2, <1>3, Appended
<1>5. PadLast(o1, x) = o1
  BY <1>1, <1>4 DEF PadLast, Alike
<1>6. s = ProcessCipher(o1, TRUE)
  BY <1>5 DEF o1
<1>7. Holds(o1.data, SubSeq(E, q + 1, Len(E)))
  <2>1. SubSeq(E, q + 1, Len(E)) \in Seq(Byte)
    <3>1. q <= Len(E) /\ Len(E) <= Len(E)
      BY <1>2, <1>4
    <3> QED
      BY <1>2, <1>4, <3>1, PartIs
  <2> QED
    BY <1>4, <2>1, HoldsOfBytes
<1>8. Flushes(c, E, g, P2, size, o1, a) /\ BlockPlace(q, a, size)
  <2>1. LeftToDo(o1, E, a, size)
    BY <1>3, <1>7, Zenon DEF LeftToDo, size
  <2>2. Behind(a, size, Len(E))
    <3>1. q <= Len(E)
      BY <1>2, <1>4
    <3> QED
      BY <1>3, <3>1, Zenon DEF Behind, size
  <2> QED
    BY <1>1, <1>4, <2>1, <2>2, Zenon DEF Flushes, size
<1>9. Returns(s, c, SubSeq(Bytes(WordArray(P2, Len(E))), q + 1, Len(E)))
  BY <1>6, <1>8, FlushIs
<1> QED
  BY <1>1, <1>2, <1>4, <1>9, Zenon

LEMMA LastOfRest ==
    ASSUME NEW whole \in Seq(Byte), NEW q \in Nat, q < Len(whole), NEW x, x = SubSeq(whole, q + 1, Len(whole)), NoZeroEnd(whole)
    PROVE  NoZeroEnd(x)
<1>1. x \in Seq(Byte) /\ Len(x) = Len(whole) - q /\ \A i \in 1 .. Len(whole) - q : x[i] = whole[q + i]
  BY PartIs
<1> DEFINE n == Len(whole) - q
<1>2. n \in 1 .. n /\ q + n = Len(whole) /\ Len(x) = n
  BY <1>1
<1>3. x[n] = whole[Len(whole)]
  BY <1>1, <1>2
<1>4. x # <<>>
  <2>1. Len(x) # 0
    <3> HIDE DEF n
    <3>1. \A i \in 1 .. n : i # 0 /\ n > 0
      BY <1>2
    <3> QED
      BY <1>2, <3>1
  <2>2. Len(<<>>) = 0
    OBVIOUS
  <2> QED
    BY <2>1, <2>2, Zenon
<1> QED
  BY <1>2, <1>3, <1>4 DEF NoZeroEnd

Finishes(r, y) == r.out \in Arrays /\ Bytes(r.out) = y
LEMMA DecryptorFinishes ==
    ASSUME NEW c, NEW whole, NEW fill, NEW P, NEW E, NEW g, NEW P2, NEW o, NEW a, NEW t, NEW q,
           Closes(c, whole, fill, P, E, g, P2, o, a, t, q), NEW x,
           NEW r, r = FinalizeCipher(o, OfBytes(SubSeq(E, t + 1, Len(E))), x)
    PROVE  Finishes(r, SubSeq(whole, q + 1, Len(whole))) /\ q \in Nat /\ q <= Len(whole)
<1> DEFINE s == ProcessCipher(PadLast(AppendData(o, OfBytes(SubSeq(E, t + 1, Len(E)))), x), TRUE)
           y == SubSeq(whole, q + 1, Len(whole))
           p == PadBytesOf(c, whole, fill)
           z == 4 * CipherBlockSize(c.cipher)
<1>1. r = UnpadLast(s)
  BY DEF FinalizeCipher
<1>2. s = ProcessCipher(PadLast(AppendData(o, OfBytes(SubSeq(E, t + 1, Len(E)))), x), TRUE)
  OBVIOUS
<1>3. p = PadBytesOf(c, whole, fill) /\ z = 4 * CipherBlockSize(c.cipher) /\ y = SubSeq(whole, q + 1, Len(whole))
  OBVIOUS
<1> HIDE DEF s, y, p, z
<1>4. Returns(s, c, SubSeq(P, q + 1, Len(P))) /\ a \in Nat /\ q \in Nat /\ t \in Nat /\ q <= t /\ t <= Len(P)
  BY <1>2, FlushedLast
<1>5. /\ c.forward = FALSE /\ Pads(c, whole, fill, P) /\ KeptBack(c, a, t) /\ BlockPlace(q, a, CipherBlockSize(c.cipher))
      /\ c.cipher \in BlockCipherNames /\ c.cfg.padding = "ZeroPadding" => NoZeroEnd(whole)
  BY DEF Closes, Recovers
<1>6. /\ q <= Len(whole)
      /\ c.cipher \in BlockCipherNames /\ c.cfg.padding = "ZeroPadding" => q < Len(whole)
  BY <1>4, <1>5, KeptIsBehind DEF BlockPlace
<1>7. RestPadded(c, whole, fill, P, q, y, p, z)
  <2>1. RestOf(c, whole, fill, P, a, q, y, p, z)
    BY <1>3, <1>4, <1>5, <1>6, Zenon DEF RestOf
  <2> QED
    BY <2>1, RestIsPadded
<1>8. s.o.cipher = c.cipher /\ s.o.forward = FALSE /\ s.o.cfg = c.cfg /\ s.out \in Arrays
      /\ Bytes(s.out) = SubSeq(P, q + 1, Len(P)) /\ \E x0, y0 : s = [o |-> x0, out |-> y0]
  BY <1>4, <1>5, Zenon DEF Returns
<1>9. CASE c.cipher \notin BlockCipherNames
  <2>1. UnpadLast(s) = s
    BY <1>8, <1>9 DEF UnpadLast
  <2>2. Bytes(s.out) = y
    BY <1>7, <1>8, <1>9, Zenon DEF RestPadded
  <2> QED
    BY <1>1, <1>3, <1>4, <1>6, <1>8, <2>1, <2>2, Zenon DEF Finishes
<1>10. CASE c.cipher \in BlockCipherNames
  <2> DEFINE v == Unpadded(c.cfg.padding, s.out)
  <2>1. UnpadLast(s).out = v
    BY <1>8, <1>10 DEF UnpadLast
  <2>2. /\ y \in Seq(Byte) /\ p = PadOf(c.cfg.padding, Len(y), z, fill) /\ z \in {8, 16} /\ c.cfg.padding \in PaddingNames
        /\ fill \in Word32 /\ Bytes(s.out) = y \o p
    BY <1>7, <1>8, <1>10, Zenon DEF RestPadded
  <2>3. c.cfg.padding = "ZeroPadding" => NoZeroEnd(y)
    <3> SUFFICES ASSUME c.cfg.padding = "ZeroPadding" PROVE NoZeroEnd(y)
      OBVIOUS
    <3>1. whole \in Seq(Byte)
      BY <1>5 DEF Pads
    <3>2. q \in Nat /\ q < Len(whole) /\ NoZeroEnd(whole)
      BY <1>4, <1>5, <1>6, <1>10, Zenon
    <3> QED
      BY <1>3, <3>1, <3>2, LastOfRest, Zenon
  <2>4. v \in Arrays /\ Bytes(v) = y
    <3>1. PaddedBy(c.cfg.padding, z, y, fill, p, s.out)
      BY <1>8, <2>2, <2>3, Zenon DEF PaddedBy
    <3>2. IsArrayOf(v, y)
      BY <3>1, UnpaddedAt
    <3> QED
      BY <3>2, Zenon DEF IsArrayOf
  <2> HIDE DEF v
  <2> QED
    BY <1>1, <1>3, <1>4, <1>6, <2>1, <2>4, Zenon DEF Finishes
<1> QED
  BY <1>9, <1>10

-----------------------------------------------------------------------------
(* What a stream of calls gives *)

\* o, an object like c, was given t of the bytes b and has returned out.
Progress(c, b, f, D, o, t, out) ==
    /\ Makes(c, b, f, D) /\ out \in Arrays
    /\ \E a, q : /\ Come(c, b, f, o, a, t) /\ (c.forward = FALSE => KeptBack(c, a, t))
                 /\ BlockPlace(q, a, CipherBlockSize(c.cipher))
                 /\ Bytes(out) = SubSeq(Bytes(WordArray(D, Len(b))), 1, q)

LEMMA PlaceIs ==
    ASSUME NEW c, c.cipher \in CipherNames, NEW a \in Nat
    PROVE  \E q \in Nat : BlockPlace(q, a, CipherBlockSize(c.cipher))
<1> DEFINE size == CipherBlockSize(c.cipher)
<1>1. size \in {1, 2, 4}
  BY CipherSizes
<1> HIDE DEF size
<1>2. a * size \in Nat
  BY <1>1, CipherPlaces
<1>3. 4 * (a * size) \in Nat
  BY <1>2
<1> QED
  BY <1>3, Zenon DEF BlockPlace, size

LEMMA MadeBytes ==
    ASSUME NEW c, NEW b, NEW f, NEW D, Makes(c, b, f, D), NEW e, e = Bytes(WordArray(D, Len(b)))
    PROVE  e \in Seq(Byte) /\ Len(e) = Len(b) /\ Len(b) \in Nat /\ c.cipher \in CipherNames /\ b \in Seq(Byte)
<1>1. D \in Chain /\ Len(b) \in Nat
  BY MakesSizes
<1>2. Counts(D, Len(b), e)
  BY <1>1, CountedBytes
<1> QED
  BY <1>1, <1>2 DEF Counts, Makes

\* Before it is given anything.
LEMMA ProgressStarts ==
    ASSUME NEW c, NEW b, NEW f, NEW D, Makes(c, b, f, D), NEW o, Come(c, b, f, o, 0, 0)
    PROVE  Progress(c, b, f, D, o, 0, EmptyArray)
<1>1. c.cipher \in CipherNames
  BY DEF Makes
<1>2. PICK q \in Nat : BlockPlace(q, 0, CipherBlockSize(c.cipher))
  BY <1>1, PlaceIs
<1>3. q = 0
  BY <1>1, <1>2, CipherSizes DEF BlockPlace
<1> DEFINE e == Bytes(WordArray(D, Len(b)))
<1>4. e \in Seq(Byte)
  BY MadeBytes
<1> HIDE DEF e
<1>5. SubSeq(e, 1, 0) = <<>>
  BY <1>4, WholePart
<1>6. EmptyArray \in Arrays /\ Bytes(EmptyArray) = <<>>
  <2>1. EmptyArray \in Arrays
    BY EmptyTyped
  <2>2. Bytes(EmptyArray) \in Seq(Byte) /\ Len(Bytes(EmptyArray)) = 0
    BY <2>1, BytesIs DEF EmptyArray, WordArray
  <2> QED
    BY <2>1, <2>2
<1>7. KeptBack(c, 0, 0)
  BY DEF KeptBack
<1>8. Bytes(EmptyArray) = SubSeq(e, 1, q)
  BY <1>3, <1>5, <1>6
<1> QED
  BY <1>2, <1>6, <1>7, <1>8, Zenon DEF Progress, e


\* One call of process.
ProgressFed(c, b, f, D, o, t, out, u) ==
    Progress(c, b, f, D, o, t, out) /\ u \in Nat /\ t <= u /\ u <= Len(b)

LEMMA KeptOnes ==
    ASSUME NEW c, NEW a, NEW t, NEW m \in Nat, NEW u \in Nat, t \in Nat, a \in Nat, t <= u, c.forward = FALSE, KeptBack(c, a, t),
           m > 0 /\ MinBufferSize(c) = 1 => 4 * (((a + m) + 1) * CipherBlockSize(c.cipher)) <= u
    PROVE  KeptBack(c, a + m, u)
<1> SUFFICES ASSUME c.cipher \in BlockCipherNames
             PROVE  a + m = 0 \/ 4 * (((a + m) + 1) * CipherBlockSize(c.cipher)) <= u
  BY DEF KeptBack
<1>1. MinBufferSize(c) = 1
  BY DEF MinBufferSize
<1>2. CASE m > 0
  BY <1>1, <1>2, Zenon
<1>3. CASE m = 0
  <2>1. a + m = a
    BY <1>3
  <2>2. CASE a = 0
    BY <2>1, <2>2
  <2>3. CASE a # 0
    <3> DEFINE z == 4 * ((a + 1) * CipherBlockSize(c.cipher))
    <3>1. z <= t
      BY <2>3, Zenon DEF KeptBack
    <3>2. z \in Int
      <4>1. CipherBlockSize(c.cipher) \in {1, 2, 4}
        BY CipherSizes
      <4> QED
        BY <4>1
    <3> HIDE DEF z
    <3>3. z <= u
      BY <3>1, <3>2
    <3> QED
      BY <2>1, <3>3, Zenon DEF z
  <2> QED
    BY <2>2, <2>3
<1> QED
  BY <1>2, <1>3

LEMMA ProgressFeeds ==
    ASSUME NEW c, NEW b, NEW f, NEW D, NEW o, NEW t, NEW out, NEW u, ProgressFed(c, b, f, D, o, t, out, u),
           NEW r, r = Feed(o, OfBytes(SubSeq(b, t + 1, u)))
    PROVE  Progress(c, b, f, D, r.o, u, Concat(out, r.out))
<1> DEFINE e == Bytes(WordArray(D, Len(b)))
<1>1. Makes(c, b, f, D) /\ out \in Arrays /\ u \in Nat /\ t <= u /\ u <= Len(b)
  BY Zenon DEF Progress, ProgressFed
<1>2. PICK a, p0 : /\ Come(c, b, f, o, a, t) /\ (c.forward = FALSE => KeptBack(c, a, t))
                  /\ BlockPlace(p0, a, CipherBlockSize(c.cipher))
                  /\ Bytes(out) = SubSeq(e, 1, p0)
  BY Zenon DEF Progress, ProgressFed
<1>3. e \in Seq(Byte) /\ Len(e) = Len(b) /\ Len(b) \in Nat
  BY <1>1, MadeBytes
<1> HIDE DEF e
<1>4. t \in Nat /\ a \in Nat
  BY <1>2 DEF Come
<1>5. u \in t .. Len(b)
  BY <1>1, <1>3, <1>4
<1>6. PICK m, p, q : GoesOn(c, b, f, D, a, u, r, m, p, q)
  BY <1>1, <1>2, <1>5, FeedIs
<1>7. /\ m \in Nat /\ Come(c, b, f, r.o, a + m, u) /\ r.out \in Arrays
      /\ p \in Nat /\ q \in Nat /\ p <= q /\ q <= u
      /\ BlockPlace(p, a, CipherBlockSize(c.cipher)) /\ BlockPlace(q, a + m, CipherBlockSize(c.cipher))
      /\ (m > 0 /\ MinBufferSize(c) = 1 => 4 * (((a + m) + 1) * CipherBlockSize(c.cipher)) <= u)
      /\ Bytes(r.out) = SubSeq(e, p + 1, q)
  BY <1>6, Zenon DEF GoesOn, e
<1>8. p0 = p
  BY <1>2, <1>7, Zenon DEF BlockPlace
<1>9. c.forward = FALSE => KeptBack(c, a + m, u)
  <2> HAVE c.forward = FALSE
  <2>1. KeptBack(c, a, t)
    BY <1>2
  <2> QED
    BY <1>1, <1>4, <1>7, <2>1, KeptOnes
<1>10. Concat(out, r.out) \in Arrays
  BY <1>1, <1>7, ConcatTyped
<1>11. Bytes(Concat(out, r.out)) = Bytes(out) \o Bytes(r.out)
  BY <1>1, <1>7, BytesJoined
<1>12. SubSeq(e, 1, p) \o SubSeq(e, p + 1, q) = SubSeq(e, 1, q)
  <2>1. q <= Len(e) /\ p <= q /\ 0 <= p
    BY <1>1, <1>3, <1>7
  <2>2. SubSeq(e, 0 + 1, p) \o SubSeq(e, p + 1, q) = SubSeq(e, 0 + 1, q)
    BY <1>3, <1>7, <2>1, PartsJoin
  <2>3. 0 + 1 = 1
    OBVIOUS
  <2> QED
    BY <2>2, <2>3
<1>13. Bytes(Concat(out, r.out)) = SubSeq(e, 1, q)
  BY <1>2, <1>7, <1>8, <1>11, <1>12, Zenon
<1> QED
  BY <1>1, <1>7, <1>9, <1>10, <1>13, Zenon DEF Progress, e

LEMMA JoinedParts ==
    ASSUME NEW e \in Seq(Byte), NEW q \in Nat, q <= Len(e), NEW x, NEW y, IsArrayOf(x, SubSeq(e, 1, q)),
           IsArrayOf(y, SubSeq(e, q + 1, Len(e)))
    PROVE  IsArrayOf(Concat(x, y), e)
<1>1. x \in Arrays /\ y \in Arrays /\ Bytes(x) = SubSeq(e, 1, q) /\ Bytes(y) = SubSeq(e, q + 1, Len(e))
  BY Zenon DEF IsArrayOf
<1>2. Concat(x, y) \in Arrays
  BY <1>1, ConcatTyped
<1>3. Bytes(Concat(x, y)) = Bytes(x) \o Bytes(y)
  BY <1>1, BytesJoined
<1>4. SubSeq(e, 1, q) \o SubSeq(e, q + 1, Len(e)) = e
  <2>1. Len(e) \in Nat /\ 0 <= q /\ q <= Len(e) /\ Len(e) <= Len(e)
    OBVIOUS
  <2>2. SubSeq(e, 0 + 1, q) \o SubSeq(e, q + 1, Len(e)) = SubSeq(e, 0 + 1, Len(e))
    BY <2>1, PartsJoin
  <2>3. 0 + 1 = 1
    OBVIOUS
  <2>4. SubSeq(e, 1, Len(e)) = e
    BY WholePart
  <2> QED
    BY <2>2, <2>3, <2>4
<1> QED
  BY <1>1, <1>2, <1>3, <1>4, Zenon DEF IsArrayOf

\* An encryptor: f and D are what it makes of the padded bytes P, and E is the
\* cipher text.
Sends(c, whole, fill, P, f, D, E) ==
    c.forward = TRUE /\ Pads(c, whole, fill, P) /\ Makes(c, P, f, D) /\ E = Bytes(WordArray(D, Len(P)))

LEMMA EncryptorEnds ==
    ASSUME NEW c, NEW whole, NEW fill, NEW P, NEW f, NEW D, NEW E, Sends(c, whole, fill, P, f, D, E),
           NEW o, NEW t, NEW out, Progress(c, P, f, D, o, t, out), t <= Len(whole),
           NEW r, r = FinalizeCipher(o, OfBytes(SubSeq(whole, t + 1, Len(whole))), fill)
    PROVE  IsArrayOf(Concat(out, r.out), E) /\ r.out \in Arrays
<1>1. c.forward = TRUE /\ Pads(c, whole, fill, P) /\ Makes(c, P, f, D) /\ E = Bytes(WordArray(D, Len(P)))
  BY DEF Sends
<1>2. PICK a, q : /\ Come(c, P, f, o, a, t)
                  /\ BlockPlace(q, a, CipherBlockSize(c.cipher))
                  /\ Bytes(out) = SubSeq(Bytes(WordArray(D, Len(P))), 1, q)
  BY Zenon DEF Progress
<1>3. out \in Arrays
  BY DEF Progress
<1> DEFINE size == CipherBlockSize(c.cipher)
           o2 == PadLast(AppendData(o, OfBytes(SubSeq(whole, t + 1, Len(whole)))), fill)
<1>4. Ends(c, whole, fill, P, f, D, o, a, t, size) /\ BlockPlace(q, a, size)
  BY <1>1, <1>2, Zenon DEF Ends
<1>5. o2 = PadLast(AppendData(o, OfBytes(SubSeq(whole, t + 1, Len(whole)))), fill)
  OBVIOUS
<1> HIDE DEF size, o2
<1>6. q \in Nat /\ q <= Len(P)
  BY <1>4, <1>5, LastPadded
<1>7. r.out \in Arrays /\ Bytes(r.out) = SubSeq(Bytes(WordArray(D, Len(P))), q + 1, Len(P))
  <2>1. r.out \in Arrays
    BY <1>4, EncryptorFinishes
  <2>2. Bytes(r.out) = SubSeq(Bytes(WordArray(D, Len(P))), q + 1, Len(P))
    BY <1>4, EncryptorFinishes
  <2> QED
    BY <2>1, <2>2
<1>8. E \in Seq(Byte) /\ Len(E) = Len(P)
  BY <1>1, MadeBytes
<1>9. IsArrayOf(out, SubSeq(E, 1, q)) /\ IsArrayOf(r.out, SubSeq(E, q + 1, Len(E))) /\ q <= Len(E)
  BY <1>1, <1>2, <1>3, <1>6, <1>7, <1>8, Zenon DEF IsArrayOf
<1>10. IsArrayOf(Concat(out, r.out), E)
  BY <1>6, <1>8, <1>9, JoinedParts
<1> QED
  BY <1>7, <1>10

\* Where a decryptor is when it was given t bytes.
LEMMA DecryptorIs ==
    ASSUME NEW c, NEW whole, NEW fill, NEW P, NEW E, NEW g, NEW P2, Recovers(c, whole, fill, P, E, g, P2),
           NEW o, NEW t, NEW out, Progress(c, E, g, P2, o, t, out)
    PROVE  \E a, q : /\ Closes(c, whole, fill, P, E, g, P2, o, a, t, q) /\ q \in Nat /\ q <= Len(whole)
                     /\ IsArrayOf(out, SubSeq(whole, 1, q)) /\ whole \in Seq(Byte)
<1>1. /\ c.forward = FALSE /\ Makes(c, E, g, P2) /\ Len(E) = Len(P) /\ Bytes(WordArray(P2, Len(E))) = P
      /\ Pads(c, whole, fill, P)
  BY DEF Recovers
<1>2. PICK a, q : /\ Come(c, E, g, o, a, t) /\ KeptBack(c, a, t)
                  /\ BlockPlace(q, a, CipherBlockSize(c.cipher))
                  /\ Bytes(out) = SubSeq(P, 1, q)
  BY <1>1, Zenon DEF Progress
<1>3. Closes(c, whole, fill, P, E, g, P2, o, a, t, q)
  BY <1>2, Zenon DEF Closes
<1> DEFINE s == ProcessCipher(PadLast(AppendData(o, OfBytes(SubSeq(E, t + 1, Len(E)))), {}), TRUE)
           r == FinalizeCipher(o, OfBytes(SubSeq(E, t + 1, Len(E))), {})
           p == PadBytesOf(c, whole, fill)
           z == 4 * CipherBlockSize(c.cipher)
<1>4. r = FinalizeCipher(o, OfBytes(SubSeq(E, t + 1, Len(E))), {}) /\ p = PadBytesOf(c, whole, fill) /\ z = 4 * CipherBlockSize(c.cipher)
  OBVIOUS
<1> HIDE DEF s, r, p, z
<1>5. q \in Nat /\ q <= Len(whole)
  BY <1>3, <1>4, DecryptorFinishes
<1>6. PadsTo(c, whole, fill, P, p, z)
  BY <1>1, <1>4, PadsAre
<1>7. whole \in Seq(Byte) /\ p \in Seq(Byte) /\ P = whole \o p
  BY <1>1, <1>6 DEF PadsTo, Pads
<1>8. Joins(whole, p, P) /\ Within(0, q, whole)
  BY <1>5, <1>7 DEF Joins, Within
<1>9. Parted(whole, p, P, 0, q)
  BY <1>8, PartsOfJoined
<1>10. 0 + 1 = 1
  OBVIOUS
<1>11. SubSeq(P, 1, q) = SubSeq(whole, 1, q)
  BY <1>9, <1>10, Zenon DEF Parted
<1>12. out \in Arrays
  BY DEF Progress
<1> QED
  BY <1>2, <1>3, <1>5, <1>7, <1>11, <1>12, Zenon DEF IsArrayOf

LEMMA DecryptorEnds ==
    ASSUME NEW c, NEW whole, NEW fill, NEW P, NEW E, NEW g, NEW P2, Recovers(c, whole, fill, P, E, g, P2),
           NEW o, NEW t, NEW out, Progress(c, E, g, P2, o, t, out), NEW x,
           NEW r, r = FinalizeCipher(o, OfBytes(SubSeq(E, t + 1, Len(E))), x)
    PROVE  IsArrayOf(Concat(out, r.out), whole) /\ r.out \in Arrays
<1>1. PICK a, q : /\ Closes(c, whole, fill, P, E, g, P2, o, a, t, q) /\ q \in Nat /\ q <= Len(whole)
                  /\ IsArrayOf(out, SubSeq(whole, 1, q)) /\ whole \in Seq(Byte)
  BY DecryptorIs
<1>2. Finishes(r, SubSeq(whole, q + 1, Len(whole)))
  BY <1>1, DecryptorFinishes
<1>3. IsArrayOf(r.out, SubSeq(whole, q + 1, Len(whole))) /\ r.out \in Arrays
  BY <1>2, Zenon DEF Finishes, IsArrayOf
<1>4. IsArrayOf(Concat(out, r.out), whole)
  BY <1>1, <1>3, JoinedParts
<1> QED
  BY <1>3, <1>4

LEMMA DecryptorStays ==
    ASSUME NEW c, NEW whole, NEW fill, NEW P, NEW E, NEW g, NEW P2, Recovers(c, whole, fill, P, E, g, P2),
           NEW o, NEW t, NEW out, Progress(c, E, g, P2, o, t, out)
    PROVE  StartsWith(whole, Bytes(out))
<1>1. PICK a, q : /\ Closes(c, whole, fill, P, E, g, P2, o, a, t, q) /\ q \in Nat /\ q <= Len(whole)
                  /\ IsArrayOf(out, SubSeq(whole, 1, q)) /\ whole \in Seq(Byte)
  BY DecryptorIs
<1>2. Bytes(out) = SubSeq(whole, 1, q)
  BY <1>1, Zenon DEF IsArrayOf
<1>3. Len(SubSeq(whole, 0 + 1, q)) = q - 0
  BY <1>1, PartIs
<1>4. Len(Bytes(out)) = q
  BY <1>1, <1>2, <1>3
<1> QED
  BY <1>1, <1>2, <1>4, Zenon DEF StartsWith

\* A message that the cipher, its key and configuration can restore.
Restorable(cipher, key, cfg, whole, fill) ==
    /\ cipher \in CipherNames /\ ProperKey(cipher, key) /\ ProperCfg(cipher, cfg)
    /\ whole \in Seq(Byte) /\ fill \in Word32
    /\ cipher \in BlockCipherNames =>
         /\ Inverts(KeyedCipher(cipher, key))
         /\ cfg.padding = "NoPadding" /\ cfg.mode \in {"CBC", "ECB"} => Len(whole) % (4 * BlockWords(cipher)) = 0
         /\ cfg.padding = "ZeroPadding" => NoZeroEnd(whole)

\* What the two objects of an exchange make: the padded message P, the cipher
\* text E, and the blocks between them.
Exchange(cipher, key, cfg, whole, fill, P, f, D, E, g, P2) ==
    /\ Sends(NewCipher(cipher, TRUE, key, cfg), whole, fill, P, f, D, E)
    /\ Recovers(NewCipher(cipher, FALSE, key, cfg), whole, fill, P, E, g, P2)
    /\ Come(NewCipher(cipher, TRUE, key, cfg), P, f, NewCipher(cipher, TRUE, key, cfg), 0, 0)
    /\ Come(NewCipher(cipher, FALSE, key, cfg), E, g, NewCipher(cipher, FALSE, key, cfg), 0, 0)

LEMMA WholeBlocks ==
    ASSUME NEW size, size \in {1, 2, 4}, NEW N \in Nat, NEW z, z = 4 * size, N % z = 0
    PROVE  InWholeBlocks(size, N)
<1>1. CASE size = 1
  <2>1. N % 4 = 0 /\ BlocksFor(size, N) = (N + 4 - 1) \div 4
    BY <1>1 DEF BlocksFor
  <2>2. N = 4 * ((N + 4 - 1) \div 4)
    BY <2>1
  <2> QED
    BY <1>1, <2>1, <2>2 DEF InWholeBlocks
<1>2. CASE size = 2
  <2>1. N % 8 = 0 /\ BlocksFor(size, N) = (N + 8 - 1) \div 8
    BY <1>2 DEF BlocksFor
  <2>2. N = 8 * ((N + 8 - 1) \div 8)
    BY <2>1
  <2> QED
    BY <1>2, <2>1, <2>2 DEF InWholeBlocks
<1>3. CASE size = 4
  <2>1. N % 16 = 0 /\ BlocksFor(size, N) = (N + 16 - 1) \div 16
    BY <1>3 DEF BlocksFor
  <2>2. N = 16 * ((N + 16 - 1) \div 16)
    BY <2>1
  <2> QED
    BY <1>3, <2>1, <2>2 DEF InWholeBlocks
<1> QED
  BY <1>1, <1>2, <1>3

LEMMA ExchangeExists ==
    ASSUME NEW cipher, NEW key, NEW cfg, NEW whole, NEW fill, Restorable(cipher, key, cfg, whole, fill)
    PROVE  \E P, f, D, E, g, P2 : Exchange(cipher, key, cfg, whole, fill, P, f, D, E, g, P2)
<1> DEFINE enc == NewCipher(cipher, TRUE, key, cfg)
           dec == NewCipher(cipher, FALSE, key, cfg)
           P == whole \o PadBytesOf(enc, whole, fill)
           size == CipherBlockSize(cipher)
           z == 4 * size
           n == BlocksFor(size, Len(P))
<1>0. enc = NewCipher(cipher, TRUE, key, cfg) /\ dec = NewCipher(cipher, FALSE, key, cfg)
  OBVIOUS
<1>1. IsNew(enc, cipher, TRUE, key, cfg) /\ IsNew(dec, cipher, FALSE, key, cfg)
  BY NewCipherIs, Zenon
<1> HIDE DEF enc, dec
<1>2. /\ cipher \in CipherNames /\ ProperKey(cipher, key) /\ ProperCfg(cipher, cfg)
      /\ whole \in Seq(Byte) /\ fill \in Word32
      /\ cipher \in BlockCipherNames =>
           /\ Inverts(KeyedCipher(cipher, key))
           /\ cfg.padding = "NoPadding" /\ cfg.mode \in {"CBC", "ECB"} => Len(whole) % (4 * BlockWords(cipher)) = 0
           /\ cfg.padding = "ZeroPadding" => NoZeroEnd(whole)
  BY Zenon DEF Restorable
<1>3. /\ enc.cipher = cipher /\ enc.forward = TRUE /\ enc.cfg = cfg /\ enc.data = EmptyArray
      /\ dec.cipher = cipher /\ dec.forward = FALSE /\ dec.cfg = cfg /\ dec.data = EmptyArray
  BY <1>1, Zenon DEF IsNew
<1>4. /\ Paired(enc, dec) /\ dec.run = enc.run
      /\ enc \in Alike(enc) /\ dec \in Alike(dec)
  <2>1. cipher \in CipherNames /\ ProperKey(cipher, key) /\ ProperCfg(cipher, cfg)
    BY <1>2, Zenon
  <2>2. cipher \in BlockCipherNames => Inverts(KeyedCipher(cipher, key))
    BY <1>2, Zenon
  <2>3. MadePair(enc, dec, cipher, key, cfg)
    BY <1>0, <2>1, <2>2, Zenon DEF MadePair
  <2>4. PairOf(enc, dec)
    BY <2>3, NewPaired
  <2> QED
    BY <2>4, Zenon DEF PairOf
<1>5. Pads(enc, whole, fill, P) /\ Pads(dec, whole, fill, P)
  <2>1. cipher \in BlockCipherNames => cfg.padding \in PaddingNames
    BY <1>2 DEF ProperCfg
  <2>2. PadBytesOf(dec, whole, fill) = PadBytesOf(enc, whole, fill)
    BY <1>3 DEF PadBytesOf
  <2> QED
    BY <1>2, <1>3, <2>1, <2>2, Zenon DEF Pads
<1>6. Opposite(enc, dec) /\ (cipher \notin BlockCipherNames \/ cfg.mode \notin {"CBC", "ECB"} => Keystreamed(enc, dec))
  <2>1. CASE cipher \in BlockCipherNames
    BY <1>3, <1>4, <2>1, BlockCiphersAreOpposite
  <2>2. CASE cipher \notin BlockCipherNames
    BY <1>3, <1>4, <2>2, StreamsInvert
  <2> QED
    BY <2>1, <2>2
<1>7. z = 4 * CipherBlockSize(enc.cipher) /\ size \in {1, 2, 4} /\ (cipher \in BlockCipherNames => size = BlockWords(cipher))
      /\ size = CipherBlockSize(enc.cipher)
  BY <1>2, <1>3, CipherSizes
<1> DEFINE p == PadBytesOf(enc, whole, fill)
<1>8. p = PadBytesOf(enc, whole, fill)
  OBVIOUS
<1> HIDE DEF P, z, n, p
<1>9. PadsTo(enc, whole, fill, P, p, z)
  BY <1>5, <1>7, <1>8, PadsAre
<1> HIDE DEF size
<1>10. P \in Seq(Byte) /\ Len(P) \in Nat
  BY <1>9 DEF PadsTo
<1>11. InWholeBlocks(size, Len(P)) \/ Keystreamed(enc, dec)
  <2> SUFFICES ASSUME cipher \in BlockCipherNames, cfg.mode \in {"CBC", "ECB"}
               PROVE  InWholeBlocks(size, Len(P))
    BY <1>6, Zenon
  <2>1. /\ Len(P) = Len(whole) + Len(p) /\ Len(whole) \in Nat
        /\ cfg.padding # "NoPadding" => (Len(whole) + Len(p)) % z = 0
        /\ cfg.padding = "NoPadding" => Len(p) = 0
    BY <1>3, <1>9, Zenon DEF PadsTo
  <2>2. cfg.padding = "NoPadding" => Len(whole) % z = 0
    BY <1>2, <1>7, Zenon DEF z
  <2>3. Len(P) % z = 0
    <3>1. CASE cfg.padding = "NoPadding"
      <4>1. Len(P) = Len(whole)
        BY <2>1, <3>1
      <4> QED
        BY <2>2, <3>1, <4>1, Zenon
    <3>2. CASE cfg.padding # "NoPadding"
      BY <2>1, <3>2, Zenon
    <3> QED
      BY <3>1, <3>2
  <2>4. z = 4 * size
    BY DEF z
  <2> QED
    BY <1>7, <1>10, <2>3, <2>4, WholeBlocks
<1>12. BlocksAreProper(enc)
  BY <1>6 DEF Opposite
<1>13. PICK f, D : f[0] = enc.run /\ Makes(enc, P, f, D) /\ Come(enc, P, f, enc, 0, 0)
  BY <1>2, <1>3, <1>4, <1>10, <1>12, MakesExist
<1> DEFINE E == Bytes(WordArray(D, Len(P)))
<1>14. E = Bytes(WordArray(D, Len(P))) /\ n = BlocksFor(size, Len(P))
  BY DEF n
<1> HIDE DEF E
<1>15. Reversible(enc, dec, P, f, D, E, size, n)
  BY <1>6, <1>7, <1>11, <1>13, <1>14, Zenon DEF Reversible
<1>16. PICK g, P2 : g[0] = f[0] /\ Makes(dec, E, g, P2) /\ Bytes(WordArray(P2, Len(P))) = P
  BY <1>15, Inverted
<1>17. Come(dec, E, g, dec, 0, 0)
  BY <1>3, <1>4, <1>13, <1>16, NewComes
<1>18. Len(E) = Len(P)
  BY <1>13, <1>14, MadeBytes
<1>19. Sends(enc, whole, fill, P, f, D, E)
  BY <1>3, <1>5, <1>13, <1>14, Zenon DEF Sends
<1>20. Recovers(dec, whole, fill, P, E, g, P2)
  BY <1>2, <1>3, <1>5, <1>16, <1>18, Zenon DEF Recovers
<1>21. Exchange(cipher, key, cfg, whole, fill, P, f, D, E, g, P2)
  BY <1>13, <1>17, <1>19, <1>20, Zenon DEF Exchange, enc, dec
<1> QED
  BY <1>21, Zenon

-----------------------------------------------------------------------------
(* The calls that encrypt and decrypt at once *)

LEMMA EmptyBytes == EmptyArray \in Arrays /\ Bytes(EmptyArray) = <<>>
<1>1. EmptyArray \in Arrays
  BY EmptyTyped
<1>2. EmptyArray.sigBytes = 0
  BY DEF EmptyArray, WordArray
<1>3. Bytes(EmptyArray) \in Seq(Byte) /\ Len(Bytes(EmptyArray)) = EmptyArray.sigBytes
  BY <1>1, BytesIs
<1> QED
  BY <1>1, <1>2, <1>3

LEMMA NothingBefore ==
    ASSUME NEW v \in Arrays, NEW y, IsArrayOf(Concat(EmptyArray, v), y)
    PROVE  IsArrayOf(v, y)
<1>1. EmptyArray \in Arrays /\ Bytes(EmptyArray) = <<>>
  BY EmptyBytes
<1>2. Bytes(Concat(EmptyArray, v)) = Bytes(EmptyArray) \o Bytes(v)
  BY <1>1, BytesJoined
<1>3. Bytes(v) \in Seq(Byte)
  BY BytesIs
<1>4. Bytes(Concat(EmptyArray, v)) = Bytes(v)
  BY <1>1, <1>2, <1>3
<1> QED
  BY <1>4, Zenon DEF IsArrayOf

LEMMA CallsAtOnce ==
    ASSUME NEW cipher, NEW key, NEW cfg, NEW whole, NEW fill, NEW P, NEW f, NEW D, NEW E, NEW g, NEW P2,
           Exchange(cipher, key, cfg, whole, fill, P, f, D, E, g, P2)
    PROVE  /\ IsArrayOf(EncryptAll(cipher, OfBytes(whole), key, cfg, fill), E)
           /\ IsArrayOf(DecryptAll(cipher, OfBytes(E), key, cfg), whole)
<1> DEFINE enc == NewCipher(cipher, TRUE, key, cfg)
           dec == NewCipher(cipher, FALSE, key, cfg)
           r == FinalizeCipher(enc, OfBytes(SubSeq(whole, 0 + 1, Len(whole))), fill)
           s == FinalizeCipher(dec, OfBytes(SubSeq(E, 0 + 1, Len(E))), {})
<1>0. /\ r = FinalizeCipher(enc, OfBytes(SubSeq(whole, 0 + 1, Len(whole))), fill)
      /\ s = FinalizeCipher(dec, OfBytes(SubSeq(E, 0 + 1, Len(E))), {})
      /\ enc = NewCipher(cipher, TRUE, key, cfg) /\ dec = NewCipher(cipher, FALSE, key, cfg)
  OBVIOUS
<1> HIDE DEF enc, dec, r, s
<1>1. /\ Sends(enc, whole, fill, P, f, D, E) /\ Recovers(dec, whole, fill, P, E, g, P2)
      /\ Come(enc, P, f, enc, 0, 0) /\ Come(dec, E, g, dec, 0, 0)
  BY Zenon DEF Exchange, enc, dec
<1>2. Makes(enc, P, f, D) /\ Pads(enc, whole, fill, P) /\ E = Bytes(WordArray(D, Len(P)))
  BY <1>1, Zenon DEF Sends
<1>3. Makes(dec, E, g, P2)
  BY <1>1, Zenon DEF Recovers
<1>4. whole \in Seq(Byte) /\ E \in Seq(Byte)
  <2>1. whole \in Seq(Byte)
    BY <1>2 DEF Pads
  <2>2. E \in Seq(Byte)
    BY <1>2, MadeBytes
  <2> QED
    BY <2>1, <2>2
<1>5. Progress(enc, P, f, D, enc, 0, EmptyArray) /\ Progress(dec, E, g, P2, dec, 0, EmptyArray)
  <2>1. Progress(enc, P, f, D, enc, 0, EmptyArray)
    BY <1>1, <1>2, ProgressStarts
  <2>2. Progress(dec, E, g, P2, dec, 0, EmptyArray)
    BY <1>1, <1>3, ProgressStarts
  <2> QED
    BY <2>1, <2>2
<1>6. IsArrayOf(Concat(EmptyArray, r.out), E) /\ r.out \in Arrays
  <2>1. 0 <= Len(whole)
    BY <1>4
  <2> QED
    BY <1>0, <1>1, <1>5, <2>1, EncryptorEnds
<1>7. IsArrayOf(Concat(EmptyArray, s.out), whole) /\ s.out \in Arrays
  BY <1>0, <1>1, <1>5, DecryptorEnds
<1>8. IsArrayOf(r.out, E) /\ IsArrayOf(s.out, whole)
  BY <1>6, <1>7, NothingBefore
<1>9. SubSeq(whole, 0 + 1, Len(whole)) = whole /\ SubSeq(E, 0 + 1, Len(E)) = E
  <2>1. 0 + 1 = 1
    OBVIOUS
  <2>2. SubSeq(whole, 1, Len(whole)) = whole /\ SubSeq(E, 1, Len(E)) = E
    BY <1>4, WholePart
  <2> QED
    BY <2>1, <2>2
<1>10. r.out = EncryptAll(cipher, OfBytes(whole), key, cfg, fill) /\ s.out = DecryptAll(cipher, OfBytes(E), key, cfg)
  BY <1>9, Zenon DEF EncryptAll, DecryptAll, r, s, enc, dec
<1>11. /\ IsArrayOf(EncryptAll(cipher, OfBytes(whole), key, cfg, fill), E)
       /\ IsArrayOf(DecryptAll(cipher, OfBytes(E), key, cfg), whole)
  BY <1>8, <1>10, Zenon
<1> QED
  BY <1>11, Zenon

-----------------------------------------------------------------------------
(* The key and the initialization vector that a password gives *)

\* An array of n whole words.
Full(w, n) == w \in Arrays /\ n \in Nat /\ Len(w.words) = n /\ w.sigBytes = 4 * n

LEMMA FullJoined ==
    ASSUME NEW w, NEW m, Full(w, m), NEW v, NEW n, Full(v, n)
    PROVE  Full(Concat(w, v), m + n)
<1>1. /\ w \in Arrays /\ m \in Nat /\ Len(w.words) = m /\ w.sigBytes = 4 * m
      /\ v \in Arrays /\ n \in Nat /\ Len(v.words) = n /\ v.sigBytes = 4 * n
  BY Zenon DEF Full
<1>2. Concat(w, v) \in Arrays /\ Concat(w, v).sigBytes = 4 * (m + n)
  BY <1>1, ConcatTyped
<1> DEFINE x == Clamp(w).words
<1>3. x \in Chain /\ Len(x) = m /\ v.words \in Chain
  <2>1. Clamp(w) \in Arrays /\ Len(x) = WordsFor(4 * m)
    BY <1>1, ClampIs
  <2>2. WordsFor(4 * m) = m
    BY <1>1, WordsForIs, 0 \in Nat
  <2> QED
    BY <1>1, <2>1, <2>2 DEF Arrays
<1>4. Concat(w, v) = WordArray(x \o v.words, w.sigBytes + v.sigBytes)
  <2>1. w.sigBytes % 4 = 0
    BY <1>1
  <2>2. Pushed(v) = v.words
    <3>1. WordsFor(4 * n) = n
      BY <1>1, WordsForIs, 0 \in Nat
    <3> QED
      BY <1>1, <3>1, PushedIs
  <2> QED
    BY <2>1, <2>2, Zenon DEF Concat
<1> HIDE DEF x
<1>5. x \o v.words \in Chain /\ Len(x \o v.words) = m + n
  BY <1>1, <1>3, AtJoined
<1>6. Concat(w, v).words = x \o v.words
  <2>1. w.sigBytes + v.sigBytes \in Nat
    BY <1>1
  <2>2. WordArray(x \o v.words, w.sigBytes + v.sigBytes) = [words |-> x \o v.words, sigBytes |-> w.sigBytes + v.sigBytes]
    BY <1>5, <2>1, ArrayIs
  <2> QED
    BY <1>4, <2>2
<1>7. m + n \in Nat
  BY <1>1
<1> QED
  BY <1>2, <1>5, <1>6, <1>7 DEF Full

\* An MD5 is four words.
LEMMA FullEvpBlock ==
    ASSUME BlockFunctionsAreTyped, NEW block \in Arrays, NEW password \in Arrays, NEW salt \in Arrays
    PROVE  Full(EvpBlock("MD5", block, password, salt, 1), 4)
<1> DEFINE start == IF block.sigBytes = 0 THEN NewHasher("MD5") ELSE UpdateHasher(NewHasher("MD5"), block)
           fed == UpdateHasher(start, password)
           last == FinalizeHasher(fed, salt)
           first == Result(last)
           g == [i \in 0 .. 0 - 1 |-> [b \in Arrays |-> HashOf("MD5", b)]]
<1>0. "MD5" \in HasherNames
  BY DEF HasherNames
<1>1. start \in ObjectsOf("MD5")
  BY <1>0, ObjectsTyped
<1>2. EvpBlock("MD5", block, password, salt, 1) = Passed(Arrays, 0, g, first)
  <2>1. 1 - 1 = 0
    OBVIOUS
  <2>2. EvpBlock("MD5", block, password, salt, 1) = Loop(Arrays, 1 - 1, LAMBDA b, i : HashOf("MD5", b), first)
    BY Zenon DEF EvpBlock
  <2> QED
    BY <2>1, <2>2, Zenon DEF Loop
<1> HIDE DEF start
<1>3. fed \in ObjectsOf("MD5")
  BY <1>0, <1>1, ObjectsTyped
<1> HIDE DEF fed
<1>4. last \in ObjectsOf("MD5")
  BY <1>0, <1>3, ObjectsTyped
<1> HIDE DEF last
<1>5. first \in Arrays
  BY <1>0, <1>4, ObjectsTyped
<1>6. Full(first, 4)
  <2>1. last.hasher = "MD5" /\ last.hash \in [1 .. 4 -> Word32]
    BY <1>4 DEF ObjectsOf, HashStates, States, Sha3Names
  <2>2. SwapAll(last.hash) \in Chain /\ Len(SwapAll(last.hash)) = 4
    BY <2>1, SwapAllTyped
  <2>3. first = WordArray(SwapAll(last.hash), 16)
    <3>1. Digest("MD5", last.hash) = WordArray(SwapAll(last.hash), 16)
      BY DEF Digest, Sha3Names
    <3>2. Result(last) = Digest("MD5", last.hash)
      BY <2>1, Zenon DEF Result
    <3> QED
      BY <3>1, <3>2
  <2>4. first = [words |-> SwapAll(last.hash), sigBytes |-> 16]
    BY <2>2, <2>3, ArrayIs
  <2> QED
    BY <1>5, <2>2, <2>4 DEF Full
<1> HIDE DEF first, g
<1>7. Passed(Arrays, 0, g, first) = first
  <2> DEFINE f == [i \in 0 .. 0 |-> first]
  <2>1. f[0] = first /\ Runs(f, Arrays, 0, g)
    BY <1>5 DEF Runs
  <2>2. \A i \in 0 .. 0 - 1, x \in Arrays : g[i][x] \in Arrays
    OBVIOUS
  <2> HIDE DEF f
  <2>3. Passed(Arrays, 0, g, first) = f[0]
    BY <1>5, <2>1, <2>2, PassedIs
  <2> QED
    BY <2>1, <2>3
<1> QED
  BY <1>2, <1>6, <1>7

LEMMA KdfLength ==
    ASSUME BlockFunctionsAreTyped, NEW password \in Arrays, NEW salt \in Arrays, NEW k \in Nat, NEW keySize, keySize = 4 * k
    PROVE  LET w == EvpKdf("MD5", password, salt, keySize, 1).words IN w \in Chain /\ Len(w) = keySize
<1> DEFINE S == [all : Arrays, last : Arrays]
           Next1(d) == Derived(d.all, EvpBlock("MD5", d.last, password, salt, 1))
           Step(d) == IF Enough(d.all.words, keySize) THEN d ELSE Next1(d)
           g == [i \in 0 .. keySize - 1 |-> [d \in S |-> Step(d)]]
           first == Derived(EmptyArray, EmptyArray)
           out == Passed(S, keySize, g, first)
<1>1. ASSUME NEW x \in Arrays, NEW y \in Arrays PROVE Derived(x, y) \in S
  <2>1. Concat(x, y) \in Arrays
    BY ConcatTyped
  <2> QED
    BY <2>1 DEF Derived
<1>2. first \in S
  BY <1>1, EmptyTyped
<1>3. EvpKdf("MD5", password, salt, keySize, 1) = [out.all EXCEPT !.sigBytes = 4 * keySize]
  BY Zenon DEF EvpKdf, Loop
<1>4. ASSUME NEW d \in S PROVE Full(EvpBlock("MD5", d.last, password, salt, 1), 4) /\ Next1(d) \in S
  <2>1. d.all \in Arrays /\ d.last \in Arrays
    OBVIOUS
  <2>2. Full(EvpBlock("MD5", d.last, password, salt, 1), 4)
    BY <2>1, FullEvpBlock
  <2>3. EvpBlock("MD5", d.last, password, salt, 1) \in Arrays
    BY <2>2, Zenon DEF Full
  <2> QED
    BY <1>1, <2>1, <2>2, <2>3
<1>5. Full(first.all, 0)
  <2>1. EmptyArray \in Arrays /\ EmptyArray = [words |-> <<>>, sigBytes |-> 0]
    BY EmptyTyped, ArrayIs, <<>> \in Chain, 0 \in Nat DEF EmptyArray, Chain
  <2>2. Full(EmptyArray, 0)
    BY <2>1 DEF Full
  <2>3. Full(Concat(EmptyArray, EmptyArray), 0 + 0)
    BY <2>2, FullJoined
  <2>4. first.all = Concat(EmptyArray, EmptyArray)
    BY DEF Derived
  <2> QED
    BY <2>3, <2>4
<1> HIDE DEF first
<1>6. \A i \in 0 .. keySize - 1, d \in S : g[i][d] = Step(d) /\ g[i][d] \in S
  BY <1>4
<1>7. \A d \in S : Next1(d).all = Concat(d.all, EvpBlock("MD5", d.last, password, salt, 1))
  BY DEF Derived
<1> HIDE DEF Next1, g, S
<1>8. keySize \in Nat
  OBVIOUS
<1>9. PICK f : f[0] = first /\ Runs(f, S, keySize, g)
  BY <1>2, <1>6, <1>8, RunExists
<1>10. (\A i \in 0 .. keySize : f[i] \in S) /\ \A i \in 0 .. keySize - 1 : f[i + 1] = g[i][f[i]]
  BY <1>9 DEF Runs
<1> DEFINE Long1(i) == IF i <= k THEN 4 * i ELSE 4 * k
           A == {i \in Nat : Full(f[i].all, Long1(i))}
<1>11. 0 \in A
  BY <1>5, <1>9
<1>12. ASSUME NEW i \in 0 .. keySize - 1, i \in A PROVE i + 1 \in A
  <2>1. f[i] \in S /\ f[i + 1] = Step(f[i]) /\ Full(f[i].all, Long1(i))
    BY <1>6, <1>10, <1>12
  <2>2. Len(f[i].all.words) = Long1(i)
    BY <2>1 DEF Full
  <2>3. CASE i < k
    <3>1. ~Enough(f[i].all.words, keySize)
      BY <2>2, <2>3 DEF Enough
    <3>2. f[i + 1].all = Concat(f[i].all, EvpBlock("MD5", f[i].last, password, salt, 1))
      BY <1>7, <2>1, <3>1
    <3>3. Full(f[i + 1].all, Long1(i) + 4)
      BY <1>4, <2>1, <3>2, FullJoined
    <3>4. Long1(i) + 4 = Long1(i + 1)
      BY <2>3
    <3> QED
      BY <3>3, <3>4
  <2>4. CASE ~(i < k)
    <3>1. Enough(f[i].all.words, keySize)
      BY <2>2, <2>4 DEF Enough
    <3>2. f[i + 1] = f[i]
      BY <2>1, <3>1
    <3>3. Long1(i + 1) = Long1(i)
      BY <2>4
    <3> QED
      BY <2>1, <3>2, <3>3
  <2> QED
    BY <2>3, <2>4
<1> HIDE DEF A
<1>13. keySize \in A
  <2>1. 0 .. keySize \subseteq A
    BY <1>8, <1>11, <1>12, RangeInduction, 0 \in Nat
  <2> QED
    BY <1>8, <2>1
<1>14. Full(f[keySize].all, keySize)
  <2>1. Long1(keySize) = keySize
    OBVIOUS
  <2> QED
    BY <1>13, <2>1 DEF A
<1>15. out = f[keySize]
  BY <1>2, <1>6, <1>8, <1>9, PassedIs
<1> HIDE DEF out
<1>16. out.all.words \in Chain /\ Len(out.all.words) = keySize
  BY <1>14, <1>15 DEF Full, Arrays
<1>17. EvpKdf("MD5", password, salt, keySize, 1).words = out.all.words
  <2>1. out.all \in Arrays
    BY <1>14, <1>15 DEF Full
  <2> QED
    BY <1>3, <2>1 DEF Arrays
<1> QED
  BY <1>16, <1>17

-----------------------------------------------------------------------------
(* What a job encrypts with *)

\* Each block cipher decrypts what it encrypts, with every key it has.
BlockCiphersInvert ==
    \A cipher \in BlockCipherNames : \A key : ProperKey(cipher, key) => Inverts(KeyedCipher(cipher, key))

DerivedOf(t) == OpenSSLKdf(t.key, KeySize(t.cipher), IvSize(t.cipher), t.salt)
UsedKey(t) == IF t.password THEN DerivedOf(t).key ELSE t.key
UsedCfg(t) == IF t.password THEN [t.cfg EXCEPT !.iv = DerivedOf(t).iv] ELSE t.cfg
WholeOf(t) == SubSeq(Message, 1, t.size)

LEMMA AsBlock ==
    ASSUME NEW n \in Nat, NEW z \in Seq(Word32), Len(z) = n
    PROVE  z \in [1 .. n -> Word32]
  OBVIOUS

\* A key of m words and an initialization vector of n.
DerivesTo(d, m, n) ==
    /\ d.key \in Arrays /\ d.key.sigBytes = 4 * m /\ d.iv \in Chain
    /\ \A k \in Nat : m + n = 4 * k => m <= Len(d.key.words) /\ d.iv \in [1 .. n -> Word32]

LEMMA DerivedIs ==
    ASSUME BlockFunctionsAreTyped, NEW password \in Arrays, NEW salt \in Arrays, NEW m \in Nat, NEW n \in Nat,
           NEW d, d = OpenSSLKdf(password, m, n, salt)
    PROVE  DerivesTo(d, m, n)
<1> DEFINE w == EvpKdf("MD5", password, salt, m + n, 1).words
<1>0. "MD5" \in HasherNames /\ m + n \in Nat /\ 1 \in Nat \ {0}
  BY DEF HasherNames
<1>1. w \in Chain
  <2>1. EvpKdf("MD5", password, salt, m + n, 1) \in Arrays
    BY <1>0, EvpKdfTyped
  <2> QED
    BY <2>1 DEF Arrays
<1>2. ASSUME NEW k \in Nat, m + n = 4 * k PROVE Len(w) = m + n
  BY <1>2, KdfLength, Zenon
<1>3. d = [key |-> WordArray(w, 4 * m), iv |-> SubSeq(w, m + 1, Len(w))]
  BY Zenon DEF OpenSSLKdf, KeyAndIv
<1> HIDE DEF w
<1>4. d.key \in Arrays /\ d.key.sigBytes = 4 * m /\ d.key.words = w
  <2>1. 4 * m \in Nat
    BY <1>0
  <2>2. WordArray(w, 4 * m) = [words |-> w, sigBytes |-> 4 * m] /\ WordArray(w, 4 * m) \in Arrays
    BY <1>1, <2>1, ArrayIs
  <2> QED
    BY <1>3, <2>2
<1>5. d.iv = SubSeq(w, m + 1, Len(w)) /\ d.iv \in Chain
  <2>1. SubSeq(w, m + 1, Len(w)) \in Seq(Word32)
    BY <1>1 DEF Chain
  <2> QED
    BY <1>3, <2>1 DEF Chain
<1>6. ASSUME NEW k \in Nat, m + n = 4 * k PROVE m <= Len(d.key.words) /\ d.iv \in [1 .. n -> Word32]
  <2>1. Len(w) = m + n /\ m <= Len(w) /\ Len(w) - m = n
    BY <1>0, <1>2, <1>6
  <2>2. SubSeq(w, m + 1, Len(w)) \in Seq(Word32) /\ Len(SubSeq(w, m + 1, Len(w))) = Len(w) - m
    BY <1>0, <1>1, <2>1, PartIs DEF Chain
  <2> DEFINE z == SubSeq(w, m + 1, Len(w))
  <2>3. z \in Seq(Word32) /\ Len(z) = n
    BY <2>1, <2>2
  <2> HIDE DEF z
  <2>4. z \in [1 .. n -> Word32]
    BY <2>3, AsBlock
  <2>5. d.iv \in [1 .. n -> Word32]
    BY <1>5, <2>4 DEF z
  <2>6. m <= Len(d.key.words)
    BY <1>4, <2>1
  <2> QED
    BY <2>5, <2>6
<1> QED
  BY <1>4, <1>5, <1>6 DEF DerivesTo

\* The job of a cipher, with the key and the configuration in use.
LEMMA UsedAreProper ==
    ASSUME BlockFunctionsAreTyped, NEW t \in CipherJobs
    PROVE  ProperKey(t.cipher, UsedKey(t)) /\ ProperCfg(t.cipher, UsedCfg(t)) /\ UsedCfg(t).padding = t.cfg.padding
           /\ UsedCfg(t).mode = t.cfg.mode
<1>1. /\ t.cipher \in CipherNames /\ t.key \in Arrays
      /\ t.cfg.iv \in Chain /\ t.cfg.drop \in Nat
      /\ t.cipher \in BlockCipherNames => t.cfg.mode \in ModeNames /\ t.cfg.padding \in PaddingNames
  BY CipherJobAssumption
<1>2. CASE ~t.password
  <2>1. UsedKey(t) = t.key /\ UsedCfg(t) = t.cfg
    BY <1>2 DEF UsedKey, UsedCfg
  <2>2. /\ t.cipher = "AES" => t.key.sigBytes \in {16, 24, 32} /\ t.key.sigBytes <= 4 * Len(t.key.words)
        /\ t.cipher \in {"RC4", "RC4Drop"} => t.key.sigBytes > 0
        /\ t.cipher \in BlockCipherNames /\ t.cfg.mode # "ECB" => t.cfg.iv \in [1..BlockWords(t.cipher) -> Word32]
    BY <1>2, KeyAssumption
  <2> QED
    BY <1>1, <2>1, <2>2, Zenon DEF ProperKey, ProperCfg, Blocks
<1>3. CASE t.password
  <2>1. t.salt \in Arrays
    BY <1>3, CipherJobAssumption
  <2> DEFINE m == KeySize(t.cipher)
             n == IvSize(t.cipher)
             d == DerivedOf(t)
             c == [t.cfg EXCEPT !.iv = d.iv]
  <2>2. UsedKey(t) = d.key /\ UsedCfg(t) = c
    BY <1>3 DEF UsedKey, UsedCfg
  <2>3. /\ m \in Nat /\ n \in Nat
        /\ t.cipher \in BlockCipherNames => n = BlockWords(t.cipher) /\ \E k \in Nat : m + n = 4 * k
        /\ t.cipher = "AES" => m = 8
        /\ t.cipher \in {"RC4", "RC4Drop"} => m = 8
    <3>1. CASE t.cipher = "AES"
      <4>1. m = 8 /\ n = 4 /\ BlockWords(t.cipher) = 4
        BY <3>1 DEF KeySize, IvSize, BlockWords
      <4> QED
        BY <3>1, <4>1, m + n = 4 * 3, 3 \in Nat
    <3>2. CASE t.cipher = "DES"
      <4>1. m = 2 /\ n = 2 /\ BlockWords(t.cipher) = 2
        BY <3>2 DEF KeySize, IvSize, BlockWords
      <4> QED
        BY <3>2, <4>1, m + n = 4 * 1, 1 \in Nat
    <3>3. CASE t.cipher = "TripleDES"
      <4>1. m = 6 /\ n = 2 /\ BlockWords(t.cipher) = 2
        BY <3>3 DEF KeySize, IvSize, BlockWords
      <4> QED
        BY <3>3, <4>1, m + n = 4 * 2, 2 \in Nat
    <3>4. CASE t.cipher \in StreamCipherNames
      <4>1. m \in {4, 8} /\ n \in {0, 2} /\ (t.cipher \in {"RC4", "RC4Drop"} => m = 8) /\ t.cipher \notin BlockCipherNames
        BY <3>4 DEF KeySize, IvSize, StreamCipherNames, BlockCipherNames
      <4> QED
        BY <3>4, <4>1 DEF BlockCipherNames
    <3> QED
      BY <1>1, <3>1, <3>2, <3>3, <3>4 DEF CipherNames, BlockCipherNames
  <2>4. d = OpenSSLKdf(t.key, m, n, t.salt)
    BY DEF DerivedOf
  <2> HIDE DEF m, n, d
  <2>5. /\ d.key \in Arrays /\ d.key.sigBytes = 4 * m /\ d.iv \in Chain
        /\ \A k \in Nat : m + n = 4 * k => m <= Len(d.key.words) /\ d.iv \in [1 .. n -> Word32]
    <3>1. DerivesTo(d, m, n)
      BY <1>1, <2>1, <2>3, <2>4, DerivedIs
    <3> QED
      BY <3>1, Zenon DEF DerivesTo
  <2>6. t.cipher \in BlockCipherNames => m <= Len(d.key.words) /\ d.iv \in Blocks(t.cipher)
    BY <2>3, <2>5 DEF Blocks
  <2>7. Len(d.key.words) \in Nat
    BY <2>5 DEF Arrays, Chain
  <2>8. ProperKey(t.cipher, d.key)
    BY <2>3, <2>5, <2>6, <2>7 DEF ProperKey, BlockCipherNames
  <2>9. c.iv = d.iv /\ c.drop = t.cfg.drop /\ c.mode = t.cfg.mode /\ c.padding = t.cfg.padding
    OBVIOUS
  <2> HIDE DEF c
  <2>10. ProperCfg(t.cipher, c)
    BY <1>1, <2>5, <2>6, <2>9 DEF ProperCfg
  <2> QED
    BY <2>2, <2>8, <2>9, <2>10
<1> QED
  BY <1>2, <1>3

LEMMA JobsAreRestorable ==
    ASSUME BlockFunctionsAreTyped, BlockCiphersInvert, NEW t \in CipherJobs
    PROVE  Restorable(t.cipher, UsedKey(t), UsedCfg(t), WholeOf(t), t.fill)
<1> DEFINE key == UsedKey(t)
           cfg == UsedCfg(t)
           whole == WholeOf(t)
<1>1. ProperKey(t.cipher, key) /\ ProperCfg(t.cipher, cfg) /\ cfg.padding = t.cfg.padding /\ cfg.mode = t.cfg.mode
  BY UsedAreProper
<1>2. /\ t.cipher \in CipherNames /\ t.fill \in Word32 /\ t.size \in 0 .. Len(Message)
  BY CipherJobAssumption
<1>3. whole \in Seq(Byte) /\ Len(whole) = t.size /\ (t.size > 0 => whole # <<>> /\ whole[Len(whole)] = Message[t.size])
  <2>1. t.size \in Nat /\ 0 <= t.size /\ t.size <= Len(Message) /\ 0 + 1 = 1 /\ t.size - 0 = t.size
    BY <1>2, MessageAssumption
  <2>2. /\ SubSeq(Message, 0 + 1, t.size) \in Seq(Byte) /\ Len(SubSeq(Message, 0 + 1, t.size)) = t.size - 0
        /\ \A i \in 1 .. t.size - 0 : SubSeq(Message, 0 + 1, t.size)[i] = Message[0 + i]
    BY <2>1, MessageAssumption, PartIs
  <2>3. SubSeq(Message, 0 + 1, t.size) = whole
    BY <2>1 DEF WholeOf
  <2> HIDE DEF whole
  <2>4. whole \in Seq(Byte) /\ Len(whole) = t.size
    BY <2>1, <2>2, <2>3
  <2>5. ASSUME t.size > 0 PROVE whole # <<>> /\ whole[Len(whole)] = Message[t.size]
    <3>1. t.size \in 1 .. t.size - 0 /\ 0 + t.size = t.size
      BY <2>1, <2>5
    <3>2. whole[t.size] = Message[0 + t.size]
      BY <2>2, <2>3, <3>1
    <3> QED
      BY <2>4, <2>5, <3>1, <3>2
  <2> QED
    BY <2>4, <2>5
<1> HIDE DEF key, cfg, whole
<1>4. ASSUME t.cipher \in BlockCipherNames
      PROVE  /\ Inverts(KeyedCipher(t.cipher, key))
             /\ cfg.padding = "NoPadding" /\ cfg.mode \in {"CBC", "ECB"} => Len(whole) % (4 * BlockWords(t.cipher)) = 0
             /\ cfg.padding = "ZeroPadding" => NoZeroEnd(whole)
  <2>1. Inverts(KeyedCipher(t.cipher, key))
    BY <1>1, <1>4, Zenon DEF BlockCiphersInvert
  <2>2. /\ t.cfg.padding = "NoPadding" /\ t.cfg.mode \in {"CBC", "ECB"} => t.size % (4 * BlockWords(t.cipher)) = 0
        /\ t.cfg.padding = "ZeroPadding" => t.size > 0 /\ Message[t.size] # {}
    BY <1>4, PaddingAssumption
  <2> QED
    BY <1>1, <1>3, <2>1, <2>2, Zenon DEF NoZeroEnd
<1> QED
  BY <1>1, <1>2, <1>3, <1>4, Zenon DEF Restorable, key, cfg, whole

-----------------------------------------------------------------------------
(* What the two pages of a job make *)

\* The padded message, the cipher text, and the words and the states between
\* them, when encrypting and when decrypting.
MadeBy(t, x) ==
    Exchange(t.cipher, UsedKey(t), UsedCfg(t), WholeOf(t), t.fill,
             x.padded, x.runs, x.words, x.sent, x.backRuns, x.backWords)
MadeOf(t) == CHOOSE x : MadeBy(t, x)
Known(t) == t \in CipherJobs /\ MadeBy(t, MadeOf(t))
SentOf(t) == MadeOf(t).sent
EncryptorOf(t) == NewCipher(t.cipher, TRUE, UsedKey(t), UsedCfg(t))
DecryptorOf(t) == NewCipher(t.cipher, FALSE, UsedKey(t), UsedCfg(t))
\* An object of t that was given n bytes and has returned out.
EncryptorAt(t, o, n, out) == Progress(EncryptorOf(t), MadeOf(t).padded, MadeOf(t).runs, MadeOf(t).words, o, n, out)
DecryptorAt(t, o, n, out) == Progress(DecryptorOf(t), SentOf(t), MadeOf(t).backRuns, MadeOf(t).backWords, o, n, out)

LEMMA JobsAreKnown ==
    ASSUME BlockFunctionsAreTyped, BlockCiphersInvert, NEW t \in CipherJobs
    PROVE  Known(t)
<1>1. PICK P, f, D, E, g, P2 : Exchange(t.cipher, UsedKey(t), UsedCfg(t), WholeOf(t), t.fill, P, f, D, E, g, P2)
  <2>1. Restorable(t.cipher, UsedKey(t), UsedCfg(t), WholeOf(t), t.fill)
    BY JobsAreRestorable
  <2> QED
    BY <2>1, ExchangeExists, Zenon
<1> DEFINE x == [padded |-> P, runs |-> f, words |-> D, sent |-> E, backRuns |-> g, backWords |-> P2]
<1>2. x.padded = P /\ x.runs = f /\ x.words = D /\ x.sent = E /\ x.backRuns = g /\ x.backWords = P2
  OBVIOUS
<1> HIDE DEF x
<1>3. MadeBy(t, x)
  BY <1>1, <1>2, Zenon DEF MadeBy
<1> QED
  BY <1>3, Zenon DEF Known, MadeOf

\* What is known of it.
SendsFor(t, x) ==
    /\ Sends(EncryptorOf(t), WholeOf(t), t.fill, x.padded, x.runs, x.words, x.sent)
    /\ Come(EncryptorOf(t), x.padded, x.runs, EncryptorOf(t), 0, 0)
RecoversFor(t, x) ==
    /\ Recovers(DecryptorOf(t), WholeOf(t), t.fill, x.padded, x.sent, x.backRuns, x.backWords)
    /\ Come(DecryptorOf(t), x.sent, x.backRuns, DecryptorOf(t), 0, 0)

LEMMA KnownIs ==
    ASSUME NEW t, Known(t), NEW x, x = MadeOf(t)
    PROVE  SendsFor(t, x) /\ RecoversFor(t, x) /\ SentOf(t) = x.sent /\ t \in CipherJobs
  BY Zenon DEF Known, MadeBy, Exchange, SendsFor, RecoversFor, EncryptorOf, DecryptorOf, SentOf

\* The message of a job.
LEMMA WholeIs ==
    ASSUME NEW t \in CipherJobs
    PROVE  WholeOf(t) \in Seq(Byte) /\ Len(WholeOf(t)) = t.size /\ t.size \in Nat /\ t.size <= Len(Message)
<1>1. t.size \in 0 .. Len(Message) /\ Len(Message) \in Nat
  BY CipherJobAssumption, MessageAssumption
<1>2. t.size \in Nat /\ 0 <= t.size /\ t.size <= Len(Message) /\ 0 + 1 = 1 /\ t.size - 0 = t.size
  BY <1>1
<1>3. SubSeq(Message, 0 + 1, t.size) \in Seq(Byte) /\ Len(SubSeq(Message, 0 + 1, t.size)) = t.size - 0
  <2>1. 0 \in Nat /\ 0 <= t.size
    BY <1>2
  <2> QED
    BY <1>2, <2>1, MessageAssumption, PartIs, Zenon
<1> QED
  BY <1>2, <1>3 DEF WholeOf

\* A piece of it is a piece of what is padded.
LEMMA PieceOfMessage ==
    ASSUME NEW t \in CipherJobs, NEW n \in Nat, NEW m \in Nat, n <= m, m <= t.size
    PROVE  SubSeq(WholeOf(t), n + 1, m) = SubSeq(Message, n + 1, m)
<1> DEFINE y == SubSeq(Message, t.size + 1, Len(Message))
           x == WholeOf(t)
<1>1. t.size \in Nat /\ t.size <= Len(Message) /\ Len(Message) \in Nat /\ x \in Seq(Byte) /\ Len(x) = t.size
  BY WholeIs, MessageAssumption
<1>2. y \in Seq(Byte)
  BY <1>1, MessageAssumption, PartIs
<1>3. Message = x \o y
  <2>1. SubSeq(Message, 0 + 1, t.size) \o SubSeq(Message, t.size + 1, Len(Message)) = SubSeq(Message, 0 + 1, Len(Message))
    <3>1. 0 \in Nat /\ 0 <= t.size /\ Len(Message) <= Len(Message)
      BY <1>1
    <3> QED
      BY <1>1, <3>1, MessageAssumption, PartsJoin, Zenon
  <2>2. 0 + 1 = 1
    OBVIOUS
  <2>3. SubSeq(Message, 1, Len(Message)) = Message
    BY MessageAssumption, WholePart
  <2> QED
    BY <2>1, <2>2, <2>3 DEF WholeOf
<1> HIDE DEF x, y
<1>4. Joins(x, y, Message) /\ Within(n, m, x)
  BY <1>1, <1>2, <1>3 DEF Joins, Within
<1>5. Parted(x, y, Message, n, m)
  BY <1>4, PartsOfJoined
<1> QED
  BY <1>5, Zenon DEF Parted, x

LEMMA PieceOfPadded ==
    ASSUME NEW c, NEW whole, NEW fill, NEW P, Pads(c, whole, fill, P), NEW n \in Nat, NEW m \in Nat, n <= m, m <= Len(whole)
    PROVE  SubSeq(P, n + 1, m) = SubSeq(whole, n + 1, m) /\ m <= Len(P)
<1> DEFINE p == PadBytesOf(c, whole, fill)
           z == 4 * CipherBlockSize(c.cipher)
<1>1. p = PadBytesOf(c, whole, fill) /\ z = 4 * CipherBlockSize(c.cipher)
  OBVIOUS
<1> HIDE DEF p, z
<1>2. PadsTo(c, whole, fill, P, p, z)
  BY <1>1, PadsAre
<1>3. /\ p \in Seq(Byte) /\ P = whole \o p /\ Len(P) = Len(whole) + Len(p) /\ Len(p) \in Nat /\ Len(whole) \in Nat
      /\ whole \in Seq(Byte)
  BY <1>2, Zenon DEF PadsTo, Pads
<1>4. Joins(whole, p, P) /\ Within(n, m, whole)
  BY <1>3 DEF Joins, Within
<1>5. Parted(whole, p, P, n, m)
  BY <1>4, PartsOfJoined
<1>6. SubSeq(P, n + 1, m) = SubSeq(whole, n + 1, m)
  BY <1>5, Zenon DEF Parted
<1> QED
  BY <1>3, <1>6

LEMMA EncryptorStarts ==
    ASSUME NEW t, Known(t)
    PROVE  EncryptorAt(t, EncryptorOf(t), 0, EmptyArray)
<1> DEFINE x == MadeOf(t)
           c == EncryptorOf(t)
<1>0. x = MadeOf(t) /\ c = EncryptorOf(t)
  OBVIOUS
<1> HIDE DEF x, c
<1>1. SendsFor(t, x)
  BY <1>0, KnownIs
<1>2. Come(c, x.padded, x.runs, c, 0, 0) /\ Makes(c, x.padded, x.runs, x.words)
  BY <1>0, <1>1, Zenon DEF SendsFor, Sends
<1>3. Progress(c, x.padded, x.runs, x.words, c, 0, EmptyArray)
  BY <1>2, ProgressStarts
<1> QED
  BY <1>0, <1>3, Zenon DEF EncryptorAt

\* The next piece of the message, up to byte m.
NextPiece(t, n, m) == Known(t) /\ n \in Nat /\ m \in Nat /\ n <= m /\ m <= t.size

LEMMA EncryptorFeeds ==
    ASSUME NEW t, NEW n, NEW m, NextPiece(t, n, m), NEW o, NEW out, EncryptorAt(t, o, n, out),
           NEW r, r = Feed(o, Slice(Message, n, m))
    PROVE  EncryptorAt(t, r.o, m, Concat(out, r.out))
<1> DEFINE x == MadeOf(t)
           c == EncryptorOf(t)
           P == x.padded
<1>0. x = MadeOf(t) /\ c = EncryptorOf(t) /\ P = x.padded
  OBVIOUS
<1> HIDE DEF x, c, P
<1>1. SendsFor(t, x) /\ t \in CipherJobs
  BY <1>0, KnownIs, Zenon DEF NextPiece
<1>2. Pads(c, WholeOf(t), t.fill, P)
  BY <1>0, <1>1, Zenon DEF SendsFor, Sends
<1>3. n \in Nat /\ m \in Nat /\ n <= m /\ m <= t.size
  BY DEF NextPiece
<1>4. Len(WholeOf(t)) = t.size
  BY <1>1, WholeIs
<1>5. SubSeq(P, n + 1, m) = SubSeq(WholeOf(t), n + 1, m) /\ m <= Len(P)
  BY <1>2, <1>3, <1>4, PieceOfPadded
<1>6. SubSeq(WholeOf(t), n + 1, m) = SubSeq(Message, n + 1, m)
  BY <1>1, <1>3, PieceOfMessage
<1>7. r = Feed(o, OfBytes(SubSeq(P, n + 1, m)))
  BY <1>5, <1>6, Zenon DEF Slice
<1>8. Progress(c, P, x.runs, x.words, o, n, out)
  BY <1>0, Zenon DEF EncryptorAt
<1>9. ProgressFed(c, P, x.runs, x.words, o, n, out, m)
  BY <1>3, <1>5, <1>8, Zenon DEF ProgressFed
<1>10. Progress(c, P, x.runs, x.words, r.o, m, Concat(out, r.out))
  BY <1>7, <1>9, ProgressFeeds
<1> QED
  BY <1>0, <1>10, Zenon DEF EncryptorAt

LEMMA EncryptorIsDone ==
    ASSUME NEW t, NEW n, Known(t), n \in 0 .. t.size, NEW o, NEW out, EncryptorAt(t, o, n, out),
           NEW r, r = FinalizeCipher(o, Slice(Message, n, t.size), t.fill)
    PROVE  IsArrayOf(Concat(out, r.out), SentOf(t))
<1> DEFINE x == MadeOf(t)
           c == EncryptorOf(t)
           whole == WholeOf(t)
<1>0. x = MadeOf(t) /\ c = EncryptorOf(t) /\ whole = WholeOf(t)
  OBVIOUS
<1> HIDE DEF x, c, whole
<1>1. SendsFor(t, x) /\ t \in CipherJobs /\ SentOf(t) = x.sent
  BY <1>0, KnownIs
<1>2. Len(whole) = t.size /\ t.size \in Nat
  BY <1>0, <1>1, WholeIs
<1>3. n \in Nat /\ n <= t.size /\ t.size <= t.size
  BY <1>2
<1>4. SubSeq(whole, n + 1, t.size) = SubSeq(Message, n + 1, t.size)
  BY <1>0, <1>1, <1>2, <1>3, PieceOfMessage
<1>5. r = FinalizeCipher(o, OfBytes(SubSeq(whole, n + 1, Len(whole))), t.fill)
  BY <1>2, <1>4, Zenon DEF Slice
<1>6. Sends(c, whole, t.fill, x.padded, x.runs, x.words, x.sent)
  BY <1>0, <1>1, Zenon DEF SendsFor
<1>7. Progress(c, x.padded, x.runs, x.words, o, n, out)
  BY <1>0, Zenon DEF EncryptorAt
<1>8. IsArrayOf(Concat(out, r.out), x.sent)
  BY <1>2, <1>3, <1>5, <1>6, <1>7, EncryptorEnds
<1> QED
  BY <1>1, <1>8, Zenon

LEMMA DecryptorStarts ==
    ASSUME NEW t, Known(t)
    PROVE  DecryptorAt(t, DecryptorOf(t), 0, EmptyArray)
<1> DEFINE x == MadeOf(t)
           c == DecryptorOf(t)
<1>0. x = MadeOf(t) /\ c = DecryptorOf(t)
  OBVIOUS
<1> HIDE DEF x, c
<1>1. RecoversFor(t, x) /\ SentOf(t) = x.sent
  BY <1>0, KnownIs
<1>2. Come(c, x.sent, x.backRuns, c, 0, 0) /\ Makes(c, x.sent, x.backRuns, x.backWords)
  BY <1>0, <1>1, Zenon DEF RecoversFor, Recovers
<1>3. Progress(c, x.sent, x.backRuns, x.backWords, c, 0, EmptyArray)
  BY <1>2, ProgressStarts
<1> QED
  BY <1>0, <1>1, <1>3, Zenon DEF DecryptorAt

\* What the other page has parsed.
LEMMA SentIs ==
    ASSUME NEW t, Known(t), NEW w, w = OfBytes(SentOf(t))
    PROVE  SentOf(t) \in Seq(Byte) /\ w \in Arrays /\ Bytes(w) = SentOf(t) /\ w.sigBytes = Len(SentOf(t)) /\ w.sigBytes \in Nat
<1> DEFINE x == MadeOf(t)
           c == EncryptorOf(t)
           e == SentOf(t)
<1>0. x = MadeOf(t) /\ c = EncryptorOf(t) /\ e = SentOf(t)
  OBVIOUS
<1> HIDE DEF x, c, e
<1>1. SendsFor(t, x) /\ e = x.sent
  BY <1>0, KnownIs, Zenon
<1>2. Makes(c, x.padded, x.runs, x.words) /\ e = Bytes(WordArray(x.words, Len(x.padded)))
  BY <1>0, <1>1, Zenon DEF SendsFor, Sends
<1>3. e \in Seq(Byte)
  BY <1>2, MadeBytes
<1>4. w \in Arrays /\ w.sigBytes = Len(e) /\ Bytes(w) = e
  BY <1>0, <1>3, OfBytesIs, BytesOfBytes
<1>5. w.sigBytes \in Nat
  BY <1>3, <1>4
<1> QED
  BY <1>0, <1>3, <1>4, <1>5, Zenon

LEMMA DecryptorFeeds ==
    ASSUME NEW t, NEW n, NEW m, Known(t), n \in Nat, m \in Nat, n <= m, m <= Len(SentOf(t)),
           NEW o, NEW out, DecryptorAt(t, o, n, out),
           NEW r, r = Feed(o, Slice(SentOf(t), n, m))
    PROVE  DecryptorAt(t, r.o, m, Concat(out, r.out))
<1> DEFINE x == MadeOf(t)
           c == DecryptorOf(t)
           e == SentOf(t)
<1>0. x = MadeOf(t) /\ c = DecryptorOf(t) /\ e = SentOf(t)
  OBVIOUS
<1> HIDE DEF x, c, e
<1>1. r = Feed(o, OfBytes(SubSeq(e, n + 1, m)))
  BY <1>0, Zenon DEF Slice
<1>2. Progress(c, e, x.backRuns, x.backWords, o, n, out)
  BY <1>0, Zenon DEF DecryptorAt
<1>3. ProgressFed(c, e, x.backRuns, x.backWords, o, n, out, m)
  BY <1>0, <1>2, Zenon DEF ProgressFed
<1>4. Progress(c, e, x.backRuns, x.backWords, r.o, m, Concat(out, r.out))
  BY <1>1, <1>3, ProgressFeeds
<1> QED
  BY <1>0, <1>4, Zenon DEF DecryptorAt

LEMMA DecryptorIsDone ==
    ASSUME NEW t, NEW n, Known(t), NEW o, NEW out, DecryptorAt(t, o, n, out),
           NEW r, r = FinalizeCipher(o, Slice(SentOf(t), n, Len(SentOf(t))), {})
    PROVE  IsArrayOf(Concat(out, r.out), WholeOf(t)) /\ r.out \in Arrays
<1> DEFINE x == MadeOf(t)
           c == DecryptorOf(t)
           whole == WholeOf(t)
           e == SentOf(t)
<1>0. x = MadeOf(t) /\ c = DecryptorOf(t) /\ whole = WholeOf(t) /\ e = SentOf(t)
  OBVIOUS
<1> HIDE DEF x, c, whole, e
<1>1. RecoversFor(t, x) /\ e = x.sent
  BY <1>0, KnownIs
<1>2. r = FinalizeCipher(o, OfBytes(SubSeq(e, n + 1, Len(e))), {})
  BY <1>0, Zenon DEF Slice
<1>3. Recovers(c, whole, t.fill, x.padded, e, x.backRuns, x.backWords)
  BY <1>0, <1>1, Zenon DEF RecoversFor
<1>4. Progress(c, e, x.backRuns, x.backWords, o, n, out)
  BY <1>0, Zenon DEF DecryptorAt
<1>5. IsArrayOf(Concat(out, r.out), whole) /\ r.out \in Arrays
  BY <1>2, <1>3, <1>4, DecryptorEnds
<1> QED
  BY <1>0, <1>5, Zenon

LEMMA DecryptorKeepsPadding ==
    ASSUME NEW t, Known(t), NEW n, NEW o, NEW out, DecryptorAt(t, o, n, out)
    PROVE  StartsWith(WholeOf(t), Bytes(out))
<1> DEFINE x == MadeOf(t)
           c == DecryptorOf(t)
           e == SentOf(t)
<1>0. x = MadeOf(t) /\ c = DecryptorOf(t) /\ e = SentOf(t)
  OBVIOUS
<1> HIDE DEF x, c, e
<1>1. RecoversFor(t, x) /\ e = x.sent
  BY <1>0, KnownIs
<1>2. Recovers(c, WholeOf(t), t.fill, x.padded, e, x.backRuns, x.backWords)
  BY <1>0, <1>1, Zenon DEF RecoversFor
<1>3. Progress(c, e, x.backRuns, x.backWords, o, n, out)
  BY <1>0, Zenon DEF DecryptorAt
<1> QED
  BY <1>2, <1>3, DecryptorStays

ParamsOf(t, w) == CipherParams(w, IF t.password THEN t.salt ELSE NoSalt)

LEMMA JobAtOnce ==
    ASSUME NEW t, Known(t)
    PROVE  /\ IsArrayOf(EncryptAll(t.cipher, OfBytes(WholeOf(t)), UsedKey(t), UsedCfg(t), t.fill), SentOf(t))
           /\ IsArrayOf(DecryptAll(t.cipher, OfBytes(SentOf(t)), UsedKey(t), UsedCfg(t)), WholeOf(t))
<1> DEFINE x == MadeOf(t)
<1>0. x = MadeOf(t)
  OBVIOUS
<1> HIDE DEF x
<1>1. Exchange(t.cipher, UsedKey(t), UsedCfg(t), WholeOf(t), t.fill,
               x.padded, x.runs, x.words, x.sent, x.backRuns, x.backWords)
  BY <1>0, Zenon DEF Known, MadeBy
<1>2. /\ IsArrayOf(EncryptAll(t.cipher, OfBytes(WholeOf(t)), UsedKey(t), UsedCfg(t), t.fill), x.sent)
      /\ IsArrayOf(DecryptAll(t.cipher, OfBytes(x.sent), UsedKey(t), UsedCfg(t)), WholeOf(t))
  BY <1>1, CallsAtOnce, Zenon
<1> QED
  BY <1>0, <1>2, Zenon DEF SentOf

\* The calls of CryptoJS.AES and the other shortcuts.
LEMMA EncryptedAtOnce ==
    ASSUME NEW t, Known(t), NEW w,
           w = IF t.password THEN PasswordEncrypt(t.cipher, OfBytes(WholeOf(t)), t.key, t.cfg, t.salt, t.fill).ciphertext
               ELSE EncryptAll(t.cipher, OfBytes(WholeOf(t)), t.key, t.cfg, t.fill)
    PROVE  IsArrayOf(w, SentOf(t))
<1>1. w = EncryptAll(t.cipher, OfBytes(WholeOf(t)), UsedKey(t), UsedCfg(t), t.fill)
  <2>1. CASE t.password
    <3> DEFINE v == EncryptAll(t.cipher, OfBytes(WholeOf(t)), UsedKey(t), UsedCfg(t), t.fill)
    <3>1. UsedKey(t) = DerivedOf(t).key /\ UsedCfg(t) = [t.cfg EXCEPT !.iv = DerivedOf(t).iv]
      BY <2>1 DEF UsedKey, UsedCfg
    <3>2. EncryptDerived(t.cipher, OfBytes(WholeOf(t)), DerivedOf(t), t.cfg, t.fill) = v
      BY <3>1, Zenon DEF EncryptDerived
    <3> HIDE DEF v
    <3>3. PasswordEncrypt(t.cipher, OfBytes(WholeOf(t)), t.key, t.cfg, t.salt, t.fill) = CipherParams(v, t.salt)
      BY <3>2, Zenon DEF PasswordEncrypt, DerivedOf
    <3>4. CipherParams(v, t.salt).ciphertext = v
      BY DEF CipherParams
    <3>5. w = v
      BY <2>1, <3>3, <3>4, Zenon
    <3> QED
      BY <3>5, Zenon DEF v
  <2>2. CASE ~t.password
    BY <2>2, Zenon DEF UsedKey, UsedCfg
  <2> QED
    BY <2>1, <2>2
<1>2. IsArrayOf(EncryptAll(t.cipher, OfBytes(WholeOf(t)), UsedKey(t), UsedCfg(t), t.fill), SentOf(t))
  BY JobAtOnce, Zenon
<1> QED
  BY <1>1, <1>2, Zenon

LEMMA DecryptedAtOnce ==
    ASSUME NEW t, Known(t), NEW params, params = ParamsOf(t, OfBytes(SentOf(t))), NEW w,
           w = IF t.password THEN PasswordDecrypt(t.cipher, params, t.key, t.cfg)
               ELSE DecryptAll(t.cipher, params.ciphertext, t.key, t.cfg)
    PROVE  IsArrayOf(w, WholeOf(t))
<1>0. params.ciphertext = OfBytes(SentOf(t)) /\ (t.password => params.salt = t.salt)
  BY DEF ParamsOf, CipherParams
<1>1. w = DecryptAll(t.cipher, OfBytes(SentOf(t)), UsedKey(t), UsedCfg(t))
  <2>1. CASE t.password
    <3>1. UsedKey(t) = DerivedOf(t).key /\ UsedCfg(t) = [t.cfg EXCEPT !.iv = DerivedOf(t).iv]
      BY <2>1 DEF UsedKey, UsedCfg
    <3>2. DecryptDerived(t.cipher, OfBytes(SentOf(t)), DerivedOf(t), t.cfg)
             = DecryptAll(t.cipher, OfBytes(SentOf(t)), UsedKey(t), UsedCfg(t))
      BY <3>1, Zenon DEF DecryptDerived
    <3>3. PasswordDecrypt(t.cipher, params, t.key, t.cfg) = DecryptDerived(t.cipher, OfBytes(SentOf(t)), DerivedOf(t), t.cfg)
      BY <1>0, <2>1, Zenon DEF PasswordDecrypt, DerivedOf
    <3> QED
      BY <2>1, <3>2, <3>3, Zenon
  <2>2. CASE ~t.password
    BY <1>0, <2>2, Zenon DEF UsedKey, UsedCfg
  <2> QED
    BY <2>1, <2>2
<1>2. IsArrayOf(DecryptAll(t.cipher, OfBytes(SentOf(t)), UsedKey(t), UsedCfg(t)), WholeOf(t))
  BY JobAtOnce, Zenon
<1> QED
  BY <1>1, <1>2, Zenon

\* The text of a job gives the cipher text back.
LEMMA TextIsParsed ==
    ASSUME NEW t, Known(t), NEW w, IsArrayOf(w, SentOf(t))
    PROVE  Parsed(t.form, Stringified(t.form, ParamsOf(t, w))) = ParamsOf(t, OfBytes(SentOf(t)))
<1>1. w \in Arrays /\ Bytes(w) = SentOf(t)
  BY Zenon DEF IsArrayOf
<1>2. t \in CipherJobs
  BY Zenon DEF Known
<1>3. t.form \in {"OpenSSL", "Hex", "Page"} /\ (t.password => t.form = "OpenSSL")
  BY <1>2, CipherJobAssumption
<1>4. CASE t.password
  <2>1. Salty(t.salt)
    BY <1>2, <1>4, CipherJobAssumption DEF Salty
  <2>2. OpenSSLParse(OpenSSLStringify(CipherParams(w, t.salt))) = CipherParams(OfBytes(Bytes(w)), t.salt)
    BY <1>1, <2>1, SaltedParsed
  <2>3. \A params : Parsed("OpenSSL", Stringified("OpenSSL", params)) = OpenSSLParse(OpenSSLStringify(params))
    BY <1>1, WireIs, Zenon
  <2> QED
    BY <1>1, <1>3, <1>4, <2>2, <2>3, Zenon DEF ParamsOf
<1>5. CASE ~t.password /\ t.form = "OpenSSL"
  <2> DEFINE v == EncryptAll(t.cipher, OfBytes(SubSeq(Message, 1, t.size)), t.key, t.cfg, t.fill)
  <2>1. Block(OfBytes(Bytes(v)).words, 0, 2) # Salted
    BY <1>2, <1>5, SaltAssumption, Zenon
  <2>2. IsArrayOf(v, SentOf(t))
    BY <1>5, EncryptedAtOnce, Zenon DEF WholeOf
  <2> HIDE DEF v
  <2>3. Bytes(v) = Bytes(w)
    BY <1>1, <2>2, Zenon DEF IsArrayOf
  <2>4. Block(OfBytes(Bytes(w)).words, 0, 2) # Salted
    BY <2>1, <2>3, Zenon
  <2>5. OpenSSLParse(OpenSSLStringify(CipherParams(w, NoSalt))) = CipherParams(OfBytes(Bytes(w)), NoSalt)
    BY <1>1, <2>4, UnsaltedParsed
  <2>6. \A params : Parsed("OpenSSL", Stringified("OpenSSL", params)) = OpenSSLParse(OpenSSLStringify(params))
    BY <1>1, WireIs, Zenon
  <2> QED
    BY <1>1, <1>5, <2>5, <2>6, Zenon DEF ParamsOf
<1>6. CASE ~t.password /\ t.form \in {"Hex", "Page"}
  <2>1. /\ Parsed("Hex", Stringified("Hex", CipherParams(w, NoSalt))) = CipherParams(OfBytes(Bytes(w)), NoSalt)
        /\ Parsed("Page", Stringified("Page", CipherParams(w, NoSalt))) = CipherParams(OfBytes(Bytes(w)), NoSalt)
    BY <1>1, WireIs, Zenon
  <2>2. t.form = "Hex" \/ t.form = "Page"
    BY <1>6
  <2> QED
    BY <1>1, <1>6, <2>1, <2>2, Zenon DEF ParamsOf
<1> QED
  BY <1>3, <1>4, <1>5, <1>6

\* What an object holds while it is at work.
LEMMA WorkTyped ==
    ASSUME NEW c, c.cipher \in CipherNames, NEW b, NEW f, NEW D, NEW o, NEW n, NEW out, Progress(c, b, f, D, o, n, out)
    PROVE  /\ o.run \in RunStates(c.cipher) /\ o.data \in Arrays /\ out \in Arrays
           /\ o.cipher = c.cipher /\ o.forward = c.forward /\ o.cfg = c.cfg
<1>1. PICK a, q : Come(c, b, f, o, a, n)
  BY Zenon DEF Progress
<1>2. o \in Alike(c)
  BY <1>1, Zenon DEF Come
<1>3. /\ o.run \in ProperRuns(c.cipher, c.cfg.mode) /\ o.data \in Arrays
      /\ o.cipher = c.cipher /\ o.forward = c.forward /\ o.cfg = c.cfg
  <2> DEFINE R == ProperRuns(c.cipher, c.cfg.mode)
  <2>1. Alike(c) = [cipher : {c.cipher}, forward : {c.forward}, cfg : {c.cfg}, data : Arrays, nDataBytes : Nat,
                    beneath : {c.beneath}, run : R]
    BY Zenon DEF Alike
  <2> HIDE DEF R
  <2>2. o.run \in R /\ o.data \in Arrays /\ o.cipher = c.cipher /\ o.forward = c.forward /\ o.cfg = c.cfg
    BY <1>2, <2>1
  <2> QED
    BY <2>2, Zenon DEF R
<1>4. out \in Arrays
  BY Zenon DEF Progress
<1> QED
  BY <1>3, <1>4, ProperRunsAreRuns

LEMMA ObjectsOfJobs ==
    ASSUME NEW t \in CipherJobs
    PROVE  /\ EncryptorOf(t).cipher = t.cipher /\ DecryptorOf(t).cipher = t.cipher /\ t.cipher \in CipherNames
           /\ EncryptorOf(t).cfg = UsedCfg(t) /\ EncryptorOf(t).forward = TRUE
<1>1. t.cipher \in CipherNames
  BY CipherJobAssumption
<1>2. /\ EncryptorOf(t).cipher = t.cipher /\ DecryptorOf(t).cipher = t.cipher /\ EncryptorOf(t).cfg = UsedCfg(t)
      /\ EncryptorOf(t).forward = TRUE
  <2>1. /\ IsNew(EncryptorOf(t), t.cipher, TRUE, UsedKey(t), UsedCfg(t))
        /\ IsNew(DecryptorOf(t), t.cipher, FALSE, UsedKey(t), UsedCfg(t))
    BY NewCipherIs, Zenon DEF EncryptorOf, DecryptorOf
  <2> QED
    BY <2>1, Zenon DEF IsNew
<1> QED
  BY <1>1, <1>2

LEMMA KeptKeyTyped ==
    ASSUME NEW cipher, NEW key \in Arrays
    PROVE  KeyAfterReset(cipher, key) \in Arrays /\ (cipher # "Rabbit" => KeyAfterReset(cipher, key) = key)
<1>1. SwappedKey(key.words) \in Chain
  BY SwappedKeyTyped DEF Arrays
<1>2. [key EXCEPT !.words = SwappedKey(@)] \in Arrays
  BY <1>1 DEF Arrays
<1> QED
  BY <1>2 DEF KeyAfterReset

-----------------------------------------------------------------------------
(* The two pages *)

\* Where the exchange of a job is.
SenderWork ==
    /\ heldKey \in Arrays /\ (task.cipher # "Rabbit" \/ phase = "start" => heldKey = task.key)
    /\ given \in 0 .. task.size /\ produced \in Arrays
    /\ phase = "start" => given = 0 /\ produced = EmptyArray
    /\ phase = "encrypting" => /\ ~task.atOnce /\ (task.cipher = "Rabbit" => given = 0)
                               /\ EncryptorAt(task, sender, given, produced)
    /\ phase = "encrypted" => IsArrayOf(produced, SentOf(task))
    /\ phase = "sent" => Parsed(task.form, wire) = ParamsOf(task, OfBytes(SentOf(task)))
ReceiverWork ==
    /\ received.ciphertext \in Arrays /\ taken \in Nat /\ restored \in Arrays
    /\ phase \in {"start", "encrypting", "encrypted", "sent"} => taken = 0 /\ restored = EmptyArray
    /\ phase = "decrypting" => /\ received.ciphertext = OfBytes(SentOf(task))
                               /\ DecryptorAt(task, receiver, taken, restored)
    /\ phase = "done" => IsArrayOf(restored, WholeOf(task))
CipherWork == Known(task) /\ phase \in Phases \ {"hung"} /\ SenderWork /\ ReceiverWork

LEMMA PhasesDiffer ==
    /\ "start" \in Phases /\ "encrypting" \in Phases /\ "encrypted" \in Phases /\ "sent" \in Phases
    /\ "decrypting" \in Phases /\ "done" \in Phases
  BY DEF Phases

LEMMA CipherStarts ==
    ASSUME Known(task), CipherStart(task)
    PROVE  CipherWork
<1>1. task \in CipherJobs
  BY DEF Known
<1>2. task.key \in Arrays /\ task.size \in Nat
  BY <1>1, WholeIs, CipherJobAssumption
<1>3. /\ phase = "start" /\ heldKey = task.key /\ given = 0 /\ produced = EmptyArray
      /\ received = CipherParams(EmptyArray, NoSalt) /\ taken = 0 /\ restored = EmptyArray
  BY DEF CipherStart
<1>4. EmptyArray \in Arrays
  BY EmptyTyped
<1>5. 0 \in 0 .. task.size
  BY <1>2
<1>6. SenderWork
  BY <1>2, <1>3, <1>4, <1>5 DEF SenderWork
<1>7. ReceiverWork
  <2>1. received.ciphertext = EmptyArray
    BY <1>3 DEF CipherParams
  <2> QED
    BY <1>3, <1>4, <2>1 DEF ReceiverWork
<1> QED
  BY <1>3, <1>6, <1>7 DEF CipherWork, Phases

\* A job whose scripts use objects has no password.
LEMMA ObjectJobs ==
    ASSUME NEW t \in CipherJobs, ~t.atOnce
    PROVE  /\ UsedKey(t) = t.key /\ UsedCfg(t) = t.cfg /\ ~t.password
           /\ t.cipher = "Rabbit" => t.stops = {}
<1>1. ~t.password
  BY CipherJobAssumption
<1>2. t.cipher = "Rabbit" => t.stops = {}
  BY ResetAssumption
<1> QED
  BY <1>1, <1>2 DEF UsedKey, UsedCfg

LEMMA ArrayDoesNotHang ==
    ASSUME NEW w \in Arrays
    PROVE  w # Hangs
<1>1. w.sigBytes \in Nat
  BY DEF Arrays
<1>2. Hangs.sigBytes = -1000
  BY DEF Hangs, WordArray
<1> QED
  BY <1>1, <1>2

LEMMA ArrayOfIs ==
    ASSUME NEW w, NEW b, IsArrayOf(w, b)
    PROVE  w \in Arrays /\ Bytes(w) = b
  BY DEF IsArrayOf

LEMMA CreateEncryptorKeeps ==
    ASSUME CipherWork, CreateEncryptor
    PROVE  CipherWork'
<1>1. /\ Known(task) /\ SenderWork /\ ReceiverWork /\ task \in CipherJobs
  BY DEF CipherWork, Known
<1>2. /\ phase = "start" /\ ~task.atOnce /\ phase' = "encrypting"
      /\ sender' = NewCipher(task.cipher, TRUE, heldKey, task.cfg)
      /\ heldKey' = KeyAfterReset(task.cipher, heldKey)
      /\ task' = task /\ given' = given /\ produced' = produced /\ wire' = wire
      /\ received' = received /\ receiver' = receiver /\ taken' = taken /\ restored' = restored
  BY DEF CreateEncryptor, receiving
<1>3. heldKey = task.key /\ given = 0 /\ produced = EmptyArray /\ heldKey \in Arrays /\ given \in 0 .. task.size /\ produced \in Arrays
  BY <1>1, <1>2 DEF SenderWork
<1>4. heldKey' \in Arrays /\ (task.cipher # "Rabbit" => heldKey' = task.key)
  BY <1>2, <1>3, KeptKeyTyped
<1>5. sender' = EncryptorOf(task)
  BY <1>1, <1>2, <1>3, ObjectJobs DEF EncryptorOf
<1>6. EncryptorAt(task, sender', given', produced')
  <2>1. EncryptorAt(task, EncryptorOf(task), 0, EmptyArray)
    BY <1>1, EncryptorStarts
  <2> QED
    BY <1>2, <1>3, <1>5, <2>1, Zenon
<1>7. SenderWork'
  BY <1>2, <1>3, <1>4, <1>6 DEF SenderWork
<1>8. ReceiverWork'
  BY <1>1, <1>2 DEF ReceiverWork
<1> QED
  BY <1>1, <1>2, <1>7, <1>8, PhasesDiffer DEF CipherWork

LEMMA EncryptPieceKeeps ==
    ASSUME CipherWork, NEW n \in task.stops, EncryptPiece(n)
    PROVE  CipherWork'
<1>1. /\ Known(task) /\ SenderWork /\ ReceiverWork /\ task \in CipherJobs
  BY DEF CipherWork, Known
<1> DEFINE r == Feed(sender, Slice(Message, given, n))
<1>0. r = Feed(sender, Slice(Message, given, n))
  OBVIOUS
<1> HIDE DEF r
<1>2. /\ phase = "encrypting" /\ n > given /\ n <= task.size /\ phase' = phase
      /\ sender' = r.o /\ produced' = Concat(produced, r.out) /\ given' = n
      /\ task' = task /\ heldKey' = heldKey /\ wire' = wire
      /\ received' = received /\ receiver' = receiver /\ taken' = taken /\ restored' = restored
  BY <1>0 DEF EncryptPiece, receiving, Encrypts
<1>3. /\ ~task.atOnce /\ EncryptorAt(task, sender, given, produced) /\ given \in 0 .. task.size
      /\ heldKey \in Arrays /\ (task.cipher # "Rabbit" => heldKey = task.key)
  BY <1>1, <1>2 DEF SenderWork
<1>4. n \in Nat /\ task.cipher # "Rabbit" /\ task.size \in Nat
  BY <1>1, <1>3, ObjectJobs, CipherJobAssumption, WholeIs
<1>5. NextPiece(task, given, n)
  BY <1>1, <1>2, <1>3, <1>4 DEF NextPiece
<1>6. EncryptorAt(task, sender', given', produced')
  <2>1. EncryptorAt(task, r.o, n, Concat(produced, r.out))
    BY <1>0, <1>3, <1>5, EncryptorFeeds
  <2> QED
    BY <1>2, <2>1, Zenon
<1>7. produced' \in Arrays
  <2>1. EncryptorOf(task).cipher \in CipherNames
    BY <1>1, ObjectsOfJobs
  <2> QED
    BY <1>6, <2>1, WorkTyped, Zenon DEF EncryptorAt
<1>8. SenderWork'
  BY <1>2, <1>3, <1>4, <1>6, <1>7 DEF SenderWork
<1>9. ReceiverWork'
  BY <1>1, <1>2 DEF ReceiverWork
<1> QED
  BY <1>1, <1>2, <1>8, <1>9, PhasesDiffer DEF CipherWork

LEMMA FinishEncryptingKeeps ==
    ASSUME CipherWork, FinishEncrypting
    PROVE  CipherWork'
<1>1. /\ Known(task) /\ SenderWork /\ ReceiverWork /\ task \in CipherJobs
  BY DEF CipherWork, Known
<1> DEFINE r == FinalizeCipher(sender, Slice(Message, given, task.size), task.fill)
<1>0. r = FinalizeCipher(sender, Slice(Message, given, task.size), task.fill)
  OBVIOUS
<1> HIDE DEF r
<1>2. /\ phase = "encrypting" /\ phase' = "encrypted"
      /\ sender' = r.o /\ produced' = Concat(produced, r.out) /\ given' = task.size
      /\ task' = task /\ heldKey' = heldKey /\ wire' = wire
      /\ received' = received /\ receiver' = receiver /\ taken' = taken /\ restored' = restored
  BY <1>0 DEF FinishEncrypting, receiving, Encrypts
<1>3. /\ EncryptorAt(task, sender, given, produced) /\ given \in 0 .. task.size
      /\ heldKey \in Arrays /\ (task.cipher # "Rabbit" => heldKey = task.key)
  BY <1>1, <1>2 DEF SenderWork
<1>4. task.size \in Nat
  BY <1>1, WholeIs
<1>5. IsArrayOf(Concat(produced, r.out), SentOf(task))
  BY <1>0, <1>1, <1>3, EncryptorIsDone
<1>6. IsArrayOf(produced', SentOf(task)) /\ produced' \in Arrays
  BY <1>2, <1>5, ArrayOfIs, Zenon
<1>7. SenderWork'
  BY <1>2, <1>3, <1>4, <1>6 DEF SenderWork
<1>8. ReceiverWork'
  BY <1>1, <1>2 DEF ReceiverWork
<1> QED
  BY <1>1, <1>2, <1>7, <1>8, PhasesDiffer DEF CipherWork

LEMMA StartOverKeeps ==
    ASSUME CipherWork, StartOver
    PROVE  CipherWork'
<1>1. /\ Known(task) /\ SenderWork /\ ReceiverWork /\ task \in CipherJobs
  BY DEF CipherWork, Known
<1>2. /\ phase = "encrypting" /\ phase' = phase /\ given > 0
      /\ sender' = ResetCipher(sender, heldKey) /\ heldKey' = KeyAfterReset(task.cipher, heldKey)
      /\ given' = 0 /\ produced' = EmptyArray
      /\ task' = task /\ wire' = wire
      /\ received' = received /\ receiver' = receiver /\ taken' = taken /\ restored' = restored
  BY DEF StartOver, receiving
<1>3. /\ ~task.atOnce /\ EncryptorAt(task, sender, given, produced) /\ given \in 0 .. task.size
      /\ heldKey \in Arrays /\ (task.cipher # "Rabbit" => heldKey = task.key) /\ (task.cipher = "Rabbit" => given = 0)
  BY <1>1, <1>2 DEF SenderWork
<1>4. task.cipher # "Rabbit" /\ heldKey = task.key
  BY <1>2, <1>3
<1>5. heldKey' = task.key /\ heldKey' \in Arrays
  BY <1>2, <1>3, <1>4, KeptKeyTyped
<1>6. sender' = EncryptorOf(task)
  <2>1. /\ EncryptorOf(task).cipher = task.cipher /\ task.cipher \in CipherNames
        /\ EncryptorOf(task).cfg = UsedCfg(task) /\ EncryptorOf(task).forward = TRUE
    BY <1>1, ObjectsOfJobs
  <2>2. sender.cipher = EncryptorOf(task).cipher /\ sender.forward = EncryptorOf(task).forward /\ sender.cfg = EncryptorOf(task).cfg
    BY <1>3, <2>1, WorkTyped DEF EncryptorAt
  <2>3. UsedKey(task) = task.key
    BY <1>1, <1>3, ObjectJobs
  <2> QED
    BY <1>2, <1>4, <2>1, <2>2, <2>3, Zenon DEF ResetCipher, EncryptorOf
<1>7. EncryptorAt(task, sender', given', produced')
  <2>1. EncryptorAt(task, EncryptorOf(task), 0, EmptyArray)
    BY <1>1, EncryptorStarts
  <2> QED
    BY <1>2, <1>6, <2>1, Zenon
<1>8. 0 \in 0 .. task.size /\ EmptyArray \in Arrays
  BY <1>1, WholeIs, EmptyTyped
<1>9. SenderWork'
  BY <1>2, <1>3, <1>4, <1>5, <1>7, <1>8 DEF SenderWork
<1>10. ReceiverWork'
  BY <1>1, <1>2 DEF ReceiverWork
<1> QED
  BY <1>1, <1>2, <1>9, <1>10, PhasesDiffer DEF CipherWork

LEMMA EncryptAtOnceKeeps ==
    ASSUME CipherWork, EncryptAtOnce
    PROVE  CipherWork'
<1>1. /\ Known(task) /\ SenderWork /\ ReceiverWork /\ task \in CipherJobs
  BY DEF CipherWork, Known
<1>2. /\ phase = "start" /\ phase' = "encrypted"
      /\ produced' = IF task.password
                       THEN PasswordEncrypt(task.cipher, OfBytes(Whole), heldKey, task.cfg, task.salt, task.fill).ciphertext
                       ELSE EncryptAll(task.cipher, OfBytes(Whole), heldKey, task.cfg, task.fill)
      /\ given' = task.size /\ task' = task /\ heldKey' = heldKey /\ wire' = wire
      /\ received' = received /\ receiver' = receiver /\ taken' = taken /\ restored' = restored
  BY Zenon DEF EncryptAtOnce, receiving
<1>3. heldKey = task.key /\ heldKey \in Arrays
  BY <1>1, <1>2 DEF SenderWork
<1>4. Whole = WholeOf(task)
  BY DEF Whole, WholeOf
<1>5. produced' = IF task.password
                    THEN PasswordEncrypt(task.cipher, OfBytes(WholeOf(task)), task.key, task.cfg, task.salt, task.fill).ciphertext
                    ELSE EncryptAll(task.cipher, OfBytes(WholeOf(task)), task.key, task.cfg, task.fill)
  BY <1>2, <1>3, <1>4, Zenon
<1>6. IsArrayOf(produced', SentOf(task))
  BY <1>1, <1>5, EncryptedAtOnce
<1>7. produced' \in Arrays /\ task.size \in Nat
  BY <1>1, <1>6, ArrayOfIs, WholeIs
<1>8. SenderWork'
  BY <1>2, <1>3, <1>6, <1>7 DEF SenderWork
<1>9. ReceiverWork'
  BY <1>1, <1>2 DEF ReceiverWork
<1> QED
  BY <1>1, <1>2, <1>8, <1>9, PhasesDiffer DEF CipherWork

LEMMA SendKeeps ==
    ASSUME CipherWork, Send
    PROVE  CipherWork'
<1>1. /\ Known(task) /\ SenderWork /\ ReceiverWork /\ task \in CipherJobs
  BY DEF CipherWork, Known
<1>2. /\ phase = "encrypted" /\ phase' = "sent" /\ wire' = Stringified(task.form, Sent)
      /\ task' = task /\ heldKey' = heldKey /\ sender' = sender /\ given' = given /\ produced' = produced
      /\ received' = received /\ receiver' = receiver /\ taken' = taken /\ restored' = restored
  BY Zenon DEF Send, receiving, sending
<1>3. /\ heldKey \in Arrays /\ (task.cipher # "Rabbit" => heldKey = task.key)
      /\ given \in 0 .. task.size /\ produced \in Arrays /\ IsArrayOf(produced, SentOf(task))
  BY <1>1, <1>2 DEF SenderWork
<1>4. Sent = ParamsOf(task, produced)
  BY Zenon DEF Sent, ParamsOf
<1>5. Parsed(task.form, Stringified(task.form, ParamsOf(task, produced))) = ParamsOf(task, OfBytes(SentOf(task)))
  BY <1>1, <1>3, TextIsParsed
<1>6. Parsed(task.form, wire') = ParamsOf(task, OfBytes(SentOf(task)))
  BY <1>2, <1>4, <1>5, Zenon
<1>7. SenderWork'
  BY <1>2, <1>3, <1>6 DEF SenderWork
<1>8. ReceiverWork'
  BY <1>1, <1>2 DEF ReceiverWork
<1> QED
  BY <1>1, <1>2, <1>7, <1>8, PhasesDiffer DEF CipherWork

\* What the sender's variables have left when the other page is at work.
LEMMA SenderRests ==
    ASSUME SenderWork, phase \notin {"start", "encrypting", "encrypted", "sent"} \/ phase = "sent",
           phase' \in {"decrypting", "done"}, task' = task, heldKey' = heldKey, given' = given, produced' = produced
    PROVE  SenderWork'
  BY DEF SenderWork

LEMMA CreateDecryptorKeeps ==
    ASSUME CipherWork, CreateDecryptor
    PROVE  CipherWork'
<1>1. /\ Known(task) /\ SenderWork /\ ReceiverWork /\ task \in CipherJobs
  BY DEF CipherWork, Known
<1>2. /\ phase = "sent" /\ ~task.atOnce /\ phase' = "decrypting"
      /\ received' = Parsed(task.form, wire) /\ receiver' = NewCipher(task.cipher, FALSE, task.key, task.cfg)
      /\ task' = task /\ heldKey' = heldKey /\ sender' = sender /\ given' = given /\ produced' = produced
      /\ taken' = taken /\ restored' = restored
  BY Zenon DEF CreateDecryptor, sending
<1>3. Parsed(task.form, wire) = ParamsOf(task, OfBytes(SentOf(task)))
  BY <1>1, <1>2, Zenon DEF SenderWork
<1>4. taken = 0 /\ restored = EmptyArray /\ taken \in Nat /\ restored \in Arrays
  BY <1>1, <1>2 DEF ReceiverWork
<1>5. received'.ciphertext = OfBytes(SentOf(task))
  BY <1>2, <1>3 DEF ParamsOf, CipherParams
<1>6. received'.ciphertext \in Arrays
  BY <1>1, <1>5, SentIs
<1>7. receiver' = DecryptorOf(task)
  BY <1>1, <1>2, ObjectJobs DEF DecryptorOf
<1>8. DecryptorAt(task, receiver', taken', restored')
  <2>1. DecryptorAt(task, DecryptorOf(task), 0, EmptyArray)
    BY <1>1, DecryptorStarts
  <2> QED
    BY <1>2, <1>4, <1>7, <2>1, Zenon
<1>9. SenderWork'
  BY <1>1, <1>2, SenderRests
<1>10. ReceiverWork'
  BY <1>2, <1>4, <1>5, <1>6, <1>8 DEF ReceiverWork
<1> QED
  BY <1>1, <1>2, <1>9, <1>10, PhasesDiffer DEF CipherWork

LEMMA DecryptPieceKeeps ==
    ASSUME CipherWork, NEW n \in PiecesEnd, DecryptPiece(n)
    PROVE  CipherWork'
<1>1. /\ Known(task) /\ SenderWork /\ ReceiverWork /\ task \in CipherJobs
  BY DEF CipherWork, Known
<1> DEFINE e == SentOf(task)
           r == Feed(receiver, Slice(Bytes(received.ciphertext), taken, n))
<1>0. e = SentOf(task) /\ r = Feed(receiver, Slice(Bytes(received.ciphertext), taken, n))
  OBVIOUS
<1> HIDE DEF e, r
<1>2. /\ phase = "decrypting" /\ n > taken /\ n <= received.ciphertext.sigBytes /\ phase' = phase
      /\ receiver' = r.o /\ restored' = Concat(restored, r.out) /\ taken' = n
      /\ task' = task /\ heldKey' = heldKey /\ sender' = sender /\ given' = given /\ produced' = produced
      /\ received' = received
  BY <1>0 DEF DecryptPiece, Decrypts, sending
<1>3. /\ received.ciphertext = OfBytes(e) /\ DecryptorAt(task, receiver, taken, restored)
      /\ received.ciphertext \in Arrays /\ taken \in Nat
  BY <1>0, <1>1, <1>2 DEF ReceiverWork
<1>4. Bytes(received.ciphertext) = e /\ received.ciphertext.sigBytes = Len(e) /\ received.ciphertext.sigBytes \in Nat
  BY <1>0, <1>1, <1>3, SentIs
<1>5. n \in Nat /\ taken <= n /\ n <= Len(e)
  <2>1. n \in task.stops \/ n = received.ciphertext.sigBytes
    BY DEF PiecesEnd
  <2>2. n \in Nat
    BY <1>1, <1>4, <2>1, CipherJobAssumption
  <2> QED
    BY <1>2, <1>3, <1>4, <2>2
<1>6. DecryptorAt(task, receiver', taken', restored')
  <2>1. r = Feed(receiver, Slice(SentOf(task), taken, n))
    BY <1>0, <1>4, Zenon
  <2>2. DecryptorAt(task, r.o, n, Concat(restored, r.out))
    BY <1>0, <1>1, <1>3, <1>5, <2>1, DecryptorFeeds
  <2> QED
    BY <1>2, <2>2, Zenon
<1>7. restored' \in Arrays
  <2>1. DecryptorOf(task).cipher \in CipherNames
    BY <1>1, ObjectsOfJobs
  <2> QED
    BY <1>6, <2>1, WorkTyped, Zenon DEF DecryptorAt
<1>8. SenderWork'
  BY <1>1, <1>2, SenderRests
<1>9. ReceiverWork'
  BY <1>0, <1>2, <1>3, <1>5, <1>6, <1>7 DEF ReceiverWork
<1> QED
  BY <1>1, <1>2, <1>8, <1>9, PhasesDiffer DEF CipherWork

LEMMA FinishDecryptingKeeps ==
    ASSUME CipherWork, FinishDecrypting
    PROVE  CipherWork'
<1>1. /\ Known(task) /\ SenderWork /\ ReceiverWork /\ task \in CipherJobs
  BY DEF CipherWork, Known
<1> DEFINE e == SentOf(task)
           r == FinalizeCipher(receiver, Slice(Bytes(received.ciphertext), taken, received.ciphertext.sigBytes), {})
<1>0. e = SentOf(task) /\ r = FinalizeCipher(receiver, Slice(Bytes(received.ciphertext), taken, received.ciphertext.sigBytes), {})
  OBVIOUS
<1> HIDE DEF e, r
<1>2. /\ phase = "decrypting" /\ receiver' = r.o /\ Returned(r.out) /\ taken' = received.ciphertext.sigBytes
      /\ task' = task /\ heldKey' = heldKey /\ sender' = sender /\ given' = given /\ produced' = produced
      /\ received' = received
  BY <1>0, Zenon DEF FinishDecrypting, DecryptsLast, sending
<1>3. /\ received.ciphertext = OfBytes(e) /\ DecryptorAt(task, receiver, taken, restored)
      /\ received.ciphertext \in Arrays /\ taken \in Nat
  BY <1>0, <1>1, <1>2 DEF ReceiverWork
<1>4. Bytes(received.ciphertext) = e /\ received.ciphertext.sigBytes = Len(e) /\ received.ciphertext.sigBytes \in Nat
  BY <1>0, <1>1, <1>3, SentIs
<1>5. IsArrayOf(Concat(restored, r.out), WholeOf(task)) /\ r.out \in Arrays
  <2>1. r = FinalizeCipher(receiver, Slice(SentOf(task), taken, Len(SentOf(task))), {})
    BY <1>0, <1>4, Zenon
  <2> QED
    BY <1>1, <1>3, <2>1, DecryptorIsDone
<1>6. phase' = "done" /\ restored' = Concat(restored, r.out)
  <2>1. r.out # Hangs
    BY <1>5, ArrayDoesNotHang
  <2> QED
    BY <1>2, <2>1 DEF Returned
<1>7. IsArrayOf(restored', WholeOf(task)) /\ restored' \in Arrays
  BY <1>5, <1>6, ArrayOfIs, Zenon
<1>8. SenderWork'
  BY <1>1, <1>2, <1>6, SenderRests
<1>9. ReceiverWork'
  BY <1>2, <1>3, <1>4, <1>6, <1>7 DEF ReceiverWork
<1> QED
  BY <1>1, <1>2, <1>6, <1>8, <1>9, PhasesDiffer DEF CipherWork

LEMMA DecryptAtOnceKeeps ==
    ASSUME CipherWork, DecryptAtOnce
    PROVE  CipherWork'
<1>1. /\ Known(task) /\ SenderWork /\ ReceiverWork /\ task \in CipherJobs
  BY DEF CipherWork, Known
<1> DEFINE params == Parsed(task.form, wire)
           w == IF task.password THEN PasswordDecrypt(task.cipher, params, task.key, task.cfg)
                ELSE DecryptAll(task.cipher, params.ciphertext, task.key, task.cfg)
<1>0. /\ params = Parsed(task.form, wire)
      /\ w = IF task.password THEN PasswordDecrypt(task.cipher, params, task.key, task.cfg)
             ELSE DecryptAll(task.cipher, params.ciphertext, task.key, task.cfg)
  OBVIOUS
<1>2. /\ phase = "sent" /\ received' = params /\ Returned(w) /\ taken' = received'.ciphertext.sigBytes
      /\ task' = task /\ heldKey' = heldKey /\ sender' = sender /\ given' = given /\ produced' = produced
  <2>1. /\ phase = "sent" /\ received' = params /\ taken' = received'.ciphertext.sigBytes
        /\ task' = task /\ heldKey' = heldKey /\ sender' = sender /\ given' = given /\ produced' = produced
    BY Zenon DEF DecryptAtOnce, sending
  <2>2. Returned(IF task.password THEN PasswordDecrypt(task.cipher, received', task.key, task.cfg)
                 ELSE DecryptAll(task.cipher, received'.ciphertext, task.key, task.cfg))
    BY Zenon DEF DecryptAtOnce
  <2> HIDE DEF params
  <2>3. Returned(w)
    BY <2>1, <2>2, Zenon
  <2> QED
    BY <2>1, <2>3, Zenon
<1> HIDE DEF params, w
<1>3. params = ParamsOf(task, OfBytes(SentOf(task)))
  BY <1>0, <1>1, <1>2, Zenon DEF SenderWork
<1>4. restored = EmptyArray
  BY <1>1, <1>2 DEF ReceiverWork
<1>5. IsArrayOf(w, WholeOf(task))
  BY <1>0, <1>1, <1>3, DecryptedAtOnce
<1>6. w \in Arrays
  BY <1>5, ArrayOfIs
<1>7. phase' = "done" /\ restored' = Concat(EmptyArray, w)
  <2>1. w # Hangs
    BY <1>6, ArrayDoesNotHang
  <2> QED
    BY <1>2, <1>4, <2>1 DEF Returned
<1>8. IsArrayOf(restored', WholeOf(task)) /\ restored' \in Arrays
  <2>1. EmptyArray \in Arrays /\ Bytes(EmptyArray) = <<>> /\ Bytes(w) \in Seq(Byte)
    BY <1>6, EmptyBytes, BytesIs
  <2>2. Concat(EmptyArray, w) \in Arrays
    BY <1>6, <2>1, ConcatTyped
  <2>3. Bytes(Concat(EmptyArray, w)) = Bytes(EmptyArray) \o Bytes(w)
    BY <1>6, <2>1, BytesJoined
  <2>4. Bytes(Concat(EmptyArray, w)) = Bytes(w)
    BY <2>1, <2>3
  <2> QED
    BY <1>5, <1>7, <2>2, <2>4, Zenon DEF IsArrayOf
<1>9. received'.ciphertext \in Arrays /\ taken' \in Nat
  <2>1. received'.ciphertext = OfBytes(SentOf(task))
    BY <1>2, <1>3 DEF ParamsOf, CipherParams
  <2> QED
    BY <1>1, <1>2, <2>1, SentIs
<1>10. SenderWork'
  BY <1>1, <1>2, <1>7, SenderRests
<1>11. ReceiverWork'
  BY <1>2, <1>7, <1>8, <1>9 DEF ReceiverWork
<1> QED
  BY <1>1, <1>2, <1>7, <1>10, <1>11, PhasesDiffer DEF CipherWork

LEMMA CipherKeeps ==
    ASSUME CipherWork, CipherNext
    PROVE  CipherWork'
<1>1. CASE CreateEncryptor
  BY <1>1, CreateEncryptorKeeps
<1>2. CASE FinishEncrypting
  BY <1>2, FinishEncryptingKeeps
<1>3. CASE StartOver
  BY <1>3, StartOverKeeps
<1>4. CASE EncryptAtOnce
  BY <1>4, EncryptAtOnceKeeps
<1>5. CASE Send
  BY <1>5, SendKeeps
<1>6. CASE CreateDecryptor
  BY <1>6, CreateDecryptorKeeps
<1>7. CASE FinishDecrypting
  BY <1>7, FinishDecryptingKeeps
<1>8. CASE DecryptAtOnce
  BY <1>8, DecryptAtOnceKeeps
<1>9. ASSUME NEW n \in task.stops, EncryptPiece(n) PROVE CipherWork'
  BY <1>9, EncryptPieceKeeps
<1>10. ASSUME NEW n \in PiecesEnd, DecryptPiece(n) PROVE CipherWork'
  BY <1>10, DecryptPieceKeeps
<1> QED
  BY <1>1, <1>2, <1>3, <1>4, <1>5, <1>6, <1>7, <1>8, <1>9, <1>10, Zenon DEF CipherNext

\* Either the page digests, or its job is at work.
CipherInv == (task = NoTask /\ CipherStart(NoTask)) \/ CipherWork

LEMMA CipherInvStarts ==
    ASSUME BlockFunctionsAreTyped, BlockCiphersInvert, ScriptsInit
    PROVE  CipherInv
<1>1. CASE CipherStart(NoTask)
  BY <1>1 DEF CipherStart, CipherInv
<1>2. ASSUME NEW first \in CipherJobs, CipherStart(first) PROVE CipherInv
  <2>1. task = first
    BY <1>2, Zenon DEF CipherStart
  <2>2. Known(task)
    BY <2>1, JobsAreKnown
  <2>3. CipherStart(task)
    BY <1>2, <2>1, Zenon
  <2> QED
    BY <2>2, <2>3, CipherStarts DEF CipherInv
<1> QED
  BY <1>1, <1>2, Zenon DEF ScriptsInit, CipherInit

LEMMA CipherInvKept ==
    ASSUME CipherInv, [ScriptsNext]_<<hvars, cvars>>
    PROVE  CipherInv'
<1>1. CASE UNCHANGED cvars
  <2>1. /\ task' = task /\ phase' = phase /\ heldKey' = heldKey /\ sender' = sender /\ given' = given /\ produced' = produced
        /\ wire' = wire /\ received' = received /\ receiver' = receiver /\ taken' = taken /\ restored' = restored
    BY <1>1 DEF cvars
  <2>2. ASSUME task = NoTask, CipherStart(NoTask) PROVE task' = NoTask /\ CipherStart(NoTask)'
    BY <2>1, <2>2 DEF CipherStart
  <2>3. ASSUME CipherWork PROVE CipherWork'
    BY <2>1, <2>3 DEF CipherWork, SenderWork, ReceiverWork
  <2> QED
    BY <2>2, <2>3 DEF CipherInv
<1>2. CASE task # NoTask /\ CipherNext
  <2>1. CipherWork
    BY <1>2 DEF CipherInv
  <2> QED
    BY <1>2, <2>1, CipherKeeps DEF CipherInv
<1> QED
  BY <1>1, <1>2 DEF ScriptsNext

LEMMA CipherInvTyped ==
    ASSUME CipherInv
    PROVE  CipherTypeOK
<1>0. \A w : w \in Arrays => IsArray(w)
  BY DEF IsArray, Arrays
<1>1. CASE task = NoTask /\ CipherStart(NoTask)
  <2>1. EmptyArray \in Arrays
    BY EmptyTyped
  <2>2. /\ phase = "start" /\ heldKey = EmptyArray /\ given = 0 /\ produced = EmptyArray /\ task.size = 0
        /\ received = CipherParams(EmptyArray, NoSalt) /\ taken = 0 /\ restored = EmptyArray
    BY <1>1 DEF CipherStart, NoTask
  <2>3. received.ciphertext = EmptyArray
    BY <2>2 DEF CipherParams
  <2> QED
    BY <1>0, <2>1, <2>2, <2>3 DEF CipherTypeOK, Phases
<1>2. CASE CipherWork
  <2>1. Known(task) /\ phase \in Phases /\ SenderWork /\ ReceiverWork /\ task \in CipherJobs
    BY <1>2 DEF CipherWork, Known
  <2>2. heldKey \in Arrays /\ produced \in Arrays /\ restored \in Arrays /\ received.ciphertext \in Arrays
    BY <2>1 DEF SenderWork, ReceiverWork
  <2>3. given \in 0 .. task.size /\ taken \in Nat
    BY <2>1 DEF SenderWork, ReceiverWork
  <2>4. EncryptorOf(task).cipher = task.cipher /\ DecryptorOf(task).cipher = task.cipher /\ task.cipher \in CipherNames
    BY <2>1, ObjectsOfJobs
  <2>5. ASSUME phase = "encrypting" PROVE sender.run \in RunStates(task.cipher) /\ sender.data \in Arrays
    <3>1. EncryptorAt(task, sender, given, produced)
      BY <2>1, <2>5 DEF SenderWork
    <3>2. sender.run \in RunStates(EncryptorOf(task).cipher) /\ sender.data \in Arrays
      BY <2>4, <3>1, WorkTyped DEF EncryptorAt
    <3> QED
      BY <2>4, <3>2, Zenon
  <2>6. ASSUME phase = "decrypting" PROVE receiver.run \in RunStates(task.cipher) /\ receiver.data \in Arrays
    <3>1. DecryptorAt(task, receiver, taken, restored)
      BY <2>1, <2>6 DEF ReceiverWork
    <3>2. receiver.run \in RunStates(DecryptorOf(task).cipher) /\ receiver.data \in Arrays
      BY <2>4, <3>1, WorkTyped DEF DecryptorAt
    <3> QED
      BY <2>4, <3>2, Zenon
  <2> QED
    BY <1>0, <2>1, <2>2, <2>3, <2>5, <2>6, Zenon DEF CipherTypeOK
<1> QED
  BY <1>1, <1>2 DEF CipherInv

LEMMA CipherInvGives ==
    ASSUME CipherInv
    PROVE  DecryptRestores /\ NeverReleasesPadding /\ EveryCallReturns
<1>1. CASE task = NoTask /\ CipherStart(NoTask)
  <2>1. phase = "start"
    BY <1>1 DEF CipherStart
  <2> QED
    BY <2>1 DEF DecryptRestores, NeverReleasesPadding, EveryCallReturns
<1>2. CASE CipherWork
  <2>1. Known(task) /\ phase # "hung" /\ ReceiverWork
    BY <1>2 DEF CipherWork
  <2>2. Whole = WholeOf(task)
    BY DEF Whole, WholeOf
  <2>3. DecryptRestores
    <3>1. SUFFICES ASSUME phase = "done" PROVE Bytes(restored) = Whole
      BY DEF DecryptRestores
    <3>2. IsArrayOf(restored, WholeOf(task))
      BY <2>1, <3>1 DEF ReceiverWork
    <3> QED
      BY <2>2, <3>2, ArrayOfIs, Zenon
  <2>4. NeverReleasesPadding
    <3>1. SUFFICES ASSUME phase = "decrypting" PROVE StartsWith(Whole, Bytes(restored))
      BY DEF NeverReleasesPadding
    <3>2. DecryptorAt(task, receiver, taken, restored)
      BY <2>1, <3>1 DEF ReceiverWork
    <3> QED
      BY <2>1, <2>2, <3>2, DecryptorKeepsPadding
  <2> QED
    BY <2>1, <2>3, <2>4 DEF EveryCallReturns
<1> QED
  BY <1>1, <1>2 DEF CipherInv

LEMMA CipherInvariant ==
    ASSUME BlockFunctionsAreTyped, BlockCiphersInvert
    PROVE  ScriptsSpec => []CipherInv
<1>1. ScriptsInit => CipherInv
  BY CipherInvStarts
<1>2. CipherInv /\ [ScriptsNext]_<<hvars, cvars>> => CipherInv'
  BY CipherInvKept
<1> QED
  BY <1>1, <1>2, PTL DEF ScriptsSpec

\* The state of the two pages is of the types that their scripts need,
\* whatever the cipher, its mode, its padding and the cuts.
THEOREM CipherTypesHold ==
    ASSUME DoProcessBlock = BlockFunctions, BlockCiphersInvert
    PROVE  ScriptsSpec => []CipherTypeOK
<1>0. BlockFunctionsAreTyped
  BY BlockFunctionsTyped
<1>1. ScriptsSpec => []CipherInv
  BY <1>0, CipherInvariant
<1>2. CipherInv => CipherTypeOK
  BY CipherInvTyped
<1> QED
  BY <1>1, <1>2, PTL

\* What the other page ends with is the message: every cipher, in every mode
\* and with every padding, given and taken in whatever pieces, in any of the
\* text forms, with a key or with a password.
THEOREM TheMessageIsRestored ==
    ASSUME DoProcessBlock = BlockFunctions, BlockCiphersInvert
    PROVE  ScriptsSpec => []DecryptRestores
<1>0. BlockFunctionsAreTyped
  BY BlockFunctionsTyped
<1>1. ScriptsSpec => []CipherInv
  BY <1>0, CipherInvariant
<1>2. CipherInv => DecryptRestores
  BY CipherInvGives
<1> QED
  BY <1>1, <1>2, PTL

\* Before it is finalized a decryptor has returned bytes of the message only.
THEOREM PaddingIsKeptBack ==
    ASSUME DoProcessBlock = BlockFunctions, BlockCiphersInvert
    PROVE  ScriptsSpec => []NeverReleasesPadding
<1>0. BlockFunctionsAreTyped
  BY BlockFunctionsTyped
<1>1. ScriptsSpec => []CipherInv
  BY <1>0, CipherInvariant
<1>2. CipherInv => NeverReleasesPadding
  BY CipherInvGives
<1> QED
  BY <1>1, <1>2, PTL

\* No loop of an unpad goes on for ever.
THEOREM CallsReturn ==
    ASSUME DoProcessBlock = BlockFunctions, BlockCiphersInvert
    PROVE  ScriptsSpec => []EveryCallReturns
<1>0. BlockFunctionsAreTyped
  BY BlockFunctionsTyped
<1>1. ScriptsSpec => []CipherInv
  BY <1>0, CipherInvariant
<1>2. CipherInv => EveryCallReturns
  BY CipherInvGives
<1> QED
  BY <1>1, <1>2, PTL
=============================================================================
