--------------------------- MODULE RoundTripProofs ---------------------------
(***************************************************************************)
(* What is made of bytes is made into the same bytes again.                *)
(*                                                                         *)
(* Text forms: hex, Latin1, base 64 in the two alphabets and UTF-16 in the *)
(* two orders give the significant bytes of any array, so of every digest, *)
(* HMAC or key a script is given. The round trips are lemmas about the     *)
(* encoders, word by word and bit by bit; then the results of a script are *)
(* arrays, whichever call gave them: the objects, the shortcuts, PBKDF2,   *)
(* EvpKDF and the SHA-1 of sha1.js.                                        *)
(*                                                                         *)
(* Cipher objects: a decryptor undoes the blocks of an encryptor, one by   *)
(* one, however they are cut into calls: for each mode of a block cipher   *)
(* that decrypts what it encrypts, and for the stream ciphers.             *)
(***************************************************************************)
EXTENDS PageScriptsProofs

-----------------------------------------------------------------------------
(* Numbers and bytes *)

LEMMA PowersOfTwo ==
    /\ 2^0 = 1 /\ 2^1 = 2 /\ 2^2 = 4 /\ 2^3 = 8 /\ 2^4 = 16 /\ 2^5 = 32 /\ 2^6 = 64 /\ 2^7 = 128
    /\ 2^8 = 256 /\ 2^9 = 512 /\ 2^10 = 1024 /\ 2^11 = 2048 /\ 2^12 = 4096 /\ 2^13 = 8192 /\ 2^14 = 16384
    /\ 2^15 = 32768
OBVIOUS

\* The bits of a number below 256, one by one.
LEMMA BitByBit ==
    ASSUME NEW n \in 0 .. 255
    PROVE  /\ 0 \in BitsOf(n) <=> n % 2 = 1
           /\ 1 \in BitsOf(n) <=> (n \div 2) % 2 = 1
           /\ 2 \in BitsOf(n) <=> (n \div 4) % 2 = 1
           /\ 3 \in BitsOf(n) <=> (n \div 8) % 2 = 1
           /\ 4 \in BitsOf(n) <=> (n \div 16) % 2 = 1
           /\ 5 \in BitsOf(n) <=> (n \div 32) % 2 = 1
           /\ 6 \in BitsOf(n) <=> (n \div 64) % 2 = 1
           /\ 7 \in BitsOf(n) <=> (n \div 128) % 2 = 1
           /\ BitsOf(n) \in Byte
<1>1. /\ 0 \in BitsOf(n) <=> n % 2 = 1
      /\ 1 \in BitsOf(n) <=> (n \div 2) % 2 = 1
  BY PowersOfTwo DEF BitsOf
<1>2. /\ 2 \in BitsOf(n) <=> (n \div 4) % 2 = 1
      /\ 3 \in BitsOf(n) <=> (n \div 8) % 2 = 1
  BY PowersOfTwo DEF BitsOf
<1>3. /\ 4 \in BitsOf(n) <=> (n \div 16) % 2 = 1
      /\ 5 \in BitsOf(n) <=> (n \div 32) % 2 = 1
  BY PowersOfTwo DEF BitsOf
<1>4. /\ 6 \in BitsOf(n) <=> (n \div 64) % 2 = 1
      /\ 7 \in BitsOf(n) <=> (n \div 128) % 2 = 1
  BY PowersOfTwo DEF BitsOf
<1>5. ASSUME NEW i \in BitsOf(n) PROVE i \in 0 .. 7
  <2>1. i \in 0 .. 15 /\ (n \div 2^i) % 2 = 1
    BY DEF BitsOf
  <2>2. SUFFICES ASSUME i \in {8, 9, 10, 11, 12, 13, 14, 15} PROVE FALSE
    BY <2>1
  <2>3. /\ n \div 2^8 = 0 /\ n \div 2^9 = 0 /\ n \div 2^10 = 0 /\ n \div 2^11 = 0
        /\ n \div 2^12 = 0 /\ n \div 2^13 = 0 /\ n \div 2^14 = 0 /\ n \div 2^15 = 0
    BY PowersOfTwo
  <2> DEFINE q(k) == n \div 2^k
  <2>4. q(8) = 0 /\ q(9) = 0 /\ q(10) = 0 /\ q(11) = 0 /\ q(12) = 0 /\ q(13) = 0 /\ q(14) = 0 /\ q(15) = 0
    BY <2>3
  <2>5. q(i) % 2 = 1
    BY <2>1
  <2> HIDE DEF q
  <2>6. q(i) = 0
    BY <2>2, <2>4
  <2> QED
    BY <2>5, <2>6
<1> QED
  BY <1>1, <1>2, <1>3, <1>4, <1>5 DEF Byte

\* A sum of eight bits, each at its place, has these bits.
LEMMA EightBits ==
    ASSUME NEW x0 \in {0, 1}, NEW x1 \in {0, 1}, NEW x2 \in {0, 1}, NEW x3 \in {0, 1},
           NEW x4 \in {0, 1}, NEW x5 \in {0, 1}, NEW x6 \in {0, 1}, NEW x7 \in {0, 1}
    PROVE  LET n == x0 + 2 * x1 + 4 * x2 + 8 * x3 + 16 * x4 + 32 * x5 + 64 * x6 + 128 * x7
           IN  /\ n \in 0 .. 255
               /\ x6 = 0 /\ x7 = 0 => n \in 0 .. 63
               /\ n % 2 = x0 /\ (n \div 2) % 2 = x1 /\ (n \div 4) % 2 = x2 /\ (n \div 8) % 2 = x3
               /\ (n \div 16) % 2 = x4 /\ (n \div 32) % 2 = x5 /\ (n \div 64) % 2 = x6 /\ (n \div 128) % 2 = x7
<1> DEFINE n == x0 + 2 * x1 + 4 * x2 + 8 * x3 + 16 * x4 + 32 * x5 + 64 * x6 + 128 * x7
<1>1. n \in 0 .. 255 /\ (x6 = 0 /\ x7 = 0 => n \in 0 .. 63)
  OBVIOUS
<1>2. n \div 2 = x1 + 2 * x2 + 4 * x3 + 8 * x4 + 16 * x5 + 32 * x6 + 64 * x7 /\ n % 2 = x0
  OBVIOUS
<1>3. n \div 4 = x2 + 2 * x3 + 4 * x4 + 8 * x5 + 16 * x6 + 32 * x7
  OBVIOUS
<1>4. n \div 8 = x3 + 2 * x4 + 4 * x5 + 8 * x6 + 16 * x7
  OBVIOUS
<1>5. n \div 16 = x4 + 2 * x5 + 4 * x6 + 8 * x7
  OBVIOUS
<1>6. n \div 32 = x5 + 2 * x6 + 4 * x7 /\ n \div 64 = x6 + 2 * x7 /\ n \div 128 = x7
  OBVIOUS
<1>7. (n \div 2) % 2 = x1 /\ (n \div 4) % 2 = x2 /\ (n \div 8) % 2 = x3
  BY <1>2, <1>3, <1>4
<1>8. (n \div 16) % 2 = x4 /\ (n \div 32) % 2 = x5 /\ (n \div 64) % 2 = x6 /\ (n \div 128) % 2 = x7
  BY <1>5, <1>6
<1> QED
  BY <1>1, <1>2, <1>7, <1>8

\* The number of a byte, and the byte of this number.
LEMMA NumberIs ==
    ASSUME NEW b \in Byte
    PROVE  /\ NumberOf(b) \in 0 .. 255
           /\ BitsOf(NumberOf(b)) = b
           /\ b \subseteq 0 .. 5 => NumberOf(b) \in 0 .. 63
<1> DEFINE x(i) == IF i \in b THEN 1 ELSE 0
           n == x(0) + 2 * x(1) + 4 * x(2) + 8 * x(3) + 16 * x(4) + 32 * x(5) + 64 * x(6) + 128 * x(7)
<1>1. NumberOf(b) = n
  BY DEF NumberOf
<1>2. \A i \in 0 .. 7 : x(i) \in {0, 1} /\ (x(i) = 1 <=> i \in b)
  OBVIOUS
<1>3. b \subseteq 0 .. 5 => x(6) = 0 /\ x(7) = 0
  OBVIOUS
<1> HIDE DEF x
<1>4. /\ n \in 0 .. 255
      /\ x(6) = 0 /\ x(7) = 0 => n \in 0 .. 63
      /\ n % 2 = x(0) /\ (n \div 2) % 2 = x(1) /\ (n \div 4) % 2 = x(2) /\ (n \div 8) % 2 = x(3)
      /\ (n \div 16) % 2 = x(4) /\ (n \div 32) % 2 = x(5) /\ (n \div 64) % 2 = x(6) /\ (n \div 128) % 2 = x(7)
  BY <1>2, EightBits
<1> HIDE DEF n
<1>5. BitsOf(n) \in Byte /\ \A i \in 0 .. 7 : i \in BitsOf(n) <=> i \in b
  <2>1. /\ 0 \in BitsOf(n) <=> 0 \in b
        /\ 1 \in BitsOf(n) <=> 1 \in b
        /\ 2 \in BitsOf(n) <=> 2 \in b
        /\ 3 \in BitsOf(n) <=> 3 \in b
        /\ 4 \in BitsOf(n) <=> 4 \in b
        /\ 5 \in BitsOf(n) <=> 5 \in b
        /\ 6 \in BitsOf(n) <=> 6 \in b
        /\ 7 \in BitsOf(n) <=> 7 \in b
    BY <1>2, <1>4, BitByBit
  <2>2. BitsOf(n) \in Byte
    BY <1>4, BitByBit
  <2> QED
    BY <2>1, <2>2
<1>6. BitsOf(n) = b
  BY <1>5 DEF Byte
<1> QED
  BY <1>1, <1>3, <1>4, <1>6

\* Clamping changes no significant byte.
LEMMA ClampKeepsBytes ==
    ASSUME NEW w \in Arrays
    PROVE  Bytes(Clamp(w)) = Bytes(w)
<1> DEFINE n == WordsFor(w.sigBytes)
           kept(k) == IF k = w.sigBytes \div 4
                      THEN At(w.words, k) \cap (32 - 8 * (w.sigBytes % 4)) .. 31
                      ELSE At(w.words, k)
           f == [k \in 1 .. n |-> kept(k - 1)]
           c == Clamp(w)
<1>1. w.words \in Chain /\ w.sigBytes \in Nat /\ n \in Nat
  BY WordsForIs DEF Arrays
<1>2. c \in Arrays /\ c.sigBytes = w.sigBytes /\ Len(c.words) = n
  BY ClampIs
<1>3. c.words = f
  <2>1. f \in [1 .. n -> Word32]
    <3>1. \A k \in 1 .. n : At(w.words, k - 1) \in Word32
      BY <1>1, AtIs
    <3>2. \A k \in 1 .. n : kept(k - 1) \in Word32
      BY <3>1 DEF Word32
    <3> QED
      BY <3>2
  <2>2. c = WordArray(f, w.sigBytes)
    BY DEF Clamp
  <2> HIDE DEF f, c
  <2> QED
    BY <1>1, <2>1, <2>2, Listed DEF WordArray
<1>4. ASSUME NEW i \in 1 .. w.sigBytes
      PROVE  ByteAt(At(c.words, (i - 1) \div 4), (i - 1) % 4) = ByteAt(At(w.words, (i - 1) \div 4), (i - 1) % 4)
  <2> DEFINE k == (i - 1) \div 4
             j == (i - 1) % 4
             x == At(w.words, k)
             m == w.sigBytes % 4
  <2>1. k \in Nat /\ j \in 0 .. 3 /\ 4 * k < w.sigBytes /\ k + 1 \in 1 .. n
        /\ (k = w.sigBytes \div 4 => j < m) /\ m \in 0 .. 3
    <3>1. k \in Nat /\ j \in 0 .. 3 /\ 4 * k < w.sigBytes /\ (k = w.sigBytes \div 4 => j < m) /\ m \in 0 .. 3
      BY <1>1
    <3> HIDE DEF k
    <3>2. k < n
      BY <1>1, <3>1, WordsForIs
    <3> QED
      BY <1>1, <3>1, <3>2
  <2>2. x \in Word32
    BY <1>1, <2>1, AtIs
  <2>3. At(c.words, k) = kept(k)
    <3> HIDE DEF k, c
    <3>1. k \in 0 .. Len(c.words) - 1
      BY <1>1, <1>2, <2>1
    <3>2. c.words[k + 1] = kept((k + 1) - 1)
      BY <1>3, <2>1
    <3> QED
      BY <2>1, <3>1, <3>2 DEF At
  <2> HIDE DEF k, j, m
  <2>4. ByteAt(kept(k), j) = ByteAt(x, j)
    <3>1. CASE k # w.sigBytes \div 4
      BY <3>1
    <3>2. CASE k = w.sigBytes \div 4
      <4>1. kept(k) = x \cap (32 - 8 * m) .. 31
        BY <3>2 DEF m
      <4>2. j < m
        BY <2>1, <3>2
      <4>3. \A p \in (24 - 8 * j) .. (31 - 8 * j) : p \in (32 - 8 * m) .. 31
        BY <2>1, <4>2
      <4> HIDE DEF x
      <4>4. kept(k) \cap (24 - 8 * j) .. (31 - 8 * j) = x \cap (24 - 8 * j) .. (31 - 8 * j)
        BY <4>1, <4>3
      <4> QED
        BY <4>4 DEF ByteAt
    <3> QED
      BY <3>1, <3>2
  <2> QED
    BY <2>3, <2>4 DEF k, j
<1> HIDE DEF c
<1>5. \A i \in 1 .. w.sigBytes : Bytes(c)[i] = Bytes(w)[i]
  BY <1>2, <1>4, BytesIs
<1>6. Bytes(c) \in Seq(Byte) /\ Bytes(w) \in Seq(Byte) /\ Len(Bytes(c)) = Len(Bytes(w)) /\ Len(Bytes(w)) = w.sigBytes
  BY <1>2, BytesIs
<1>7. Bytes(c) = Bytes(w)
  BY <1>5, <1>6, SameSeq
<1> QED
  BY <1>7 DEF c

-----------------------------------------------------------------------------
(* The text forms of an array *)

LEMMA HexRoundTrip ==
    ASSUME NEW w \in Arrays
    PROVE  HexParse(HexStringify(w)) = OfBytes(Bytes(w))
<1> DEFINE b == Bytes(w)
<1>1. b \in Seq(Byte) /\ Len(b) = w.sigBytes
  BY BytesIs
<1> HIDE DEF b
<1>2. OfBytes(b).sigBytes = w.sigBytes /\ Bytes(OfBytes(b)) = b
  BY <1>1, OfBytesIs, BytesOfBytes
<1>3. HexStringify(w) = HexStringify(OfBytes(b))
  BY <1>2 DEF HexStringify, b
<1> QED
  BY <1>1, <1>3, HexGivesBack DEF b

LEMMA Latin1RoundTrip ==
    ASSUME NEW w \in Arrays
    PROVE  Latin1Parse(Latin1Stringify(w)) = OfBytes(Bytes(w))
<1>1. Bytes(w) \in Seq(Byte)
  BY BytesIs
<1> QED
  BY <1>1, Latin1GivesBack DEF Latin1Stringify

\* The two halves of a word and its bytes.
LEMMA HalvesOfWord ==
    ASSUME NEW x \in Word32, NEW hi, NEW lo, hi = {p - 16 : p \in x \cap 16 .. 31}, lo = x \cap 0 .. 15
    PROVE  /\ hi \in Char /\ lo \in Char
           /\ ByteAt(x, 0) = {p - 8 : p \in hi \cap 8 .. 15} /\ ByteAt(x, 1) = hi \cap 0 .. 7
           /\ ByteAt(x, 2) = {p - 8 : p \in lo \cap 8 .. 15} /\ ByteAt(x, 3) = lo \cap 0 .. 7
<1>1. \A p \in x : p \in Int
  BY DEF Word32, Places
<1>2. hi \in Char /\ lo \in Char
  BY <1>1 DEF Char
<1>3. ByteAt(x, 0) = {p - 24 : p \in x \cap 24 .. 31} /\ ByteAt(x, 1) = {p - 16 : p \in x \cap 16 .. 23}
      /\ ByteAt(x, 2) = {p - 8 : p \in x \cap 8 .. 15} /\ ByteAt(x, 3) = {p - 0 : p \in x \cap 0 .. 7}
  BY DEF ByteAt
<1>4. {p - 24 : p \in x \cap 24 .. 31} = {p - 8 : p \in hi \cap 8 .. 15}
  <2>1. ASSUME NEW q \in x \cap 24 .. 31 PROVE q - 24 \in {p - 8 : p \in hi \cap 8 .. 15}
    <3>1. q - 16 \in hi \cap 8 .. 15 /\ q - 24 = (q - 16) - 8
      BY <1>1
    <3> QED
      BY <3>1
  <2>2. ASSUME NEW q \in hi \cap 8 .. 15 PROVE q - 8 \in {p - 24 : p \in x \cap 24 .. 31}
    <3>1. PICK r \in x \cap 16 .. 31 : q = r - 16
      OBVIOUS
    <3>2. r \in x \cap 24 .. 31 /\ q - 8 = r - 24
      BY <3>1
    <3> QED
      BY <3>2
  <2> QED
    BY <2>1, <2>2
<1>5. {p - 16 : p \in x \cap 16 .. 23} = hi \cap 0 .. 7
  <2>1. ASSUME NEW q \in x \cap 16 .. 23 PROVE q - 16 \in hi \cap 0 .. 7
    BY <1>1
  <2>2. ASSUME NEW q \in hi \cap 0 .. 7 PROVE q \in {p - 16 : p \in x \cap 16 .. 23}
    <3>1. PICK r \in x \cap 16 .. 31 : q = r - 16
      OBVIOUS
    <3>2. r \in x \cap 16 .. 23
      BY <3>1
    <3> QED
      BY <3>1, <3>2
  <2> QED
    BY <2>1, <2>2
<1>6. {p - 8 : p \in x \cap 8 .. 15} = {p - 8 : p \in lo \cap 8 .. 15}
  <2>1. x \cap 8 .. 15 = lo \cap 8 .. 15
    BY <1>1
  <2> QED
    BY <2>1
<1>7. {p - 0 : p \in x \cap 0 .. 7} = lo \cap 0 .. 7
  <2>1. x \cap 0 .. 7 = lo \cap 0 .. 7
    BY <1>1
  <2>2. {p - 0 : p \in x \cap 0 .. 7} = x \cap 0 .. 7
    OBVIOUS
  <2> QED
    BY <2>1, <2>2
<1> QED
  BY <1>2, <1>3, <1>4, <1>5, <1>6, <1>7

LEMMA WordOfHalves ==
    ASSUME NEW hi \in Char, NEW lo \in Char
    PROVE  /\ {p + 16 : p \in hi} \cup lo \in Word32
           /\ {p - 16 : p \in ({p + 16 : p \in hi} \cup lo) \cap 16 .. 31} = hi
           /\ ({p + 16 : p \in hi} \cup lo) \cap 0 .. 15 = lo
<1> DEFINE u == {p + 16 : p \in hi}
           x == u \cup lo
<1>1. (\A p \in hi : p \in 0 .. 15) /\ (\A p \in lo : p \in 0 .. 15)
  BY DEF Char
<1>2. \A q \in u : q \in 16 .. 31 /\ q - 16 \in hi
  BY <1>1
<1>3. x \in Word32
  BY <1>1, <1>2 DEF Word32, Places
<1>4. x \cap 16 .. 31 = u
  BY <1>1, <1>2
<1>5. {p - 16 : p \in u} = hi
  <2>1. ASSUME NEW q \in u PROVE q - 16 \in hi
    BY <1>2
  <2>2. ASSUME NEW q \in hi PROVE q \in {p - 16 : p \in u}
    <3>1. q + 16 \in u /\ (q + 16) - 16 = q
      BY <1>1
    <3> QED
      BY <3>1
  <2> QED
    BY <2>1, <2>2
<1>6. x \cap 0 .. 15 = lo
  BY <1>1, <1>2
<1> QED
  BY <1>3, <1>4, <1>5, <1>6

\* Code unit i of an array, by its bytes.
LEMMA HalfIs ==
    ASSUME NEW w \in Arrays, NEW i \in Nat
    PROVE  /\ HalfAt(w, i) \in Char
           /\ i % 2 = 0 => HalfAt(w, i) = {p - 16 : p \in At(w.words, i \div 2) \cap 16 .. 31}
           /\ i % 2 = 1 => HalfAt(w, i) = At(w.words, i \div 2) \cap 0 .. 15
<1> DEFINE x == At(w.words, i \div 2)
<1>1. x \in Word32
  BY AtIs DEF Arrays
<1>2. HalfAt(w, i) = {p - (16 - 16 * (i % 2)) : p \in x \cap (16 - 16 * (i % 2)) .. (31 - 16 * (i % 2))}
  BY DEF HalfAt
<1> HIDE DEF x
<1>3. i % 2 = 0 \/ i % 2 = 1
  OBVIOUS
<1>4. i % 2 = 0 => HalfAt(w, i) = {p - 16 : p \in x \cap 16 .. 31}
  BY <1>2
<1>5. i % 2 = 1 => HalfAt(w, i) = x \cap 0 .. 15
  <2>1. {p - 0 : p \in x \cap 0 .. 15} = x \cap 0 .. 15
    OBVIOUS
  <2> QED
    BY <1>2, <2>1
<1>6. HalfAt(w, i) \in Char
  BY <1>1, <1>3, <1>4, <1>5, HalvesOfWord
<1> QED
  BY <1>4, <1>5, <1>6 DEF x

\* The bytes of a word that is put together from two code units.
LEMMA PairIs ==
    ASSUME NEW hi \in Char, NEW lo \in Char
    PROVE  LET y == {p + 16 : p \in hi} \cup lo
           IN  /\ y \in Word32
               /\ ByteAt(y, 0) = {p - 8 : p \in hi \cap 8 .. 15} /\ ByteAt(y, 1) = hi \cap 0 .. 7
               /\ ByteAt(y, 2) = {p - 8 : p \in lo \cap 8 .. 15} /\ ByteAt(y, 3) = lo \cap 0 .. 7
<1> DEFINE y == {p + 16 : p \in hi} \cup lo
<1>1. y \in Word32 /\ {p - 16 : p \in y \cap 16 .. 31} = hi /\ y \cap 0 .. 15 = lo
  BY WordOfHalves
<1> HIDE DEF y
<1>2. /\ ByteAt(y, 0) = {p - 8 : p \in hi \cap 8 .. 15} /\ ByteAt(y, 1) = hi \cap 0 .. 7
      /\ ByteAt(y, 2) = {p - 8 : p \in lo \cap 8 .. 15} /\ ByteAt(y, 3) = lo \cap 0 .. 7
  BY <1>1, HalvesOfWord
<1> QED
  BY <1>1, <1>2 DEF y

\* A digest of an even number of bytes survives UTF-16.
LEMMA Utf16RoundTrip ==
    ASSUME NEW w \in Arrays, w.sigBytes % 2 = 0
    PROVE  Utf16Parse(Utf16Stringify(w)) = OfBytes(Bytes(w))
<1> DEFINE N == w.sigBytes
           m == (N + 1) \div 2
           b == Bytes(w)
           units == Utf16Stringify(w)
           L == (m + 1) \div 2
           word(k) == {p + 16 : p \in units[2 * k - 1]} \cup (IF 2 * k <= m THEN units[2 * k] ELSE {})
           f == [k \in 1 .. L |-> word(k)]
<1>1. N \in Nat /\ w.words \in Chain
  BY DEF Arrays
<1>2. m \in Nat /\ N = 2 * m /\ L \in Nat /\ L = WordsFor(N)
  <2>1. m \in Nat /\ N = 2 * m
    BY <1>1
  <2> HIDE DEF m, N
  <2> QED
    BY <2>1 DEF WordsFor
<1>3. b \in Seq(Byte) /\ Len(b) = N /\ \A i \in 1 .. N : b[i] = ByteAt(At(w.words, (i - 1) \div 4), (i - 1) % 4)
  BY BytesIs
<1>4. units = [i \in 1 .. m |-> HalfAt(w, i - 1)] /\ Len(units) = m
  <2> DEFINE g == [i \in 1 .. m |-> HalfAt(w, i - 1)]
  <2>1. \A i \in 1 .. m : i - 1 \in Nat
    BY <1>2
  <2>2. g \in [1 .. m -> Char]
    BY <2>1, HalfIs
  <2>3. units = g
    BY DEF Utf16Stringify
  <2> HIDE DEF g, m, units
  <2>4. Len(g) = m
    BY <1>2, <2>2, Listed
  <2> QED
    BY <2>3, <2>4 DEF g
<1> HIDE DEF m, L
<1>5. ASSUME NEW k \in 1 .. L
      PROVE  /\ word(k) \in Word32
             /\ \A j \in 0 .. 3 : ByteAt(word(k), j) = ByteOf(b, 4 * (k - 1) + j)
  <2> DEFINE x == At(w.words, k - 1)
             e == IF 2 * k <= m THEN 2 ELSE 1
             hi == units[2 * k - 1]
             lo == IF 2 * k <= m THEN units[2 * k] ELSE {}
  <2>1. /\ 2 * k - 1 \in 1 .. m /\ (2 * k - 1) - 1 \in Nat /\ ((2 * k - 1) - 1) % 2 = 0
        /\ ((2 * k - 1) - 1) \div 2 = k - 1
        /\ 2 * k <= m => 2 * k \in 1 .. m
        /\ 2 * k - 1 \in Nat /\ (2 * k - 1) % 2 = 1 /\ (2 * k - 1) \div 2 = k - 1
    BY <1>2 DEF L
  <2>2. x \in Word32
    BY <1>1, <1>2, AtIs
  <2>3. hi = {p - 16 : p \in x \cap 16 .. 31}
    <3>1. hi = HalfAt(w, (2 * k - 1) - 1)
      BY <1>4, <2>1
    <3> QED
      BY <2>1, <3>1, HalfIs
  <2>4. 2 * k <= m => units[2 * k] = x \cap 0 .. 15
    <3>1. 2 * k <= m => units[2 * k] = HalfAt(w, 2 * k - 1)
      BY <1>4, <2>1
    <3> QED
      BY <2>1, <3>1, HalfIs
  <2>5. lo = (IF e = 2 THEN x \cap 0 .. 15 ELSE {}) /\ e \in {1, 2}
    <3>1. CASE 2 * k <= m
      <4>1. e = 2 /\ lo = units[2 * k]
        BY <3>1
      <4> QED
        BY <2>4, <3>1, <4>1
    <3>2. CASE ~ (2 * k <= m)
      BY <3>2
    <3> QED
      BY <3>1, <3>2
  <2> HIDE DEF x, hi, lo, e
  <2> DEFINE low == x \cap 0 .. 15
             y == {p + 16 : p \in hi} \cup lo
  <2>9. /\ hi \in Char /\ low \in Char
        /\ ByteAt(x, 0) = {p - 8 : p \in hi \cap 8 .. 15} /\ ByteAt(x, 1) = hi \cap 0 .. 7
        /\ ByteAt(x, 2) = {p - 8 : p \in low \cap 8 .. 15} /\ ByteAt(x, 3) = low \cap 0 .. 7
    BY <2>2, <2>3, HalvesOfWord
  <2>10. (e = 2 => lo = low) /\ (e = 1 => lo = {})
    BY <2>5
  <2> HIDE DEF low
  <2>11. lo \in Char
    BY <2>5, <2>9, <2>10 DEF Char
  <2>12. /\ y \in Word32
         /\ ByteAt(y, 0) = {p - 8 : p \in hi \cap 8 .. 15} /\ ByteAt(y, 1) = hi \cap 0 .. 7
         /\ ByteAt(y, 2) = {p - 8 : p \in lo \cap 8 .. 15} /\ ByteAt(y, 3) = lo \cap 0 .. 7
    BY <2>9, <2>11, PairIs
  <2> HIDE DEF y
  <2>13. ByteAt(y, 0) = ByteAt(x, 0) /\ ByteAt(y, 1) = ByteAt(x, 1)
    BY <2>9, <2>12
  <2>14. e = 2 => ByteAt(y, 2) = ByteAt(x, 2) /\ ByteAt(y, 3) = ByteAt(x, 3)
    BY <2>9, <2>10, <2>12
  <2>15. e = 1 => ByteAt(y, 2) = {} /\ ByteAt(y, 3) = {}
    BY <2>10, <2>12
  <2>6. y \in Word32 /\ \A j \in 0 .. 3 : ByteAt(y, j) = IF j < 2 * e THEN ByteAt(x, j) ELSE {}
    <3>1. CASE e = 2
      <4>1. \A j \in 0 .. 3 : ByteAt(y, j) = ByteAt(x, j)
        BY <2>13, <2>14, <3>1
      <4> QED
        BY <2>12, <3>1, <4>1
    <3>2. CASE e = 1
      <4>1. \A j \in 0 .. 3 : ByteAt(y, j) = IF j < 2 THEN ByteAt(x, j) ELSE {}
        BY <2>13, <2>15, <3>2
      <4> QED
        BY <2>12, <3>2, <4>1
    <3> QED
      BY <2>5, <3>1, <3>2
  <2>7. word(k) = y
    BY DEF y, hi, lo
  <2>8. ASSUME NEW j \in 0 .. 3 PROVE (IF j < 2 * e THEN ByteAt(x, j) ELSE {}) = ByteOf(b, 4 * (k - 1) + j)
    <3>1. j < 2 * e <=> 4 * (k - 1) + j < N
      BY <1>2, <2>1 DEF e
    <3>2. CASE j < 2 * e
      <4> DEFINE i == 4 * (k - 1) + j + 1
      <4>1. i \in 1 .. N /\ (i - 1) \div 4 = k - 1 /\ (i - 1) % 4 = j
        BY <1>2, <3>1, <3>2
      <4>2. b[i] = ByteAt(x, j)
        BY <1>3, <4>1 DEF x
      <4> QED
        BY <1>3, <3>1, <3>2, <4>2 DEF ByteOf
    <3>3. CASE ~ (j < 2 * e)
      BY <1>3, <3>1, <3>3 DEF ByteOf
    <3> QED
      BY <3>2, <3>3
  <2> QED
    BY <2>6, <2>7, <2>8
<1>6. f \in [1 .. L -> Word32]
  BY <1>5
<1>7. Utf16Parse(units) = WordArray(f, N)
  BY <1>2, <1>4 DEF Utf16Parse, Utf16Words, L
<1> HIDE DEF word, units
<1>8. /\ WordArray(f, N) \in Arrays /\ WordArray(f, N).sigBytes = N /\ Len(WordArray(f, N).words) = L
      /\ \A k \in 0 .. L - 1 : At(WordArray(f, N).words, k) = f[k + 1]
  <2> HIDE DEF f, N
  <2>1. f \in Chain /\ Len(f) = L
    BY <1>2, <1>6, Listed DEF Chain
  <2>2. WordArray(f, N) = [words |-> f, sigBytes |-> N] /\ WordArray(f, N) \in Arrays
    BY <1>1, <2>1, ArrayIs
  <2> QED
    BY <2>1, <2>2, AtIs
<1>9. ASSUME NEW k \in Nat, NEW j \in 0 .. 3, k < L
      PROVE  ByteAt(At(WordArray(f, N).words, k), j) = ByteOf(b, 4 * k + j)
  <2>1. k + 1 \in 1 .. L /\ (k + 1) - 1 = k /\ k \in 0 .. L - 1
    BY <1>2, <1>9
  <2>2. At(WordArray(f, N).words, k) = word(k + 1)
    BY <1>8, <2>1
  <2>3. \A i \in 0 .. 3 : ByteAt(word(k + 1), i) = ByteOf(b, 4 * ((k + 1) - 1) + i)
    BY <1>5, <2>1
  <2> QED
    BY <2>1, <2>2, <2>3
<1> HIDE DEF f, b
<1>10. WordArray(f, N) = OfBytes(b)
  BY <1>2, <1>3, <1>8, <1>9, IsOfBytes
<1> QED
  BY <1>7, <1>10 DEF units, b

LEMMA SwapEndianTwice ==
    ASSUME NEW x \in Char
    PROVE  SwapEndian(SwapEndian(x)) = x /\ SwapEndian(x) \in Char
<1> DEFINE y == {p + 8 : p \in x \cap 0 .. 7} \cup {p - 8 : p \in x \cap 8 .. 15}
<1>1. \A p \in x : p \in 0 .. 7 \/ p \in 8 .. 15
  BY DEF Char
<1>2. \A z \in Char : z \cap (0..7 \cup 16..23) = z \cap 0..7 /\ z \cap (8..15 \cup 24..31) = z \cap 8..15
  <2>1. SUFFICES ASSUME NEW z \in Char PROVE z \cap (0..7 \cup 16..23) = z \cap 0..7 /\ z \cap (8..15 \cup 24..31) = z \cap 8..15
    OBVIOUS
  <2>2. \A p \in z : p \in 0 .. 15
    BY DEF Char
  <2> QED
    BY <2>2
<1>3. \A z \in Char : SwapEndian(z) = {p + 8 : p \in z \cap 0 .. 7} \cup {p - 8 : p \in z \cap 8 .. 15}
  BY <1>2 DEF SwapEndian
<1>4. \A q \in y : (q \in 8 .. 15 /\ q - 8 \in x) \/ (q \in 0 .. 7 /\ q + 8 \in x)
  OBVIOUS
<1>5. y \in Char
  BY <1>4 DEF Char
<1>6. {p + 8 : p \in y \cap 0 .. 7} \cup {p - 8 : p \in y \cap 8 .. 15} = x
  <2>1. ASSUME NEW q \in {p + 8 : p \in y \cap 0 .. 7} \cup {p - 8 : p \in y \cap 8 .. 15} PROVE q \in x
    BY <1>4
  <2>2. ASSUME NEW q \in x PROVE q \in {p + 8 : p \in y \cap 0 .. 7} \cup {p - 8 : p \in y \cap 8 .. 15}
    <3>1. CASE q \in 0 .. 7
      <4>1. q + 8 \in y \cap 8 .. 15 /\ q = (q + 8) - 8
        BY <3>1
      <4> QED
        BY <4>1
    <3>2. CASE q \in 8 .. 15
      <4>1. q - 8 \in y \cap 0 .. 7 /\ q = (q - 8) + 8
        BY <3>2
      <4> QED
        BY <4>1
    <3> QED
      BY <1>1, <3>1, <3>2
  <2> QED
    BY <2>1, <2>2
<1> HIDE DEF y
<1> QED
  BY <1>3, <1>5, <1>6 DEF y

LEMMA Utf16LERoundTrip ==
    ASSUME NEW w \in Arrays, w.sigBytes % 2 = 0
    PROVE  Utf16LEParse(Utf16LEStringify(w)) = OfBytes(Bytes(w))
<1> DEFINE m == (w.sigBytes + 1) \div 2
           le == Utf16LEStringify(w)
           be == Utf16Stringify(w)
<1>1. m \in Nat
  BY DEF Arrays
<1>2. be = [i \in 1 .. m |-> HalfAt(w, i - 1)] /\ le = [i \in 1 .. m |-> SwapEndian(HalfAt(w, i - 1))]
  BY DEF Utf16Stringify, Utf16LEStringify
<1>3. ASSUME NEW i \in 1 .. m
      PROVE  HalfAt(w, i - 1) \in Char /\ SwapEndian(HalfAt(w, i - 1)) \in Char /\ SwapEndian(SwapEndian(HalfAt(w, i - 1))) = HalfAt(w, i - 1)
  <2>1. HalfAt(w, i - 1) \in Char
    BY <1>1, HalfIs
  <2> QED
    BY <2>1, SwapEndianTwice
<1> HIDE DEF m, le, be
<1>4. be \in [1 .. m -> Char] /\ le \in [1 .. m -> Char]
  BY <1>2, <1>3
<1>5. Len(be) = m /\ Len(le) = m /\ DOMAIN le = 1 .. m
  BY <1>1, <1>4, Listed
<1>6. [i \in DOMAIN le |-> SwapEndian(le[i])] = be
  BY <1>2, <1>3, <1>5
<1>7. Utf16LEParse(le) = Utf16Parse(be)
  BY <1>5, <1>6 DEF Utf16LEParse, Utf16Parse
<1>8. Utf16Parse(Utf16Stringify(w)) = OfBytes(Bytes(w))
  BY Utf16RoundTrip
<1> QED
  BY <1>7, <1>8 DEF le, be

-----------------------------------------------------------------------------
(* Base64 *)

\* The two alphabets tell their characters apart, and from the padding.
LEMMA AlphabetIs ==
    ASSUME NEW map \in {Map, PageMap}
    PROVE  /\ \A k \in 0 .. 64 : map[k] \in 0 .. 65
           /\ \A k \in 0 .. 63 : map[k] # map[Pad] /\ IndexOf(map, map[k]) = k
<1>1. \A k \in 0 .. 64 : map[k] = k \/ (k = 62 /\ map[k] = 65)
  <2>1. Map = [k \in 0 .. 64 |-> k] /\ PageMap = [Map EXCEPT ![62] = 65]
    BY DEF Map, PageMap, Underscore
  <2> QED
    BY <2>1
<1>2. map[Pad] = 64
  BY <1>1 DEF Pad
<1>3. ASSUME NEW k \in 0 .. 63 PROVE IndexOf(map, map[k]) = k
  <2>1. \A i \in 0 .. 63 : map[i] = map[k] => i = k
    BY <1>1
  <2>2. \E i \in 0 .. 63 : map[i] = map[k]
    OBVIOUS
  <2>3. IndexOf(map, map[k]) = CHOOSE i \in 0 .. 63 : map[i] = map[k]
    BY <2>2 DEF IndexOf
  <2> QED
    BY <2>1, <2>2, <2>3
<1>4. \A k \in 0 .. 63 : map[k] # map[Pad]
  BY <1>1, <1>2
<1>5. \A k \in 0 .. 64 : map[k] \in 0 .. 65
  BY <1>1
<1> QED
  BY <1>3, <1>4, <1>5

\* The six bits of character k, counted from 1, of the bytes b.
ThreeBytes(x, y, z) == {p + 16 : p \in x} \cup {p + 8 : p \in y} \cup z
Sextet(b, k) ==
    LET low == 6 * (3 - ((k - 1) % 4))
        i == 3 * ((k - 1) \div 4)
    IN  {p - low : p \in ThreeBytes(ByteOf(b, i), ByteOf(b, i + 1), ByteOf(b, i + 2)) \cap low .. (low + 5)}

LEMMA ByteOfTyped ==
    ASSUME NEW b \in Seq(Byte), NEW i \in Nat
    PROVE  ByteOf(b, i) \in Byte
<1>1. {} \in Byte
  BY DEF Byte
<1> QED
  BY <1>1 DEF ByteOf

LEMMA ThreeBytesAre ==
    ASSUME NEW x \in Byte, NEW y \in Byte, NEW z \in Byte
    PROVE  /\ \A n \in Int : n \in ThreeBytes(x, y, z) <=> (n - 16 \in x \/ n - 8 \in y \/ n \in z)
           /\ \A n \in Int : n \in x \/ n \in y \/ n \in z => n \in 0 .. 7
           /\ \A n \in ThreeBytes(x, y, z) : n \in Int
<1>1. (\A p \in x : p \in 0 .. 7) /\ (\A p \in y : p \in 0 .. 7) /\ (\A p \in z : p \in 0 .. 7)
  BY DEF Byte
<1>2. ASSUME NEW n \in Int PROVE n \in {p + 16 : p \in x} <=> n - 16 \in x
  <2>1. n - 16 \in x => n \in {p + 16 : p \in x}
    <3>1. n = (n - 16) + 16
      OBVIOUS
    <3> QED
      BY <3>1
  <2>2. n \in {p + 16 : p \in x} => n - 16 \in x
    BY <1>1
  <2> QED
    BY <2>1, <2>2
<1>3. ASSUME NEW n \in Int PROVE n \in {p + 8 : p \in y} <=> n - 8 \in y
  <2>1. n - 8 \in y => n \in {p + 8 : p \in y}
    <3>1. n = (n - 8) + 8
      OBVIOUS
    <3> QED
      BY <3>1
  <2>2. n \in {p + 8 : p \in y} => n - 8 \in y
    BY <1>1
  <2> QED
    BY <2>1, <2>2
<1>4. \A n \in ThreeBytes(x, y, z) : n \in Int
  BY <1>1 DEF ThreeBytes
<1>5. \A n \in Int : n \in ThreeBytes(x, y, z) <=> (n - 16 \in x \/ n - 8 \in y \/ n \in z)
  BY <1>2, <1>3 DEF ThreeBytes
<1> QED
  BY <1>1, <1>4, <1>5

LEMMA SextetIs ==
    ASSUME NEW b \in Seq(Byte), NEW q \in Nat
    PROVE  /\ \A n \in Int : n \in Sextet(b, 4 * q + 1) <=> n \in 0 .. 5 /\ n + 2 \in ByteOf(b, 3 * q)
           /\ \A n \in Int : n \in Sextet(b, 4 * q + 2)
                               <=> n \in 0 .. 5 /\ (n - 4 \in ByteOf(b, 3 * q) \/ n + 4 \in ByteOf(b, 3 * q + 1))
           /\ \A n \in Int : n \in Sextet(b, 4 * q + 3)
                               <=> n \in 0 .. 5 /\ (n - 2 \in ByteOf(b, 3 * q + 1) \/ n + 6 \in ByteOf(b, 3 * q + 2))
           /\ \A n \in Int : n \in Sextet(b, 4 * q + 4) <=> n \in 0 .. 5 /\ n \in ByteOf(b, 3 * q + 2)
           /\ \A c \in 1 .. 4 : Sextet(b, 4 * q + c) \subseteq 0 .. 5
<1> DEFINE x == ByteOf(b, 3 * q)
           y == ByteOf(b, 3 * q + 1)
           z == ByteOf(b, 3 * q + 2)
           T3 == ThreeBytes(x, y, z)
<1>1. x \in Byte /\ y \in Byte /\ z \in Byte
  BY ByteOfTyped
<1>2. ASSUME NEW c \in 1 .. 4
      PROVE  Sextet(b, 4 * q + c) = {p - 6 * (4 - c) : p \in T3 \cap (6 * (4 - c)) .. (6 * (4 - c) + 5)}
  <2>1. ((4 * q + c) - 1) % 4 = c - 1 /\ ((4 * q + c) - 1) \div 4 = q
    OBVIOUS
  <2>2. 6 * (3 - (c - 1)) = 6 * (4 - c)
    OBVIOUS
  <2> QED
    BY <2>1, <2>2 DEF Sextet
<1> HIDE DEF x, y, z
<1>3. /\ \A n \in Int : n \in T3 <=> (n - 16 \in x \/ n - 8 \in y \/ n \in z)
      /\ \A n \in Int : n \in x \/ n \in y \/ n \in z => n \in 0 .. 7
      /\ \A n \in T3 : n \in Int
  BY <1>1, ThreeBytesAre
<1> HIDE DEF T3
<1>4. ASSUME NEW low \in Nat, NEW n \in Int
      PROVE  n \in {p - low : p \in T3 \cap low .. (low + 5)} <=> n \in 0 .. 5 /\ n + low \in T3
  <2>1. ASSUME n \in 0 .. 5, n + low \in T3 PROVE n \in {p - low : p \in T3 \cap low .. (low + 5)}
    <3>1. n + low \in T3 \cap low .. (low + 5) /\ n = (n + low) - low
      BY <2>1
    <3> QED
      BY <3>1
  <2>2. ASSUME n \in {p - low : p \in T3 \cap low .. (low + 5)} PROVE n \in 0 .. 5 /\ n + low \in T3
    <3>1. PICK p \in T3 \cap low .. (low + 5) : n = p - low
      BY <2>2
    <3>2. n + low = p
      BY <1>3, <3>1
    <3> QED
      BY <1>3, <3>1, <3>2
  <2> QED
    BY <2>1, <2>2
<1> DEFINE From(low) == {p - low : p \in T3 \cap low .. (low + 5)}
<1>15. \A c \in 1 .. 4 : Sextet(b, 4 * q + c) = From(6 * (4 - c))
  BY <1>2
<1>16. \A low \in Nat, n \in Int : n \in From(low) <=> n \in 0 .. 5 /\ n + low \in T3
  BY <1>4
<1>17. \A low \in Nat : From(low) \subseteq Int
  BY <1>3
<1> HIDE DEF From
<1>18. /\ Sextet(b, 4 * q + 1) = From(18) /\ Sextet(b, 4 * q + 2) = From(12)
       /\ Sextet(b, 4 * q + 3) = From(6) /\ Sextet(b, 4 * q + 4) = From(0)
  <2>1. 6 * (4 - 1) = 18 /\ 6 * (4 - 2) = 12 /\ 6 * (4 - 3) = 6 /\ 6 * (4 - 4) = 0
    OBVIOUS
  <2> QED
    BY <1>15, <2>1
<1>5. \A n \in Int : n \in Sextet(b, 4 * q + 1) <=> n \in 0 .. 5 /\ n + 18 \in T3
  BY <1>16, <1>18
<1>6. \A n \in Int : n \in Sextet(b, 4 * q + 2) <=> n \in 0 .. 5 /\ n + 12 \in T3
  BY <1>16, <1>18
<1>7. \A n \in Int : n \in Sextet(b, 4 * q + 3) <=> n \in 0 .. 5 /\ n + 6 \in T3
  BY <1>16, <1>18
<1>8. \A n \in Int : n \in Sextet(b, 4 * q + 4) <=> n \in 0 .. 5 /\ n + 0 \in T3
  BY <1>16, <1>18
<1>9. ASSUME NEW n \in 0 .. 5
      PROVE  /\ n + 18 \in T3 <=> n + 2 \in x
             /\ n + 12 \in T3 <=> (n - 4 \in x \/ n + 4 \in y)
             /\ n + 6 \in T3 <=> (n - 2 \in y \/ n + 6 \in z)
             /\ n + 0 \in T3 <=> n \in z
  <2>1. n + 18 \in T3 <=> n + 2 \in x
    <3>1. n + 18 \in T3 <=> ((n + 18) - 16 \in x \/ (n + 18) - 8 \in y \/ n + 18 \in z)
      BY <1>3
    <3>2. (n + 18) - 16 = n + 2 /\ (n + 18) - 8 = n + 10 /\ n + 10 \notin 0 .. 7 /\ n + 18 \notin 0 .. 7
      OBVIOUS
    <3> QED
      BY <1>3, <3>1, <3>2
  <2>2. n + 12 \in T3 <=> (n - 4 \in x \/ n + 4 \in y)
    <3>1. n + 12 \in T3 <=> ((n + 12) - 16 \in x \/ (n + 12) - 8 \in y \/ n + 12 \in z)
      BY <1>3
    <3>2. (n + 12) - 16 = n - 4 /\ (n + 12) - 8 = n + 4 /\ n + 12 \notin 0 .. 7
      OBVIOUS
    <3> QED
      BY <1>3, <3>1, <3>2
  <2>3. n + 6 \in T3 <=> (n - 2 \in y \/ n + 6 \in z)
    <3>1. n + 6 \in T3 <=> ((n + 6) - 16 \in x \/ (n + 6) - 8 \in y \/ n + 6 \in z)
      BY <1>3
    <3>2. (n + 6) - 16 = n - 10 /\ (n + 6) - 8 = n - 2 /\ n - 10 \notin 0 .. 7
      OBVIOUS
    <3> QED
      BY <1>3, <3>1, <3>2
  <2>4. n + 0 \in T3 <=> n \in z
    <3>1. n + 0 \in T3 <=> ((n + 0) - 16 \in x \/ (n + 0) - 8 \in y \/ n + 0 \in z)
      BY <1>3
    <3>2. (n + 0) - 16 \notin 0 .. 7 /\ (n + 0) - 8 \notin 0 .. 7 /\ n + 0 = n
      OBVIOUS
    <3> QED
      BY <1>3, <3>1, <3>2
  <2> QED
    BY <2>1, <2>2, <2>3, <2>4
<1>10. \A c \in 1 .. 4 : Sextet(b, 4 * q + c) \subseteq 0 .. 5
  <2>1. SUFFICES ASSUME NEW c \in 1 .. 4, NEW n \in Sextet(b, 4 * q + c) PROVE n \in 0 .. 5
    OBVIOUS
  <2>2. n \in Int
    <3>1. 6 * (4 - c) \in Nat
      OBVIOUS
    <3> QED
      BY <1>15, <1>17, <3>1
  <2>3. c = 1 \/ c = 2 \/ c = 3 \/ c = 4
    OBVIOUS
  <2> QED
    BY <1>5, <1>6, <1>7, <1>8, <2>2, <2>3
<1>11. \A n \in Int : n \in Sextet(b, 4 * q + 1) <=> n \in 0 .. 5 /\ n + 2 \in x
  BY <1>5, <1>9
<1>12. \A n \in Int : n \in Sextet(b, 4 * q + 2) <=> n \in 0 .. 5 /\ (n - 4 \in x \/ n + 4 \in y)
  BY <1>6, <1>9
<1>13. \A n \in Int : n \in Sextet(b, 4 * q + 3) <=> n \in 0 .. 5 /\ (n - 2 \in y \/ n + 6 \in z)
  BY <1>7, <1>9
<1>14. \A n \in Int : n \in Sextet(b, 4 * q + 4) <=> n \in 0 .. 5 /\ n \in z
  BY <1>8, <1>9
<1> QED
  BY <1>10, <1>11, <1>12, <1>13, <1>14, Zenon DEF x, y, z

\* What two characters are combined to: the byte that ends in the second, and
\* above it bits of the byte before.
Combined(s, t, r) == Shl(s, 2 * r) \cup Shr(t, 6 - 2 * r)

LEMMA CombinedIs ==
    ASSUME NEW s \in SUBSET (0 .. 5), NEW t \in SUBSET (0 .. 5), NEW r \in 1 .. 3
    PROVE  /\ \A n \in Int : n \in Combined(s, t, r) <=> (n - 2 * r \in s \/ (n \in Nat /\ n + (6 - 2 * r) \in t))
           /\ Combined(s, t, r) \subseteq 0 .. 15
<1> DEFINE d == 2 * r
           e == 6 - 2 * r
<1>1. d \in 2 .. 6 /\ e \in 0 .. 4
  OBVIOUS
<1>2. (\A p \in s : p \in 0 .. 5) /\ (\A p \in t : p \in 0 .. 5)
  OBVIOUS
<1> HIDE DEF d, e
<1>3. ASSUME NEW n \in Int PROVE n \in Shl(s, d) <=> n - d \in s
  <2>1. ASSUME n - d \in s PROVE n \in Shl(s, d)
    <3>1. n - d \in s \cap 0 .. (31 - d) /\ n = (n - d) + d
      BY <1>1, <1>2, <2>1
    <3> QED
      BY <3>1 DEF Shl
  <2>2. ASSUME n \in Shl(s, d) PROVE n - d \in s
    <3>1. PICK p \in s \cap 0 .. (31 - d) : n = p + d
      BY <2>2 DEF Shl
    <3>2. n - d = p
      BY <1>1, <3>1
    <3> QED
      BY <3>2
  <2> QED
    BY <2>1, <2>2
<1>4. ASSUME NEW n \in Int PROVE n \in Shr(t, e) <=> (n \in Nat /\ n + e \in t)
  <2>1. ASSUME n \in Nat, n + e \in t PROVE n \in Shr(t, e)
    <3>1. n + e \in t \cap e .. 31 /\ n = (n + e) - e
      BY <1>1, <1>2, <2>1
    <3> QED
      BY <3>1 DEF Shr
  <2>2. ASSUME n \in Shr(t, e) PROVE n \in Nat /\ n + e \in t
    <3>1. PICK p \in t \cap e .. 31 : n = p - e
      BY <2>2 DEF Shr
    <3>2. n + e = p /\ n \in Nat
      BY <1>1, <3>1
    <3> QED
      BY <3>2
  <2> QED
    BY <2>1, <2>2
<1>5. ASSUME NEW n \in Combined(s, t, r) PROVE n \in 0 .. 15
  <2>1. CASE n \in Shl(s, d)
    <3>1. PICK p \in s \cap 0 .. (31 - d) : n = p + d
      BY <2>1 DEF Shl
    <3> QED
      BY <1>1, <1>2, <3>1
  <2>2. CASE n \in Shr(t, e)
    <3>1. PICK p \in t \cap e .. 31 : n = p - e
      BY <2>2 DEF Shr
    <3> QED
      BY <1>1, <1>2, <3>1
  <2> QED
    BY <2>1, <2>2 DEF Combined, d, e
<1>6. \A n \in Int : n \in Combined(s, t, r) <=> (n - d \in s \/ (n \in Nat /\ n + e \in t))
  BY <1>3, <1>4 DEF Combined, d, e
<1> QED
  BY <1>5, <1>6 DEF d, e

LEMMA CombinedAre ==
    ASSUME NEW s \in SUBSET (0 .. 5), NEW t \in SUBSET (0 .. 5), NEW n \in 0 .. 15
    PROVE  /\ n \in Combined(s, t, 1) <=> (n - 2 \in s \/ n + 4 \in t)
           /\ n \in Combined(s, t, 2) <=> (n - 4 \in s \/ n + 2 \in t)
           /\ n \in Combined(s, t, 3) <=> (n - 6 \in s \/ n \in t)
<1>1. n \in Nat /\ n \in Int
  OBVIOUS
<1>2. ASSUME NEW r \in 1 .. 3
      PROVE  n \in Combined(s, t, r) <=> (n - 2 * r \in s \/ n + (6 - 2 * r) \in t)
  BY <1>1, CombinedIs
<1>3. n \in Combined(s, t, 1) <=> (n - 2 \in s \/ n + 4 \in t)
  <2>1. n - 2 * 1 = n - 2 /\ n + (6 - 2 * 1) = n + 4 /\ 1 \in 1 .. 3
    OBVIOUS
  <2>2. n \in Combined(s, t, 1) <=> (n - 2 * 1 \in s \/ n + (6 - 2 * 1) \in t)
    BY <1>2, <2>1
  <2> QED
    BY <2>1, <2>2, Zenon
<1>4. n \in Combined(s, t, 2) <=> (n - 4 \in s \/ n + 2 \in t)
  <2>1. n - 2 * 2 = n - 4 /\ n + (6 - 2 * 2) = n + 2 /\ 2 \in 1 .. 3
    OBVIOUS
  <2>2. n \in Combined(s, t, 2) <=> (n - 2 * 2 \in s \/ n + (6 - 2 * 2) \in t)
    BY <1>2, <2>1
  <2> QED
    BY <2>1, <2>2, Zenon
<1>5. n \in Combined(s, t, 3) <=> (n - 6 \in s \/ n \in t)
  <2>1. n - 2 * 3 = n - 6 /\ n + (6 - 2 * 3) = n /\ 3 \in 1 .. 3
    OBVIOUS
  <2>2. n \in Combined(s, t, 3) <=> (n - 2 * 3 \in s \/ n + (6 - 2 * 3) \in t)
    BY <1>2, <2>1
  <2> QED
    BY <2>1, <2>2, Zenon
<1> QED
  BY <1>3, <1>4, <1>5

\* Byte j of the bytes, and bits of the byte before it.
LEMMA CombinedGives ==
    ASSUME NEW b \in Seq(Byte), NEW q \in Nat, NEW r \in 0 .. 2
    PROVE  LET B == Combined(Sextet(b, 4 * q + (r + 1)), Sextet(b, 4 * q + (r + 2)), r + 1)
           IN  /\ B \subseteq 0 .. 15
               /\ \A n \in 0 .. 7 : n \in B <=> n \in ByteOf(b, 3 * q + r)
               /\ \A n \in 8 .. 15 : n \in B => 3 * q + r > 0 /\ n - 8 \in ByteOf(b, (3 * q + r) - 1)
<1> DEFINE x == ByteOf(b, 3 * q)
           y == ByteOf(b, 3 * q + 1)
           z == ByteOf(b, 3 * q + 2)
           s1 == Sextet(b, 4 * q + 1)
           s2 == Sextet(b, 4 * q + 2)
           s3 == Sextet(b, 4 * q + 3)
           s4 == Sextet(b, 4 * q + 4)
           B1 == Combined(s1, s2, 1)
           B2 == Combined(s2, s3, 2)
           B3 == Combined(s3, s4, 3)
<1>1. \A n \in Int : (n \in x => n \in 0 .. 7) /\ (n \in y => n \in 0 .. 7) /\ (n \in z => n \in 0 .. 7)
  <2>1. x \in Byte /\ y \in Byte /\ z \in Byte
    BY ByteOfTyped
  <2> QED
    BY <2>1 DEF Byte
<1>2. /\ \A n \in Int : n \in s1 <=> n \in 0 .. 5 /\ n + 2 \in x
      /\ \A n \in Int : n \in s2 <=> n \in 0 .. 5 /\ (n - 4 \in x \/ n + 4 \in y)
      /\ \A n \in Int : n \in s3 <=> n \in 0 .. 5 /\ (n - 2 \in y \/ n + 6 \in z)
      /\ \A n \in Int : n \in s4 <=> n \in 0 .. 5 /\ n \in z
      /\ s1 \in SUBSET (0 .. 5) /\ s2 \in SUBSET (0 .. 5) /\ s3 \in SUBSET (0 .. 5) /\ s4 \in SUBSET (0 .. 5)
  BY SextetIs
<1> HIDE DEF x, y, z, s1, s2, s3, s4
<1>3. B1 \subseteq 0 .. 15 /\ B2 \subseteq 0 .. 15 /\ B3 \subseteq 0 .. 15
  <2>1. 1 \in 1 .. 3 /\ 2 \in 1 .. 3 /\ 3 \in 1 .. 3
    OBVIOUS
  <2>2. ASSUME NEW s \in SUBSET (0 .. 5), NEW t \in SUBSET (0 .. 5), NEW d \in 1 .. 3
        PROVE  Combined(s, t, d) \subseteq 0 .. 15
    BY CombinedIs
  <2> QED
    BY <1>2, <2>1, <2>2, Zenon
<1>4. ASSUME NEW n \in 0 .. 15
      PROVE  /\ n \in B1 <=> (n - 2 \in s1 \/ n + 4 \in s2)
             /\ n \in B2 <=> (n - 4 \in s2 \/ n + 2 \in s3)
             /\ n \in B3 <=> (n - 6 \in s3 \/ n \in s4)
  BY <1>2, CombinedAre, Zenon
<1> HIDE DEF B1, B2, B3
<1>5. ASSUME NEW n \in 0 .. 15
      PROVE  /\ n \in B1 <=> (n - 2 \in 0 .. 5 /\ n \in x) \/ (n + 4 \in 0 .. 5 /\ (n \in x \/ n + 8 \in y))
             /\ n \in B2 <=> (n - 4 \in 0 .. 5 /\ (n - 8 \in x \/ n \in y)) \/ (n + 2 \in 0 .. 5 /\ (n \in y \/ n + 8 \in z))
             /\ n \in B3 <=> (n - 6 \in 0 .. 5 /\ (n - 8 \in y \/ n \in z)) \/ (n \in 0 .. 5 /\ n \in z)
  <2>1. /\ (n - 2) + 2 = n /\ (n + 4) - 4 = n /\ (n + 4) + 4 = n + 8
        /\ (n - 4) - 4 = n - 8 /\ (n - 4) + 4 = n /\ (n + 2) - 2 = n /\ (n + 2) + 6 = n + 8
        /\ (n - 6) - 2 = n - 8 /\ (n - 6) + 6 = n
        /\ n - 2 \in Int /\ n + 4 \in Int /\ n - 4 \in Int /\ n + 2 \in Int /\ n - 6 \in Int /\ n \in Int
    OBVIOUS
  <2>2. n - 2 \in s1 <=> n - 2 \in 0 .. 5 /\ (n - 2) + 2 \in x
    BY <1>2, <2>1, Zenon
  <2>3. n + 4 \in s2 <=> n + 4 \in 0 .. 5 /\ ((n + 4) - 4 \in x \/ (n + 4) + 4 \in y)
    BY <1>2, <2>1, Zenon
  <2>4. n - 4 \in s2 <=> n - 4 \in 0 .. 5 /\ ((n - 4) - 4 \in x \/ (n - 4) + 4 \in y)
    BY <1>2, <2>1, Zenon
  <2>5. n + 2 \in s3 <=> n + 2 \in 0 .. 5 /\ ((n + 2) - 2 \in y \/ (n + 2) + 6 \in z)
    BY <1>2, <2>1, Zenon
  <2>6. n - 6 \in s3 <=> n - 6 \in 0 .. 5 /\ ((n - 6) - 2 \in y \/ (n - 6) + 6 \in z)
    BY <1>2, <2>1, Zenon
  <2>7. n \in s4 <=> n \in 0 .. 5 /\ n \in z
    BY <1>2, <2>1, Zenon
  <2>8. n \in B1 <=> (n - 2 \in 0 .. 5 /\ n \in x) \/ (n + 4 \in 0 .. 5 /\ (n \in x \/ n + 8 \in y))
    BY <1>4, <2>1, <2>2, <2>3
  <2>9. n \in B2 <=> (n - 4 \in 0 .. 5 /\ (n - 8 \in x \/ n \in y)) \/ (n + 2 \in 0 .. 5 /\ (n \in y \/ n + 8 \in z))
    BY <1>4, <2>1, <2>4, <2>5
  <2>10. n \in B3 <=> (n - 6 \in 0 .. 5 /\ (n - 8 \in y \/ n \in z)) \/ (n \in 0 .. 5 /\ n \in z)
    BY <1>4, <2>1, <2>6, <2>7
  <2> QED
    BY <2>8, <2>9, <2>10
<1>6. ASSUME NEW n \in 0 .. 7
      PROVE  (n \in B1 <=> n \in x) /\ (n \in B2 <=> n \in y) /\ (n \in B3 <=> n \in z)
  <2>1. /\ n \in 0 .. 15 /\ n + 8 \in Int /\ n - 8 \in Int /\ n + 8 \notin 0 .. 7 /\ n - 8 \notin 0 .. 7
        /\ n - 2 \in 0 .. 5 \/ n + 4 \in 0 .. 5
        /\ n - 4 \in 0 .. 5 \/ n + 2 \in 0 .. 5
        /\ n - 6 \in 0 .. 5 \/ n \in 0 .. 5
    OBVIOUS
  <2>2. n + 8 \notin y /\ n + 8 \notin z /\ n - 8 \notin x /\ n - 8 \notin y
    BY <1>1, <2>1, Zenon
  <2> QED
    BY <1>5, <2>1, <2>2, Zenon
<1>7. ASSUME NEW n \in 8 .. 15
      PROVE  n \notin B1 /\ (n \in B2 => n - 8 \in x) /\ (n \in B3 => n - 8 \in y)
  <2>1. /\ n \in 0 .. 15 /\ n \in Int /\ n + 8 \in Int /\ n \notin 0 .. 7 /\ n + 8 \notin 0 .. 7
        /\ n - 2 \notin 0 .. 5 /\ n + 4 \notin 0 .. 5 /\ n + 2 \notin 0 .. 5 /\ n \notin 0 .. 5
    OBVIOUS
  <2>2. n \notin x /\ n \notin y /\ n \notin z /\ n + 8 \notin y /\ n + 8 \notin z
    BY <1>1, <2>1, Zenon
  <2> QED
    BY <1>5, <2>1, <2>2, Zenon
<1>8. CASE r = 0
  <2>1. 3 * q + r = 3 * q /\ 4 * q + (r + 1) = 4 * q + 1 /\ 4 * q + (r + 2) = 4 * q + 2 /\ r + 1 = 1
    BY <1>8
  <2>2. LET B == Combined(s1, s2, 1)
        IN  /\ B \subseteq 0 .. 15
            /\ \A n \in 0 .. 7 : n \in B <=> n \in x
            /\ \A n \in 8 .. 15 : n \in B => 3 * q + r > 0 /\ n - 8 \in ByteOf(b, (3 * q + r) - 1)
    BY <1>3, <1>6, <1>7, Zenon DEF B1
  <2> QED
    BY <2>1, <2>2, Zenon DEF s1, s2, x
<1>9. CASE r = 1
  <2>1. /\ 3 * q + r = 3 * q + 1 /\ 4 * q + (r + 1) = 4 * q + 2 /\ 4 * q + (r + 2) = 4 * q + 3 /\ r + 1 = 2
        /\ (3 * q + r) - 1 = 3 * q /\ 3 * q + r > 0
    BY <1>9
  <2>2. LET B == Combined(s2, s3, 2)
        IN  /\ B \subseteq 0 .. 15
            /\ \A n \in 0 .. 7 : n \in B <=> n \in y
            /\ \A n \in 8 .. 15 : n \in B => n - 8 \in x
    BY <1>3, <1>6, <1>7, Zenon DEF B2
  <2>3. LET B == Combined(Sextet(b, 4 * q + 2), Sextet(b, 4 * q + 3), 2)
        IN  /\ B \subseteq 0 .. 15
            /\ \A n \in 0 .. 7 : n \in B <=> n \in ByteOf(b, 3 * q + 1)
            /\ \A n \in 8 .. 15 : n \in B => n - 8 \in ByteOf(b, 3 * q)
    BY <2>2, Zenon DEF s2, s3, x, y
  <2> QED
    BY <2>1, <2>3, Zenon
<1>10. CASE r = 2
  <2>1. /\ 3 * q + r = 3 * q + 2 /\ 4 * q + (r + 1) = 4 * q + 3 /\ 4 * q + (r + 2) = 4 * q + 4 /\ r + 1 = 3
        /\ (3 * q + r) - 1 = 3 * q + 1 /\ 3 * q + r > 0
    BY <1>10
  <2>2. LET B == Combined(s3, s4, 3)
        IN  /\ B \subseteq 0 .. 15
            /\ \A n \in 0 .. 7 : n \in B <=> n \in z
            /\ \A n \in 8 .. 15 : n \in B => n - 8 \in y
    BY <1>3, <1>6, <1>7, Zenon DEF B3
  <2>3. LET B == Combined(Sextet(b, 4 * q + 3), Sextet(b, 4 * q + 4), 3)
        IN  /\ B \subseteq 0 .. 15
            /\ \A n \in 0 .. 7 : n \in B <=> n \in ByteOf(b, 3 * q + 2)
            /\ \A n \in 8 .. 15 : n \in B => n - 8 \in ByteOf(b, 3 * q + 1)
    BY <2>2, Zenon DEF s3, s4, y, z
  <2> QED
    BY <2>1, <2>3, Zenon
<1>11. r = 0 \/ r = 1 \/ r = 2
  OBVIOUS
<1> QED
  BY <1>8, <1>9, <1>10, <1>11, Zenon

\* Such bytes or-ed into a word: what overflows a byte is set already.
Ored(B, low, high) == UNION {Shl(B[j], 24 - (8 * (j % 4))) : j \in low .. high}

Overflowing(B, b) ==
    \A j \in 0 .. Len(b) - 1 :
        /\ B[j] \subseteq 0 .. 15
        /\ \A n \in 0 .. 7 : n \in B[j] <=> n \in ByteOf(b, j)
        /\ \A n \in 8 .. 15 : n \in B[j] => j > 0 /\ n - 8 \in ByteOf(b, j - 1)

LEMMA FourAndRest ==
    ASSUME NEW k \in Nat, NEW c \in 0 .. 3
    PROVE  (4 * k + c) % 4 = c /\ (4 * k + c) \div 4 = k
OBVIOUS

LEMMA OredBytes ==
    ASSUME NEW b \in Seq(Byte), NEW B, Overflowing(B, b), NEW k \in Nat, 4 * k < Len(b),
           NEW m \in Nat, m <= 4 * k + 4, m <= Len(b), m >= 4 * k + 4 \/ m >= Len(b)
    PROVE  /\ Ored(B, 4 * k, m - 1) \in Word32
           /\ \A i \in 0 .. 3 : ByteAt(Ored(B, 4 * k, m - 1), i) = ByteOf(b, 4 * k + i)
<1> USE DEF Overflowing
<1>1. Len(b) \in Nat
  OBVIOUS
<1> DEFINE ored == Ored(B, 4 * k, m - 1)
<1>2. ASSUME NEW c \in 0 .. 3
      PROVE  /\ (4 * k + c) % 4 = c
             /\ 4 * k + c \in (4 * k) .. (m - 1) <=> 4 * k + c < Len(b)
             /\ 4 * k + c < Len(b) => 4 * k + c \in 0 .. Len(b) - 1
  <2>1. (4 * k + c) % 4 = c
    BY FourAndRest
  <2>2. c \in Int /\ 0 <= c /\ c <= 3
    OBVIOUS
  <2> QED
    BY <1>1, <2>1, <2>2
<1>3. ASSUME NEW j \in (4 * k) .. (m - 1) PROVE \E c \in 0 .. 3 : j = 4 * k + c
  <2>1. j - 4 * k \in 0 .. 3 /\ j = 4 * k + (j - 4 * k)
    OBVIOUS
  <2> QED
    BY <2>1, Zenon
<1>4. ASSUME NEW c \in 0 .. 3, 4 * k + c < Len(b)
      PROVE  \A p : p \in Shl(B[4 * k + c], 24 - 8 * c) <=> p \in 0 .. 31 /\ p - (24 - 8 * c) \in B[4 * k + c]
  <2> DEFINE s == 24 - 8 * c
             C == B[4 * k + c]
  <2>1. C \subseteq 0 .. 15
    BY <1>2, <1>4
  <2>2. s \in 0 .. 24
    OBVIOUS
  <2> HIDE DEF s, C
  <2>3. ASSUME NEW p, p \in Shl(C, s) PROVE p \in 0 .. 31 /\ p - s \in C
    <3>1. PICK i \in C \cap 0 .. (31 - s) : p = i + s
      BY <2>3 DEF Shl
    <3>2. i \in 0 .. (31 - s) /\ i \in C
      BY <3>1, Zenon
    <3>3. p \in 0 .. 31 /\ p - s = i
      BY <2>2, <3>1, <3>2
    <3> QED
      BY <3>2, <3>3, Zenon
  <2>4. ASSUME NEW p, p \in 0 .. 31, p - s \in C PROVE p \in Shl(C, s)
    <3>1. p - s \in 0 .. 15
      BY <2>1, <2>4
    <3>2. p - s \in 0 .. (31 - s) /\ p = (p - s) + s
      BY <2>2, <2>4, <3>1
    <3>3. p - s \in C \cap 0 .. (31 - s)
      BY <2>4, <3>2, Zenon
    <3> QED
      BY <3>2, <3>3, Zenon DEF Shl
  <2>5. \A p : p \in Shl(C, s) <=> p \in 0 .. 31 /\ p - s \in C
    BY <2>3, <2>4, Zenon
  <2> QED
    BY <2>5, Zenon DEF s, C
<1>5. ASSUME NEW p
      PROVE  p \in ored <=> \E c \in 0 .. 3 : /\ 4 * k + c < Len(b)
                                              /\ p \in 0 .. 31 /\ p - (24 - 8 * c) \in B[4 * k + c]
  <2>1. p \in ored <=> \E j \in (4 * k) .. (m - 1) : p \in Shl(B[j], 24 - (8 * (j % 4)))
    BY Zenon DEF Ored
  <2>2. ASSUME NEW c \in 0 .. 3, 4 * k + c < Len(b), p \in 0 .. 31, p - (24 - 8 * c) \in B[4 * k + c]
        PROVE  p \in ored
    <3>1. p \in Shl(B[4 * k + c], 24 - (8 * ((4 * k + c) % 4)))
      BY <1>2, <1>4, <2>2, Zenon
    <3>2. 4 * k + c \in (4 * k) .. (m - 1)
      BY <1>2, <2>2, Zenon
    <3> QED
      BY <2>1, <3>1, <3>2, Zenon
  <2>3. ASSUME p \in ored
        PROVE  \E c \in 0 .. 3 : /\ 4 * k + c < Len(b)
                                 /\ p \in 0 .. 31 /\ p - (24 - 8 * c) \in B[4 * k + c]
    <3>1. PICK j \in (4 * k) .. (m - 1) : p \in Shl(B[j], 24 - (8 * (j % 4)))
      BY <2>1, <2>3, Zenon
    <3>2. PICK c \in 0 .. 3 : j = 4 * k + c
      BY <1>3, Zenon
    <3>3. 4 * k + c < Len(b)
      BY <1>2, <3>2, Zenon
    <3>4. p \in Shl(B[4 * k + c], 24 - (8 * c))
      BY <1>2, <3>1, <3>2, Zenon
    <3> QED
      BY <1>4, <3>3, <3>4, Zenon
  <2> QED
    BY <2>2, <2>3, Zenon
<1> HIDE DEF ored
<1>6. ored \in Word32
  BY <1>5 DEF Word32, Places
<1>7. ASSUME NEW i \in 0 .. 3 PROVE ByteAt(ored, i) = ByteOf(b, 4 * k + i)
  <2> DEFINE x == ByteOf(b, 4 * k + i)
  <2>1. x \in Byte
    BY ByteOfTyped
  <2>2. ASSUME NEW n \in x PROVE n \in ByteAt(ored, i)
    <3>1. n \in 0 .. 7 /\ 4 * k + i < Len(b)
      BY <2>1, <1>1 DEF ByteOf, Byte
    <3>2. n \in B[4 * k + i]
      BY <1>2, <3>1, Zenon
    <3>3. /\ (n + (24 - 8 * i)) - (24 - 8 * i) = n /\ n + (24 - 8 * i) \in 0 .. 31
          /\ n + (24 - 8 * i) \in (24 - 8 * i) .. (31 - 8 * i)
      BY <3>1
    <3>4. n + (24 - 8 * i) \in ored
      BY <1>5, <3>1, <3>2, <3>3, Zenon
    <3> QED
      BY <3>3, <3>4, Zenon DEF ByteAt
  <2>3. ASSUME NEW n \in ByteAt(ored, i) PROVE n \in x
    <3>1. PICK p \in ored \cap (24 - 8 * i) .. (31 - 8 * i) : n = p - (24 - 8 * i)
      BY DEF ByteAt
    <3>2. PICK c \in 0 .. 3 : 4 * k + c < Len(b) /\ p \in 0 .. 31 /\ p - (24 - 8 * c) \in B[4 * k + c]
      BY <1>5, <3>1, Zenon
    <3>3. 4 * k + c \in 0 .. Len(b) - 1
      BY <1>2, <3>2, Zenon
    <3> DEFINE d == p - (24 - 8 * c)
               C == B[4 * k + c]
    <3>4. d \in C /\ C \subseteq 0 .. 15
      BY <3>2, <3>3, Zenon
    <3>5. n \in 0 .. 7 /\ d = n + 8 * (c - i) /\ c \in 0 .. 3
      BY <3>1, <3>2
    <3> HIDE DEF d, C
    <3>6. d \in 0 .. 15
      BY <3>4
    <3>7. c = i \/ c = i + 1
      BY <3>5, <3>6
    <3>8. CASE c = i
      <4>1. d = n
        BY <3>5, <3>8
      <4>2. n \in B[4 * k + i]
        BY <3>4, <3>8, <4>1, Zenon DEF C
      <4> QED
        BY <3>3, <3>5, <3>8, <4>2, Zenon
    <3>9. CASE c = i + 1
      <4>1. d = n + 8 /\ d \in 8 .. 15 /\ d - 8 = n /\ (4 * k + c) - 1 = 4 * k + i
        BY <3>5, <3>9
      <4>2. d - 8 \in ByteOf(b, (4 * k + c) - 1)
        BY <3>3, <3>4, <4>1, Zenon DEF C
      <4> QED
        BY <4>1, <4>2, Zenon
    <3> QED
      BY <3>7, <3>8, <3>9, Zenon
  <2> QED
    BY <2>2, <2>3
<1> QED
  BY <1>6, <1>7, Zenon DEF ored

\* The characters of N bytes, the padding after them, and the bytes again.
CharsFor(N) == ((4 * N) + 2) \div 3

LEMMA CharsForIs ==
    ASSUME NEW N \in Nat
    PROVE  /\ CharsFor(N) \in Nat /\ CharsFor(N) <= 4 * ((N + 2) \div 3) /\ (N + 2) \div 3 \in Nat
           /\ CharsFor(N) - WordsFor(CharsFor(N)) = N
           /\ \A q \in Nat, r \in 0 .. 2 : 3 * q + r < N => 4 * q + r + 1 < CharsFor(N)
<1>1. PICK a \in Nat, c \in 0 .. 2 : N = 3 * a + c
  <2>1. N \div 3 \in Nat /\ N % 3 \in 0 .. 2 /\ N = 3 * (N \div 3) + (N % 3)
    OBVIOUS
  <2> QED
    BY <2>1, Zenon
<1>2. c = 0 \/ c = 1 \/ c = 2
  OBVIOUS
<1>3. CASE c = 0
  <2>1. CharsFor(N) = 4 * a /\ (N + 2) \div 3 = a
    BY <1>1, <1>3 DEF CharsFor
  <2>2. WordsFor(CharsFor(N)) = a
    BY <2>1 DEF WordsFor
  <2>3. ASSUME NEW q \in Nat, NEW r \in 0 .. 2, 3 * q + r < N PROVE 4 * q + r + 1 < CharsFor(N)
    BY <1>1, <1>3, <2>1, <2>3
  <2> QED
    BY <1>1, <1>3, <2>1, <2>2, <2>3
<1>4. CASE c = 1
  <2>1. CharsFor(N) = 4 * a + 2 /\ (N + 2) \div 3 = a + 1
    BY <1>1, <1>4 DEF CharsFor
  <2>2. WordsFor(CharsFor(N)) = a + 1
    BY <2>1 DEF WordsFor
  <2>3. ASSUME NEW q \in Nat, NEW r \in 0 .. 2, 3 * q + r < N PROVE 4 * q + r + 1 < CharsFor(N)
    BY <1>1, <1>4, <2>1, <2>3
  <2> QED
    BY <1>1, <1>4, <2>1, <2>2, <2>3
<1>5. CASE c = 2
  <2>1. CharsFor(N) = 4 * a + 3 /\ (N + 2) \div 3 = a + 1
    BY <1>1, <1>5 DEF CharsFor
  <2>2. WordsFor(CharsFor(N)) = a + 1
    BY <2>1 DEF WordsFor
  <2>3. ASSUME NEW q \in Nat, NEW r \in 0 .. 2, 3 * q + r < N PROVE 4 * q + r + 1 < CharsFor(N)
    BY <1>1, <1>5, <2>1, <2>3
  <2> QED
    BY <1>1, <1>5, <2>1, <2>2, <2>3
<1> QED
  BY <1>2, <1>3, <1>4, <1>5, Zenon

LEMMA SextetTyped ==
    ASSUME NEW b \in Seq(Byte), NEW k \in Nat \ {0}
    PROVE  Sextet(b, k) \in SUBSET (0 .. 5)
<1>1. (k - 1) \div 4 \in Nat /\ ((k - 1) % 4) + 1 \in 1 .. 4 /\ k = 4 * ((k - 1) \div 4) + (((k - 1) % 4) + 1)
  OBVIOUS
<1>2. \A q \in Nat, c \in 1 .. 4 : Sextet(b, 4 * q + c) \in SUBSET (0 .. 5)
  BY SextetIs
<1> QED
  BY <1>1, <1>2, Zenon

\* The characters: one for every six bits, then the padding.
LEMMA Base64CharsAre ==
    ASSUME NEW w \in Arrays, NEW map
    PROVE  LET b == Bytes(w)
           IN  Base64Stringify(map, w) =
                 [k \in 1 .. 4 * ((w.sigBytes + 2) \div 3) |->
                     IF k <= CharsFor(w.sigBytes) THEN map[NumberOf(Sextet(b, k))] ELSE map[Pad]]
<1> DEFINE b == Bytes(w)
           At0(i) == IF i <= Len(b) THEN b[i] ELSE {}
           Triplet(i) == {p + 16 : p \in At0(i)} \cup {p + 8 : p \in At0(i + 1)} \cup At0(i + 2)
           Index(k) == LET low == 6 * (3 - ((k - 1) % 4))
                       IN  {p - low : p \in Triplet(3 * ((k - 1) \div 4) + 1) \cap low .. (low + 5)}
           total == 4 * ((w.sigBytes + 2) \div 3)
<1>1. b \in Seq(Byte) /\ Len(b) \in Nat /\ w.sigBytes \in Nat
  BY BytesIs DEF Arrays
<1>2. Bytes(Clamp(w)) = b
  BY ClampKeepsBytes
<1> HIDE DEF b
<1>3. ASSUME NEW i \in Nat PROVE At0(i + 1) = ByteOf(b, i)
  <2>1. i + 1 <= Len(b) <=> i < Len(b)
    BY <1>1
  <2> QED
    BY <2>1, Zenon DEF ByteOf
<1>4. ASSUME NEW k \in 1 .. total PROVE Index(k) = Sextet(b, k)
  <2> DEFINE i == 3 * ((k - 1) \div 4)
  <2>1. i \in Nat /\ i + 1 \in Nat /\ i + 2 \in Nat /\ (i + 1) + 1 = i + 2 /\ (i + 1) + 2 = (i + 2) + 1
    <3>1. k \in Nat \ {0}
      BY <1>1
    <3> QED
      BY <3>1
  <2> HIDE DEF i
  <2>2. At0(i + 1) = ByteOf(b, i) /\ At0((i + 1) + 1) = ByteOf(b, i + 1) /\ At0((i + 1) + 2) = ByteOf(b, i + 2)
    BY <1>3, <2>1, Zenon
  <2>3. Triplet(i + 1) = ThreeBytes(ByteOf(b, i), ByteOf(b, i + 1), ByteOf(b, i + 2))
    BY <2>2, Zenon DEF ThreeBytes
  <2> HIDE DEF Triplet
  <2> QED
    BY <2>3, Zenon DEF Sextet, i
<1> HIDE DEF Index
<1>5. Base64Stringify(map, w) = [k \in 1 .. total |-> IF k <= CharsFor(w.sigBytes) THEN map[NumberOf(Index(k))] ELSE map[Pad]]
  BY <1>2, Zenon DEF Base64Stringify, CharsFor, Index
<1> HIDE DEF total
<1> QED
  BY <1>4, <1>5, Zenon DEF b, total

LEMMA ThreeAndRest ==
    ASSUME NEW q \in Nat, NEW r \in 0 .. 2
    PROVE  (3 * q + r) \div 3 = q
OBVIOUS

LEMMA FirstPad ==
    ASSUME NEW c \in Nat, NEW t \in Nat, c < t
    PROVE  Min({k \in 1 .. t : k > c}) = c + 1
<1> DEFINE S == {k \in 1 .. t : k > c}
<1>1. c + 1 \in S /\ \A k \in S : c + 1 <= k
  OBVIOUS
<1>2. \A x \in S : (\A y \in S : x <= y) => x = c + 1
  <2>1. ASSUME NEW x \in S, \A y \in S : x <= y PROVE x = c + 1
    <3>1. x <= c + 1 /\ c + 1 <= x /\ x \in Int
      BY <1>1, <2>1
    <3> QED
      BY <3>1
  <2> QED
    BY <2>1
<1> HIDE DEF S
<1>3. Min(S) = c + 1
  BY <1>1, <1>2 DEF Min
<1> QED
  BY <1>3 DEF S

\* The bytes of any array come back from their base 64 characters.
LEMMA Base64RoundTrip ==
    ASSUME NEW w \in Arrays, NEW map \in {Map, PageMap}
    PROVE  Base64Parse(map, Base64Stringify(map, w)) = OfBytes(Bytes(w))
<1> DEFINE b == Bytes(w)
           N == w.sigBytes
           c == CharsFor(N)
           t == 4 * ((N + 2) \div 3)
           chars == Base64Stringify(map, w)
           n == IF \E k \in DOMAIN chars : chars[k] = map[Pad]
                  THEN Min({k \in DOMAIN chars : chars[k] = map[Pad]}) - 1 ELSE Len(chars)
           Index(i) == LET k == IndexOf(map, chars[i + 1]) IN IF k = -1 THEN Places ELSE BitsOf(k)
           End(j) == j + (j \div 3) + 1
           Bits(i) == Shl(Index(i - 1), 2 * (i % 4)) \cup Shr(Index(i), 6 - (2 * (i % 4)))
           Or(k) == UNION {Shl(Bits(End(j)), 24 - (8 * (j % 4))) : j \in (4 * k - 4) .. (Min({4 * k, N}) - 1)}
           L == WordsFor(N)
           f == [k \in 1 .. L |-> Or(k)]
<1>1. b \in Seq(Byte) /\ Len(b) = N /\ N \in Nat
  BY BytesIs DEF Arrays
<1>2. c \in Nat /\ t \in Nat /\ c <= t /\ c - WordsFor(c) = N /\ L \in Nat
      /\ \A q \in Nat, r \in 0 .. 2 : 3 * q + r < N => 4 * q + r + 1 < c
  <2> HIDE DEF b
  <2>1. /\ CharsFor(N) \in Nat /\ CharsFor(N) <= 4 * ((N + 2) \div 3) /\ (N + 2) \div 3 \in Nat
        /\ CharsFor(N) - WordsFor(CharsFor(N)) = N
        /\ \A q \in Nat, r \in 0 .. 2 : 3 * q + r < N => 4 * q + r + 1 < CharsFor(N)
    BY <1>1, CharsForIs, Zenon
  <2>2. L \in Nat
    BY <1>1, WordsForIs
  <2>3. t \in Nat
    BY <2>1
  <2> QED
    BY <2>1, <2>2, <2>3, Zenon
<1>3. chars = [k \in 1 .. t |-> IF k <= c THEN map[NumberOf(Sextet(b, k))] ELSE map[Pad]]
  BY Base64CharsAre
<1> HIDE DEF b, N, c, t, chars, L
<1>4. ASSUME NEW k \in Nat \ {0}
      PROVE  /\ NumberOf(Sextet(b, k)) \in 0 .. 63 /\ BitsOf(NumberOf(Sextet(b, k))) = Sextet(b, k)
             /\ Sextet(b, k) \in SUBSET (0 .. 5)
  <2>1. Sextet(b, k) \in SUBSET (0 .. 5)
    BY <1>1, SextetTyped
  <2>2. Sextet(b, k) \in Byte
    BY <2>1 DEF Byte
  <2> QED
    BY <2>1, <2>2, NumberIs
<1>5. ASSUME NEW k \in 1 .. t PROVE chars[k] = map[Pad] <=> k > c
  <2>1. k \in Nat \ {0} /\ (k <= c <=> ~ (k > c))
    BY <1>2
  <2>2. map[NumberOf(Sextet(b, k))] # map[Pad]
    BY <1>4, <2>1, AlphabetIs
  <2> QED
    BY <1>3, <2>1, <2>2
<1>6. Len(chars) = t /\ DOMAIN chars = 1 .. t
  BY <1>2, <1>3
<1>7. n = c
  <2>1. CASE c = t
    <3>1. ~ \E k \in DOMAIN chars : chars[k] = map[Pad]
      BY <1>2, <1>5, <1>6, <2>1
    <3> QED
      BY <1>6, <2>1, <3>1
  <2>2. CASE c < t
    <3>1. {k \in DOMAIN chars : chars[k] = map[Pad]} = {k \in 1 .. t : k > c}
      BY <1>5, <1>6
    <3>2. c + 1 \in {k \in 1 .. t : k > c}
      BY <1>2, <2>2
    <3>3. \E k \in DOMAIN chars : chars[k] = map[Pad]
      BY <3>1, <3>2
    <3>4. Min({k \in DOMAIN chars : chars[k] = map[Pad]}) = c + 1
      BY <1>2, <2>2, <3>1, FirstPad
    <3>5. (c + 1) - 1 = c
      BY <1>2
    <3> QED
      BY <3>3, <3>4, <3>5, Zenon
  <2>3. c = t \/ c < t
    BY <1>2
  <2> QED
    BY <2>1, <2>2, <2>3, Zenon
<1>8. ASSUME NEW i \in 0 .. c - 1 PROVE Index(i) = Sextet(b, i + 1)
  <2>1. i + 1 \in 1 .. t /\ i + 1 <= c /\ i + 1 \in Nat \ {0}
    BY <1>2
  <2>2. chars[i + 1] = map[NumberOf(Sextet(b, i + 1))]
    BY <1>3, <2>1
  <2>3. IndexOf(map, chars[i + 1]) = NumberOf(Sextet(b, i + 1)) /\ NumberOf(Sextet(b, i + 1)) # -1
    <3>1. NumberOf(Sextet(b, i + 1)) \in 0 .. 63
      BY <1>4, <2>1, Zenon
    <3>2. \A k \in 0 .. 63 : IndexOf(map, map[k]) = k
      BY AlphabetIs, Zenon
    <3>3. NumberOf(Sextet(b, i + 1)) # -1
      BY <3>1
    <3> QED
      BY <2>2, <3>1, <3>2, <3>3, Zenon
  <2> QED
    BY <1>4, <2>1, <2>3
<1> HIDE DEF Index
<1>9. ASSUME NEW j \in 0 .. N - 1
      PROVE  /\ Bits(End(j)) \subseteq 0 .. 15
             /\ \A m \in 0 .. 7 : m \in Bits(End(j)) <=> m \in ByteOf(b, j)
             /\ \A m \in 8 .. 15 : m \in Bits(End(j)) => j > 0 /\ m - 8 \in ByteOf(b, j - 1)
  <2>1. PICK q \in Nat, r \in 0 .. 2 : j = 3 * q + r
    <3>1. j \in Nat
      BY <1>1
    <3>2. j \div 3 \in Nat /\ j % 3 \in 0 .. 2 /\ j = 3 * (j \div 3) + (j % 3)
      BY <3>1
    <3> QED
      BY <3>2, Zenon
  <2>2. End(j) = 4 * q + (r + 1) /\ r + 1 \in 0 .. 3
    <3>1. (3 * q + r) \div 3 = q
      BY ThreeAndRest
    <3>2. (3 * q + r) + q + 1 = 4 * q + (r + 1)
      OBVIOUS
    <3> QED
      BY <2>1, <3>1, <3>2
  <2> HIDE DEF End
  <2>3. End(j) % 4 = r + 1
    BY <2>2, FourAndRest
  <2>4. 4 * q + r + 1 < c
    BY <1>1, <1>2, <2>1
  <2>5. /\ End(j) \in 0 .. c - 1 /\ End(j) - 1 \in 0 .. c - 1
        /\ (End(j) - 1) + 1 = 4 * q + (r + 1) /\ End(j) + 1 = 4 * q + (r + 2)
    BY <1>2, <2>2, <2>4
  <2>6. Index(End(j) - 1) = Sextet(b, 4 * q + (r + 1)) /\ Index(End(j)) = Sextet(b, 4 * q + (r + 2))
    BY <1>8, <2>5, Zenon
  <2>7. Bits(End(j)) = Combined(Sextet(b, 4 * q + (r + 1)), Sextet(b, 4 * q + (r + 2)), r + 1)
    BY <2>3, <2>6, Zenon DEF Combined
  <2> HIDE DEF Bits
  <2>8. LET B == Combined(Sextet(b, 4 * q + (r + 1)), Sextet(b, 4 * q + (r + 2)), r + 1)
        IN  /\ B \subseteq 0 .. 15
            /\ \A m \in 0 .. 7 : m \in B <=> m \in ByteOf(b, 3 * q + r)
            /\ \A m \in 8 .. 15 : m \in B => 3 * q + r > 0 /\ m - 8 \in ByteOf(b, (3 * q + r) - 1)
    BY <1>1, CombinedGives
  <2> QED
    BY <2>1, <2>7, <2>8, Zenon
<1> DEFINE B == [j \in 0 .. N - 1 |-> Bits(End(j))]
<1>10. \A j \in 0 .. N - 1 : B[j] = Bits(End(j))
  BY Zenon
<1> HIDE DEF Bits
<1>11. Overflowing(B, b)
  <2> HIDE DEF B, End
  <2> QED
    BY <1>1, <1>9, <1>10, Zenon DEF Overflowing
<1> HIDE DEF B
<1>12. ASSUME NEW k \in 1 .. L
       PROVE  /\ Or(k) \in Word32
              /\ \A i \in 0 .. 3 : ByteAt(Or(k), i) = ByteOf(b, 4 * (k - 1) + i)
  <2> DEFINE m == IF 4 * k <= N THEN 4 * k ELSE N
  <2>1. /\ k - 1 \in Nat /\ 4 * (k - 1) < N /\ 4 * k - 4 = 4 * (k - 1) /\ m \in Nat
        /\ m <= 4 * (k - 1) + 4 /\ m <= N /\ (m >= 4 * (k - 1) + 4 \/ m >= N)
    <3>1. k - 1 \in Nat /\ k - 1 < L
      BY <1>2
    <3>2. 4 * (k - 1) < N
      BY <1>1, <3>1, WordsForIs DEF L
    <3> QED
      BY <1>1, <3>1, <3>2
  <2>2. Min({4 * k, N}) = m
    <3>1. \A u, v \in Nat : Min({u, v}) = IF u <= v THEN u ELSE v
      BY DEF Min
    <3>2. 4 * k \in Nat
      OBVIOUS
    <3> QED
      BY <1>1, <3>1, <3>2, Zenon
  <2> HIDE DEF m
  <2>3. Or(k) = Ored(B, 4 * (k - 1), m - 1)
    <3>1. \A j \in (4 * (k - 1)) .. (m - 1) : B[j] = Bits(End(j))
      BY <1>1, <1>10, <2>1
    <3>2. Or(k) = UNION {Shl(Bits(End(j)), 24 - (8 * (j % 4))) : j \in (4 * (k - 1)) .. (m - 1)}
      BY <2>1, <2>2, Zenon
    <3> HIDE DEF Or, End
    <3> QED
      BY <3>1, <3>2, Zenon DEF Ored
  <2> HIDE DEF Or
  <2> QED
    <3> DEFINE e == k - 1
    <3>1. b \in Seq(Byte) /\ e \in Nat /\ m \in Nat
      BY <1>1, <2>1, Zenon
    <3>2. 4 * e < Len(b)
      BY <1>1, <2>1, Zenon
    <3>3. m <= 4 * e + 4
      BY <2>1, Zenon
    <3>4. m <= Len(b)
      BY <1>1, <2>1, Zenon
    <3>5. m >= 4 * e + 4 \/ m >= Len(b)
      BY <1>1, <2>1, Zenon
    <3> HIDE DEF e
    <3>6. Ored(B, 4 * e, m - 1) \in Word32 /\ \A i \in 0 .. 3 : ByteAt(Ored(B, 4 * e, m - 1), i) = ByteOf(b, 4 * e + i)
      BY <1>11, <3>1, <3>2, <3>3, <3>4, <3>5, OredBytes
    <3> QED
      BY <2>3, <3>6, Zenon DEF e
<1> HIDE DEF Or
<1>13. Base64Parse(map, chars) = WordArray(f, N)
  <2>1. n - WordsFor(n) = N
    BY <1>2, <1>7, Zenon
  <2> HIDE DEF n
  <2>2. Base64Parse(map, chars) = LET nb == n - WordsFor(n)
         IN WordArray([k \in 1 .. WordsFor(nb) |-> UNION {Shl(Bits(End(j)), 24 - (8 * (j % 4))) : j \in (4 * k - 4) .. (Min({4 * k, nb}) - 1)}], nb)
    BY Zenon DEF Base64Parse, n, Bits, Index
  <2> QED
    BY <2>1, <2>2, Zenon DEF L, Or
<1>14. f \in [1 .. L -> Word32] /\ \A k \in 1 .. L : f[k] = Or(k)
  BY <1>12
<1> HIDE DEF f
<1>15. /\ WordArray(f, N) \in Arrays /\ WordArray(f, N).sigBytes = N /\ Len(WordArray(f, N).words) = L
       /\ \A k \in 0 .. L - 1 : At(WordArray(f, N).words, k) = f[k + 1]
  <2>1. f \in Chain /\ Len(f) = L
    BY <1>2, <1>14, Listed DEF Chain
  <2>2. WordArray(f, N) = [words |-> f, sigBytes |-> N] /\ WordArray(f, N) \in Arrays
    BY <1>1, <2>1, ArrayIs
  <2> QED
    BY <2>1, <2>2, AtIs
<1>16. ASSUME NEW k \in Nat, NEW j \in 0 .. 3, k < L
       PROVE  ByteAt(At(WordArray(f, N).words, k), j) = ByteOf(b, 4 * k + j)
  <2>1. k + 1 \in 1 .. L /\ (k + 1) - 1 = k /\ k \in 0 .. L - 1
    BY <1>2, <1>16
  <2>2. At(WordArray(f, N).words, k) = Or(k + 1)
    BY <1>14, <1>15, <2>1
  <2>3. \A i \in 0 .. 3 : ByteAt(Or(k + 1), i) = ByteOf(b, 4 * ((k + 1) - 1) + i)
    BY <1>12, <2>1
  <2> QED
    BY <2>1, <2>2, <2>3
<1>17. WordArray(f, N) = OfBytes(b)
  BY <1>1, <1>15, <1>16, IsOfBytes DEF L
<1> QED
  BY <1>13, <1>17 DEF chars, b

-----------------------------------------------------------------------------
(* What the SHA-1 of the pages gives *)

LEMMA PageOperators ==
    /\ \A x, y \in Word32 : safe_add(x, y) \in Word32
    /\ \A x \in Word32, n \in 0 .. 32 : rol(x, n) \in Word32
    /\ \A b, c, d \in Word32, t \in Nat : sha1_ft(t, b, c, d) \in Word32 /\ sha1_kt(t) \in Word32
<1>1. ASSUME NEW x \in Word32, NEW y \in Word32 PROVE x \cup y \in Word32
  BY DEF Word32
<1>2. ASSUME NEW x \in Word32, NEW y \in Word32 PROVE safe_add(x, y) \in Word32
  <2> DEFINE lsw == Add(x \cap 0 .. 15, y \cap 0 .. 15)
             s == Sum3(Shr(x, 16), Shr(y, 16), Shr(lsw, 16))
             low == lsw \cap 0 .. 15
  <2>1. x \cap 0 .. 15 \in Word32 /\ y \cap 0 .. 15 \in Word32
    BY DEF Word32
  <2>2. lsw \in Word32
    BY <2>1, SumsTyped
  <2> HIDE DEF lsw
  <2>3. low \in Word32
    BY <2>2 DEF Word32
  <2>4. s \in Word32
    BY <2>2, WordOperators, SumsTyped
  <2> HIDE DEF s, low
  <2>5. Shl(s, 16) \in Word32
    BY <2>4, WordOperators
  <2>6. Shl(s, 16) \cup low \in Word32
    BY <1>1, <2>3, <2>5
  <2>7. safe_add(x, y) = Shl(s, 16) \cup low
    BY Zenon DEF safe_add, joined, s, low, lsw
  <2> QED
    BY <2>6, <2>7
<1>3. ASSUME NEW x \in Word32, NEW n \in 0 .. 32 PROVE rol(x, n) \in Word32
  <2>1. n \in Nat /\ 32 - n \in Nat
    OBVIOUS
  <2>2. Shl(x, n) \in Word32 /\ Shr(x, 32 - n) \in Word32
    BY <2>1, WordOperators
  <2> QED
    BY <1>1, <2>2 DEF rol
<1>4. ASSUME NEW b \in Word32, NEW c \in Word32, NEW d \in Word32, NEW t \in Nat
      PROVE  sha1_ft(t, b, c, d) \in Word32 /\ sha1_kt(t) \in Word32
  <2>1. t < 20 \/ (t >= 20 /\ t < 40) \/ (t >= 40 /\ t < 60) \/ t >= 60
    OBVIOUS
  <2>2. /\ (b \cap c) \cup (d \ b) \in Word32 /\ Xor(Xor(b, c), d) \in Word32
        /\ (b \cap c) \cup (b \cap d) \cup (c \cap d) \in Word32
    BY WordOperators DEF Word32
  <2>3. \A hi, lo : Word(hi, lo) \in Word32
    BY WordOperators
  <2>4. sha1_ft(t, b, c, d) \in Word32
    BY <2>1, <2>2 DEF sha1_ft
  <2>5. sha1_kt(t) \in Word32
    BY <2>1, <2>3 DEF sha1_kt
  <2> QED
    BY <2>4, <2>5
<1> QED
  BY <1>2, <1>3, <1>4

LEMMA Words80Typed ==
    ASSUME NEW M \in Chain
    PROVE  Words80(M) \in Chain
<1> DEFINE Next1(w, j) == Append(w, rol(Xor(Xor(At(w, j + 13), At(w, j + 8)), Xor(At(w, j + 2), At(w, j))), 1))
           g == [j \in 0 .. 64 - 1 |-> [w \in Chain |-> Next1(w, j)]]
<1>1. ASSUME NEW w \in Chain, NEW j \in 0 .. 64 - 1 PROVE Next1(w, j) \in Chain
  <2> DEFINE y == Xor(Xor(At(w, j + 13), At(w, j + 8)), Xor(At(w, j + 2), At(w, j)))
             x == rol(y, 1)
  <2>1. At(w, j + 13) \in Word32 /\ At(w, j + 8) \in Word32 /\ At(w, j + 2) \in Word32 /\ At(w, j) \in Word32
    BY WordAt
  <2>2. y \in Word32
    BY <2>1, WordOperators
  <2> HIDE DEF y
  <2>3. x \in Word32
    BY <2>2, PageOperators
  <2> HIDE DEF x
  <2>4. Append(w, x) \in Chain
    BY <2>3 DEF Chain
  <2> QED
    BY <2>4 DEF x, y
<1>2. Words80(M) = Passed(Chain, 64, g, M)
  BY DEF Words80, Loop, Chain
<1> HIDE DEF Next1
<1>3. ASSUME NEW j \in 0 .. 64 - 1, NEW w \in Chain PROVE g[j][w] \in Chain
  BY <1>1
<1> HIDE DEF g
<1>4. Passed(Chain, 64, g, M) \in Chain
  BY <1>3, PassedIs
<1> QED
  BY <1>2, <1>4

LEMMA PageRoundTyped ==
    ASSUME NEW w \in Chain, NEW v \in FiveWords, NEW j \in 0 .. 79
    PROVE  PageRound(w, v, j) \in FiveWords
<1> DEFINE f == sha1_ft(j, v[2], v[3], v[4])
           k == sha1_kt(j)
           m == rol(v[1], 5)
           r == rol(v[2], 30)
           x == At(w, j)
           n == safe_add(safe_add(m, f), safe_add(safe_add(v[5], x), k))
<1>1. v[1] \in Word32 /\ v[2] \in Word32 /\ v[3] \in Word32 /\ v[4] \in Word32 /\ v[5] \in Word32
  BY DEF FiveWords
<1>2. f \in Word32 /\ k \in Word32
  <2>1. j \in Nat
    OBVIOUS
  <2> QED
    BY <1>1, <2>1, PageOperators, Zenon
<1>3. m \in Word32 /\ r \in Word32
  <2>1. 5 \in 0 .. 32 /\ 30 \in 0 .. 32
    OBVIOUS
  <2> QED
    BY <1>1, <2>1, PageOperators, Zenon
<1>4. x \in Word32
  BY WordAt
<1>5. PageRound(w, v, j) = <<n, v[1], r, v[3], v[4]>>
  BY DEF PageRound
<1> HIDE DEF f, k, m, r, x
<1>6. n \in Word32
  BY <1>1, <1>2, <1>3, <1>4, PageOperators
<1> HIDE DEF n
<1> QED
  BY <1>1, <1>3, <1>5, <1>6 DEF FiveWords

LEMMA PageBlockTyped ==
    ASSUME NEW H \in FiveWords, NEW M \in Chain
    PROVE  PageBlock(H, M) \in FiveWords
<1> DEFINE w == Words80(M)
           g == [j \in 0 .. 80 - 1 |-> [u \in FiveWords |-> PageRound(w, u, j)]]
           v == Passed(FiveWords, 80, g, H)
           f == [i \in 1 .. 5 |-> safe_add(v[i], H[i])]
<1>1. w \in Chain
  BY Words80Typed
<1>2. PageBlock(H, M) = Written(f)
  BY DEF PageBlock, Loop
<1> HIDE DEF w
<1>3. ASSUME NEW j \in 0 .. 80 - 1, NEW u \in FiveWords PROVE g[j][u] \in FiveWords
  <2>1. PageRound(w, u, j) \in FiveWords
    BY <1>1, PageRoundTyped
  <2> QED
    BY <2>1
<1> HIDE DEF g
<1>4. v \in FiveWords
  BY <1>3, PassedIs
<1> HIDE DEF v
<1>5. \A i \in 1 .. 5 : v[i] \in Word32 /\ H[i] \in Word32
  BY <1>4 DEF FiveWords
<1>6. f \in [1 .. 5 -> Word32]
  BY <1>5, PageOperators
<1> HIDE DEF f
<1>7. Written(f) = f
  BY <1>6, Listed
<1> QED
  BY <1>2, <1>6, <1>7 DEF FiveWords

LEMMA CoreSha1Typed ==
    ASSUME NEW x \in Chain, NEW len \in Nat
    PROVE  core_sha1(x, len) \in FiveWords
<1> DEFINE k == len \div 32
           mark == At(x, k) \cup Shl({7}, 24 - (len % 32))
           marked == SetAt(x, k, mark)
           at == (((len + 64) \div 512) * 16) + 15
           all == PagePadded(x, len)
           n == (Len(all) + 15) \div 16
           g == [i \in 0 .. n - 1 |-> [H \in FiveWords |-> PageBlock(H, Block(all, 16 * i, 16))]]
<1>1. k \in Nat /\ at \in Nat
  OBVIOUS
<1>2. mark \in Word32
  <2>1. At(x, k) \in Word32
    BY <1>1, WordAt
  <2>2. Shl({7}, 24 - (len % 32)) \in Word32
    <3> DEFINE s == 24 - (len % 32)
    <3>1. s \in -7 .. 24
      OBVIOUS
    <3> HIDE DEF s
    <3>2. Shl({7}, s) \in Word32
      BY <3>1 DEF Shl, Word32, Places
    <3> QED
      BY <3>2 DEF s
  <2> QED
    BY <2>1, <2>2 DEF Word32
<1> HIDE DEF k, mark, at
<1>3. marked \in Chain
  BY <1>1, <1>2, SetAtIs
<1>4. all \in Chain
  <2>1. WordOfNat(len) \in Word32
    BY DEF WordOfNat, Word32, Places
  <2>2. all = SetAt(marked, at, WordOfNat(len))
    BY DEF PagePadded, k, mark, at
  <2> HIDE DEF marked
  <2> QED
    BY <1>1, <1>3, <2>1, <2>2, SetAtIs
<1>5. n \in Nat
  <2>1. Len(all) \in Nat
    BY <1>4 DEF Chain
  <2> QED
    BY <2>1
<1>6. PageStart \in FiveWords
  <2>1. \A hi, lo : Word(hi, lo) \in Word32
    BY WordOperators
  <2> QED
    BY <2>1 DEF PageStart, FiveWords
<1>7. core_sha1(x, len) = Passed(FiveWords, n, g, PageStart)
  BY DEF core_sha1, PageBlocks, Loop
<1> HIDE DEF all, n
<1>8. ASSUME NEW i \in 0 .. n - 1, NEW H \in FiveWords PROVE g[i][H] \in FiveWords
  <2>1. 16 * i \in Nat /\ 16 \in Nat
    BY <1>5
  <2>2. Block(all, 16 * i, 16) \in [1 .. 16 -> Word32]
    BY <1>4, <2>1, BlockIs
  <2>3. Block(all, 16 * i, 16) \in Chain
    BY <2>1, <2>2, Listed DEF Chain
  <2>4. PageBlock(H, Block(all, 16 * i, 16)) \in FiveWords
    BY <2>3, PageBlockTyped
  <2> QED
    BY <2>4
<1> HIDE DEF g
<1>9. Passed(FiveWords, n, g, PageStart) \in FiveWords
  BY <1>5, <1>6, <1>8, PassedIs
<1> QED
  BY <1>7, <1>9

LEMMA ShiftedIn ==
    ASSUME NEW x, NEW n \in Nat
    PROVE  Shl(x, n) \in Word32
<1>1. \A i \in 0 .. (31 - n) : i + n \in 0 .. 31
  OBVIOUS
<1> QED
  BY <1>1 DEF Shl, Word32, Places

\* Whatever is parsed becomes an array.
LEMMA HexParsed ==
    ASSUME NEW digits \in Seq(Nibble)
    PROVE  HexParse(digits) \in Arrays
<1> DEFINE n == Len(digits) \div 2
           f == [i \in 1 .. n |-> {p + 4 : p \in digits[2 * i - 1]} \cup digits[2 * i]]
<1>1. n \in Nat /\ \A i \in 1 .. n : 2 * i - 1 \in 1 .. Len(digits) /\ 2 * i \in 1 .. Len(digits)
  <2>1. Len(digits) \in Nat
    OBVIOUS
  <2> QED
    BY <2>1
<1>2. HexParse(digits) = OfBytes(f)
  BY DEF HexParse
<1> HIDE DEF n
<1>3. ASSUME NEW i \in 1 .. n PROVE f[i] \in Byte
  <2>1. digits[2 * i - 1] \in Nibble /\ digits[2 * i] \in Nibble
    BY <1>1
  <2>2. \A p \in 0 .. 3 : p + 4 \in 0 .. 7
    OBVIOUS
  <2> QED
    BY <2>1, <2>2 DEF Nibble, Byte
<1>4. f \in Seq(Byte)
  <2>1. f \in [1 .. n -> Byte]
    BY <1>3
  <2> HIDE DEF f
  <2> QED
    BY <1>1, <2>1, Listed
<1> HIDE DEF f
<1> QED
  BY <1>2, <1>4, OfBytesIs

LEMMA Latin1Parsed ==
    ASSUME NEW str \in Seq(Byte)
    PROVE  Latin1Parse(str) \in Arrays
<1> DEFINE f == [i \in DOMAIN str |-> str[i] \cap 0 .. 7]
<1>1. f \in [1 .. Len(str) -> Byte]
  BY DEF Byte
<1>2. Latin1Parse(str) = OfBytes(f)
  BY DEF Latin1Parse
<1> HIDE DEF f
<1>3. f \in Seq(Byte)
  BY <1>1, Listed
<1> QED
  BY <1>2, <1>3, OfBytesIs

LEMMA LeastIs ==
    ASSUME NEW S \in SUBSET Nat, S # {}
    PROVE  Min(S) \in S
<1>1. PICK m \in S : \A n \in S : m <= n
  BY LeastNatural
<1> QED
  BY <1>1 DEF Min

LEMMA Base64Parsed ==
    ASSUME NEW S, NEW chars \in Seq(S), NEW map
    PROVE  Base64Parse(map, chars) \in Arrays
<1> DEFINE Pads == {k \in DOMAIN chars : chars[k] = map[Pad]}
           n == IF \E k \in DOMAIN chars : chars[k] = map[Pad] THEN Min(Pads) - 1 ELSE Len(chars)
           nBytes == n - WordsFor(n)
           Index(i) == LET k == IndexOf(map, chars[i + 1]) IN IF k = -1 THEN Places ELSE BitsOf(k)
           End(j) == j + (j \div 3) + 1
           Bits(i) == Shl(Index(i - 1), 2 * (i % 4)) \cup Shr(Index(i), 6 - (2 * (i % 4)))
           Or(k) == UNION {Shl(Bits(End(j)), 24 - (8 * (j % 4))) : j \in (4 * k - 4) .. (Min({4 * k, nBytes}) - 1)}
           L == WordsFor(nBytes)
           f == [k \in 1 .. L |-> Or(k)]
<1>1. Len(chars) \in Nat /\ DOMAIN chars = 1 .. Len(chars)
  OBVIOUS
<1>2. n \in Nat
  <2>1. CASE \E k \in DOMAIN chars : chars[k] = map[Pad]
    <3>1. Pads \in SUBSET Nat /\ Pads # {}
      BY <1>1, <2>1
    <3>2. Min(Pads) \in Pads
      <4> HIDE DEF Pads
      <4> QED
        BY <3>1, LeastIs
    <3>3. Min(Pads) - 1 \in Nat
      BY <1>1, <3>2
    <3> QED
      BY <2>1, <3>3
  <2>2. CASE ~ \E k \in DOMAIN chars : chars[k] = map[Pad]
    BY <1>1, <2>2
  <2> QED
    BY <2>1, <2>2
<1>3. Base64Parse(map, chars) = WordArray(f, nBytes)
  BY Zenon DEF Base64Parse
<1> HIDE DEF n
<1>4. nBytes \in Nat
  BY <1>2 DEF WordsFor
<1> HIDE DEF nBytes
<1>5. L \in Nat
  BY <1>4, WordsForIs
<1> HIDE DEF L
<1>6. ASSUME NEW k \in 1 .. L PROVE Or(k) \in Word32
  <2>1. ASSUME NEW j \in (4 * k - 4) .. (Min({4 * k, nBytes}) - 1)
        PROVE  Shl(Bits(End(j)), 24 - (8 * (j % 4))) \in Word32
    <3> DEFINE s == 24 - (8 * (j % 4))
    <3>1. s \in Nat
      OBVIOUS
    <3> HIDE DEF s, Bits, End
    <3>2. Shl(Bits(End(j)), s) \in Word32
      BY <3>1, ShiftedIn
    <3> QED
      BY <3>2 DEF s
  <2> HIDE DEF Bits, End
  <2> QED
    BY <2>1, Zenon DEF Word32
<1>7. f \in Chain
  <2>1. f \in [1 .. L -> Word32]
    BY <1>6
  <2> HIDE DEF f
  <2> QED
    BY <1>5, <2>1, Listed DEF Chain
<1> HIDE DEF f
<1> QED
  BY <1>3, <1>4, <1>7, ArrayIs

\* Between strings and the words of the pages' SHA-1.
LEMMA BinbTyped ==
    ASSUME NEW s \in Seq(Byte)
    PROVE  str2binb(s) \in Chain
<1> DEFINE n == WordsFor(Len(s))
           W(k) == UNION {AtByte(s[i] \cap 0 .. 7, (i - 1) % 4) : i \in (4 * k - 3) .. Min({4 * k, Len(s)})}
           f == [k \in 1 .. n |-> W(k)]
<1>1. n \in Nat
  <2>1. Len(s) \in Nat
    OBVIOUS
  <2> QED
    BY <2>1, WordsForIs
<1>2. str2binb(s) = f
  BY Zenon DEF str2binb
<1> HIDE DEF n
<1>3. ASSUME NEW x, NEW j \in 0 .. 3 PROVE AtByte(x \cap 0 .. 7, j) \in Word32
  <2>1. \A i \in 0 .. 7 : i + (24 - 8 * j) \in 0 .. 31
    OBVIOUS
  <2> QED
    BY <2>1 DEF AtByte, Word32, Places
<1>4. ASSUME NEW k \in 1 .. n PROVE W(k) \in Word32
  <2>1. ASSUME NEW i \in (4 * k - 3) .. Min({4 * k, Len(s)}) PROVE AtByte(s[i] \cap 0 .. 7, (i - 1) % 4) \in Word32
    <3>1. (i - 1) % 4 \in 0 .. 3
      OBVIOUS
    <3> QED
      BY <1>3, <3>1, Zenon
  <2> QED
    BY <2>1, Zenon DEF Word32
<1> HIDE DEF W
<1>5. f \in [1 .. n -> Word32]
  BY <1>4
<1> HIDE DEF f
<1> QED
  BY <1>1, <1>2, <1>5, Listed DEF Chain

LEMMA PageTexts ==
    ASSUME NEW H \in FiveWords, NEW map
    PROVE  /\ HexParse(binb2hex(H)) \in Arrays
           /\ Latin1Parse(binb2str(H)) \in Arrays
           /\ Base64Parse(map, binb2b64(H)) \in Arrays
<1>1. Len(H) = 5 /\ \A k \in 1 .. 5 : H[k] \in Word32
  BY DEF FiveWords
<1>2. HexParse(binb2hex(H)) \in Arrays
  <2> DEFINE D(i) == LET low == 28 - (4 * ((i - 1) % 8)) IN {p - low : p \in H[((i - 1) \div 8) + 1] \cap low .. (low + 3)}
             f == [i \in 1 .. 40 |-> D(i)]
  <2>1. binb2hex(H) = f
    <3>1. 8 * Len(H) = 40
      BY <1>1
    <3> QED
      BY <3>1 DEF binb2hex
  <2>2. ASSUME NEW i \in 1 .. 40 PROVE D(i) \in Nibble
    <3> DEFINE low == 28 - (4 * ((i - 1) % 8))
    <3>1. low \in Int
      OBVIOUS
    <3> HIDE DEF low
    <3>2. \A p \in low .. (low + 3) : p - low \in 0 .. 3
      BY <3>1
    <3>3. \A X : {p - low : p \in X \cap low .. (low + 3)} \in Nibble
      BY <3>2, Zenon DEF Nibble
    <3> QED
      BY <3>3, Zenon DEF low
  <2> HIDE DEF D
  <2>3. f \in [1 .. 40 -> Nibble] /\ 40 \in Nat
    BY <2>2
  <2> HIDE DEF f
  <2>4. f \in Seq(Nibble)
    BY <2>3, Listed
  <2> QED
    BY <2>1, <2>4, HexParsed
<1>3. Latin1Parse(binb2str(H)) \in Arrays
  <2> DEFINE D(i) == ByteAt(H[((i - 1) \div 4) + 1], (i - 1) % 4)
             f == [i \in 1 .. 20 |-> D(i)]
  <2>1. binb2str(H) = f
    <3>1. 4 * Len(H) = 20
      BY <1>1
    <3> QED
      BY <3>1 DEF binb2str
  <2>2. ASSUME NEW i \in 1 .. 20 PROVE D(i) \in Byte
    <3>1. (i - 1) % 4 \in 0 .. 3 /\ ((i - 1) \div 4) + 1 \in 1 .. 5
      OBVIOUS
    <3> QED
      BY <1>1, <3>1, BytesOfAnyWord, Zenon
  <2> HIDE DEF D
  <2>3. f \in [1 .. 20 -> Byte] /\ 20 \in Nat
    BY <2>2
  <2> HIDE DEF f
  <2>4. f \in Seq(Byte)
    BY <2>3, Listed
  <2> QED
    BY <2>1, <2>4, Latin1Parsed
<1>4. Base64Parse(map, binb2b64(H)) \in Arrays
  <2> DEFINE str == binb2str(H)
             Bit(n) == n \div 8 < Len(str) /\ (7 - (n % 8)) \in str[(n \div 8) + 1]
             D(k) == NumberOf({5 - j : j \in {m \in 0 .. 5 : Bit((6 * (k - 1)) + m)}})
             l == ((32 * Len(H)) \div 6) + 1
             f == [k \in 1 .. l |-> D(k)]
             S == {D(k) : k \in 1 .. l}
  <2>1. binb2b64(H) = f
    BY Zenon DEF binb2b64
  <2>2. l \in Nat
    BY <1>1
  <2> HIDE DEF D, l
  <2>3. f \in [1 .. l -> S]
    OBVIOUS
  <2> HIDE DEF f, S
  <2>4. f \in Seq(S)
    BY <2>2, <2>3, Listed
  <2> QED
    BY <2>1, <2>4, Base64Parsed
<1> QED
  BY <1>2, <1>3, <1>4

LEMMA PageMacTyped ==
    ASSUME NEW key \in Seq(Byte), NEW data \in Seq(Byte)
    PROVE  core_hmac_sha1(key, data) \in FiveWords
<1> DEFINE bkey == bkey_of(key)
           Masked(byte) == padded_key(bkey, byte)
<1>1. Len(key) \in Nat /\ Len(data) \in Nat
  OBVIOUS
<1>2. ASSUME NEW H \in FiveWords PROVE H \in Chain
  <2>1. 5 \in Nat
    OBVIOUS
  <2> QED
    BY <2>1, Listed DEF FiveWords, Chain
<1>3. bkey \in Chain
  <2>1. str2binb(key) \in Chain /\ 8 * Len(key) \in Nat
    BY <1>1, BinbTyped
  <2> QED
    BY <1>2, <2>1, CoreSha1Typed DEF bkey_of
<1> HIDE DEF bkey
<1>4. ASSUME NEW byte \in Byte, NEW v \in Chain PROVE Masked(byte) \o v \in Chain
  <2> DEFINE mask == WordOf(<<byte, byte, byte, byte>>)
             f == [i \in 1 .. 16 |-> Xor(At(bkey, i - 1), mask)]
  <2>1. mask \in Word32
    <3>1. \A x \in Byte, j \in 0 .. 3 : AtByte(x, j) \in Word32
      <4>1. \A j \in 0 .. 3, i \in 0 .. 7 : i + (24 - 8 * j) \in 0 .. 31
        OBVIOUS
      <4> QED
        BY <4>1 DEF AtByte, Byte, Word32, Places
    <3> DEFINE q == <<byte, byte, byte, byte>>
    <3>2. \A j \in DOMAIN q : q[j] \in Byte /\ j - 1 \in 0 .. 3
      OBVIOUS
    <3> HIDE DEF q
    <3>3. \A j \in DOMAIN q : AtByte(q[j], j - 1) \in Word32
      BY <3>1, <3>2, Zenon
    <3>4. WordOf(q) \in Word32
      BY <3>3, Zenon DEF WordOf, Word32
    <3> QED
      BY <3>4 DEF q
  <2> HIDE DEF mask
  <2>2. ASSUME NEW i \in 1 .. 16 PROVE Xor(At(bkey, i - 1), mask) \in Word32
    <3>1. i - 1 \in Nat
      OBVIOUS
    <3>2. At(bkey, i - 1) \in Word32
      BY <1>3, <3>1, WordAt
    <3> QED
      BY <2>1, <3>2, WordOperators
  <2>3. f \in [1 .. 16 -> Word32] /\ 16 \in Nat
    BY <2>2
  <2>4. Masked(byte) = f
    BY DEF padded_key, mask
  <2> HIDE DEF f, Masked
  <2>5. f \in Seq(Word32)
    BY <2>3, Listed
  <2> QED
    BY <2>4, <2>5, ConcatProperties DEF Chain
<1> HIDE DEF Masked
<1>5. {5, 4, 2, 1} \in Byte /\ {6, 4, 3, 2} \in Byte
  BY DEF Byte
<1> DEFINE inner == Masked({5, 4, 2, 1}) \o str2binb(data)
           hash == core_sha1(inner, 512 + (8 * Len(data)))
           outer == Masked({6, 4, 3, 2}) \o hash
<1>6. inner \in Chain
  BY <1>4, <1>5, BinbTyped
<1> HIDE DEF inner
<1>7. hash \in FiveWords
  <2>1. 512 + (8 * Len(data)) \in Nat
    BY <1>1
  <2> QED
    BY <1>6, <2>1, CoreSha1Typed
<1> HIDE DEF hash
<1>8. outer \in Chain
  BY <1>2, <1>4, <1>5, <1>7
<1> HIDE DEF outer
<1>9. core_sha1(outer, 512 + 160) \in FiveWords
  <2>1. 512 + 160 \in Nat
    OBVIOUS
  <2> QED
    BY <1>8, <2>1, CoreSha1Typed
<1>10. core_hmac_sha1(key, data) = core_sha1(outer, 512 + 160)
  BY Zenon DEF core_hmac_sha1, hmac_with, outer, hash, inner, Masked, bkey
<1> QED
  BY <1>9, <1>10

-----------------------------------------------------------------------------
(* What one call gives *)

MacsOf(hasher) == [inner : ObjectsOf(hasher), oKey : Arrays, iKey : Arrays]

LEMMA EmptyTyped == EmptyArray \in Arrays
<1>1. <<>> \in Chain /\ 0 \in Nat
  BY DEF Chain
<1> QED
  BY <1>1, ArrayIs DEF EmptyArray

LEMMA MacsTyped ==
    ASSUME BlockFunctionsAreTyped, NEW hasher \in HasherNames
    PROVE  /\ \A key \in Arrays : NewMac(hasher, key) \in MacsOf(hasher)
           /\ \A m \in MacsOf(hasher), d \in Arrays : UpdateMac(m, d) \in MacsOf(hasher)
           /\ \A m \in MacsOf(hasher), d \in Arrays : MacResult(FinalizeMac(m, d)) \in Arrays
<1>1. ASSUME NEW key \in Arrays PROVE NewMac(hasher, key) \in MacsOf(hasher)
  <2> DEFINE h == NewHasher(hasher)
             k == MacKey(hasher, key)
             w == WithPads(h, k)
             r == UpdateHasher(ResetHasher(h), w.iKey)
  <2>1. h \in ObjectsOf(hasher) /\ ResetHasher(h) = h
    BY ObjectsTyped
  <2>2. w.inner = h /\ w.iKey \in Arrays /\ w.oKey \in Arrays
    <3> HIDE DEF h
    <3>1. w.inner = h /\ w.iKey = OfBytes(InnerBytes(hasher, key)) /\ InnerBytes(hasher, key) \in Seq(Byte)
      BY <2>1, PadsOf
    <3>2. w.oKey = PadKey(hasher, MacKey(hasher, key).words, OuterPad)
          /\ PadKey(hasher, MacKey(hasher, key).words, OuterPad) \in Arrays
      BY <2>1, PadsOf
    <3> QED
      BY <3>1, <3>2, OfBytesIs
  <2>3. w = [inner |-> w.inner, oKey |-> w.oKey, iKey |-> w.iKey]
    BY DEF WithPads
  <2> HIDE DEF h, w
  <2>4. r \in ObjectsOf(hasher)
    BY <2>1, <2>2, ObjectsTyped
  <2>5. NewMac(hasher, key) = [w EXCEPT !.inner = UpdateHasher(ResetHasher(w.inner), w.iKey)]
    BY DEF NewMac, ResetMac, w, h
  <2> HIDE DEF r
  <2>6. NewMac(hasher, key) = [w EXCEPT !.inner = r]
    BY <2>2, <2>5 DEF r
  <2> QED
    BY <2>2, <2>3, <2>4, <2>6 DEF MacsOf
<1>2. ASSUME NEW m \in MacsOf(hasher), NEW d \in Arrays PROVE UpdateMac(m, d) \in MacsOf(hasher)
  <2> DEFINE r == UpdateHasher(m.inner, d)
  <2>1. m.inner \in ObjectsOf(hasher)
    BY DEF MacsOf
  <2>2. r \in ObjectsOf(hasher)
    BY <2>1, ObjectsTyped
  <2>3. UpdateMac(m, d) = [m EXCEPT !.inner = r]
    BY DEF UpdateMac
  <2> HIDE DEF r
  <2> QED
    BY <2>2, <2>3 DEF MacsOf
<1>3. ASSUME NEW m \in MacsOf(hasher), NEW d \in Arrays PROVE MacResult(FinalizeMac(m, d)) \in Arrays
  <2> DEFINE f == FinalizeHasher(m.inner, d)
             c == Concat(m.oKey, Result(f))
             r == FinalizeHasher(ResetHasher(m.inner), c)
  <2>1. m.inner \in ObjectsOf(hasher) /\ m.oKey \in Arrays
    BY DEF MacsOf
  <2>2. f \in ObjectsOf(hasher)
    BY <2>1, ObjectsTyped
  <2> HIDE DEF f
  <2>3. Result(f) \in Arrays
    BY <2>2, ObjectsTyped
  <2>4. c \in Arrays
    BY <2>1, <2>3, ConcatTyped
  <2> HIDE DEF c
  <2>5. ResetHasher(m.inner) \in ObjectsOf(hasher)
    BY <2>1, ObjectsTyped
  <2>6. r \in ObjectsOf(hasher)
    BY <2>4, <2>5, ObjectsTyped
  <2>7. FinalizeMac(m, d) = [m EXCEPT !.inner = r]
    BY DEF FinalizeMac, r, c, f
  <2> HIDE DEF r
  <2>8. FinalizeMac(m, d).inner = r
    BY <2>7 DEF MacsOf
  <2> QED
    BY <2>6, <2>8, ObjectsTyped DEF MacResult
<1> QED
  BY <1>1, <1>2, <1>3

LEMMA ShortcutsTyped ==
    ASSUME BlockFunctionsAreTyped, NEW hasher \in HasherNames, NEW d \in Arrays, NEW key \in Arrays
    PROVE  HashOf(hasher, d) \in Arrays /\ MacOf(hasher, d, key) \in Arrays
<1>1. HashOf(hasher, d) \in Arrays
  <2>1. NewHasher(hasher) \in ObjectsOf(hasher)
    BY ObjectsTyped
  <2>2. FinalizeHasher(NewHasher(hasher), d) \in ObjectsOf(hasher)
    BY <2>1, ObjectsTyped
  <2> QED
    BY <2>2, ObjectsTyped DEF HashOf
<1>2. MacOf(hasher, d, key) \in Arrays
  BY MacsTyped DEF MacOf
<1> QED
  BY <1>1, <1>2

LEMMA XorTyped ==
    ASSUME NEW x \in Arrays, NEW y \in Arrays
    PROVE  XorBlocks(x, y) \in Arrays
<1> DEFINE f == [i \in DOMAIN x.words |-> Xor(x.words[i], At(y.words, i - 1))]
<1>1. x.words \in Chain /\ y.words \in Chain
  BY DEF Arrays
<1>2. f \in Chain
  <2> DEFINE n == Len(x.words)
  <2>1. n \in Nat /\ DOMAIN x.words = 1 .. n /\ \A i \in 1 .. n : x.words[i] \in Word32
    BY <1>1 DEF Chain
  <2>2. ASSUME NEW i \in 1 .. n PROVE Xor(x.words[i], At(y.words, i - 1)) \in Word32
    <3>1. i - 1 \in Nat
      BY <2>1
    <3>2. At(y.words, i - 1) \in Word32
      BY <1>1, <3>1, WordAt
    <3> QED
      BY <2>1, <3>2, WordOperators
  <2> HIDE DEF n
  <2>3. f \in [1 .. n -> Word32]
    BY <2>1, <2>2
  <2> HIDE DEF f
  <2> QED
    BY <2>1, <2>3, Listed DEF Chain
<1>3. XorBlocks(x, y) = [x EXCEPT !.words = f]
  BY DEF XorBlocks, XorWords
<1> HIDE DEF f
<1> QED
  BY <1>2, <1>3 DEF Arrays

LEMMA Pbkdf2BlockTyped ==
    ASSUME BlockFunctionsAreTyped, NEW hasher \in HasherNames, NEW hmac \in MacsOf(hasher), NEW salt \in Arrays,
           NEW index \in Nat, NEW iterations \in Nat \ {0}
    PROVE  Pbkdf2Block(hmac, salt, index, iterations) \in Arrays
<1> DEFINE S == [block : Arrays, step : Arrays]
           n == iterations - 1
           Step(p) == Iterated(p.block, MacResult(FinalizeMac(hmac, p.step)))
           g == [i \in 0 .. n - 1 |-> [p \in S |-> Step(p)]]
           one == Create(<<WordOfNat(index)>>)
           first == FirstStep(MacResult(FinalizeMac(UpdateMac(hmac, salt), one)))
<1>1. one \in Arrays
  <2>1. WordOfNat(index) \in Word32
    BY DEF WordOfNat, Word32, Places
  <2>2. <<WordOfNat(index)>> \in Chain
    BY <2>1 DEF Chain
  <2>3. 0 \in Nat
    OBVIOUS
  <2> QED
    BY <2>2, <2>3, ArrayIs
<1> HIDE DEF one
<1>2. first \in S
  <2>1. UpdateMac(hmac, salt) \in MacsOf(hasher)
    BY MacsTyped
  <2>2. MacResult(FinalizeMac(UpdateMac(hmac, salt), one)) \in Arrays
    BY <1>1, <2>1, MacsTyped
  <2> QED
    BY <2>2 DEF FirstStep
<1>3. Pbkdf2Block(hmac, salt, index, iterations) = Passed(S, n, g, first).block
  BY Zenon DEF Pbkdf2Block, Loop, one
<1> HIDE DEF first
<1>4. n \in Nat
  OBVIOUS
<1> HIDE DEF n
<1>5. ASSUME NEW i \in 0 .. n - 1, NEW p \in S PROVE g[i][p] \in S
  <2> DEFINE x == MacResult(FinalizeMac(hmac, p.step))
  <2>1. p.block \in Arrays /\ p.step \in Arrays
    OBVIOUS
  <2>2. x \in Arrays
    BY <2>1, MacsTyped
  <2> HIDE DEF x
  <2>3. XorBlocks(p.block, x) \in Arrays
    BY <2>1, <2>2, XorTyped
  <2>4. Step(p) = [block |-> XorBlocks(p.block, x), step |-> x]
    BY DEF Iterated, x
  <2>5. g[i][p] = Step(p)
    OBVIOUS
  <2> HIDE DEF g, Step
  <2> QED
    BY <2>2, <2>3, <2>4, <2>5
<1> HIDE DEF g
<1>6. Passed(S, n, g, first) \in S
  BY <1>2, <1>4, <1>5, PassedIs
<1> QED
  BY <1>3, <1>6

LEMMA KeyTyped ==
    ASSUME NEW d \in Arrays, NEW n \in Nat
    PROVE  [d EXCEPT !.sigBytes = 4 * n] \in Arrays
BY DEF Arrays

LEMMA Pbkdf2Typed ==
    ASSUME BlockFunctionsAreTyped, NEW hasher \in HasherNames, NEW password \in Arrays, NEW salt \in Arrays,
           NEW keySize \in Nat, NEW iterations \in Nat \ {0}
    PROVE  Pbkdf2(hasher, password, salt, keySize, iterations) \in Arrays
<1> DEFINE hmac == NewMac(hasher, password)
           Step(d, i) == IF Enough(d.words, keySize) THEN d ELSE Concat(d, Pbkdf2Block(hmac, salt, i + 1, iterations))
           g == [i \in 0 .. keySize - 1 |-> [d \in Arrays |-> Step(d, i)]]
           all == Passed(Arrays, keySize, g, EmptyArray)
<1>1. hmac \in MacsOf(hasher)
  BY MacsTyped
<1>2. Pbkdf2(hasher, password, salt, keySize, iterations) = [all EXCEPT !.sigBytes = 4 * keySize]
  BY Zenon DEF Pbkdf2, Pbkdf2With, Loop
<1> HIDE DEF hmac
<1>3. ASSUME NEW i \in 0 .. keySize - 1, NEW d \in Arrays PROVE g[i][d] \in Arrays
  <2>1. i + 1 \in Nat
    OBVIOUS
  <2>2. Pbkdf2Block(hmac, salt, i + 1, iterations) \in Arrays
    BY <1>1, <2>1, Pbkdf2BlockTyped
  <2>3. Step(d, i) \in Arrays
    BY <2>2, ConcatTyped
  <2> HIDE DEF Step
  <2> QED
    BY <2>3
<1> HIDE DEF g
<1>4. all \in Arrays
  BY <1>3, EmptyTyped, PassedIs
<1> HIDE DEF all
<1> QED
  BY <1>2, <1>4, KeyTyped

LEMMA EvpBlockTyped ==
    ASSUME BlockFunctionsAreTyped, NEW hasher \in HasherNames, NEW block \in Arrays, NEW password \in Arrays,
           NEW salt \in Arrays, NEW iterations \in Nat \ {0}
    PROVE  EvpBlock(hasher, block, password, salt, iterations) \in Arrays
<1> DEFINE start == IF block.sigBytes = 0 THEN NewHasher(hasher) ELSE UpdateHasher(NewHasher(hasher), block)
           fed == UpdateHasher(start, password)
           last == FinalizeHasher(fed, salt)
           first == Result(last)
           n == iterations - 1
           g == [i \in 0 .. n - 1 |-> [b \in Arrays |-> HashOf(hasher, b)]]
<1>1. start \in ObjectsOf(hasher)
  BY ObjectsTyped
<1>2. EvpBlock(hasher, block, password, salt, iterations) = Passed(Arrays, n, g, first)
  BY Zenon DEF EvpBlock, Loop
<1> HIDE DEF start
<1>3. fed \in ObjectsOf(hasher)
  BY <1>1, ObjectsTyped
<1> HIDE DEF fed
<1>4. last \in ObjectsOf(hasher)
  BY <1>3, ObjectsTyped
<1> HIDE DEF last
<1>5. first \in Arrays
  BY <1>4, ObjectsTyped
<1> HIDE DEF first
<1>6. n \in Nat
  OBVIOUS
<1> HIDE DEF n
<1>7. ASSUME NEW i \in 0 .. n - 1, NEW b \in Arrays PROVE g[i][b] \in Arrays
  <2>1. HashOf(hasher, b) \in Arrays
    BY ShortcutsTyped
  <2> QED
    BY <2>1
<1> HIDE DEF g
<1> QED
  BY <1>2, <1>5, <1>6, <1>7, PassedIs

LEMMA EvpKdfTyped ==
    ASSUME BlockFunctionsAreTyped, NEW hasher \in HasherNames, NEW password \in Arrays, NEW salt \in Arrays,
           NEW keySize \in Nat, NEW iterations \in Nat \ {0}
    PROVE  EvpKdf(hasher, password, salt, keySize, iterations) \in Arrays
<1> DEFINE S == [all : Arrays, last : Arrays]
           Next1(d) == Derived(d.all, EvpBlock(hasher, d.last, password, salt, iterations))
           Step(d) == IF Enough(d.all.words, keySize) THEN d ELSE Next1(d)
           g == [i \in 0 .. keySize - 1 |-> [d \in S |-> Step(d)]]
           first == Derived(EmptyArray, EmptyArray)
           out == Passed(S, keySize, g, first)
<1>1. ASSUME NEW x \in Arrays, NEW y \in Arrays PROVE Derived(x, y) \in S
  <2>1. Concat(x, y) \in Arrays
    BY ConcatTyped
  <2> QED
    BY <2>1 DEF Derived
<1>2. first \in S
  BY <1>1, EmptyTyped
<1>3. EvpKdf(hasher, password, salt, keySize, iterations) = [out.all EXCEPT !.sigBytes = 4 * keySize]
  BY Zenon DEF EvpKdf, Loop
<1> HIDE DEF first
<1>4. ASSUME NEW i \in 0 .. keySize - 1, NEW d \in S PROVE g[i][d] \in S
  <2>1. d.all \in Arrays /\ d.last \in Arrays
    OBVIOUS
  <2>2. EvpBlock(hasher, d.last, password, salt, iterations) \in Arrays
    BY <2>1, EvpBlockTyped
  <2>3. Next1(d) \in S
    BY <1>1, <2>1, <2>2
  <2> HIDE DEF Next1
  <2>4. Step(d) \in S
    BY <2>3
  <2> HIDE DEF Step
  <2> QED
    BY <2>4
<1> HIDE DEF g
<1>5. out \in S
  BY <1>2, <1>4, PassedIs
<1> HIDE DEF out
<1>6. out.all \in Arrays
  BY <1>5
<1> QED
  BY <1>3, <1>6, KeyTyped

LEMMA OneCallTyped ==
    ASSUME BlockFunctionsAreTyped, job \in Jobs, job.kind \notin StreamKinds, NEW data \in Arrays, NEW chars \in Seq(Byte)
    PROVE  OneCall(data, chars) \in Arrays
<1>1. /\ job.hasher \in HasherNames /\ job.key \in Arrays /\ job.kind \in CallKinds
      /\ job.size \in Nat /\ job.iterations \in Nat \ {0}
  BY JobAssumption
<1>2. Bytes(job.key) \in Seq(Byte)
  BY <1>1, BytesIs
<1>3. core_sha1(str2binb(chars), 8 * Len(chars)) \in FiveWords
  <2>1. 8 * Len(chars) \in Nat
    OBVIOUS
  <2> QED
    BY <2>1, BinbTyped, CoreSha1Typed
<1>4. core_hmac_sha1(Bytes(job.key), chars) \in FiveWords
  BY <1>2, PageMacTyped
<1>5. CASE job.kind = "pbkdf2"
  BY <1>1, <1>5, Pbkdf2Typed DEF OneCall
<1>6. CASE job.kind = "evpkdf"
  BY <1>1, <1>6, EvpKdfTyped DEF OneCall
<1>7. CASE job.kind = "hex_sha1"
  BY <1>3, <1>7, PageTexts DEF OneCall, hex_sha1
<1>8. CASE job.kind = "str_sha1"
  BY <1>3, <1>8, PageTexts DEF OneCall, str_sha1
<1>9. CASE job.kind = "b64_hmac_sha1"
  BY <1>4, <1>9, PageTexts DEF OneCall, b64_hmac_sha1
<1>10. CASE job.kind = "shortcut"
  BY <1>1, <1>10, ShortcutsTyped DEF OneCall
<1>11. CASE job.kind = "macShortcut"
  BY <1>1, <1>11, ShortcutsTyped DEF OneCall
<1> QED
  BY <1>1, <1>5, <1>6, <1>7, <1>8, <1>9, <1>10, <1>11 DEF CallKinds

-----------------------------------------------------------------------------
(* The digests a script is given are arrays *)

CallsTyped ==
    job \in Jobs /\ job.kind \notin StreamKinds => \A o \in Objects : results[o].digest \in Arrays

LEMMA CallsStart == ScriptsInit => CallsTyped
<1> SUFFICES ASSUME ScriptsInit, NEW o \in Objects PROVE results[o].digest \in Arrays
  BY DEF CallsTyped
<1>1. results[o] = NoResult
  BY DEF ScriptsInit, HashInit, HashStart
<1> QED
  BY <1>1, EmptyTyped DEF NoResult

LEMMA CallsNext ==
    ASSUME BlockFunctionsAreTyped, ScriptInv, CallsTyped, [ScriptsNext]_<<hvars, cvars>>
    PROVE  CallsTyped'
<1> SUFFICES ASSUME job' \in Jobs, job'.kind \notin StreamKinds, NEW o \in Objects
             PROVE  results'[o].digest \in Arrays
  BY DEF CallsTyped
<1>1. CASE UNCHANGED hvars
  BY <1>1 DEF hvars, CallsTyped
<1>2. CASE HashNext
  <2>1. job' = job
    BY <1>2 DEF HashNext, CreateHasher, Reset, Clone, Update, Call, Finalize
  <2>2. job \in Jobs /\ job.kind \notin StreamKinds
    BY <2>1
  <2>3. \A q \in Objects : ~ InUse(q) /\ results[q].digest \in Arrays
    BY <2>2 DEF ScriptInv, Sound, InHand, CallsTyped
  <2>4. PICK q \in Objects, n \in job.stops : Call(q, n)
    <3>1. PICK p \in Objects :
             \/ CreateHasher(p)
             \/ Reset(p)
             \/ \E r \in Objects : Clone(p, r)
             \/ \E n \in job.stops : Update(p, n) \/ Call(p, n)
             \/ \E n \in job.stops \cup {0} : Finalize(p, n)
      BY <1>2 DEF HashNext
    <3>2. ~ CreateHasher(p) /\ ~ Reset(p)
      BY <2>2, <2>3 DEF CreateHasher, Reset
    <3>3. ~ \E r \in Objects : Clone(p, r)
      BY <2>2, <2>3 DEF Clone, Feeding
    <3>4. (~ \E n \in job.stops : Update(p, n)) /\ ~ \E n \in job.stops \cup {0} : Finalize(p, n)
      BY <2>3 DEF Update, Finalize, Feeding
    <3> QED
      BY <3>1, <3>2, <3>3, <3>4
  <2> DEFINE d == OneCall(Piece(0, n), SubSeq(Text, 1, n))
             r == [length |-> n, digest |-> d]
  <2>5. d \in Arrays
    <3>1. /\ Piece(0, n) = OfBytes(SubSeq(Text, 0 + 1, n)) /\ SubSeq(Text, 0 + 1, n) \in Seq(Byte)
          /\ SubSeq(Text, 1, n) \in Seq(Byte)
      <4>1. 0 \in job.stops \cup {0} /\ n \in job.stops /\ 0 <= n
        <5>1. job.stops \subseteq 0 .. Len(Text)
          BY <2>2, JobAssumption
        <5> QED
          BY <5>1
      <4> QED
        BY <2>2, <4>1, PieceIs
    <3>2. Piece(0, n) \in Arrays
      BY <3>1, OfBytesIs
    <3> QED
      BY <2>2, <3>1, <3>2, OneCallTyped
  <2>6. results' = [results EXCEPT ![q] = r]
    BY <2>4 DEF Call
  <2>7. r.digest = d
    OBVIOUS
  <2> HIDE DEF d, r
  <2>8. CASE o = q
    <3>1. DOMAIN results = Objects
      BY DEF ScriptInv, Storage
    <3>2. results'[o] = r
      BY <2>6, <2>8, <3>1
    <3> QED
      BY <2>5, <2>7, <3>2
  <2>9. CASE o # q
    <3>1. results'[o] = results[o]
      BY <2>6, <2>9
    <3> QED
      BY <2>3, <3>1
  <2> QED
    BY <2>8, <2>9
<1> QED
  BY <1>1, <1>2 DEF ScriptsNext

LEMMA DigestsTyped ==
    ASSUME BlockFunctionsAreTyped, ScriptInv, CallsTyped, NEW o \in Objects
    PROVE  results[o].digest \in Arrays
<1>1. CASE results[o] = NoResult
  BY <1>1, EmptyTyped DEF NoResult
<1>2. CASE results[o] # NoResult /\ job.kind \in StreamKinds
  <2> DEFINE n == results[o].length
  <2>1. job \in Jobs
    BY <1>2 DEF ScriptInv, Idle
  <2>2. n \in Stops /\ results[o].digest = AtOnce(Taken(n))
    BY <1>2, <2>1 DEF ScriptInv, Sound, GivenAtOnce
  <2>3. job.hasher \in HasherNames /\ job.key \in Arrays /\ job.stops \subseteq 0 .. Len(Text)
    BY <2>1, JobAssumption
  <2>4. n \in 0 .. Len(Text) /\ Text \in Seq(Byte)
    BY <2>2, <2>3, TextAssumption DEF Stops
  <2> HIDE DEF n
  <2>5. Taken(n) \in Seq(Byte)
    BY <2>4, CutSeq DEF Taken
  <2>6. OfBytes(Taken(n)) \in Arrays
    BY <2>5, OfBytesIs
  <2>7. AtOnce(Taken(n)) \in Arrays
    BY <2>3, <2>6, ShortcutsTyped DEF AtOnce
  <2> QED
    BY <2>2, <2>7
<1>3. CASE results[o] # NoResult /\ job.kind \notin StreamKinds
  <2>1. job \in Jobs
    BY <1>3 DEF ScriptInv, Idle
  <2> QED
    BY <1>3, <2>1 DEF CallsTyped
<1> QED
  BY <1>1, <1>2, <1>3

LEMMA TextFormsFollow ==
    ASSUME BlockFunctionsAreTyped, ScriptInv, CallsTyped
    PROVE  TextFormsRoundTrip
<1> SUFFICES ASSUME NEW o \in Objects
             PROVE  LET d == results[o].digest
                    IN  /\ Bytes(HexParse(HexStringify(d))) = Bytes(d)
                        /\ Bytes(Latin1Parse(Latin1Stringify(d))) = Bytes(d)
                        /\ \A map \in {Map, PageMap} : Bytes(Base64Parse(map, Base64Stringify(map, d))) = Bytes(d)
                        /\ d.sigBytes % 2 = 0 => /\ Bytes(Utf16Parse(Utf16Stringify(d))) = Bytes(d)
                                                 /\ Bytes(Utf16LEParse(Utf16LEStringify(d))) = Bytes(d)
  BY Zenon DEF TextFormsRoundTrip
<1> DEFINE d == results[o].digest
<1>1. d \in Arrays
  BY DigestsTyped
<1> HIDE DEF d
<1>2. Bytes(OfBytes(Bytes(d))) = Bytes(d)
  <2>1. Bytes(d) \in Seq(Byte)
    BY <1>1, BytesIs
  <2> QED
    BY <2>1, BytesOfBytes
<1>3. HexParse(HexStringify(d)) = OfBytes(Bytes(d)) /\ Latin1Parse(Latin1Stringify(d)) = OfBytes(Bytes(d))
  BY <1>1, HexRoundTrip, Latin1RoundTrip
<1>4. \A map \in {Map, PageMap} : Base64Parse(map, Base64Stringify(map, d)) = OfBytes(Bytes(d))
  BY <1>1, Base64RoundTrip
<1>5. d.sigBytes % 2 = 0 => /\ Utf16Parse(Utf16Stringify(d)) = OfBytes(Bytes(d))
                            /\ Utf16LEParse(Utf16LEStringify(d)) = OfBytes(Bytes(d))
  BY <1>1, Utf16RoundTrip, Utf16LERoundTrip
<1>6. /\ Bytes(HexParse(HexStringify(d))) = Bytes(d)
      /\ Bytes(Latin1Parse(Latin1Stringify(d))) = Bytes(d)
      /\ \A map \in {Map, PageMap} : Bytes(Base64Parse(map, Base64Stringify(map, d))) = Bytes(d)
      /\ d.sigBytes % 2 = 0 => /\ Bytes(Utf16Parse(Utf16Stringify(d))) = Bytes(d)
                               /\ Bytes(Utf16LEParse(Utf16LEStringify(d))) = Bytes(d)
  BY <1>2, <1>3, <1>4, <1>5, Zenon
<1> QED
  BY <1>6, Zenon DEF d

\* Whatever a script is given, of whichever call and whichever message, is the
\* same bytes again after any text form of it was parsed: hex, Latin1, base 64
\* in both alphabets, and UTF-16 in both orders if the bytes are even.
THEOREM TextFormsGiveBack ==
    ASSUME DoProcessBlock = BlockFunctions
    PROVE  ScriptsSpec => []TextFormsRoundTrip
<1>0. BlockFunctionsAreTyped
  BY BlockFunctionsTyped
<1>1. ScriptsInit => CallsTyped
  BY CallsStart
<1>2. ScriptInv /\ CallsTyped /\ [ScriptsNext]_<<hvars, cvars>> => CallsTyped'
  BY <1>0, CallsNext
<1>3. ScriptInv /\ CallsTyped => TextFormsRoundTrip
  BY <1>0, TextFormsFollow
<1>4. ScriptsSpec => []ScriptInv
  BY <1>0, ScriptInvariant
<1> QED
  BY <1>1, <1>2, <1>3, <1>4, PTL DEF ScriptsSpec

-----------------------------------------------------------------------------
(* Loops, once more *)

\* Only the values that a loop comes to matter, not all of S.
LEMMA PassedWithin ==
    ASSUME NEW S, NEW U \in SUBSET S, NEW n \in Nat, NEW g, \A i \in 0 .. n - 1, x \in U : g[i][x] \in U,
           NEW first \in U
    PROVE  /\ Passed(S, n, g, first) \in U
           /\ \A f : f[0] = first /\ Runs(f, U, n, g) => Passed(S, n, g, first) = f[n]
<1> DEFINE pass == CHOOSE p : Passes(p, S, n, g)
<1>1. Passed(S, n, g, first) = pass[0][first]
  BY DEF Passed, Passes
<1>2. Passes(pass, S, n, g)
  BY LoopExists
<1> HIDE DEF pass
<1>3. ASSUME NEW f, f[0] = first, Runs(f, U, n, g) PROVE pass[0][first] = f[n]
  <2>1. Runs(f, S, n, g)
    BY <1>3 DEF Runs
  <2> QED
    BY <1>2, <1>3, <2>1, LoopIs
<1>4. PICK f : f[0] = first /\ Runs(f, U, n, g)
  BY RunExists
<1>5. f[n] \in U
  BY <1>4 DEF Runs
<1>6. pass[0][first] \in U
  BY <1>3, <1>4, <1>5
<1> QED
  BY <1>1, <1>3, <1>6

-----------------------------------------------------------------------------
(* Arrays that hold bytes *)

\* w holds b: its words are those of b, whether or not they are all there.
Holds(w, b) ==
    /\ w \in Arrays /\ b \in Seq(Byte)
    /\ w.sigBytes = Len(b)
    /\ \A k \in Nat : At(w.words, k) = At(OfBytes(b).words, k)

LEMMA HoldsOfBytes ==
    ASSUME NEW b \in Seq(Byte)
    PROVE  Holds(OfBytes(b), b)
BY OfBytesIs DEF Holds

LEMMA BytesHeld ==
    ASSUME NEW w, NEW b, Holds(w, b)
    PROVE  /\ Bytes(w) = b
           /\ \A k \in Nat, j \in 0 .. 3 : ByteAt(At(w.words, k), j) = ByteOf(b, 4 * k + j)
<1> USE DEF Holds
<1>1. \A k \in Nat, j \in 0 .. 3 : ByteAt(At(w.words, k), j) = ByteOf(b, 4 * k + j)
  BY OfBytesIs
<1>2. Bytes(w) \in Seq(Byte) /\ Len(Bytes(w)) = Len(b)
      /\ \A i \in 1 .. Len(b) : Bytes(w)[i] = ByteAt(At(w.words, (i - 1) \div 4), (i - 1) % 4)
  BY BytesIs
<1>3. ASSUME NEW i \in 1 .. Len(b) PROVE Bytes(w)[i] = b[i]
  <2> DEFINE k == (i - 1) \div 4
             j == (i - 1) % 4
  <2>1. k \in Nat /\ j \in 0 .. 3 /\ 4 * k + j = i - 1 /\ i - 1 < Len(b) /\ (i - 1) + 1 = i
    OBVIOUS
  <2> HIDE DEF k, j
  <2>2. ByteAt(At(w.words, k), j) = ByteOf(b, i - 1)
    BY <1>1, <2>1
  <2>3. ByteOf(b, i - 1) = b[i]
    BY <2>1 DEF ByteOf
  <2> QED
    BY <1>2, <2>2, <2>3 DEF k, j
<1>4. Bytes(w) = b
  BY <1>2, <1>3, SameSeq
<1> QED
  BY <1>1, <1>4

\* The bytes of joined arrays.
LEMMA BytesJoined ==
    ASSUME NEW w \in Arrays, NEW v \in Arrays
    PROVE  Bytes(Concat(w, v)) = Bytes(w) \o Bytes(v)
<1> DEFINE a == Bytes(w)
           b == Bytes(v)
           c == Concat(w, v)
<1>1. /\ a \in Seq(Byte) /\ Len(a) = w.sigBytes /\ b \in Seq(Byte) /\ Len(b) = v.sigBytes
      /\ \A i \in 1 .. v.sigBytes : b[i] = ByteAt(At(v.words, (i - 1) \div 4), (i - 1) % 4)
      /\ \A i \in 1 .. w.sigBytes : a[i] = ByteAt(At(w.words, (i - 1) \div 4), (i - 1) % 4)
  BY BytesIs
<1>2. w.words \in Chain /\ v.words \in Chain /\ w.sigBytes \in Nat /\ v.sigBytes \in Nat
  BY DEF Arrays
<1>3. CASE w.sigBytes % 4 # 0
  <2>1. c = OfBytes(a \o b)
    BY <1>3 DEF Concat
  <2>2. a \o b \in Seq(Byte)
    BY <1>1, ByteOfJoined
  <2> HIDE DEF a, b, c
  <2> QED
    BY <2>1, <2>2, BytesOfBytes DEF a, b, c
<1>4. CASE w.sigBytes % 4 = 0
  <2> DEFINE m == w.sigBytes \div 4
             x == Clamp(w).words
             y == Pushed(v)
  <2>1. m \in Nat /\ 4 * m = w.sigBytes
    BY <1>2, <1>4
  <2>2. Clamp(w) \in Arrays /\ Len(x) = WordsFor(4 * m)
        /\ \A k \in Nat : 4 * (k + 1) <= w.sigBytes => At(x, k) = At(w.words, k)
    BY <2>1, ClampIs
  <2>3. x \in Chain /\ Len(x) = m
    <3>1. 0 \in Nat
      OBVIOUS
    <3>2. WordsFor(4 * m) = m
      BY <2>1, <3>1, WordsForIs
    <3> QED
      BY <2>2, <3>2 DEF Arrays
  <2>4. Written(x \o y) = x \o y /\ x \o y \in Chain
    BY <2>3, PushedIs, AtJoined, WrittenIs DEF Chain
  <2>5. c = [words |-> x \o y, sigBytes |-> w.sigBytes + v.sigBytes]
    BY <1>4, <2>4 DEF Concat, WordArray
  <2> HIDE DEF m, x, y, a, b, c
  <2>6. c \in Arrays /\ c.words = x \o y /\ c.sigBytes = w.sigBytes + v.sigBytes
    BY <1>2, <2>4, <2>5 DEF Arrays
  <2>7. /\ Bytes(c) \in Seq(Byte) /\ Len(Bytes(c)) = w.sigBytes + v.sigBytes
        /\ \A i \in 1 .. w.sigBytes + v.sigBytes : Bytes(c)[i] = ByteAt(At(x \o y, (i - 1) \div 4), (i - 1) % 4)
    BY <2>6, BytesIs
  <2>8. \A k \in Nat : At(x \o y, k) = IF k < m THEN At(x, k) ELSE At(y, k - m)
    BY <2>3, PushedIs, AtJoined DEF y
  <2>9. a \o b \in Seq(Byte) /\ Len(a \o b) = w.sigBytes + v.sigBytes
    BY <1>1, ByteOfJoined
  <2>10. ASSUME NEW i \in 1 .. w.sigBytes + v.sigBytes PROVE Bytes(c)[i] = (a \o b)[i]
    <3> DEFINE k == (i - 1) \div 4
               j == (i - 1) % 4
    <3>0. k \in Nat /\ j \in 0 .. 3 /\ 4 * k + j = i - 1
      BY <1>2
    <3>1. CASE i <= w.sigBytes
      <4>1. k < m /\ 4 * (k + 1) <= w.sigBytes /\ i \in 1 .. w.sigBytes
        BY <1>2, <2>1, <3>0, <3>1
      <4> HIDE DEF k, j
      <4>2. At(x \o y, k) = At(w.words, k)
        BY <2>2, <2>8, <3>0, <4>1
      <4>3. Bytes(c)[i] = ByteAt(At(x \o y, k), j)
        BY <2>7 DEF k, j
      <4>4. a[i] = ByteAt(At(w.words, k), j)
        BY <1>1, <4>1 DEF a, k, j
      <4>5. (a \o b)[i] = a[i]
        BY <1>1, <1>2, <4>1
      <4> QED
        BY <4>2, <4>3, <4>4, <4>5
    <3>2. CASE ~(i <= w.sigBytes)
      <4> DEFINE l == i - w.sigBytes
      <4>1. l \in 1 .. v.sigBytes /\ (l - 1) \div 4 = k - m /\ (l - 1) % 4 = j /\ ~(k < m)
        <5>1. l - 1 = 4 * (k - m) + j /\ k - m \in Int
          BY <2>1, <3>0
        <5>2. l \in 1 .. v.sigBytes /\ ~(k < m)
          BY <1>2, <2>1, <3>0, <3>2
        <5> HIDE DEF k, j, l
        <5>3. k - m \in Nat
          BY <2>1, <3>0, <5>2
        <5>4. (4 * (k - m) + j) \div 4 = k - m /\ (4 * (k - m) + j) % 4 = j
          BY <3>0, <5>3, FourAndRest
        <5> QED
          BY <5>1, <5>2, <5>4
      <4> HIDE DEF k, j, l
      <4>2. At(x \o y, k) = At(y, k - m)
        BY <2>8, <3>0, <4>1
      <4>3. Bytes(c)[i] = ByteAt(At(x \o y, k), j)
        BY <2>7 DEF k, j
      <4>4. b[l] = ByteAt(At(y, k - m), j)
        <5>1. k - m \in Nat /\ 4 * (k - m) < v.sigBytes
          BY <1>2, <2>1, <3>0, <4>1 DEF l
        <5>2. At(y, k - m) = At(v.words, k - m)
          BY <1>2, <5>1, WordsForIs, PushedIs DEF y
        <5> QED
          BY <1>1, <4>1, <5>2 DEF b
      <4>5. (a \o b)[i] = b[l]
        BY <1>1, <1>2, <3>2 DEF l
      <4> QED
        BY <4>2, <4>3, <4>4, <4>5
    <3> QED
      BY <3>1, <3>2
  <2> QED
    BY <2>7, <2>9, <2>10, SameSeq DEF a, b, c
<1> QED
  BY <1>3, <1>4

\* An array whose significant bytes fill its words holds them.
LEMMA WholeHeld ==
    ASSUME NEW w \in Arrays, NEW k \in Nat, 4 * (k + 1) <= w.sigBytes
    PROVE  At(w.words, k) = At(OfBytes(Bytes(w)).words, k)
<1> DEFINE b == Bytes(w)
           x == At(w.words, k)
           y == At(OfBytes(b).words, k)
<1>1. /\ b \in Seq(Byte) /\ Len(b) = w.sigBytes /\ w.sigBytes \in Nat
      /\ \A i \in 1 .. w.sigBytes : b[i] = ByteAt(At(w.words, (i - 1) \div 4), (i - 1) % 4)
  BY BytesIs DEF Arrays
<1>2. OfBytes(b) \in Arrays /\ \A j \in 0 .. 3 : ByteAt(y, j) = ByteOf(b, 4 * k + j)
  <2> HIDE DEF b
  <2> QED
    BY <1>1, OfBytesIs DEF b
<1>3. x \in Word32 /\ y \in Word32
  <2>1. w.words \in Chain /\ OfBytes(b).words \in Chain
    BY <1>2 DEF Arrays
  <2> QED
    BY <2>1, WordAt, AtIs
<1>4. ASSUME NEW j \in 0 .. 3 PROVE ByteAt(x, j) = ByteAt(y, j)
  <2> DEFINE i == 4 * k + j + 1
  <2>0. i - 1 = 4 * k + j /\ (4 * k + j) % 4 = j /\ (4 * k + j) \div 4 = k /\ i = (4 * k + j) + 1
    BY FourAndRest
  <2>a. i \in 1 .. w.sigBytes /\ 4 * k + j < Len(b)
    BY <1>1
  <2> HIDE DEF i
  <2>1. i \in 1 .. w.sigBytes /\ (i - 1) \div 4 = k /\ (i - 1) % 4 = j /\ 4 * k + j < Len(b)
    BY <2>0, <2>a
  <2>2. b[i] = ByteAt(x, j)
    BY <1>1, <2>1
  <2>3. ByteOf(b, 4 * k + j) = b[i]
    BY <2>0, <2>1 DEF ByteOf
  <2> QED
    BY <1>2, <2>2, <2>3
<1> HIDE DEF x, y
<1>5. x = y
  BY <1>3, <1>4, WordIsItsBytes
<1> QED
  BY <1>5 DEF x, y, b

\* The words of a part of b that begins with a word are those of b from there
\* on, as far as they are whole or b ends.
LEMMA WordsOfPart ==
    ASSUME NEW b \in Seq(Byte), NEW m \in Nat, NEW t \in 4 * m .. Len(b), NEW k \in Nat,
           4 * (k + 1) <= t - 4 * m \/ t = Len(b)
    PROVE  At(OfBytes(SubSeq(b, 4 * m + 1, t)).words, k) = At(OfBytes(b).words, m + k)
<1> DEFINE a == 4 * m + 1
           s == SubSeq(b, a, t)
           x == At(OfBytes(s).words, k)
           y == At(OfBytes(b).words, m + k)
<1>1. Len(b) \in Nat /\ t \in Nat /\ t <= Len(b) /\ 4 * m <= t
  OBVIOUS
<1>2. a \in Nat /\ a >= 1 /\ t - a + 1 = t - 4 * m /\ a <= t + 1 /\ t - 4 * m \in Nat
  BY <1>1
<1>3. \A i \in Nat : a + i - 1 = 4 * m + i
  OBVIOUS
<1> HIDE DEF a
<1>4. s \in Seq(Byte) /\ Len(s) = t - 4 * m /\ \A i \in 1 .. t - 4 * m : s[i] = b[a + i - 1]
  BY <1>1, <1>2
<1> HIDE DEF s, x, y
<1>5. \A i \in 1 .. t - 4 * m : s[i] = b[4 * m + i]
  BY <1>3, <1>4
<1>6. ASSUME NEW i \in Nat, i < t - 4 * m \/ t = Len(b) PROVE ByteOf(s, i) = ByteOf(b, 4 * m + i)
  <2>1. CASE i < t - 4 * m
    <3>1. i + 1 \in 1 .. t - 4 * m /\ 4 * m + (i + 1) = (4 * m + i) + 1 /\ 4 * m + i < Len(b)
      BY <1>1, <1>2, <2>1
    <3> QED
      BY <1>4, <1>5, <2>1, <3>1 DEF ByteOf
  <2>2. CASE ~(i < t - 4 * m)
    <3>1. ~(4 * m + i < Len(b))
      BY <1>1, <1>6, <2>2
    <3> QED
      BY <1>4, <2>2, <3>1 DEF ByteOf
  <2> QED
    BY <2>1, <2>2
<1>7. OfBytes(s) \in Arrays /\ OfBytes(b) \in Arrays
      /\ (\A j \in 0 .. 3 : ByteAt(x, j) = ByteOf(s, 4 * k + j))
      /\ (\A j \in 0 .. 3 : ByteAt(y, j) = ByteOf(b, 4 * (m + k) + j))
  <2>1. m + k \in Nat
    OBVIOUS
  <2>2. OfBytes(s) \in Arrays /\ \A j \in 0 .. 3 : ByteAt(x, j) = ByteOf(s, 4 * k + j)
    BY <1>4, OfBytesIs DEF x
  <2>3. OfBytes(b) \in Arrays /\ \A j \in 0 .. 3 : ByteAt(y, j) = ByteOf(b, 4 * (m + k) + j)
    BY <2>1, OfBytesIs DEF y
  <2> QED
    BY <2>2, <2>3
<1>8. x \in Word32 /\ y \in Word32
  <2>1. OfBytes(s).words \in Chain /\ OfBytes(b).words \in Chain /\ m + k \in Nat
    BY <1>7 DEF Arrays
  <2> QED
    BY <2>1, WordAt DEF x, y
<1>9. ASSUME NEW j \in 0 .. 3 PROVE ByteAt(x, j) = ByteAt(y, j)
  <2>1. 4 * k + j \in Nat /\ (4 * k + j < t - 4 * m \/ t = Len(b)) /\ 4 * (m + k) + j = 4 * m + (4 * k + j)
    BY <1>1
  <2> QED
    BY <1>6, <1>7, <2>1
<1>10. x = y
  BY <1>8, <1>9, WordIsItsBytes
<1> QED
  BY <1>10 DEF x, y, s, a

LEMMA PassedRun ==
    ASSUME NEW S, NEW n \in Nat, NEW g, NEW f, Runs(f, S, n, g)
    PROVE  Passed(S, n, g, f[0]) = f[n]
<1> DEFINE pass == CHOOSE p : Passes(p, S, n, g)
<1>1. Passed(S, n, g, f[0]) = pass[0][f[0]]
  BY DEF Passed, Passes
<1>2. Passes(pass, S, n, g)
  BY LoopExists
<1> HIDE DEF pass
<1> QED
  BY <1>1, <1>2, LoopIs

\* Each pass may take the values of a set of its own to the next one's.
LEMMA PassedAlong ==
    ASSUME NEW S, NEW n \in Nat, NEW g, NEW U, \A i \in 0 .. n : U[i] \subseteq S,
           \A i \in 0 .. n - 1 : \A x \in U[i] : g[i][x] \in U[i + 1], NEW first \in U[0]
    PROVE  /\ Passed(S, n, g, first) \in U[n]
           /\ \E f : /\ f[0] = first /\ Passed(S, n, g, first) = f[n]
                     /\ \A i \in 0 .. n : f[i] \in U[i]
                     /\ \A i \in 0 .. n - 1 : f[i + 1] = g[i][f[i]]
<1> DEFINE h == [i \in 0 .. n - 1 |-> [x \in S |-> IF x \in U[i] THEN g[i][x] ELSE x]]
<1>1. \A i \in 0 .. n - 1, x \in S : h[i][x] \in S
  <2> SUFFICES ASSUME NEW i \in 0 .. n - 1, NEW x \in S PROVE h[i][x] \in S
    OBVIOUS
  <2>1. h[i][x] = IF x \in U[i] THEN g[i][x] ELSE x
    OBVIOUS
  <2>2. i + 1 \in 0 .. n
    OBVIOUS
  <2> QED
    BY <2>1, <2>2
<1>2. first \in S
  BY 0 \in 0 .. n
<1> HIDE DEF h
<1>3. PICK f : f[0] = first /\ Runs(f, S, n, h)
  BY <1>1, <1>2, RunExists
<1> DEFINE Good == {i \in 0 .. n : f[i] \in U[i]}
<1>4. 0 \in Good
  BY <1>3
<1>5. ASSUME NEW i \in 0 .. n - 1, i \in Good PROVE i + 1 \in Good /\ f[i + 1] = g[i][f[i]]
  <2>1. f[i] \in U[i] /\ f[i] \in S /\ f[i + 1] = h[i][f[i]]
    BY <1>3, <1>5 DEF Runs
  <2>2. h[i][f[i]] = g[i][f[i]]
    BY <2>1 DEF h
  <2>3. i + 1 \in 0 .. n
    OBVIOUS
  <2> QED
    BY <2>1, <2>2, <2>3
<1>6. 0 .. n \subseteq Good
  <2> HIDE DEF Good
  <2> QED
    BY <1>4, <1>5, RangeInduction
<1>7. \A i \in 0 .. n : f[i] \in U[i] /\ f[i] \in S
  BY <1>6
<1>8. \A i \in 0 .. n - 1 : f[i + 1] = g[i][f[i]]
  BY <1>5, <1>6
<1>9. Runs(f, S, n, g)
  BY <1>7, <1>8 DEF Runs
<1>10. Passed(S, n, g, first) = f[n]
  BY <1>3, <1>9, PassedRun
<1> QED
  BY <1>3, <1>7, <1>8, <1>10

-----------------------------------------------------------------------------
(* Parts of sequences *)

LEMMA PartIs ==
    ASSUME NEW S, NEW s \in Seq(S), NEW p \in Nat, NEW q \in Nat, p <= q, q <= Len(s)
    PROVE  /\ SubSeq(s, p + 1, q) \in Seq(S)
           /\ Len(SubSeq(s, p + 1, q)) = q - p
           /\ \A i \in 1 .. q - p : SubSeq(s, p + 1, q)[i] = s[p + i]
<1> DEFINE a == p + 1
<1>1. a \in Nat /\ a >= 1 /\ a <= q + 1 /\ q - a + 1 = q - p /\ \A i \in Nat : a + i - 1 = p + i
  OBVIOUS
<1> HIDE DEF a
<1>2. SubSeq(s, a, q) \in Seq(S) /\ Len(SubSeq(s, a, q)) = q - a + 1
      /\ \A i \in 1 .. q - a + 1 : SubSeq(s, a, q)[i] = s[a + i - 1]
  BY <1>1
<1> QED
  BY <1>1, <1>2 DEF a

LEMMA PartsJoin ==
    ASSUME NEW S, NEW s \in Seq(S), NEW p \in Nat, NEW q \in Nat, NEW r \in Nat, p <= q, q <= r, r <= Len(s)
    PROVE  SubSeq(s, p + 1, q) \o SubSeq(s, q + 1, r) = SubSeq(s, p + 1, r)
<1> DEFINE x == SubSeq(s, p + 1, q)
           y == SubSeq(s, q + 1, r)
           z == SubSeq(s, p + 1, r)
<1>1. /\ x \in Seq(S) /\ Len(x) = q - p /\ y \in Seq(S) /\ Len(y) = r - q /\ z \in Seq(S) /\ Len(z) = r - p
      /\ \A i \in 1 .. q - p : x[i] = s[p + i]
      /\ \A i \in 1 .. r - q : y[i] = s[q + i]
      /\ \A i \in 1 .. r - p : z[i] = s[p + i]
  <2>1. q <= Len(s) /\ p <= r
    OBVIOUS
  <2> QED
    BY <2>1, PartIs
<1> HIDE DEF x, y, z
<1>2. x \o y \in Seq(S) /\ Len(x \o y) = r - p
  BY <1>1
<1>3. ASSUME NEW i \in 1 .. r - p PROVE (x \o y)[i] = z[i]
  <2>1. CASE i <= q - p
    <3>1. (x \o y)[i] = x[i] /\ i \in 1 .. q - p
      BY <1>1, <2>1
    <3> QED
      BY <1>1, <3>1
  <2>2. CASE ~(i <= q - p)
    <3>1. i - (q - p) \in 1 .. r - q /\ q + (i - (q - p)) = p + i
      BY <2>2
    <3>2. (x \o y)[i] = y[i - (q - p)]
      <4>1. \A j \in 1 .. Len(x) + Len(y) : (x \o y)[j] = IF j <= Len(x) THEN x[j] ELSE y[j - Len(x)]
        BY <1>1, ConcatProperties
      <4>2. i \in 1 .. Len(x) + Len(y) /\ ~(i <= Len(x)) /\ Len(x) = q - p
        BY <1>1, <2>2
      <4> QED
        BY <4>1, <4>2, Zenon
    <3> QED
      BY <1>1, <3>1, <3>2
  <2> QED
    BY <2>1, <2>2
<1>4. x \o y = z
  BY <1>1, <1>2, <1>3, SameSeq
<1> QED
  BY <1>4 DEF x, y, z

LEMMA WholePart ==
    ASSUME NEW S, NEW s \in Seq(S)
    PROVE  SubSeq(s, 1, Len(s)) = s /\ SubSeq(s, 1, 0) = <<>> /\ <<>> \in Seq(S)
<1>1. SubSeq(s, 1, Len(s)) \in Seq(S) /\ Len(SubSeq(s, 1, Len(s))) = Len(s)
      /\ \A i \in 1 .. Len(s) : SubSeq(s, 1, Len(s))[i] = s[i]
  OBVIOUS
<1>2. SubSeq(s, 1, Len(s)) = s
  BY <1>1, SameSeq
<1>3. SubSeq(s, 1, 0) = <<>>
  OBVIOUS
<1> QED
  BY <1>2, <1>3

\* What is left of the words of a part of b when those before the word q are
\* taken away.
LEMMA WordsLeft ==
    ASSUME NEW b \in Seq(Byte), NEW p \in Nat, NEW q \in Nat, NEW t \in Nat, p <= q, 4 * q <= t, t <= Len(b)
    PROVE  LET w == OfBytes(SubSeq(b, 4 * p + 1, t))
           IN  WordArray(SubSeq(w.words, (q - p) + 1, Len(w.words)), w.sigBytes - 4 * (q - p))
                 = OfBytes(SubSeq(b, 4 * q + 1, t))
<1> DEFINE x == SubSeq(b, 4 * p + 1, 4 * q)
           y == SubSeq(b, 4 * q + 1, t)
           z == SubSeq(b, 4 * p + 1, t)
           m == q - p
<1>1. 4 * p \in Nat /\ 4 * q \in Nat /\ 4 * p <= 4 * q /\ 4 * q <= Len(b) /\ 4 * p <= t /\ m \in Nat
      /\ 4 * q - 4 * p = 4 * m
  OBVIOUS
<1>2. x \o y = z
  BY <1>1, PartsJoin
<1>3. x \in Seq(Byte) /\ Len(x) = 4 * m /\ y \in Seq(Byte) /\ Len(y) = t - 4 * q /\ z \in Seq(Byte) /\ Len(z) = t - 4 * p
  <2>1. x \in Seq(Byte) /\ Len(x) = 4 * q - 4 * p
    BY <1>1, PartIs
  <2>2. y \in Seq(Byte) /\ Len(y) = t - 4 * q
    BY <1>1, PartIs
  <2>3. z \in Seq(Byte) /\ Len(z) = t - 4 * p
    BY <1>1, PartIs
  <2> QED
    BY <1>1, <2>1, <2>2, <2>3, Zenon
<1> HIDE DEF x, y, z
<1> DEFINE w == OfBytes(z)
<1>4. /\ OfBytes(x).words \in Chain /\ OfBytes(y).words \in Chain /\ Len(OfBytes(x).words) = m
      /\ w.words = OfBytes(x).words \o OfBytes(y).words
  <2>1. w = OfBytes(x \o y) /\ m \in Nat
    BY <1>1, <1>2, Zenon
  <2> HIDE DEF w, m
  <2> QED
    BY <1>3, <2>1, WordsJoined, Zenon
<1>5. SubSeq(w.words, m + 1, Len(w.words)) = OfBytes(y).words
  <2>1. OfBytes(x).words \in Seq(Word32) /\ OfBytes(y).words \in Seq(Word32)
    BY <1>4 DEF Chain
  <2> HIDE DEF w
  <2> QED
    BY <1>4, <2>1, TailOfJoin
<1>6. w.sigBytes - 4 * m = Len(y)
  <2>1. w.sigBytes = t - 4 * p
    BY <1>3, OfBytesIs
  <2> QED
    BY <1>1, <1>3, <2>1
<1>7. OfBytes(y) = [words |-> OfBytes(y).words, sigBytes |-> Len(y)]
  <2>1. OfBytes(y) \in Arrays /\ OfBytes(y).sigBytes = Len(y)
    BY <1>3, OfBytesIs
  <2> QED
    BY <2>1 DEF Arrays
<1>8. Written(OfBytes(y).words) = OfBytes(y).words
  BY <1>4, WrittenIs DEF Chain
<1> HIDE DEF w, m
<1>9. WordArray(SubSeq(w.words, m + 1, Len(w.words)), w.sigBytes - 4 * m) = OfBytes(y)
  BY <1>5, <1>6, <1>7, <1>8 DEF WordArray
<1> QED
  BY <1>9 DEF w, m, y, z

\* The bytes of a part of an array of words.
LEMMA BytesOfPart ==
    ASSUME NEW D \in Chain, NEW N \in Nat, NEW p \in Nat, NEW q \in Nat, p <= q, q <= Len(D),
           NEW s \in Nat, s <= 4 * (q - p), 4 * p + s <= N
    PROVE  /\ WordArray(SubSeq(D, p + 1, q), s) \in Arrays
           /\ WordArray(SubSeq(D, p + 1, q), s).words = SubSeq(D, p + 1, q)
           /\ WordArray(SubSeq(D, p + 1, q), s).sigBytes = s
           /\ Bytes(WordArray(SubSeq(D, p + 1, q), s)) = SubSeq(Bytes(WordArray(D, N)), 4 * p + 1, 4 * p + s)
<1> DEFINE e == SubSeq(D, p + 1, q)
           v == WordArray(e, s)
           w == WordArray(D, N)
           b == Bytes(w)
<1>1. D \in Seq(Word32)
  BY DEF Chain
<1>2. e \in Seq(Word32) /\ Len(e) = q - p /\ \A i \in 1 .. q - p : e[i] = D[p + i]
  BY <1>1, PartIs
<1> HIDE DEF e
<1>3. v = [words |-> e, sigBytes |-> s] /\ v \in Arrays /\ w = [words |-> D, sigBytes |-> N] /\ w \in Arrays
  BY <1>2, ArrayIs DEF Chain
<1> HIDE DEF v, w
<1>4. /\ Bytes(v) \in Seq(Byte) /\ Len(Bytes(v)) = s
      /\ \A i \in 1 .. s : Bytes(v)[i] = ByteAt(At(e, (i - 1) \div 4), (i - 1) % 4)
  BY <1>3, BytesIs
<1>5. /\ b \in Seq(Byte) /\ Len(b) = N
      /\ \A i \in 1 .. N : b[i] = ByteAt(At(D, (i - 1) \div 4), (i - 1) % 4)
  BY <1>3, BytesIs
<1> HIDE DEF b
<1> DEFINE c == SubSeq(b, 4 * p + 1, 4 * p + s)
<1>6. c \in Seq(Byte) /\ Len(c) = s /\ \A i \in 1 .. s : c[i] = b[4 * p + i]
  <2>1. 4 * p \in Nat /\ 4 * p + s \in Nat /\ 4 * p <= 4 * p + s /\ 4 * p + s <= Len(b) /\ (4 * p + s) - 4 * p = s
    BY <1>5
  <2> HIDE DEF c
  <2> DEFINE u == 4 * p
             t == 4 * p + s
  <2>2. u \in Nat /\ t \in Nat /\ u <= t /\ t <= Len(b) /\ t - u = s
    BY <2>1
  <2> HIDE DEF u, t
  <2>3. SubSeq(b, u + 1, t) \in Seq(Byte) /\ Len(SubSeq(b, u + 1, t)) = t - u
        /\ \A i \in 1 .. t - u : SubSeq(b, u + 1, t)[i] = b[u + i]
    BY <1>5, <2>2, PartIs
  <2> QED
    BY <2>2, <2>3 DEF u, t, c
<1>7. ASSUME NEW i \in 1 .. s PROVE Bytes(v)[i] = c[i]
  <2> DEFINE k == (i - 1) \div 4
             j == (i - 1) % 4
  <2>1. k \in Nat /\ j \in 0 .. 3 /\ 4 * k + j = i - 1
    OBVIOUS
  <2> HIDE DEF k, j
  <2>2. k < q - p /\ p + k \in Nat /\ 4 * p + i \in 1 .. N /\ (4 * p + i) - 1 = 4 * (p + k) + j
    BY <2>1
  <2>3. ((4 * p + i) - 1) \div 4 = p + k /\ ((4 * p + i) - 1) % 4 = j
    BY <2>1, <2>2, FourAndRest
  <2>4. At(e, k) = D[p + (k + 1)] /\ At(D, p + k) = D[(p + k) + 1]
    <3>1. k \in 0 .. Len(e) - 1 /\ p + k \in 0 .. Len(D) - 1 /\ k + 1 \in 1 .. q - p
      BY <1>2, <2>1, <2>2
    <3> QED
      BY <1>2, <3>1 DEF At
  <2>5. p + (k + 1) = (p + k) + 1
    BY <2>1
  <2>6. Bytes(v)[i] = ByteAt(At(e, k), j)
    BY <1>4 DEF k, j
  <2>7. b[4 * p + i] = ByteAt(At(D, p + k), j)
    BY <1>5, <2>2, <2>3
  <2> QED
    BY <1>6, <2>4, <2>5, <2>6, <2>7
<1> HIDE DEF c
<1>8. Bytes(v) = c
  BY <1>4, <1>6, <1>7, SameSeq
<1>9. v.words = e /\ v.sigBytes = s
  BY <1>3
<1> QED
  BY <1>3, <1>8, <1>9 DEF c, b, w, v, e

-----------------------------------------------------------------------------
(* The words and the blocks of a cipher *)

\* The words a cipher works on at a time, and where a block begins.
LEMMA CipherSizes ==
    /\ \A cipher \in CipherNames : CipherBlockSize(cipher) \in {1, 2, 4}
    /\ \A cipher \in BlockCipherNames : CipherBlockSize(cipher) = BlockWords(cipher) /\ BlockWords(cipher) \in {2, 4}
    /\ BlockCipherNames \subseteq CipherNames
BY DEF CipherNames, BlockCipherNames, StreamCipherNames, CipherBlockSize, BlockWords

LEMMA CipherPlaces ==
    ASSUME NEW size \in {1, 2, 4}, NEW i \in Nat, NEW m \in Nat
    PROVE  /\ i * size \in Nat
           /\ (i + 1) * size = i * size + size
           /\ (m + i) * size = m * size + i * size
           /\ i * (4 * size) = 4 * (i * size)
           /\ i < m => i * size + size <= m * size
           /\ i <= m => i * size <= m * size
           /\ \A k \in 1 .. size : ((i * size + k) - 1) \div size = i /\ ((i * size + k) - 1) % size = k - 1
           /\ i \div size \in Nat /\ i % size \in 0 .. size - 1 /\ i = (i \div size) * size + (i % size)
           /\ i < m * size => i \div size < m
<1>1. CASE size = 1
  BY <1>1
<1>2. CASE size = 2
  BY <1>2
<1>3. CASE size = 4
  BY <1>3
<1> QED
  BY <1>1, <1>2, <1>3

\* The mode object of a block cipher has a whole block for the next one.
ProperRuns(cipher, mode) ==
    IF cipher \in BlockCipherNames
      THEN {m \in [iv : Chain, kept : Chain] : mode # "ECB" => Chained(m) \in [1 .. BlockWords(cipher) -> Word32]}
      ELSE RunStates(cipher)

LEMMA ProperRunsAreRuns ==
    ASSUME NEW cipher \in CipherNames, NEW mode
    PROVE  ProperRuns(cipher, mode) \subseteq RunStates(cipher)
<1>1. CASE cipher \in BlockCipherNames
  BY <1>1 DEF ProperRuns, RunStates, BlockCipherNames
<1>2. CASE cipher \notin BlockCipherNames
  BY <1>2 DEF ProperRuns
<1> QED
  BY <1>1, <1>2

\* The objects that differ from c in what they did only.
Alike(c) ==
    [cipher : {c.cipher}, forward : {c.forward}, cfg : {c.cfg}, data : Arrays, nDataBytes : Nat,
     beneath : {c.beneath}, run : ProperRuns(c.cipher, c.cfg.mode)]

BlocksAreProper(c) ==
    \A run \in ProperRuns(c.cipher, c.cfg.mode), M \in [1 .. CipherBlockSize(c.cipher) -> Word32] :
       CipherBlock(c, run, M) \in [run : ProperRuns(c.cipher, c.cfg.mode), words : [1 .. CipherBlockSize(c.cipher) -> Word32]]

\* What c makes of n blocks of the words W: the run before block i is f[i],
\* and the words that come out are D.
Turns(c, W, n, f, D) ==
    LET size == CipherBlockSize(c.cipher)
    IN  /\ \A i \in 0 .. n : f[i] \in ProperRuns(c.cipher, c.cfg.mode)
        /\ D \in [1 .. n * size -> Word32]
        /\ \A i \in 0 .. n - 1 :
              CipherBlock(c, f[i], Block(W, i * size, size)) = [run |-> f[i + 1], words |-> Block(D, i * size, size)]

LEMMA TurnsExist ==
    ASSUME NEW c, c.cipher \in CipherNames, BlocksAreProper(c), NEW W \in Chain, NEW n \in Nat,
           NEW first \in ProperRuns(c.cipher, c.cfg.mode)
    PROVE  \E f, D : f[0] = first /\ Turns(c, W, n, f, D)
<1> DEFINE size == CipherBlockSize(c.cipher)
           R == ProperRuns(c.cipher, c.cfg.mode)
           B(i) == Block(W, i * size, size)
           g == [i \in 0 .. n - 1 |-> [run \in R |-> CipherBlock(c, run, B(i)).run]]
<1>1. size \in {1, 2, 4}
  BY CipherSizes
<1> HIDE DEF size
<1>2. \A i \in Nat : i * size \in Nat /\ B(i) \in [1 .. size -> Word32]
  <2> TAKE i \in Nat
  <2>1. i * size \in Nat /\ size \in Nat
    BY <1>1, CipherPlaces
  <2> QED
    BY <2>1, BlockIs
<1> HIDE DEF B
<1>3. ASSUME NEW i \in Nat, NEW run \in R
      PROVE  CipherBlock(c, run, B(i)) \in [run : R, words : [1 .. size -> Word32]]
  BY <1>2, <1>3 DEF BlocksAreProper, size
<1>4. \A i \in 0 .. n - 1, run \in R : g[i][run] = CipherBlock(c, run, B(i)).run /\ g[i][run] \in R
  <2> TAKE i \in 0 .. n - 1, run \in R
  <2>1. g[i][run] = CipherBlock(c, run, B(i)).run /\ i \in Nat
    OBVIOUS
  <2>2. CipherBlock(c, run, B(i)).run \in R
    BY <1>3, <2>1
  <2> QED
    BY <2>1, <2>2
<1>a. first \in R
  OBVIOUS
<1> HIDE DEF g, R
<1>5. PICK f : f[0] = first /\ Runs(f, R, n, g)
  BY <1>4, <1>a, RunExists
<1> DEFINE out(i) == CipherBlock(c, f[i], B(i)).words
           D == [k \in 1 .. n * size |-> out((k - 1) \div size)[((k - 1) % size) + 1]]
<1>6. ASSUME NEW i \in 0 .. n - 1
      PROVE  /\ f[i] \in R /\ f[i + 1] = CipherBlock(c, f[i], B(i)).run
             /\ CipherBlock(c, f[i], B(i)) = [run |-> f[i + 1], words |-> out(i)]
             /\ out(i) \in [1 .. size -> Word32]
  <2>1. f[i] \in R /\ f[i + 1] = g[i][f[i]] /\ i \in Nat
    BY <1>5 DEF Runs
  <2>2. CipherBlock(c, f[i], B(i)) \in [run : R, words : [1 .. size -> Word32]]
    BY <1>3, <2>1
  <2>3. f[i + 1] = CipherBlock(c, f[i], B(i)).run
    BY <1>4, <2>1
  <2> QED
    BY <2>1, <2>2, <2>3
<1> HIDE DEF out
<1>7. D \in [1 .. n * size -> Word32]
  <2> SUFFICES ASSUME NEW k \in 1 .. n * size PROVE out((k - 1) \div size)[((k - 1) % size) + 1] \in Word32
    OBVIOUS
  <2>0. n * size \in Nat
    BY <1>2
  <2>1. k - 1 \in Nat /\ k - 1 < n * size
    BY <2>0
  <2>2. (k - 1) \div size \in Nat /\ (k - 1) \div size < n /\ (k - 1) % size \in 0 .. size - 1
    BY <1>1, <2>1, CipherPlaces
  <2>3. (k - 1) \div size \in 0 .. n - 1 /\ ((k - 1) % size) + 1 \in 1 .. size
    BY <1>1, <2>2
  <2> QED
    BY <1>6, <2>3
<1>8. ASSUME NEW i \in 0 .. n - 1 PROVE Block(D, i * size, size) = out(i)
  <2> HIDE DEF D
  <2>1. i * size \in Nat /\ size \in Nat /\ n * size \in Nat /\ i * size + size <= n * size
    BY <1>1, <1>2, CipherPlaces
  <2>2. D \in Chain /\ Len(D) = n * size
    BY <1>7, <2>1, Listed DEF Chain
  <2>3. Block(D, i * size, size) = [k \in 1 .. size |-> At(D, i * size + k - 1)]
    BY <2>1, <2>2, BlockIs
  <2>4. ASSUME NEW k \in 1 .. size PROVE At(D, i * size + k - 1) = out(i)[k]
    <3> DEFINE l == i * size + k
    <3>1. l \in 1 .. n * size /\ l - 1 \in 0 .. Len(D) - 1 /\ (l - 1) + 1 = l
      BY <2>1, <2>2
    <3>2. (l - 1) \div size = i /\ (l - 1) % size = k - 1
      BY <1>1, CipherPlaces
    <3> HIDE DEF l
    <3>3. At(D, l - 1) = D[l]
      BY <3>1 DEF At
    <3>4. D[l] = out(i)[(k - 1) + 1]
      BY <3>1, <3>2 DEF D
    <3>5. (k - 1) + 1 = k /\ i * size + k - 1 = (i * size + k) - 1
      BY <2>1
    <3>6. At(D, l - 1) = out(i)[k]
      BY <3>3, <3>4, <3>5
    <3> QED
      BY <3>5, <3>6 DEF l
  <2>5. out(i) = [k \in 1 .. size |-> out(i)[k]]
    BY <1>6
  <2> QED
    BY <2>3, <2>4, <2>5
<1> HIDE DEF D
<1>9. \A i \in 0 .. n : f[i] \in R
  BY <1>5 DEF Runs
<1>10. Turns(c, W, n, f, D)
  <2>1. \A i \in 0 .. n - 1 : CipherBlock(c, f[i], B(i)) = [run |-> f[i + 1], words |-> Block(D, i * size, size)]
    BY <1>6, <1>8
  <2> QED
    BY <1>7, <1>9, <2>1 DEF Turns, size, R, B
<1> QED
  BY <1>5, <1>10

\* The k-th of l words from p on.
LEMMA PlaceIn ==
    ASSUME NEW p \in Nat, NEW l \in Nat, NEW L \in Nat, p + l <= L, NEW k \in 1 .. l
    PROVE  p + k - 1 \in 0 .. L - 1 /\ (p + k - 1) + 1 = p + k
OBVIOUS

\* The blocks from a on of one that came that far.
LEMMA ProcessTurns ==
    ASSUME NEW c, c.cipher \in CipherNames, NEW size, size = CipherBlockSize(c.cipher),
           NEW W, NEW n \in Nat, NEW f, NEW D, Turns(c, W, n, f, D),
           NEW a \in Nat, NEW m \in Nat, a + m <= n,
           NEW o \in Alike(c), o.run = f[a],
           \A k \in Nat : k < m * size => At(o.data.words, k) = At(W, a * size + k)
    PROVE  ProcessBlocks(o, size, m)
             = ProcessedBlocks(o, size, m, [run |-> f[a + m], words |-> SubSeq(D, a * size + 1, (a + m) * size)])
<1> DEFINE S == [run : RunStates(o.cipher), words : Chain]
           B(i) == Block(o.data.words, i * size, size)
           g == [i \in 0 .. m - 1 |-> [p \in S |-> OneMore(p.words, CipherBlock(o, p.run, B(i)))]]
           h == [i \in 0 .. m |-> [run |-> f[a + i], words |-> SubSeq(D, a * size + 1, (a + i) * size)]]
<1>1. size \in {1, 2, 4} /\ size \in Nat
  BY CipherSizes
<1>2. o.cipher = c.cipher /\ o.forward = c.forward /\ o.cfg = c.cfg /\ o.beneath = c.beneath /\ o.data \in Arrays
  BY DEF Alike
<1>3. \A run, M : CipherBlock(o, run, M) = CipherBlock(c, run, M)
  BY <1>2 DEF CipherBlock
<1>4. /\ \A i \in 0 .. n : f[i] \in RunStates(o.cipher)
      /\ D \in [1 .. n * size -> Word32]
      /\ \A i \in 0 .. n - 1 :
            CipherBlock(c, f[i], Block(W, i * size, size)) = [run |-> f[i + 1], words |-> Block(D, i * size, size)]
  BY <1>2, ProperRunsAreRuns DEF Turns
<1>5. n * size \in Nat /\ a * size \in Nat /\ m * size \in Nat
  BY <1>1, CipherPlaces
<1>6. D \in Chain /\ D \in Seq(Word32) /\ Len(D) = n * size
  BY <1>4, <1>5, Listed DEF Chain
<1>7. ASSUME NEW i \in 0 .. m
      PROVE  /\ a + i \in 0 .. n /\ (a + i) * size \in Nat /\ a * size <= (a + i) * size /\ (a + i) * size <= n * size
             /\ SubSeq(D, a * size + 1, (a + i) * size) \in Chain
  <2> DEFINE j == a + i
  <2>1. j \in Nat /\ a <= j /\ j <= n
    OBVIOUS
  <2> HIDE DEF j
  <2>2. j * size \in Nat /\ a * size <= j * size /\ j * size <= n * size
    <3>1. j * size \in Nat /\ a * size <= j * size
      BY <1>1, <2>1, CipherPlaces
    <3>2. j * size <= n * size
      BY <1>1, <2>1, CipherPlaces
    <3> QED
      BY <3>1, <3>2
  <2> USE DEF j
  <2>3. SubSeq(D, a * size + 1, (a + i) * size) \in Seq(Word32)
    BY <1>5, <1>6, <2>2, PartIs
  <2> QED
    BY <2>1, <2>2, <2>3 DEF Chain
<1>8. \A i \in 0 .. m : h[i] = [run |-> f[a + i], words |-> SubSeq(D, a * size + 1, (a + i) * size)] /\ h[i] \in S
  <2> TAKE i \in 0 .. m
  <2>1. h[i] = [run |-> f[a + i], words |-> SubSeq(D, a * size + 1, (a + i) * size)]
    OBVIOUS
  <2>2. f[a + i] \in RunStates(o.cipher) /\ SubSeq(D, a * size + 1, (a + i) * size) \in Chain
    BY <1>4, <1>7
  <2> HIDE DEF h
  <2> QED
    BY <2>1, <2>2
<1>9. ASSUME NEW i \in 0 .. m - 1 PROVE B(i) = Block(W, (a + i) * size, size)
  <2>0. i \in Nat /\ i < m
    OBVIOUS
  <2>a. i * size \in Nat /\ (a + i) * size = a * size + i * size /\ i * size + size <= m * size
    BY <1>1, <2>0, CipherPlaces
  <2>1. i \in Nat /\ i * size \in Nat /\ (a + i) * size = a * size + i * size /\ i * size + size <= m * size
        /\ (a + i) * size \in Nat
    BY <1>5, <2>0, <2>a
  <2>2. ASSUME NEW k \in 1 .. size
        PROVE  At(o.data.words, i * size + k - 1) = At(W, (a + i) * size + k - 1)
    <3>1. i * size + k - 1 \in Nat /\ i * size + k - 1 < m * size
          /\ a * size + (i * size + k - 1) = (a + i) * size + k - 1
      BY <1>1, <1>5, <2>1
    <3> QED
      BY <3>1
  <2> QED
    BY <2>2 DEF Block
<1>10. ASSUME NEW i \in 0 .. m - 1 PROVE h[i + 1] = g[i][h[i]]
  <2> DEFINE x == SubSeq(D, a * size + 1, (a + i) * size)
             y == Block(D, (a + i) * size, size)
             z == SubSeq(D, a * size + 1, (a + (i + 1)) * size)
  <2>0. i \in 0 .. m /\ i + 1 \in 0 .. m /\ a + i \in 0 .. n - 1 /\ (a + i) + 1 = a + (i + 1)
    OBVIOUS
  <2>1. CipherBlock(o, f[a + i], B(i)) = [run |-> f[a + (i + 1)], words |-> y]
    <3> DEFINE j == a + i
    <3>a. j \in 0 .. n - 1
      BY <2>0
    <3> HIDE DEF j
    <3>b. CipherBlock(c, f[j], Block(W, j * size, size)) = [run |-> f[j + 1], words |-> Block(D, j * size, size)]
      BY <1>4, <3>a
    <3>1. CipherBlock(c, f[a + i], Block(W, (a + i) * size, size)) = [run |-> f[(a + i) + 1], words |-> y]
      BY <3>b DEF j
    <3> HIDE DEF y, B
    <3> QED
      BY <1>3, <1>9, <2>0, <3>1
  <2>2. y = SubSeq(D, (a + i) * size + 1, (a + (i + 1)) * size)
    <3> DEFINE p == (a + i) * size
               q == (a + (i + 1)) * size
    <3>1. p \in Nat /\ q \in Nat /\ q = p + size /\ q <= n * size
      <4>1. ((a + i) + 1) * size = (a + i) * size + size
        BY <1>1, <2>0, CipherPlaces
      <4> QED
        BY <1>7, <2>0, <4>1
    <3> HIDE DEF p, q
    <3>2. y = [k \in 1 .. size |-> At(D, p + k - 1)] /\ y \in [1 .. size -> Word32]
      BY <1>1, <1>6, <3>1, BlockIs DEF p
    <3>3. SubSeq(D, p + 1, q) \in Seq(Word32) /\ Len(SubSeq(D, p + 1, q)) = size
          /\ \A k \in 1 .. size : SubSeq(D, p + 1, q)[k] = D[p + k]
      <4> HIDE DEF y, x, z, S, B, g, h
      <4>1. p <= q /\ q <= Len(D) /\ q - p = size
        BY <1>1, <1>6, <3>1
      <4>2. /\ SubSeq(D, p + 1, q) \in Seq(Word32) /\ Len(SubSeq(D, p + 1, q)) = q - p
            /\ \A k \in 1 .. q - p : SubSeq(D, p + 1, q)[k] = D[p + k]
        <5>1. D \in Seq(Word32)
          BY <1>6
        <5> QED
          BY <3>1, <4>1, <5>1, PartIs
      <4> QED
        BY <4>1, <4>2, Zenon
    <3>4. ASSUME NEW k \in 1 .. size PROVE y[k] = SubSeq(D, p + 1, q)[k]
      <4>1. p + k - 1 \in 0 .. Len(D) - 1 /\ (p + k - 1) + 1 = p + k
        <5>1. p + size <= Len(D) /\ Len(D) \in Nat /\ size \in Nat /\ p \in Nat
          BY <1>1, <1>6, <3>1
        <5> QED
          BY <5>1, PlaceIn, Zenon
      <4>2. At(D, p + k - 1) = D[p + k]
        BY <4>1 DEF At
      <4> QED
        BY <3>2, <3>3, <4>2
    <3> HIDE DEF y
    <3>5. y \in Seq(Word32) /\ Len(y) = size
      BY <1>1, <3>2, Listed
    <3>6. y = SubSeq(D, p + 1, q)
      BY <3>3, <3>4, <3>5, SameSeq
    <3> QED
      BY <3>6 DEF p, q
  <2>3. x \o y = z
    <3> HIDE DEF x, y, z
    <3>1. SubSeq(D, a * size + 1, (a + i) * size) \o SubSeq(D, (a + i) * size + 1, (a + (i + 1)) * size)
            = SubSeq(D, a * size + 1, (a + (i + 1)) * size)
      <4> DEFINE p == a * size
                 q == (a + i) * size
                 r == (a + (i + 1)) * size
      <4>1. p \in Nat /\ q \in Nat /\ r \in Nat /\ p <= q /\ q <= r /\ r <= Len(D)
        <5>1. q <= r
          <6>1. ((a + i) + 1) * size = (a + i) * size + size
            BY <1>1, <2>0, CipherPlaces
          <6> QED
            BY <1>1, <1>7, <2>0, <6>1
        <5> QED
          BY <1>5, <1>6, <1>7, <2>0, <5>1
      <4> HIDE DEF p, q, r
      <4>2. SubSeq(D, p + 1, q) \o SubSeq(D, q + 1, r) = SubSeq(D, p + 1, r)
        BY <1>6, <4>1, PartsJoin
      <4> QED
        BY <4>2 DEF p, q, r
    <3> QED
      BY <2>2, <3>1 DEF x, z
  <2> HIDE DEF x, y, z
  <2>4. h[i] = [run |-> f[a + i], words |-> x] /\ h[i + 1] = [run |-> f[a + (i + 1)], words |-> z] /\ h[i] \in S
    <3> HIDE DEF h
    <3> QED
      BY <1>8, <2>0 DEF x, z
  <2>5. h[i].run = f[a + i] /\ h[i].words = x
    <3> HIDE DEF h
    <3> QED
      BY <2>4
  <2>6. g[i][h[i]] = OneMore(h[i].words, CipherBlock(o, h[i].run, B(i)))
    <3> HIDE DEF h, B
    <3> QED
      BY <2>4
  <2>7. g[i][h[i]] = [run |-> f[a + (i + 1)], words |-> x \o y]
    <3> HIDE DEF g, h, B
    <3>1. g[i][h[i]] = OneMore(x, CipherBlock(o, f[a + i], B(i)))
      BY <2>5, <2>6
    <3> QED
      BY <2>1, <3>1 DEF OneMore
  <2> HIDE DEF g, h
  <2> QED
    BY <2>3, <2>4, <2>7
<1>11. Runs(h, S, m, g)
  <2> HIDE DEF h, g, S
  <2> QED
    BY <1>8, <1>10 DEF Runs
<1>12. h[0] = [run |-> o.run, words |-> <<>>] /\ h[m] = [run |-> f[a + m], words |-> SubSeq(D, a * size + 1, (a + m) * size)]
  <2>1. a + 0 = a /\ 0 \in 0 .. m /\ m \in 0 .. m
    OBVIOUS
  <2>2. SubSeq(D, a * size + 1, a * size) = <<>>
    <3>1. Len(SubSeq(D, a * size + 1, a * size)) = a * size - a * size /\ SubSeq(D, a * size + 1, a * size) \in Seq(Word32)
      <4>1. a * size <= Len(D)
        BY <1>6, <1>7, <2>1
      <4> QED
        BY <1>5, <1>6, <4>1, PartIs
    <3> QED
      BY <1>5, <3>1
  <2> HIDE DEF h
  <2> QED
    BY <1>8, <2>1, <2>2
<1>13. Passed(S, m, g, h[0]) = h[m]
  <2> HIDE DEF h, g, S
  <2> QED
    BY <1>11, PassedRun
<1>14. ProcessBlocks(o, size, m) = ProcessedBlocks(o, size, m, Passed(S, m, g, [run |-> o.run, words |-> <<>>]))
  BY DEF ProcessBlocks, Loop
<1> HIDE DEF S, g, h
<1>15. ProcessBlocks(o, size, m) = ProcessedBlocks(o, size, m, [run |-> f[a + m], words |-> SubSeq(D, a * size + 1, (a + m) * size)])
  BY <1>12, <1>13, <1>14
<1> QED
  BY <1>15

BlocksFor(size, N) == (N + (4 * size) - 1) \div (4 * size)

LEMMA ReadyIs ==
    ASSUME NEW size \in {1, 2, 4}, NEW s \in Nat, NEW keep \in {0, 1}
    PROVE  LET m == BlocksReady(s, 4 * size, keep, FALSE)
           IN  /\ m \in Nat /\ 4 * (m * size) <= s
               /\ m > 0 /\ keep = 1 => 4 * ((m + 1) * size) <= s
               /\ BytesReady(s, 4 * size, m) = 4 * (m * size)
<1>1. CASE size = 1
  BY <1>1 DEF BlocksReady, BytesReady
<1>2. CASE size = 2
  BY <1>2 DEF BlocksReady, BytesReady
<1>3. CASE size = 4
  BY <1>3 DEF BlocksReady, BytesReady
<1> QED
  BY <1>1, <1>2, <1>3

LEMMA BlocksForIs ==
    ASSUME NEW size \in {1, 2, 4}, NEW N \in Nat
    PROVE  /\ BlocksFor(size, N) \in Nat /\ BlocksFor(size, N) * size \in Nat
           /\ N <= 4 * (BlocksFor(size, N) * size) /\ 4 * (BlocksFor(size, N) * size) < N + 4 * size
           /\ \A a \in Nat : 4 * (a * size) <= N =>
                /\ a <= BlocksFor(size, N)
                /\ BlocksReady(N - 4 * (a * size), 4 * size, 0, TRUE) = BlocksFor(size, N) - a
                /\ BlocksReady(N - 4 * (a * size), 4 * size, 1, TRUE) = BlocksFor(size, N) - a
                /\ BytesReady(N - 4 * (a * size), 4 * size, BlocksFor(size, N) - a) = N - 4 * (a * size)
<1>1. CASE size = 1
  BY <1>1 DEF BlocksReady, BytesReady, BlocksFor
<1>2. CASE size = 2
  BY <1>2 DEF BlocksReady, BytesReady, BlocksFor
<1>3. CASE size = 4
  BY <1>3 DEF BlocksReady, BytesReady, BlocksFor
<1> QED
  BY <1>1, <1>2, <1>3

\* Where a call works that finds u bytes given and a of the n blocks done: m
\* blocks of l words, from word p to word q of d.
FeedAt(size, N, a, u, keep, n, m, l, p, q, s, d) ==
    /\ m \in Nat /\ l \in Nat /\ p \in Nat /\ q \in Nat /\ s \in Nat /\ n \in Nat /\ d \in Nat
    /\ p = a * size /\ l = m * size /\ q = (a + m) * size /\ d = n * size /\ s = u - 4 * p
    /\ m = BlocksReady(s, 4 * size, keep, FALSE) /\ n = BlocksFor(size, N)
    /\ BytesReady(s, 4 * size, m) = 4 * l
    /\ 4 * p <= u /\ 4 * q <= u /\ q = p + l /\ q <= d
    /\ a + m <= n
    /\ m > 0 /\ keep = 1 => 4 * (((a + m) + 1) * size) <= u

Behind(a, size, t) == 4 * (a * size) <= t

LEMMA FeedPlace ==
    ASSUME NEW size \in {1, 2, 4}, NEW N \in Nat, NEW a \in Nat, NEW t \in Nat, Behind(a, size, t),
           NEW u \in t .. N, NEW keep \in {0, 1}
    PROVE  \E n, m, l, p, q, s, d : FeedAt(size, N, a, u, keep, n, m, l, p, q, s, d)
<1> DEFINE p == a * size
           s == u - 4 * p
           m == BlocksReady(s, 4 * size, keep, FALSE)
<1>1. p \in Nat /\ s \in Nat /\ 4 * p <= u
  <2>1. p \in Nat
    BY CipherPlaces
  <2> HIDE DEF p
  <2>2. 4 * p <= t
    BY DEF p, Behind
  <2> QED
    BY <2>1, <2>2
<1> HIDE DEF p, s
<1>2. /\ m \in Nat /\ 4 * (m * size) <= s
      /\ m > 0 /\ keep = 1 => 4 * ((m + 1) * size) <= s
      /\ BytesReady(s, 4 * size, m) = 4 * (m * size)
  BY <1>1, ReadyIs
<1> HIDE DEF m
<1>3. /\ m * size \in Nat /\ (a + m) * size \in Nat /\ (a + m) * size = p + m * size
      /\ ((a + m) + 1) * size = p + (m + 1) * size /\ (m + 1) * size \in Nat
  <2>1. CASE size = 1
    BY <1>1, <1>2, <2>1 DEF p
  <2>2. CASE size = 2
    BY <1>1, <1>2, <2>2 DEF p
  <2>3. CASE size = 4
    BY <1>1, <1>2, <2>3 DEF p
  <2> QED
    BY <2>1, <2>2, <2>3
<1>4. 4 * ((a + m) * size) <= u /\ p <= (a + m) * size /\ (m > 0 /\ keep = 1 => 4 * (((a + m) + 1) * size) <= u)
  <2> DEFINE x == m * size
             y == (m + 1) * size
             q == (a + m) * size
             z == ((a + m) + 1) * size
  <2>1. x \in Nat /\ y \in Nat /\ q = p + x /\ z = p + y /\ 4 * x <= s /\ (m > 0 /\ keep = 1 => 4 * y <= s)
    BY <1>2, <1>3
  <2> HIDE DEF x, y, q, z
  <2>2. 4 * q <= u /\ p <= q /\ (m > 0 /\ keep = 1 => 4 * z <= u)
    BY <1>1, <2>1 DEF s
  <2> QED
    BY <2>2 DEF q, z
<1> DEFINE n == BlocksFor(size, N)
           q == (a + m) * size
           j == a + m
<1>5. n \in Nat /\ n * size \in Nat /\ \A i \in Nat : 4 * (i * size) <= N => i <= n
  BY BlocksForIs
<1>6. j \in Nat /\ 4 * (j * size) <= u /\ u <= N /\ u \in Nat
  BY <1>2, <1>4
<1> HIDE DEF n, j
<1>7. j <= n
  <2> DEFINE x == j * size
  <2>1. x \in Nat
    BY <1>6, CipherPlaces
  <2>2. 4 * x <= u
    BY <1>6
  <2> HIDE DEF x
  <2>3. 4 * x <= N
    BY <1>6, <2>1, <2>2
  <2> QED
    BY <1>5, <1>6, <2>3 DEF x
<1>8. j * size <= n * size
  BY <1>5, <1>6, <1>7, CipherPlaces
<1>9. 4 * (((a + m) + 1) * size) <= u \/ ~(m > 0 /\ keep = 1)
  BY <1>4
<1> DEFINE l == m * size
           d == n * size
<1>10. l \in Nat /\ q \in Nat /\ q = p + l /\ 4 * q <= u /\ BytesReady(s, 4 * size, m) = 4 * l /\ d \in Nat
  BY <1>2, <1>3, <1>4, <1>5, Zenon
<1>11. q <= d /\ a + m <= n
  BY <1>7, <1>8, Zenon DEF j
<1>12. FeedAt(size, N, a, u, keep, n, m, l, p, q, s, d)
  <2>1. p = a * size /\ s = u - 4 * p /\ m = BlocksReady(s, 4 * size, keep, FALSE) /\ n = BlocksFor(size, N)
    BY Zenon DEF p, s, m, n
  <2>2. n \in Nat /\ m \in Nat /\ p \in Nat /\ s \in Nat /\ 4 * p <= u
    BY <1>1, <1>2, <1>5, Zenon
  <2> QED
    BY <1>9, <1>10, <1>11, <2>1, <2>2, Zenon DEF FeedAt
<1> HIDE DEF l, d, q
<1> QED
  BY <1>12, Zenon

\* o, an object like c, was given t of the bytes b and has worked on the first
\* a blocks of them.
Come(c, b, f, o, a, t) ==
    /\ o \in Alike(c) /\ a \in Nat /\ t \in Nat
    /\ 4 * (a * CipherBlockSize(c.cipher)) <= t /\ t <= Len(b)
    /\ o.run = f[a]
    /\ o.data = OfBytes(SubSeq(b, 4 * (a * CipherBlockSize(c.cipher)) + 1, t))

\* All of what c makes of the bytes b.
Makes(c, b, f, D) ==
    /\ c.cipher \in CipherNames /\ b \in Seq(Byte)
    /\ Turns(c, OfBytes(b).words, BlocksFor(CipherBlockSize(c.cipher), Len(b)), f, D)

LEMMA MakesSizes ==
    ASSUME NEW c, NEW b, NEW f, NEW D, Makes(c, b, f, D), NEW size, size = CipherBlockSize(c.cipher),
           NEW n, n = BlocksFor(size, Len(b))
    PROVE  /\ size \in {1, 2, 4} /\ Len(b) \in Nat /\ n \in Nat /\ n * size \in Nat /\ Len(b) <= 4 * (n * size)
           /\ OfBytes(b).words \in Chain
           /\ D \in Chain /\ Len(D) = n * size /\ D \in [1 .. n * size -> Word32]
           /\ \A i \in 0 .. n : f[i] \in ProperRuns(c.cipher, c.cfg.mode)
           /\ Turns(c, OfBytes(b).words, n, f, D)
<1>1. c.cipher \in CipherNames /\ b \in Seq(Byte) /\ Turns(c, OfBytes(b).words, n, f, D)
  BY DEF Makes
<1>2. size \in {1, 2, 4} /\ Len(b) \in Nat
  BY <1>1, CipherSizes
<1>3. n \in Nat /\ n * size \in Nat /\ Len(b) <= 4 * (n * size)
  BY <1>2, BlocksForIs
<1>4. D \in [1 .. n * size -> Word32] /\ \A i \in 0 .. n : f[i] \in ProperRuns(c.cipher, c.cfg.mode)
  BY <1>1 DEF Turns
<1>5. D \in Chain /\ Len(D) = n * size
  BY <1>3, <1>4, Listed DEF Chain
<1>6. OfBytes(b).words \in Chain
  BY <1>1, OfBytesIs DEF Arrays
<1> QED
  BY <1>1, <1>2, <1>3, <1>4, <1>5, <1>6

\* The object o works on m blocks of the words W, from word p to word q.
Working(c, size, W, n, f, D, a, m, o, p, q, l) ==
    /\ c.cipher \in CipherNames /\ size = CipherBlockSize(c.cipher)
    /\ n \in Nat /\ a \in Nat /\ m \in Nat /\ a + m <= n
    /\ Turns(c, W, n, f, D)
    /\ o \in Alike(c) /\ o.run = f[a]
    /\ p = a * size /\ q = (a + m) * size /\ l = m * size
    /\ \A k \in Nat : k < l => At(o.data.words, k) = At(W, p + k)

LEMMA ProcessTurnsAt ==
    ASSUME NEW c, NEW size, NEW W, NEW n, NEW f, NEW D, NEW a, NEW m, NEW o, NEW p, NEW q, NEW l,
           Working(c, size, W, n, f, D, a, m, o, p, q, l)
    PROVE  ProcessBlocks(o, size, m) = ProcessedBlocks(o, size, m, [run |-> f[a + m], words |-> SubSeq(D, p + 1, q)])
<1>1. /\ c.cipher \in CipherNames /\ size = CipherBlockSize(c.cipher)
      /\ n \in Nat /\ a \in Nat /\ m \in Nat /\ a + m <= n
      /\ Turns(c, W, n, f, D)
      /\ o \in Alike(c) /\ o.run = f[a]
      /\ \A k \in Nat : k < m * size => At(o.data.words, k) = At(W, a * size + k)
  BY Zenon DEF Working
<1>2. ProcessBlocks(o, size, m)
        = ProcessedBlocks(o, size, m, [run |-> f[a + m], words |-> SubSeq(D, a * size + 1, (a + m) * size)])
  BY <1>1, ProcessTurns
<1>3. p = a * size /\ q = (a + m) * size
  BY Zenon DEF Working
<1> QED
  BY <1>2, <1>3, Zenon

\* The byte at which block a begins.
BlockPlace(q, a, size) == q = 4 * (a * size)
\* r is what an object like c, which worked on a blocks, did when it was given
\* the bytes up to u: it worked on m more, and returned the bytes from p to q.
GoesOn(c, b, f, D, a, u, r, m, p, q) ==
    /\ m \in Nat /\ Come(c, b, f, r.o, a + m, u)
    /\ p \in Nat /\ q \in Nat /\ p <= q /\ q <= u
    /\ BlockPlace(p, a, CipherBlockSize(c.cipher)) /\ BlockPlace(q, a + m, CipherBlockSize(c.cipher))
    /\ m > 0 /\ MinBufferSize(c) = 1 => 4 * (((a + m) + 1) * CipherBlockSize(c.cipher)) <= u
    /\ r.out \in Arrays /\ Bytes(r.out) = SubSeq(Bytes(WordArray(D, Len(b))), p + 1, q)

LEMMA FeedIs ==
    ASSUME NEW c, NEW b, NEW f, NEW D, Makes(c, b, f, D), NEW o, NEW a, NEW t, Come(c, b, f, o, a, t), NEW u \in t .. Len(b),
           NEW r, r = Feed(o, OfBytes(SubSeq(b, t + 1, u)))
    PROVE  \E m, p, q : GoesOn(c, b, f, D, a, u, r, m, p, q)
<1> DEFINE size == CipherBlockSize(c.cipher)
<1>0. size = CipherBlockSize(c.cipher)
  OBVIOUS
<1> HIDE DEF size
<1> DEFINE N == Len(b)
           W == OfBytes(b).words
           y == SubSeq(b, t + 1, u)
           keep == MinBufferSize(c)
           e == Bytes(WordArray(D, N))
           n0 == BlocksFor(size, N)
<1>1. /\ size \in {1, 2, 4} /\ N \in Nat /\ n0 \in Nat
      /\ W \in Chain /\ D \in Chain /\ Len(D) = n0 * size
      /\ \A i \in 0 .. n0 : f[i] \in ProperRuns(c.cipher, c.cfg.mode)
      /\ Turns(c, W, n0, f, D)
  BY <1>0, MakesSizes
<1>2. c.cipher \in CipherNames /\ b \in Seq(Byte)
  BY DEF Makes
<1>3. o \in Alike(c) /\ a \in Nat /\ t \in Nat /\ 4 * (a * size) <= t /\ t <= N /\ o.run = f[a]
      /\ o.data = OfBytes(SubSeq(b, 4 * (a * size) + 1, t))
  BY <1>0, Zenon DEF Come, N
<1>4. keep \in {0, 1}
  BY DEF MinBufferSize
<1>5. u \in Nat /\ t <= u /\ u <= N /\ u \in t .. N /\ a \in Nat /\ t \in Nat /\ N \in Nat
  <2>1. t \in Nat /\ t <= N /\ N \in Nat /\ a \in Nat
    BY <1>1, <1>3, Zenon
  <2> QED
    BY <2>1
<1> HIDE DEF keep, N
<1>6. PICK n, m, l, p, q, s, d : FeedAt(size, N, a, u, keep, n, m, l, p, q, s, d)
  <2>1. size \in {1, 2, 4} /\ Behind(a, size, t)
    BY <1>1, <1>3, Zenon DEF Behind
  <2> QED
    BY <1>4, <1>5, <2>1, FeedPlace
<1>7. p = a * size /\ l = m * size /\ q = (a + m) * size /\ d = n * size /\ n = n0
      /\ m = BlocksReady(s, 4 * size, keep, FALSE) /\ BytesReady(s, 4 * size, m) = 4 * l
      /\ (m > 0 /\ keep = 1 => 4 * (((a + m) + 1) * size) <= u)
  BY <1>6, Zenon DEF FeedAt
<1>8. m \in Nat /\ l \in Nat /\ p \in Nat /\ q \in Nat /\ s \in Nat /\ n \in Nat /\ d \in Nat
      /\ s = u - 4 * p /\ 4 * p <= u /\ 4 * q <= u /\ q = p + l /\ q <= d /\ a + m <= n
  BY <1>6, Zenon DEF FeedAt
<1> HIDE DEF n0
<1>9. Len(D) = d /\ Turns(c, W, n, f, D) /\ f[a + m] \in ProperRuns(c.cipher, c.cfg.mode) /\ a + m \in Nat
  <2>1. a + m \in 0 .. n
    BY <1>5, <1>8
  <2>2. n = n0 /\ d = n * size
    BY <1>7, Zenon
  <2>3. a + m \in Nat
    BY <1>5, <1>8
  <2> QED
    BY <1>1, <2>1, <2>2, <2>3, Zenon
<1> DEFINE x == SubSeq(b, 4 * p + 1, t)
           z == SubSeq(b, 4 * p + 1, u)
<1>10. o.data = OfBytes(x) /\ 4 * p <= t
  <2>1. p = a * size
    BY <1>7, Zenon
  <2> QED
    BY <1>3, <2>1, Zenon
<1>11. x \in Seq(Byte) /\ y \in Seq(Byte) /\ z \in Seq(Byte) /\ Len(z) = s /\ x \o y = z /\ Len(y) \in Nat
  <2>0. 4 * p \in Nat /\ t \in Nat /\ t <= Len(b) /\ u <= Len(b)
    BY <1>3, <1>5, <1>8 DEF N
  <2>1. x \in Seq(Byte) /\ y \in Seq(Byte) /\ Len(y) = u - t
    BY <2>0, <1>2, <1>5, <1>10, PartIs
  <2>2. z \in Seq(Byte) /\ Len(z) = u - 4 * p
    BY <2>0, <1>2, <1>5, <1>8, PartIs
  <2>4. t <= u /\ u \in Nat /\ 4 * p <= t /\ b \in Seq(Byte)
    BY <1>2, <1>5, <1>10
  <2>3. x \o y = z
    BY <2>0, <2>4, PartsJoin, Zenon
  <2> QED
    BY <1>3, <1>5, <1>8, <2>1, <2>2, <2>3
<1> HIDE DEF x, y, z
<1> DEFINE o1 == AppendData(o, OfBytes(y))
<1>12. o1 \in Alike(c) /\ o1.run = f[a] /\ o1.data = OfBytes(z) /\ OfBytes(z) \in Arrays /\ OfBytes(z).sigBytes = s
  <2>1. OfBytes(y) \in Arrays /\ OfBytes(z) \in Arrays /\ OfBytes(z).sigBytes = s /\ OfBytes(y).sigBytes = Len(y)
    BY <1>11, OfBytesIs
  <2>2. Concat(o.data, OfBytes(y)) = OfBytes(z)
    BY <1>10, <1>11, ConcatJoins
  <2> DEFINE k == o.nDataBytes + Len(y)
  <2>3. o1 = [o EXCEPT !.data = OfBytes(z), !.nDataBytes = k]
    BY <2>1, <2>2 DEF AppendData
  <2>4. k \in Nat
    BY <1>3, <1>11 DEF Alike
  <2> HIDE DEF k, o1
  <2>5. o1 \in Alike(c) /\ o1.run = o.run /\ o1.data = OfBytes(z)
    BY <1>3, <2>1, <2>3, <2>4 DEF Alike
  <2> QED
    BY <1>3, <2>1, <2>5
<1> HIDE DEF o1
<1>13. o1.cipher = c.cipher /\ o1.forward = c.forward
  BY <1>12 DEF Alike
<1>14. Feed(o, OfBytes(y)) = ProcessBlocks(o1, size, m)
  <2>1. MinBufferSize(o1) = keep
    BY <1>13 DEF MinBufferSize, keep
  <2>2. m = BlocksReady(s, 4 * size, keep, FALSE)
    BY <1>7, Zenon
  <2>3. BlocksReady(o1.data.sigBytes, 4 * CipherBlockSize(o1.cipher), MinBufferSize(o1), FALSE) = m
    BY <1>0, <1>12, <1>13, <2>1, <2>2
  <2> QED
    BY <1>0, <1>13, <2>3 DEF Feed, ProcessCipher, o1
<1>15. \A k \in Nat : k < l => At(o1.data.words, k) = At(W, p + k)
  <2> TAKE k \in Nat
  <2> HAVE k < l
  <2>1. 4 * (k + 1) <= u - 4 * p
    BY <1>5, <1>8
  <2>2. u \in 4 * p .. Len(b)
    BY <1>1, <1>5, <1>8 DEF N
  <2>3. At(OfBytes(SubSeq(b, 4 * p + 1, u)).words, k) = At(OfBytes(b).words, p + k)
    BY <1>2, <1>8, <2>1, <2>2, WordsOfPart
  <2> QED
    BY <1>12, <2>3 DEF z
<1> HIDE DEF W
<1> DEFINE d1 == Unprocessed(OfBytes(z), size, m)
           out == WordArray(SubSeq(D, p + 1, q), 4 * l)
<1>16. ProcessBlocks(o1, size, m) = [o |-> [o1 EXCEPT !.run = f[a + m], !.data = d1], out |-> out]
  <2> HIDE DEF d1, out
  <2>0. Working(c, size, W, n, f, D, a, m, o1, p, q, l)
    <3>1. p = a * size /\ q = (a + m) * size /\ l = m * size
      BY <1>7, Zenon
    <3>2. size = CipherBlockSize(c.cipher)
      BY <1>0
    <3> QED
      BY <1>2, <1>5, <1>8, <1>9, <1>12, <1>15, <3>1, <3>2 DEF Working
  <2>1. ProcessBlocks(o1, size, m) = ProcessedBlocks(o1, size, m, [run |-> f[a + m], words |-> SubSeq(D, p + 1, q)])
    BY <2>0, ProcessTurnsAt
  <2>2. o1.data = OfBytes(z) /\ BytesReady(o1.data.sigBytes, 4 * size, m) = 4 * l
    BY <1>7, <1>12, Zenon
  <2> DEFINE done == [run |-> f[a + m], words |-> SubSeq(D, p + 1, q)]
  <2>3. done.run = f[a + m] /\ done.words = SubSeq(D, p + 1, q)
    OBVIOUS
  <2>4. ProcessBlocks(o1, size, m) =
          [o |-> [o1 EXCEPT !.run = done.run, !.data = Unprocessed(o1.data, size, m)],
           out |-> WordArray(done.words, BytesReady(o1.data.sigBytes, 4 * size, m))]
    BY <2>1, Zenon DEF ProcessedBlocks
  <2> HIDE DEF done
  <2> QED
    BY <2>2, <2>3, <2>4, Zenon DEF d1, out
<1>17. d1 = OfBytes(SubSeq(b, 4 * q + 1, u))
  <2>1. d1 = WordArray(SubSeq(OfBytes(z).words, l + 1, Len(OfBytes(z).words)), OfBytes(z).sigBytes - 4 * l)
    <3>1. l = m * size /\ m * (4 * size) = 4 * l
      <4>1. l = m * size
        BY <1>7, Zenon
      <4>2. m * (4 * size) = 4 * (m * size)
        BY <1>1, <1>8, CipherPlaces
      <4> QED
        BY <4>1, <4>2
    <3>2. BytesReady(OfBytes(z).sigBytes, 4 * size, m) = 4 * l
      BY <1>7, <1>12, Zenon
    <3> QED
      BY <3>1, <3>2, Zenon DEF Unprocessed
  <2>2. WordArray(SubSeq(OfBytes(z).words, (q - p) + 1, Len(OfBytes(z).words)), OfBytes(z).sigBytes - 4 * (q - p))
          = OfBytes(SubSeq(b, 4 * q + 1, u))
    <3>1. p \in Nat /\ q \in Nat /\ u \in Nat /\ p <= q /\ 4 * q <= u /\ u <= Len(b)
      BY <1>5, <1>8 DEF N
    <3> QED
      BY <1>2, <3>1, WordsLeft DEF z
  <2>3. q - p = l
    BY <1>8
  <2> QED
    BY <2>1, <2>2, <2>3
<1> HIDE DEF d1
<1>18. d1 \in Arrays
  <2>1. SubSeq(b, 4 * q + 1, u) \in Seq(Byte)
    <3>1. 4 * q \in Nat /\ u <= Len(b)
      BY <1>5, <1>8 DEF N
    <3> QED
      BY <1>2, <1>5, <1>8, <3>1, PartIs
  <2> QED
    BY <1>17, <2>1, OfBytesIs
<1>19. /\ out \in Arrays
       /\ Bytes(out) = SubSeq(e, 4 * p + 1, 4 * q)
  <2> DEFINE k == 4 * l
  <2>1. k \in Nat /\ k <= 4 * (q - p) /\ 4 * p + k <= N /\ 4 * p + k = 4 * q /\ p <= q /\ q <= Len(D)
    BY <1>1, <1>5, <1>8, <1>9
  <2> HIDE DEF k
  <2>2. WordArray(SubSeq(D, p + 1, q), k) \in Arrays
        /\ Bytes(WordArray(SubSeq(D, p + 1, q), k)) = SubSeq(Bytes(WordArray(D, N)), 4 * p + 1, 4 * p + k)
    <3>1. D \in Chain /\ N \in Nat
      BY <1>1
    <3> QED
      BY <1>8, <2>1, <3>1, BytesOfPart
  <2> QED
    BY <2>1, <2>2 DEF k
<1> HIDE DEF out, e
<1> DEFINE o2 == [o1 EXCEPT !.run = f[a + m], !.data = d1]
<1>20. o2 \in Alike(c) /\ o2.run = f[a + m] /\ o2.data = d1
  <2> DEFINE run2 == f[a + m]
  <2>1. run2 \in ProperRuns(c.cipher, c.cfg.mode)
    BY <1>9
  <2> HIDE DEF run2
  <2>2. [o1 EXCEPT !.run = run2, !.data = d1] \in Alike(c) /\ [o1 EXCEPT !.run = run2, !.data = d1].run = run2
        /\ [o1 EXCEPT !.run = run2, !.data = d1].data = d1
    BY <1>12, <1>18, <2>1 DEF Alike
  <2> QED
    BY <2>2 DEF run2
<1> HIDE DEF o2
<1>21. Come(c, b, f, o2, a + m, u)
  <2>1. q = (a + m) * size
    BY <1>7, Zenon
  <2>2. 4 * q <= u /\ u <= Len(b) /\ o2.data = OfBytes(SubSeq(b, 4 * q + 1, u))
    BY <1>5, <1>8, <1>17, <1>20 DEF N
  <2> QED
    BY <1>0, <1>5, <1>9, <1>20, <2>1, <2>2, Zenon DEF Come
<1>22. Feed(o, OfBytes(y)).o = o2 /\ Feed(o, OfBytes(y)).out = out
  <2> DEFINE o3 == [o1 EXCEPT !.run = f[a + m], !.data = d1]
  <2>1. Feed(o, OfBytes(y)) = [o |-> o3, out |-> out]
    BY <1>14, <1>16, Zenon
  <2> HIDE DEF o3
  <2>2. Feed(o, OfBytes(y)).o = o3 /\ Feed(o, OfBytes(y)).out = out
    BY <2>1
  <2> QED
    BY <2>2 DEF o2, o3
<1> DEFINE p4 == 4 * p
           q4 == 4 * q
<1>23. BlockPlace(p4, a, size) /\ BlockPlace(q4, a + m, size)
  <2>1. p = a * size /\ q = (a + m) * size
    BY <1>7, Zenon
  <2> QED
    BY <2>1, Zenon DEF BlockPlace
<1>24. m > 0 /\ keep = 1 => 4 * (((a + m) + 1) * size) <= u
  BY <1>7, Zenon
<1>25. m \in Nat /\ out \in Arrays /\ p4 \in Nat /\ q4 \in Nat /\ p4 <= q4 /\ q4 <= u
  BY <1>8, <1>19
<1>26. Bytes(out) = SubSeq(e, p4 + 1, q4)
  BY <1>19, Zenon
<1> HIDE DEF p4, q4
<1>27. r.o = o2 /\ r.out = out
  BY <1>22 DEF y
<1>28. GoesOn(c, b, f, D, a, u, r, m, p4, q4)
  BY <1>0, <1>21, <1>23, <1>24, <1>25, <1>26, <1>27, Zenon DEF GoesOn, e, keep, N
<1> QED
  BY <1>28

\* Where a flush works: the blocks of the last s bytes, from word p on.
FlushAt(size, N, a, n, m, l, p, q, s) ==
    /\ n \in Nat /\ m \in Nat /\ l \in Nat /\ p \in Nat /\ q \in Nat /\ s \in Nat
    /\ p = a * size /\ q = n * size /\ q = (a + m) * size /\ l = m * size /\ n = BlocksFor(size, N)
    /\ \A keep \in {0, 1} : BlocksReady(s, 4 * size, keep, TRUE) = m
    /\ BytesReady(s, 4 * size, m) = s
    /\ a + m = n /\ p <= q /\ s <= 4 * (q - p) /\ 4 * p + s = N /\ 4 * p <= N

LEMMA FlushPlace ==
    ASSUME NEW size \in {1, 2, 4}, NEW N \in Nat, NEW a \in Nat, Behind(a, size, N)
    PROVE  \E n, m, l, p, q, s : FlushAt(size, N, a, n, m, l, p, q, s)
<1> DEFINE n == BlocksFor(size, N)
           p == a * size
           s == N - 4 * p
           m == n - a
           q == n * size
           l == m * size
<1>1. n \in Nat /\ q \in Nat /\ N <= 4 * q
  BY BlocksForIs
<1>2. a <= n /\ BlocksReady(s, 4 * size, 0, TRUE) = m /\ BlocksReady(s, 4 * size, 1, TRUE) = m /\ BytesReady(s, 4 * size, m) = s
  <2>1. 4 * (a * size) <= N
    BY DEF Behind
  <2>2. CASE size = 1
    BY <2>1, <2>2 DEF BlocksReady, BytesReady, BlocksFor
  <2>3. CASE size = 2
    BY <2>1, <2>3 DEF BlocksReady, BytesReady, BlocksFor
  <2>4. CASE size = 4
    BY <2>1, <2>4 DEF BlocksReady, BytesReady, BlocksFor
  <2> QED
    BY <2>2, <2>3, <2>4
<1> HIDE DEF n
<1>3. m \in Nat /\ a + m = n
  BY <1>1, <1>2
<1>4. p \in Nat /\ p <= q
  BY <1>1, <1>2, CipherPlaces
<1>5. l \in Nat
  <2> HIDE DEF m
  <2> QED
    BY <1>3, CipherPlaces
<1> HIDE DEF p, q, l
<1>6. 4 * p <= N
  BY DEF Behind, p
<1>7. s \in Nat /\ s <= 4 * (q - p) /\ 4 * p + s = N
  BY <1>1, <1>4, <1>6
<1> HIDE DEF s, m
<1>8. p = a * size /\ q = n * size /\ q = (a + m) * size /\ l = m * size
  <2>1. q = n * size /\ p = a * size /\ l = m * size
    BY Zenon DEF q, p, l
  <2> QED
    BY <1>3, <2>1, Zenon
<1>9. \A keep \in {0, 1} : BlocksReady(s, 4 * size, keep, TRUE) = m
  BY <1>2
<1>10. FlushAt(size, N, a, n, m, l, p, q, s)
  <2>1. n = BlocksFor(size, N)
    BY DEF n
  <2> QED
    BY <1>1, <1>2, <1>3, <1>4, <1>5, <1>6, <1>7, <1>8, <1>9, <2>1, Zenon DEF FlushAt
<1> QED
  BY <1>10, Zenon

PartOf(D, N, p, q, s) ==
    D \in Chain /\ N \in Nat /\ p \in Nat /\ q \in Nat /\ s \in Nat
      /\ p <= q /\ q <= Len(D) /\ s <= 4 * (q - p) /\ 4 * p + s <= N

LEMMA BytesOfPartAt ==
    ASSUME NEW D, NEW N, NEW p, NEW q, NEW s, PartOf(D, N, p, q, s)
    PROVE  /\ WordArray(SubSeq(D, p + 1, q), s) \in Arrays
           /\ WordArray(SubSeq(D, p + 1, q), s).sigBytes = s
           /\ Bytes(WordArray(SubSeq(D, p + 1, q), s)) = SubSeq(Bytes(WordArray(D, N)), 4 * p + 1, 4 * p + s)
<1>1. D \in Chain /\ N \in Nat /\ p \in Nat /\ q \in Nat /\ s \in Nat
      /\ p <= q /\ q <= Len(D) /\ s <= 4 * (q - p) /\ 4 * p + s <= N
  BY DEF PartOf
<1> QED
  BY <1>1, BytesOfPart

LeftToDo(o, b, a, size) == Holds(o.data, SubSeq(b, 4 * (a * size) + 1, Len(b)))

\* o, an object like c, has the bytes from block a on to flush.
Flushes(c, b, f, D, size, o, a) ==
    /\ Makes(c, b, f, D) /\ size = CipherBlockSize(c.cipher) /\ o \in Alike(c) /\ a \in Nat
    /\ Behind(a, size, Len(b)) /\ o.run = f[a] /\ LeftToDo(o, b, a, size)
\* r is what an object like c returned: the bytes y.
Returns(r, c, y) ==
    /\ r.o.cipher = c.cipher /\ r.o.forward = c.forward /\ r.o.cfg = c.cfg
    /\ r.out \in Arrays /\ Bytes(r.out) = y
    /\ \E x0, y0 : r = [o |-> x0, out |-> y0]

LEMMA ResultIs ==
    ASSUME NEW c, NEW x, NEW w, x.cipher = c.cipher, x.forward = c.forward, x.cfg = c.cfg, w \in Arrays,
           NEW r, r = [o |-> x, out |-> w]
    PROVE  Returns(r, c, Bytes(w))
<1>1. r.o = x /\ r.out = w
  OBVIOUS
<1> QED
  BY <1>1 DEF Returns

LEMMA FlushIs ==
    ASSUME NEW c, NEW b, NEW f, NEW D, NEW size, NEW o, NEW a, Flushes(c, b, f, D, size, o, a),
           NEW e, BlockPlace(e, a, size), NEW r, r = ProcessCipher(o, TRUE)
    PROVE  Returns(r, c, SubSeq(Bytes(WordArray(D, Len(b))), e + 1, Len(b)))
<1>0. /\ Makes(c, b, f, D) /\ size = CipherBlockSize(c.cipher) /\ o \in Alike(c) /\ a \in Nat
      /\ Behind(a, size, Len(b)) /\ o.run = f[a] /\ LeftToDo(o, b, a, size)
  BY DEF Flushes
<1> USE <1>0
<1> DEFINE n0 == BlocksFor(size, Len(b))
           W == OfBytes(b).words
           N == Len(b)
<1>1. /\ size \in {1, 2, 4} /\ N \in Nat
      /\ W \in Chain /\ D \in Chain /\ Len(D) = n0 * size
      /\ Turns(c, W, n0, f, D)
  BY MakesSizes
<1>2. c.cipher \in CipherNames /\ b \in Seq(Byte)
  BY DEF Makes
<1> HIDE DEF n0, N
<1>3. PICK n, m, l, p, q, s : FlushAt(size, N, a, n, m, l, p, q, s)
  <2>1. Behind(a, size, N)
    BY DEF N
  <2>2. size \in {1, 2, 4} /\ N \in Nat /\ a \in Nat
    BY <1>1, Zenon
  <2> QED
    BY <2>1, <2>2, FlushPlace
<1>4. p = a * size /\ q = n * size /\ q = (a + m) * size /\ l = m * size /\ n = n0
      /\ (\A keep \in {0, 1} : BlocksReady(s, 4 * size, keep, TRUE) = m)
      /\ BytesReady(s, 4 * size, m) = s
  BY <1>3, Zenon DEF FlushAt, n0, N
<1>5. n \in Nat /\ m \in Nat /\ l \in Nat /\ p \in Nat /\ q \in Nat /\ s \in Nat
      /\ a + m = n /\ p <= q /\ s <= 4 * (q - p) /\ 4 * p + s = N /\ 4 * p <= N
  BY <1>3, Zenon DEF FlushAt
<1>6. Len(D) = q /\ Turns(c, W, n, f, D)
  BY <1>1, <1>4, Zenon
<1> DEFINE x == SubSeq(b, 4 * p + 1, N)
<1>7. Holds(o.data, x) /\ o.run = f[a]
  <2>1. p = a * size /\ Holds(o.data, SubSeq(b, 4 * (a * size) + 1, N))
    BY <1>4, Zenon DEF N, LeftToDo
  <2> QED
    BY <2>1, Zenon
<1> HIDE DEF W
<1>8. o.data \in Arrays /\ o.data.sigBytes = s /\ \A k \in Nat : At(o.data.words, k) = At(W, p + k)
  <2>1. o.data \in Arrays /\ o.data.sigBytes = Len(x) /\ \A k \in Nat : At(o.data.words, k) = At(OfBytes(x).words, k)
    BY <1>7 DEF Holds
  <2>2. Len(x) = s
    <3>1. 4 * p \in Nat /\ 4 * p <= N /\ N <= Len(b) /\ N \in Nat
      BY <1>1, <1>5 DEF N
    <3> QED
      BY <1>2, <1>5, <3>1, PartIs
  <2>3. \A k \in Nat : At(OfBytes(x).words, k) = At(W, p + k)
    <3>1. N \in 4 * p .. Len(b) /\ N = Len(b)
      BY <1>1, <1>5 DEF N
    <3> QED
      BY <1>2, <1>5, <3>1, WordsOfPart DEF W
  <2> HIDE DEF x
  <2> QED
    BY <2>1, <2>2, <2>3
<1>9. o.cipher = c.cipher /\ o.forward = c.forward /\ o.cfg = c.cfg
  BY DEF Alike
<1>10. ProcessCipher(o, TRUE) = ProcessBlocks(o, size, m)
  <2>1. MinBufferSize(o) \in {0, 1}
    BY DEF MinBufferSize
  <2>2. BlocksReady(s, 4 * size, MinBufferSize(o), TRUE) = m
    BY <1>4, <2>1, Zenon
  <2>3. o.data.sigBytes = s /\ CipherBlockSize(o.cipher) = size
    BY <1>8, <1>9
  <2> QED
    BY <2>2, <2>3, Zenon DEF ProcessCipher
<1> DEFINE done == [run |-> f[a + m], words |-> SubSeq(D, p + 1, q)]
           out == WordArray(SubSeq(D, p + 1, q), s)
           o2 == [o EXCEPT !.run = done.run, !.data = Unprocessed(o.data, size, m)]
<1>11. ProcessBlocks(o, size, m) = ProcessedBlocks(o, size, m, done)
  <2>1. Working(c, size, W, n, f, D, a, m, o, p, q, l)
    <3>1. p = a * size /\ q = (a + m) * size /\ l = m * size
      BY <1>4, Zenon
    <3>2. size = CipherBlockSize(c.cipher) /\ a + m <= n
      BY <1>5
    <3>3. \A k \in Nat : k < l => At(o.data.words, k) = At(W, p + k)
      BY <1>8
    <3> QED
      BY <1>2, <1>5, <1>6, <1>7, <3>1, <3>2, <3>3 DEF Working
  <2> QED
    BY <2>1, ProcessTurnsAt
<1>12. done.words = SubSeq(D, p + 1, q)
  OBVIOUS
<1> HIDE DEF done
<1>13. ProcessBlocks(o, size, m) = [o |-> o2, out |-> out]
  <2>1. BytesReady(o.data.sigBytes, 4 * size, m) = s
    BY <1>4, <1>8, Zenon
  <2> QED
    BY <1>11, <1>12, <2>1, Zenon DEF ProcessedBlocks
<1>14. o2.cipher = c.cipher /\ o2.forward = c.forward /\ o2.cfg = c.cfg
  <2> DEFINE r1 == done.run
             d1 == Unprocessed(o.data, size, m)
  <2> HIDE DEF r1, d1
  <2>1. \A r2, d2 : LET o3 == [o EXCEPT !.run = r2, !.data = d2]
                    IN  o3.cipher = c.cipher /\ o3.forward = c.forward /\ o3.cfg = c.cfg
    BY DEF Alike
  <2> QED
    BY <2>1, Zenon
<1>15. out \in Arrays /\ out.sigBytes = s /\ Bytes(out) = SubSeq(Bytes(WordArray(D, N)), 4 * p + 1, N)
  <2>1. 4 * p + s <= N /\ q <= Len(D) /\ D \in Chain /\ N \in Nat /\ s <= 4 * (q - p) /\ p <= q
    BY <1>1, <1>5, <1>6
  <2>0. p \in Nat /\ q \in Nat /\ s \in Nat
    BY <1>5, Zenon
  <2>2. PartOf(D, N, p, q, s)
    BY <2>0, <2>1 DEF PartOf
  <2>3. /\ WordArray(SubSeq(D, p + 1, q), s) \in Arrays
        /\ WordArray(SubSeq(D, p + 1, q), s).sigBytes = s
        /\ Bytes(WordArray(SubSeq(D, p + 1, q), s)) = SubSeq(Bytes(WordArray(D, N)), 4 * p + 1, 4 * p + s)
    BY <2>2, BytesOfPartAt
  <2> QED
    BY <1>5, <2>3
<1> HIDE DEF o2, out
<1>16. ProcessCipher(o, TRUE) = [o |-> o2, out |-> out]
  BY <1>10, <1>13
<1>17. r = [o |-> o2, out |-> out]
  BY <1>16, Zenon
<1>18. Bytes(out) = SubSeq(Bytes(WordArray(D, N)), e + 1, N)
  <2>1. e = 4 * p
    BY <1>4, Zenon DEF BlockPlace
  <2> QED
    BY <1>15, <2>1, Zenon
<1> QED
  <2>1. Returns(r, c, Bytes(out))
    BY <1>14, <1>15, <1>17, ResultIs
  <2> QED
    BY <1>18, <2>1, Zenon DEF N

-----------------------------------------------------------------------------
(* What a decryptor makes of the blocks of an encryptor *)

LEMMA XorIs ==
    /\ \A x, y \in Word32 : Xor(x, y) \in Word32
    /\ \A x, y : Xor(Xor(x, y), y) = x
    /\ \A x, y \in Word32, j \in 0 .. 3 : ByteAt(Xor(x, y), j) = Xor(ByteAt(x, j), ByteAt(y, j))
<1>1. \A x, y \in Word32 : Xor(x, y) \in Word32
  BY DEF Xor, Word32
<1>2. \A x, y : Xor(Xor(x, y), y) = x
  <2> TAKE x, y
  <2>1. \A i : i \in Xor(Xor(x, y), y) <=> i \in x
    BY Zenon DEF Xor
  <2> QED
    BY <2>1
<1>3. ASSUME NEW x \in Word32, NEW y \in Word32, NEW j \in 0 .. 3
      PROVE  ByteAt(Xor(x, y), j) = Xor(ByteAt(x, j), ByteAt(y, j))
  <2>1. \A i : i \in ByteAt(Xor(x, y), j) <=> i \in Xor(ByteAt(x, j), ByteAt(y, j))
    BY DEF ByteAt, Xor, Word32, Places
  <2> QED
    BY <2>1
<1> QED
  BY <1>1, <1>2, <1>3

LEMMA XorWordsIs ==
    ASSUME NEW n \in Nat, NEW M \in [1 .. n -> Word32], NEW K \in Chain
    PROVE  /\ XorWords(M, K) \in [1 .. n -> Word32]
           /\ \A k \in 1 .. n : XorWords(M, K)[k] = Xor(M[k], At(K, k - 1))
           /\ XorWords(XorWords(M, K), K) = M
<1>1. XorWords(M, K) = [k \in 1 .. n |-> Xor(M[k], At(K, k - 1))]
  BY DEF XorWords
<1>2. \A k \in 1 .. n : At(K, k - 1) \in Word32
  BY AtIs
<1>3. \A k \in 1 .. n : Xor(M[k], At(K, k - 1)) \in Word32
  BY <1>2, XorIs
<1> DEFINE X == XorWords(M, K)
<1>4. X \in [1 .. n -> Word32] /\ \A k \in 1 .. n : X[k] = Xor(M[k], At(K, k - 1))
  BY <1>1, <1>3
<1> HIDE DEF X
<1>5. XorWords(X, K) = [k \in 1 .. n |-> Xor(X[k], At(K, k - 1))]
  BY <1>4 DEF XorWords
<1>6. \A k \in 1 .. n : Xor(X[k], At(K, k - 1)) = M[k]
  BY <1>4, XorIs
<1>7. XorWords(X, K) = M
  BY <1>5, <1>6
<1> QED
  BY <1>4, <1>7 DEF X

LEMMA BlockAt ==
    ASSUME NEW words \in Chain, NEW p \in Nat, NEW size \in Nat
    PROVE  /\ Block(words, p, size) \in [1 .. size -> Word32]
           /\ \A k \in 1 .. size : Block(words, p, size)[k] = At(words, p + (k - 1))
<1>1. /\ Block(words, p, size) \in [1 .. size -> Word32]
      /\ Block(words, p, size) = [i \in 1 .. size |-> At(words, p + i - 1)]
  BY BlockIs
<1>2. \A k \in 1 .. size : p + k - 1 = p + (k - 1)
  OBVIOUS
<1> QED
  BY <1>1, <1>2

\* The bytes that words D come to, of which N count.
Counts(D, N, E) ==
    /\ E \in Seq(Byte) /\ Len(E) = N
    /\ \A k \in Nat, j \in 0 .. 3 : 4 * k + j < N => ByteOf(E, 4 * k + j) = ByteAt(At(D, k), j)
    /\ \A k \in Nat : 4 * (k + 1) <= N => At(OfBytes(E).words, k) = At(D, k)

LEMMA CountedBytes ==
    ASSUME NEW D \in Chain, NEW N \in Nat
    PROVE  Counts(D, N, Bytes(WordArray(D, N)))
<1> DEFINE E == Bytes(WordArray(D, N))
<1>1. WordArray(D, N) \in Arrays /\ WordArray(D, N).words = D /\ WordArray(D, N).sigBytes = N
  BY ArrayIs
<1>2. /\ E \in Seq(Byte) /\ Len(E) = N
      /\ \A i \in 1 .. N : E[i] = ByteAt(At(D, (i - 1) \div 4), (i - 1) % 4)
  BY <1>1, BytesIs
<1>3. ASSUME NEW k \in Nat, NEW j \in 0 .. 3, 4 * k + j < N
      PROVE  ByteOf(E, 4 * k + j) = ByteAt(At(D, k), j)
  <2> DEFINE i == (4 * k + j) + 1
  <2>1. i \in 1 .. N /\ i - 1 = 4 * k + j
    BY <1>3
  <2>2. (i - 1) \div 4 = k /\ (i - 1) % 4 = j
    BY <2>1, FourAndRest
  <2>3. ByteOf(E, 4 * k + j) = E[i]
    BY <1>2, <1>3 DEF ByteOf
  <2> HIDE DEF i
  <2> QED
    BY <1>2, <2>1, <2>2, <2>3
<1>4. \A k \in Nat : 4 * (k + 1) <= N => At(OfBytes(E).words, k) = At(D, k)
  BY <1>1, WholeHeld
<1> HIDE DEF E
<1>5. Counts(D, N, E)
  BY <1>2, <1>3, <1>4 DEF Counts
<1> QED
  BY <1>5 DEF E

\* dec undoes a block of enc, and goes on from where enc does.
Opposite(enc, dec) ==
    /\ enc.cipher \in CipherNames /\ dec.cipher = enc.cipher /\ dec.cfg.mode = enc.cfg.mode
    /\ BlocksAreProper(enc) /\ BlocksAreProper(dec)
    /\ \A run \in ProperRuns(enc.cipher, enc.cfg.mode), M \in [1 .. CipherBlockSize(enc.cipher) -> Word32] :
          CipherBlock(dec, run, CipherBlock(enc, run, M).words) = [run |-> CipherBlock(enc, run, M).run, words |-> M]

\* Both combine a block with the same words, whatever is in it.
Keystreamed(enc, dec) ==
    \A run \in ProperRuns(enc.cipher, enc.cfg.mode) : \E K \in Chain :
       \A M \in [1 .. CipherBlockSize(enc.cipher) -> Word32] :
          CipherBlock(enc, run, M).words = XorWords(M, K) /\ CipherBlock(dec, run, M).words = XorWords(M, K)

\* Block p of the bytes b, which is block p of the words D encrypted.
BlockSent(enc, run, b, D, E, p, size) ==
    /\ run \in ProperRuns(enc.cipher, enc.cfg.mode) /\ b \in Seq(Byte) /\ D \in Chain /\ p \in Nat
    /\ size = CipherBlockSize(enc.cipher) /\ size \in {1, 2, 4}
    /\ E = Bytes(WordArray(D, Len(b)))
    /\ CipherBlock(enc, run, Block(OfBytes(b).words, p, size)).words = Block(D, p, size)

LEMMA BlockBack ==
    ASSUME NEW enc, NEW dec, Opposite(enc, dec), NEW run, NEW b, NEW D, NEW E, NEW p, NEW size,
           BlockSent(enc, run, b, D, E, p, size)
    PROVE  LET B == Block(OfBytes(b).words, p, size)
               r == CipherBlock(dec, run, Block(OfBytes(E).words, p, size))
           IN  /\ 4 * (p + size) <= Len(b) => r = [run |-> CipherBlock(enc, run, B).run, words |-> B]
               /\ 4 * (p + size) <= Len(b) \/ Keystreamed(enc, dec) =>
                    \A k \in 1 .. size, j \in 0 .. 3 : 4 * (p + (k - 1)) + j < Len(b) =>
                       ByteAt(r.words[k], j) = ByteOf(b, 4 * (p + (k - 1)) + j)
<1> DEFINE W == OfBytes(b).words
           V == OfBytes(E).words
           B == Block(W, p, size)
           C == Block(D, p, size)
           F == Block(V, p, size)
           N == Len(b)
           r == CipherBlock(dec, run, F)
<1>1. /\ run \in ProperRuns(enc.cipher, enc.cfg.mode) /\ b \in Seq(Byte) /\ D \in Chain /\ p \in Nat
      /\ size = CipherBlockSize(enc.cipher) /\ size \in {1, 2, 4} /\ size \in Nat
      /\ E = Bytes(WordArray(D, N)) /\ CipherBlock(enc, run, B).words = C /\ N \in Nat
  <2>1. /\ run \in ProperRuns(enc.cipher, enc.cfg.mode) /\ b \in Seq(Byte) /\ D \in Chain /\ p \in Nat
        /\ size = CipherBlockSize(enc.cipher) /\ size \in {1, 2, 4}
        /\ E = Bytes(WordArray(D, N)) /\ CipherBlock(enc, run, B).words = C
    BY Zenon DEF BlockSent
  <2>2. size \in Nat /\ N \in Nat
    BY <2>1
  <2> QED
    BY <2>1, <2>2, Zenon
<1>2. /\ E \in Seq(Byte) /\ Len(E) = N
      /\ \A k \in Nat, j \in 0 .. 3 : 4 * k + j < N => ByteOf(E, 4 * k + j) = ByteAt(At(D, k), j)
      /\ \A k \in Nat : 4 * (k + 1) <= N => At(V, k) = At(D, k)
  <2>1. Counts(D, N, E)
    BY <1>1, CountedBytes
  <2> QED
    BY <2>1, Zenon DEF Counts
<1>3. /\ W \in Chain /\ V \in Chain
      /\ \A k \in Nat, j \in 0 .. 3 : ByteAt(At(W, k), j) = ByteOf(b, 4 * k + j)
      /\ \A k \in Nat, j \in 0 .. 3 : ByteAt(At(V, k), j) = ByteOf(E, 4 * k + j)
  <2>1. b \in Seq(Byte) /\ E \in Seq(Byte)
    BY <1>1, <1>2, Zenon
  <2>2. OfBytes(b) \in Arrays /\ OfBytes(E) \in Arrays
    BY <2>1, OfBytesIs
  <2>3. W \in Chain /\ V \in Chain
    BY <2>2 DEF Arrays
  <2> QED
    BY <2>1, <2>3, OfBytesIs
<1> HIDE DEF W, V
<1>4. /\ B \in [1 .. size -> Word32] /\ C \in [1 .. size -> Word32] /\ F \in [1 .. size -> Word32]
      /\ \A k \in 1 .. size : B[k] = At(W, p + (k - 1)) /\ C[k] = At(D, p + (k - 1)) /\ F[k] = At(V, p + (k - 1))
  <2>1. size \in Nat /\ p \in Nat /\ W \in Chain /\ D \in Chain /\ V \in Chain
    BY <1>1, <1>3, Zenon
  <2>2. \A X \in Chain : Block(X, p, size) \in [1 .. size -> Word32] /\ \A k \in 1 .. size : Block(X, p, size)[k] = At(X, p + (k - 1))
    BY <2>1, BlockAt
  <2> QED
    BY <2>1, <2>2, Zenon
<1>5. ASSUME 4 * (p + size) <= N
      PROVE  r = [run |-> CipherBlock(enc, run, B).run, words |-> B]
  <2>1. \A k \in 1 .. size : F[k] = C[k]
    <3> TAKE k \in 1 .. size
    <3>1. p + (k - 1) \in Nat /\ 4 * ((p + (k - 1)) + 1) <= N
      BY <1>1, <1>5
    <3> QED
      BY <1>2, <1>4, <3>1
  <2> HIDE DEF B, C, F
  <2>2. F = C
    <3>1. F \in [1 .. size -> Word32] /\ C \in [1 .. size -> Word32]
      BY <1>4, Zenon
    <3>2. F = [k \in 1 .. size |-> F[k]] /\ C = [k \in 1 .. size |-> C[k]]
      BY <3>1
    <3> QED
      BY <2>1, <3>2, Zenon
  <2> QED
    BY <1>1, <1>4, <2>2 DEF Opposite
<1>6. ASSUME NEW k \in 1 .. size, NEW j \in 0 .. 3, 4 * (p + (k - 1)) + j < N
      PROVE  /\ ByteAt(B[k], j) = ByteOf(b, 4 * (p + (k - 1)) + j)
             /\ ByteAt(F[k], j) = ByteAt(C[k], j)
  <2> DEFINE x == p + (k - 1)
  <2>1. x \in Nat /\ 4 * x + j < N
    BY <1>1, <1>6
  <2>2. B[k] = At(W, x) /\ C[k] = At(D, x) /\ F[k] = At(V, x)
    BY <1>4
  <2> HIDE DEF x, B, C, F
  <2>3. ByteAt(B[k], j) = ByteOf(b, 4 * x + j) /\ ByteAt(F[k], j) = ByteAt(C[k], j)
    BY <1>2, <1>3, <2>1, <2>2
  <2> QED
    BY <2>3 DEF x
<1> HIDE DEF B, C, F
<1>7. ASSUME 4 * (p + size) <= N, NEW k \in 1 .. size, NEW j \in 0 .. 3, 4 * (p + (k - 1)) + j < N
      PROVE  ByteAt(r.words[k], j) = ByteOf(b, 4 * (p + (k - 1)) + j)
  <2>1. r.words = B
    BY <1>5, <1>7
  <2> QED
    BY <1>6, <1>7, <2>1
<1>8. ASSUME Keystreamed(enc, dec), NEW k \in 1 .. size, NEW j \in 0 .. 3, 4 * (p + (k - 1)) + j < N
      PROVE  ByteAt(r.words[k], j) = ByteOf(b, 4 * (p + (k - 1)) + j)
  <2>1. PICK K \in Chain : \A M \in [1 .. size -> Word32] :
           CipherBlock(enc, run, M).words = XorWords(M, K) /\ CipherBlock(dec, run, M).words = XorWords(M, K)
    BY <1>1, <1>8 DEF Keystreamed
  <2>2. C = XorWords(B, K) /\ r.words = XorWords(F, K)
    BY <1>1, <1>4, <2>1
  <2> DEFINE y == At(K, k - 1)
  <2>3. y \in Word32 /\ B[k] \in Word32 /\ F[k] \in Word32 /\ C[k] \in Word32
    BY <1>4, AtIs
  <2>4. C[k] = Xor(B[k], y) /\ r.words[k] = Xor(F[k], y)
    <3>1. size \in Nat /\ B \in [1 .. size -> Word32] /\ F \in [1 .. size -> Word32]
      BY <1>1, <1>4, Zenon
    <3>2. \A M \in [1 .. size -> Word32] : XorWords(M, K)[k] = Xor(M[k], y)
      BY <3>1, XorWordsIs
    <3> QED
      BY <2>2, <3>1, <3>2, Zenon
  <2> HIDE DEF y, r
  <2>5. ByteAt(r.words[k], j) = Xor(ByteAt(F[k], j), ByteAt(y, j)) /\ ByteAt(C[k], j) = Xor(ByteAt(B[k], j), ByteAt(y, j))
    <3>1. ByteAt(Xor(F[k], y), j) = Xor(ByteAt(F[k], j), ByteAt(y, j)) /\ ByteAt(Xor(B[k], y), j) = Xor(ByteAt(B[k], j), ByteAt(y, j))
      BY <2>3, XorIs
    <3> QED
      BY <2>4, <3>1, Zenon
  <2>6. ByteAt(F[k], j) = Xor(ByteAt(B[k], j), ByteAt(y, j))
    BY <1>6, <1>8, <2>5
  <2>7. ByteAt(r.words[k], j) = ByteAt(B[k], j)
    BY <2>5, <2>6, XorIs
  <2> QED
    BY <1>6, <1>8, <2>7
<1> HIDE DEF r
<1> QED
  BY <1>5, <1>7, <1>8 DEF r, B, F, W, V, N

\* The words of n blocks, one after the other.
Listing(size, n, out) == [k \in 1 .. n * size |-> out[(k - 1) \div size][((k - 1) % size) + 1]]
LEMMA ListingIs ==
    ASSUME NEW size \in {1, 2, 4}, NEW n \in Nat, NEW out, \A i \in 0 .. n - 1 : out[i] \in [1 .. size -> Word32]
    PROVE  /\ Listing(size, n, out) \in [1 .. n * size -> Word32]
           /\ \A i \in 0 .. n - 1 : Block(Listing(size, n, out), i * size, size) = out[i]
<1> DEFINE D == Listing(size, n, out)
<1>1. size \in Nat /\ n * size \in Nat /\ \A i \in Nat : i * size \in Nat
  BY CipherPlaces
<1>7. D \in [1 .. n * size -> Word32]
  <2> SUFFICES ASSUME NEW k \in 1 .. n * size PROVE out[(k - 1) \div size][((k - 1) % size) + 1] \in Word32
    BY DEF Listing
  <2>1. k - 1 \in Nat /\ k - 1 < n * size
    BY <1>1
  <2>2. (k - 1) \div size \in Nat /\ (k - 1) \div size < n /\ (k - 1) % size \in 0 .. size - 1
    BY <1>1, <2>1, CipherPlaces
  <2>3. (k - 1) \div size \in 0 .. n - 1 /\ ((k - 1) % size) + 1 \in 1 .. size
    BY <1>1, <2>2
  <2> DEFINE i == (k - 1) \div size
             j == ((k - 1) % size) + 1
  <2> HIDE DEF i, j
  <2>4. out[i][j] \in Word32
    BY <2>3 DEF i, j
  <2> QED
    BY <2>4 DEF i, j
<1>8. ASSUME NEW i \in 0 .. n - 1 PROVE Block(D, i * size, size) = out[i]
  <2> HIDE DEF D
  <2>1. i \in Nat /\ i * size \in Nat /\ i * size + size <= n * size
    BY <1>1, CipherPlaces
  <2>2. D \in Chain /\ Len(D) = n * size
    BY <1>1, <1>7, Listed DEF Chain
  <2>3. Block(D, i * size, size) \in [1 .. size -> Word32]
        /\ \A k \in 1 .. size : Block(D, i * size, size)[k] = At(D, i * size + (k - 1))
    BY <1>1, <2>1, <2>2, BlockAt
  <2>4. ASSUME NEW k \in 1 .. size PROVE At(D, i * size + (k - 1)) = out[i][k]
    <3> DEFINE l == i * size + k
    <3>1. l \in 1 .. n * size /\ l - 1 \in 0 .. Len(D) - 1 /\ (l - 1) + 1 = l /\ l - 1 = i * size + (k - 1)
      BY <1>1, <2>1, <2>2
    <3>2. (l - 1) \div size = i /\ (l - 1) % size = k - 1
      BY <2>1, CipherPlaces
    <3> HIDE DEF l
    <3>3. At(D, l - 1) = D[l]
      BY <3>1 DEF At
    <3>4. D[l] = out[i][(k - 1) + 1]
      BY <3>1, <3>2 DEF D, Listing
    <3>5. (k - 1) + 1 = k
      BY <1>1
    <3> QED
      BY <3>1, <3>3, <3>4, <3>5
  <2> DEFINE x == Block(D, i * size, size)
             y == out[i]
  <2>5. x \in [1 .. size -> Word32] /\ y \in [1 .. size -> Word32] /\ \A k \in 1 .. size : x[k] = y[k]
    BY <2>3, <2>4
  <2> HIDE DEF x, y
  <2>6. x = [k \in 1 .. size |-> x[k]] /\ y = [k \in 1 .. size |-> y[k]]
    BY <2>5
  <2>7. x = y
    BY <2>5, <2>6, Zenon
  <2> QED
    BY <2>7 DEF x, y
<1> QED
  BY <1>7, <1>8 DEF D

\* Whole blocks, all of them.
InWholeBlocks(size, N) == N = 4 * (BlocksFor(size, N) * size)

LEMMA WhereBlocksAre ==
    ASSUME NEW size \in {1, 2, 4}, NEW N \in Nat, NEW n, n = BlocksFor(size, N), NEW i \in 0 .. n - 1
    PROVE  /\ n \in Nat /\ i \in Nat /\ i * size \in Nat
           /\ i < n - 1 \/ InWholeBlocks(size, N) => 4 * (i * size + size) <= N
<1> DEFINE e == BlocksFor(size, N)
<1>0. e \in Nat /\ e * size \in Nat /\ 4 * (e * size) < N + 4 * size
  BY BlocksForIs
<1>1. n \in Nat /\ n * size \in Nat /\ 4 * (n * size) < N + 4 * size /\ size \in Nat
  <2> HIDE DEF e
  <2>1. n = e
    BY DEF e
  <2>2. size \in Nat
    OBVIOUS
  <2> QED
    BY <1>0, <2>1, <2>2, Zenon
<1>2. i \in Nat
  BY <1>1
<1>3. CASE size = 1
  BY <1>1, <1>2, <1>3 DEF InWholeBlocks
<1>4. CASE size = 2
  BY <1>1, <1>2, <1>4 DEF InWholeBlocks
<1>5. CASE size = 4
  BY <1>1, <1>2, <1>5 DEF InWholeBlocks
<1> QED
  BY <1>3, <1>4, <1>5

\* Where word q of n blocks is.
LEMMA WordsPlace ==
    ASSUME NEW size \in {1, 2, 4}, NEW n \in Nat, NEW q \in Nat, q < n * size
    PROVE  \E i \in 0 .. n - 1, k \in 1 .. size : q = i * size + (k - 1)
<1>1. /\ q \div size \in Nat /\ q % size \in 0 .. size - 1 /\ q = (q \div size) * size + (q % size)
      /\ q \div size < n
  BY CipherPlaces
<1> DEFINE i == q \div size
           j == q % size
           p == i * size
<1>2. i \in 0 .. n - 1 /\ j \in 0 .. size - 1 /\ q = p + j
  BY <1>1
<1> HIDE DEF i, j, p
<1>3. j + 1 \in 1 .. size /\ j = (j + 1) - 1
  BY <1>2
<1>4. q = i * size + ((j + 1) - 1)
  BY <1>2, <1>3, Zenon DEF p
<1> QED
  BY <1>2, <1>3, <1>4, Zenon

\* What dec makes of block i of the cipher text E.
BackAt(dec, f, E, size, i) == CipherBlock(dec, f[i], Block(OfBytes(E).words, i * size, size))
BlocksBack(enc, dec, b, f, E, size, n) ==
    \A i \in 0 .. n - 1 :
       /\ BackAt(dec, f, E, size, i) \in [run : ProperRuns(dec.cipher, dec.cfg.mode), words : [1 .. size -> Word32]]
       /\ i < n - 1 => BackAt(dec, f, E, size, i).run = f[i + 1]
       /\ \A k \in 1 .. size, j \in 0 .. 3 : 4 * (i * size + (k - 1)) + j < Len(b) =>
             ByteAt(BackAt(dec, f, E, size, i).words[k], j) = ByteOf(b, 4 * (i * size + (k - 1)) + j)
\* The cipher text of the bytes b: whole blocks, or its last block is combined
\* with a keystream.
Reversible(enc, dec, b, f, D, E, size, n) ==
    /\ Opposite(enc, dec) /\ Makes(enc, b, f, D)
    /\ size = CipherBlockSize(enc.cipher) /\ E = Bytes(WordArray(D, Len(b))) /\ n = BlocksFor(size, Len(b))
    /\ InWholeBlocks(size, Len(b)) \/ Keystreamed(enc, dec)

LEMMA BlocksBackIs ==
    ASSUME NEW enc, NEW dec, NEW b, NEW f, NEW D, NEW E, NEW size, NEW n,
           Reversible(enc, dec, b, f, D, E, size, n)
    PROVE  BlocksBack(enc, dec, b, f, E, size, n)
<1> DEFINE W == OfBytes(b).words
           V == OfBytes(E).words
           N == Len(b)
<1>0. /\ Opposite(enc, dec) /\ Makes(enc, b, f, D)
      /\ size = CipherBlockSize(enc.cipher) /\ E = Bytes(WordArray(D, N)) /\ n = BlocksFor(size, N)
      /\ InWholeBlocks(size, N) \/ Keystreamed(enc, dec)
  BY Zenon DEF Reversible
<1>1. /\ size \in {1, 2, 4} /\ N \in Nat /\ n \in Nat /\ W \in Chain /\ D \in Chain
      /\ \A i \in 0 .. n : f[i] \in ProperRuns(enc.cipher, enc.cfg.mode)
      /\ Turns(enc, W, n, f, D)
  BY <1>0, MakesSizes
<1>2. /\ b \in Seq(Byte) /\ dec.cipher = enc.cipher /\ dec.cfg.mode = enc.cfg.mode /\ BlocksAreProper(dec)
  BY <1>0 DEF Makes, Opposite
<1>3. E \in Seq(Byte) /\ V \in Chain
  <2>1. Counts(D, N, E)
    BY <1>0, <1>1, CountedBytes
  <2>2. OfBytes(E) \in Arrays
    BY <2>1, OfBytesIs DEF Counts
  <2> QED
    BY <2>1, <2>2 DEF Counts, Arrays
<1> HIDE DEF W, V, N
<1> SUFFICES ASSUME NEW i \in 0 .. n - 1
             PROVE  /\ BackAt(dec, f, E, size, i) \in [run : ProperRuns(dec.cipher, dec.cfg.mode), words : [1 .. size -> Word32]]
                    /\ i < n - 1 => BackAt(dec, f, E, size, i).run = f[i + 1]
                    /\ \A k \in 1 .. size, j \in 0 .. 3 : 4 * (i * size + (k - 1)) + j < Len(b) =>
                          ByteAt(BackAt(dec, f, E, size, i).words[k], j) = ByteOf(b, 4 * (i * size + (k - 1)) + j)
  BY Zenon DEF BlocksBack
<1> DEFINE p == i * size
           r == CipherBlock(dec, f[i], Block(V, p, size))
           B == Block(W, p, size)
<1>4. p \in Nat /\ (i < n - 1 \/ InWholeBlocks(size, N) => 4 * (p + size) <= N)
  BY <1>0, <1>1, WhereBlocksAre
<1>5. CipherBlock(enc, f[i], B) = [run |-> f[i + 1], words |-> Block(D, p, size)]
  BY <1>0, <1>1 DEF Turns
<1>6. r = BackAt(dec, f, E, size, i)
  BY Zenon DEF BackAt, V
<1> HIDE DEF p
<1>7. i \in 0 .. n /\ f[i] \in ProperRuns(enc.cipher, enc.cfg.mode)
  BY <1>1
<1>8. BlockSent(enc, f[i], b, D, E, p, size)
  <2>1. CipherBlock(enc, f[i], B).words = Block(D, p, size)
    BY <1>5
  <2> QED
    BY <1>0, <1>1, <1>2, <1>4, <1>7, <2>1, Zenon DEF BlockSent, W, N
<1>9. /\ 4 * (p + size) <= N => r = [run |-> CipherBlock(enc, f[i], B).run, words |-> B]
      /\ 4 * (p + size) <= N \/ Keystreamed(enc, dec) =>
                    \A k \in 1 .. size, j \in 0 .. 3 : 4 * (p + (k - 1)) + j < N =>
                       ByteAt(r.words[k], j) = ByteOf(b, 4 * (p + (k - 1)) + j)
  BY <1>0, <1>8, BlockBack DEF W, V, N
<1>10. r \in [run : ProperRuns(dec.cipher, dec.cfg.mode), words : [1 .. size -> Word32]]
  <2>1. size \in Nat
    BY <1>1
  <2>2. Block(V, p, size) \in [1 .. size -> Word32]
    BY <1>3, <1>4, <2>1, BlockAt
  <2> QED
    BY <1>0, <1>2, <1>7, <2>2, Zenon DEF BlocksAreProper
<1>11. ASSUME i < n - 1 PROVE r.run = f[i + 1]
  BY <1>4, <1>5, <1>9, <1>11
<1>12. \A k \in 1 .. size, j \in 0 .. 3 : 4 * (p + (k - 1)) + j < N =>
                       ByteAt(r.words[k], j) = ByteOf(b, 4 * (p + (k - 1)) + j)
  BY <1>0, <1>4, <1>9, Zenon
<1> HIDE DEF r
<1> QED
  BY <1>6, <1>10, <1>11, <1>12, Zenon DEF p, N

\* The mode object before each block, and after the last, when decrypting.
RunsBack(dec, f, E, size, n) == [i \in 0 .. n |-> IF i = n /\ n > 0 THEN BackAt(dec, f, E, size, n - 1).run ELSE f[i]]
WordsBack(dec, f, E, size, n) == Listing(size, n, [i \in 0 .. n - 1 |-> BackAt(dec, f, E, size, i).words])

LEMMA Inverted ==
    ASSUME NEW enc, NEW dec, NEW b, NEW f, NEW D, NEW E, NEW size, NEW n,
           Reversible(enc, dec, b, f, D, E, size, n)
    PROVE  \E g, P2 : g[0] = f[0] /\ Makes(dec, E, g, P2) /\ Bytes(WordArray(P2, Len(b))) = b
<1> DEFINE V == OfBytes(E).words
           N == Len(b)
           g == RunsBack(dec, f, E, size, n)
           out == [i \in 0 .. n - 1 |-> BackAt(dec, f, E, size, i).words]
           P2 == Listing(size, n, out)
           R == ProperRuns(dec.cipher, dec.cfg.mode)
<1>0. /\ Opposite(enc, dec) /\ Makes(enc, b, f, D)
      /\ size = CipherBlockSize(enc.cipher) /\ E = Bytes(WordArray(D, N)) /\ n = BlocksFor(size, N)
  BY Zenon DEF Reversible
<1>1. /\ size \in {1, 2, 4} /\ N \in Nat /\ n \in Nat /\ D \in Chain /\ n * size \in Nat /\ N <= 4 * (n * size)
      /\ \A i \in 0 .. n : f[i] \in ProperRuns(enc.cipher, enc.cfg.mode)
  BY <1>0, MakesSizes
<1>2. b \in Seq(Byte) /\ enc.cipher \in CipherNames /\ dec.cipher = enc.cipher /\ dec.cfg.mode = enc.cfg.mode
  BY <1>0 DEF Makes, Opposite
<1>3. E \in Seq(Byte) /\ Len(E) = N
  <2>1. Counts(D, N, E)
    BY <1>0, <1>1, CountedBytes
  <2> QED
    BY <2>1 DEF Counts
<1>4. BlocksBack(enc, dec, b, f, E, size, n)
  BY BlocksBackIs
<1>5. ASSUME NEW i \in 0 .. n - 1
      PROVE  /\ BackAt(dec, f, E, size, i) \in [run : R, words : [1 .. size -> Word32]]
             /\ i < n - 1 => BackAt(dec, f, E, size, i).run = f[i + 1]
             /\ \A k \in 1 .. size, j \in 0 .. 3 : 4 * (i * size + (k - 1)) + j < N =>
                   ByteAt(BackAt(dec, f, E, size, i).words[k], j) = ByteOf(b, 4 * (i * size + (k - 1)) + j)
  BY <1>4, Zenon DEF BlocksBack
<1>6. \A i \in 0 .. n - 1 : out[i] = BackAt(dec, f, E, size, i).words /\ out[i] \in [1 .. size -> Word32]
  <2> TAKE i \in 0 .. n - 1
  <2>1. out[i] = BackAt(dec, f, E, size, i).words
    BY Zenon
  <2> HIDE DEF out
  <2>2. BackAt(dec, f, E, size, i).words \in [1 .. size -> Word32]
    <3>1. BackAt(dec, f, E, size, i) \in [run : R, words : [1 .. size -> Word32]]
      BY <1>5, Zenon
    <3> QED
      BY <3>1
  <2> QED
    BY <2>1, <2>2
<1> HIDE DEF out
<1>7. /\ P2 \in [1 .. n * size -> Word32]
      /\ \A i \in 0 .. n - 1 : Block(P2, i * size, size) = out[i]
  <2>1. /\ Listing(size, n, out) \in [1 .. n * size -> Word32]
        /\ \A i \in 0 .. n - 1 : Block(Listing(size, n, out), i * size, size) = out[i]
    <3>1. \A i \in 0 .. n - 1 : out[i] \in [1 .. size -> Word32]
      BY <1>6, Zenon
    <3> QED
      BY <1>1, <3>1, ListingIs, Zenon
  <2> QED
    BY <2>1, Zenon
<1> HIDE DEF P2
<1>8. /\ \A i \in 0 .. n - 1 : g[i] = f[i] /\ g[i + 1] = BackAt(dec, f, E, size, i).run
      /\ g[0] = f[0]
      /\ \A i \in 0 .. n : g[i] \in R
  <2>1. \A i \in 0 .. n : g[i] = IF i = n /\ n > 0 THEN BackAt(dec, f, E, size, n - 1).run ELSE f[i]
    BY DEF RunsBack
  <2> HIDE DEF g
  <2>2. ASSUME NEW i \in 0 .. n - 1 PROVE g[i] = f[i] /\ g[i + 1] = BackAt(dec, f, E, size, i).run
    <3>1. i \in 0 .. n /\ i # n /\ i + 1 \in 0 .. n /\ n > 0
      BY <1>1
    <3>2. CASE i = n - 1
      <4>1. i + 1 = n
        BY <1>1, <3>2
      <4> QED
        BY <2>1, <3>1, <3>2, <4>1
    <3>3. CASE i < n - 1
      <4>1. i + 1 # n
        BY <1>1, <3>3
      <4> QED
        BY <1>5, <2>1, <3>1, <3>3, <4>1
    <3> QED
      BY <1>1, <3>2, <3>3
  <2>3. g[0] = f[0]
    <3>1. 0 \in 0 .. n /\ ~ (0 = n /\ n > 0)
      BY <1>1
    <3> QED
      BY <2>1, <3>1
  <2>4. ASSUME NEW i \in 0 .. n PROVE g[i] \in R
    <3>1. CASE i = n /\ n > 0
      <4>1. n - 1 \in 0 .. n - 1
        BY <1>1, <3>1
      <4>2. BackAt(dec, f, E, size, n - 1).run \in R
        BY <1>5, <4>1
      <4> QED
        BY <2>1, <3>1, <4>2
    <3>2. CASE ~ (i = n /\ n > 0)
      BY <1>1, <1>2, <2>1, <3>2
    <3> QED
      BY <3>1, <3>2
  <2> QED
    BY <2>2, <2>3, <2>4
<1> HIDE DEF g
<1>9. Makes(dec, E, g, P2)
  <2>1. size = CipherBlockSize(dec.cipher) /\ n = BlocksFor(CipherBlockSize(dec.cipher), Len(E))
    BY <1>0, <1>2, <1>3
  <2>2. ASSUME NEW i \in 0 .. n - 1
        PROVE  CipherBlock(dec, g[i], Block(V, i * size, size)) = [run |-> g[i + 1], words |-> Block(P2, i * size, size)]
    <3> DEFINE r == BackAt(dec, f, E, size, i)
    <3>1. CipherBlock(dec, g[i], Block(V, i * size, size)) = r
      BY <1>8, Zenon DEF BackAt
    <3>2. r.run = g[i + 1] /\ r.words = Block(P2, i * size, size)
      BY <1>6, <1>7, <1>8, Zenon
    <3>3. r \in [run : R, words : [1 .. size -> Word32]]
      BY <1>5, Zenon
    <3> HIDE DEF r
    <3>4. r = [run |-> r.run, words |-> r.words]
      BY <3>3
    <3> QED
      BY <3>1, <3>2, <3>4, Zenon
  <2>3. Turns(dec, V, n, g, P2)
    BY <1>7, <1>8, <2>1, <2>2, Zenon DEF Turns
  <2> QED
    BY <1>2, <1>3, <2>1, <2>3, Zenon DEF Makes
<1>10. Bytes(WordArray(P2, N)) = b
  <2> DEFINE e == Bytes(WordArray(P2, N))
  <2>1. P2 \in Chain /\ Len(P2) = n * size
    BY <1>1, <1>7, Listed DEF Chain
  <2>2. Counts(P2, N, e)
    BY <1>1, <2>1, CountedBytes
  <2>3. /\ e \in Seq(Byte) /\ Len(e) = N
        /\ \A k \in Nat, j \in 0 .. 3 : 4 * k + j < N => ByteOf(e, 4 * k + j) = ByteAt(At(P2, k), j)
    BY <2>2, Zenon DEF Counts
  <2> HIDE DEF e
  <2>4. ASSUME NEW x \in 1 .. N PROVE e[x] = b[x]
    <3> DEFINE q == (x - 1) \div 4
               j == (x - 1) % 4
    <3>1. q \in Nat /\ j \in 0 .. 3 /\ x - 1 = 4 * q + j /\ q < n * size
      BY <1>1
    <3> HIDE DEF q, j
    <3>2. PICK i \in 0 .. n - 1, k \in 1 .. size : q = i * size + (k - 1)
      BY <1>1, <3>1, WordsPlace
    <3>3. ByteOf(e, 4 * q + j) = e[x] /\ ByteOf(b, 4 * q + j) = b[x]
      BY <1>1, <2>3, <3>1 DEF ByteOf, N
    <3>4. At(P2, q) = out[i][k]
      <4>1. size \in Nat /\ i * size \in Nat
        BY <1>1, CipherPlaces
      <4>2. Block(P2, i * size, size)[k] = At(P2, i * size + (k - 1))
        BY <2>1, <4>1, BlockAt
      <4> QED
        BY <1>7, <3>2, <4>2, Zenon
    <3>5. 4 * q + j < N
      BY <3>1
    <3>6. ByteAt(BackAt(dec, f, E, size, i).words[k], j) = ByteOf(b, 4 * q + j)
      BY <1>5, <3>1, <3>2, <3>5, Zenon
    <3> QED
      BY <1>6, <2>3, <3>1, <3>3, <3>4, <3>5, <3>6, Zenon
  <2>5. e = b
    BY <1>1, <1>2, <2>3, <2>4, SameSeq DEF N
  <2> QED
    BY <2>5 DEF e
<1> QED
  BY <1>8, <1>9, <1>10, Zenon DEF N

\* A byte that is not full counts on without a carry out of it.
LEMMA NextByteTyped == \A b \in Byte : b # 0 .. 7 => Add(b, {0}) \in Byte
<1> DEFINE Good == {k \in 0 .. 7 : \A b \in Byte : (\E i \in 7 - k .. 7 : i \notin b) => Carried[b][{7 - k}] \in Byte}
<1>0. \A b \in Byte, j \in 0 .. 7 : b \in Word32 /\ {j} \in Word32
  BY DEF Byte, Word32, Places
<1>a. \A j \in 0 .. 6 : Shl({j}, 1) = {j + 1}
  <2> TAKE j \in 0 .. 6
  <2>1. {j} \cap (0 .. (31 - 1)) = {j}
    <3>1. j \in 0 .. (31 - 1)
      OBVIOUS
    <3> QED
      BY <3>1, Zenon
  <2>2. Shl({j}, 1) = {i + 1 : i \in {j}}
    BY <2>1, Zenon DEF Shl
  <2>3. {i + 1 : i \in {j}} = {j + 1}
    OBVIOUS
  <2> QED
    BY <2>2, <2>3, Zenon
<1>b. \A b \in Byte, j \in 0 .. 7 : j \notin b => Carried[b][{j}] = b \cup {j}
  <2> SUFFICES ASSUME NEW b \in Byte, NEW j \in 0 .. 7, j \notin b PROVE Carried[b][{j}] = b \cup {j}
    OBVIOUS
  <2>1. b \in Word32 /\ {j} \in Word32
    BY <1>0
  <2>2. Carried[b][{j}] = Carried[Xor(b, {j})][Shl(b \cap {j}, 1)]
    BY <2>1, CarriedIs
  <2>3. Xor(b, {j}) = b \cup {j} /\ b \cap {j} = {} /\ Shl({}, 1) = {}
    BY DEF Xor, Shl
  <2>4. b \cup {j} \in Word32 /\ {} \in Word32
    BY <2>1 DEF Word32
  <2> QED
    BY <2>2, <2>3, <2>4, CarriedIs
<1>2. 0 \in Good
  <2>1. ASSUME NEW b \in Byte, NEW i \in 7 - 0 .. 7, i \notin b PROVE Carried[b][{7 - 0}] \in Byte
    <3>1. i = 7 /\ 7 - 0 = 7
      OBVIOUS
    <3>2. Carried[b][{7}] = b \cup {7}
      BY <1>b, <2>1, <3>1
    <3>3. b \cup {7} \in Byte
      BY DEF Byte
    <3> QED
      BY <3>1, <3>2, <3>3
  <2> QED
    BY <2>1
<1>3. ASSUME NEW k \in 0 .. 6, k \in Good PROVE k + 1 \in Good
  <2> DEFINE j == 7 - (k + 1)
  <2>1. ASSUME NEW b \in Byte, NEW i \in j .. 7, i \notin b PROVE Carried[b][{j}] \in Byte
    <3>0. j \in 0 .. 6
      OBVIOUS
    <3>z. 7 - k = j + 1
      OBVIOUS
    <3> HIDE DEF j
    <3>1. CASE j \notin b
      <4>1. b \cup {j} \in Byte
        BY <3>0 DEF Byte
      <4>2. Carried[b][{j}] = b \cup {j}
        <5>1. j \in 0 .. 7
          BY <3>0
        <5> QED
          BY <1>b, <3>1, <5>1, Zenon
      <4> QED
        BY <4>1, <4>2
    <3>2. CASE j \in b
      <4>0. b \in Word32 /\ {j} \in Word32 /\ {j} # {}
        BY <1>0, <3>0
      <4>1. Carried[b][{j}] = Carried[Xor(b, {j})][Shl(b \cap {j}, 1)]
        BY <4>0, CarriedIs
      <4>2. Xor(b, {j}) = b \ {j} /\ b \cap {j} = {j} /\ Shl({j}, 1) = {7 - k}
        <5>1. Xor(b, {j}) = b \ {j} /\ b \cap {j} = {j}
          BY <3>2 DEF Xor
        <5>2. Shl({j}, 1) = {j + 1}
          BY <1>a, <3>0
        <5> QED
          BY <3>z, <5>1, <5>2
      <4>3. b \ {j} \in Byte /\ i \in 7 - k .. 7 /\ i \notin b \ {j}
        <5>1. b \ {j} \in Byte
          BY DEF Byte
        <5>2. i # j
          BY <2>1, <3>2
        <5> QED
          BY <2>1, <3>0, <3>z, <5>1, <5>2
      <4>4. Carried[b \ {j}][{7 - k}] \in Byte
        BY <1>3, <4>3
      <4> QED
        BY <4>1, <4>2, <4>4
    <3> QED
      BY <3>1, <3>2
  <2>2. k + 1 \in 0 .. 7
    OBVIOUS
  <2> QED
    BY <2>1, <2>2
<1> HIDE DEF Good
<1>4. 0 .. 7 \subseteq Good
  BY <1>2, <1>3, RangeInduction
<1>5. 7 \in Good
  BY <1>4
<1>6. ASSUME NEW b \in Byte, b # 0 .. 7 PROVE Carried[b][{0}] \in Byte
  <2>1. \E i \in 0 .. 7 : i \notin b
    BY <1>6 DEF Byte
  <2> QED
    BY <1>5, <2>1 DEF Good
<1> QED
  BY <1>6 DEF Add

-----------------------------------------------------------------------------
(* The modes of a block cipher *)

\* The block cipher c turns blocks into blocks, and decrypts what it encrypts.
Blocks(cipher) == [1 .. BlockWords(cipher) -> Word32]
Inverts(c) ==
    \A M \in Blocks(c.cipher) :
       /\ EncryptBlock(c, M) \in Blocks(c.cipher) /\ DecryptBlock(c, M) \in Blocks(c.cipher)
       /\ DecryptBlock(c, EncryptBlock(c, M)) = M

LEMMA BlocksAreChains ==
    ASSUME NEW cipher \in BlockCipherNames
    PROVE  /\ BlockWords(cipher) \in {2, 4} /\ BlockWords(cipher) \in Nat /\ CipherBlockSize(cipher) = BlockWords(cipher)
           /\ \A M \in Blocks(cipher) : M \in Chain /\ Len(M) = BlockWords(cipher) /\ DOMAIN M = 1 .. BlockWords(cipher)
           /\ \A M \in Blocks(cipher), K \in Chain : XorWords(M, K) \in Blocks(cipher) /\ XorWords(XorWords(M, K), K) = M
           /\ None \in Chain
<1>1. BlockWords(cipher) \in {2, 4} /\ BlockWords(cipher) \in Nat /\ CipherBlockSize(cipher) = BlockWords(cipher)
  BY CipherSizes
<1>2. \A M \in Blocks(cipher) : M \in Chain /\ Len(M) = BlockWords(cipher) /\ DOMAIN M = 1 .. BlockWords(cipher)
  <2> DEFINE n == BlockWords(cipher)
  <2>1. n \in Nat
    BY <1>1
  <2> HIDE DEF n
  <2>2. \A M \in [1 .. n -> Word32] : M \in Seq(Word32) /\ Len(M) = n /\ DOMAIN M = 1 .. n
    BY <2>1, Listed
  <2> QED
    BY <2>2, Zenon DEF n, Blocks, Chain
<1>3. \A M \in Blocks(cipher), K \in Chain : XorWords(M, K) \in Blocks(cipher) /\ XorWords(XorWords(M, K), K) = M
  BY <1>1, XorWordsIs DEF Blocks
<1>4. None \in Chain
  BY DEF None, Chain
<1> QED
  BY <1>1, <1>2, <1>3, <1>4

\* The counters of CTR and of Gladman's CTR stay words.
LEMMA IncBytesTyped ==
    ASSUME NEW b \in [1 .. 4 -> Byte]
    PROVE  IncBytes(b) \in Word32
<1> DEFINE full == 0 .. 7
           inc(j) == Add(b[j], {0})
<1>1. \A j \in 1 .. 4 : b[j] \in Byte /\ (b[j] # full => inc(j) \in Byte)
  BY NextByteTyped
<1>2. {} \in Byte /\ \A y \in Byte : y \in Word32
  BY DEF Byte, Word32, Places
<1> HIDE DEF inc, full
<1>3. ASSUME NEW x0 \in Byte, NEW x1 \in Byte, NEW x2 \in Byte, NEW x3 \in Byte
      PROVE  WordOf(<<x0, x1, x2, x3>>) \in Word32
  <2>1. <<x0, x1, x2, x3>> \in Seq(Byte) /\ Len(<<x0, x1, x2, x3>>) <= 4
    OBVIOUS
  <2> QED
    BY <2>1, BytesOfWord
<1>4. \A y \in Byte : [b EXCEPT ![1] = y] = <<y, b[2], b[3], b[4]>>
  OBVIOUS
<1>5. IncBytes(b) =
        CASE b[1] # full -> WordOf([b EXCEPT ![1] = inc(1)])
          [] b[1] = full /\ b[2] # full -> WordOf(<<{}, inc(2), b[3], b[4]>>)
          [] b[1] = full /\ b[2] = full /\ b[3] # full -> WordOf(<<{}, {}, inc(3), b[4]>>)
          [] b[1] = full /\ b[2] = full /\ b[3] = full -> IF b[4] = full THEN {} ELSE inc(4)
  BY Zenon DEF IncBytes, full, inc
<1>6. CASE b[1] # full
  <2>1. WordOf([b EXCEPT ![1] = inc(1)]) \in Word32
    <3>1. inc(1) \in Byte /\ b[2] \in Byte /\ b[3] \in Byte /\ b[4] \in Byte
      BY <1>1, <1>6
    <3>2. WordOf(<<inc(1), b[2], b[3], b[4]>>) \in Word32
      BY <1>3, <3>1
    <3> QED
      BY <1>4, <3>1, <3>2, Zenon
  <2> DEFINE w == WordOf([b EXCEPT ![1] = inc(1)])
  <2>2. IncBytes(b) = w
    <3> DEFINE y2 == WordOf(<<{}, inc(2), b[3], b[4]>>)
               y3 == WordOf(<<{}, {}, inc(3), b[4]>>)
               y4 == IF b[4] = full THEN {} ELSE inc(4)
    <3> HIDE DEF w, y2, y3, y4
    <3>1. IncBytes(b) =
            CASE b[1] # full -> w
              [] b[1] = full /\ b[2] # full -> y2
              [] b[1] = full /\ b[2] = full /\ b[3] # full -> y3
              [] b[1] = full /\ b[2] = full /\ b[3] = full -> y4
      BY <1>5, Zenon DEF w, y2, y3, y4
    <3> QED
      BY <1>6, <3>1
  <2> QED
    BY <2>1, <2>2
<1>7. CASE b[1] = full
  <2> DEFINE w == WordOf([b EXCEPT ![1] = inc(1)])
             y2 == WordOf(<<{}, inc(2), b[3], b[4]>>)
             y3 == WordOf(<<{}, {}, inc(3), b[4]>>)
             y4 == IF b[4] = full THEN {} ELSE inc(4)
  <2>1. b[2] # full => y2 \in Word32
    BY <1>1, <1>2, <1>3
  <2>2. b[3] # full => y3 \in Word32
    BY <1>1, <1>2, <1>3
  <2>3. y4 \in Word32
    BY <1>1, <1>2
  <2> HIDE DEF w, y2, y3, y4
  <2>4. IncBytes(b) =
          CASE b[1] # full -> w
            [] b[1] = full /\ b[2] # full -> y2
            [] b[1] = full /\ b[2] = full /\ b[3] # full -> y3
            [] b[1] = full /\ b[2] = full /\ b[3] = full -> y4
    BY <1>5, Zenon DEF w, y2, y3, y4
  <2> QED
    BY <1>7, <2>1, <2>2, <2>3, <2>4
<1> QED
  BY <1>6, <1>7

LEMMA IncWordTyped == \A x \in Word32 : IncWord(x) \in Word32
<1> SUFFICES ASSUME NEW x \in Word32 PROVE IncWord(x) \in Word32
  OBVIOUS
<1> DEFINE b == [j \in 1 .. 4 |-> ByteAt(x, j - 1)]
<1>1. b \in [1 .. 4 -> Byte]
  BY BytesOfAnyWord
<1> HIDE DEF b
<1>2. IncBytes(b) \in Word32
  BY <1>1, IncBytesTyped
<1> QED
  BY <1>2, Zenon DEF IncWord, b

LEMMA CountersTyped ==
    ASSUME NEW cipher \in BlockCipherNames, NEW counter \in Blocks(cipher)
    PROVE  NextCounter(counter) \in Blocks(cipher) /\ IncCounter(counter) \in Blocks(cipher)
<1> DEFINE n == BlockWords(cipher)
<1>1. n \in {2, 4} /\ n \in Nat /\ Len(counter) = n
  BY BlocksAreChains
<1>2. counter \in [1 .. n -> Word32]
  BY DEF Blocks
<1> HIDE DEF n
<1>3. n \in 1 .. n /\ 1 \in 1 .. n /\ 2 \in 1 .. n
  BY <1>1
<1>4. {0} \in Word32
  BY DEF Word32, Places
<1>5. NextCounter(counter) \in [1 .. n -> Word32]
  <2>1. Add(counter[n], {0}) \in Word32
    BY <1>2, <1>3, <1>4, SumsTyped
  <2> DEFINE y == Add(counter[n], {0})
  <2>2. NextCounter(counter) = [counter EXCEPT ![n] = y]
    BY <1>1, Zenon DEF NextCounter
  <2> HIDE DEF y
  <2>3. [counter EXCEPT ![n] = y] \in [1 .. n -> Word32]
    BY <1>2, <1>3, <2>1 DEF y
  <2> QED
    BY <2>2, <2>3
<1>6. IncCounter(counter) \in [1 .. n -> Word32]
  <2> DEFINE first == IncWord(counter[1])
             second == IF first = {} THEN IncWord(counter[2]) ELSE counter[2]
  <2>1. first \in Word32 /\ second \in Word32
    <3>1. counter[1] \in Word32 /\ counter[2] \in Word32
      BY <1>2, <1>3
    <3> QED
      BY <3>1, IncWordTyped
  <2> HIDE DEF first
  <2>2. CarriedOn(counter, first) = [counter EXCEPT ![1] = first, ![2] = second]
    BY <1>2, <1>3 DEF CarriedOn
  <2>3. IncCounter(counter) = CarriedOn(counter, first)
    BY Zenon DEF IncCounter, first
  <2> HIDE DEF second
  <2>4. [counter EXCEPT ![1] = first, ![2] = second] \in [1 .. n -> Word32]
    BY <1>2, <1>3, <2>1
  <2> QED
    BY <2>2, <2>3, <2>4
<1> QED
  BY <1>5, <1>6 DEF n, Blocks

\* What a mode leaves for the next block.
LEMMA AfterIs ==
    ASSUME NEW cipher \in BlockCipherNames, NEW mode, NEW kept \in Blocks(cipher), NEW words \in Blocks(cipher)
    PROVE  After(kept, words) \in [run : ProperRuns(cipher, mode), words : Blocks(cipher)]
<1> DEFINE m == [iv |-> None, kept |-> kept]
<1>1. kept \in Chain /\ None \in Chain
  BY BlocksAreChains
<1>2. m \in [iv : Chain, kept : Chain]
  BY <1>1
<1>3. Chained(m) = kept
  BY DEF Chained
<1>4. m \in ProperRuns(cipher, mode)
  <2> HIDE DEF m
  <2> QED
    BY <1>2, <1>3 DEF ProperRuns, Blocks
<1>5. After(kept, words) = [run |-> m, words |-> words]
  BY Zenon DEF After
<1> HIDE DEF m
<1> QED
  BY <1>4, <1>5

\* The mode that each name selects.
LEMMA ModeNamed ==
    ASSUME NEW c, NEW m, NEW x
    PROVE  /\ ProcessBlock("CBC", TRUE, c, m, x) = CbcEncrypt(c, m, x)
           /\ ProcessBlock("CFB", TRUE, c, m, x) = CfbEncrypt(c, m, x)
           /\ ProcessBlock("OFB", TRUE, c, m, x) = OfbProcess(c, m, x)
           /\ ProcessBlock("CTR", TRUE, c, m, x) = CtrProcess(c, m, x)
           /\ ProcessBlock("CTRGladman", TRUE, c, m, x) = GladmanProcess(c, m, x)
           /\ ProcessBlock("ECB", TRUE, c, m, x) = EcbProcess(c, TRUE, m, x)
           /\ ProcessBlock("CBC", FALSE, c, m, x) = CbcDecrypt(c, m, x)
           /\ ProcessBlock("CFB", FALSE, c, m, x) = CfbDecrypt(c, m, x)
           /\ ProcessBlock("OFB", FALSE, c, m, x) = OfbProcess(c, m, x)
           /\ ProcessBlock("CTR", FALSE, c, m, x) = CtrProcess(c, m, x)
           /\ ProcessBlock("CTRGladman", FALSE, c, m, x) = GladmanProcess(c, m, x)
           /\ ProcessBlock("ECB", FALSE, c, m, x) = EcbProcess(c, FALSE, m, x)
<1>1. /\ ProcessBlock("CBC", TRUE, c, m, x) = CbcEncrypt(c, m, x)
      /\ ProcessBlock("CFB", TRUE, c, m, x) = CfbEncrypt(c, m, x)
      /\ ProcessBlock("OFB", TRUE, c, m, x) = OfbProcess(c, m, x)
      /\ ProcessBlock("CTR", TRUE, c, m, x) = CtrProcess(c, m, x)
      /\ ProcessBlock("CTRGladman", TRUE, c, m, x) = GladmanProcess(c, m, x)
      /\ ProcessBlock("ECB", TRUE, c, m, x) = EcbProcess(c, TRUE, m, x)
  <2> DEFINE y1 == CbcEncrypt(c, m, x)
             y2 == CfbEncrypt(c, m, x)
             y3 == OfbProcess(c, m, x)
             y4 == CtrProcess(c, m, x)
             y5 == GladmanProcess(c, m, x)
             y6 == EcbProcess(c, TRUE, m, x)
  <2>1. \A mode : ProcessBlock(mode, TRUE, c, m, x) =
           CASE mode = "CBC" -> y1
             [] mode = "CFB" -> y2
             [] mode = "OFB" -> y3
             [] mode = "CTR" -> y4
             [] mode = "CTRGladman" -> y5
             [] mode = "ECB" -> y6
    BY Zenon DEF ProcessBlock
  <2> HIDE DEF y1, y2, y3, y4, y5, y6
  <2>2. /\ ProcessBlock("CBC", TRUE, c, m, x) = y1
        /\ ProcessBlock("CFB", TRUE, c, m, x) = y2
        /\ ProcessBlock("OFB", TRUE, c, m, x) = y3
        /\ ProcessBlock("CTR", TRUE, c, m, x) = y4
        /\ ProcessBlock("CTRGladman", TRUE, c, m, x) = y5
        /\ ProcessBlock("ECB", TRUE, c, m, x) = y6
    BY <2>1
  <2> QED
    BY <2>2 DEF y1, y2, y3, y4, y5, y6
<1>2. /\ ProcessBlock("CBC", FALSE, c, m, x) = CbcDecrypt(c, m, x)
      /\ ProcessBlock("CFB", FALSE, c, m, x) = CfbDecrypt(c, m, x)
      /\ ProcessBlock("OFB", FALSE, c, m, x) = OfbProcess(c, m, x)
      /\ ProcessBlock("CTR", FALSE, c, m, x) = CtrProcess(c, m, x)
      /\ ProcessBlock("CTRGladman", FALSE, c, m, x) = GladmanProcess(c, m, x)
      /\ ProcessBlock("ECB", FALSE, c, m, x) = EcbProcess(c, FALSE, m, x)
  <2> DEFINE y1 == CbcDecrypt(c, m, x)
             y2 == CfbDecrypt(c, m, x)
             y3 == OfbProcess(c, m, x)
             y4 == CtrProcess(c, m, x)
             y5 == GladmanProcess(c, m, x)
             y6 == EcbProcess(c, FALSE, m, x)
  <2>1. \A mode : ProcessBlock(mode, FALSE, c, m, x) =
           CASE mode = "CBC" -> y1
             [] mode = "CFB" -> y2
             [] mode = "OFB" -> y3
             [] mode = "CTR" -> y4
             [] mode = "CTRGladman" -> y5
             [] mode = "ECB" -> y6
    BY Zenon DEF ProcessBlock
  <2> HIDE DEF y1, y2, y3, y4, y5, y6
  <2>2. /\ ProcessBlock("CBC", FALSE, c, m, x) = y1
        /\ ProcessBlock("CFB", FALSE, c, m, x) = y2
        /\ ProcessBlock("OFB", FALSE, c, m, x) = y3
        /\ ProcessBlock("CTR", FALSE, c, m, x) = y4
        /\ ProcessBlock("CTRGladman", FALSE, c, m, x) = y5
        /\ ProcessBlock("ECB", FALSE, c, m, x) = y6
    BY <2>1
  <2> QED
    BY <2>2 DEF y1, y2, y3, y4, y5, y6
<1> QED
  BY <1>1, <1>2

\* Each mode: a block of it is proper, and decrypting undoes encrypting.
LEMMA ModesInvert ==
    ASSUME NEW c, c.cipher \in BlockCipherNames, Inverts(c), NEW mode \in ModeNames,
           NEW m \in ProperRuns(c.cipher, mode), NEW M \in Blocks(c.cipher)
    PROVE  LET back == ProcessBlock(mode, FALSE, c, m, M)
               r == ProcessBlock(mode, TRUE, c, m, M)
           IN  /\ r \in [run : ProperRuns(c.cipher, mode), words : Blocks(c.cipher)]
               /\ back \in [run : ProperRuns(c.cipher, mode), words : Blocks(c.cipher)]
               /\ ProcessBlock(mode, FALSE, c, m, r.words) = [run |-> r.run, words |-> M]
<1> DEFINE B == Blocks(c.cipher)
           R == ProperRuns(c.cipher, mode)
           K == Chained(m)
           e(x) == EncryptBlock(c, x)
           d(x) == DecryptBlock(c, x)
           enc(x) == ProcessBlock(mode, TRUE, c, m, x)
           dec(x) == ProcessBlock(mode, FALSE, c, m, x)
<1>1. /\ \A x \in B, k \in B : XorWords(x, k) \in B /\ XorWords(XorWords(x, k), k) = x
      /\ \A x \in B : e(x) \in B /\ d(x) \in B /\ d(e(x)) = x
  BY BlocksAreChains DEF Inverts
<1>2. \A x \in B, y \in B : After(x, y) \in [run : R, words : B]
  BY AfterIs
<1>3. \A x, y : After(x, y) = [run |-> [iv |-> None, kept |-> x], words |-> y]
  BY Zenon DEF After
<1>4. mode # "ECB" => K \in B
  BY DEF ProperRuns, Blocks
<1>5. mode # "ECB" => NextCounter(K) \in B /\ IncCounter(K) \in B
  BY <1>4, CountersTyped
<1>m. M \in B /\ m \in R
  OBVIOUS
<1> SUFFICES /\ enc(M) \in [run : R, words : B]
             /\ dec(M) \in [run : R, words : B]
             /\ dec(enc(M).words) = [run |-> enc(M).run, words |-> M]
  BY Zenon
<1> HIDE DEF B, R, K, e, d
<1>z. ASSUME NEW k \in B, NEW out \in B, NEW j \in B, NEW y \in B,
             enc(M) = After(k, out), dec(M) = After(j, y), dec(out) = After(k, M)
      PROVE  /\ enc(M) \in [run : R, words : B]
             /\ dec(M) \in [run : R, words : B]
             /\ dec(enc(M).words) = [run |-> enc(M).run, words |-> M]
  <2> HIDE DEF enc, dec
  <2>1. enc(M).words = out /\ enc(M).run = [iv |-> None, kept |-> k]
    BY <1>3, <1>z
  <2> QED
    BY <1>2, <1>3, <1>z, <2>1
<1>6. CASE mode = "CBC"
  <2>0. \A x : enc(x) = CbcEncrypt(c, m, x) /\ dec(x) = CbcDecrypt(c, m, x)
    BY <1>6, ModeNamed
  <2>1. \A x : enc(x) = After(e(XorWords(x, K)), e(XorWords(x, K))) /\ dec(x) = After(x, XorWords(d(x), K))
    BY <2>0, Zenon DEF CbcEncrypt, CbcDecrypt, d, e, K
  <2> HIDE DEF enc, dec
  <2> DEFINE out == e(XorWords(M, K))
  <2>2. K \in B /\ out \in B /\ XorWords(d(M), K) \in B /\ d(out) = XorWords(M, K) /\ XorWords(XorWords(M, K), K) = M
    BY <1>1, <1>4, <1>6, <1>m
  <2>3. enc(M) = After(out, out)
    BY <2>1, Zenon
  <2> HIDE DEF out
  <2>4. dec(out) = After(out, M) /\ dec(M) = After(M, XorWords(d(M), K))
    BY <2>1, <2>2
  <2> QED
    BY <1>m, <1>z, <2>2, <2>3, <2>4
<1>7. CASE mode = "CFB"
  <2>0. \A x : enc(x) = CfbEncrypt(c, m, x) /\ dec(x) = CfbDecrypt(c, m, x)
    BY <1>7, ModeNamed
  <2>1. \A x : enc(x) = After(XorWords(x, e(K)), XorWords(x, e(K))) /\ dec(x) = After(x, XorWords(x, e(K)))
    BY <2>0, Zenon DEF CfbEncrypt, CfbDecrypt, Keystream, e, K
  <2> HIDE DEF enc, dec
  <2> DEFINE out == XorWords(M, e(K))
  <2>2. K \in B /\ out \in B /\ XorWords(out, e(K)) = M
    BY <1>1, <1>4, <1>7, <1>m
  <2>3. enc(M) = After(out, out) /\ dec(M) = After(M, out)
    BY <2>1, Zenon
  <2> HIDE DEF out
  <2>4. dec(out) = After(out, M)
    BY <2>1, <2>2
  <2> QED
    BY <1>m, <1>z, <2>2, <2>3, <2>4
<1>8. CASE mode = "OFB"
  <2>0. \A x : enc(x) = OfbProcess(c, m, x) /\ dec(x) = OfbProcess(c, m, x)
    BY <1>8, ModeNamed
  <2>1. \A x : enc(x) = After(e(K), XorWords(x, e(K))) /\ dec(x) = After(e(K), XorWords(x, e(K)))
    BY <2>0, Zenon DEF OfbProcess, Keystream, e, K
  <2> HIDE DEF enc, dec
  <2> DEFINE out == XorWords(M, e(K))
  <2>2. e(K) \in B /\ out \in B /\ XorWords(out, e(K)) = M
    BY <1>1, <1>4, <1>5, <1>8, <1>m
  <2>3. enc(M) = After(e(K), out) /\ dec(M) = After(e(K), out)
    BY <2>1, Zenon
  <2> HIDE DEF out
  <2>4. dec(out) = After(e(K), M)
    BY <2>1, <2>2
  <2> QED
    BY <1>z, <2>2, <2>3, <2>4
<1>9. CASE mode = "CTR"
  <2>0. \A x : enc(x) = CtrProcess(c, m, x) /\ dec(x) = CtrProcess(c, m, x)
    BY <1>9, ModeNamed
  <2>1. \A x : enc(x) = After(NextCounter(K), XorWords(x, e(K))) /\ dec(x) = After(NextCounter(K), XorWords(x, e(K)))
    BY <2>0, Zenon DEF CtrProcess, Keystream, e, K
  <2> HIDE DEF enc, dec
  <2> DEFINE out == XorWords(M, e(K))
  <2>2. NextCounter(K) \in B /\ out \in B /\ XorWords(out, e(K)) = M
    BY <1>1, <1>4, <1>5, <1>9, <1>m
  <2>3. enc(M) = After(NextCounter(K), out) /\ dec(M) = After(NextCounter(K), out)
    BY <2>1, Zenon
  <2> HIDE DEF out
  <2>4. dec(out) = After(NextCounter(K), M)
    BY <2>1, <2>2
  <2> QED
    BY <1>z, <2>2, <2>3, <2>4
<1>10. CASE mode = "CTRGladman"
  <2>0. \A x : enc(x) = GladmanProcess(c, m, x) /\ dec(x) = GladmanProcess(c, m, x)
    BY <1>10, ModeNamed
  <2>1. \A x : enc(x) = After(IncCounter(K), XorWords(x, e(IncCounter(K)))) /\ dec(x) = After(IncCounter(K), XorWords(x, e(IncCounter(K))))
    BY <2>0, Zenon DEF GladmanProcess, e, K
  <2> HIDE DEF enc, dec
  <2> DEFINE out == XorWords(M, e(IncCounter(K)))
  <2>2. IncCounter(K) \in B /\ out \in B /\ XorWords(out, e(IncCounter(K))) = M
    BY <1>1, <1>4, <1>5, <1>10, <1>m
  <2>3. enc(M) = After(IncCounter(K), out) /\ dec(M) = After(IncCounter(K), out)
    BY <2>1, Zenon
  <2> HIDE DEF out
  <2>4. dec(out) = After(IncCounter(K), M)
    BY <2>1, <2>2
  <2> QED
    BY <1>z, <2>2, <2>3, <2>4
<1>11. CASE mode = "ECB"
  <2>0. \A x : enc(x) = EcbProcess(c, TRUE, m, x) /\ dec(x) = EcbProcess(c, FALSE, m, x)
    BY <1>11, ModeNamed
  <2>1. \A x : enc(x) = [run |-> m, words |-> e(x)] /\ dec(x) = [run |-> m, words |-> d(x)]
    BY <2>0 DEF EcbProcess, d, e
  <2> HIDE DEF enc, dec
  <2>2. e(M) \in B /\ d(M) \in B /\ d(e(M)) = M
    BY <1>1, <1>m
  <2>3. enc(M).words = e(M) /\ enc(M).run = m
    BY <2>1
  <2> QED
    BY <1>m, <2>1, <2>2, <2>3
<1> QED
  BY <1>6, <1>7, <1>8, <1>9, <1>10, <1>11 DEF ModeNames

\* The modes that combine each block with a keystream.
LEMMA ModesOfKeystreams ==
    ASSUME NEW c, c.cipher \in BlockCipherNames, Inverts(c), NEW mode \in ModeNames \ {"CBC", "ECB"},
           NEW m \in ProperRuns(c.cipher, mode)
    PROVE  \E K \in Chain : \A M : /\ ProcessBlock(mode, TRUE, c, m, M).words = XorWords(M, K)
                            /\ ProcessBlock(mode, FALSE, c, m, M).words = XorWords(M, K)
<1> DEFINE B == Blocks(c.cipher)
           K == Chained(m)
           e(x) == EncryptBlock(c, x)
<1>1. \A x \in B : x \in Chain /\ e(x) \in B
  BY BlocksAreChains DEF Inverts
<1>2. K \in B
  BY DEF ProperRuns, Blocks
<1>3. IncCounter(K) \in B
  BY <1>2, CountersTyped
<1>4. \A x, y : After(x, y).words = y
  BY DEF After
<1>k. e(K) \in Chain /\ e(IncCounter(K)) \in Chain
  BY <1>1, <1>2, <1>3
<1> HIDE DEF B, K, e
<1>5. CASE mode = "CFB"
  <2>1. \A M : ProcessBlock(mode, TRUE, c, m, M) = CfbEncrypt(c, m, M) /\ ProcessBlock(mode, FALSE, c, m, M) = CfbDecrypt(c, m, M)
    BY <1>5, ModeNamed
  <2>2. \A M : CfbEncrypt(c, m, M).words = XorWords(M, e(K)) /\ CfbDecrypt(c, m, M).words = XorWords(M, e(K))
    BY <1>4, Zenon DEF CfbEncrypt, CfbDecrypt, Keystream, K, e
  <2>3. \A M : ProcessBlock(mode, TRUE, c, m, M).words = XorWords(M, e(K)) /\ ProcessBlock(mode, FALSE, c, m, M).words = XorWords(M, e(K))
    BY <2>1, <2>2
  <2> QED
    BY <1>k, <2>3
<1>6. CASE mode = "OFB"
  <2>1. \A M : ProcessBlock(mode, TRUE, c, m, M) = OfbProcess(c, m, M) /\ ProcessBlock(mode, FALSE, c, m, M) = OfbProcess(c, m, M)
    BY <1>6, ModeNamed
  <2>2. \A M : OfbProcess(c, m, M).words = XorWords(M, e(K))
    BY <1>4, Zenon DEF OfbProcess, Keystream, K, e
  <2>3. \A M : ProcessBlock(mode, TRUE, c, m, M).words = XorWords(M, e(K)) /\ ProcessBlock(mode, FALSE, c, m, M).words = XorWords(M, e(K))
    BY <2>1, <2>2
  <2> QED
    BY <1>k, <2>3
<1>7. CASE mode = "CTR"
  <2>1. \A M : ProcessBlock(mode, TRUE, c, m, M) = CtrProcess(c, m, M) /\ ProcessBlock(mode, FALSE, c, m, M) = CtrProcess(c, m, M)
    BY <1>7, ModeNamed
  <2>2. \A M : CtrProcess(c, m, M).words = XorWords(M, e(K))
    BY <1>4, Zenon DEF CtrProcess, Keystream, K, e
  <2>3. \A M : ProcessBlock(mode, TRUE, c, m, M).words = XorWords(M, e(K)) /\ ProcessBlock(mode, FALSE, c, m, M).words = XorWords(M, e(K))
    BY <2>1, <2>2
  <2> QED
    BY <1>k, <2>3
<1>8. CASE mode = "CTRGladman"
  <2>1. \A M : ProcessBlock(mode, TRUE, c, m, M) = GladmanProcess(c, m, M) /\ ProcessBlock(mode, FALSE, c, m, M) = GladmanProcess(c, m, M)
    BY <1>8, ModeNamed
  <2>2. \A M : GladmanProcess(c, m, M).words = XorWords(M, e(IncCounter(K)))
    BY <1>4, Zenon DEF GladmanProcess, K, e
  <2>3. \A M : ProcessBlock(mode, TRUE, c, m, M).words = XorWords(M, e(IncCounter(K))) /\ ProcessBlock(mode, FALSE, c, m, M).words = XorWords(M, e(IncCounter(K)))
    BY <2>1, <2>2
  <2> QED
    BY <1>k, <2>3
<1> QED
  BY <1>5, <1>6, <1>7, <1>8 DEF ModeNames

-----------------------------------------------------------------------------
(* RC4 *)

LEMMA BytesPlaced ==
    /\ \A b \in Byte, j \in 0 .. 3 : AtByte(b, j) \in Word32
    /\ \A b \in Byte : b \in Word32
    /\ \A x, y \in Word32 : x \cup y \in Word32
<1>1. ASSUME NEW b \in Byte, NEW j \in 0 .. 3 PROVE AtByte(b, j) \in Word32
  BY DEF AtByte, Byte, Word32, Places
<1>2. \A b \in Byte : b \in Word32
  BY DEF Byte, Word32, Places
<1>3. \A x, y \in Word32 : x \cup y \in Word32
  BY DEF Word32
<1> QED
  BY <1>1, <1>2, <1>3

LEMMA SmallNumbers ==
    /\ \A x, y, z \in Small : /\ (x + 1) % 256 \in Small /\ (x + y) % 256 \in Small /\ (x + y + z) % 256 \in Small
                             /\ x \in 0 .. 255
    /\ 0 \in Small
<1>1. ASSUME NEW x \in Small, NEW y \in Small, NEW z \in Small
      PROVE  (x + 1) % 256 \in Small /\ (x + y) % 256 \in Small /\ (x + y + z) % 256 \in Small /\ x \in 0 .. 255
  BY DEF Small
<1>2. 0 \in Small
  BY DEF Small
<1> QED
  BY <1>1, <1>2

LEMMA SwapTyped ==
    ASSUME NEW S \in [Small -> Small], NEW i \in Small, NEW j \in Small
    PROVE  SwapEntries(S, i, j) \in [Small -> Small]
BY DEF SwapEntries

LEMMA NextByteOfRc4 ==
    ASSUME NEW r \in Rc4State
    PROVE  NextByte(r) \in Rc4State /\ OutByte(r) \in Byte
<1>1. r.S \in [Small -> Small] /\ r.i \in Small /\ r.j \in Small
  BY DEF Rc4State
<1> DEFINE i == (r.i + 1) % 256
           x == r.S[i]
           j == (r.j + x) % 256
<1>3. i \in Small
  BY <1>1, SmallNumbers
<1>4. x \in Small
  <2> HIDE DEF i
  <2> QED
    BY <1>1, <1>3
<1>5. j \in Small
  <2> HIDE DEF x
  <2> QED
    BY <1>1, <1>4, SmallNumbers
<1>6. NextByte(r) = [S |-> SwapEntries(r.S, i, j), i |-> i, j |-> j]
  BY Zenon DEF NextByte
<1> HIDE DEF i, j, x
<1>7. NextByte(r) \in Rc4State
  <2>1. SwapEntries(r.S, i, j) \in [Small -> Small]
    BY <1>1, <1>3, <1>5, SwapTyped
  <2> QED
    BY <1>3, <1>5, <1>6, <2>1 DEF Rc4State
<1>8. OutByte(r) \in Byte
  <2> DEFINE y == r.S[r.i]
             z == r.S[r.j]
             n == (y + z) % 256
  <2>1. y \in Small /\ z \in Small
    BY <1>1
  <2>2. n \in Small
    <3> HIDE DEF y, z
    <3> QED
      BY <2>1, SmallNumbers
  <2> HIDE DEF n
  <2>3. r.S[n] \in 0 .. 255
    BY <1>1, <2>2, SmallNumbers
  <2>4. BitsOf(r.S[n]) \in Byte
    BY <2>3, BitByBit
  <2> QED
    BY <2>4, Zenon DEF OutByte, n
<1> QED
  BY <1>7, <1>8

LEMMA KeystreamTyped ==
    ASSUME NEW r \in Rc4State
    PROVE  KeystreamWord(r) \in [word : Word32, rc4 : Rc4State]
<1> DEFINE S == [word : Word32, rc4 : Rc4State]
           q(w) == NextByte(w.rc4)
           step(w, n) == [word |-> w.word \cup AtByte(OutByte(q(w)), n), rc4 |-> q(w)]
           g == [n \in 0 .. 4 - 1 |-> [w \in S |-> step(w, n)]]
           first == [word |-> {}, rc4 |-> r]
<1>1. first \in S
  BY BytesOfAnyWord
<1>2. ASSUME NEW n \in 0 .. 4 - 1, NEW w \in S PROVE g[n][w] \in S
  <2>1. w.word \in Word32 /\ w.rc4 \in Rc4State
    OBVIOUS
  <2>2. q(w) \in Rc4State
    BY <2>1, NextByteOfRc4
  <2>3. OutByte(q(w)) \in Byte
    BY <2>2, NextByteOfRc4
  <2> HIDE DEF q
  <2>4. AtByte(OutByte(q(w)), n) \in Word32
    <3>1. n \in 0 .. 3
      OBVIOUS
    <3> QED
      BY <2>3, <3>1, BytesPlaced
  <2>5. w.word \cup AtByte(OutByte(q(w)), n) \in Word32
    BY <2>1, <2>4, BytesPlaced
  <2>6. step(w, n) \in S
    BY <2>2, <2>5
  <2> HIDE DEF step
  <2>7. g[n][w] = step(w, n)
    OBVIOUS
  <2> QED
    BY <2>6, <2>7
<1>3. KeystreamWord(r) = Passed(S, 4, g, first)
  BY Zenon DEF KeystreamWord, Loop
<1> HIDE DEF g, first, S
<1>4. Passed(S, 4, g, first) \in S
  BY <1>1, <1>2, PassedIs
<1> QED
  BY <1>3, <1>4 DEF S

LEMMA SetUpTyped ==
    ASSUME NEW r \in Rc4State, NEW key \in Arrays, key.sigBytes > 0, NEW i \in Small
    PROVE  SetUp(r, key, i) \in Rc4State
<1>1. r.S \in [Small -> Small] /\ r.i \in Small /\ r.j \in Small
  BY DEF Rc4State
<1>2. key.words \in Chain /\ key.sigBytes \in Nat /\ i \in Nat
  BY DEF Arrays, Small
<1> DEFINE n == i % key.sigBytes
           y == KeyByte(key, n)
           j == (r.j + r.S[i] + y) % 256
<1>3. n \in Nat
  BY <1>2
<1>4. y \in Small
  <2> HIDE DEF n
  <2>1. n \div 4 \in Int /\ n % 4 \in 0 .. 3
    BY <1>3
  <2>2. At(key.words, n \div 4) \in Word32
    BY <1>2, <2>1, AtIs
  <2>3. ByteAt(At(key.words, n \div 4), n % 4) \in Byte
    BY <2>1, <2>2, BytesOfAnyWord
  <2>4. NumberOf(ByteAt(At(key.words, n \div 4), n % 4)) \in 0 .. 255
    BY <2>3, NumberIs
  <2> QED
    BY <2>4 DEF KeyByte, Small
<1> HIDE DEF y
<1>5. j \in Small
  <2> DEFINE x == r.S[i]
  <2>1. x \in Small
    BY <1>1
  <2> HIDE DEF x
  <2>2. (r.j + x + y) % 256 \in Small
    BY <1>1, <1>4, <2>1, SmallNumbers
  <2> QED
    BY <2>2 DEF x
<1>6. SetUp(r, key, i) = [S |-> SwapEntries(r.S, i, j), i |-> i, j |-> j]
  BY Zenon DEF SetUp, y
<1> HIDE DEF j
<1>7. SwapEntries(r.S, i, j) \in [Small -> Small]
  BY <1>1, <1>5, SwapTyped
<1> QED
  BY <1>5, <1>6, <1>7 DEF Rc4State

LEMMA Rc4ResetTyped ==
    ASSUME NEW key \in Arrays, key.sigBytes > 0
    PROVE  Rc4Reset(key) \in Rc4State
<1> DEFINE inner(k) == [m \in 0 .. 16 - 1 |-> [q \in Rc4State |-> SetUp(q, key, (16 * k) + m)]]
           outer == [k \in 0 .. 16 - 1 |-> [r \in Rc4State |-> Passed(Rc4State, 16, inner(k), r)]]
           first == [S |-> [n \in Small |-> n], i |-> 0, j |-> 0]
           filled == Passed(Rc4State, 16, outer, first)
<1>1. first \in Rc4State
  BY DEF Rc4State, Small
<1>2. ASSUME NEW k \in 0 .. 16 - 1, NEW r \in Rc4State PROVE Passed(Rc4State, 16, inner(k), r) \in Rc4State
  <2>1. ASSUME NEW m \in 0 .. 16 - 1, NEW q \in Rc4State PROVE inner(k)[m][q] \in Rc4State
    <3>1. (16 * k) + m \in Small
      BY DEF Small
    <3>2. SetUp(q, key, (16 * k) + m) \in Rc4State
      BY <3>1, SetUpTyped
    <3> QED
      BY <3>2
  <2> HIDE DEF inner
  <2> QED
    BY <2>1, PassedIs
<1>3. Rc4Reset(key) = [filled EXCEPT !.i = 0, !.j = 0]
  BY Zenon DEF Rc4Reset, Loop
<1> HIDE DEF first, inner
<1>4. ASSUME NEW k \in 0 .. 16 - 1, NEW r \in Rc4State PROVE outer[k][r] \in Rc4State
  BY <1>2
<1> HIDE DEF outer
<1>5. filled \in Rc4State
  BY <1>1, <1>4, PassedIs
<1> HIDE DEF filled
<1> QED
  BY <1>3, <1>5, SmallNumbers DEF Rc4State

LEMMA Rc4DropResetTyped ==
    ASSUME NEW key \in Arrays, key.sigBytes > 0, NEW drop \in Nat
    PROVE  Rc4DropReset(key, drop) \in Rc4State
<1> DEFINE g == [n \in 0 .. drop - 1 |-> [r \in Rc4State |-> KeystreamWord(r).rc4]]
           first == Rc4Reset(key)
<1>1. first \in Rc4State
  BY Rc4ResetTyped
<1>2. ASSUME NEW n \in 0 .. drop - 1, NEW r \in Rc4State PROVE g[n][r] \in Rc4State
  <2>1. KeystreamWord(r).rc4 \in Rc4State
    BY KeystreamTyped
  <2> QED
    BY <2>1
<1>3. Rc4DropReset(key, drop) = Passed(Rc4State, drop, g, first)
  BY Zenon DEF Rc4DropReset, Loop
<1> HIDE DEF g, first
<1>4. Passed(Rc4State, drop, g, first) \in Rc4State
  BY <1>1, <1>2, PassedIs
<1> QED
  BY <1>3, <1>4

-----------------------------------------------------------------------------
(* Rabbit *)

LEMMA SwapBytesTyped == \A x \in Word32 : SwapBytes(x) \in Word32
<1> SUFFICES ASSUME NEW x \in Word32, NEW i \in x PROVE 8 * (3 - (i \div 8)) + (i % 8) \in 0 .. 31
  BY DEF SwapBytes, Word32, Places
<1>1. i \in 0 .. 31
  BY DEF Word32, Places
<1>2. i \div 8 \in 0 .. 3 /\ i % 8 \in 0 .. 7
  BY <1>1
<1> DEFINE q == i \div 8
           r == i % 8
<1> HIDE DEF q, r
<1>3. q \in 0 .. 3 /\ r \in 0 .. 7
  BY <1>2 DEF q, r
<1>4. 8 * (3 - q) + r \in 0 .. 31
  BY <1>3
<1> QED
  BY <1>4 DEF q, r

\* Eight words.
LEMMA EightWords ==
    ASSUME NEW s \in Seq(Word32), Len(s) = 8
    PROVE  s \in Eight
<1>1. s \in [1 .. 8 -> Word32]
  <2>1. s = [i \in 1 .. Len(s) |-> s[i]]
    OBVIOUS
  <2>2. \A i \in 1 .. 8 : s[i] \in Word32
    <3>1. s \in [1 .. Len(s) -> Word32]
      BY LenProperties, Zenon
    <3> QED
      BY <3>1, Zenon
  <2>3. s = [i \in 1 .. 8 |-> s[i]]
    BY <2>1, Zenon
  <2> QED
    BY <2>2, <2>3, Zenon
<1> QED
  BY <1>1, Zenon DEF Eight

LEMMA EightAre ==
    ASSUME NEW a \in Word32, NEW b \in Word32, NEW c \in Word32, NEW d \in Word32,
           NEW e \in Word32, NEW f \in Word32, NEW g \in Word32, NEW h \in Word32
    PROVE  <<a, b, c, d, e, f, g, h>> \in Eight
<1> DEFINE t == <<a, b, c, d, e, f, g, h>>
<1>1. Len(t) = 8
  OBVIOUS
<1>2. t \in Seq(Word32)
  OBVIOUS
<1> HIDE DEF t
<1> QED
  BY <1>1, <1>2, EightWords DEF t

LEMMA RabbitParts ==
    /\ \A x, y \in Word32 : Halves(x, y) \in Word32 /\ HighLow(x, y) \in Word32 /\ Exchanged(x) \in Word32
    /\ A1 \in Word32 /\ A2 \in Word32 /\ A3 \in Word32
    /\ {} \in Word32 /\ {0} \in Word32
<1>1. ASSUME NEW x \in Word32, NEW y \in Word32
      PROVE  Halves(x, y) \in Word32 /\ HighLow(x, y) \in Word32 /\ Exchanged(x) \in Word32
  <2>1. Shl(x, 16) \in Word32 /\ Shr(y, 16) \in Word32 /\ Rotl(x, 16) \in Word32
    BY WordOperators
  <2>2. Halves(x, y) \in Word32
    BY <2>1, BytesPlaced DEF Halves
  <2>3. HighLow(x, y) \in Word32
    BY DEF HighLow, Word32
  <2> QED
    BY <2>1, <2>2, <2>3 DEF Exchanged
<1>a. \A hi, lo : Word(hi, lo) \in Word32
  BY WordOperators
<1>2. A1 \in Word32 /\ A2 \in Word32 /\ A3 \in Word32
  <2>1. A1 \in Word32
    BY <1>a DEF A1
  <2>2. A2 \in Word32
    BY <1>a DEF A2
  <2>3. A3 \in Word32
    BY <1>a DEF A3
  <2> QED
    BY <2>1, <2>2, <2>3
<1>3. {} \in Word32 /\ {0} \in Word32
  BY DEF Word32, Places
<1> QED
  BY <1>1, <1>2, <1>3

LEMMA TimesTyped == \A x, y \in Word32 : Times(x, y) \in Word32
<1> SUFFICES ASSUME NEW x \in Word32, NEW y \in Word32 PROVE Times(x, y) \in Word32
  OBVIOUS
<1> DEFINE step(s, i) == IF i \in x THEN Add(s, Shl(y, i)) ELSE s
           g == [i \in 0 .. 32 - 1 |-> [s \in Word32 |-> step(s, i)]]
<1>1. ASSUME NEW i \in 0 .. 32 - 1, NEW s \in Word32 PROVE g[i][s] \in Word32
  <2>1. Shl(y, i) \in Word32
    BY WordOperators
  <2>2. step(s, i) \in Word32
    BY <2>1, SumsTyped
  <2> HIDE DEF step
  <2> QED
    BY <2>2
<1>2. Times(x, y) = Passed(Word32, 32, g, {})
  BY Zenon DEF Times, Loop
<1> HIDE DEF g
<1>3. Passed(Word32, 32, g, {}) \in Word32
  BY <1>1, RabbitParts, PassedIs
<1> QED
  BY <1>2, <1>3

LEMMA GTyped == \A x \in Word32 : G(x) \in Word32
<1>1. \A ga, gb \in Word32 : Gh(ga, gb) \in Word32
  <2> SUFFICES ASSUME NEW ga \in Word32, NEW gb \in Word32 PROVE Gh(ga, gb) \in Word32
    OBVIOUS
  <2>1. Times(ga, ga) \in Word32 /\ Times(ga, gb) \in Word32 /\ Times(gb, gb) \in Word32
    BY TimesTyped
  <2>2. Shr(Times(ga, ga), 17) \in Word32
    BY <2>1, WordOperators
  <2>3. Add(Shr(Times(ga, ga), 17), Times(ga, gb)) \in Word32
    BY <2>1, <2>2, SumsTyped
  <2>4. Shr(Add(Shr(Times(ga, ga), 17), Times(ga, gb)), 15) \in Word32
    BY <2>3, WordOperators
  <2> QED
    BY <2>1, <2>4, SumsTyped DEF Gh
<1> SUFFICES ASSUME NEW x \in Word32 PROVE G(x) \in Word32
  OBVIOUS
<1> DEFINE lo == x \cap 0..15
           hi == x \cap 16..31
<1>2. lo \in Word32 /\ hi \in Word32 /\ Shr(x, 16) \in Word32
  <2>1. lo \in Word32 /\ hi \in Word32
    BY DEF Word32
  <2> QED
    BY <2>1, WordOperators
<1>3. G(x) = Xor(Gh(lo, Shr(x, 16)), Add(Times(hi, x), Times(lo, x)))
  BY Zenon DEF G
<1> HIDE DEF lo, hi
<1>4. Gh(lo, Shr(x, 16)) \in Word32 /\ Times(hi, x) \in Word32 /\ Times(lo, x) \in Word32
  BY <1>1, <1>2, TimesTyped
<1>5. Add(Times(hi, x), Times(lo, x)) \in Word32
  BY <1>4, SumsTyped
<1> QED
  BY <1>3, <1>4, <1>5, WordOperators

LEMMA CountedTyped ==
    ASSUME NEW C \in Eight, NEW b \in {0, 1}
    PROVE  Counted(C, b).C \in Eight /\ Counted(C, b).b \in {0, 1}
<1> DEFINE S == [C : Seq(Word32), b : {0, 1}]
           c(d, n) == Sum3(C[n + 1], Increments[n + 1], IF d.b = 1 THEN {0} ELSE {})
           step(d, n) == Counter(d.C, c(d, n), C[n + 1])
           g == [n \in 0 .. 8 - 1 |-> [d \in S |-> step(d, n)]]
           U == [n \in 0 .. 8 |-> {d \in S : Len(d.C) = n}]
           first == [C |-> <<>>, b |-> b]
<1>1. \A n \in 0 .. 8 - 1 : C[n + 1] \in Word32 /\ Increments[n + 1] \in Word32
  <2>1. Increments \in Eight
    BY RabbitParts, EightAre DEF Increments
  <2>2. \A n \in 0 .. 8 - 1 : n + 1 \in 1 .. 8
    OBVIOUS
  <2> QED
    BY <2>1, <2>2 DEF Eight
<1>2. ASSUME NEW n \in 0 .. 8 - 1, NEW d \in U[n] PROVE g[n][d] \in U[n + 1]
  <2>1. d \in S /\ Len(d.C) = n /\ d.C \in Seq(Word32)
    BY <1>2
  <2>2. c(d, n) \in Word32
    <3>1. (IF d.b = 1 THEN {0} ELSE {}) \in Word32
      BY RabbitParts
    <3> DEFINE y == IF d.b = 1 THEN {0} ELSE {}
    <3> HIDE DEF y
    <3>2. Sum3(C[n + 1], Increments[n + 1], y) \in Word32
      BY <1>1, <3>1, SumsTyped DEF y
    <3> QED
      BY <3>2 DEF y
  <2> HIDE DEF c
  <2>3. step(d, n) = [C |-> Append(d.C, c(d, n)), b |-> IF Less(c(d, n), C[n + 1]) THEN 1 ELSE 0]
    BY Zenon DEF Counter
  <2>4. Append(d.C, c(d, n)) \in Seq(Word32) /\ Len(Append(d.C, c(d, n))) = n + 1
    BY <2>1, <2>2
  <2> DEFINE z == Append(d.C, c(d, n))
  <2> HIDE DEF z
  <2>5. step(d, n) \in S /\ step(d, n).C = z
    BY <2>3, <2>4 DEF z
  <2> HIDE DEF step
  <2>6. step(d, n) \in U[n + 1]
    BY <2>4, <2>5 DEF z
  <2>7. g[n][d] = step(d, n)
    BY <2>1
  <2> QED
    BY <2>6, <2>7
<1>3. first \in U[0] /\ \A n \in 0 .. 8 : U[n] \subseteq S
  <2>1. <<>> \in Seq(Word32) /\ Len(<<>>) = 0
    OBVIOUS
  <2>2. first \in S /\ Len(first.C) = 0
    BY <2>1
  <2> HIDE DEF first
  <2> QED
    BY <2>2
<1>4. Counted(C, b) = Passed(S, 8, g, first)
  BY Zenon DEF Counted, Loop
<1>5. \A d \in U[8] : d.C \in Eight /\ d.b \in {0, 1}
  BY EightWords
<1> HIDE DEF g, first, U, S
<1>6. Passed(S, 8, g, first) \in U[8]
  BY <1>2, <1>3, PassedAlong
<1> QED
  BY <1>4, <1>5, <1>6

LEMMA MixtureTyped ==
    ASSUME NEW g \in Eight
    PROVE  Mixture(g) \in Eight
<1> DEFINE even(i, h1, h2) == Sum3(g[i], Rotl(g[h1], 16), Rotl(g[h2], 16))
           odd(i, h1, h2) == Sum3(g[i], Rotl(g[h1], 8), g[h2])
<1>1. \A i \in 1 .. 8 : g[i] \in Word32 /\ Rotl(g[i], 16) \in Word32 /\ Rotl(g[i], 8) \in Word32
  <2>1. \A i \in 1 .. 8 : g[i] \in Word32
    BY DEF Eight
  <2> QED
    BY <2>1, WordOperators
<1>2. \A i, h1, h2 \in 1 .. 8 : even(i, h1, h2) \in Word32 /\ odd(i, h1, h2) \in Word32
  BY <1>1, SumsTyped
<1>3. Mixture(g) = <<even(1, 8, 7), odd(2, 1, 8), even(3, 2, 1), odd(4, 3, 2),
                     even(5, 4, 3), odd(6, 5, 4), even(7, 6, 5), odd(8, 7, 6)>>
  BY Zenon DEF Mixture
<1> HIDE DEF even, odd
<1>4. /\ even(1, 8, 7) \in Word32 /\ odd(2, 1, 8) \in Word32 /\ even(3, 2, 1) \in Word32 /\ odd(4, 3, 2) \in Word32
      /\ even(5, 4, 3) \in Word32 /\ odd(6, 5, 4) \in Word32 /\ even(7, 6, 5) \in Word32 /\ odd(8, 7, 6) \in Word32
  BY <1>2
<1> DEFINE a == even(1, 8, 7)
           b == odd(2, 1, 8)
           c == even(3, 2, 1)
           d == odd(4, 3, 2)
           e == even(5, 4, 3)
           f == odd(6, 5, 4)
           h == even(7, 6, 5)
           i == odd(8, 7, 6)
<1> HIDE DEF a, b, c, d, e, f, h, i
<1>5. a \in Word32 /\ b \in Word32 /\ c \in Word32 /\ d \in Word32 /\ e \in Word32 /\ f \in Word32 /\ h \in Word32 /\ i \in Word32
  BY <1>4, Zenon DEF a, b, c, d, e, f, h, i
<1>6. Mixture(g) = <<a, b, c, d, e, f, h, i>>
  BY <1>3, Zenon DEF a, b, c, d, e, f, h, i
<1>7. <<a, b, c, d, e, f, h, i>> \in Eight
  BY <1>5, EightAre
<1> QED
  BY <1>6, <1>7

LEMMA NextStateTyped ==
    ASSUME NEW r \in RabbitState
    PROVE  NextState(r) \in RabbitState
<1> DEFINE d == Counted(r.C, r.b)
           g == [n \in 0 .. 8 - 1 |-> [s \in Seq(Word32) |-> Append(s, G(Add(r.X[n + 1], d.C[n + 1])))]]
           U == [n \in 0 .. 8 |-> {s \in Seq(Word32) : Len(s) = n}]
           out == Passed(Seq(Word32), 8, g, <<>>)
<1>1. r.X \in Eight /\ r.C \in Eight /\ r.b \in {0, 1}
  BY DEF RabbitState
<1>2. d.C \in Eight /\ d.b \in {0, 1}
  BY <1>1, CountedTyped
<1>3. NextState(r) = [X |-> Mixture(out), C |-> d.C, b |-> d.b]
  BY Zenon DEF NextState, MixedState, Loop
<1> HIDE DEF d
<1>4. \A n \in 0 .. 8 - 1 : G(Add(r.X[n + 1], d.C[n + 1])) \in Word32
  <2> SUFFICES ASSUME NEW n \in 0 .. 8 - 1 PROVE G(Add(r.X[n + 1], d.C[n + 1])) \in Word32
    OBVIOUS
  <2>1. r.X[n + 1] \in Word32 /\ d.C[n + 1] \in Word32
    BY <1>1, <1>2 DEF Eight
  <2>2. Add(r.X[n + 1], d.C[n + 1]) \in Word32
    BY <2>1, SumsTyped
  <2> QED
    BY <2>2, GTyped
<1>5. ASSUME NEW n \in 0 .. 8 - 1, NEW s \in U[n] PROVE g[n][s] \in U[n + 1]
  <2> DEFINE y == G(Add(r.X[n + 1], d.C[n + 1]))
  <2>1. s \in Seq(Word32) /\ Len(s) = n /\ y \in Word32
    BY <1>4, <1>5
  <2>2. g[n][s] = Append(s, y)
    BY <2>1
  <2> HIDE DEF y
  <2>3. Append(s, y) \in Seq(Word32) /\ Len(Append(s, y)) = n + 1
    BY <2>1
  <2> HIDE DEF g
  <2> QED
    BY <2>2, <2>3
<1>6. <<>> \in U[0] /\ \A n \in 0 .. 8 : U[n] \subseteq Seq(Word32)
  OBVIOUS
<1>7. \A s \in U[8] : s \in Eight
  BY EightWords
<1> HIDE DEF g, U
<1>8. out \in U[8]
  BY <1>5, <1>6, PassedAlong
<1> HIDE DEF out
<1>9. Mixture(out) \in Eight
  BY <1>7, <1>8, MixtureTyped
<1> QED
  BY <1>2, <1>3, <1>9 DEF RabbitState

LEMMA FourTimesTyped ==
    ASSUME NEW r \in RabbitState
    PROVE  FourTimes(r) \in RabbitState
<1> DEFINE g == [n \in 0 .. 4 - 1 |-> [q \in RabbitState |-> NextState(q)]]
<1>1. ASSUME NEW n \in 0 .. 4 - 1, NEW q \in RabbitState PROVE g[n][q] \in RabbitState
  BY NextStateTyped
<1>2. FourTimes(r) = Passed(RabbitState, 4, g, r)
  BY Zenon DEF FourTimes, Loop
<1> HIDE DEF g
<1>3. Passed(RabbitState, 4, g, r) \in RabbitState
  BY <1>1, PassedIs
<1> QED
  BY <1>2, <1>3

LEMMA ExtractedTyped ==
    ASSUME NEW X \in Eight
    PROVE  Extracted(X) \in Seq(Word32)
<1> DEFINE part(a, b, c) == SwapBytes(Xor(Xor(X[a], Shr(X[b], 16)), Shl(X[c], 16)))
<1>1. \A a, b, c \in 1 .. 8 : part(a, b, c) \in Word32
  <2> SUFFICES ASSUME NEW a \in 1 .. 8, NEW b \in 1 .. 8, NEW c \in 1 .. 8 PROVE part(a, b, c) \in Word32
    OBVIOUS
  <2>1. X[a] \in Word32 /\ X[b] \in Word32 /\ X[c] \in Word32
    BY DEF Eight
  <2>2. Shr(X[b], 16) \in Word32 /\ Shl(X[c], 16) \in Word32
    BY <2>1, WordOperators
  <2>3. Xor(Xor(X[a], Shr(X[b], 16)), Shl(X[c], 16)) \in Word32
    BY <2>1, <2>2, WordOperators
  <2> QED
    BY <2>3, SwapBytesTyped
<1>2. Extracted(X) = <<part(1, 6, 4), part(3, 8, 6), part(5, 2, 8), part(7, 4, 2)>>
  BY Zenon DEF Extracted
<1> HIDE DEF part
<1>3. part(1, 6, 4) \in Word32 /\ part(3, 8, 6) \in Word32 /\ part(5, 2, 8) \in Word32 /\ part(7, 4, 2) \in Word32
  BY <1>1
<1> QED
  BY <1>2, <1>3

LEMMA KeyedStateTyped ==
    ASSUME NEW K \in Chain, Len(K) >= 4, NEW iv \in Chain
    PROVE  KeyedState(K, iv) \in RabbitState
<1> DEFINE r0 == [X |-> RabbitX(K), C |-> RabbitC(K), b |-> 0]
           r1 == FourTimes(r0)
           r2 == Stirred(r1)
<1>1. K[1] \in Word32 /\ K[2] \in Word32 /\ K[3] \in Word32 /\ K[4] \in Word32
  BY DEF Chain
<1>2. RabbitX(K) \in Eight
  <2>1. Halves(K[4], K[3]) \in Word32 /\ Halves(K[1], K[4]) \in Word32 /\ Halves(K[2], K[1]) \in Word32 /\ Halves(K[3], K[2]) \in Word32
    BY <1>1, RabbitParts
  <2> QED
    BY <1>1, <2>1, EightAre DEF RabbitX
<1>3. RabbitC(K) \in Eight
  <2>1. /\ Exchanged(K[1]) \in Word32 /\ Exchanged(K[2]) \in Word32 /\ Exchanged(K[3]) \in Word32 /\ Exchanged(K[4]) \in Word32
        /\ HighLow(K[1], K[2]) \in Word32 /\ HighLow(K[2], K[3]) \in Word32 /\ HighLow(K[3], K[4]) \in Word32
        /\ HighLow(K[4], K[1]) \in Word32
    BY <1>1, RabbitParts
  <2> QED
    BY <2>1, EightAre DEF RabbitC
<1>4. r0 \in RabbitState
  BY <1>2, <1>3 DEF RabbitState
<1> HIDE DEF r0
<1>5. r1 \in RabbitState
  BY <1>4, FourTimesTyped
<1> HIDE DEF r1
<1>6. r2 \in RabbitState
  <2>1. r1.X \in Eight /\ r1.C \in Eight /\ r1.b \in {0, 1}
    BY <1>5 DEF RabbitState
  <2> DEFINE C == [n \in 1 .. 8 |-> Xor(r1.C[n], r1.X[((n + 3) % 8) + 1])]
  <2>2. \A n \in 1 .. 8 : ((n + 3) % 8) + 1 \in 1 .. 8
    OBVIOUS
  <2>3. \A n \in 1 .. 8 : Xor(r1.C[n], r1.X[((n + 3) % 8) + 1]) \in Word32
    <3> SUFFICES ASSUME NEW n \in 1 .. 8 PROVE Xor(r1.C[n], r1.X[((n + 3) % 8) + 1]) \in Word32
      OBVIOUS
    <3> DEFINE m == ((n + 3) % 8) + 1
    <3>1. m \in 1 .. 8
      BY <2>2
    <3> HIDE DEF m
    <3>2. r1.C[n] \in Word32 /\ r1.X[m] \in Word32
      BY <2>1, <3>1 DEF Eight
    <3> QED
      BY <3>2, XorIs DEF m
  <2>4. C \in Eight
    BY <2>3 DEF Eight
  <2>5. r2 = [r1 EXCEPT !.C = C]
    BY Zenon DEF Stirred
  <2> HIDE DEF C, r2
  <2> QED
    BY <1>5, <2>4, <2>5 DEF RabbitState
<1>7. KeyedState(K, iv) = WithIv(r2, iv)
  BY Zenon DEF KeyedState, r1, r0
<1> HIDE DEF r2
<1>8. WithIv(r2, iv) \in RabbitState
  <2> DEFINE s0 == SwapBytes(At(iv, 0))
             s1 == SwapBytes(At(iv, 1))
             sub == IvWords(s0, s1)
             C == [n \in 1 .. 8 |-> Xor(r2.C[n], sub[((n - 1) % 4) + 1])]
  <2>1. s0 \in Word32 /\ s1 \in Word32
    <3>1. At(iv, 0) \in Word32 /\ At(iv, 1) \in Word32
      BY AtIs
    <3> QED
      BY <3>1, SwapBytesTyped
  <2> HIDE DEF s0, s1
  <2>2. sub[1] \in Word32 /\ sub[2] \in Word32 /\ sub[3] \in Word32 /\ sub[4] \in Word32
    <3>1. Shr(s0, 16) \in Word32 /\ Shl(s1, 16) \in Word32
      BY <2>1, WordOperators
    <3>2. HighLow(s1, Shr(s0, 16)) \in Word32 /\ HighLow(Shl(s1, 16), s0) \in Word32
      BY <2>1, <3>1, RabbitParts
    <3> QED
      BY <2>1, <3>2 DEF IvWords
  <2> HIDE DEF sub
  <2>3. \A n \in 1 .. 8 : Xor(r2.C[n], sub[((n - 1) % 4) + 1]) \in Word32
    <3> SUFFICES ASSUME NEW n \in 1 .. 8 PROVE Xor(r2.C[n], sub[((n - 1) % 4) + 1]) \in Word32
      OBVIOUS
    <3> DEFINE m == ((n - 1) % 4) + 1
    <3>1. m = 1 \/ m = 2 \/ m = 3 \/ m = 4
      OBVIOUS
    <3> HIDE DEF m
    <3>2. r2.C[n] \in Word32
      BY <1>6 DEF Eight, RabbitState
    <3>3. sub[m] \in Word32
      BY <2>2, <3>1
    <3> QED
      BY <3>2, <3>3, XorIs DEF m
  <2>4. C \in Eight
    BY <2>3 DEF Eight
  <2>5. WithIv(r2, iv) = IF iv = <<>> THEN r2 ELSE FourTimes([r2 EXCEPT !.C = C])
    BY Zenon DEF WithIv, sub, s0, s1
  <2> HIDE DEF C
  <2>6. [r2 EXCEPT !.C = C] \in RabbitState
    BY <1>6, <2>4 DEF RabbitState
  <2> DEFINE r3 == [r2 EXCEPT !.C = C]
  <2> HIDE DEF r3
  <2>7. FourTimes(r3) \in RabbitState
    BY <2>6, FourTimesTyped DEF r3
  <2> QED
    BY <1>6, <2>5, <2>7 DEF r3
<1> QED
  BY <1>7, <1>8

LEMMA SwappedKeyTyped ==
    ASSUME NEW words \in Chain
    PROVE  /\ SwappedKey(words) \in Chain /\ Len(SwappedKey(words)) >= 4 /\ Len(SwappedKey(words)) >= Len(words)
           /\ Len(words) >= 4 => Len(SwappedKey(words)) = Len(words)
<1> DEFINE n == Max({4, Len(words)})
           f == [i \in 1 .. n |-> IF i <= 4 THEN SwapBytes(At(words, i - 1)) ELSE words[i]]
<1>1. Len(words) \in Nat
  BY DEF Chain
<1>2. n \in Nat /\ n = IF Len(words) > 4 THEN Len(words) ELSE 4
  BY <1>1 DEF Max
<1> HIDE DEF n
<1>3. ASSUME NEW i \in 1 .. n PROVE (IF i <= 4 THEN SwapBytes(At(words, i - 1)) ELSE words[i]) \in Word32
  <2>1. CASE i <= 4
    <3>1. i - 1 \in Int
      OBVIOUS
    <3>2. At(words, i - 1) \in Word32
      BY <3>1, AtIs
    <3> QED
      BY <2>1, <3>2, SwapBytesTyped
  <2>2. CASE i > 4
    <3>1. i \in 1 .. Len(words)
      BY <1>1, <1>2, <2>2
    <3>2. words[i] \in Word32
      BY <3>1 DEF Chain
    <3> QED
      BY <1>2, <2>2, <3>2
  <2> QED
    BY <1>2, <2>1, <2>2
<1>4. f \in [1 .. n -> Word32]
  BY <1>3
<1>5. SwappedKey(words) = f
  BY Zenon DEF SwappedKey, n
<1> HIDE DEF f
<1>6. f \in Seq(Word32) /\ Len(f) = n
  BY <1>2, <1>4, Listed
<1> QED
  BY <1>1, <1>2, <1>5, <1>6 DEF Chain

LEMMA BlockOfBlockCipher ==
    ASSUME NEW o, o.cipher \in BlockCipherNames, NEW run, NEW M
    PROVE  CipherBlock(o, run, M) = ProcessBlock(o.cfg.mode, o.forward, o.beneath, run, M)
<1> DEFINE x == ProcessBlock(o.cfg.mode, o.forward, o.beneath, run, M)
           y == Rc4Block(KeystreamWord(run), M)
           z == RabbitBlock(NextState(run), M)
<1>1. CipherBlock(o, run, M) = CASE o.cipher \in BlockCipherNames -> x
                                 [] o.cipher \in {"RC4", "RC4Drop"} -> y
                                 [] o.cipher \in {"Rabbit", "RabbitLegacy"} -> z
  BY Zenon DEF CipherBlock
<1> HIDE DEF x, y, z
<1>2. CipherBlock(o, run, M) = x
  BY <1>1 DEF BlockCipherNames
<1> QED
  BY <1>2 DEF x

\* A stream cipher combines a block with what its state gives, whatever the
\* direction.
LEMMA BlockOfStream ==
    ASSUME NEW cipher \in StreamCipherNames, NEW run \in RunStates(cipher)
    PROVE  \E next \in RunStates(cipher), K \in Chain :
              \A o, M : o.cipher = cipher => CipherBlock(o, run, M) = [run |-> next, words |-> XorWords(M, K)]
<1>1. CASE cipher \in {"RC4", "RC4Drop"}
  <2> DEFINE k == KeystreamWord(run)
  <2>1. RunStates(cipher) = Rc4State
    BY <1>1 DEF RunStates, BlockCipherNames
  <2>2. k.rc4 \in Rc4State /\ k.word \in Word32
    BY <2>1, KeystreamTyped
  <2>3. <<k.word>> \in Chain
    BY <2>2 DEF Chain
  <2>4. ASSUME NEW o, NEW M, o.cipher = cipher
        PROVE  CipherBlock(o, run, M) = [run |-> k.rc4, words |-> XorWords(M, <<k.word>>)]
    <3> DEFINE x == ProcessBlock(o.cfg.mode, o.forward, o.beneath, run, M)
               y == Rc4Block(KeystreamWord(run), M)
               z == RabbitBlock(NextState(run), M)
    <3>1. CipherBlock(o, run, M) = CASE o.cipher \in BlockCipherNames -> x
                                     [] o.cipher \in {"RC4", "RC4Drop"} -> y
                                     [] o.cipher \in {"Rabbit", "RabbitLegacy"} -> z
      BY Zenon DEF CipherBlock
    <3> HIDE DEF x, y, z, k
    <3>2. CipherBlock(o, run, M) = y
      BY <1>1, <2>4, <3>1 DEF BlockCipherNames
    <3> QED
      BY <3>2, Zenon DEF y, Rc4Block, k
  <2> HIDE DEF k
  <2> QED
    BY <2>1, <2>2, <2>3, <2>4
<1>2. CASE cipher \in {"Rabbit", "RabbitLegacy"}
  <2> DEFINE next == NextState(run)
             K == Extracted(next.X)
  <2>1. RunStates(cipher) = RabbitState
    BY <1>2 DEF RunStates, BlockCipherNames
  <2>2. next \in RabbitState
    BY <2>1, NextStateTyped
  <2>3. next.X \in Eight
    <3> HIDE DEF next
    <3> QED
      BY <2>2 DEF RabbitState
  <2>4. K \in Chain
    BY <2>3, ExtractedTyped DEF Chain
  <2>5. ASSUME NEW o, NEW M, o.cipher = cipher
        PROVE  CipherBlock(o, run, M) = [run |-> next, words |-> XorWords(M, K)]
    <3> DEFINE x == ProcessBlock(o.cfg.mode, o.forward, o.beneath, run, M)
               y == Rc4Block(KeystreamWord(run), M)
               z == RabbitBlock(NextState(run), M)
    <3>1. CipherBlock(o, run, M) = CASE o.cipher \in BlockCipherNames -> x
                                     [] o.cipher \in {"RC4", "RC4Drop"} -> y
                                     [] o.cipher \in {"Rabbit", "RabbitLegacy"} -> z
      BY Zenon DEF CipherBlock
    <3> HIDE DEF x, y, z, next, K
    <3>2. CipherBlock(o, run, M) = z
      BY <1>2, <2>5, <3>1 DEF BlockCipherNames
    <3> QED
      BY <3>2, Zenon DEF z, RabbitBlock, next, K
  <2> HIDE DEF next, K
  <2> QED
    BY <2>1, <2>2, <2>4, <2>5
<1> QED
  BY <1>1, <1>2 DEF StreamCipherNames

\* An encrypting object and the decrypting one of the same key.
Paired(enc, dec) ==
    /\ enc.cipher \in CipherNames /\ dec.cipher = enc.cipher /\ dec.cfg = enc.cfg /\ dec.beneath = enc.beneath
    /\ enc.forward = TRUE /\ dec.forward = FALSE
    /\ enc.cipher \in BlockCipherNames =>
         enc.cfg.mode \in ModeNames /\ enc.beneath.cipher = enc.cipher /\ Inverts(enc.beneath)

LEMMA StreamsInvert ==
    ASSUME NEW enc, NEW dec, Paired(enc, dec), enc.cipher \notin BlockCipherNames
    PROVE  Opposite(enc, dec) /\ Keystreamed(enc, dec)
<1> DEFINE cipher == enc.cipher
           mode == enc.cfg.mode
           size == CipherBlockSize(cipher)
           R == ProperRuns(cipher, mode)
           B == [1 .. size -> Word32]
<1>1. cipher \in CipherNames /\ cipher \in StreamCipherNames /\ dec.cipher = cipher /\ dec.cfg.mode = mode
  BY DEF Paired, CipherNames
<1>2. size \in Nat /\ R = RunStates(cipher)
  <2>1. size \in {1, 2, 4}
    BY <1>1, CipherSizes
  <2> QED
    BY <2>1 DEF ProperRuns
<1>3. \A M \in B, K \in Chain : XorWords(M, K) \in B /\ XorWords(XorWords(M, K), K) = M
  BY <1>2, XorWordsIs
<1> HIDE DEF B, R, size
<1>4. ASSUME NEW run \in R
      PROVE  \E next \in R, K \in Chain :
                \A M : /\ CipherBlock(enc, run, M) = [run |-> next, words |-> XorWords(M, K)]
                       /\ CipherBlock(dec, run, M) = [run |-> next, words |-> XorWords(M, K)]
  BY <1>1, <1>2, BlockOfStream
<1>5. ASSUME NEW run \in R, NEW M \in B
      PROVE  /\ CipherBlock(enc, run, M) \in [run : R, words : B] /\ CipherBlock(dec, run, M) \in [run : R, words : B]
             /\ CipherBlock(dec, run, CipherBlock(enc, run, M).words) = [run |-> CipherBlock(enc, run, M).run, words |-> M]
  <2>1. PICK next \in R, K \in Chain :
                \A x : /\ CipherBlock(enc, run, x) = [run |-> next, words |-> XorWords(x, K)]
                       /\ CipherBlock(dec, run, x) = [run |-> next, words |-> XorWords(x, K)]
    BY <1>4
  <2> DEFINE y == XorWords(M, K)
  <2>2. y \in B /\ XorWords(y, K) = M
    BY <1>3
  <2> HIDE DEF y
  <2>3. CipherBlock(enc, run, M) = [run |-> next, words |-> y] /\ CipherBlock(dec, run, M) = [run |-> next, words |-> y]
    BY <2>1 DEF y
  <2>4. CipherBlock(dec, run, y) = [run |-> next, words |-> M]
    BY <2>1, <2>2
  <2> QED
    BY <2>2, <2>3, <2>4
<1>6. Keystreamed(enc, dec)
  <2> SUFFICES ASSUME NEW run \in R
               PROVE  \E K \in Chain : \A M \in B : CipherBlock(enc, run, M).words = XorWords(M, K) /\ CipherBlock(dec, run, M).words = XorWords(M, K)
    BY Zenon DEF Keystreamed, R, B, size
  <2>1. PICK next \in R, K \in Chain :
                \A x : /\ CipherBlock(enc, run, x) = [run |-> next, words |-> XorWords(x, K)]
                       /\ CipherBlock(dec, run, x) = [run |-> next, words |-> XorWords(x, K)]
    BY <1>4
  <2>2. \A M : CipherBlock(enc, run, M).words = XorWords(M, K) /\ CipherBlock(dec, run, M).words = XorWords(M, K)
    BY <2>1
  <2> QED
    BY <2>2
<1>7. BlocksAreProper(enc) /\ BlocksAreProper(dec)
  BY <1>1, <1>5, Zenon DEF BlocksAreProper, R, B, size
<1>8. Opposite(enc, dec)
  BY <1>1, <1>5, <1>7, Zenon DEF Opposite, R, B, size
<1> QED
  BY <1>6, <1>8

LEMMA BlockCiphersAreOpposite ==
    ASSUME NEW enc, NEW dec, Paired(enc, dec), enc.cipher \in BlockCipherNames
    PROVE  Opposite(enc, dec) /\ (enc.cfg.mode \notin {"CBC", "ECB"} => Keystreamed(enc, dec))
<1> DEFINE cipher == enc.cipher
           mode == enc.cfg.mode
           c == enc.beneath
           size == CipherBlockSize(cipher)
           R == ProperRuns(cipher, mode)
           B == [1 .. size -> Word32]
<1>1. /\ cipher \in CipherNames /\ dec.cipher = cipher /\ dec.cfg.mode = mode /\ dec.beneath = c
      /\ mode \in ModeNames /\ c.cipher = cipher /\ Inverts(c) /\ cipher \in BlockCipherNames
      /\ enc.forward = TRUE /\ dec.forward = FALSE
  BY Zenon DEF Paired
<1>2. B = Blocks(c.cipher) /\ R = ProperRuns(c.cipher, mode)
  <2>1. size = BlockWords(cipher)
    BY <1>1, CipherSizes
  <2> HIDE DEF size, cipher, c
  <2> QED
    BY <1>1, <2>1, Zenon DEF Blocks
<1>3. \A run, M : /\ CipherBlock(enc, run, M) = ProcessBlock(mode, TRUE, c, run, M)
                  /\ CipherBlock(dec, run, M) = ProcessBlock(mode, FALSE, c, run, M)
  <2> SUFFICES ASSUME NEW run, NEW M
               PROVE  /\ CipherBlock(enc, run, M) = ProcessBlock(mode, TRUE, c, run, M)
                      /\ CipherBlock(dec, run, M) = ProcessBlock(mode, FALSE, c, run, M)
    BY Zenon
  <2>1. CipherBlock(enc, run, M) = ProcessBlock(enc.cfg.mode, enc.forward, enc.beneath, run, M)
    BY BlockOfBlockCipher
  <2>2. CipherBlock(dec, run, M) = ProcessBlock(dec.cfg.mode, dec.forward, dec.beneath, run, M)
    <3>1. dec.cipher \in BlockCipherNames
      BY <1>1, Zenon
    <3> QED
      BY <3>1, BlockOfBlockCipher
  <2> QED
    BY <1>1, <2>1, <2>2, Zenon
<1> HIDE DEF B, R, size, mode, c
<1>4. ASSUME NEW run \in R, NEW M \in B
      PROVE  /\ CipherBlock(enc, run, M) \in [run : R, words : B] /\ CipherBlock(dec, run, M) \in [run : R, words : B]
             /\ CipherBlock(dec, run, CipherBlock(enc, run, M).words) = [run |-> CipherBlock(enc, run, M).run, words |-> M]
  <2>1. c.cipher \in BlockCipherNames /\ Inverts(c) /\ mode \in ModeNames /\ run \in ProperRuns(c.cipher, mode) /\ M \in Blocks(c.cipher)
    BY <1>1, <1>2, Zenon
  <2>2. /\ ProcessBlock(mode, TRUE, c, run, M) \in [run : ProperRuns(c.cipher, mode), words : Blocks(c.cipher)]
        /\ ProcessBlock(mode, FALSE, c, run, M) \in [run : ProperRuns(c.cipher, mode), words : Blocks(c.cipher)]
        /\ ProcessBlock(mode, FALSE, c, run, ProcessBlock(mode, TRUE, c, run, M).words)
             = [run |-> ProcessBlock(mode, TRUE, c, run, M).run, words |-> M]
    BY <2>1, ModesInvert
  <2> QED
    BY <1>2, <1>3, <2>2, Zenon
<1>5. BlocksAreProper(enc) /\ BlocksAreProper(dec)
  BY <1>1, <1>4, Zenon DEF BlocksAreProper, R, B, size, mode
<1>6. Opposite(enc, dec)
  BY <1>1, <1>4, <1>5, Zenon DEF Opposite, R, B, size, mode
<1>7. ASSUME mode \notin {"CBC", "ECB"} PROVE Keystreamed(enc, dec)
  <2> SUFFICES ASSUME NEW run \in R
               PROVE  \E K \in Chain : \A M \in B : CipherBlock(enc, run, M).words = XorWords(M, K) /\ CipherBlock(dec, run, M).words = XorWords(M, K)
    BY Zenon DEF Keystreamed, R, B, size, mode
  <2>1. c.cipher \in BlockCipherNames /\ Inverts(c) /\ mode \in ModeNames \ {"CBC", "ECB"} /\ run \in ProperRuns(c.cipher, mode)
    BY <1>1, <1>2, <1>7, Zenon
  <2>2. \E K \in Chain : \A M : /\ ProcessBlock(mode, TRUE, c, run, M).words = XorWords(M, K)
                                /\ ProcessBlock(mode, FALSE, c, run, M).words = XorWords(M, K)
    BY <2>1, ModesOfKeystreams
  <2> QED
    BY <1>3, <2>2, Zenon
<1> QED
  BY <1>6, <1>7 DEF mode

-----------------------------------------------------------------------------
(* An object before its first block *)

\* A key and a configuration that the code makes an object of.
ProperKey(cipher, key) ==
    /\ key \in Arrays
    /\ cipher = "AES" => key.sigBytes \in {16, 24, 32} /\ key.sigBytes <= 4 * Len(key.words)
    /\ cipher \in {"RC4", "RC4Drop"} => key.sigBytes > 0
ProperCfg(cipher, cfg) ==
    /\ cfg.iv \in Chain /\ cfg.drop \in Nat
    /\ cipher \in BlockCipherNames => cfg.mode \in ModeNames /\ cfg.padding \in PaddingNames
    /\ cipher \in BlockCipherNames /\ cfg.mode # "ECB" => cfg.iv \in Blocks(cipher)

LEMMA StreamResetTyped ==
    ASSUME NEW cipher \in StreamCipherNames, NEW key, ProperKey(cipher, key), NEW cfg, ProperCfg(cipher, cfg)
    PROVE  StreamReset(cipher, key, cfg) \in RunStates(cipher)
<1> DEFINE y1 == Rc4Reset(key)
           y2 == Rc4DropReset(key, cfg.drop)
           y3 == RabbitReset(key.words, cfg.iv)
           y4 == LegacyReset(key.words, cfg.iv)
<1>1. StreamReset(cipher, key, cfg) = CASE cipher = "RC4" -> y1
                                       [] cipher = "RC4Drop" -> y2
                                       [] cipher = "Rabbit" -> y3
                                       [] cipher = "RabbitLegacy" -> y4
  BY Zenon DEF StreamReset
<1>2. key \in Arrays /\ key.words \in Chain /\ cfg.iv \in Chain /\ cfg.drop \in Nat
  BY DEF ProperKey, ProperCfg, Arrays
<1>3. cipher \in {"RC4", "RC4Drop"} => y1 \in Rc4State /\ y2 \in Rc4State
  BY <1>2, Rc4ResetTyped, Rc4DropResetTyped DEF ProperKey
<1>4. y3 \in RabbitState
  BY <1>2, SwappedKeyTyped, KeyedStateTyped DEF RabbitReset
<1>5. y4 \in RabbitState
  <2> DEFINE K == Block(key.words, 0, 4)
  <2>1. K \in [1 .. 4 -> Word32]
    BY <1>2, BlockAt
  <2> HIDE DEF K
  <2>2. K \in Chain /\ Len(K) >= 4
    <3>1. K \in Seq(Word32) /\ Len(K) = 4
      BY <2>1, Listed
    <3> QED
      BY <3>1 DEF Chain
  <2> QED
    BY <1>2, <2>2, KeyedStateTyped DEF LegacyReset, K
<1> HIDE DEF y1, y2, y3, y4
<1>6. /\ cipher \in {"RC4", "RC4Drop"} => RunStates(cipher) = Rc4State
      /\ cipher \in {"Rabbit", "RabbitLegacy"} => RunStates(cipher) = RabbitState
  BY DEF RunStates, BlockCipherNames
<1> QED
  BY <1>1, <1>3, <1>4, <1>5, <1>6 DEF StreamCipherNames

\* An object that was just made.
IsNew(o, cipher, forward, key, cfg) ==
    /\ o.cipher = cipher /\ o.forward = forward /\ o.cfg = cfg /\ o.data = EmptyArray /\ o.nDataBytes = 0
    /\ cipher \in BlockCipherNames => o.beneath = KeyedCipher(cipher, key) /\ o.run = NewMode(cfg.iv)
    /\ cipher \notin BlockCipherNames => o.beneath = None /\ o.run = StreamReset(cipher, key, cfg)
    /\ o = [cipher |-> o.cipher, forward |-> o.forward, cfg |-> o.cfg, data |-> o.data,
            nDataBytes |-> o.nDataBytes, beneath |-> o.beneath, run |-> o.run]

LEMMA NewCipherIs ==
    ASSUME NEW cipher, NEW forward, NEW key, NEW cfg
    PROVE  IsNew(NewCipher(cipher, forward, key, cfg), cipher, forward, key, cfg)
  BY DEF NewCipher, IsNew

LEMMA NewRunIsProper ==
    ASSUME NEW cipher \in CipherNames, NEW key, ProperKey(cipher, key), NEW cfg, ProperCfg(cipher, cfg), NEW forward
    PROVE  NewCipher(cipher, forward, key, cfg).run \in ProperRuns(cipher, cfg.mode)
<1>1. CASE cipher \in BlockCipherNames
  <2>1. /\ NewCipher(cipher, forward, key, cfg).run = NewMode(cfg.iv)
    BY <1>1, NewCipherIs DEF IsNew
  <2>2. cfg.iv \in Chain /\ None \in Chain /\ (cfg.mode # "ECB" => cfg.iv \in Blocks(cipher))
    BY <1>1, BlocksAreChains DEF ProperCfg
  <2>3. cfg.iv \in Blocks(cipher) => cfg.iv # None
    BY <1>1, BlocksAreChains DEF None
  <2>4. NewMode(cfg.iv) \in [iv : Chain, kept : Chain]
    BY <2>2 DEF NewMode
  <2>5. cfg.mode # "ECB" => Chained(NewMode(cfg.iv)) \in Blocks(cipher)
    BY <2>2, <2>3 DEF NewMode, Chained
  <2> QED
    BY <1>1, <2>1, <2>4, <2>5 DEF ProperRuns, Blocks
<1>2. CASE cipher \notin BlockCipherNames
  BY <1>2, NewCipherIs, StreamResetTyped DEF IsNew, ProperRuns, CipherNames
<1> QED
  BY <1>1, <1>2

\* The objects of one key and one configuration, in both directions.
MadePair(enc, dec, cipher, key, cfg) ==
    /\ cipher \in CipherNames /\ ProperKey(cipher, key) /\ ProperCfg(cipher, cfg)
    /\ cipher \in BlockCipherNames => Inverts(KeyedCipher(cipher, key))
    /\ enc = NewCipher(cipher, TRUE, key, cfg) /\ dec = NewCipher(cipher, FALSE, key, cfg)
PairOf(enc, dec) ==
    /\ Paired(enc, dec) /\ dec.run = enc.run
    /\ enc \in Alike(enc) /\ dec \in Alike(dec)

LEMMA NewPaired ==
    ASSUME NEW cipher, NEW key, NEW cfg, NEW enc, NEW dec, MadePair(enc, dec, cipher, key, cfg)
    PROVE  PairOf(enc, dec)
<1>a. /\ cipher \in CipherNames /\ ProperKey(cipher, key) /\ ProperCfg(cipher, cfg)
      /\ enc = NewCipher(cipher, TRUE, key, cfg) /\ dec = NewCipher(cipher, FALSE, key, cfg)
  BY Zenon DEF MadePair
<1>b. cipher \in BlockCipherNames => Inverts(KeyedCipher(cipher, key))
  BY Zenon DEF MadePair
<1>0. IsNew(enc, cipher, TRUE, key, cfg) /\ IsNew(dec, cipher, FALSE, key, cfg)
  <2>1. IsNew(NewCipher(cipher, TRUE, key, cfg), cipher, TRUE, key, cfg) /\ IsNew(NewCipher(cipher, FALSE, key, cfg), cipher, FALSE, key, cfg)
    BY NewCipherIs, Zenon
  <2> QED
    BY <1>a, <2>1, Zenon
<1>1. /\ enc.cipher = cipher /\ enc.forward = TRUE /\ enc.cfg = cfg /\ enc.data = EmptyArray /\ enc.nDataBytes = 0
      /\ dec.cipher = cipher /\ dec.forward = FALSE /\ dec.cfg = cfg /\ dec.data = EmptyArray /\ dec.nDataBytes = 0
      /\ enc = [cipher |-> enc.cipher, forward |-> enc.forward, cfg |-> enc.cfg, data |-> enc.data,
                nDataBytes |-> enc.nDataBytes, beneath |-> enc.beneath, run |-> enc.run]
      /\ dec = [cipher |-> dec.cipher, forward |-> dec.forward, cfg |-> dec.cfg, data |-> dec.data,
                nDataBytes |-> dec.nDataBytes, beneath |-> dec.beneath, run |-> dec.run]
  BY <1>0, Zenon DEF IsNew
<1>2. dec.beneath = enc.beneath /\ dec.run = enc.run /\ (cipher \in BlockCipherNames => enc.beneath = KeyedCipher(cipher, key))
  BY <1>0, Zenon DEF IsNew
<1>3. enc.run \in ProperRuns(cipher, cfg.mode) /\ dec.run \in ProperRuns(cipher, cfg.mode)
  BY <1>a, NewRunIsProper
<1>4. EmptyArray \in Arrays
  BY EmptyTyped
<1>5. enc \in Alike(enc) /\ dec \in Alike(dec)
  <2>1. ASSUME NEW o, o.cipher = cipher, o.cfg = cfg, o.data = EmptyArray, o.nDataBytes = 0, o.run \in ProperRuns(cipher, cfg.mode),
               o = [cipher |-> o.cipher, forward |-> o.forward, cfg |-> o.cfg, data |-> o.data,
                nDataBytes |-> o.nDataBytes, beneath |-> o.beneath, run |-> o.run]
        PROVE  o \in Alike(o)
    <3> DEFINE R == ProperRuns(o.cipher, o.cfg.mode)
    <3>1. o.run \in R /\ o.data \in Arrays /\ o.nDataBytes \in Nat
      BY <1>4, <2>1
    <3> HIDE DEF R
    <3>2. o \in [cipher : {o.cipher}, forward : {o.forward}, cfg : {o.cfg}, data : Arrays, nDataBytes : Nat,
                 beneath : {o.beneath}, run : R]
      BY <2>1, <3>1
    <3> QED
      BY <3>2, Zenon DEF Alike, R
  <2> QED
    BY <1>1, <1>3, <2>1, Zenon
<1>6. cipher \in BlockCipherNames => cfg.mode \in ModeNames
  BY <1>a DEF ProperCfg
<1>7. cipher \in BlockCipherNames => KeyedCipher(cipher, key).cipher = cipher
  BY DEF KeyedCipher
<1>8. Paired(enc, dec)
  BY <1>a, <1>b, <1>1, <1>2, <1>6, <1>7, Zenon DEF Paired
<1> QED
  BY <1>2, <1>5, <1>8, Zenon DEF PairOf

\* An object that was just made has come to no byte.
LEMMA NewComes ==
    ASSUME NEW c, c \in Alike(c), c.data = EmptyArray, NEW b, NEW f, NEW D, Makes(c, b, f, D), f[0] = c.run
    PROVE  Come(c, b, f, c, 0, 0)
<1> DEFINE size == CipherBlockSize(c.cipher)
<1>1. size \in {1, 2, 4} /\ Len(b) \in Nat /\ b \in Seq(Byte)
  BY CipherSizes DEF Makes
<1>2. c.data = OfBytes(SubSeq(b, 1, 0))
  <2>1. SubSeq(b, 1, 0) = <<>> /\ <<>> \in Seq(Byte)
    BY <1>1, WholePart
  <2>2. OfBytes(<<>>) = EmptyArray
    BY DEF OfBytes, EmptyArray, WordArray, WordsFor, Written
  <2> QED
    BY <2>1, <2>2
<1> HIDE DEF size
<1>3. 0 * size = 0
  BY <1>1
<1> QED
  BY <1>1, <1>2, <1>3 DEF Come, size

\* What an object makes of bytes, from its first block on.
LEMMA MakesExist ==
    ASSUME NEW c, c.cipher \in CipherNames, BlocksAreProper(c), c \in Alike(c), c.data = EmptyArray,
           NEW b \in Seq(Byte)
    PROVE  \E f, D : f[0] = c.run /\ Makes(c, b, f, D) /\ Come(c, b, f, c, 0, 0)
<1> DEFINE size == CipherBlockSize(c.cipher)
           n == BlocksFor(size, Len(b))
           W == OfBytes(b).words
<1>1. size \in {1, 2, 4} /\ Len(b) \in Nat /\ n \in Nat
  <2>1. size \in {1, 2, 4} /\ Len(b) \in Nat
    BY CipherSizes
  <2> HIDE DEF size
  <2> QED
    BY <2>1, BlocksForIs
<1>2. W \in Chain
  BY HoldsOfBytes DEF Holds, Arrays
<1>3. c.run \in ProperRuns(c.cipher, c.cfg.mode)
  BY Zenon DEF Alike
<1> HIDE DEF n, W
<1>4. PICK f, D : f[0] = c.run /\ Turns(c, W, n, f, D)
  BY <1>1, <1>2, <1>3, TurnsExist
<1>5. Makes(c, b, f, D)
  BY <1>4, Zenon DEF Makes, W, n
<1>6. Come(c, b, f, c, 0, 0)
  BY <1>4, <1>5, NewComes
<1> QED
  BY <1>4, <1>5, <1>6
=============================================================================
