----------------------------- MODULE WordArrays -----------------------------
(***************************************************************************)
(* components/core.js, WordArray, and the encoders of core.js,             *)
(* enc-base64.js, enc-utf16.js and lib-typedarrays.js.                     *)
(*                                                                         *)
(* A word array is its array of words and the number of its significant    *)
(* bytes; the two are kept independently by the code, so an array may hold *)
(* words, or bytes of its last word, that are not significant.  A string   *)
(* is a sequence of UTF-16 code units (Char), a Latin-1 string one whose   *)
(* units are bytes.                                                        *)
(***************************************************************************)
EXTENDS JsWords

WordArray(words, sigBytes) == [words |-> Written(words), sigBytes |-> sigBytes]
Create(words) == WordArray(words, 4 * Len(words))

\* The number of words that n bytes occupy: Math.ceil(n / 4).
WordsFor(n) == (n + 3) \div 4

Bytes(w) == Written([i \in 1..w.sigBytes |-> ByteAt(At(w.words, (i - 1) \div 4), (i - 1) % 4)])

\* words[i >>> 2] |= byte << (24 - (i % 4) * 8), for every byte.
OfBytes(bytes) ==
    WordArray([k \in 1..WordsFor(Len(bytes)) |->
                 WordOf(SubSeq(bytes, 4 * k - 3, IF 4 * k <= Len(bytes) THEN 4 * k ELSE Len(bytes)))],
              Len(bytes))

\* The excess bits of the last significant word are cleared and the words
\* after it dropped.
Clamp(w) ==
    LET Kept(k) == IF k = w.sigBytes \div 4
                     THEN At(w.words, k) \cap (32 - 8 * (w.sigBytes % 4))..31
                     ELSE At(w.words, k)
    IN  WordArray([k \in 1..WordsFor(w.sigBytes) |-> Kept(k - 1)], w.sigBytes)

\* What concat appends to whole words: all the words, significant or not, or the
\* significant ones of an array that is too long to be the arguments of a push.
MaxPushed == 65535
Pushed(v) ==
    IF Len(v.words) <= MaxPushed THEN v.words
    ELSE [k \in 1..WordsFor(v.sigBytes) |-> At(v.words, k - 1)]

\* An array that ends inside a word takes the other's significant bytes.
Concat(w, v) ==
    IF w.sigBytes % 4 # 0
      THEN OfBytes(Bytes(w) \o Bytes(v))
      ELSE WordArray(Clamp(w).words \o Pushed(v), w.sigBytes + v.sigBytes)

\* WordArray.random: the words are the caller's choice.
Random(nBytes, fill) == WordArray([k \in 1..WordsFor(nBytes) |-> fill], nBytes)

-----------------------------------------------------------------------------
(* Hex, Latin1 and Utf8.                                                   *)

Nibble == SUBSET (0..3)
\* Wrong: as many digits as the words have.
HexStringifyWords(w) ==
    [i \in 1..8 * Len(w.words) |->
       LET bite == ByteAt(At(w.words, (i - 1) \div 8), ((i - 1) \div 2) % 4)
       IN  IF i % 2 = 1 THEN {p - 4 : p \in bite \cap 4..7} ELSE bite \cap 0..3]
HexStringify(w) ==
    [i \in 1..2 * w.sigBytes |->
       LET bite == Bytes(w)[(i + 1) \div 2]
       IN  IF i % 2 = 1 THEN {p - 4 : p \in bite \cap 4..7} ELSE bite \cap 0..3]
HexParse(digits) ==
    OfBytes([i \in 1..(Len(digits) \div 2) |->
               {p + 4 : p \in digits[2 * i - 1]} \cup digits[2 * i]])

Latin1Stringify(w) == Bytes(w)
Latin1Parse(str) == OfBytes([i \in DOMAIN str |-> str[i] \cap 0..7])

\* encodeURIComponent, then unescape; surrogates are left out.
Utf8Bytes(c) ==
    LET Six(first) == {7} \cup {p - first : p \in c \cap first..(first + 5)}
    IN  IF c \subseteq 0..6 THEN <<c>>
        ELSE IF c \subseteq 0..10 THEN <<{7, 6} \cup {p - 6 : p \in c \cap 6..10}, Six(0)>>
        ELSE <<{7, 6, 5} \cup {p - 12 : p \in c \cap 12..15}, Six(6), Six(0)>>
Utf8Parse(str) ==
    LET enc[i \in 0..Len(str)] == IF i = 0 THEN <<>> ELSE enc[i - 1] \o Utf8Bytes(str[i])
    IN  OfBytes(enc[Len(str)])

\* The code unit that the first n bytes are the encoding of, if they are one.
LowBits(b, first) == {p + first : p \in b \cap 0..5}
UnitOf(b, n) ==
    CASE n = 1 -> b[1]
      [] n = 2 -> {p + 6 : p \in b[1] \cap 0..4} \cup LowBits(b[2], 0)
      [] n = 3 -> {p + 12 : p \in b[1] \cap 0..3} \cup LowBits(b[2], 6) \cup LowBits(b[3], 0)
BeginsUnit(b, n) == n <= Len(b) /\ Utf8Bytes(UnitOf(b, n)) = SubSeq(b, 1, n)

\* escape, then decodeURIComponent; bytes that are the encoding of no string
\* are refused.
Malformed == "Malformed UTF-8 data"
Utf8Stringify(w) ==
    LET dec[bytes \in Seq(Byte), units \in Seq(Char)] ==
            IF bytes = <<>> THEN units
            ELSE IF \E n \in 1..3 : BeginsUnit(bytes, n)
              THEN LET n == CHOOSE n \in 1..3 : BeginsUnit(bytes, n)
                   IN  dec[SubSeq(bytes, n + 1, Len(bytes)), Append(units, UnitOf(bytes, n))]
              ELSE <<Malformed>>
    IN  dec[Bytes(w), <<>>]

-----------------------------------------------------------------------------
(* Base64.  A character is a number: the place in the usual alphabet, Pad  *)
(* for '=' and Underscore for the '_' that the copy of the library in      *)
(* js/aes.js writes where the library writes '+'.                          *)

Pad == 64
Underscore == 65
Map == [k \in 0..64 |-> k]
PageMap == [Map EXCEPT ![62] = Underscore]

IndexOf(map, c) == IF \E k \in 0..63 : map[k] = c THEN CHOOSE k \in 0..63 : map[k] = c ELSE -1

Base64Stringify(map, w) ==
    LET b == Bytes(Clamp(w))
        At0(i) == IF i <= Len(b) THEN b[i] ELSE {}
        Triplet(i) == {p + 16 : p \in At0(i)} \cup {p + 8 : p \in At0(i + 1)} \cup At0(i + 2)
        nChars == ((4 * w.sigBytes) + 2) \div 3
        Index(k) == LET low == 6 * (3 - ((k - 1) % 4))
                    IN  {p - low : p \in Triplet(3 * ((k - 1) \div 4) + 1) \cap low..(low + 5)}
    IN  [k \in 1..4 * ((w.sigBytes + 2) \div 3) |->
            IF k <= nChars THEN map[NumberOf(Index(k))] ELSE map[Pad]]

\* Byte j ends in character End(j), of those whose place is not a multiple of
\* four.  The character before it is shifted whole into the byte (bits1): what
\* overflows the byte is or-ed into the byte before it.
Base64Parse(map, chars) ==
    LET n == IF \E k \in DOMAIN chars : chars[k] = map[Pad]
               THEN Min({k \in DOMAIN chars : chars[k] = map[Pad]}) - 1 ELSE Len(chars)
        Index(i) == LET k == IndexOf(map, chars[i + 1]) IN IF k = -1 THEN Places ELSE BitsOf(k)
        nBytes == n - WordsFor(n)
        End(j) == j + (j \div 3) + 1
        Bits(i) == Shl(Index(i - 1), 2 * (i % 4)) \cup Shr(Index(i), 6 - (2 * (i % 4)))
        Or(k) == UNION {Shl(Bits(End(j)), 24 - (8 * (j % 4))) : j \in (4 * k - 4)..(Min({4 * k, nBytes}) - 1)}
    IN  WordArray([k \in 1..WordsFor(nBytes) |-> Or(k)], nBytes)

-----------------------------------------------------------------------------
(* UTF-16, big and little endian; swapEndian exchanges the bytes of each   *)
(* half word, and a code unit moved to the high half of a word is an int.  *)

SwapEndian(x) == {p + 8 : p \in x \cap (0..7 \cup 16..23)} \cup {p - 8 : p \in x \cap (8..15 \cup 24..31)}
HalfAt(w, i) == {p - (16 - 16 * (i % 2)) : p \in At(w.words, i \div 2) \cap (16 - 16 * (i % 2))..(31 - 16 * (i % 2))}
Utf16Stringify(w) == [i \in 1..((w.sigBytes + 1) \div 2) |-> HalfAt(w, i - 1)]
Utf16Words(units, n) ==
    [k \in 1..((n + 1) \div 2) |-> {p + 16 : p \in units[2 * k - 1]} \cup (IF 2 * k <= n THEN units[2 * k] ELSE {})]
Utf16Parse(str) == WordArray(Utf16Words(str, Len(str)), 2 * Len(str))
Utf16LEStringify(w) == [i \in 1..((w.sigBytes + 1) \div 2) |-> SwapEndian(HalfAt(w, i - 1))]
Utf16LEParse(str) == WordArray(Utf16Words([i \in DOMAIN str |-> SwapEndian(str[i])], Len(str)), 2 * Len(str))

\* lib-typedarrays.js: the bytes of a view of an array buffer, whatever the
\* width of its elements; anything else goes to the initializer of core.js.
OfTypedArray(view) == OfBytes(view.bytes)

\* hex digits of a cipher text, format-hex.js.
HexFormatStringify(params) == HexStringify(params.ciphertext)
HexFormatParse(digits) == [ciphertext |-> HexParse(digits)]
=============================================================================
