------------------------------- MODULE JsWords -------------------------------
(***************************************************************************)
(* The 32-bit words and the bytes the scripts of                           *)
(* static/js compute with.  JavaScript's bitwise operators see a number    *)
(* only as its 32 bits, so a word is the set of the places of its 1-bits   *)
(* (place 31 is the sign bit), a byte a set of places 0..7 and a UTF-16    *)
(* code unit a set of places 0..15.  Whether a number is stored signed or  *)
(* unsigned cannot be told apart by any operation the scripts apply.       *)
(* Recursion is written as functions with an accumulator.                  *)
(***************************************************************************)
EXTENDS Integers, Sequences, FiniteSets, FiniteSetsExt

Places == 0..31
Word32 == SUBSET Places
Byte   == SUBSET (0..7)
Char   == SUBSET (0..15)

-----------------------------------------------------------------------------
(* Numbers and their bits; NumberOf is the number of a byte.               *)

BitsOf(n) == {i \in 0..15 : (n \div 2^i) % 2 = 1}
NumberOf(b) ==
    LET bit(i, n) == IF i \in b THEN n ELSE 0
    IN  bit(0, 1) + bit(1, 2) + bit(2, 4) + bit(3, 8) + bit(4, 16) + bit(5, 32) + bit(6, 64) + bit(7, 128)
WordOfNat(n) == {i \in 0..30 : (n \div 2^i) % 2 = 1}

\* A literal word is written as its two halves: Word(\h6745, \h2301).
Word(hi, lo) == {i + 16 : i \in BitsOf(hi)} \cup BitsOf(lo)

-----------------------------------------------------------------------------
(* ^, &, |, ~, <<, >>>, the rotation (x << n) | (x >>> (32 - n)) and       *)
(* (x + y) | 0 of JavaScript.                                              *)

Xor(x, y) == (x \ y) \cup (y \ x)
Not(x)    == Places \ x
Shl(x, n) == {i + n : i \in x \cap 0..(31 - n)}
Shr(x, n) == {i - n : i \in x \cap n..31}
Rotl(x, n) == {(i + n) % 32 : i \in x}
Rotr(x, n) == {(i + 32 - n) % 32 : i \in x}

\* The sum is taken without carries, the carries are added one place up,
\* until none is left.
Carried[x \in Word32] ==
    [c \in Word32 |-> IF c = {} THEN x ELSE Carried[Xor(x, c)][Shl(x \cap c, 1)]]
Add(x, y) == Carried[x][y]
Sum3(x, y, z) == Add(Add(x, y), z)
Sum4(x, y, z, w) == Add(Add(x, y), Add(z, w))

\* (x >>> 0) < (y >>> 0): the highest place they differ in is one of y's.
Less(x, y) == /\ x # y
              /\ Max(Xor(x, y)) \in y

-----------------------------------------------------------------------------
(* The byte of a word at index j = 0..3, most significant first: the       *)
(* expression (word >>> (24 - j * 8)) & 0xff and its inverse.              *)

ByteAt(x, j) == {i - (24 - 8 * j) : i \in x \cap (24 - 8 * j)..(31 - 8 * j)}
AtByte(b, j) == {i + (24 - 8 * j) : i \in b}
WordOf(bytes) == UNION {AtByte(bytes[j], j - 1) : j \in DOMAIN bytes}

\* Reversal of the four bytes of a word.
SwapBytes(x) == {8 * (3 - (i \div 8)) + (i % 8) : i \in x}

\* Element i, counted from 0 as in the code, of an array of words; a hole and
\* what lies beyond the end of the array are undefined, which is 0 to every
\* bitwise operator.
At(words, i) == IF i \in 0..(Len(words) - 1) THEN words[i + 1] ELSE {}

\* The same sequence, written out: TLC then computes its elements once.
Written(s) == SubSeq(s, 1, Len(s))

\* The n words of an array from offset on, and two arrays combined by ^.
Block(words, offset, n) == Written([i \in 1..n |-> At(words, offset + i - 1)])
XorWords(x, y) == [i \in DOMAIN x |-> Xor(x[i], At(y, i - 1))]

\* words[i] = x: an assignment beyond the end makes the array longer.
SetAt(words, i, x) ==
    [j \in 1..Max({Len(words), i + 1}) |-> IF j = i + 1 THEN x ELSE At(words, j - 1)]

-----------------------------------------------------------------------------
(* for (i = 0; i < n; i++) Step: the value after the last pass, for a body *)
(* whose values stay in S; body[i][x] is what pass i makes of x.           *)

Passed(S, n, body, first) ==
    LET pass[i \in 0..n] == [x \in S |-> IF i = n THEN x ELSE pass[i + 1][body[i][x]]]
    IN  pass[0][first]
Loop(S, n, Step(_, _), first) == Passed(S, n, [i \in 0..(n - 1) |-> [x \in S |-> Step(x, i)]], first)
=============================================================================
