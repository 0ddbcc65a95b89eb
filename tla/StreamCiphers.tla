---------------------------- MODULE StreamCiphers ---------------------------
(***************************************************************************)
(* The stream ciphers of components/: rc4.js, rabbit.js, rabbit-legacy.js. *)
(* A cipher is the state _doReset leaves; each has an operator that makes  *)
(* the state from the key (and the iv) and one that gives the keystream of *)
(* a block and the state after it.                                         *)
(***************************************************************************)
EXTENDS WordArrays

-----------------------------------------------------------------------------
(* RC4.  The box S holds numbers; a block is one word.                     *)

Small == 0..255
Rc4State == [S : [Small -> Small], i : Small, j : Small]

KeyByte(key, n) == NumberOf(ByteAt(At(key.words, n \div 4), n % 4))
SwapEntries(S, i, j) == [S EXCEPT ![i] = S[j], ![j] = S[i]]
\* One pass of the key set-up: i is its index, j what the next pass needs.
SetUp(r, key, i) ==
    LET j == (r.j + r.S[i] + KeyByte(key, i % key.sigBytes)) % 256 IN [S |-> SwapEntries(r.S, i, j), i |-> i, j |-> j]
Rc4Reset(key) ==
    LET filled == Loop(Rc4State, 16,
                       LAMBDA r, k : Loop(Rc4State, 16, LAMBDA q, m : SetUp(q, key, (16 * k) + m), r),
                       [S |-> [n \in Small |-> n], i |-> 0, j |-> 0])
    IN  [filled EXCEPT !.i = 0, !.j = 0]

NextByte(r) ==
    LET i == (r.i + 1) % 256
        j == (r.j + r.S[i]) % 256
    IN  [S |-> SwapEntries(r.S, i, j), i |-> i, j |-> j]
OutByte(r) == BitsOf(r.S[(r.S[r.i] + r.S[r.j]) % 256])
\* generateKeystreamWord: the word and the state after it.
KeystreamWord(r) ==
    Loop([word : Word32, rc4 : Rc4State], 4,
         LAMBDA w, n : LET q == NextByte(w.rc4) IN [word |-> w.word \cup AtByte(OutByte(q), n), rc4 |-> q],
         [word |-> {}, rc4 |-> r])
\* RC4Drop throws away the first drop words.
Rc4DropReset(key, drop) == Loop(Rc4State, drop, LAMBDA r, n : KeystreamWord(r).rc4, Rc4Reset(key))

-----------------------------------------------------------------------------
(* Rabbit.  X and C have eight words, b is the carry; a block is four      *)
(* words.                                                                  *)

Eight == [1..8 -> Word32]
RabbitState == [X : Eight, C : Eight, b : {0, 1}]

Halves(x, y) == Shl(x, 16) \cup Shr(y, 16)
HighLow(x, y) == (x \cap 16..31) \cup (y \cap 0..15)
Exchanged(x) == Rotl(x, 16)
\* The state from the four words of the key as they are.
RabbitX(K) == <<K[1], Halves(K[4], K[3]), K[2], Halves(K[1], K[4]), K[3], Halves(K[2], K[1]), K[4], Halves(K[3], K[2])>>
RabbitC(K) == <<Exchanged(K[3]), HighLow(K[1], K[2]), Exchanged(K[4]), HighLow(K[2], K[3]),
                Exchanged(K[1]), HighLow(K[3], K[4]), Exchanged(K[2]), HighLow(K[4], K[1])>>

\* Counter n + 1 takes the carry of counter n, found by comparing it with the
\* value it had.
A1 == Word(\h4d34, \hd34d)
A2 == Word(\hd34d, \h34d3)
A3 == Word(\h34d3, \h4d34)
Increments == <<A1, A2, A3, A1, A2, A3, A1, A2>>
Counter(done, c, old) == [C |-> Append(done, c), b |-> IF Less(c, old) THEN 1 ELSE 0]
Counted(C, b) ==
    Loop([C : Seq(Word32), b : {0, 1}], 8,
         LAMBDA d, n : Counter(d.C, Sum3(C[n + 1], Increments[n + 1], IF d.b = 1 THEN {0} ELSE {}), C[n + 1]),
         [C |-> <<>>, b |-> b])

\* x * y modulo 2^32, and the g-function: the square of gx, its high and its
\* low word combined by ^.
Times(x, y) == Loop(Word32, 32, LAMBDA s, i : IF i \in x THEN Add(s, Shl(y, i)) ELSE s, {})
Gh(ga, gb) == Add(Shr(Add(Shr(Times(ga, ga), 17), Times(ga, gb)), 15), Times(gb, gb))
G(gx) == Xor(Gh(gx \cap 0..15, Shr(gx, 16)), Add(Times(gx \cap 16..31, gx), Times(gx \cap 0..15, gx)))
Mixture(g) ==
    LET even(i, h1, h2) == Sum3(g[i], Rotl(g[h1], 16), Rotl(g[h2], 16))
        odd(i, h1, h2) == Sum3(g[i], Rotl(g[h1], 8), g[h2])
    IN  <<even(1, 8, 7), odd(2, 1, 8), even(3, 2, 1), odd(4, 3, 2),
          even(5, 4, 3), odd(6, 5, 4), even(7, 6, 5), odd(8, 7, 6)>>
MixedState(X, d) ==
    [X |-> Mixture(Loop(Seq(Word32), 8, LAMBDA s, n : Append(s, G(Add(X[n + 1], d.C[n + 1]))), <<>>)),
     C |-> d.C, b |-> d.b]
NextState(r) == MixedState(r.X, Counted(r.C, r.b))
FourTimes(r) == Loop(RabbitState, 4, LAMBDA q, n : NextState(q), r)

\* The counters are changed by the state, then by the iv if there is one.
Stirred(r) == [r EXCEPT !.C = [n \in 1..8 |-> Xor(r.C[n], r.X[((n + 3) % 8) + 1])]]
IvWords(i0, i2) == <<i0, HighLow(i2, Shr(i0, 16)), i2, HighLow(Shl(i2, 16), i0)>>
WithIv(r, iv) ==
    LET sub == IvWords(SwapBytes(At(iv, 0)), SwapBytes(At(iv, 1)))
    IN  IF iv = <<>> THEN r
        ELSE FourTimes([r EXCEPT !.C = [n \in 1..8 |-> Xor(r.C[n], sub[((n - 1) % 4) + 1])]])
KeyedState(K, iv) == WithIv(Stirred(FourTimes([X |-> RabbitX(K), C |-> RabbitC(K), b |-> 0])), iv)

\* Rabbit reverses the bytes of the key's words, in the array of the caller.
SwappedKey(words) == [n \in 1..Max({4, Len(words)}) |-> IF n <= 4 THEN SwapBytes(At(words, n - 1)) ELSE words[n]]
RabbitReset(words, iv) == KeyedState(SwappedKey(words), iv)
LegacyReset(words, iv) == KeyedState(Block(words, 0, 4), iv)

Extracted(X) ==
    LET part(a, b, c) == SwapBytes(Xor(Xor(X[a], Shr(X[b], 16)), Shl(X[c], 16)))
    IN  <<part(1, 6, 4), part(3, 8, 6), part(5, 2, 8), part(7, 4, 2)>>
=============================================================================
