------------------------------ MODULE Digests64 ------------------------------
(***************************************************************************)
(* The digests that compute with 64-bit words, which the scripts keep as   *)
(* the two 32-bit halves of x64-core.js: sha512.js, sha384.js and sha3.js. *)
(* A carry between the halves is recognised by comparing the sum of the    *)
(* low halves with one of its summands.                                    *)
(***************************************************************************)
EXTENDS Digests32

X64Word(high, low) == [high |-> high, low |-> low]
Lane == [high : Word32, low : Word32]
ZeroWord == X64Word({}, {})
X64Words(quarters) ==
    [i \in DOMAIN quarters |-> X64Word(Word(quarters[i][1], quarters[i][2]), Word(quarters[i][3], quarters[i][4]))]

\* toX32
ToX32(x64Words) ==
    [k \in 1..2 * Len(x64Words) |->
        IF k % 2 = 1 THEN x64Words[(k + 1) \div 2].high ELSE x64Words[k \div 2].low]

Xor64(x, y) == X64Word(Xor(x.high, y.high), Xor(x.low, y.low))
And64(x, y) == X64Word(x.high \cap y.high, x.low \cap y.low)
AndNot64(x, y) == X64Word(x.high \ y.high, x.low \ y.low)
Shr64(x, n) == X64Word(Shr(x.high, n), Shr(x.low, n) \cup Shl(x.high, 32 - n))
Swapped(x) == X64Word(x.low, x.high)
Rotr64(x, n) ==
    IF n < 32
      THEN X64Word(Shr(x.high, n) \cup Shl(x.low, 32 - n), Shr(x.low, n) \cup Shl(x.high, 32 - n))
      ELSE X64Word(Shr(x.low, n - 32) \cup Shl(x.high, 64 - n), Shr(x.high, n - 32) \cup Shl(x.low, 64 - n))

\* low = x.low + y.low; high = x.high + y.high + ((low >>> 0) < (y.low >>> 0) ? 1 : 0)
Carry(sum, summand) == IF Less(sum, summand) THEN {0} ELSE {}
Add64(x, y) ==
    LET low == Add(x.low, y.low)
    IN  X64Word(Sum3(x.high, y.high, Carry(low, y.low)), low)

-----------------------------------------------------------------------------
(* SHA-512 and SHA-384.                                                    *)

States64(n) == [1..n -> Lane]
Sha512Reset == X64Words(<<
    <<\h6a09, \he667, \hf3bc, \hc908>>, <<\hbb67, \hae85, \h84ca, \ha73b>>, <<\h3c6e, \hf372, \hfe94, \hf82b>>,
    <<\ha54f, \hf53a, \h5f1d, \h36f1>>, <<\h510e, \h527f, \hade6, \h82d1>>, <<\h9b05, \h688c, \h2b3e, \h6c1f>>,
    <<\h1f83, \hd9ab, \hfb41, \hbd6b>>, <<\h5be0, \hcd19, \h137e, \h2179>>>>)
Sha384Reset == X64Words(<<
    <<\hcbbb, \h9d5d, \hc105, \h9ed8>>, <<\h629a, \h292a, \h367c, \hd507>>, <<\h9159, \h015a, \h3070, \hdd17>>,
    <<\h152f, \hecd8, \hf70e, \h5939>>, <<\h6733, \h2667, \hffc0, \h0b31>>, <<\h8eb4, \h4a87, \h6858, \h1511>>,
    <<\hdb0c, \h2e0d, \h64f9, \h8fa7>>, <<\h47b5, \h481d, \hbefa, \h4fa4>>>>)
K512 == X64Words(<<
    <<\h428a, \h2f98, \hd728, \hae22>>, <<\h7137, \h4491, \h23ef, \h65cd>>, <<\hb5c0, \hfbcf, \hec4d, \h3b2f>>,
    <<\he9b5, \hdba5, \h8189, \hdbbc>>, <<\h3956, \hc25b, \hf348, \hb538>>, <<\h59f1, \h11f1, \hb605, \hd019>>,
    <<\h923f, \h82a4, \haf19, \h4f9b>>, <<\hab1c, \h5ed5, \hda6d, \h8118>>, <<\hd807, \haa98, \ha303, \h0242>>,
    <<\h1283, \h5b01, \h4570, \h6fbe>>, <<\h2431, \h85be, \h4ee4, \hb28c>>, <<\h550c, \h7dc3, \hd5ff, \hb4e2>>,
    <<\h72be, \h5d74, \hf27b, \h896f>>, <<\h80de, \hb1fe, \h3b16, \h96b1>>, <<\h9bdc, \h06a7, \h25c7, \h1235>>,
    <<\hc19b, \hf174, \hcf69, \h2694>>, <<\he49b, \h69c1, \h9ef1, \h4ad2>>, <<\hefbe, \h4786, \h384f, \h25e3>>,
    <<\h0fc1, \h9dc6, \h8b8c, \hd5b5>>, <<\h240c, \ha1cc, \h77ac, \h9c65>>, <<\h2de9, \h2c6f, \h592b, \h0275>>,
    <<\h4a74, \h84aa, \h6ea6, \he483>>, <<\h5cb0, \ha9dc, \hbd41, \hfbd4>>, <<\h76f9, \h88da, \h8311, \h53b5>>,
    <<\h983e, \h5152, \hee66, \hdfab>>, <<\ha831, \hc66d, \h2db4, \h3210>>, <<\hb003, \h27c8, \h98fb, \h213f>>,
    <<\hbf59, \h7fc7, \hbeef, \h0ee4>>, <<\hc6e0, \h0bf3, \h3da8, \h8fc2>>, <<\hd5a7, \h9147, \h930a, \ha725>>,
    <<\h06ca, \h6351, \he003, \h826f>>, <<\h1429, \h2967, \h0a0e, \h6e70>>, <<\h27b7, \h0a85, \h46d2, \h2ffc>>,
    <<\h2e1b, \h2138, \h5c26, \hc926>>, <<\h4d2c, \h6dfc, \h5ac4, \h2aed>>, <<\h5338, \h0d13, \h9d95, \hb3df>>,
    <<\h650a, \h7354, \h8baf, \h63de>>, <<\h766a, \h0abb, \h3c77, \hb2a8>>, <<\h81c2, \hc92e, \h47ed, \haee6>>,
    <<\h9272, \h2c85, \h1482, \h353b>>, <<\ha2bf, \he8a1, \h4cf1, \h0364>>, <<\ha81a, \h664b, \hbc42, \h3001>>,
    <<\hc24b, \h8b70, \hd0f8, \h9791>>, <<\hc76c, \h51a3, \h0654, \hbe30>>, <<\hd192, \he819, \hd6ef, \h5218>>,
    <<\hd699, \h0624, \h5565, \ha910>>, <<\hf40e, \h3585, \h5771, \h202a>>, <<\h106a, \ha070, \h32bb, \hd1b8>>,
    <<\h19a4, \hc116, \hb8d2, \hd0c8>>, <<\h1e37, \h6c08, \h5141, \hab53>>, <<\h2748, \h774c, \hdf8e, \heb99>>,
    <<\h34b0, \hbcb5, \he19b, \h48a8>>, <<\h391c, \h0cb3, \hc5c9, \h5a63>>, <<\h4ed8, \haa4a, \he341, \h8acb>>,
    <<\h5b9c, \hca4f, \h7763, \he373>>, <<\h682e, \h6ff3, \hd6b2, \hb8a3>>, <<\h748f, \h82ee, \h5def, \hb2fc>>,
    <<\h78a5, \h636f, \h4317, \h2f60>>, <<\h84c8, \h7814, \ha1f0, \hab72>>, <<\h8cc7, \h0208, \h1a64, \h39ec>>,
    <<\h90be, \hfffa, \h2363, \h1e28>>, <<\ha450, \h6ceb, \hde82, \hbde9>>, <<\hbef9, \ha3f7, \hb2c6, \h7915>>,
    <<\hc671, \h78f2, \he372, \h532b>>, <<\hca27, \h3ece, \hea26, \h619c>>, <<\hd186, \hb8c7, \h21c0, \hc207>>,
    <<\heada, \h7dd6, \hcde0, \heb1e>>, <<\hf57d, \h4f7f, \hee6e, \hd178>>, <<\h06f0, \h67aa, \h7217, \h6fba>>,
    <<\h0a63, \h7dc5, \ha2c8, \h98a6>>, <<\h113f, \h9804, \hbef9, \h0dae>>, <<\h1b71, \h0b35, \h131c, \h471b>>,
    <<\h28db, \h77f5, \h2304, \h7d84>>, <<\h32ca, \hab7b, \h40c7, \h2493>>, <<\h3c9e, \hbe0a, \h15c9, \hbebc>>,
    <<\h431d, \h67c4, \h9c10, \h0d4c>>, <<\h4cc5, \hd4be, \hcb3e, \h42b6>>, <<\h597f, \h299c, \hfc65, \h7e2a>>,
    <<\h5fcb, \h6fab, \h3ad6, \hfaec>>, <<\h6c44, \h198c, \h4a47, \h5817>>>>)

X64At(W, i) == W[i + 1]
Sigma64(x, k, m, n) == Xor64(Xor64(Rotr64(x, k), Rotr64(x, m)), Rotr64(x, n))
Gamma0of64(x) == Xor64(Xor64(Rotr64(x, 1), Rotr64(x, 8)), Shr64(x, 7))
Gamma1of64(x) == Xor64(Xor64(Rotr64(x, 19), Rotr64(x, 61)), Shr64(x, 6))

\* W[i] = gamma0 + W[i - 7] + gamma1 + W[i - 16], in the 80 words that are
\* made once.
Extend512(W, j) ==
    [W EXCEPT ![j + 17] = Add64(Add64(Add64(X64At(W, j + 9), Gamma0of64(X64At(W, j + 1))), Gamma1of64(X64At(W, j + 14))),
                                X64At(W, j))]
Sha512Schedule(M) ==
    Loop(States64(80), 64, Extend512, [i \in 1..80 |-> IF i <= 16 THEN X64Word(M[2 * i - 1], M[2 * i]) ELSE ZeroWord])

Sha512Round(W, v, i) ==
    LET ch == Xor64(And64(v[5], v[6]), AndNot64(v[7], v[5]))
        maj == Xor64(Xor64(And64(v[1], v[2]), And64(v[1], v[3])), And64(v[2], v[3]))
        t1 == Add64(Add64(Add64(Add64(Sigma64(v[5], 14, 18, 41), v[8]), ch), K512[i + 1]), X64At(W, i))
        t2 == Add64(maj, Sigma64(v[1], 28, 34, 39))
    IN  <<Add64(t2, t1), v[1], v[2], v[3], Add64(t1, v[4]), v[5], v[6], v[7]>>

Sha512Block(H, M) ==
    LET W == Sha512Schedule(M)
        v == Loop(States64(8), 80, LAMBDA u, i : Sha512Round(W, u, i), H)
    IN  [k \in 1..8 |-> Add64(H[k], v[k])]

Sha512Pad(data, nDataBytes) ==
    LET last == ((((8 * data.sigBytes) + 128) \div 1024) * 32) + 30
    IN  Create(SetAt(SetAt(MarkEnd(data, 7), last, {}), last + 1, WordOfNat(8 * nDataBytes)))

-----------------------------------------------------------------------------
(* SHA-3 as of 2012: the pad bit is the one of the Keccak submission.      *)
(* The lane of column x and row y is number x + 5 * y.                     *)

LaneIndex == 0..24
Keccak == [LaneIndex -> Lane]
ZeroState == [i \in LaneIndex |-> ZeroWord]
Sha3BlockSize(outputLength) == (1600 - (2 * outputLength)) \div 32

\* The walk over the 24 lanes other than (0, 0), and the offset each gets on
\* the way.
WalkOn(w, t) ==
    [x |-> w.y % 5, y |-> ((2 * w.x) + (3 * w.y)) % 5,
     offsets |-> [w.offsets EXCEPT ![w.x + (5 * w.y)] = (((t + 1) * (t + 2)) \div 2) % 64]]
RhoOffsets ==
    LET Walks == [x : 0..4, y : 0..4, offsets : [LaneIndex -> 0..63]]
    IN  Loop(Walks, 24, WalkOn, [x |-> 1, y |-> 0, offsets |-> [i \in LaneIndex |-> 0]]).offsets
PiIndexes == [i \in LaneIndex |-> (i \div 5) + (5 * (((2 * (i % 5)) + (3 * (i \div 5))) % 5))]

PiSource == [k \in LaneIndex |-> CHOOSE i \in LaneIndex : PiIndexes[i] = k]

\* x^8 + x^6 + x^5 + x^4 + 1: the register of 7 * 24 bits, 7 for each round.
NextLfsr(lfsr) == LET s == {p + 1 : p \in lfsr} IN IF 7 \in lfsr THEN Xor(s, {0, 4, 5, 6}) \ {8} ELSE s
Lfsr == Loop(Seq(Byte), 167, LAMBDA r, i : Append(r, NextLfsr(r[i + 1])), <<{0}>>)
RoundConstants ==
    [i \in 0..23 |->
        LET places == {(2^j) - 1 : j \in {k \in 0..6 : 0 \in Lfsr[(7 * i) + k + 1]}}
        IN  X64Word({p - 32 : p \in places \cap 32..63}, places \cap 0..31)]

Absorb(state, M) ==
    [i \in LaneIndex |->
        IF 2 * i >= Len(M) THEN state[i]
        ELSE Xor64(state[i], X64Word(SwapBytes(M[(2 * i) + 2]), SwapBytes(M[(2 * i) + 1])))]

\* (lane << n) | (lane >>> (64 - n)) on the halves; n is neither 0 nor 32 here.
Rotl64(x, n) == Rotr64(x, 64 - n)

Column == [0..4 -> Lane]
Parities(state) ==
    [x \in 0..4 |-> Xor64(Xor64(Xor64(state[x], state[x + 5]), Xor64(state[x + 10], state[x + 15])), state[x + 20])]
Neighbours[T5 \in Column] == [x \in 0..4 |-> Xor64(T5[(x + 4) % 5], Rotl64(T5[(x + 1) % 5], 1))]
Theta[state \in Keccak] ==
    LET Mixed[mix \in Column] == [i \in LaneIndex |-> Xor64(state[i], mix[i % 5])]
    IN  Mixed[Neighbours[Parities(state)]]

RhoPi[state \in Keccak] ==
    [k \in LaneIndex |->
        LET i == PiSource[k] IN IF i = 0 THEN state[0] ELSE Rotl64(state[i], RhoOffsets[i])]

Chi[lanes \in Keccak] ==
    [i \in LaneIndex |->
        LET row == 5 * (i \div 5)
        IN  Xor64(lanes[i], AndNot64(lanes[((i + 2) % 5) + row], lanes[((i + 1) % 5) + row]))]

Iota(state, round) == [state EXCEPT ![0] = Xor64(@, RoundConstants[round])]

Sha3Block(state, M) ==
    Loop(Keccak, 24, LAMBDA s, round : Iota(Chi[RhoPi[Theta[s]]], round), Absorb(state, M))

Sha3Pad(data, outputLength) ==
    LET size == 4 * Sha3BlockSize(outputLength)
        marked == MarkEnd(data, 0)
        last == (((data.sigBytes + size) \div size) * Sha3BlockSize(outputLength)) - 1
    IN  Create(SetAt(marked, last, At(marked, last) \cup {7}))

Squeeze(state, outputLength) ==
    WordArray(SwapAll([k \in 1..2 * ((outputLength + 63) \div 64) |->
                  IF k % 2 = 1 THEN state[k \div 2].low ELSE state[(k \div 2) - 1].high]),
              outputLength \div 8)
=============================================================================
