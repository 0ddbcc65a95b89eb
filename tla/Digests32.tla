------------------------------ MODULE Digests32 ------------------------------
(***************************************************************************)
(* The digests of components/ that compute with 32-bit words: md5.js,      *)
(* sha1.js, sha256.js, sha224.js and ripemd160.js.  For each, the initial  *)
(* chaining value, one block (the chaining value after _doProcessBlock,    *)
(* M the block's 16 words), and the words _doFinalize writes after the     *)
(* data.                                                                   *)
(***************************************************************************)
EXTENDS WordArrays

Words(halves) == [i \in DOMAIN halves |-> Word(halves[i][1], halves[i][2])]
Chain == Seq(Word32)
\* Chaining values of n words, which the steps of a block start from and keep.
States(n) == [1..n -> Word32]

\* H[i] = (H[i] + v[i]) | 0
AddWords(x, y) == [i \in DOMAIN x |-> Add(x[i], y[i])]

\* (b & c) | (~b & d), the parity and the majority of three words.
Choose(b, c, d) == (b \cap c) \cup (d \ b)
Parity(b, c, d) == Xor(Xor(b, c), d)
Majority(b, c, d) == (b \cap c) \cup (b \cap d) \cup (c \cap d)

-----------------------------------------------------------------------------
(* MD5.                                                                    *)

T == Words(<<
    <<\hd76a, \ha478>>, <<\he8c7, \hb756>>, <<\h2420, \h70db>>, <<\hc1bd, \hceee>>,
    <<\hf57c, \h0faf>>, <<\h4787, \hc62a>>, <<\ha830, \h4613>>, <<\hfd46, \h9501>>,
    <<\h6980, \h98d8>>, <<\h8b44, \hf7af>>, <<\hffff, \h5bb1>>, <<\h895c, \hd7be>>,
    <<\h6b90, \h1122>>, <<\hfd98, \h7193>>, <<\ha679, \h438e>>, <<\h49b4, \h0821>>,
    <<\hf61e, \h2562>>, <<\hc040, \hb340>>, <<\h265e, \h5a51>>, <<\he9b6, \hc7aa>>,
    <<\hd62f, \h105d>>, <<\h0244, \h1453>>, <<\hd8a1, \he681>>, <<\he7d3, \hfbc8>>,
    <<\h21e1, \hcde6>>, <<\hc337, \h07d6>>, <<\hf4d5, \h0d87>>, <<\h455a, \h14ed>>,
    <<\ha9e3, \he905>>, <<\hfcef, \ha3f8>>, <<\h676f, \h02d9>>, <<\h8d2a, \h4c8a>>,
    <<\hfffa, \h3942>>, <<\h8771, \hf681>>, <<\h6d9d, \h6122>>, <<\hfde5, \h380c>>,
    <<\ha4be, \hea44>>, <<\h4bde, \hcfa9>>, <<\hf6bb, \h4b60>>, <<\hbebf, \hbc70>>,
    <<\h289b, \h7ec6>>, <<\heaa1, \h27fa>>, <<\hd4ef, \h3085>>, <<\h0488, \h1d05>>,
    <<\hd9d4, \hd039>>, <<\he6db, \h99e5>>, <<\h1fa2, \h7cf8>>, <<\hc4ac, \h5665>>,
    <<\hf429, \h2244>>, <<\h432a, \hff97>>, <<\hab94, \h23a7>>, <<\hfc93, \ha039>>,
    <<\h655b, \h59c3>>, <<\h8f0c, \hcc92>>, <<\hffef, \hf47d>>, <<\h8584, \h5dd1>>,
    <<\h6fa8, \h7e4f>>, <<\hfe2c, \he6e0>>, <<\ha301, \h4314>>, <<\h4e08, \h11a1>>,
    <<\hf753, \h7e82>>, <<\hbd3a, \hf235>>, <<\h2ad7, \hd2bb>>, <<\heb86, \hd391>>>>)

Md5Reset == Words(<<<<\h6745, \h2301>>, <<\hefcd, \hab89>>, <<\h98ba, \hdcfe>>, <<\h1032, \h5476>>>>)

FF(b, c, d) == Choose(b, c, d)
GG(b, c, d) == (b \cap d) \cup (c \ d)
HH(b, c, d) == Parity(b, c, d)
II(b, c, d) == Xor(c, b \cup Not(d))

\* The word of the block and the rotation that step i uses.
Md5Word(i) == CASE i \div 16 = 0 -> i % 16
                [] i \div 16 = 1 -> (5 * i + 1) % 16
                [] i \div 16 = 2 -> (3 * i + 5) % 16
                [] i \div 16 = 3 -> (7 * i) % 16
Md5Shift == <<<<7, 12, 17, 22>>, <<5, 9, 14, 20>>, <<4, 11, 16, 23>>, <<6, 10, 15, 21>>>>

\* v = <<a, b, c, d>>; the step's target rotates through a, d, c, b.
Md5Step(M, v, i) ==
    LET f == CASE i \div 16 = 0 -> FF(v[2], v[3], v[4])
               [] i \div 16 = 1 -> GG(v[2], v[3], v[4])
               [] i \div 16 = 2 -> HH(v[2], v[3], v[4])
               [] i \div 16 = 3 -> II(v[2], v[3], v[4])
        n == Sum4(v[1], f, SwapBytes(M[Md5Word(i) + 1]), T[i + 1])
    IN  <<v[4], Add(Rotl(n, Md5Shift[(i \div 16) + 1][(i % 4) + 1]), v[2]), v[2], v[3]>>

Md5Block(H, M) == AddWords(H, Loop(States(4), 64, LAMBDA v, i : Md5Step(M, v, i), H))

-----------------------------------------------------------------------------
(* SHA-1.                                                                  *)

Sha1Reset == Words(<<<<\h6745, \h2301>>, <<\hefcd, \hab89>>, <<\h98ba, \hdcfe>>, <<\h1032, \h5476>>, <<\hc3d2, \he1f0>>>>)

\* The schedule W[0..79]; it is complete before the rounds here, and extended
\* at the start of each round in the code.
Sha1Schedule(M) ==
    Loop(Chain, 64,
         LAMBDA W, j : Append(W, Rotl(Xor(Xor(At(W, j + 13), At(W, j + 8)), Xor(At(W, j + 2), At(W, j))), 1)), M)

Sha1Group(b, c, d, i) ==
    CASE i < 20             -> Add(Choose(b, c, d), Word(\h5a82, \h7999))
      [] i >= 20 /\ i < 40  -> Add(Parity(b, c, d), Word(\h6ed9, \heba1))
      [] i >= 40 /\ i < 60  -> Add(Majority(b, c, d), Word(\h8f1b, \hbcdc))
      [] i >= 60            -> Add(Parity(b, c, d), Word(\hca62, \hc1d6))

Sha1Round(W, v, i) ==
    <<Sum4(Rotl(v[1], 5), v[5], At(W, i), Sha1Group(v[2], v[3], v[4], i)),
      v[1], Rotl(v[2], 30), v[3], v[4]>>

Sha1Block(H, M) ==
    LET W == Sha1Schedule(M) IN AddWords(H, Loop(States(5), 80, LAMBDA v, i : Sha1Round(W, v, i), H))

-----------------------------------------------------------------------------
(* SHA-256 and SHA-224.                                                    *)

Sha256Reset == Words(<<
    <<\h6a09, \he667>>, <<\hbb67, \hae85>>, <<\h3c6e, \hf372>>, <<\ha54f, \hf53a>>,
    <<\h510e, \h527f>>, <<\h9b05, \h688c>>, <<\h1f83, \hd9ab>>, <<\h5be0, \hcd19>>>>)
K256 == Words(<<
    <<\h428a, \h2f98>>, <<\h7137, \h4491>>, <<\hb5c0, \hfbcf>>, <<\he9b5, \hdba5>>,
    <<\h3956, \hc25b>>, <<\h59f1, \h11f1>>, <<\h923f, \h82a4>>, <<\hab1c, \h5ed5>>,
    <<\hd807, \haa98>>, <<\h1283, \h5b01>>, <<\h2431, \h85be>>, <<\h550c, \h7dc3>>,
    <<\h72be, \h5d74>>, <<\h80de, \hb1fe>>, <<\h9bdc, \h06a7>>, <<\hc19b, \hf174>>,
    <<\he49b, \h69c1>>, <<\hefbe, \h4786>>, <<\h0fc1, \h9dc6>>, <<\h240c, \ha1cc>>,
    <<\h2de9, \h2c6f>>, <<\h4a74, \h84aa>>, <<\h5cb0, \ha9dc>>, <<\h76f9, \h88da>>,
    <<\h983e, \h5152>>, <<\ha831, \hc66d>>, <<\hb003, \h27c8>>, <<\hbf59, \h7fc7>>,
    <<\hc6e0, \h0bf3>>, <<\hd5a7, \h9147>>, <<\h06ca, \h6351>>, <<\h1429, \h2967>>,
    <<\h27b7, \h0a85>>, <<\h2e1b, \h2138>>, <<\h4d2c, \h6dfc>>, <<\h5338, \h0d13>>,
    <<\h650a, \h7354>>, <<\h766a, \h0abb>>, <<\h81c2, \hc92e>>, <<\h9272, \h2c85>>,
    <<\ha2bf, \he8a1>>, <<\ha81a, \h664b>>, <<\hc24b, \h8b70>>, <<\hc76c, \h51a3>>,
    <<\hd192, \he819>>, <<\hd699, \h0624>>, <<\hf40e, \h3585>>, <<\h106a, \ha070>>,
    <<\h19a4, \hc116>>, <<\h1e37, \h6c08>>, <<\h2748, \h774c>>, <<\h34b0, \hbcb5>>,
    <<\h391c, \h0cb3>>, <<\h4ed8, \haa4a>>, <<\h5b9c, \hca4f>>, <<\h682e, \h6ff3>>,
    <<\h748f, \h82ee>>, <<\h78a5, \h636f>>, <<\h84c8, \h7814>>, <<\h8cc7, \h0208>>,
    <<\h90be, \hfffa>>, <<\ha450, \h6ceb>>, <<\hbef9, \ha3f7>>, <<\hc671, \h78f2>>>>)
Sha224Reset == Words(<<
    <<\hc105, \h9ed8>>, <<\h367c, \hd507>>, <<\h3070, \hdd17>>, <<\hf70e, \h5939>>,
    <<\hffc0, \h0b31>>, <<\h6858, \h1511>>, <<\h64f9, \h8fa7>>, <<\hbefa, \h4fa4>>>>)

Gamma0(x) == Xor(Xor(Rotr(x, 7), Rotr(x, 18)), Shr(x, 3))
Gamma1(x) == Xor(Xor(Rotr(x, 17), Rotr(x, 19)), Shr(x, 10))
Sigma0(x) == Xor(Xor(Rotr(x, 2), Rotr(x, 13)), Rotr(x, 22))
Sigma1(x) == Xor(Xor(Rotr(x, 6), Rotr(x, 11)), Rotr(x, 25))

Sha256Schedule(M) ==
    Loop(Chain, 48,
         LAMBDA W, j : Append(W, Sum4(Gamma0(At(W, j + 1)), At(W, j + 9), Gamma1(At(W, j + 14)), At(W, j))), M)

Sha256Round(W, v, i) ==
    LET ch == Xor(v[5] \cap v[6], v[7] \ v[5])
        maj == Xor(Xor(v[1] \cap v[2], v[1] \cap v[3]), v[2] \cap v[3])
        t1 == Add(Sum4(v[8], Sigma1(v[5]), ch, K256[i + 1]), At(W, i))
    IN  <<Sum3(t1, Sigma0(v[1]), maj), v[1], v[2], v[3], Add(v[4], t1), v[5], v[6], v[7]>>

Sha256Block(H, M) ==
    LET W == Sha256Schedule(M) IN AddWords(H, Loop(States(8), 64, LAMBDA v, i : Sha256Round(W, v, i), H))

-----------------------------------------------------------------------------
(* RIPEMD-160: two lines over the same block.                              *)

zl == <<0, 1, 2, 3, 4, 5, 6, 7, 8, 9, 10, 11, 12, 13, 14, 15,
      7, 4, 13, 1, 10, 6, 15, 3, 12, 0, 9, 5, 2, 14, 11, 8,
      3, 10, 14, 4, 9, 15, 8, 1, 2, 7, 0, 6, 13, 11, 5, 12,
      1, 9, 11, 10, 0, 8, 12, 4, 13, 3, 7, 15, 14, 5, 6, 2,
      4, 0, 5, 9, 7, 12, 2, 10, 14, 1, 3, 8, 11, 6, 15, 13>>
zr == <<5, 14, 7, 0, 9, 2, 11, 4, 13, 6, 15, 8, 1, 10, 3, 12,
      6, 11, 3, 7, 0, 13, 5, 10, 14, 15, 8, 12, 4, 9, 1, 2,
      15, 5, 1, 3, 7, 14, 6, 9, 11, 8, 12, 2, 10, 0, 4, 13,
      8, 6, 4, 1, 3, 11, 15, 0, 5, 12, 2, 13, 9, 7, 10, 14,
      12, 15, 10, 4, 1, 5, 8, 7, 6, 2, 13, 14, 0, 3, 9, 11>>
sl == <<11, 14, 15, 12, 5, 8, 7, 9, 11, 13, 14, 15, 6, 7, 9, 8,
      7, 6, 8, 13, 11, 9, 7, 15, 7, 12, 15, 9, 11, 7, 13, 12,
      11, 13, 6, 7, 14, 9, 13, 15, 14, 8, 13, 6, 5, 12, 7, 5,
      11, 12, 14, 15, 14, 15, 9, 8, 9, 14, 5, 6, 8, 6, 5, 12,
      9, 15, 5, 11, 6, 8, 13, 12, 5, 12, 13, 14, 11, 8, 5, 6>>
sr == <<8, 9, 9, 11, 13, 15, 15, 5, 7, 7, 8, 11, 14, 14, 12, 6,
      9, 13, 15, 7, 12, 8, 9, 11, 7, 7, 12, 7, 6, 15, 13, 11,
      9, 7, 15, 11, 8, 6, 6, 14, 12, 13, 5, 14, 13, 13, 7, 5,
      15, 5, 8, 11, 14, 14, 6, 14, 6, 9, 12, 9, 12, 5, 15, 8,
      8, 5, 12, 9, 12, 5, 14, 6, 8, 13, 6, 5, 15, 13, 11, 11>>

hl == Words(<<<<\h0000, \h0000>>, <<\h5a82, \h7999>>, <<\h6ed9, \heba1>>, <<\h8f1b, \hbcdc>>, <<\ha953, \hfd4e>>>>)
hr == Words(<<<<\h50a2, \h8be6>>, <<\h5c4d, \hd124>>, <<\h6d70, \h3ef3>>, <<\h7a6d, \h76e9>>, <<\h0000, \h0000>>>>)

\* f1 .. f5
F160(k, x, y, z) == CASE k = 1 -> Parity(x, y, z)
                      [] k = 2 -> Choose(x, y, z)
                      [] k = 3 -> Xor(x \cup Not(y), z)
                      [] k = 4 -> (x \cap z) \cup (y \ z)
                      [] k = 5 -> Xor(x, y \cup Not(z))

\* One step of one line: v = <<a, b, c, d, e>>.
Ripemd160Step(v, f, x, h, s) ==
    <<v[5], Add(Rotl(Sum4(v[1], f, x, h), s), v[5]), v[2], Rotl(v[3], 10), v[4]>>

Ripemd160Left(M, v, i) ==
    Ripemd160Step(v, F160((i \div 16) + 1, v[2], v[3], v[4]),
                  SwapBytes(M[zl[i + 1] + 1]), hl[(i \div 16) + 1], sl[i + 1])
Ripemd160Right(M, v, i) ==
    Ripemd160Step(v, F160(5 - (i \div 16), v[2], v[3], v[4]),
                  SwapBytes(M[zr[i + 1] + 1]), hr[(i \div 16) + 1], sr[i + 1])

Ripemd160Reset == Sha1Reset

Ripemd160Block(H, M) ==
    LET l == Loop(States(5), 80, LAMBDA v, i : Ripemd160Left(M, v, i), H)
        r == Loop(States(5), 80, LAMBDA v, i : Ripemd160Right(M, v, i), H)
    IN  [k \in 1..5 |-> Sum3(H[(k % 5) + 1], l[((k + 1) % 5) + 1], r[((k + 2) % 5) + 1])]

-----------------------------------------------------------------------------
(* The end of the message.  A 1-bit after the last significant byte is     *)
(* or-ed into whatever the buffer holds there; the length in bits, in the  *)
(* last two words of the last block, is set.  The high word of the length  *)
(* is 0: no message of the model has 2^29 bytes.                           *)

MarkEnd(data, bit) ==
    LET k == data.sigBytes \div 4
        mark == Shl({bit}, 24 - (8 * (data.sigBytes % 4)))
    IN  SetAt(data.words, k, At(data.words, k) \cup mark)

LengthAt(data) == (((8 * data.sigBytes) + 64) \div 512) * 16 + 14

ShaPad(data, nDataBytes) ==
    Create(SetAt(SetAt(MarkEnd(data, 7), LengthAt(data), {}), LengthAt(data) + 1, WordOfNat(8 * nDataBytes)))

\* data.sigBytes = (dataWords.length + 1) * 4
OneWordMore(words) == WordArray(words, 4 * (Len(words) + 1))
Md5Pad(data, nDataBytes) ==
    OneWordMore(SetAt(SetAt(MarkEnd(data, 7), LengthAt(data) + 1, {}),
                      LengthAt(data), SwapBytes(WordOfNat(8 * nDataBytes))))

Ripemd160Pad(data, nDataBytes) ==
    OneWordMore(SetAt(MarkEnd(data, 7), LengthAt(data), SwapBytes(WordOfNat(8 * nDataBytes))))

\* The bytes of each word of the digest are swapped; the array is as long.
SwapAll(H) == [i \in DOMAIN H |-> SwapBytes(H[i])]
=============================================================================
