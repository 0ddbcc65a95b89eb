---------------------------- MODULE BlockCiphers ----------------------------
(***************************************************************************)
(* The block ciphers of components/: aes.js and tripledes.js (DES and      *)
(* Triple-DES).  For each, the schedule _doReset computes from the key,    *)
(* and encryptBlock and decryptBlock on the words of one block.            *)
(***************************************************************************)
EXTENDS WordArrays

Rotated(x, j) == Rotr(x, 8 * j)
Bytewise(b0, b1, b2, b3) == WordOf(<<b0, b1, b2, b3>>)

-----------------------------------------------------------------------------
(* AES.  The tables follow a walk over the non-zero elements of GF(2^8):   *)
(* x and xi, its inverse, after each step.                                 *)

Double(b) == LET s == {p + 1 : p \in b \ {7}} IN IF 7 \in b THEN Xor(s, {0, 1, 3, 4}) ELSE s
D2(b) == Double(Double(b))
NextElement(e) ==
    LET x == e[1]
        x2 == Double(x)
        x8 == D2(x2)
    IN  IF x = {} THEN <<{0}, {0}>>
        ELSE <<Xor(x2, Double(D2(Xor(x8, x2)))), Xor(e[2], D2(e[2]))>>
GfWalk == Loop(Seq(Byte \X Byte), 16,
               LAMBDA w, k : Loop(Seq(Byte \X Byte), 16, LAMBDA v, m : Append(v, NextElement(v[Len(v)])), w),
               <<<<{}, {}>>>>)

\* A table of 256 entries, all of them computed when it is built.
Table[f \in [Byte -> Word32]] == f
InverseOf == Table[[x \in Byte |-> GfWalk[CHOOSE k \in 1..256 : GfWalk[k][1] = x][2]]]

Affine(xi) ==
    LET r(n) == {(p + n) % 8 : p \in xi} IN Xor(Xor(Xor(xi, r(1)), Xor(r(2), r(3))), Xor(r(4), {0, 1, 5, 6}))
SBOX == Table[[x \in Byte |-> Affine(InverseOf[x])]]
INV_SBOX == Table[[s \in Byte |-> CHOOSE x \in Byte : SBOX[x] = s]]

\* SUB_MIX_3 and INV_SUB_MIX_3; SUB_MIX_0, 1 and 2 are rotations of it.
SUB_MIX == Table[[x \in Byte |-> LET s == SBOX[x] IN Bytewise(s, s, Xor(s, Double(s)), Double(s))]]
INV_SUB_MIX ==
    Table[[s \in Byte |->
        LET x == INV_SBOX[s]
            x2 == Double(x)
            x4 == D2(x)
            x8 == D2(x2)
        IN  Bytewise(Xor(x8, x), Xor(Xor(x8, x4), x), Xor(Xor(x8, x2), x), Xor(Xor(x8, x4), x2))]]
Mixed(mix, j, b) == Rotated(mix[b], j + 1)

SubWord(x) == Bytewise(SBOX[ByteAt(x, 0)], SBOX[ByteAt(x, 1)], SBOX[ByteAt(x, 2)], SBOX[ByteAt(x, 3)])
RCON == <<{}, {0}, {1}, {2}, {3}, {4}, {5}, {6}, {7}, {0, 1, 3, 4}, {1, 2, 4, 5}>>

\* Row ksRow of the schedule of a key of keySize = 4, 6 or 8 words.
NextRow(ks, keySize) ==
    LET ksRow == Len(ks)
        t == ks[ksRow]
        u == CASE ksRow % keySize = 0 -> Xor(SubWord(Rotl(t, 8)), AtByte(RCON[(ksRow \div keySize) + 1], 0))
               [] keySize > 6 /\ ksRow % keySize = 4 -> SubWord(t)
               [] OTHER -> t
    IN  Xor(ks[ksRow - keySize + 1], u)
KeySchedule(key) ==
    LET keySize == key.sigBytes \div 4
    IN  Loop(Seq(Word32), (4 * (keySize + 7)) - keySize, LAMBDA ks, i : Append(ks, NextRow(ks, keySize)),
             SubSeq(key.words, 1, keySize))

InvMixed(t) == Xor(Xor(Mixed(INV_SUB_MIX, 0, SBOX[ByteAt(t, 0)]), Mixed(INV_SUB_MIX, 1, SBOX[ByteAt(t, 1)])),
                   Xor(Mixed(INV_SUB_MIX, 2, SBOX[ByteAt(t, 2)]), Mixed(INV_SUB_MIX, 3, SBOX[ByteAt(t, 3)])))
InvKeySchedule(ks) ==
    [k \in DOMAIN ks |->
        LET ksRow == Len(ks) - (k - 1)
            t == IF (k - 1) % 4 = 0 THEN At(ks, ksRow - 4) ELSE At(ks, ksRow)
        IN  IF k <= 4 \/ ksRow <= 4 THEN t ELSE InvMixed(t)]

AesReset(key) ==
    LET ks == KeySchedule(key)
    IN  [keySchedule |-> ks, invKeySchedule |-> SubSeq(InvKeySchedule(ks), 1, Len(ks))]

\* Column k of a round takes byte j from column k + j.
FourColumns(Col(_, _, _, _, _), s, ks, row) ==
    <<Col(s[1], s[2], s[3], s[4], At(ks, row)), Col(s[2], s[3], s[4], s[1], At(ks, row + 1)),
      Col(s[3], s[4], s[1], s[2], At(ks, row + 2)), Col(s[4], s[1], s[2], s[3], At(ks, row + 3))>>
AesRound(s, ks, row, mix) ==
    FourColumns(LAMBDA a, b, c, d, k :
                    Xor(k, Xor(Xor(Mixed(mix, 0, ByteAt(a, 0)), Mixed(mix, 1, ByteAt(b, 1))),
                               Xor(Mixed(mix, 2, ByteAt(c, 2)), Mixed(mix, 3, ByteAt(d, 3))))), s, ks, row)
LastRound(s, ks, row, sbox) ==
    FourColumns(LAMBDA a, b, c, d, k :
                    Xor(k, Bytewise(sbox[ByteAt(a, 0)], sbox[ByteAt(b, 1)], sbox[ByteAt(c, 2)], sbox[ByteAt(d, 3)])),
                s, ks, row)
AesCrypt(M, ks, mix, sbox) ==
    LET nRounds == (Len(ks) \div 4) - 1
        s == Loop(Seq(Word32), nRounds - 1, LAMBDA t, r : AesRound(t, ks, (4 * r) + 4, mix), XorWords(M, ks))
    IN  LastRound(s, ks, 4 * nRounds, sbox)

\* The inverse exchanges the 2nd and the 4th row before and after.
SwapRows(M) == <<M[1], M[4], M[3], M[2]>>
AesEncrypt(reset, M) == AesCrypt(M, reset.keySchedule, SUB_MIX, SBOX)
AesDecrypt(reset, M) == SwapRows(AesCrypt(SwapRows(M), reset.invKeySchedule, INV_SUB_MIX, INV_SBOX))

-----------------------------------------------------------------------------
(* DES.                                                                    *)

PC1 == <<57, 49, 41, 33, 25, 17, 9,  1,  58, 50, 42, 34, 26, 18, 10, 2,  59, 51, 43, 35, 27, 19, 11, 3,
         60, 52, 44, 36, 63, 55, 47, 39, 31, 23, 15, 7,  62, 54, 46, 38, 30, 22, 14, 6,  61, 53, 45, 37,
         29, 21, 13, 5,  28, 20, 12, 4>>
PC2 == <<14, 17, 11, 24, 1,  5,  3,  28, 15, 6,  21, 10, 23, 19, 12, 4,  26, 8,  16, 7,  27, 20, 13, 2,
         41, 52, 31, 37, 47, 55, 30, 40, 51, 45, 33, 48, 44, 49, 39, 56, 34, 53, 46, 42, 50, 36, 29, 32>>
BIT_SHIFTS == <<1, 2, 4, 6, 8, 10, 12, 14, 15, 17, 19, 21, 23, 25, 27, 28>>

\* The outputs of the eight boxes, by their 6-bit input.  The tables SBOX_P
\* of the code hold each output with its four bits already where the round
\* permutation moves them; Permuted puts them there.
Box1 == <<14, 0, 4, 15, 13, 7, 1, 4, 2, 14, 15, 2, 11, 13, 8, 1, 3, 10, 10, 6, 6, 12, 12, 11, 5, 9, 9, 5, 0, 3, 7, 8,
         4, 15, 1, 12, 14, 8, 8, 2, 13, 4, 6, 9, 2, 1, 11, 7, 15, 5, 12, 11, 9, 3, 7, 14, 3, 10, 10, 0, 5, 6, 0, 13>>
Box2 == <<15, 3, 1, 13, 8, 4, 14, 7, 6, 15, 11, 2, 3, 8, 4, 14, 9, 12, 7, 0, 2, 1, 13, 10, 12, 6, 0, 9, 5, 11, 10, 5,
         0, 13, 14, 8, 7, 10, 11, 1, 10, 3, 4, 15, 13, 4, 1, 2, 5, 11, 8, 6, 12, 7, 6, 12, 9, 0, 3, 5, 2, 14, 15, 9>>
Box3 == <<10, 13, 0, 7, 9, 0, 14, 9, 6, 3, 3, 4, 15, 6, 5, 10, 1, 2, 13, 8, 12, 5, 7, 14, 11, 12, 4, 11, 2, 15, 8, 1,
         13, 1, 6, 10, 4, 13, 9, 0, 8, 6, 15, 9, 3, 8, 0, 7, 11, 4, 1, 15, 2, 14, 12, 3, 5, 11, 10, 5, 14, 2, 7, 12>>
Box4 == <<7, 13, 13, 8, 14, 11, 3, 5, 0, 6, 6, 15, 9, 0, 10, 3, 1, 4, 2, 7, 8, 2, 5, 12, 11, 1, 12, 10, 4, 14, 15, 9,
         10, 3, 6, 15, 9, 0, 0, 6, 12, 10, 11, 1, 7, 13, 13, 8, 15, 9, 1, 4, 3, 5, 14, 11, 5, 12, 2, 7, 8, 2, 4, 14>>
Box5 == <<2, 14, 12, 11, 4, 2, 1, 12, 7, 4, 10, 7, 11, 13, 6, 1, 8, 5, 5, 0, 3, 15, 15, 10, 13, 3, 0, 9, 14, 8, 9, 6,
         4, 11, 2, 8, 1, 12, 11, 7, 10, 1, 13, 14, 7, 2, 8, 13, 15, 6, 9, 15, 12, 0, 5, 9, 6, 10, 3, 4, 0, 5, 14, 3>>
Box6 == <<12, 10, 1, 15, 10, 4, 15, 2, 9, 7, 2, 12, 6, 9, 8, 5, 0, 6, 13, 1, 3, 13, 4, 14, 14, 0, 7, 11, 5, 3, 11, 8,
         9, 4, 14, 3, 15, 2, 5, 12, 2, 9, 8, 5, 12, 15, 3, 10, 7, 11, 0, 14, 4, 1, 10, 7, 1, 6, 13, 0, 11, 8, 6, 13>>
Box7 == <<4, 13, 11, 0, 2, 11, 14, 7, 15, 4, 0, 9, 8, 1, 13, 10, 3, 14, 12, 3, 9, 5, 7, 12, 5, 2, 10, 15, 6, 8, 1, 6,
         1, 6, 4, 11, 11, 13, 13, 8, 12, 1, 3, 4, 7, 10, 14, 7, 10, 9, 15, 5, 6, 0, 8, 15, 0, 14, 5, 2, 9, 3, 2, 12>>
Box8 == <<13, 1, 2, 15, 8, 13, 4, 8, 6, 10, 15, 3, 11, 7, 1, 4, 10, 12, 9, 5, 3, 6, 14, 11, 5, 0, 0, 14, 12, 9, 7, 2,
         7, 2, 11, 1, 4, 14, 1, 7, 9, 4, 12, 10, 14, 8, 2, 13, 0, 15, 6, 12, 10, 9, 13, 0, 15, 3, 3, 5, 5, 6, 8, 11>>

SBoxes == <<Box1, Box2, Box3, Box4, Box5, Box6, Box7, Box8>>
RoundPermutation == <<16, 7, 20, 21, 29, 12, 28, 17, 1, 15, 23, 26, 5, 18, 31, 10,
                      2, 8, 24, 14, 32, 27, 3, 9, 19, 13, 30, 6, 22, 11, 4, 25>>
Permuted(x) == {32 - n : n \in {m \in 1..32 : 32 - RoundPermutation[m] \in x}}

\* The six places SBOX_MASK[i] selects, from the first bit of the input.
Selected(i, k) == (32 - (4 * i) - k + 32) % 32
BoxTable[f \in [0..63 -> Word32]] == f
SBOX_P == [i \in 0..7 |->
             BoxTable[[v \in 0..63 |-> Permuted({p + 28 - (4 * i) : p \in BitsOf(SBoxes[i + 1][v + 1])})]]]
BoxInput(i, x) ==
    LET bit(k) == IF Selected(i, k) \in x THEN 2^(5 - k) ELSE 0
    IN  bit(0) + bit(1) + bit(2) + bit(3) + bit(4) + bit(5)

\* Bit n of the key, counted from 0, and the 56 of them PC1 selects.
KeyBit(words, n) == (31 - (n % 32)) \in At(words, n \div 32)
KeyBits(words) == [i \in 1..56 |-> KeyBit(words, PC1[i] - 1)]
Placed(x, i) == CASE i = 0 -> Rotl(x, 1) [] i \in 1..6 -> Shr(x, (4 * i) - 1) [] i = 7 -> Rotl(x, 5)
SubKey(bits, shift) ==
    LET From(i, k) == IF i < 4 THEN (PC2[(6 * i) + k + 1] - 1 + shift) % 28
                               ELSE 28 + ((PC2[(6 * i) + k + 1] - 1 + shift) % 28)
    IN  [i \in 0..7 |-> Placed({31 - k : k \in {m \in 0..5 : bits[From(i, m) + 1]}}, i)]
DesReset(words) ==
    LET bits == SubSeq(KeyBits(words), 1, 56)
    IN  Loop(Seq([0..7 -> Word32]), 16, LAMBDA ks, n : Append(ks, SubKey(bits, BIT_SHIFTS[n + 1])), <<>>)

\* Swap bits across the left and the right word: b = <<left, right>>.
ExchangeLR(b, n, mask) ==
    LET t == Xor(Shr(b[1], n), b[2]) \cap mask IN <<Xor(b[1], Shl(t, n)), Xor(b[2], t)>>
ExchangeRL(b, n, mask) ==
    LET t == Xor(Shr(b[2], n), b[1]) \cap mask IN <<Xor(b[1], t), Xor(b[2], Shl(t, n))>>
Mask4 == Word(\h0f0f, \h0f0f)
Mask16 == Word(\h0000, \hffff)
Mask2 == Word(\h3333, \h3333)
Mask8 == Word(\h00ff, \h00ff)
Mask1 == Word(\h5555, \h5555)
InitialPermutation(b) ==
    ExchangeLR(ExchangeRL(ExchangeRL(ExchangeLR(ExchangeLR(b, 4, Mask4), 16, Mask16), 2, Mask2), 8, Mask8), 1, Mask1)
FinalPermutation(b) ==
    ExchangeLR(ExchangeLR(ExchangeRL(ExchangeRL(ExchangeLR(b, 1, Mask1), 8, Mask8), 2, Mask2), 16, Mask16), 4, Mask4)

Feistel(x, subKey) == UNION {SBOX_P[i][BoxInput(i, Xor(x, subKey[i]))] : i \in 0..7}
DesRound(b, subKey) == <<b[2], Xor(b[1], Feistel(b[2], subKey))>>
DesCrypt(M, subKeys) ==
    LET b == Loop(Seq(Word32), 16, LAMBDA c, n : DesRound(c, subKeys[n + 1]), InitialPermutation(M))
    IN  FinalPermutation(<<b[2], b[1]>>)
InvSubKeys(subKeys) == [n \in 1..16 |-> subKeys[17 - n]]
DesEncrypt(subKeys, M) == DesCrypt(M, subKeys)
DesDecrypt(subKeys, M) == DesCrypt(M, InvSubKeys(subKeys))

\* Three keys of two words; keySize is 6 words, missing ones are 0 bits.
TripleDesReset(words) ==
    [des1 |-> DesReset(Block(words, 0, 2)), des2 |-> DesReset(Block(words, 2, 2)),
     des3 |-> DesReset(Block(words, 4, 2))]
TripleDesEncrypt(r, M) == DesEncrypt(r.des3, DesDecrypt(r.des2, DesEncrypt(r.des1, M)))
TripleDesDecrypt(r, M) == DesDecrypt(r.des1, DesEncrypt(r.des2, DesDecrypt(r.des3, M)))
=============================================================================
