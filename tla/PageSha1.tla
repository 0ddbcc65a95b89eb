------------------------------ MODULE PageSha1 ------------------------------
(***************************************************************************)
(* static/js/sha1.js, the SHA-1 the pages call: functions on strings, with *)
(* chrsz = 8 bits a character, hexcase = 0 and an empty b64pad.            *)
(***************************************************************************)
EXTENDS WordArrays

\* A character gives its low byte; what a character above 255 has more is lost.
str2binb(str) ==
    [k \in 1..WordsFor(Len(str)) |->
        UNION {AtByte(str[i] \cap 0..7, (i - 1) % 4) : i \in (4 * k - 3)..Min({4 * k, Len(str)})}]
binb2str(bin) == [i \in 1..4 * Len(bin) |-> ByteAt(bin[((i - 1) \div 4) + 1], (i - 1) % 4)]
binb2hex(bin) ==
    [i \in 1..8 * Len(bin) |->
        LET low == 28 - (4 * ((i - 1) % 8)) IN {p - low : p \in bin[((i - 1) \div 8) + 1] \cap low..(low + 3)}]
\* Six bits a character, as many as the bits of the array need.
binb2b64(bin) ==
    LET str == binb2str(bin)
        Bit(n) == n \div 8 < Len(str) /\ (7 - (n % 8)) \in str[(n \div 8) + 1]
    IN  [k \in 1..(((32 * Len(bin)) \div 6) + 1) |-> NumberOf({5 - j : j \in {m \in 0..5 : Bit((6 * (k - 1)) + m)}})]

\* The halves are added with a carry from the low one.
joined(x, y, lsw) == Shl(Sum3(Shr(x, 16), Shr(y, 16), Shr(lsw, 16)), 16) \cup (lsw \cap 0..15)
safe_add(x, y) == joined(x, y, Add(x \cap 0..15, y \cap 0..15))
rol(num, cnt) == Shl(num, cnt) \cup Shr(num, 32 - cnt)

sha1_ft(t, b, c, d) ==
    CASE t < 20 -> (b \cap c) \cup (d \ b)
      [] t >= 20 /\ t < 40 -> Xor(Xor(b, c), d)
      [] t >= 40 /\ t < 60 -> (b \cap c) \cup (b \cap d) \cup (c \cap d)
      [] t >= 60 -> Xor(Xor(b, c), d)
sha1_kt(t) == CASE t < 20 -> Word(\h5a82, \h7999)
                [] t >= 20 /\ t < 40 -> Word(\h6ed9, \heba1)
                [] t >= 40 /\ t < 60 -> Word(\h8f1b, \hbcdc)
                [] t >= 60 -> Word(\hca62, \hc1d6)

\* The 80 words of a block, one round, and the blocks of a padded message of
\* len bits.
Words80(M) ==
    Loop(Seq(Word32), 64,
         LAMBDA w, j : Append(w, rol(Xor(Xor(At(w, j + 13), At(w, j + 8)), Xor(At(w, j + 2), At(w, j))), 1)), M)
FiveWords == [1..5 -> Word32]
PageRound(w, v, j) ==
    <<safe_add(safe_add(rol(v[1], 5), sha1_ft(j, v[2], v[3], v[4])), safe_add(safe_add(v[5], At(w, j)), sha1_kt(j))),
      v[1], rol(v[2], 30), v[3], v[4]>>
PageBlock(H, M) ==
    LET w == Words80(M)
        v == Loop(FiveWords, 80, LAMBDA u, j : PageRound(w, u, j), H)
    IN  Written([i \in 1..5 |-> safe_add(v[i], H[i])])
PageStart == <<Word(\h6745, \h2301), Word(\hefcd, \hab89), Word(\h98ba, \hdcfe), Word(\h1032, \h5476), Word(\hc3d2, \he1f0)>>
PagePadded(x, len) ==
    LET k == len \div 32
        marked == SetAt(x, k, At(x, k) \cup Shl({7}, 24 - (len % 32)))
    IN  SetAt(marked, (((len + 64) \div 512) * 16) + 15, WordOfNat(len))
PageBlocks(all) ==
    Loop(FiveWords, (Len(all) + 15) \div 16, LAMBDA H, i : PageBlock(H, Block(all, 16 * i, 16)), PageStart)
core_sha1(x, len) == PageBlocks(PagePadded(x, len))

bkey_of(key) == IF Len(str2binb(key)) > 16 THEN core_sha1(str2binb(key), 8 * Len(key)) ELSE str2binb(key)
padded_key(bkey, byte) == [i \in 1..16 |-> Xor(At(bkey, i - 1), WordOf(<<byte, byte, byte, byte>>))]
hmac_with(bkey, data) ==
    LET hash == core_sha1(padded_key(bkey, {5, 4, 2, 1}) \o str2binb(data), 512 + (8 * Len(data)))
    IN  core_sha1(padded_key(bkey, {6, 4, 3, 2}) \o hash, 512 + 160)
core_hmac_sha1(key, data) == hmac_with(bkey_of(key), data)

hex_sha1(s) == binb2hex(core_sha1(str2binb(s), 8 * Len(s)))
b64_sha1(s) == binb2b64(core_sha1(str2binb(s), 8 * Len(s)))
str_sha1(s) == binb2str(core_sha1(str2binb(s), 8 * Len(s)))
hex_hmac_sha1(key, data) == binb2hex(core_hmac_sha1(key, data))
b64_hmac_sha1(key, data) == binb2b64(core_hmac_sha1(key, data))
str_hmac_sha1(key, data) == binb2str(core_hmac_sha1(key, data))
=============================================================================
