----------------------------- MODULE CipherModes ----------------------------
(***************************************************************************)
(* What cipher-core.js puts around a block cipher: the paddings (Pkcs7 and *)
(* pad-*.js) and the modes of operation (CBC and mode-*.js).               *)
(***************************************************************************)
EXTENDS BlockCiphers

CONSTANT BlockCipher    \* the objects of the block ciphers: every .cfg makes it BlockCipherMethods

(***************************************************************************)
(* Paddings.  size is the size of a block in bytes.  Unpadding takes the   *)
(* last byte, or the zeros, away without looking at the rest, so that data *)
(* decrypted with another key may end with fewer than no bytes.            *)
(***************************************************************************)
PaddingNames == {"Pkcs7", "AnsiX923", "Iso10126", "Iso97971", "ZeroPadding", "NoPadding"}

PaddingBytes(data, size) == size - (data.sigBytes % size)
Pkcs7Pad(data, size) ==
    LET n == PaddingBytes(data, size)
        paddingWord == WordOf(<<BitsOf(n), BitsOf(n), BitsOf(n), BitsOf(n)>>)
    IN  Concat(data, WordArray([k \in 1..WordsFor(n) |-> paddingWord], n))
AnsiX923Pad(data, size) ==
    LET n == PaddingBytes(data, size)
        last == data.sigBytes + n - 1
        words == Clamp(data).words
        marked == At(words, last \div 4) \cup AtByte(BitsOf(n), last % 4)
    IN  WordArray(SetAt(words, last \div 4, marked), data.sigBytes + n)
Iso10126Pad(data, size, fill) ==
    LET n == PaddingBytes(data, size)
    IN  Concat(Concat(data, Random(n - 1, fill)), WordArray(<<AtByte(BitsOf(n), 0)>>, 1))
ZeroPad(data, size) ==
    LET left == data.sigBytes % size
    IN  WordArray(Clamp(data).words, data.sigBytes + (IF left = 0 THEN 0 ELSE size - left))
\* Wrong: zeros without the mark before them.
Iso97971PadUnmarked(data, size) == ZeroPad(data, size)
Iso97971Pad(data, size) == ZeroPad(Concat(data, WordArray(<<{31}>>, 1)), size)
Padded(padding, data, size, fill) ==
    CASE padding = "Pkcs7" -> Pkcs7Pad(data, size)
      [] padding = "AnsiX923" -> AnsiX923Pad(data, size)
      [] padding = "Iso10126" -> Iso10126Pad(data, size, fill)
      [] padding = "Iso97971" -> Iso97971Pad(data, size)
      [] padding = "ZeroPadding" -> ZeroPad(data, size)
      [] padding = "NoPadding" -> data

\* The loop of ZeroPadding.unpad ends at the last byte that is not 0; it
\* goes down for ever when there is none.
Hangs == WordArray(<<>>, -1000)
\* Wrong: the first byte of the last word.
LastWordUnpad(data) == [data EXCEPT !.sigBytes = @ - NumberOf(ByteAt(At(data.words, (@ - 1) \div 4), 0))]
LastByteUnpad(data) == [data EXCEPT !.sigBytes = @ - NumberOf(At(data.words, (@ - 1) \div 4) \cap 0..7)]
ZeroUnpad(data) ==
    LET nonZero == {i \in 0..(data.sigBytes - 1) : ByteAt(At(data.words, i \div 4), i % 4) # {}}
    IN  IF nonZero = {} THEN Hangs ELSE [data EXCEPT !.sigBytes = Max(nonZero) + 1]
Iso97971Unpad(data) ==
    LET left == ZeroUnpad(data) IN IF left = Hangs THEN Hangs ELSE [left EXCEPT !.sigBytes = @ - 1]
Unpadded(padding, data) ==
    CASE padding \in {"Pkcs7", "AnsiX923", "Iso10126"} -> LastByteUnpad(data)
      [] padding = "Iso97971" -> Iso97971Unpad(data)
      [] padding = "ZeroPadding" -> ZeroUnpad(data)
      [] padding = "NoPadding" -> data

-----------------------------------------------------------------------------
(* The block cipher c beneath: its name and what its _doReset computed.    *)

BlockCipherNames == {"AES", "DES", "TripleDES"}
BlockWords(cipher) == IF cipher = "AES" THEN 4 ELSE 2
DesSchedule == Seq([0..7 -> Word32])
Schedules(cipher) ==
    CASE cipher = "AES" -> [keySchedule : Seq(Word32), invKeySchedule : Seq(Word32)]
      [] cipher = "DES" -> DesSchedule
      [] cipher = "TripleDES" -> [des1 : DesSchedule, des2 : DesSchedule, des3 : DesSchedule]
ScheduleOf(cipher, key) ==
    CASE cipher = "AES" -> AesReset(key)
      [] cipher = "DES" -> DesReset(key.words)
      [] cipher = "TripleDES" -> TripleDesReset(key.words)
DoEncrypt(cipher, schedule, M) ==
    CASE cipher = "AES" -> AesEncrypt(schedule, M)
      [] cipher = "DES" -> DesEncrypt(schedule, M)
      [] cipher = "TripleDES" -> TripleDesEncrypt(schedule, M)
DoDecrypt(cipher, schedule, M) ==
    CASE cipher = "AES" -> AesDecrypt(schedule, M)
      [] cipher = "DES" -> DesDecrypt(schedule, M)
      [] cipher = "TripleDES" -> TripleDesDecrypt(schedule, M)

\* A constant of functions, which TLC takes as values when it starts.
BlockCipherMethods ==
    LET MethodsOf(cipher) ==
            [reset |-> [key \in [words : Seq(Word32), sigBytes : Nat] |-> ScheduleOf(cipher, key)],
             encryptBlock |-> [schedule \in Schedules(cipher), M \in Seq(Word32) |-> DoEncrypt(cipher, schedule, M)],
             decryptBlock |-> [schedule \in Schedules(cipher), M \in Seq(Word32) |-> DoDecrypt(cipher, schedule, M)]]
    IN  [cipher \in BlockCipherNames |-> MethodsOf(cipher)]
KeyedCipher(cipher, key) == [cipher |-> cipher, schedule |-> BlockCipher[cipher].reset[key]]
EncryptBlock(c, M) == BlockCipher[c.cipher].encryptBlock[c.schedule, M]
DecryptBlock(c, M) == BlockCipher[c.cipher].decryptBlock[c.schedule, M]

(***************************************************************************)
(* Modes.  A mode object keeps _iv until the first block (None afterwards) *)
(* and one array of words: _prevBlock, _keystream or _counter.  A mode     *)
(* takes the object m and the words of a block to the object after it and  *)
(* the words it leaves in their place.                                     *)
(***************************************************************************)
ModeNames == {"CBC", "CFB", "OFB", "CTR", "CTRGladman", "ECB"}
None == <<>>
NewMode(iv) == [iv |-> iv, kept |-> None]
After(kept, words) == [run |-> [iv |-> None, kept |-> kept], words |-> words]
\* The iv for the first block, what was kept for the others.
Chained(m) == IF m.iv # None THEN m.iv ELSE m.kept

CbcEncrypt(c, m, words) == LET out == EncryptBlock(c, XorWords(words, Chained(m))) IN After(out, out)
\* Wrong: the block is remembered after it was decrypted in place.
CbcDecryptKeepsPlain(c, m, words) == LET out == XorWords(DecryptBlock(c, words), Chained(m)) IN After(out, out)
CbcDecrypt(c, m, words) == After(words, XorWords(DecryptBlock(c, words), Chained(m)))
Keystream(c, m) == EncryptBlock(c, Chained(m))
CfbEncrypt(c, m, words) == LET out == XorWords(words, Keystream(c, m)) IN After(out, out)
CfbDecrypt(c, m, words) == After(words, XorWords(words, Keystream(c, m)))
OfbProcess(c, m, words) == LET keystream == Keystream(c, m) IN After(keystream, XorWords(words, keystream))

\* CTR counts in the last word only, after the block.
NextCounter(counter) == [counter EXCEPT ![Len(counter)] = Add(@, {0})]
CtrProcess(c, m, words) == After(NextCounter(Chained(m)), XorWords(words, Keystream(c, m)))

\* CTRGladman counts before the block: in the first byte of a word, which
\* carries into its second, third and fourth, then in the next word.
IncBytes(b) ==
    LET full == 0..7
        inc(j) == Add(b[j], {0})
    IN  CASE b[1] # full -> WordOf([b EXCEPT ![1] = inc(1)])
          [] b[1] = full /\ b[2] # full -> WordOf(<<{}, inc(2), b[3], b[4]>>)
          [] b[1] = full /\ b[2] = full /\ b[3] # full -> WordOf(<<{}, {}, inc(3), b[4]>>)
          [] b[1] = full /\ b[2] = full /\ b[3] = full -> IF b[4] = full THEN {} ELSE inc(4)
IncWord(word) == IncBytes([j \in 1..4 |-> ByteAt(word, j - 1)])
CarriedOn(counter, first) == [counter EXCEPT ![1] = first, ![2] = IF first = {} THEN IncWord(@) ELSE @]
IncCounter(counter) == CarriedOn(counter, IncWord(counter[1]))
GladmanProcess(c, m, words) ==
    LET counter == IncCounter(Chained(m)) IN After(counter, XorWords(words, EncryptBlock(c, counter)))

EcbProcess(c, forward, m, words) ==
    [run |-> m, words |-> IF forward THEN EncryptBlock(c, words) ELSE DecryptBlock(c, words)]

ProcessBlock(mode, forward, c, m, words) ==
    CASE mode = "CBC" -> IF forward THEN CbcEncrypt(c, m, words) ELSE CbcDecrypt(c, m, words)
      [] mode = "CFB" -> IF forward THEN CfbEncrypt(c, m, words) ELSE CfbDecrypt(c, m, words)
      [] mode = "OFB" -> OfbProcess(c, m, words)
      [] mode = "CTR" -> CtrProcess(c, m, words)
      [] mode = "CTRGladman" -> GladmanProcess(c, m, words)
      [] mode = "ECB" -> EcbProcess(c, forward, m, words)
=============================================================================
