---------------------------- MODULE CipherObjects ---------------------------
(***************************************************************************)
(* The objects that encrypt and decrypt: Cipher, StreamCipher and          *)
(* BlockCipher of cipher-core.js, what SerializableCipher and              *)
(* PasswordBasedCipher make of them, and the text forms of a cipher text.  *)
(***************************************************************************)
EXTENDS Hashers, CipherModes, StreamCiphers

StreamCipherNames == {"RC4", "RC4Drop", "Rabbit", "RabbitLegacy"}
CipherNames == BlockCipherNames \cup StreamCipherNames
CipherBlockSize(cipher) ==
    CASE cipher \in BlockCipherNames -> BlockWords(cipher)
      [] cipher \in {"Rabbit", "RabbitLegacy"} -> 4
      [] cipher \in {"RC4", "RC4Drop"} -> 1
KeySize(cipher) == CASE cipher = "DES" -> 2
                     [] cipher = "TripleDES" -> 6
                     [] cipher \in {"AES", "RC4", "RC4Drop"} -> 8
                     [] cipher \in {"Rabbit", "RabbitLegacy"} -> 4
IvSize(cipher) == CASE cipher = "AES" -> 4
                    [] cipher \in {"DES", "TripleDES", "Rabbit", "RabbitLegacy"} -> 2
                    [] cipher \in {"RC4", "RC4Drop"} -> 0

-----------------------------------------------------------------------------
(* Cipher.  cfg has mode, padding, iv (the words, None if there is none)   *)
(* and drop; forward says that the object encrypts.  run is what every     *)
(* block changes: the mode object of a block cipher, whose schedule is in  *)
(* beneath, or the state of a stream cipher.                               *)

StreamReset(cipher, key, cfg) ==
    CASE cipher = "RC4" -> Rc4Reset(key)
      [] cipher = "RC4Drop" -> Rc4DropReset(key, cfg.drop)
      [] cipher = "Rabbit" -> RabbitReset(key.words, cfg.iv)
      [] cipher = "RabbitLegacy" -> LegacyReset(key.words, cfg.iv)
RunStates(cipher) ==
    CASE cipher \in BlockCipherNames -> [iv : Chain, kept : Chain]
      [] cipher \in {"RC4", "RC4Drop"} -> Rc4State
      [] cipher \in {"Rabbit", "RabbitLegacy"} -> RabbitState
NewCipher(cipher, forward, key, cfg) ==
    LET block == cipher \in BlockCipherNames
    IN  [cipher |-> cipher, forward |-> forward, cfg |-> cfg, data |-> EmptyArray, nDataBytes |-> 0,
         beneath |-> IF block THEN KeyedCipher(cipher, key) ELSE None,
         run |-> IF block THEN NewMode(cfg.iv) ELSE StreamReset(cipher, key, cfg)]
\* Wrong: the mode goes on where it was.
ResetCipherKeepsMode(o, key) == [NewCipher(o.cipher, o.forward, key, o.cfg) EXCEPT !.run = o.run]
ResetCipher(o, key) == NewCipher(o.cipher, o.forward, key, o.cfg)

\* The key is the caller's array, and this is what a reset leaves in it.
KeyAfterReset(cipher, key) == IF cipher = "Rabbit" THEN [key EXCEPT !.words = SwappedKey(@)] ELSE key

\* Wrong: a decryptor keeps nothing back.
MinBufferSizeNone(o) == 0
\* A decrypting block cipher keeps one block for the unpadding.
MinBufferSize(o) == IF o.cipher \in BlockCipherNames /\ ~o.forward THEN 1 ELSE 0

\* One block: what it leaves of run, and the words it leaves.
Rc4Block(k, words) == [run |-> k.rc4, words |-> XorWords(words, <<k.word>>)]
RabbitBlock(next, words) == [run |-> next, words |-> XorWords(words, Extracted(next.X))]
CipherBlock(o, run, words) ==
    CASE o.cipher \in BlockCipherNames -> ProcessBlock(o.cfg.mode, o.forward, o.beneath, run, words)
      [] o.cipher \in {"RC4", "RC4Drop"} -> Rc4Block(KeystreamWord(run), words)
      [] o.cipher \in {"Rabbit", "RabbitLegacy"} -> RabbitBlock(NextState(run), words)

\* _process of n blocks: the object after the call and the words it returns.
OneMore(words, r) == [run |-> r.run, words |-> words \o r.words]
ProcessedBlocks(o, size, n, done) ==
    [o |-> [o EXCEPT !.run = done.run, !.data = Unprocessed(o.data, size, n)],
     out |-> WordArray(done.words, BytesReady(o.data.sigBytes, 4 * size, n))]
ProcessBlocks(o, size, n) ==
    ProcessedBlocks(o, size, n,
        Loop([run : RunStates(o.cipher), words : Chain], n,
             LAMBDA p, i : OneMore(p.words, CipherBlock(o, p.run, Block(o.data.words, i * size, size))),
             [run |-> o.run, words |-> <<>>]))
ProcessCipher(o, flush) ==
    LET size == CipherBlockSize(o.cipher)
    IN  ProcessBlocks(o, size, BlocksReady(o.data.sigBytes, 4 * size, MinBufferSize(o), flush))
Feed(o, data) == ProcessCipher(AppendData(o, data), FALSE)

\* finalize: an encrypting block cipher pads before it flushes, a decrypting
\* one removes the padding of what the flush returns.
PadLast(o, fill) ==
    IF o.cipher \in BlockCipherNames /\ o.forward
      THEN [o EXCEPT !.data = Padded(o.cfg.padding, @, 4 * CipherBlockSize(o.cipher), fill)]
      ELSE o
UnpadLast(r) ==
    IF r.o.cipher \in BlockCipherNames /\ ~r.o.forward THEN [r EXCEPT !.out = Unpadded(r.o.cfg.padding, @)] ELSE r
FinalizeCipher(o, data, fill) == UnpadLast(ProcessCipher(PadLast(AppendData(o, data), fill), TRUE))

-----------------------------------------------------------------------------
(* SerializableCipher makes one object for one message; the cipher params  *)
(* it returns, and the text forms of them.                                 *)

NoSalt == EmptyArray
CipherParams(ciphertext, salt) == [ciphertext |-> ciphertext, salt |-> salt]
EncryptAll(cipher, message, key, cfg, fill) == FinalizeCipher(NewCipher(cipher, TRUE, key, cfg), message, fill).out
DecryptAll(cipher, ciphertext, key, cfg) == FinalizeCipher(NewCipher(cipher, FALSE, key, cfg), ciphertext, {}).out

Salted == <<Word(\h5361, \h6c74), Word(\h6564, \h5f5f)>>
OpenSSLStringify(params) ==
    Base64Stringify(Map, IF params.salt = NoSalt THEN params.ciphertext
                         ELSE Concat(Concat(Create(Salted), params.salt), params.ciphertext))
\* Whatever begins with the eight bytes "Salted__" is taken for salted.
OpenSSLParse(chars) ==
    LET all == Base64Parse(Map, chars)
    IN  IF Block(all.words, 0, 2) = Salted
          THEN CipherParams(WordArray(SubSeq(all.words, 5, Len(all.words)), all.sigBytes - 16),
                            Create(SubSeq(all.words, 3, 4)))
          ELSE CipherParams(all, NoSalt)

\* PasswordBasedCipher: key and iv from the password and the salt.
KeyAndIv(words, keySize) ==
    [key |-> WordArray(words, 4 * keySize), iv |-> SubSeq(words, keySize + 1, Len(words))]
OpenSSLKdf(password, keySize, ivSize, salt) ==
    KeyAndIv(EvpKdf("MD5", password, salt, keySize + ivSize, 1).words, keySize)
EncryptDerived(cipher, message, d, cfg, fill) == EncryptAll(cipher, message, d.key, [cfg EXCEPT !.iv = d.iv], fill)
DecryptDerived(cipher, ciphertext, d, cfg) == DecryptAll(cipher, ciphertext, d.key, [cfg EXCEPT !.iv = d.iv])
PasswordEncrypt(cipher, message, password, cfg, salt, fill) ==
    CipherParams(EncryptDerived(cipher, message, OpenSSLKdf(password, KeySize(cipher), IvSize(cipher), salt), cfg, fill),
                 salt)
PasswordDecrypt(cipher, params, password, cfg) ==
    DecryptDerived(cipher, params.ciphertext, OpenSSLKdf(password, KeySize(cipher), IvSize(cipher), params.salt), cfg)
=============================================================================
