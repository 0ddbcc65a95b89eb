------------------------------ MODULE Hashers -------------------------------
(***************************************************************************)
(* The objects that digest a message: BufferedBlockAlgorithm and Hasher of *)
(* core.js with the hashers built on them, HMAC (hmac.js), PBKDF2 and      *)
(* EvpKDF.  An object is a record; a method takes it to the record after   *)
(* the call.                                                               *)
(***************************************************************************)
EXTENDS Digests64

CONSTANT DoProcessBlock    \* the method each hasher gives its objects: every .cfg makes it BlockFunctions

-----------------------------------------------------------------------------
(* BufferedBlockAlgorithm: _data and _nDataBytes.  _process takes the full *)
(* blocks less _minBufferSize of them, or all there is if it flushes.      *)

EmptyArray == WordArray(<<>>, 0)
AppendData(o, data) == [o EXCEPT !.data = Concat(@, data), !.nDataBytes = @ + data.sigBytes]

BlocksReady(sigBytes, blockSizeBytes, minBufferSize, flush) ==
    IF flush THEN (sigBytes + blockSizeBytes - 1) \div blockSizeBytes
    ELSE LET full == (sigBytes \div blockSizeBytes) - minBufferSize IN IF full > 0 THEN full ELSE 0
BytesReady(sigBytes, blockSizeBytes, nBlocks) ==
    IF nBlocks * blockSizeBytes < sigBytes THEN nBlocks * blockSizeBytes ELSE sigBytes
\* Wrong: the processed words are not spliced out of the array.
UnprocessedUnspliced(data, blockSize, nBlocks) ==
    WordArray(data.words, data.sigBytes - BytesReady(data.sigBytes, 4 * blockSize, nBlocks))
Unprocessed(data, blockSize, nBlocks) ==
    WordArray(SubSeq(data.words, (nBlocks * blockSize) + 1, Len(data.words)),
              data.sigBytes - BytesReady(data.sigBytes, 4 * blockSize, nBlocks))

-----------------------------------------------------------------------------
(* The hashers: blockSize in words, _doReset, _doProcessBlock, _doFinalize.*)

Sha3Names == {"SHA3-224", "SHA3-256", "SHA3-384", "SHA3"}
HasherNames == {"MD5", "SHA1", "SHA224", "SHA256", "SHA384", "SHA512", "RIPEMD160"} \cup Sha3Names
OutputLength(hasher) ==
    CASE hasher = "SHA3-224" -> 224 [] hasher = "SHA3-256" -> 256 [] hasher = "SHA3-384" -> 384 [] hasher = "SHA3" -> 512
BlockSize(hasher) ==
    CASE hasher \in Sha3Names -> Sha3BlockSize(OutputLength(hasher))
      [] hasher \in {"SHA384", "SHA512"} -> 32
      [] hasher \notin Sha3Names \cup {"SHA384", "SHA512"} -> 16
DoReset(hasher) ==
    CASE hasher = "MD5" -> Md5Reset
      [] hasher = "SHA1" -> Sha1Reset
      [] hasher = "SHA224" -> Sha224Reset
      [] hasher = "SHA256" -> Sha256Reset
      [] hasher = "SHA384" -> Sha384Reset
      [] hasher = "SHA512" -> Sha512Reset
      [] hasher = "RIPEMD160" -> Ripemd160Reset
      [] hasher \in Sha3Names -> ZeroState
HashStates(hasher) ==
    CASE hasher \in Sha3Names -> Keccak
      [] hasher \in {"SHA384", "SHA512"} -> States64(8)
      [] hasher \in {"SHA224", "SHA256"} -> States(8)
      [] hasher \in {"SHA1", "RIPEMD160"} -> States(5)
      [] hasher = "MD5" -> States(4)
\* A constant of functions, which TLC takes as values when it starts.
BlockFunctions ==
    LET BlockOf(hasher, H, M) ==
            CASE hasher = "MD5" -> Md5Block(H, M)
              [] hasher = "SHA1" -> Sha1Block(H, M)
              [] hasher \in {"SHA224", "SHA256"} -> Sha256Block(H, M)
              [] hasher \in {"SHA384", "SHA512"} -> Sha512Block(H, M)
              [] hasher = "RIPEMD160" -> Ripemd160Block(H, M)
              [] hasher \in Sha3Names -> Sha3Block(H, M)
    IN  [hasher \in HasherNames |-> [H \in HashStates(hasher) |-> [M \in Chain |-> BlockOf(hasher, H, M)]]]
LastData(hasher, data, nDataBytes) ==
    CASE hasher = "MD5" -> Md5Pad(data, nDataBytes)
      [] hasher = "RIPEMD160" -> Ripemd160Pad(data, nDataBytes)
      [] hasher \in {"SHA384", "SHA512"} -> Sha512Pad(data, nDataBytes)
      [] hasher \in Sha3Names -> Sha3Pad(data, OutputLength(hasher))
      [] hasher \in {"SHA1", "SHA224", "SHA256"} -> ShaPad(data, nDataBytes)
\* SHA-224 and SHA-384 only make the array's sigBytes smaller.
Digest(hasher, H) ==
    CASE hasher = "MD5" -> WordArray(SwapAll(H), 16)
      [] hasher = "RIPEMD160" -> WordArray(SwapAll(H), 20)
      [] hasher = "SHA1" -> WordArray(H, 20)
      [] hasher = "SHA256" -> WordArray(H, 32)
      [] hasher = "SHA224" -> WordArray(H, 28)
      [] hasher = "SHA512" -> WordArray(ToX32(H), 64)
      [] hasher = "SHA384" -> WordArray(ToX32(H), 48)
      [] hasher \in Sha3Names -> Squeeze(H, OutputLength(hasher))

-----------------------------------------------------------------------------
(* Hasher.                                                                 *)

ResetHasher(h) == [h EXCEPT !.data = EmptyArray, !.nDataBytes = 0, !.hash = DoReset(h.hasher)]
NewHasher(hasher) == [hasher |-> hasher, data |-> EmptyArray, nDataBytes |-> 0, hash |-> DoReset(hasher)]

Process(h) ==
    LET size == BlockSize(h.hasher)
        n == BlocksReady(h.data.sigBytes, 4 * size, 0, FALSE)
    IN  [h EXCEPT !.hash = Loop(HashStates(h.hasher), n,
                                LAMBDA H, i : DoProcessBlock[h.hasher][H][Block(h.data.words, i * size, size)], h.hash),
                  !.data = Unprocessed(h.data, size, n)]
UpdateHasher(h, message) == Process(AppendData(h, message))
\* Wrong: the length that is written is that of the buffer.
WithLastDataOfBuffer(fed) == [fed EXCEPT !.data = LastData(fed.hasher, fed.data, fed.data.sigBytes)]
\* _doFinalize: the object after the call; Result is what the call returns.
WithLastData(fed) == [fed EXCEPT !.data = LastData(fed.hasher, fed.data, fed.nDataBytes)]
FinalizeHasher(h, message) == Process(WithLastData(AppendData(h, message)))
Result(h) == Digest(h.hasher, h.hash)
\* CryptoJS.SHA1(message) and the other shortcuts.
HashOf(hasher, message) == Result(FinalizeHasher(NewHasher(hasher), message))

-----------------------------------------------------------------------------
(* HMAC: a hasher and the two padded keys.                                 *)

MacKey(hasher, key) ==
    LET short == IF key.sigBytes > 4 * BlockSize(hasher) THEN HashOf(hasher, key) ELSE key IN Clamp(short)
PadKey(hasher, words, pad) ==
    LET mask == WordOf(<<pad, pad, pad, pad>>)
        n == Max({BlockSize(hasher), Len(words)})
    IN  WordArray([i \in 1..n |-> IF i <= BlockSize(hasher) THEN Xor(At(words, i - 1), mask) ELSE words[i]],
                  4 * BlockSize(hasher))
WithPads(inner, key) ==
    [inner |-> inner, oKey |-> PadKey(inner.hasher, key.words, {6, 4, 3, 2}),
     iKey |-> PadKey(inner.hasher, key.words, {5, 4, 2, 1})]
ResetMac(m) == [m EXCEPT !.inner = UpdateHasher(ResetHasher(@), m.iKey)]
NewMac(hasher, key) == ResetMac(WithPads(NewHasher(hasher), MacKey(hasher, key)))
UpdateMac(m, message) == [m EXCEPT !.inner = UpdateHasher(@, message)]
\* The inner digest follows the outer key in one array: whatever words the
\* digest holds are pushed, its significant bytes only are counted.
FinalizeMac(m, message) ==
    LET innerHash == Result(FinalizeHasher(m.inner, message))
    IN  [m EXCEPT !.inner = FinalizeHasher(ResetHasher(@), Concat(m.oKey, innerHash))]
MacResult(m) == Result(m.inner)
\* CryptoJS.HmacSHA1(message, key) and the other shortcuts.
MacOf(hasher, message, key) == MacResult(FinalizeMac(NewMac(hasher, key), message))

-----------------------------------------------------------------------------
(* Keys derived from a password; keySize is in words, and as every block    *)
(* adds a word or more, so many passes are enough.                         *)

XorBlocks(block, other) == [block EXCEPT !.words = XorWords(@, other.words)]
Arrays == [words : Chain, sigBytes : Nat]
Enough(words, keySize) == Len(words) >= keySize

\* One block: the HMAC of salt and index, iterated on its own results.
Iterated(block, next) == [block |-> XorBlocks(block, next), step |-> next]
FirstStep(result) == [block |-> result, step |-> result]
Pbkdf2Block(hmac, salt, index, iterations) ==
    Loop([block : Arrays, step : Arrays], iterations - 1,
         LAMBDA p, i : Iterated(p.block, MacResult(FinalizeMac(hmac, p.step))),
         FirstStep(MacResult(FinalizeMac(UpdateMac(hmac, salt), Create(<<WordOfNat(index)>>))))).block
Pbkdf2With(hmac, salt, keySize, iterations) ==
    LET derived ==
            Loop(Arrays, keySize,
                 LAMBDA d, i : IF Enough(d.words, keySize) THEN d
                               ELSE Concat(d, Pbkdf2Block(hmac, salt, i + 1, iterations)), EmptyArray)
    IN  [derived EXCEPT !.sigBytes = 4 * keySize]
Pbkdf2(hasher, password, salt, keySize, iterations) == Pbkdf2With(NewMac(hasher, password), salt, keySize, iterations)

\* A hasher that is reset after each block takes the last block first.
EvpBlock(hasher, block, password, salt, iterations) ==
    LET start == IF block.sigBytes = 0 THEN NewHasher(hasher) ELSE UpdateHasher(NewHasher(hasher), block)
        first == Result(FinalizeHasher(UpdateHasher(start, password), salt))
    IN  Loop(Arrays, iterations - 1, LAMBDA b, i : HashOf(hasher, b), first)
Derived(words, block) == [all |-> Concat(words, block), last |-> block]
EvpKdf(hasher, password, salt, keySize, iterations) ==
    LET derived ==
            Loop([all : Arrays, last : Arrays], keySize,
                 LAMBDA d, i : IF Enough(d.all.words, keySize) THEN d
                               ELSE Derived(d.all, EvpBlock(hasher, d.last, password, salt, iterations)),
                 Derived(EmptyArray, EmptyArray))
    IN  [derived.all EXCEPT !.sigBytes = 4 * keySize]
=============================================================================
