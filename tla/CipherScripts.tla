---------------------------- MODULE CipherScripts ---------------------------
(***************************************************************************)
(* Two pages exchange a message: a script of one encrypts it piece by      *)
(* piece, or in one call, and puts the cipher text into a text form; a     *)
(* script of the other parses the text and decrypts, in pieces of its own. *)
(*                                                                         *)
(* A job fixes the cipher and its configuration, the size of the message,  *)
(* the text form and where the scripts may pause.  `atOnce` says that they *)
(* call CryptoJS.AES.encrypt and decrypt instead of using the objects;     *)
(* with a password, these derive the key from it and from a salt.          *)
(* `standard` is the cipher text that another implementation gives.        *)
(***************************************************************************)
EXTENDS CipherObjects

CONSTANTS
    CipherJobs,   \* [cipher, cfg, key, size, stops, form, atOnce, password, salt, fill, standard]
    Message       \* Message[i]: byte i of every message

VARIABLES
    task,         \* the job
    phase,        \* what has been done of it
    heldKey,      \* the array of the key the sender's script holds
    sender,       \* the encrypting object
    given,        \* how many bytes of the message it was given
    produced,     \* the script's concatenation of what it returned
    wire,         \* the text that goes to the other page
    received,     \* the cipher text parsed there
    receiver,     \* the decrypting object
    taken,        \* how many bytes of the cipher text it was given
    restored      \* the concatenation of what it returned
cvars == <<task, phase, heldKey, sender, given, produced, wire, received, receiver, taken, restored>>
sending == <<heldKey, sender, given, produced>>
receiving == <<received, receiver, taken, restored>>

ASSUME MessageAssumption == Message \in Seq(Byte)
ASSUME CipherJobAssumption ==
    \A t \in CipherJobs :
        /\ t.cipher \in CipherNames /\ t.key \in Arrays /\ t.fill \in Word32
        /\ t.size \in 0..Len(Message) /\ t.stops \subseteq Nat
        /\ t.form \in {"OpenSSL", "Hex", "Page"}
        /\ t.cfg.iv \in Chain /\ t.cfg.drop \in Nat
        /\ t.cipher \in BlockCipherNames => t.cfg.mode \in ModeNames /\ t.cfg.padding \in PaddingNames
        /\ t.password => /\ t.atOnce /\ t.form = "OpenSSL"
                         /\ t.salt \in Arrays /\ Len(t.salt.words) = 2 /\ t.salt.sigBytes = 8
\* A key of a size that the cipher has, and a block to begin with where the
\* mode needs one; with a password, the library derives both.
ASSUME KeyAssumption ==
    \A t \in CipherJobs : ~t.password =>
        /\ t.cipher = "AES" => t.key.sigBytes \in {16, 24, 32} /\ t.key.sigBytes <= 4 * Len(t.key.words)
        /\ t.cipher \in {"RC4", "RC4Drop"} => t.key.sigBytes > 0
        /\ t.cipher \in BlockCipherNames /\ t.cfg.mode # "ECB" => t.cfg.iv \in [1..BlockWords(t.cipher) -> Word32]
\* A padding that can be told from the message: without one, a mode of whole
\* blocks needs whole blocks; zeros are taken away down to another byte.
ASSUME PaddingAssumption ==
    \A t \in CipherJobs : t.cipher \in BlockCipherNames =>
        /\ t.cfg.padding = "NoPadding" /\ t.cfg.mode \in {"CBC", "ECB"} => t.size % (4 * BlockWords(t.cipher)) = 0
        /\ t.cfg.padding = "ZeroPadding" => t.size > 0 /\ Message[t.size] # {}
\* A script that keeps an object of Rabbit never resets it (rabbit.js:26-29).
ASSUME ResetAssumption == \A t \in CipherJobs : t.cipher = "Rabbit" => t.atOnce \/ t.stops = {}
\* A cipher text without a salt does not begin as one with it does.
ASSUME SaltAssumption ==
    \A t \in CipherJobs : t.form = "OpenSSL" /\ ~t.password =>
        LET sent == EncryptAll(t.cipher, OfBytes(SubSeq(Message, 1, t.size)), t.key, t.cfg, t.fill)
        IN  Block(OfBytes(Bytes(sent)).words, 0, 2) # Salted

Nobody == <<>>
Slice(bytes, from, to) == OfBytes(SubSeq(bytes, from + 1, to))
Whole == SubSeq(Message, 1, task.size)

CipherStart(first) ==
    /\ task = first
    /\ phase = "start"
    /\ heldKey = task.key
    /\ sender = Nobody /\ given = 0 /\ produced = EmptyArray
    /\ wire = <<>>
    /\ received = CipherParams(EmptyArray, NoSalt) /\ receiver = Nobody /\ taken = 0 /\ restored = EmptyArray
CipherInit == \E first \in CipherJobs : CipherStart(first)

-----------------------------------------------------------------------------
(* The sender.                                                             *)

CreateEncryptor ==
    /\ phase = "start" /\ ~task.atOnce
    /\ phase' = "encrypting"
    /\ sender' = NewCipher(task.cipher, TRUE, heldKey, task.cfg)
    /\ heldKey' = KeyAfterReset(task.cipher, heldKey)
    /\ UNCHANGED <<task, given, produced, wire, receiving>>

Encrypts(r) == sender' = r.o /\ produced' = Concat(produced, r.out)

\* cipher.process
EncryptPiece(n) ==
    /\ phase = "encrypting"
    /\ n \in task.stops /\ n > given /\ n <= task.size
    /\ Encrypts(Feed(sender, Slice(Message, given, n)))
    /\ given' = n
    /\ UNCHANGED <<task, phase, heldKey, wire, receiving>>

\* cipher.finalize, with what is left of the message
FinishEncrypting ==
    /\ phase = "encrypting"
    /\ Encrypts(FinalizeCipher(sender, Slice(Message, given, task.size), task.fill))
    /\ given' = task.size
    /\ phase' = "encrypted"
    /\ UNCHANGED <<task, heldKey, wire, receiving>>

\* cipher.reset: the script drops what it has and begins again.
StartOver ==
    /\ phase = "encrypting" /\ given > 0
    /\ sender' = ResetCipher(sender, heldKey)
    /\ heldKey' = KeyAfterReset(task.cipher, heldKey)
    /\ given' = 0 /\ produced' = EmptyArray
    /\ UNCHANGED <<task, phase, wire, receiving>>

\* CryptoJS.AES.encrypt(message, key or password, cfg)
EncryptAtOnce ==
    /\ phase = "start" /\ task.atOnce
    /\ produced' =
          IF task.password
            THEN PasswordEncrypt(task.cipher, OfBytes(Whole), heldKey, task.cfg, task.salt, task.fill).ciphertext
            ELSE EncryptAll(task.cipher, OfBytes(Whole), heldKey, task.cfg, task.fill)
    /\ given' = task.size
    /\ phase' = "encrypted"
    /\ UNCHANGED <<task, heldKey, sender, wire, receiving>>

Sent == CipherParams(produced, IF task.password THEN task.salt ELSE NoSalt)
Stringified(form, params) ==
    CASE form = "OpenSSL" -> OpenSSLStringify(params)
      [] form = "Hex" -> HexFormatStringify(params)
      [] form = "Page" -> Base64Stringify(PageMap, params.ciphertext)
Parsed(form, text) ==
    CASE form = "OpenSSL" -> OpenSSLParse(text)
      [] form = "Hex" -> CipherParams(HexFormatParse(text).ciphertext, NoSalt)
      [] form = "Page" -> CipherParams(Base64Parse(PageMap, text), NoSalt)
Send ==
    /\ phase = "encrypted"
    /\ wire' = Stringified(task.form, Sent)
    /\ phase' = "sent"
    /\ UNCHANGED <<task, sending, receiving>>

-----------------------------------------------------------------------------
(* The receiver has a key of its own.                                      *)

CreateDecryptor ==
    /\ phase = "sent" /\ ~task.atOnce
    /\ received' = Parsed(task.form, wire)
    /\ receiver' = NewCipher(task.cipher, FALSE, task.key, task.cfg)
    /\ phase' = "decrypting"
    /\ UNCHANGED <<task, sending, wire, taken, restored>>

PiecesEnd == task.stops \cup {received.ciphertext.sigBytes}
Decrypts(r) == receiver' = r.o /\ restored' = Concat(restored, r.out)
DecryptPiece(n) ==
    /\ phase = "decrypting"
    /\ n > taken /\ n <= received.ciphertext.sigBytes
    /\ Decrypts(Feed(receiver, Slice(Bytes(received.ciphertext), taken, n)))
    /\ taken' = n
    /\ UNCHANGED <<task, phase, sending, wire, received>>

\* A call that never returns leaves the script where it is.
Returned(out) ==
    IF out = Hangs THEN phase' = "hung" /\ UNCHANGED restored
    ELSE phase' = "done" /\ restored' = Concat(restored, out)
DecryptsLast(r) == receiver' = r.o /\ Returned(r.out)
FinishDecrypting ==
    /\ phase = "decrypting"
    /\ DecryptsLast(FinalizeCipher(receiver, Slice(Bytes(received.ciphertext), taken, received.ciphertext.sigBytes), {}))
    /\ taken' = received.ciphertext.sigBytes
    /\ UNCHANGED <<task, sending, wire, received>>

\* CryptoJS.AES.decrypt(text, key or password, cfg)
DecryptAtOnce ==
    /\ phase = "sent" /\ task.atOnce
    /\ received' = Parsed(task.form, wire)
    /\ Returned(IF task.password THEN PasswordDecrypt(task.cipher, received', task.key, task.cfg)
                ELSE DecryptAll(task.cipher, received'.ciphertext, task.key, task.cfg))
    /\ taken' = received'.ciphertext.sigBytes
    /\ UNCHANGED <<task, sending, wire, receiver>>

CipherNext ==
    \/ CreateEncryptor \/ FinishEncrypting \/ StartOver \/ EncryptAtOnce
    \/ Send
    \/ CreateDecryptor \/ FinishDecrypting \/ DecryptAtOnce
    \/ \E n \in task.stops : EncryptPiece(n)
    \/ \E n \in PiecesEnd : DecryptPiece(n)
CipherSpec == CipherInit /\ [][CipherNext]_cvars

-----------------------------------------------------------------------------
Phases == {"start", "encrypting", "encrypted", "sent", "decrypting", "done", "hung"}
IsArray(w) == w \in [words : Chain, sigBytes : Nat]
CipherTypeOK ==
    /\ phase \in Phases
    /\ IsArray(heldKey) /\ IsArray(produced) /\ IsArray(restored) /\ IsArray(received.ciphertext)
    /\ given \in 0..task.size /\ taken \in Nat
    /\ phase = "encrypting" => sender.run \in RunStates(task.cipher) /\ IsArray(sender.data)
    /\ phase = "decrypting" => receiver.run \in RunStates(task.cipher) /\ IsArray(receiver.data)

StartsWith(whole, bytes) == Len(bytes) <= Len(whole) /\ SubSeq(whole, 1, Len(bytes)) = bytes

\* Wherever the script pauses, and if it begins again too, what the cipher
\* has returned is the beginning of the standard's cipher text, and all of it
\* once it is finalized (Cipher.process, finalize and reset,
\* cipher-core.js:105-157; the modes and the ciphers).
CiphertextIsStandard ==
    /\ StartsWith(task.standard, Bytes(produced))
    /\ phase \notin {"start", "encrypting"} => Bytes(produced) = task.standard

\* The other page, whatever text form the cipher text took and however it
\* cuts it, ends with the message (decryptByDES of index.html, and every
\* cipher with its mode and padding).
DecryptRestores == phase = "done" => Bytes(restored) = Whole

\* Until it is finalized a decryptor returns bytes of the message only, never
\* a byte of the padding (_minBufferSize, cipher-core.js:461-462).
NeverReleasesPadding == phase = "decrypting" => StartsWith(Whole, Bytes(restored))

\* No call runs for ever: what the padding of the sender leaves ends the loop
\* of unpad (pad-zeropadding.js:26-28, pad-iso97971.js:20-24).
EveryCallReturns == phase # "hung"
=============================================================================
