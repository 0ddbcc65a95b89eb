----------------------------- MODULE HashScripts ----------------------------
(***************************************************************************)
(* A script of a page that digests: it makes hashers (or HMACs), feeds     *)
(* them a message piece by piece, finalizes, resets and clones them; or it *)
(* calls one of the functions that do all of it at once.                   *)
(*                                                                         *)
(* A job fixes the function, the key or password, how the pieces are       *)
(* turned into word arrays, and at how many bytes the script may pause.    *)
(* The message is the beginning of one endless text.                       *)
(***************************************************************************)
EXTENDS Hashers, PageSha1

CONSTANTS
    Objects,       \* the objects the script may hold
    Jobs,          \* [kind, hasher, key, entry, stops, size, iterations]
    Text,          \* Text[i]: byte i of the endless message
    Standard       \* Standard[kind, hasher, n]: the digest of the first n bytes by the standards
ASSUME ObjectsAssumption == Objects # {}

VARIABLES
    job,
    buffers,       \* [Objects -> _data and _nDataBytes, or Free]
    owners,        \* [Objects -> whose chaining value the object uses]
    chains,        \* [Objects -> the chaining value it owns, _hash or _state]
    fedBytes,           \* how many bytes of the message it was fed
    results        \* the digest it gave out, and what it is a digest of
hvars == <<job, buffers, owners, chains, fedBytes, results>>

Free == [data |-> EmptyArray, nDataBytes |-> -1]
InUse(o) == buffers[o] # Free
NoResult == [length |-> -1, digest |-> EmptyArray]

-----------------------------------------------------------------------------
(* How the caller's piece of the message becomes a word array.             *)

Units(bytes) ==
    [i \in 1..(Len(bytes) \div 2) |-> {p + 8 : p \in bytes[(2 * i) - 1]} \cup bytes[2 * i]]
Entered(entry, bytes) ==
    CASE entry = "Utf8" -> Utf8Parse(Utf8Stringify(OfBytes(bytes)))
      [] entry = "Latin1" -> Latin1Parse(bytes)
      [] entry = "Hex" -> HexParse(HexStringify(OfBytes(bytes)))
      [] entry = "Base64" -> Base64Parse(Map, Base64Stringify(Map, OfBytes(bytes)))
      [] entry = "Utf16" -> Utf16Parse(Units(bytes))
      [] entry = "Utf16LE" -> Utf16LEParse([i \in DOMAIN Units(bytes) |-> SwapEndian(Units(bytes)[i])])
      [] entry = "TypedArray" -> OfTypedArray([bytes |-> bytes])
StreamKinds == {"hash", "mac"}
CallKinds == {"pbkdf2", "evpkdf", "hex_sha1", "str_sha1", "b64_hmac_sha1", "shortcut", "macShortcut"}
ASSUME TextAssumption == Text \in Seq(Byte)
ASSUME JobAssumption ==
    \A j \in Jobs : /\ j.hasher \in HasherNames /\ j.key \in Arrays
                    /\ j.kind \in StreamKinds \cup CallKinds
                    /\ j.stops \subseteq 0..Len(Text)
                    /\ j.size \in Nat /\ j.iterations \in Nat \ {0}
\* A script cuts its text between characters (and Base64 gives back what it got).
ASSUME PieceAssumption ==
    \A j \in Jobs :
        \/ j.entry \in {"Latin1", "Hex", "TypedArray"}
        \/ \A from \in j.stops \cup {0}, to \in j.stops : from <= to =>
              \A bytes \in {SubSeq(Text, from + 1, to)} : Entered(j.entry, bytes) = OfBytes(bytes)

Piece(from, to) == Entered(job.entry, SubSeq(Text, from + 1, to))

-----------------------------------------------------------------------------
(* The object, as the operators of Hashers see it.                         *)

IsMac == job.kind = "mac"
HasherOf(o) ==
    [hasher |-> job.hasher, data |-> buffers[o].data, nDataBytes |-> buffers[o].nDataBytes, hash |-> chains[owners[o]]]
MacWith(inner) == WithPads(inner, MacKey(job.hasher, job.key))
\* Wrong: init does not call reset.
FreshUnreset == IF IsMac THEN NewMac(job.hasher, job.key).inner ELSE [NewHasher(job.hasher) EXCEPT !.hash = <<>>]
Fresh == IF IsMac THEN NewMac(job.hasher, job.key).inner ELSE NewHasher(job.hasher)
Rewound(h) == IF IsMac THEN ResetMac(MacWith(h)).inner ELSE ResetHasher(h)
Finished(h, data) == IF IsMac THEN FinalizeMac(MacWith(h), data).inner ELSE FinalizeHasher(h, data)

BufferOf(h) == [data |-> h.data, nDataBytes |-> h.nDataBytes]
\* The object keeps its chaining value where it was, or gets one of its own.
Keep(o, h) ==
    /\ buffers' = [buffers EXCEPT ![o] = BufferOf(h)]
    /\ chains' = [chains EXCEPT ![owners[o]] = h.hash]
    /\ UNCHANGED owners
GetOwn(o, h) ==
    /\ buffers' = [buffers EXCEPT ![o] = BufferOf(h)]
    /\ chains' = [chains EXCEPT ![o] = h.hash]
    /\ owners' = [owners EXCEPT ![o] = o]

-----------------------------------------------------------------------------
HashStart(first) ==
    /\ job = first
    /\ buffers = [o \in Objects |-> Free]
    /\ owners = [o \in Objects |-> o]
    /\ chains = [o \in Objects |-> <<>>]
    /\ fedBytes = [o \in Objects |-> 0]
    /\ results = [o \in Objects |-> NoResult]
HashInit == \E first \in Jobs : HashStart(first)

\* CryptoJS.algo.SHA1.create(), CryptoJS.algo.HMAC.create(hasher, key).  The
\* objects differ in nothing, so the first one may be any.
CreateHasher(o) ==
    /\ job.kind \in StreamKinds
    /\ o = CHOOSE q \in Objects : TRUE
    /\ \A q \in Objects : ~InUse(q)
    /\ GetOwn(o, Fresh)
    /\ UNCHANGED <<job, fedBytes, results>>

\* A finalized object may only be reset.
Feeding(o) == InUse(o) /\ results[o] = NoResult

Update(o, n) ==
    /\ Feeding(o)
    /\ n \in job.stops /\ n > fedBytes[o]
    /\ Keep(o, UpdateHasher(HasherOf(o), Piece(fedBytes[o], n)))
    /\ fedBytes' = [fedBytes EXCEPT ![o] = n]
    /\ UNCHANGED <<job, results>>

GiveDigest(o, n, h) ==
    /\ Keep(o, h)
    /\ results' = [results EXCEPT ![o] = [length |-> n, digest |-> Result(h)]]
\* With a last piece or, if n = fedBytes[o], without one.
Finalize(o, n) ==
    /\ Feeding(o)
    /\ n \in job.stops \cup {0} /\ n >= fedBytes[o]
    /\ GiveDigest(o, n, Finished(HasherOf(o), IF n = fedBytes[o] THEN EmptyArray ELSE Piece(fedBytes[o], n)))
    /\ fedBytes' = [fedBytes EXCEPT ![o] = n]
    /\ UNCHANGED job

Reset(o) ==
    /\ InUse(o)
    /\ GetOwn(o, Rewound(HasherOf(o)))
    /\ fedBytes' = [fedBytes EXCEPT ![o] = 0]
    /\ results' = [results EXCEPT ![o] = NoResult]
    /\ UNCHANGED job

\* Wrong: the clone of a hasher does not clone its chaining value.
CloneShares(o, p) ==
    /\ job.kind = "hash"
    /\ Feeding(o) /\ ~InUse(p)
    /\ buffers' = [buffers EXCEPT ![p] = buffers[o]]
    /\ owners' = [owners EXCEPT ![p] = owners[o]]
    /\ fedBytes' = [fedBytes EXCEPT ![p] = fedBytes[o]]
    /\ UNCHANGED <<job, chains, results>>

\* Base.clone shares every property; the clone of a buffered algorithm copies
\* _data and that of a hasher its chaining value.  HMAC has no clone of its own.
Clone(o, p) ==
    /\ job.kind = "hash"
    /\ Feeding(o) /\ ~InUse(p)
    /\ buffers' = [buffers EXCEPT ![p] = buffers[o]]
    /\ owners' = [owners EXCEPT ![p] = p]
    /\ chains' = [chains EXCEPT ![p] = chains[owners[o]]]
    /\ fedBytes' = [fedBytes EXCEPT ![p] = fedBytes[o]]
    /\ UNCHANGED <<job, results>>

\* One call: C.PBKDF2, C.EvpKDF with the message as the salt; hex_sha1 and
\* b64_hmac_sha1 of sha1.js; the shortcuts made by _createHelper and
\* _createHmacHelper.
OneCall(data, chars) ==
    CASE job.kind = "pbkdf2" -> Pbkdf2(job.hasher, job.key, data, job.size, job.iterations)
      [] job.kind = "evpkdf" -> EvpKdf(job.hasher, job.key, data, job.size, job.iterations)
      [] job.kind = "hex_sha1" -> HexParse(hex_sha1(chars))
      [] job.kind = "str_sha1" -> Latin1Parse(str_sha1(chars))
      [] job.kind = "b64_hmac_sha1" -> Base64Parse(Map, b64_hmac_sha1(Bytes(job.key), chars))
      [] job.kind = "shortcut" -> HashOf(job.hasher, data)
      [] job.kind = "macShortcut" -> MacOf(job.hasher, data, job.key)
Call(o, n) ==
    /\ job.kind \notin StreamKinds
    /\ \A q \in Objects : results[q] = NoResult
    /\ n \in job.stops
    /\ results' = [results EXCEPT ![o] = [length |-> n, digest |-> OneCall(Piece(0, n), SubSeq(Text, 1, n))]]
    /\ UNCHANGED <<job, buffers, owners, chains, fedBytes>>

HashNext ==
    \E o \in Objects :
        \/ CreateHasher(o)
        \/ Reset(o)
        \/ \E p \in Objects : Clone(o, p)
        \/ \E n \in job.stops : Update(o, n) \/ Call(o, n)
        \/ \E n \in job.stops \cup {0} : Finalize(o, n)
HashSpec == HashInit /\ [][HashNext]_hvars

-----------------------------------------------------------------------------
HashTypeOK ==
    /\ \A o \in Objects :
          /\ buffers[o] \in [data : [words : Chain, sigBytes : Nat], nDataBytes : Nat] \cup {Free}
          /\ InUse(o) => chains[owners[o]] \in HashStates(job.hasher)
    /\ owners \in [Objects -> Objects]
    /\ fedBytes \in [Objects -> Nat]

\* However the message is cut, cloned on the way or begun again, the digest
\* given out is the one the standard gives the bytes fed (Hasher.update and
\* finalize, core.js:628-663; HMAC, PBKDF2, EvpKDF; sha1.js).
DigestIsStandard ==
    \A o \in Objects : results[o] # NoResult => Bytes(results[o].digest) = Standard[job.kind, job.hasher, results[o].length]

\* It is the one that a single call with the whole message gives, in bytes that
\* nobody cut, encoded or copied on the way.
DigestIgnoresCuts ==
    \A o \in Objects : results[o] # NoResult /\ job.kind \in StreamKinds =>
        LET whole == OfBytes(SubSeq(Text, 1, results[o].length))
        IN  results[o].digest = IF IsMac THEN MacOf(job.hasher, whole, job.key) ELSE HashOf(job.hasher, whole)

\* Between two calls an object that feeds holds less than a block (an HMAC
\* too: its padded key is a whole block), and everything it was fed is either
\* in the chaining value or in the buffer (core.js:513-552).
BufferHoldsTheTail ==
    \A o \in Objects : Feeding(o) =>
        LET size == 4 * BlockSize(job.hasher)
        IN  /\ buffers[o].nDataBytes = fedBytes[o] + (IF IsMac THEN size ELSE 0)
            /\ Bytes(buffers[o].data) = SubSeq(Text, fedBytes[o] - (fedBytes[o] % size) + 1, fedBytes[o])

\* A digest survives each of the text forms the scripts give it, whatever
\* insignificant words its array has (toString, core.js:187; the encoders).
TextFormsRoundTrip ==
    \A o \in Objects : results[o] # NoResult =>
        LET d == results[o].digest
        IN  /\ Bytes(HexParse(HexStringify(d))) = Bytes(d)
            /\ Bytes(Latin1Parse(Latin1Stringify(d))) = Bytes(d)
            /\ \A map \in {Map, PageMap} : Bytes(Base64Parse(map, Base64Stringify(map, d))) = Bytes(d)
            /\ d.sigBytes % 2 = 0 => /\ Bytes(Utf16Parse(Utf16Stringify(d))) = Bytes(d)
                                     /\ Bytes(Utf16LEParse(Utf16LEStringify(d))) = Bytes(d)
=============================================================================
