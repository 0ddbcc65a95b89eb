-------------------------- MODULE MultipartUpload --------------------------
(***************************************************************************)
(* Uploads to the object storage in parts: OssServiceImpl.uploadFile and   *)
(* FileUploader.upload in the web threads, AliOssUpload.run in the threads *)
(* of a pool per file. The list of uploaded parts, the object name and the *)
(* client are static fields that all uploads of a node share. (The fields  *)
(* are not volatile. A thread reads each of them after it was written for  *)
(* its own upload, so a write of another that it does not see yet is one   *)
(* that comes later.)                                                      *)
(*                                                                         *)
(* The object storage is external: a call may fail, before or after it     *)
(* took effect, and fails if the client is shut down or the upload id does *)
(* not belong to the name; completion wants parts of that upload in        *)
(* ascending order. Its SDK is external too: to complete an upload it walks*)
(* the list it is given, here the static one, with size and get.           *)
(***************************************************************************)
EXTENDS Integers, Sequences, FiniteSets, SequencesExt

CONSTANTS Request,       \* calls of uploadFile
          FileLists,     \* the sizes of the files a call may bring, without the empty ones
          partSize,
          corePoolSize   \* threads of a pool

ASSUME PartAssumption == partSize \in Nat \ {0} /\ corePoolSize \in Nat \ {0}
ASSUME FileAssumption == FileLists \subseteq Seq(Nat \ {0})
ASSUME RequestAssumption == <<>> \notin Request   \* <<>> stands for none

VARIABLES
    files,      \* the sizes of the files of each call
    req,        \* where each call is; n: the current file, i: the loop over its parts
    tasks,      \* part uploads queued in the pools or running
    client,     \* static FileUploader.ossClient, named by the call that built it
    shut,       \* the clients shut down
    key,        \* static AliOssUpload.key, named by the file
    etags,      \* static AliOssUpload.PART_E_TAGS
    sending,    \* the completion request of each call, with the tags the SDK has read so far
    fileList,   \* what each call has to answer so far: names of files, or null
    stored,     \* storage: uploaded parts
    objects,    \* storage: completed objects
    cleared,    \* history: files whose list another call cleared while the SDK walked it
    overlapped, \* history: calls that ran beside another one
    troubled    \* history: calls that met a failure of the storage or of a file

vars == <<files, req, tasks, client, shut, key, etags, sending, fileList, stored, objects,
          cleared, overlapped, troubled>>

-----------------------------------------------------------------------------
(* How upload splits a file *)

PartCount(size) == (size \div partSize) + (IF size % partSize # 0 THEN 1 ELSE 0)

StartPos(i) == i * partSize

\* Mutant: the last part is as long as the others.
CurPartSizeFull(size, i) == partSize

CurPartSize(size, i) == IF i + 1 = PartCount(size) THEN size - StartPos(i) ELSE partSize

\* The positions of the bytes of the part numbered i + 1.
Bytes(size, i) == [k \in 1 .. CurPartSize(size, i) |-> StartPos(i) + k]

-----------------------------------------------------------------------------
File == UNION {{u} \X DOMAIN files[u] : u \in Request}
SizeOf(f) == files[f[1]][f[2]]
None == <<>>

\* The file call u is uploading.
Current(u) == <<u, req[u].n>>

\* A part in the storage. It stands for its PartETag, a number and a digest.
Part(f, i) == [file |-> f, number |-> i + 1, bytes |-> Bytes(SizeOf(f), i)]

Active == {u \in Request : req[u].pc \notin {"start", "done", "failed"}}

Stages == {"start", "claim", "split", "await", "count", "list", "sort", "complete", "call",
           "walk", "entry", "return", "unfinished", "throw", "close", "done", "failed"}

NoRequest == [key |-> None, client |-> None, list |-> <<>>]

UploadTypeOK ==
    /\ files \in [Request -> FileLists]
    /\ req \in [Request -> [pc : Stages, n : Nat, i : Nat]]
    /\ \A u \in Request :
          IF files[u] = <<>> THEN req[u].pc \in {"start", "close", "done"}
          ELSE req[u].n \in DOMAIN files[u] /\ req[u].i <= PartCount(SizeOf(Current(u)))
    /\ tasks \subseteq [file : File, i : Nat, pc : {"queued", "named", "sent"},
                        key : File \union {None}]
    /\ \A t \in tasks : t.i < PartCount(SizeOf(t.file))
    /\ client \in Request \union {None} /\ shut \subseteq Request
    /\ key \in File \union {None}
    /\ ToSet(etags) \subseteq stored
    /\ sending \in [Request -> [key : File \union {None}, client : Request \union {None},
                                list : Seq(stored)]]
    /\ fileList \in [Request -> Seq(File \union {None})]
    /\ \A p \in stored : p.file \in File /\ ToSet(p.bytes) \subseteq 1 .. SizeOf(p.file)
    /\ cleared \subseteq File /\ overlapped \subseteq Request /\ troubled \subseteq Request

Init ==
    /\ files \in [Request -> FileLists]
    /\ req = [u \in Request |-> [pc |-> "start", n |-> 1, i |-> 0]]
    /\ tasks = {}
    /\ client = None /\ shut = {} /\ key = None
    /\ etags = <<>>
    /\ sending = [u \in Request |-> NoRequest]
    /\ fileList = [u \in Request |-> <<>>]
    /\ stored = {}
    /\ objects = [f \in File |-> None]
    /\ cleared = {} /\ overlapped = {} /\ troubled = {}

Goto(u, p) == req' = [req EXCEPT ![u].pc = p]

\* The storage or the file fails call u.
Failing(u) == troubled' = troubled \union {u}

-----------------------------------------------------------------------------
(* The web thread *)

\* new FileUploader. uploadFile passes over the empty files; there may be no other.
NewUploader(u) ==
    /\ req[u].pc = "start"
    /\ client' = u
    /\ overlapped' = IF Active = {} THEN overlapped ELSE overlapped \union Active \union {u}
    /\ Goto(u, IF files[u] = <<>> THEN "close" ELSE "claim")
    /\ UNCHANGED <<files, tasks, shut, key, etags, sending, fileList, stored, objects,
                   cleared, troubled>>

\* uploadFile goes on with the name of the file, or null. (With fullPath, null too is
\* made a url: the name of no object.)
AfterFile(u, name) ==
    /\ fileList' = [fileList EXCEPT ![u] = Append(@, name)]
    /\ req' = [req EXCEPT ![u] = IF @.n < Len(files[u])
                                 THEN [pc |-> "claim", n |-> @.n + 1, i |-> 0]
                                 ELSE [@ EXCEPT !.pc = "close"]]

\* getInputStream fails before upload is called: multipartFileUpload prints the
\* exception and returns null.
SkipFile(u) ==
    /\ req[u].pc = "claim"
    /\ AfterFile(u, None)
    /\ UNCHANGED <<files, tasks, client, shut, key, etags, sending, stored, objects,
                   cleared, overlapped, troubled>>

\* claimUploadId, with the name of the file as an argument, and the reading of the
\* file, which may fail too.
ClaimUploadId(u) ==
    /\ req[u].pc = "claim"
    /\ \/ client \notin shut /\ Goto(u, "split") /\ UNCHANGED troubled
       \/ client \in shut /\ Goto(u, "throw") /\ UNCHANGED troubled
       \/ Goto(u, "throw") /\ Failing(u)
    /\ UNCHANGED <<files, tasks, client, shut, key, etags, sending, fileList, stored, objects,
                   cleared, overlapped>>

\* The next part is queued: constructing its task writes the static name. After
\* the last one the pool is shut down and awaited.
Execute(u) ==
    /\ req[u].pc = "split"
    /\ IF req[u].i < PartCount(SizeOf(Current(u)))
       THEN /\ key' = Current(u)
            /\ tasks' = tasks \union {[file |-> Current(u), i |-> req[u].i,
                                       pc |-> "queued", key |-> None]}
            /\ req' = [req EXCEPT ![u].i = @ + 1]
       ELSE Goto(u, "await") /\ UNCHANGED <<key, tasks>>
    /\ UNCHANGED <<files, client, shut, etags, sending, fileList, stored, objects,
                   cleared, overlapped, troubled>>

TasksOf(u) == {t \in tasks : t.file[1] = u}

\* Mutant: waits until every part is in the list.
AwaitAllParts(u) ==
    /\ req[u].pc = "await"
    /\ Len(etags) >= PartCount(SizeOf(Current(u)))
    /\ TasksOf(u) = {}
    /\ Goto(u, "count")
    /\ UNCHANGED <<files, tasks, client, shut, key, etags, sending, fileList, stored, objects,
                   cleared, overlapped, troubled>>

\* Mutant: waits only for the list to fill.
AwaitFirstPart(u) ==
    /\ req[u].pc = "await"
    /\ etags # <<>> \/ TasksOf(u) = {}
    /\ Goto(u, "count")
    /\ UNCHANGED <<files, tasks, client, shut, key, etags, sending, fileList, stored, objects,
                   cleared, overlapped, troubled>>

\* isTerminated. An interrupt of awaitTermination is caught inside the loop.
AwaitTermination(u) ==
    /\ req[u].pc = "await"
    /\ TasksOf(u) = {}
    /\ Goto(u, "count")
    /\ UNCHANGED <<files, tasks, client, shut, key, etags, sending, fileList, stored, objects,
                   cleared, overlapped, troubled>>

\* Mutant: the number of parts is not compared.
CountPartsUnchecked(u) ==
    /\ req[u].pc = "count"
    /\ Goto(u, "list")
    /\ UNCHANGED <<files, tasks, client, shut, key, etags, sending, fileList, stored, objects,
                   cleared, overlapped, troubled>>

\* IllegalStateException unless the list has as many entries as the file parts.
CountParts(u) ==
    /\ req[u].pc = "count"
    /\ Goto(u, IF Len(etags) # PartCount(SizeOf(Current(u))) THEN "unfinished" ELSE "list")
    /\ UNCHANGED <<files, tasks, client, shut, key, etags, sending, fileList, stored, objects,
                   cleared, overlapped, troubled>>

\* listAllParts only logs, but its call may throw. It sends the static name.
ListAllParts(u) ==
    /\ req[u].pc = "list"
    /\ \/ client \notin shut /\ key = Current(u) /\ Goto(u, "sort") /\ UNCHANGED troubled
       \/ (client \in shut \/ key # Current(u)) /\ Goto(u, "throw") /\ UNCHANGED troubled
       \/ Goto(u, "throw") /\ Failing(u)
    /\ UNCHANGED <<files, tasks, client, shut, key, etags, sending, fileList, stored, objects,
                   cleared, overlapped>>

\* list, read in the order p, ascends, and equal numbers keep their order.
IsStableSort(p, list) ==
    \A j, k \in DOMAIN list : j < k =>
        \/ list[p[j]].number < list[p[k]].number
        \/ list[p[j]].number = list[p[k]].number /\ p[j] < p[k]

\* completeMultipartUpload sorts the shared list, under its lock.
SortParts(u) ==
    /\ req[u].pc = "sort"
    /\ \E p \in Bijection(DOMAIN etags, DOMAIN etags) :
          IsStableSort(p, etags) /\ etags' = [k \in DOMAIN etags |-> etags[p[k]]]
    /\ Goto(u, "complete")
    /\ UNCHANGED <<files, tasks, client, shut, key, sending, fileList, stored, objects,
                   cleared, overlapped, troubled>>

\* The request takes the static name, and the list itself, not what is in it now.
NewCompleteRequest(u) ==
    /\ req[u].pc = "complete"
    /\ sending' = [sending EXCEPT ![u].key = key]
    /\ Goto(u, "call")
    /\ UNCHANGED <<files, tasks, client, shut, key, etags, fileList, stored, objects,
                   cleared, overlapped, troubled>>

\* The call reads the static client.
CallClient(u) ==
    /\ req[u].pc = "call"
    /\ sending' = [sending EXCEPT ![u].client = client]
    /\ Goto(u, "walk")
    /\ UNCHANGED <<files, tasks, client, shut, key, etags, fileList, stored, objects,
                   cleared, overlapped, troubled>>

\* The SDK has not yet as many entries as the list has now.
HasNext(u) ==
    /\ req[u].pc = "walk"
    /\ Len(sending[u].list) < Len(etags)
    /\ Goto(u, "entry")
    /\ UNCHANGED <<files, tasks, client, shut, key, etags, sending, fileList, stored, objects,
                   cleared, overlapped, troubled>>

\* The next entry of the list, if it is still there: IndexOutOfBoundsException.
NextEntry(u) ==
    LET k == Len(sending[u].list) + 1 IN
    /\ req[u].pc = "entry"
    /\ IF k <= Len(etags)
       THEN /\ sending' = [sending EXCEPT ![u].list = Append(@, etags[k])]
            /\ Goto(u, "walk")
       ELSE sending' = [sending EXCEPT ![u] = NoRequest] /\ Goto(u, "throw")
    /\ UNCHANGED <<files, tasks, client, shut, key, etags, fileList, stored, objects,
                   cleared, overlapped, troubled>>

\* The storage accepts a list of parts of this upload, in ascending order.
Accepts(f, list) ==
    /\ list # <<>>
    /\ \A k \in DOMAIN list : list[k] \in stored /\ list[k].file = f
    /\ \A k \in 1 .. Len(list) - 1 : list[k].number < list[k + 1].number

Assembled(list) == FlattenSeq([k \in DOMAIN list |-> list[k].bytes])

\* At the end of the list the request is sent. (A client that is shut down later
\* makes the call fail, or not.)
CompleteMultipartUpload(u) ==
    LET f == Current(u)
        s == sending[u]
        ok == s.client \notin shut /\ s.key = f /\ Accepts(f, s.list)
        Store == objects' = [objects EXCEPT ![f] = Assembled(s.list)] IN
    /\ req[u].pc = "walk"
    /\ Len(s.list) >= Len(etags)
    /\ \/ ok /\ Store /\ Goto(u, "return") /\ UNCHANGED troubled
       \/ ~ok /\ UNCHANGED objects /\ Goto(u, "throw") /\ UNCHANGED troubled
       \/ ((ok /\ Store) \/ UNCHANGED objects) /\ Goto(u, "throw") /\ Failing(u)
    /\ sending' = [sending EXCEPT ![u] = NoRequest]
    /\ UNCHANGED <<files, tasks, client, shut, key, etags, fileList, stored,
                   cleared, overlapped>>

\* The calls other than u for which the SDK is walking the list.
Walking(u) == {v \in Request \ {u} : req[v].pc \in {"walk", "entry"}}

\* Mutant: the list is cleared only after a success.
ClearOnReturn(u) ==
    /\ \/ /\ req[u].pc = "return" /\ AfterFile(u, Current(u))
          /\ etags' = <<>> /\ cleared' = cleared \union {Current(v) : v \in Walking(u)}
       \/ req[u].pc \in {"unfinished", "throw"} /\ Goto(u, "failed") /\ UNCHANGED <<etags, fileList, cleared>>
    /\ UNCHANGED <<files, tasks, client, shut, key, sending, stored, objects,
                   overlapped, troubled>>

\* Mutant: an exception is swallowed, and the name returned.
ClearAndSwallow(u) ==
    /\ req[u].pc \in {"return", "unfinished", "throw"}
    /\ etags' = <<>> /\ cleared' = cleared \union {Current(v) : v \in Walking(u)}
    /\ AfterFile(u, Current(u))
    /\ UNCHANGED <<files, tasks, client, shut, key, sending, stored, objects,
                   overlapped, troubled>>

\* The finally clause of upload; an exception leaves uploadFile before close.
Clear(u) ==
    /\ etags' = <<>> /\ cleared' = cleared \union {Current(v) : v \in Walking(u)}
    /\ \/ req[u].pc = "return" /\ AfterFile(u, Current(u))
       \/ req[u].pc \in {"unfinished", "throw"} /\ Goto(u, "failed") /\ UNCHANGED fileList
    /\ UNCHANGED <<files, tasks, client, shut, key, sending, stored, objects,
                   overlapped, troubled>>

\* close shuts down the client that is in the static field now.
Close(u) ==
    /\ req[u].pc = "close"
    /\ shut' = shut \union {client}
    /\ Goto(u, "done")
    /\ UNCHANGED <<files, tasks, client, key, etags, sending, fileList, stored, objects,
                   cleared, overlapped, troubled>>

-----------------------------------------------------------------------------
(* A thread of a pool: AliOssUpload.run *)

Becomes(t, p) == tasks' = (tasks \ {t}) \union {[t EXCEPT !.pc = p]}
Ends(t) == tasks' = tasks \ {t}

\* The first corePoolSize tasks have a thread each, a later one is taken by the next
\* thread that is free; each thread reads the static name when it gets to it.
SetKey(t) ==
    /\ t.pc = "queued"
    /\ Cardinality({r \in TasksOf(t.file[1]) : r.pc # "queued" \/ r.i < t.i}) < corePoolSize
    /\ tasks' = (tasks \ {t}) \union {[t EXCEPT !.pc = "named", !.key = key]}
    /\ UNCHANGED <<files, req, client, shut, key, etags, sending, fileList, stored, objects,
                   cleared, overlapped, troubled>>

\* uploadPart; an exception is caught and printed.
UploadPart(t) ==
    LET ok == client \notin shut /\ t.key = t.file
        Keep == stored' = stored \union {Part(t.file, t.i)} IN
    /\ t.pc = "named"
    /\ \/ ok /\ Keep /\ Becomes(t, "sent") /\ UNCHANGED troubled
       \/ ~ok /\ UNCHANGED stored /\ Ends(t) /\ UNCHANGED troubled
       \/ ((ok /\ Keep) \/ UNCHANGED stored) /\ Ends(t) /\ Failing(t.file[1])
    /\ UNCHANGED <<files, req, client, shut, key, etags, sending, fileList, objects,
                   cleared, overlapped>>

AddETag(t) ==
    /\ t.pc = "sent"
    /\ etags' = Append(etags, Part(t.file, t.i))
    /\ Ends(t)
    /\ UNCHANGED <<files, req, client, shut, key, sending, fileList, stored, objects,
                   cleared, overlapped, troubled>>

-----------------------------------------------------------------------------
RequestStep(u) ==
    \/ NewUploader(u) \/ SkipFile(u) \/ ClaimUploadId(u) \/ Execute(u) \/ AwaitTermination(u)
    \/ CountParts(u) \/ ListAllParts(u) \/ SortParts(u) \/ NewCompleteRequest(u) \/ CallClient(u)
    \/ HasNext(u) \/ NextEntry(u) \/ CompleteMultipartUpload(u) \/ Clear(u) \/ Close(u)

TaskStep(t) == SetKey(t) \/ UploadPart(t) \/ AddETag(t)

Next == (\E u \in Request : RequestStep(u)) \/ (\E t \in tasks : TaskStep(t))

Spec == Init /\ [][Next]_vars

\* The threads of every call that has begun go on, its web thread or, while it waits,
\* those of its pool. (A call to the storage ends: its client has a socket timeout.)
CallStep(u) ==
    \/ req[u].pc # "start" /\ RequestStep(u)
    \/ \E t \in TasksOf(u) : TaskStep(t)

Fairness == \A u \in Request : WF_vars(CallStep(u))

FairSpec == Spec /\ Fairness

-----------------------------------------------------------------------------
(* Properties *)

Promised ==
    INSTANCE Uploads
    WITH status <- [u \in Request |-> CASE req[u].pc = "start" -> "ready"
                                       [] req[u].pc \in {"done", "failed"} -> req[u].pc
                                       [] OTHER -> "busy"]

\* What "some parts are not finished yet" (the exception of upload) rules out: a
\* completed object that is not the whole file, each byte once and in order.
StoredIsWhole ==
    \A f \in File : objects[f] # None => objects[f] = Promised!Content(SizeOf(f))

\* A completed object is the whole file though parts fail, uploads mix their lists
\* and names, and clients are shut down by others, unless another upload cleared
\* the list while the SDK walked it: and then it is a piece of the file, bytes of
\* no other file, none twice and all in order.
StoredIsWholeUnlessCleared ==
    \A f \in File : objects[f] # None =>
        /\ objects[f] \in Promised!Pieces(SizeOf(f))
        /\ f \notin cleared => objects[f] = Promised!Content(SizeOf(f))

\* Every call of uploadFile keeps what Uploads promises: its objects in the order of
\* the call, whole if it runs alone, an answer that names the stored files and only
\* those, none replaced or removed, though what it sends is taken from fields that
\* other calls change.
KeepsPromise == Promised!Spec

\* A call fails only if a call to the storage failed or another upload overlapped
\* it: nothing that an earlier upload, failed or not, leaves in the static fields
\* disturbs it.
FailsOnlyWhenDisturbed ==
    \A u \in Request : req[u].pc \in {"unfinished", "throw", "failed"} =>
        u \in overlapped \union troubled

\* upload returns or throws only after its part uploads have ended; none of them
\* adds to the list of a later upload.
NoPartOutlivesItsUpload == \A t \in tasks : req[t.file[1]].pc \in {"split", "await"}

\* Every upload that began ends, whichever of its parts fail: the wait for the
\* pool has no deadline.
UploadEnds == \A u \in Request : req[u].pc # "start" ~> req[u].pc \in {"done", "failed"}
=============================================================================
