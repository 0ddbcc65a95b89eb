----------------------- MODULE MultipartUploadProofs -----------------------
(* Proofs about MultipartUpload, for any part size, pool size, number of   *)
(* calls and lists of files: how a file is split, the types, the part      *)
(* uploads of a call, the objects that are completed, the implementation   *)
(* of Uploads, and the failures of calls.                                  *)
EXTENDS MultipartUpload, FiniteSetTheorems, FunctionTheorems, NatSets, TLAPS

\* Division with remainder.
LEMMA Division ==
    ASSUME NEW n \in Nat, NEW d \in Nat \ {0}
    PROVE  /\ n \div d \in Nat /\ n % d \in 0 .. d - 1
           /\ n = ((n \div d) * d) + (n % d)
  BY SMTT(30)

\* The products of the part size that the proofs need.
LEMMA Products ==
    ASSUME NEW i \in Nat, NEW j \in Nat
    PROVE  /\ i * partSize \in Nat
           /\ (i + 1) * partSize = (i * partSize) + partSize
           /\ i <= j => i * partSize <= j * partSize
           /\ i * partSize < j * partSize => i < j
  BY PartAssumption, SMTT(30)

\* The parts reach the end of the file, and the last one is needed.
LEMMA PartCountBounds ==
    ASSUME NEW size \in Nat \ {0}
    PROVE  /\ PartCount(size) \in Nat \ {0}
           /\ StartPos(PartCount(size) - 1) < size
           /\ size <= StartPos(PartCount(size))
<1> DEFINE q == size \div partSize
<1>1. q \in Nat /\ size % partSize \in 0 .. partSize - 1 /\ size = (q * partSize) + (size % partSize)
  BY Division, PartAssumption
<1>2. q * partSize \in Nat /\ (q + 1) * partSize = (q * partSize) + partSize
  BY <1>1, Products
<1>3. CASE size % partSize = 0
  <2>1. PartCount(size) = q
    BY <1>1, <1>3 DEF PartCount
  <2>2. q # 0
    <3>1. SUFFICES ASSUME q = 0 PROVE FALSE
      OBVIOUS
    <3>2. 0 * partSize = 0
      BY PartAssumption
    <3> QED
      BY <1>1, <1>3, <3>1, <3>2
  <2>3. (q - 1) * partSize = (q * partSize) - partSize
    <3>1. q - 1 \in Nat /\ (q - 1) + 1 = q
      BY <1>1, <2>2
    <3> HIDE DEF q
    <3>2. (q - 1) * partSize \in Nat /\ ((q - 1) + 1) * partSize = ((q - 1) * partSize) + partSize
      BY <3>1, Products
    <3> QED
      BY <3>1, <3>2, PartAssumption
  <2> QED
    BY <1>1, <1>2, <1>3, <2>1, <2>2, <2>3, PartAssumption DEF StartPos
<1>4. CASE size % partSize # 0
  <2>1. PartCount(size) = q + 1
    BY <1>1, <1>4 DEF PartCount
  <2> HIDE DEF q
  <2> QED
    BY <1>1, <1>2, <1>4, <2>1, PartAssumption DEF StartPos
<1> QED
  BY <1>3, <1>4

\* A part is not empty, and lies between its start and the next one's.
LEMMA PartBounds ==
    ASSUME NEW size \in Nat \ {0}, NEW i \in 0 .. PartCount(size) - 1
    PROVE  /\ CurPartSize(size, i) \in 1 .. partSize
           /\ StartPos(i) \in Nat
           /\ StartPos(i) + CurPartSize(size, i)
                = IF i + 1 = PartCount(size) THEN size ELSE StartPos(i + 1)
           /\ StartPos(i) + CurPartSize(size, i) <= size
<1> DEFINE c == PartCount(size)
<1>1. c \in Nat \ {0} /\ StartPos(c - 1) < size /\ size <= StartPos(c)
  BY PartCountBounds
<1>2. i \in Nat /\ i * partSize \in Nat /\ (i + 1) * partSize = (i * partSize) + partSize
  BY <1>1, Products
<1>3. CASE i + 1 = c
  <2>1. CurPartSize(size, i) = size - StartPos(i) /\ i = c - 1
    BY <1>1, <1>2, <1>3 DEF CurPartSize
  <2> QED
    BY <1>1, <1>2, <1>3, <2>1, PartAssumption DEF StartPos
<1>4. CASE i + 1 # c
  <2>1. CurPartSize(size, i) = partSize
    BY <1>4 DEF CurPartSize
  <2>2. i + 1 <= c - 1 /\ i + 1 \in Nat /\ c - 1 \in Nat
    BY <1>1, <1>2, <1>4
  <2>3. (i + 1) * partSize <= (c - 1) * partSize
    BY <2>2, Products
  <2>4. (c - 1) * partSize \in Nat
    BY <2>2, Products
  <2> QED
    BY <1>1, <1>2, <1>4, <2>1, <2>3, <2>4, PartAssumption DEF StartPos
<1> QED
  BY <1>3, <1>4

\* The parts into which upload splits a file: none is empty or larger than
\* partSize, and every byte is in exactly one of them, whatever the two sizes.
THEOREM PartsPartition ==
    ASSUME NEW size \in Nat \ {0}
    PROVE  /\ \A i \in 0 .. PartCount(size) - 1 :
                /\ CurPartSize(size, i) \in 1 .. partSize
                /\ Range(Bytes(size, i)) \subseteq 1 .. size
           /\ \A b \in 1 .. size : \E i \in 0 .. PartCount(size) - 1 : b \in Range(Bytes(size, i))
           /\ \A i, j \in 0 .. PartCount(size) - 1 :
                i # j => Range(Bytes(size, i)) \intersect Range(Bytes(size, j)) = {}
<1> DEFINE c == PartCount(size)
           Start(i) == i * partSize
<1>0. c \in Nat \ {0} /\ size <= Start(c)
  BY PartCountBounds DEF StartPos
<1>1. ASSUME NEW i \in 0 .. c - 1
      PROVE  /\ CurPartSize(size, i) \in 1 .. partSize
             /\ \A b \in Int : b \in Range(Bytes(size, i)) <=>
                  Start(i) < b /\ b <= Start(i) + CurPartSize(size, i)
             /\ Range(Bytes(size, i)) \subseteq 1 .. size
             /\ Start(i) \in Nat /\ Start(i) + CurPartSize(size, i) <= Start(i + 1)
             /\ i + 1 = c => Start(i) + CurPartSize(size, i) = size
             /\ i + 1 # c => Start(i) + CurPartSize(size, i) = Start(i + 1)
  <2> DEFINE n == CurPartSize(size, i)
  <2>1. /\ n \in 1 .. partSize /\ Start(i) \in Nat /\ Start(i) + n <= size
        /\ i + 1 = c => Start(i) + n = size
        /\ i + 1 # c => Start(i) + n = Start(i + 1)
    BY PartBounds DEF StartPos
  <2>2. Start(i + 1) = Start(i) + partSize
    BY Products, <1>0
  <2>3. Range(Bytes(size, i)) = {Start(i) + k : k \in 1 .. n}
    BY DEF Range, Bytes, StartPos
  <2> HIDE DEF n, Start
  <2>4. \A b \in Int : b \in Range(Bytes(size, i)) <=> Start(i) < b /\ b <= Start(i) + n
    <3>1. SUFFICES ASSUME NEW b \in Int, Start(i) < b, b <= Start(i) + n
                   PROVE  \E k \in 1 .. n : b = Start(i) + k
      BY <2>1, <2>3
    <3>2. b - Start(i) \in 1 .. n /\ b = Start(i) + (b - Start(i))
      BY <2>1, <3>1
    <3> QED
      BY <3>2
  <2>5. Range(Bytes(size, i)) \subseteq 1 .. size
    BY <2>1, <2>3
  <2> QED
    BY <2>1, <2>2, <2>4, <2>5, PartAssumption DEF n
<1>2. ASSUME NEW b \in 1 .. size
      PROVE  \E i \in 0 .. c - 1 : b \in Range(Bytes(size, i))
  <2> DEFINE i == (b - 1) \div partSize
  <2>1. b - 1 \in Nat
    OBVIOUS
  <2>2. /\ i \in Nat /\ (b - 1) % partSize \in 0 .. partSize - 1
        /\ b - 1 = (i * partSize) + ((b - 1) % partSize)
    BY <2>1, Division, PartAssumption
  <2> HIDE DEF i
  <2>3. Start(i) \in Nat /\ Start(i) < b /\ b <= Start(i + 1) /\ Start(i + 1) = Start(i) + partSize
    BY <2>2, Products, PartAssumption
  <2>4. Start(i) < Start(c)
    BY <1>0, <2>3, Products
  <2>5. i \in 0 .. c - 1
    BY <1>0, <2>2, <2>4, Products
  <2>6. b <= Start(i) + CurPartSize(size, i)
    BY <1>0, <1>1, <2>3, <2>5
  <2> QED
    BY <1>1, <2>3, <2>5, <2>6
<1>3. ASSUME NEW i \in 0 .. c - 1, NEW j \in 0 .. c - 1, i < j
      PROVE  Range(Bytes(size, i)) \intersect Range(Bytes(size, j)) = {}
  <2>1. Start(i + 1) <= Start(j)
    BY <1>0, <1>3, Products, i + 1 \in Nat, j \in Nat, i + 1 <= j
  <2>2. Start(i) + CurPartSize(size, i) <= Start(j) /\ Start(j) \in Nat
    <3>1. i + 1 \in Nat /\ j \in Nat
      BY <1>0
    <3>2. Start(i) \in Nat /\ Start(i + 1) \in Nat /\ Start(j) \in Nat
      BY <1>0, <3>1, Products
    <3>3. Start(i) + CurPartSize(size, i) <= Start(i + 1) /\ CurPartSize(size, i) \in Nat
      BY <1>1, PartAssumption
    <3> QED
      BY <2>1, <3>2, <3>3
  <2> QED
    BY <1>1, <2>2, PartAssumption
<1>4. ASSUME NEW i \in 0 .. c - 1, NEW j \in 0 .. c - 1, i # j
      PROVE  Range(Bytes(size, i)) \intersect Range(Bytes(size, j)) = {}
  <2>1. i < j \/ j < i
    BY <1>0, <1>4
  <2> HIDE DEF c
  <2> QED
    BY <1>3, <2>1
<1> HIDE DEF c, Start
<1>5. \A i \in 0 .. c - 1 : CurPartSize(size, i) \in 1 .. partSize /\ Range(Bytes(size, i)) \subseteq 1 .. size
  BY <1>1
<1> QED
  BY <1>2, <1>4, <1>5 DEF c

-----------------------------------------------------------------------------
(* Types *)

PartsOf(f) == {Part(f, i) : i \in 0 .. PartCount(SizeOf(f)) - 1}
AllParts == UNION {PartsOf(f) : f \in File}

\* All parts of the file are queued.
Ending == {"await", "count", "list", "sort", "complete", "call", "walk", "entry", "return"}

\* Where a call can be.
CallOK(u) ==
    /\ files[u] = <<>> => req[u].pc \in {"start", "close", "done"}
    /\ files[u] # <<>> => /\ req[u].n \in DOMAIN files[u]
                          /\ req[u].i <= PartCount(SizeOf(Current(u)))
    /\ req[u].pc \in {"start", "claim"} => req[u].i = 0
    /\ req[u].pc = "start" => req[u].n = 1
    /\ req[u].pc \in {"close", "done"} /\ files[u] # <<>> => req[u].n = Len(files[u])
    /\ req[u].pc \in Ending =>
          req[u].i = PartCount(SizeOf(Current(u)))

CallsOK ==
    /\ files \in [Request -> FileLists]
    /\ req \in [Request -> [pc : Stages, n : Nat, i : Nat]]
    /\ \A u \in Request : CallOK(u)

TasksOK ==
    /\ tasks \subseteq [file : File, i : Nat, pc : {"queued", "named", "sent"}, key : File \union {None}]
    /\ \A t \in tasks : t.i < PartCount(SizeOf(t.file))
    /\ key \in File \union {None}

PartsOK ==
    /\ etags \in Seq(AllParts) /\ ToSet(etags) \subseteq stored
    /\ stored \subseteq AllParts
    /\ \A t \in tasks : t.pc = "sent" => Part(t.file, t.i) \in stored

ClientsOK ==
    /\ client \in Request \union {None} /\ shut \subseteq Request
    /\ overlapped \subseteq Request /\ troubled \subseteq Request
    /\ \A u \in Request : req[u].pc # "start" => client \in Request
    /\ DOMAIN objects = File

SendingOK ==
    /\ sending \in [Request -> [key : File \union {None}, client : Request \union {None},
                                list : Seq(stored)]]
    /\ \A u \in Request : req[u].pc \notin {"walk", "entry"} => sending[u].list = <<>>

AnswersOK ==
    /\ fileList \in [Request -> Seq(File \union {None})]
    /\ cleared \subseteq File

TypeInv == CallsOK /\ TasksOK /\ PartsOK /\ ClientsOK /\ SendingOK /\ AnswersOK

\* A file of a call is not empty, and has parts.
LEMMA FilesHaveParts ==
    ASSUME files \in [Request -> FileLists], NEW f \in File
    PROVE  /\ f = <<f[1], f[2]>> /\ f[1] \in Request /\ f[2] \in DOMAIN files[f[1]]
           /\ SizeOf(f) \in Nat \ {0} /\ PartCount(SizeOf(f)) \in Nat \ {0}
<1>1. PICK u \in Request : f \in {u} \X DOMAIN files[u]
  BY DEF File
<1>2. f[1] = u /\ f[2] \in DOMAIN files[u] /\ f = <<f[1], f[2]>>
  BY <1>1
<1>3. files[u] \in Seq(Nat \ {0})
  BY FileAssumption
<1>4. SizeOf(f) \in Nat \ {0}
  BY <1>2, <1>3 DEF SizeOf
<1> QED
  BY <1>2, <1>4, PartCountBounds

\* The file that a call is at is one of its files.
LEMMA CurrentIsFile ==
    ASSUME CallsOK, NEW u \in Request, files[u] # <<>>
    PROVE  /\ Current(u) \in File /\ Current(u)[1] = u /\ Current(u)[2] = req[u].n
           /\ files[u] \in Seq(Nat \ {0}) /\ Len(files[u]) \in Nat \ {0}
           /\ req[u].n \in 1 .. Len(files[u])
           /\ PartCount(SizeOf(Current(u))) \in Nat \ {0}
           /\ req[u] \in [pc : Stages, n : Nat, i : Nat]
<1>1. files[u] \in Seq(Nat \ {0}) /\ req[u].n \in DOMAIN files[u]
  BY FileAssumption DEF CallsOK, CallOK
<1>2. Current(u) \in File /\ Current(u)[1] = u /\ Current(u)[2] = req[u].n
  BY <1>1 DEF Current, File
<1>3. Len(files[u]) \in Nat \ {0} /\ req[u].n \in 1 .. Len(files[u])
  BY <1>1
<1>4. PartCount(SizeOf(Current(u))) \in Nat \ {0}
  BY <1>2, FilesHaveParts DEF CallsOK
<1> QED
  BY <1>1, <1>2, <1>3, <1>4 DEF CallsOK

\* No step changes the files; a step of a call changes no other call, and a
\* step of a pool changes none.
LEMMA Frames ==
    ASSUME TypeInv
    PROVE  /\ [Next]_vars => files' = files
           /\ \A u \in Request : RequestStep(u) =>
                 /\ DOMAIN req' = Request
                 /\ \A v \in Request \ {u} : req'[v] = req[v]
           /\ \A t \in tasks : TaskStep(t) =>
                 UNCHANGED <<req, key, client, shut, sending, fileList, objects, cleared, overlapped>>
<1>1. ASSUME NEW u \in Request, RequestStep(u)
      PROVE  /\ files' = files /\ DOMAIN req' = Request
             /\ \A v \in Request \ {u} : req'[v] = req[v]
  <2>0. req \in [Request -> [pc : Stages, n : Nat, i : Nat]]
    BY DEF TypeInv, CallsOK
  <2>1. CASE NewUploader(u) \/ ClaimUploadId(u) \/ Execute(u) \/ AwaitTermination(u)
    BY <2>0, <2>1 DEF NewUploader, ClaimUploadId, Execute, AwaitTermination, Goto
  <2>2. CASE CountParts(u) \/ ListAllParts(u) \/ SortParts(u) \/ NewCompleteRequest(u) \/ CallClient(u)
    BY <2>0, <2>2 DEF CountParts, ListAllParts, SortParts, NewCompleteRequest, CallClient, Goto
  <2>3. CASE HasNext(u) \/ NextEntry(u) \/ CompleteMultipartUpload(u)
    BY <2>0, <2>3 DEF HasNext, NextEntry, CompleteMultipartUpload, Goto
  <2>4. CASE SkipFile(u) \/ Clear(u) \/ Close(u)
    BY <2>0, <2>4 DEF SkipFile, Clear, AfterFile, Close, Goto
  <2> QED
    BY <1>1, <2>1, <2>2, <2>3, <2>4 DEF RequestStep
<1>2. ASSUME NEW t \in tasks, TaskStep(t)
      PROVE  UNCHANGED <<files, req, key, client, shut, sending, fileList, objects, cleared, overlapped>>
  BY <1>2 DEF TaskStep, SetKey, UploadPart, AddETag
<1> QED
  BY <1>1, <1>2 DEF Next, vars

\* What does not change with the files.
LEMMA SameFiles ==
    ASSUME files' = files
    PROVE  /\ File' = File /\ AllParts' = AllParts
           /\ \A f : SizeOf(f)' = SizeOf(f)
           /\ \A f, i : Part(f, i)' = Part(f, i)
<1>1. File' = File /\ \A f : SizeOf(f)' = SizeOf(f)
  BY DEF File, SizeOf
<1>2. \A f, i : Part(f, i)' = Part(f, i)
  BY <1>1 DEF Part
<1> QED
  BY <1>1, <1>2 DEF AllParts, PartsOf

\* After a file a call is at the next one, or at the end.
LEMMA AfterFileMoves ==
    ASSUME CallsOK, NEW u \in Request, files[u] # <<>>, NEW name, AfterFile(u, name)
    PROVE  \/ req[u].n < Len(files[u]) /\ req' = [req EXCEPT ![u] = [pc |-> "claim", n |-> @.n + 1, i |-> 0]]
           \/ req[u].n = Len(files[u]) /\ Goto(u, "close")
<1>1. req[u].n \in 1 .. Len(files[u]) /\ Len(files[u]) \in Nat
  BY CurrentIsFile
<1>2. CASE req[u].n < Len(files[u])
  BY <1>2 DEF AfterFile
<1>3. CASE ~(req[u].n < Len(files[u]))
  <2>1. req[u].n = Len(files[u])
    BY <1>1, <1>3
  <2>2. Goto(u, "close")
    BY <1>3, Zenon DEF AfterFile, Goto
  <2> QED
    BY <2>1, <2>2
<1> QED
  BY <1>2, <1>3

\* The call that makes a step stays in range.
LEMMA CallMoves ==
    ASSUME TypeInv, NEW u \in Request, RequestStep(u)
    PROVE  req'[u] \in [pc : Stages, n : Nat, i : Nat] /\ CallOK(u)'
<1> DEFINE c == PartCount(SizeOf(Current(u)))
<1>1. /\ files' = files /\ DOMAIN req' = Request
      /\ req \in [Request -> [pc : Stages, n : Nat, i : Nat]]
      /\ req[u] \in [pc : Stages, n : Nat, i : Nat] /\ CallOK(u) /\ CallsOK
  BY Frames DEF TypeInv, CallsOK, Next
<1>2. files[u] # <<>> => /\ c \in Nat \ {0} /\ req[u].n \in 1 .. Len(files[u])
                         /\ DOMAIN files[u] = 1 .. Len(files[u])
                         /\ Len(files[u]) \in Nat \ {0}
  BY <1>1, CurrentIsFile
<1>3. ASSUME NEW p \in Stages, Goto(u, p), req[u].pc # "done", p \notin {"start", "claim"},
             p \in {"close", "done"} \/ files[u] # <<>>,
             p \in {"close", "done"} /\ files[u] # <<>> => req[u].n = Len(files[u]),
             p \in Ending => req[u].i = c
      PROVE  req'[u] \in [pc : Stages, n : Nat, i : Nat] /\ CallOK(u)'
  <2>1. /\ req'[u].pc = p /\ req'[u].n = req[u].n /\ req'[u].i = req[u].i
        /\ req'[u] \in [pc : Stages, n : Nat, i : Nat]
    BY <1>1, <1>3 DEF Goto
  <2>2. Current(u)' = Current(u) /\ SizeOf(Current(u))' = SizeOf(Current(u))
    BY <1>1, <2>1 DEF Current, SizeOf
  <2>3. PartCount(SizeOf(Current(u)))' = c
    BY <2>2 DEF PartCount
  <2> HIDE DEF c
  <2> QED
    BY <1>1, <1>3, <2>1, <2>3 DEF CallOK, c
<1>e. /\ Ending \subseteq Stages
      /\ Ending \intersect {"start", "claim", "split", "throw", "unfinished", "close", "done", "failed"} = {}
  BY DEF Ending, Stages
<1>4. CASE NewUploader(u)
  <2>1. CASE files[u] = <<>>
    <3>1. Goto(u, "close") /\ req[u].pc = "start"
      BY <1>4, <2>1 DEF NewUploader
    <3> HIDE DEF c
    <3> QED
      BY <1>3, <1>e, <2>1, <3>1 DEF Stages
  <2>2. CASE files[u] # <<>>
    <3>1. req'[u] = [req[u] EXCEPT !.pc = "claim"] /\ req[u].pc = "start"
      BY <1>1, <1>4, <2>2 DEF NewUploader, Goto
    <3>2. /\ req'[u] \in [pc : Stages, n : Nat, i : Nat]
          /\ req'[u].pc = "claim" /\ req'[u].n = req[u].n /\ req'[u].i = 0
      BY <1>1, <3>1 DEF Stages, CallOK
    <3>3. req'[u].n \in DOMAIN files'[u]
      BY <1>1, <2>2, <3>2 DEF CallOK
    <3>4. SizeOf(Current(u))' = SizeOf(Current(u))
      BY <1>1, <3>2 DEF Current, SizeOf
    <3>5. PartCount(SizeOf(Current(u)))' = c
      BY <3>4 DEF PartCount
    <3> HIDE DEF c
    <3> QED
      BY <1>1, <1>2, <1>e, <2>2, <3>2, <3>3, <3>5 DEF CallOK, c
  <2> QED
    BY <2>1, <2>2
<1>5. CASE Execute(u) /\ req[u].i < c
  <2>1. req'[u] = [req[u] EXCEPT !.i = @ + 1] /\ req[u].pc = "split"
    BY <1>1, <1>5 DEF Execute
  <2>2. /\ req'[u] \in [pc : Stages, n : Nat, i : Nat]
        /\ req'[u].pc = "split" /\ req'[u].n = req[u].n /\ req'[u].i = req[u].i + 1
    BY <1>1, <2>1
  <2>3. SizeOf(Current(u))' = SizeOf(Current(u))
    BY <1>1, <2>2 DEF Current, SizeOf
  <2>4. PartCount(SizeOf(Current(u)))' = c
    BY <2>3 DEF PartCount
  <2>5. files[u] # <<>>
    BY <1>1, <2>1 DEF CallOK
  <2> HIDE DEF c
  <2> QED
    BY <1>1, <1>2, <1>5, <1>e, <2>2, <2>4, <2>5 DEF CallOK, c
<1>6. CASE /\ req' = [req EXCEPT ![u] = [pc |-> "claim", n |-> @.n + 1, i |-> 0]]
           /\ files[u] # <<>> /\ req[u].n < Len(files[u])
  <2>1. /\ req'[u] \in [pc : Stages, n : Nat, i : Nat]
        /\ req'[u].pc = "claim" /\ req'[u].n = req[u].n + 1 /\ req'[u].i = 0
    BY <1>1, <1>6 DEF Stages
  <2>2. files[u] # <<>> /\ req'[u].n \in DOMAIN files[u]
    BY <1>1, <1>2, <1>6, <2>1
  <2>3. Current(u)' \in File /\ SizeOf(Current(u))' = SizeOf(Current(u)')
    BY <1>1, <2>1, <2>2 DEF Current, File, SizeOf
  <2>4. PartCount(SizeOf(Current(u)')) \in Nat
    <3>1. \A f \in File : PartCount(SizeOf(f)) \in Nat
      BY <1>1, FilesHaveParts DEF CallsOK
    <3> QED
      BY <2>3, <3>1
  <2>5. PartCount(SizeOf(Current(u)))' = PartCount(SizeOf(Current(u)'))
    BY <2>3 DEF PartCount
  <2> QED
    BY <1>1, <1>e, <2>1, <2>2, <2>4, <2>5 DEF CallOK
<1>7. CASE ClaimUploadId(u) \/ AwaitTermination(u) \/ CountParts(u) \/ ListAllParts(u)
  <2>1. \E p \in Stages : /\ Goto(u, p) /\ req[u].pc # "done"
                          /\ p \in {"split", "count", "list", "unfinished", "sort", "throw"}
                          /\ p \in {"count", "list", "sort"} => req[u].i = c
    BY <1>1, <1>7 DEF ClaimUploadId, AwaitTermination, CountParts, ListAllParts, Stages, CallOK, Ending
  <2>2. files[u] # <<>>
    BY <1>1, <1>7 DEF ClaimUploadId, AwaitTermination, CountParts, ListAllParts, CallOK
  <2> HIDE DEF c
  <2> QED
    BY <1>3, <1>e, <2>1, <2>2
<1>8. CASE \/ SortParts(u) \/ NewCompleteRequest(u) \/ CallClient(u) \/ HasNext(u)
           \/ NextEntry(u) \/ CompleteMultipartUpload(u)
  <2>1. \E p \in Stages : /\ Goto(u, p) /\ req[u].pc \in Ending
                          /\ p \in Ending \union {"throw"}
    <3>1. CASE SortParts(u)
      BY <3>1, Zenon DEF SortParts, Stages, Ending
    <3>2. CASE CompleteMultipartUpload(u)
      BY <3>2, Zenon DEF CompleteMultipartUpload, Stages, Ending
    <3>3. CASE NewCompleteRequest(u) \/ CallClient(u) \/ HasNext(u)
      BY <3>3, Zenon DEF NewCompleteRequest, CallClient, HasNext, Stages, Ending
    <3>4. CASE NextEntry(u)
      BY <3>4, Zenon DEF NextEntry, Stages, Ending
    <3> QED
      BY <1>8, <3>1, <3>2, <3>3, <3>4
  <2>2. files[u] # <<>> /\ req[u].i = c
    BY <1>1, <1>e, <2>1 DEF CallOK
  <2> HIDE DEF c
  <2> QED
    BY <1>3, <1>e, <2>1, <2>2
<1>9. CASE Execute(u) /\ ~(req[u].i < c)
  <2>1. Goto(u, "await") /\ req[u].pc = "split"
    BY <1>9 DEF Execute
  <2>2. files[u] # <<>> /\ req[u].i <= c
    BY <1>1, <2>1 DEF CallOK
  <2>3. req[u].i = c
    BY <1>1, <1>2, <1>9, <2>2
  <2> HIDE DEF c
  <2> QED
    BY <1>3, <2>1, <2>2, <2>3 DEF Stages
<1>10. CASE Goto(u, "close") /\ files[u] # <<>> /\ req[u].n = Len(files[u]) /\ req[u].pc \in {"claim", "return"}
  <2> HIDE DEF c
  <2> QED
    BY <1>3, <1>e, <1>10 DEF Stages
<1>11. CASE Goto(u, "failed") /\ req[u].pc \in {"unfinished", "throw"}
  <2>1. files[u] # <<>>
    BY <1>1, <1>11 DEF CallOK
  <2> HIDE DEF c
  <2> QED
    BY <1>3, <1>e, <1>11, <2>1 DEF Stages
<1>12. CASE Close(u)
  <2>1. Goto(u, "done") /\ req[u].pc = "close"
    BY <1>12 DEF Close
  <2>2. files[u] # <<>> => req[u].n = Len(files[u])
    BY <1>1, <2>1 DEF CallOK
  <2> HIDE DEF c
  <2> QED
    BY <1>3, <1>e, <2>1, <2>2 DEF Stages
<1>13. CASE SkipFile(u)
  <2>1. req[u].pc = "claim" /\ AfterFile(u, None)
    BY <1>13 DEF SkipFile
  <2>2. files[u] # <<>>
    BY <1>1, <2>1 DEF CallOK
  <2> QED
    BY <1>1, <1>6, <1>10, <2>1, <2>2, AfterFileMoves
<1>14. CASE Clear(u)
  <2>1. CASE req[u].pc = "return" /\ AfterFile(u, Current(u))
    <3>1. files[u] # <<>>
      BY <1>1, <2>1 DEF CallOK
    <3> QED
      BY <1>1, <1>6, <1>10, <2>1, <3>1, AfterFileMoves
  <2> QED
    BY <1>11, <1>14, <2>1 DEF Clear
<1> HIDE DEF c
<1> QED
  BY <1>4, <1>5, <1>7, <1>8, <1>9, <1>12, <1>13, <1>14 DEF RequestStep

\* The calls stay in range.
LEMMA CallsStayOK == ASSUME TypeInv, [Next]_vars PROVE CallsOK'
<1>0. files' = files /\ CallsOK
  BY Frames DEF TypeInv
<1>1. ASSUME NEW v \in Request, req'[v] = req[v] PROVE CallOK(v)'
  <2>1. SizeOf(Current(v))' = SizeOf(Current(v))
    BY <1>0, <1>1 DEF SizeOf, Current
  <2>2. PartCount(SizeOf(Current(v)))' = PartCount(SizeOf(Current(v)))
    BY <2>1 DEF PartCount
  <2> QED
    BY <1>0, <1>1, <2>2 DEF CallsOK, CallOK
<1>2. CASE UNCHANGED req
  BY <1>0, <1>1, <1>2 DEF CallsOK
<1>3. ASSUME NEW u \in Request, RequestStep(u) PROVE CallsOK'
  <2>1. req'[u] \in [pc : Stages, n : Nat, i : Nat] /\ CallOK(u)'
    BY <1>3, CallMoves
  <2>2. DOMAIN req' = Request /\ \A v \in Request \ {u} : req'[v] = req[v]
    BY <1>3, Frames
  <2>3. req' \in [Request -> [pc : Stages, n : Nat, i : Nat]]
    <3>1. \A v \in Request : req'[v] \in [pc : Stages, n : Nat, i : Nat]
      BY <1>0, <2>1, <2>2 DEF CallsOK
    <3>2. req' = [v \in Request |-> req'[v]]
      <4>1. \E g : req' = g /\ g = [v \in DOMAIN g |-> g[v]]
        <5>1. ASSUME NEW p PROVE [req EXCEPT ![u].pc = p] = [v \in Request |-> [req EXCEPT ![u].pc = p][v]]
          BY <1>0 DEF CallsOK
        <5>2. CASE \E p : Goto(u, p)
          BY <1>0, <5>2 DEF CallsOK, Goto
        <5>3. CASE Execute(u)
          BY <1>0, <5>2, <5>3 DEF CallsOK, Execute
        <5>4. CASE SkipFile(u) \/ Clear(u)
          BY <1>0, <5>2, <5>4 DEF CallsOK, SkipFile, Clear, AfterFile
        <5> QED
          BY <1>3, <5>2, <5>3, <5>4
          DEF RequestStep, NewUploader, ClaimUploadId, AwaitTermination, CountParts, ListAllParts,
              SortParts, NewCompleteRequest, CallClient, HasNext, NextEntry,
              CompleteMultipartUpload, Close
      <4> QED
        BY <2>2, <4>1
    <3> QED
      BY <3>1, <3>2
  <2> QED
    BY <1>0, <1>1, <2>1, <2>2, <2>3 DEF CallsOK
<1> QED
  BY <1>2, <1>3, Frames DEF Next, vars

\* The tasks stay parts of their files.
LEMMA TasksStayOK == ASSUME TypeInv, [Next]_vars PROVE TasksOK'
<1>0. files' = files /\ File' = File /\ \A f : SizeOf(f)' = SizeOf(f)
  BY Frames, SameFiles
<1>1. TasksOK /\ CallsOK
  BY DEF TypeInv
<1>2. ASSUME tasks' \subseteq [file : File, i : Nat, pc : {"queued", "named", "sent"},
                                key : File \union {None}],
             key' \in File \union {None},
             \A t \in tasks' : t.i < PartCount(SizeOf(t.file))
      PROVE  TasksOK'
  <2>1. \A f : PartCount(SizeOf(f))' = PartCount(SizeOf(f))
    BY <1>0 DEF PartCount
  <2> QED
    BY <1>0, <1>2, <2>1 DEF TasksOK
<1>3. CASE UNCHANGED <<tasks, key>>
  BY <1>1, <1>2, <1>3 DEF TasksOK
<1>4. ASSUME NEW u \in Request, RequestStep(u) PROVE TasksOK'
  <2>1. CASE Execute(u) /\ req[u].i < PartCount(SizeOf(Current(u)))
    <3>1. files[u] # <<>>
      BY <1>1, <2>1 DEF Execute, CallsOK, CallOK
    <3>2. Current(u) \in File /\ req[u].i \in Nat
      BY <1>1, <3>1, CurrentIsFile
    <3>3. /\ key' = Current(u)
          /\ tasks' = tasks \union {[file |-> Current(u), i |-> req[u].i,
                                     pc |-> "queued", key |-> None]}
      BY <2>1 DEF Execute
    <3> QED
      BY <1>1, <1>2, <2>1, <3>2, <3>3 DEF TasksOK
  <2> QED
    BY <1>3, <1>4, <2>1
    DEF RequestStep, NewUploader, SkipFile, ClaimUploadId, Execute, AwaitTermination, CountParts,
        ListAllParts, SortParts, NewCompleteRequest, CallClient, HasNext, NextEntry,
        CompleteMultipartUpload, Clear, Close
<1>5. ASSUME NEW t \in tasks, TaskStep(t) PROVE TasksOK'
  <2>1. CASE SetKey(t)
    BY <1>1, <1>2, <2>1 DEF TasksOK, SetKey
  <2>2. CASE UploadPart(t) \/ AddETag(t)
    BY <1>1, <1>2, <2>2 DEF TasksOK, UploadPart, AddETag, Becomes, Ends
  <2> QED
    BY <1>5, <2>1, <2>2 DEF TaskStep
<1> QED
  BY <1>3, <1>4, <1>5 DEF Next, vars

\* The list and the storage hold parts of files of the calls.
LEMMA PartsStayOK == ASSUME TypeInv, [Next]_vars PROVE PartsOK'
<1>0. files' = files /\ AllParts' = AllParts
  BY Frames, SameFiles
<1>1. TasksOK /\ CallsOK /\ PartsOK
  BY DEF TypeInv
<1>t. ASSUME stored \subseteq stored',
             \A t \in tasks' : t.pc = "sent" => t \in tasks \/ Part(t.file, t.i) \in stored'
      PROVE  (\A t \in tasks : t.pc = "sent" => Part(t.file, t.i) \in stored)'
  <2>1. \A f, i : Part(f, i)' = Part(f, i)
    BY <1>0, SameFiles
  <2> QED
    BY <1>1, <1>t, <2>1 DEF PartsOK
<1>2. CASE /\ UNCHANGED <<etags, stored>>
           /\ \A t \in tasks' : t.pc = "sent" => t \in tasks
  BY <1>0, <1>1, <1>t, <1>2 DEF PartsOK
<1>3. CASE etags' = <<>> /\ UNCHANGED <<tasks, stored>>
  <2>1. etags' \in Seq(AllParts) /\ ToSet(etags') = {}
    BY <1>3 DEF ToSet
  <2> QED
    BY <1>0, <1>1, <1>t, <1>3, <2>1 DEF PartsOK
<1>4. ASSUME NEW u \in Request, RequestStep(u) PROVE PartsOK'
  <2>1. CASE SortParts(u)
    <3>1. PICK p \in Bijection(DOMAIN etags, DOMAIN etags) : etags' = [k \in DOMAIN etags |-> etags[p[k]]]
      BY <2>1 DEF SortParts
    <3>2. p \in [DOMAIN etags -> DOMAIN etags] /\ DOMAIN etags = 1 .. Len(etags)
      BY <1>1, <3>1 DEF Bijection, Injection, PartsOK
    <3>3. etags' \in Seq(AllParts)
      BY <1>1, <3>1, <3>2 DEF PartsOK
    <3>4. ToSet(etags') \subseteq ToSet(etags)
      BY <1>1, <3>1, <3>2, <3>3 DEF PartsOK, ToSet
    <3>5. UNCHANGED <<tasks, stored>>
      BY <2>1 DEF SortParts
    <3> QED
      BY <1>0, <1>1, <1>t, <3>3, <3>4, <3>5 DEF PartsOK
  <2> QED
    BY <1>2, <1>3, <1>4, <2>1
    DEF RequestStep, NewUploader, SkipFile, ClaimUploadId, Execute, AwaitTermination, CountParts,
        ListAllParts, NewCompleteRequest, CallClient, HasNext, NextEntry, CompleteMultipartUpload,
        Clear, Close
<1>5. ASSUME NEW t \in tasks, TaskStep(t) PROVE PartsOK'
  <2>0. Part(t.file, t.i) \in AllParts
    BY <1>1, FilesHaveParts DEF TasksOK, CallsOK, AllParts, PartsOf
  <2>1. CASE UploadPart(t)
    <3>1. etags' = etags /\ stored \subseteq stored' /\ stored' \subseteq AllParts
      BY <1>1, <2>0, <2>1 DEF UploadPart, PartsOK
    <3>2. \A r \in tasks' : r.pc = "sent" => r \in tasks \/ Part(r.file, r.i) \in stored'
      BY <1>1, <2>1 DEF UploadPart, Becomes, Ends, TasksOK
    <3> QED
      BY <1>0, <1>1, <1>t, <3>1, <3>2 DEF PartsOK
  <2>2. CASE AddETag(t)
    <3>1. etags' = Append(etags, Part(t.file, t.i)) /\ stored' = stored
      BY <2>2 DEF AddETag
    <3>2. Part(t.file, t.i) \in stored /\ tasks' \subseteq tasks
      BY <1>1, <2>2 DEF AddETag, Ends, PartsOK
    <3> QED
      BY <1>0, <1>1, <1>t, <2>0, <3>1, <3>2 DEF PartsOK, ToSet
  <2> QED
    BY <1>1, <1>2, <1>5, <2>1, <2>2 DEF TaskStep, SetKey, TasksOK
<1> QED
  BY <1>2, <1>4, <1>5 DEF Next, vars

\* Calls that have started have a client.
LEMMA ClientsStayOK == ASSUME TypeInv, [Next]_vars PROVE ClientsOK'
<1>0. files' = files /\ File' = File
  BY Frames, SameFiles
<1>1. TasksOK /\ CallsOK /\ ClientsOK
  BY DEF TypeInv
<1>2. ASSUME client' = client, shut' = shut, DOMAIN objects' = DOMAIN objects,
             overlapped' \subseteq Request, troubled' \subseteq Request,
             \A v \in Request : req'[v].pc # "start" => req[v].pc # "start" \/ client \in Request
      PROVE  ClientsOK'
  BY <1>0, <1>1, <1>2 DEF ClientsOK
<1>3. ASSUME NEW u \in Request, RequestStep(u) PROVE ClientsOK'
  <2>0. \A v \in Request \ {u} : req'[v] = req[v]
    BY <1>3, Frames
  <2>1. CASE NewUploader(u)
    BY <1>0, <1>1, <2>0, <2>1 DEF NewUploader, ClientsOK, Active
  <2>2. CASE Close(u)
    <3>1. client \in Request
      BY <1>1, <2>2 DEF Close, ClientsOK
    <3> QED
      BY <1>0, <1>1, <2>0, <2>2, <3>1 DEF Close, ClientsOK
  <2>3. CASE \/ SkipFile(u) \/ ClaimUploadId(u) \/ Execute(u) \/ AwaitTermination(u) \/ CountParts(u)
             \/ ListAllParts(u) \/ SortParts(u) \/ NewCompleteRequest(u) \/ CallClient(u)
             \/ HasNext(u) \/ NextEntry(u) \/ Clear(u)
    <3>1. UNCHANGED <<client, shut, objects, overlapped>> /\ troubled' \subseteq Request
      BY <1>1, <2>3
      DEF SkipFile, ClaimUploadId, Execute, AwaitTermination, CountParts, ListAllParts, SortParts,
          NewCompleteRequest, CallClient, HasNext, NextEntry, Clear, Failing, ClientsOK
    <3>2. req[u].pc # "start"
      BY <2>3
      DEF SkipFile, ClaimUploadId, Execute, AwaitTermination, CountParts, ListAllParts, SortParts,
          NewCompleteRequest, CallClient, HasNext, NextEntry, Clear
    <3> QED
      BY <1>1, <1>2, <2>0, <3>1, <3>2 DEF ClientsOK
  <2>4. CASE CompleteMultipartUpload(u)
    <3>1. UNCHANGED <<client, shut, overlapped>> /\ troubled' \subseteq Request /\ req[u].pc # "start"
      BY <1>1, <2>4 DEF CompleteMultipartUpload, Failing, ClientsOK
    <3>2. objects' = objects \/ objects' = [objects EXCEPT ![Current(u)] = Assembled(sending[u].list)]
      BY <2>4 DEF CompleteMultipartUpload
    <3>3. DOMAIN objects' = DOMAIN objects
      BY <3>2
    <3> QED
      BY <1>1, <1>2, <2>0, <3>1, <3>3 DEF ClientsOK
  <2> QED
    BY <1>3, <2>1, <2>2, <2>3, <2>4 DEF RequestStep
<1>4. ASSUME NEW t \in tasks, TaskStep(t) PROVE ClientsOK'
  <2>1. t.file[1] \in Request
    BY <1>1, FilesHaveParts DEF TasksOK, CallsOK
  <2>2. troubled' \subseteq Request
    BY <1>1, <1>4, <2>1 DEF TaskStep, SetKey, UploadPart, AddETag, Failing, ClientsOK
  <2>3. UNCHANGED <<req, client, shut, objects, overlapped>>
    BY <1>4, Frames
  <2> QED
    BY <1>1, <1>2, <2>2, <2>3 DEF ClientsOK
<1>5. CASE UNCHANGED vars
  BY <1>0, <1>1, <1>5 DEF ClientsOK, vars
<1> QED
  BY <1>3, <1>4, <1>5 DEF Next

\* A request that is being completed, and the tags read for it.
LEMMA SendingStaysOK == ASSUME TypeInv, [Next]_vars PROVE SendingOK'
<1>0. File' = File /\ stored \subseteq stored'
  <2>1. stored \subseteq stored'
    BY DEF Next, vars, RequestStep, TaskStep, NewUploader, SkipFile, ClaimUploadId, Execute,
           AwaitTermination, CountParts, ListAllParts, SortParts, NewCompleteRequest, CallClient, HasNext,
           NextEntry, CompleteMultipartUpload, Clear, Close, SetKey, UploadPart, AddETag
  <2> QED
    BY <2>1, Frames, SameFiles
<1>1. CallsOK /\ TasksOK /\ PartsOK /\ ClientsOK /\ SendingOK
  BY DEF TypeInv
<1> DEFINE Sent(S) == [key : File \union {None}, client : Request \union {None}, list : Seq(S)]
<1>2. Sent(stored) \subseteq Sent(stored')
  BY <1>0
<1>3. SendingOK' <=> /\ sending' \in [Request -> Sent(stored')]
                     /\ \A u \in Request : req'[u].pc \notin {"walk", "entry"} => sending'[u].list = <<>>
  BY <1>0 DEF SendingOK
<1>4. ASSUME sending' = sending, \A u \in Request : req[u].pc \in {"walk", "entry"} => req'[u].pc \in {"walk", "entry"}
      PROVE  SendingOK'
  BY <1>1, <1>2, <1>3, <1>4 DEF SendingOK
<1>5. ASSUME NEW u \in Request, RequestStep(u) PROVE SendingOK'
  <2>0. req \in [Request -> [pc : Stages, n : Nat, i : Nat]] /\ \A v \in Request \ {u} : req'[v] = req[v]
    BY <1>1, <1>5, Frames DEF CallsOK
  <2>1. ASSUME NEW s \in Sent(stored), sending' = [sending EXCEPT ![u] = s],
               req'[u].pc \notin {"walk", "entry"} => s.list = <<>>
        PROVE  SendingOK'
    <3>1. sending \in [Request -> Sent(stored)]
      BY <1>1 DEF SendingOK
    <3>2. sending' \in [Request -> Sent(stored)]
      BY <2>1, <3>1
    <3>3. sending' \in [Request -> Sent(stored')]
      BY <1>2, <3>2
    <3>4. sending'[u] = s /\ \A v \in Request \ {u} : sending'[v] = sending[v]
      BY <2>1, <3>1
    <3>5. \A v \in Request : req'[v].pc \notin {"walk", "entry"} => sending'[v].list = <<>>
      BY <1>1, <2>0, <2>1, <3>4 DEF SendingOK
    <3> QED
      BY <1>3, <3>3, <3>5
  <2>2. sending[u] \in Sent(stored)
    BY <1>1 DEF SendingOK
  <2>3. NoRequest \in Sent(stored) /\ NoRequest.list = <<>>
    BY DEF NoRequest
  <2>4. CASE NewCompleteRequest(u)
    <3>1. [sending[u] EXCEPT !.key = key] \in Sent(stored)
      BY <1>1, <2>2 DEF TasksOK
    <3>2. sending[u].list = <<>>
      BY <1>1, <2>4 DEF NewCompleteRequest, SendingOK
    <3> QED
      BY <2>1, <2>2, <2>4, <3>1, <3>2 DEF NewCompleteRequest
  <2>5. CASE CallClient(u)
    <3>1. [sending[u] EXCEPT !.client = client] \in Sent(stored)
      BY <1>1, <2>2 DEF ClientsOK
    <3>2. sending[u].list = <<>>
      BY <1>1, <2>5 DEF CallClient, SendingOK
    <3> QED
      BY <2>1, <2>2, <2>5, <3>1, <3>2 DEF CallClient
  <2>6. CASE NextEntry(u)
    <3> DEFINE k == Len(sending[u].list) + 1
    <3>1. CASE k <= Len(etags)
      <4>1. etags[k] \in stored
        BY <1>1, <2>2, <3>1 DEF PartsOK, ToSet
      <4>2. [sending[u] EXCEPT !.list = Append(@, etags[k])] \in Sent(stored)
        BY <2>2, <4>1
      <4>3. /\ sending' = [sending EXCEPT ![u] = [sending[u] EXCEPT !.list = Append(@, etags[k])]]
            /\ req'[u].pc = "walk"
        BY <2>0, <2>6, <3>1 DEF NextEntry, Goto
      <4> HIDE DEF k
      <4> QED
        BY <2>1, <4>2, <4>3
    <3>2. CASE ~(k <= Len(etags))
      BY <2>1, <2>3, <2>6, <3>2 DEF NextEntry
    <3> QED
      BY <3>1, <3>2
  <2>7. CASE CompleteMultipartUpload(u)
    <3>1. sending' = [sending EXCEPT ![u] = NoRequest]
      BY <2>7 DEF CompleteMultipartUpload
    <3> QED
      BY <2>1, <2>3, <3>1
  <2>8. CASE \/ NewUploader(u) \/ SkipFile(u) \/ ClaimUploadId(u) \/ Execute(u) \/ AwaitTermination(u)
             \/ CountParts(u) \/ ListAllParts(u) \/ SortParts(u) \/ Clear(u) \/ Close(u)
    <3>1. sending' = sending /\ req[u].pc \notin {"walk", "entry"}
      BY <2>8
      DEF NewUploader, SkipFile, ClaimUploadId, Execute, AwaitTermination, CountParts, ListAllParts,
          SortParts, Clear, Close
    <3> QED
      BY <1>4, <2>0, <3>1
  <2>9. CASE HasNext(u)
    BY <1>4, <2>0, <2>9 DEF HasNext, Goto
  <2> QED
    BY <1>5, <2>4, <2>5, <2>6, <2>7, <2>8, <2>9 DEF RequestStep
<1>6. ASSUME NEW t \in tasks, TaskStep(t) PROVE SendingOK'
  BY <1>4, <1>6, Frames
<1>7. CASE UNCHANGED vars
  BY <1>4, <1>7 DEF vars
<1> QED
  BY <1>5, <1>6, <1>7 DEF Next

\* The answers of the calls, and the files whose list was cleared.
LEMMA AnswersStayOK == ASSUME TypeInv, [Next]_vars PROVE AnswersOK'
<1>0. File' = File /\ CallsOK /\ AnswersOK /\ SendingOK
  BY Frames, SameFiles DEF TypeInv
<1>1. ASSUME NEW u \in Request, AfterFile(u, Current(u)) \/ AfterFile(u, None), files[u] # <<>>
      PROVE  fileList' \in [Request -> Seq(File \union {None})]
  <2>1. Current(u) \in File
    BY <1>0, <1>1, CurrentIsFile
  <2>2. PICK name \in File \union {None} : fileList' = [fileList EXCEPT ![u] = Append(@, name)]
    BY <1>1, <2>1 DEF AfterFile
  <2> QED
    BY <1>0, <2>2 DEF AnswersOK
<1>2. ASSUME NEW u \in Request, Clear(u) PROVE AnswersOK'
  <2>1. fileList' \in [Request -> Seq(File \union {None})]
    BY <1>0, <1>1, <1>2 DEF Clear, CallsOK, CallOK, AnswersOK
  <2>2. \A v \in Walking(u) : Current(v) \in File
    <3>1. \A v \in Walking(u) : v \in Request /\ files[v] # <<>>
      BY <1>0 DEF Walking, CallsOK, CallOK
    <3> QED
      BY <1>0, <3>1, CurrentIsFile
  <2>3. cleared' \subseteq File
    BY <1>0, <1>2, <2>2 DEF Clear, AnswersOK
  <2> QED
    BY <1>0, <2>1, <2>3 DEF AnswersOK
<1>3. ASSUME NEW u \in Request, SkipFile(u) PROVE AnswersOK'
  <2>1. files[u] # <<>> /\ AfterFile(u, None) /\ cleared' = cleared
    BY <1>0, <1>3 DEF SkipFile, CallsOK, CallOK
  <2> QED
    BY <1>0, <1>1, <2>1 DEF AnswersOK
<1>4. CASE UNCHANGED <<fileList, cleared>>
  BY <1>0, <1>4 DEF AnswersOK
<1> QED
  BY <1>2, <1>3, <1>4, Frames
  DEF Next, vars, RequestStep, NewUploader, ClaimUploadId, Execute, AwaitTermination, CountParts,
      ListAllParts, SortParts, NewCompleteRequest, CallClient, HasNext, NextEntry,
      CompleteMultipartUpload, Close

LEMMA InitTypes == Init => TypeInv
<1> SUFFICES ASSUME Init PROVE TypeInv
  OBVIOUS
<1>1. CallsOK
  <2>1. files \in [Request -> FileLists] /\ req = [u \in Request |-> [pc |-> "start", n |-> 1, i |-> 0]]
    BY DEF Init
  <2>2. ASSUME NEW u \in Request PROVE CallOK(u)
    <3>1. CASE files[u] = <<>>
      BY <2>1, <3>1 DEF CallOK, Ending
    <3>2. CASE files[u] # <<>>
      <4>1. files[u] \in Seq(Nat \ {0}) /\ 1 \in DOMAIN files[u]
        BY <2>1, <3>2, FileAssumption
      <4>2. Current(u) = <<u, 1>> /\ Current(u) \in File
        BY <2>1, <4>1 DEF Current, File
      <4>3. PartCount(SizeOf(Current(u))) \in Nat
        BY <2>1, <4>2, FilesHaveParts
      <4> QED
        BY <2>1, <3>2, <4>1, <4>3 DEF CallOK, Ending
    <3> QED
      BY <3>1, <3>2
  <2> QED
    BY <2>1, <2>2 DEF CallsOK, Stages
<1>2. TasksOK
  BY DEF Init, TasksOK
<1>3. PartsOK
  BY DEF Init, PartsOK, ToSet
<1>4. ClientsOK
  BY DEF Init, ClientsOK
<1>5. SendingOK
  BY DEF Init, SendingOK, NoRequest
<1>6. AnswersOK
  BY DEF Init, AnswersOK
<1> QED
  BY <1>1, <1>2, <1>3, <1>4, <1>5, <1>6 DEF TypeInv

LEMMA TypesAlways == Spec => []TypeInv
<1>1. TypeInv /\ [Next]_vars => TypeInv'
  BY CallsStayOK, TasksStayOK, PartsStayOK, ClientsStayOK, SendingStaysOK, AnswersStayOK DEF TypeInv
<1> QED
  BY <1>1, InitTypes, PTL DEF Spec

\* Calls, tasks, lists and the storage keep their types; a part in the storage
\* lies within its file (upload, run).
THEOREM UploadTypesAlways == Spec => []UploadTypeOK
<1>1. ASSUME TypeInv PROVE UploadTypeOK
  <2>1. CallsOK /\ TasksOK /\ PartsOK /\ ClientsOK /\ SendingOK /\ AnswersOK
    BY <1>1 DEF TypeInv
  <2>2. ASSUME NEW p \in stored PROVE p.file \in File /\ ToSet(p.bytes) \subseteq 1 .. SizeOf(p.file)
    <3>1. PICK f \in File : \E i \in 0 .. PartCount(SizeOf(f)) - 1 : p = Part(f, i)
      BY <2>1 DEF PartsOK, AllParts, PartsOf
    <3>2. PICK i \in 0 .. PartCount(SizeOf(f)) - 1 : p.file = f /\ p.bytes = Bytes(SizeOf(f), i)
      BY <3>1 DEF Part
    <3>3. SizeOf(f) \in Nat \ {0}
      BY <2>1, FilesHaveParts DEF CallsOK
    <3>4. Range(Bytes(SizeOf(f), i)) \subseteq 1 .. SizeOf(f)
      BY <3>3, PartsPartition
    <3>5. ToSet(p.bytes) = Range(p.bytes)
      BY DEF ToSet, Range
    <3> QED
      BY <3>1, <3>2, <3>4, <3>5
  <2>3. \A u \in Request :
          IF files[u] = <<>> THEN req[u].pc \in {"start", "close", "done"}
          ELSE req[u].n \in DOMAIN files[u] /\ req[u].i <= PartCount(SizeOf(Current(u)))
    BY <2>1 DEF CallsOK, CallOK
  <2>4. files \in [Request -> FileLists] /\ req \in [Request -> [pc : Stages, n : Nat, i : Nat]]
    BY <2>1 DEF CallsOK
  <2>5. /\ tasks \subseteq [file : File, i : Nat, pc : {"queued", "named", "sent"}, key : File \union {None}]
        /\ \A t \in tasks : t.i < PartCount(SizeOf(t.file))
        /\ key \in File \union {None}
    BY <2>1 DEF TasksOK
  <2>6. ToSet(etags) \subseteq stored
    BY <2>1 DEF PartsOK
  <2>7. /\ client \in Request \union {None} /\ shut \subseteq Request
        /\ overlapped \subseteq Request /\ troubled \subseteq Request
    BY <2>1 DEF ClientsOK
  <2>8. /\ sending \in [Request -> [key : File \union {None}, client : Request \union {None},
                                    list : Seq(stored)]]
        /\ fileList \in [Request -> Seq(File \union {None})] /\ cleared \subseteq File
    BY <2>1 DEF SendingOK, AnswersOK
  <2> QED
    BY <2>2, <2>3, <2>4, <2>5, <2>6, <2>7, <2>8, Zenon DEF UploadTypeOK
<1> QED
  BY <1>1, TypesAlways, PTL

-----------------------------------------------------------------------------
(* The part uploads of a call *)

\* A part that is uploaded belongs to the file its call is at, which waits for it.
TasksAreCurrent ==
    \A t \in tasks : LET u == t.file[1] IN
        req[u].pc \in {"split", "await"} /\ t.file = Current(u) /\ t.i < req[u].i

LEMMA TasksStayCurrent == ASSUME TypeInv, TasksAreCurrent, [Next]_vars PROVE TasksAreCurrent'
<1>0. TasksOK /\ CallsOK /\ \A t \in tasks : t.file[1] \in Request
  BY FilesHaveParts DEF TypeInv, TasksOK, CallsOK
<1>1. SUFFICES ASSUME NEW r \in tasks'
               PROVE  /\ req'[r.file[1]].pc \in {"split", "await"} /\ r.i < req'[r.file[1]].i
                      /\ r.file = <<r.file[1], req'[r.file[1]].n>>
  BY DEF TasksAreCurrent, Current
<1>2. ASSUME NEW t \in tasks, t.file = r.file, t.i = r.i, req'[t.file[1]] = req[t.file[1]]
      PROVE  /\ req'[r.file[1]].pc \in {"split", "await"} /\ r.i < req'[r.file[1]].i
             /\ r.file = <<r.file[1], req'[r.file[1]].n>>
  BY <1>2 DEF TasksAreCurrent, Current
<1>3. ASSUME NEW u \in Request, RequestStep(u)
      PROVE  /\ req'[r.file[1]].pc \in {"split", "await"} /\ r.i < req'[r.file[1]].i
             /\ r.file = <<r.file[1], req'[r.file[1]].n>>
  <2>0. \A v \in Request \ {u} : req'[v] = req[v]
    BY <1>3, Frames
  <2>1. CASE Execute(u) /\ req[u].i < PartCount(SizeOf(Current(u)))
    <3>1. /\ tasks' = tasks \union {[file |-> Current(u), i |-> req[u].i, pc |-> "queued", key |-> None]}
          /\ req'[u].pc = "split" /\ req'[u].i = req[u].i + 1 /\ req'[u].n = req[u].n /\ req[u].i \in Nat
      BY <1>0, <2>1 DEF Execute, CallsOK
    <3>2. CASE r \in tasks
      BY <1>0, <2>0, <3>1, <3>2 DEF TasksAreCurrent, Current, TasksOK
    <3>3. CASE r \notin tasks
      BY <3>1, <3>3 DEF Current
    <3> QED
      BY <3>2, <3>3
  <2>2. CASE Execute(u) /\ ~(req[u].i < PartCount(SizeOf(Current(u))))
    <3>1. tasks' = tasks /\ req'[u].pc = "await" /\ req'[u].i = req[u].i /\ req'[u].n = req[u].n
      BY <1>0, <2>2 DEF Execute, Goto, CallsOK
    <3> QED
      BY <1>0, <2>0, <3>1 DEF TasksAreCurrent, Current
  <2>3. CASE AwaitTermination(u)
    BY <1>0, <1>2, <2>0, <2>3 DEF AwaitTermination, TasksOf
  <2>4. ASSUME UNCHANGED tasks, req[u].pc \notin {"split", "await"}
        PROVE  /\ req'[r.file[1]].pc \in {"split", "await"} /\ r.i < req'[r.file[1]].i
               /\ r.file = <<r.file[1], req'[r.file[1]].n>>
    <3>1. r \in tasks /\ r.file[1] # u
      BY <2>4 DEF TasksAreCurrent
    <3> QED
      BY <1>0, <1>2, <2>0, <3>1
  <2> QED
    BY <1>3, <2>1, <2>2, <2>3, <2>4
    DEF RequestStep, NewUploader, SkipFile, ClaimUploadId, CountParts, ListAllParts, SortParts,
        NewCompleteRequest, CallClient, HasNext, NextEntry, CompleteMultipartUpload, Clear, Close
<1>4. ASSUME NEW t \in tasks, TaskStep(t)
      PROVE  /\ req'[r.file[1]].pc \in {"split", "await"} /\ r.i < req'[r.file[1]].i
             /\ r.file = <<r.file[1], req'[r.file[1]].n>>
  <2>1. \E q \in tasks : q.file = r.file /\ q.i = r.i
    BY <1>0, <1>4 DEF TaskStep, SetKey, UploadPart, AddETag, Becomes, Ends, TasksOK
  <2> QED
    BY <1>2, <1>4, <2>1, Frames
<1>5. CASE UNCHANGED vars
  BY <1>2, <1>5 DEF vars
<1> QED
  BY <1>3, <1>4, <1>5 DEF Next

LEMMA TasksAlwaysCurrent == Spec => []TasksAreCurrent
<1>1. Init => TasksAreCurrent
  BY DEF Init, TasksAreCurrent
<1>2. TypeInv /\ TasksAreCurrent /\ [Next]_vars => TasksAreCurrent'
  BY TasksStayCurrent
<1> QED
  BY <1>1, <1>2, TypesAlways, PTL DEF Spec

\* upload returns or throws only after its part uploads have ended (upload, run),
\* whatever the size of the pool.
THEOREM NoPartOutlives == Spec => []NoPartOutlivesItsUpload
<1>1. TasksAreCurrent => NoPartOutlivesItsUpload
  BY DEF TasksAreCurrent, NoPartOutlivesItsUpload
<1> QED
  BY <1>1, TasksAlwaysCurrent, PTL

-----------------------------------------------------------------------------
(* What the storage assembles *)

\* The parts of a file, put together in their order, are the file.
LEMMA PartsMakeTheFile ==
    ASSUME NEW size \in Nat \ {0}
    PROVE  FlattenSeq([k \in 1 .. PartCount(size) |-> Bytes(size, k - 1)]) = [b \in 1 .. size |-> b]
<1> DEFINE c == PartCount(size)
           s == [k \in 1 .. c |-> Bytes(size, k - 1)]
           End(i) == IF i = c THEN size ELSE StartPos(i)
           g == [i \in 1 .. c |-> [b \in 1 .. End(i) |-> b]]
<1>1. c \in Nat \ {0}
  BY PartCountBounds
<1>2. ASSUME NEW i \in 1 .. c
      PROVE  /\ StartPos(i - 1) \in Nat /\ CurPartSize(size, i - 1) \in Nat
             /\ StartPos(i - 1) + CurPartSize(size, i - 1) = End(i) /\ End(i) \in Nat
             /\ s[i] = [k \in 1 .. CurPartSize(size, i - 1) |-> StartPos(i - 1) + k]
  <2>1. i - 1 \in 0 .. c - 1 /\ (i - 1) + 1 = i
    BY <1>1
  <2>2. /\ CurPartSize(size, i - 1) \in Nat /\ StartPos(i - 1) \in Nat
        /\ StartPos(i - 1) + CurPartSize(size, i - 1) = End(i)
    BY <2>1, PartBounds, PartAssumption
  <2>3. s[i] = Bytes(size, i - 1)
    OBVIOUS
  <2> HIDE DEF c, End, s
  <2> QED
    BY <2>2, <2>3 DEF Bytes
<1>3. ASSUME NEW i \in 1 .. c PROVE g[i] = IF i = 1 THEN s[i] ELSE g[i - 1] \o s[i]
  <2> DEFINE a == StartPos(i - 1)
             n == CurPartSize(size, i - 1)
  <2>1. a \in Nat /\ n \in Nat /\ a + n = End(i) /\ s[i] = [k \in 1 .. n |-> a + k]
    BY <1>2
  <2>2. g[i] = [b \in 1 .. a + n |-> b]
    BY <2>1
  <2>3. CASE i = 1
    <3>1. a = 0
      BY <2>3, PartAssumption DEF StartPos
    <3> HIDE DEF a, n, g, s, c
    <3> QED
      BY <2>1, <2>2, <2>3, <3>1
  <2>4. CASE i # 1
    <3>1. i - 1 \in 1 .. c /\ i - 1 # c
      BY <1>1, <2>4
    <3>2. g[i - 1] = [b \in 1 .. a |-> b]
      BY <3>1
    <3> HIDE DEF a, n, g, s, c
    <3>3. [b \in 1 .. a |-> b] \o [k \in 1 .. n |-> a + k] = [b \in 1 .. a + n |-> b]
      BY <2>1
    <3> QED
      BY <2>1, <2>2, <2>4, <3>2, <3>3
  <2> QED
    BY <2>3, <2>4
<1>4. Len(s) = c /\ g[c] = [b \in 1 .. size |-> b]
  BY <1>1
<1> HIDE DEF s, g, c
<1>5. FlattenSeq(s) = g[c]
  BY <1>1, <1>3, <1>4, FlattenIs
<1> QED
  BY <1>4, <1>5 DEF s, c

\* A list that the storage accepts and that is long enough is the whole file.
LEMMA LongEnoughIsWhole ==
    ASSUME TypeInv, NEW f \in File, NEW list \in Seq(AllParts), Accepts(f, list),
           Len(list) >= PartCount(SizeOf(f))
    PROVE  Assembled(list) = [b \in 1 .. SizeOf(f) |-> b]
<1> DEFINE c == PartCount(SizeOf(f))
           n == Len(list)
           number(k) == list[k].number
<1>1. /\ SizeOf(f) \in Nat \ {0} /\ c \in Nat \ {0}
      /\ n \in Nat /\ DOMAIN list = 1 .. n
  BY FilesHaveParts DEF TypeInv, CallsOK
<1>2. ASSUME NEW k \in 1 .. n
      PROVE  number(k) \in 1 .. c /\ list[k] = Part(f, number(k) - 1)
  <2>1. list[k] \in AllParts /\ list[k].file = f
    BY <1>1 DEF Accepts
  <2>2. PICK g \in File : list[k] \in PartsOf(g)
    BY <2>1 DEF AllParts
  <2>3. PICK i \in 0 .. PartCount(SizeOf(g)) - 1 : list[k] = Part(g, i)
    BY <2>2 DEF PartsOf
  <2>4. g = f /\ number(k) = i + 1
    BY <2>1, <2>3 DEF Part
  <2> HIDE DEF c, n
  <2> QED
    BY <1>1, <2>3, <2>4 DEF c
<1> DEFINE s == [k \in 1 .. n |-> number(k)]
<1>3. \A k \in 1 .. n : s[k] \in 1 .. c
  BY <1>2
<1>4. \A k \in 1 .. n - 1 : s[k] < s[k + 1]
  <2>1. ASSUME NEW k \in 1 .. n - 1
        PROVE  list[k].number < list[k + 1].number /\ k \in 1 .. n /\ k + 1 \in 1 .. n
    BY <1>1 DEF Accepts
  <2> QED
    BY <2>1
<1>5. n >= c
  OBVIOUS
<1> HIDE DEF s
<1>6. \A k \in 1 .. n : \A m \in k .. n : m - k <= s[m] - s[k]
  <2>1. \A k \in 1 .. n : s[k] \in Int
    BY <1>1, <1>3
  <2> HIDE DEF n, c
  <2> QED
    BY <1>1, <1>4, <2>1, AscentIsSteep
<1>7. n = c /\ \A k \in 1 .. n : s[k] = k
  <2>0. 1 \in 1 .. n /\ n \in 1 .. n
    BY <1>1, <1>5
  <2>1. s[1] \in 1 .. c /\ s[n] \in 1 .. c /\ n - 1 <= s[n] - s[1]
    BY <1>1, <1>3, <1>6, <2>0
  <2> HIDE DEF n, c
  <2>2. n = c
    BY <1>1, <1>5, <2>1
  <2>3. ASSUME NEW k \in 1 .. n PROVE s[k] = k
    <3>1. s[k] \in 1 .. c /\ k - 1 <= s[k] - s[1] /\ n - k <= s[n] - s[k]
      BY <1>1, <1>3, <1>6, <2>0
    <3> QED
      BY <1>1, <2>1, <2>2, <3>1
  <2> QED
    BY <2>2, <2>3
<1>8. [k \in DOMAIN list |-> list[k].bytes] = [k \in 1 .. c |-> Bytes(SizeOf(f), k - 1)]
  <2>1. ASSUME NEW k \in 1 .. n PROVE list[k].bytes = Bytes(SizeOf(f), k - 1)
    <3>1. list[k] = Part(f, k - 1)
      BY <1>2, <1>7 DEF s
    <3> QED
      BY <3>1 DEF Part
  <2> HIDE DEF c, n
  <2> QED
    BY <1>1, <1>7, <2>1
<1> QED
  BY <1>1, <1>8, PartsMakeTheFile DEF Assembled

Ascends(s) == \A j, k \in DOMAIN s : j < k => s[j] < s[k]

\* Two ascending sequences joined, the second above the first.
LEMMA JoinAscends ==
    ASSUME NEW a \in Seq(Nat), NEW b \in Seq(Nat), Ascends(a), Ascends(b),
           \A j \in DOMAIN a : \A k \in DOMAIN b : a[j] < b[k]
    PROVE  /\ a \o b \in Seq(Nat) /\ Ascends(a \o b)
           /\ a # <<>> => a \o b # <<>>
           /\ \A k \in DOMAIN (a \o b) : \/ \E j \in DOMAIN a : (a \o b)[k] = a[j]
                                       \/ \E j \in DOMAIN b : (a \o b)[k] = b[j]
<1> DEFINE s == a \o b
           m == Len(a)
           n == Len(b)
<1>1. /\ m \in Nat /\ n \in Nat /\ DOMAIN a = 1 .. m /\ DOMAIN b = 1 .. n
      /\ s \in Seq(Nat) /\ DOMAIN s = 1 .. m + n
      /\ \A k \in 1 .. m : s[k] = a[k]
      /\ \A k \in m + 1 .. m + n : s[k] = b[k - m] /\ k - m \in 1 .. n
  OBVIOUS
<1> HIDE DEF s, m, n
<1>2. ASSUME NEW j \in DOMAIN s, NEW k \in DOMAIN s, j < k PROVE s[j] < s[k]
  <2>1. CASE k \in 1 .. m
    <3>1. j \in 1 .. m
      BY <1>1, <1>2, <2>1
    <3> QED
      BY <1>1, <1>2, <2>1, <3>1 DEF Ascends
  <2>2. CASE j \in 1 .. m /\ k \in m + 1 .. m + n
    BY <1>1, <2>2
  <2>3. CASE j \in m + 1 .. m + n
    <3>1. k \in m + 1 .. m + n /\ j - m < k - m
      BY <1>1, <1>2, <2>3
    <3>2. s[j] = b[j - m] /\ s[k] = b[k - m] /\ j - m \in DOMAIN b /\ k - m \in DOMAIN b
      BY <1>1, <2>3, <3>1
    <3> QED
      BY <3>1, <3>2 DEF Ascends
  <2> QED
    BY <1>1, <1>2, <2>1, <2>2, <2>3
<1>3. ASSUME NEW k \in DOMAIN s
      PROVE  (\E j \in DOMAIN a : s[k] = a[j]) \/ (\E j \in DOMAIN b : s[k] = b[j])
  <2>1. CASE k \in 1 .. m
    BY <1>1, <2>1
  <2>2. CASE k \in m + 1 .. m + n
    <3>1. k - m \in DOMAIN b /\ s[k] = b[k - m]
      BY <1>1, <2>2
    <3> QED
      BY <3>1
  <2> QED
    BY <1>1, <2>1, <2>2
<1>4. a # <<>> => s # <<>>
  <2>1. ASSUME a # <<>> PROVE 1 \in DOMAIN s
    BY <1>1, <2>1 DEF m
  <2> QED
    BY <2>1
<1>5. Ascends(s)
  BY <1>2 DEF Ascends
<1> QED
  BY <1>1, <1>3, <1>4, <1>5 DEF s

\* A list that the storage accepts is assembled to a piece of the file.
LEMMA AcceptedIsPiece ==
    ASSUME TypeInv, NEW f \in File, NEW list \in Seq(AllParts), Accepts(f, list)
    PROVE  Assembled(list) \in Promised!Pieces(SizeOf(f))
<1> DEFINE size == SizeOf(f)
           c == PartCount(size)
           n == Len(list)
           s == [k \in DOMAIN list |-> list[k].bytes]
           Start(k) == StartPos(list[k].number - 1)
           Long(k) == CurPartSize(size, list[k].number - 1)
<1>1. /\ size \in Nat \ {0} /\ c \in Nat \ {0} /\ n \in Nat \ {0} /\ DOMAIN list = 1 .. n
      /\ Len(s) = n /\ DOMAIN s = 1 .. n
  BY FilesHaveParts DEF TypeInv, CallsOK, Accepts
<1>2. ASSUME NEW k \in 1 .. n
      PROVE  /\ list[k].number \in 1 .. c /\ s[k] = [b \in 1 .. Long(k) |-> Start(k) + b]
             /\ Start(k) \in Nat /\ Long(k) \in Nat \ {0} /\ Start(k) + Long(k) <= size
             /\ list[k].number # c => Start(k) + Long(k) = StartPos(list[k].number)
  <2>1. list[k] \in AllParts /\ list[k].file = f
    BY <1>1 DEF Accepts
  <2>2. PICK g \in File : list[k] \in PartsOf(g)
    BY <2>1 DEF AllParts
  <2>3. PICK i \in 0 .. PartCount(SizeOf(g)) - 1 : list[k] = Part(g, i)
    BY <2>2 DEF PartsOf
  <2>4. g = f /\ list[k].number = i + 1 /\ list[k].bytes = Bytes(SizeOf(g), i)
    BY <2>1, <2>3 DEF Part
  <2>5. i \in 0 .. c - 1 /\ list[k].number - 1 = i
    BY <1>1, <2>4
  <2>6. /\ CurPartSize(size, i) \in 1 .. partSize /\ StartPos(i) \in Nat
        /\ StartPos(i) + CurPartSize(size, i) = IF i + 1 = c THEN size ELSE StartPos(i + 1)
        /\ StartPos(i) + CurPartSize(size, i) <= size
    BY <1>1, <2>5, PartBounds
  <2>7. s[k] = Bytes(size, i)
    BY <1>1, <2>4
  <2> HIDE DEF c, n, s, size
  <2> QED
    BY <1>1, <2>4, <2>5, <2>6, <2>7, PartAssumption DEF Bytes
<1>3. ASSUME NEW k \in 1 .. n - 1 PROVE Start(k) + Long(k) <= Start(k + 1)
  <2>1. k \in 1 .. n /\ k + 1 \in 1 .. n /\ list[k].number < list[k + 1].number
    BY <1>1 DEF Accepts
  <2>2. /\ list[k].number \in 1 .. c /\ list[k + 1].number \in 1 .. c
        /\ list[k].number # c => Start(k) + Long(k) = StartPos(list[k].number)
    BY <1>2, <2>1
  <2>3. Start(k + 1) = StartPos(list[k + 1].number - 1)
    OBVIOUS
  <2> HIDE DEF c, n, s, size, Start, Long
  <2>4. PICK i, j \in Nat : i = list[k].number /\ j + 1 = list[k + 1].number /\ i <= j /\ i # c
    <3> DEFINE i == list[k].number
               j == list[k + 1].number - 1
    <3>1. i \in Nat /\ j \in Nat /\ j + 1 = list[k + 1].number /\ i <= j /\ i # c
      BY <1>1, <2>1, <2>2
    <3> QED
      BY <3>1
  <2>5. i * partSize <= j * partSize
    BY <2>4, Products
  <2>6. list[k + 1].number - 1 = j
    BY <2>2, <2>4
  <2> QED
    BY <2>2, <2>3, <2>4, <2>5, <2>6 DEF StartPos
<1>4. PICK g : /\ FlattenSeq(s) = g[n]
               /\ \A i \in 1 .. n : g[i] = IF i = 1 THEN s[i] ELSE g[i - 1] \o s[i]
  <2> HIDE DEF s, n
  <2> QED
    BY <1>1, FlattenSteps
<1> DEFINE Good == {i \in 1 .. n : /\ g[i] \in Seq(Nat) /\ g[i] # <<>> /\ Ascends(g[i])
                                   /\ \A k \in DOMAIN g[i] : 1 <= g[i][k] /\ g[i][k] <= Start(i) + Long(i)}
<1>5. ASSUME NEW k \in 1 .. n
      PROVE  /\ s[k] \in Seq(Nat) /\ s[k] # <<>> /\ Ascends(s[k])
             /\ \A j \in DOMAIN s[k] : Start(k) < s[k][j] /\ s[k][j] <= Start(k) + Long(k)
  <2>1. /\ s[k] = [b \in 1 .. Long(k) |-> Start(k) + b]
        /\ Start(k) \in Nat /\ Long(k) \in Nat \ {0}
    BY <1>2
  <2> HIDE DEF s, Start, Long
  <2>2. s[k] \in Seq(Nat) /\ DOMAIN s[k] = 1 .. Long(k) /\ \A j \in 1 .. Long(k) : s[k][j] = Start(k) + j
    BY <2>1
  <2>3. s[k] # <<>>
    <3>1. 1 \in DOMAIN s[k]
      BY <2>1, <2>2
    <3> QED
      BY <3>1
  <2> QED
    BY <2>1, <2>2, <2>3 DEF Ascends
<1> HIDE DEF s, Start, Long, n, c, size
<1>6. 1 \in Good
  <2>1. 1 \in 1 .. n /\ g[1] = s[1]
    BY <1>1, <1>4
  <2>2. Start(1) \in Nat /\ Long(1) \in Nat
    BY <1>2, <2>1
  <2>3. \A k \in DOMAIN s[1] : s[1][k] \in Nat
    BY <1>5, <2>1
  <2> QED
    BY <1>5, <2>1, <2>2, <2>3
<1>7. ASSUME NEW i \in 1 .. n - 1, i \in Good PROVE i + 1 \in Good
  <2>1. i \in 1 .. n /\ i + 1 \in 1 .. n /\ i + 1 # 1 /\ (i + 1) - 1 = i
    BY <1>1
  <2>2. g[i + 1] = g[i] \o s[i + 1]
    BY <1>4, <2>1
  <2>3. /\ Start(i) \in Nat /\ Long(i) \in Nat /\ Start(i + 1) \in Nat /\ Long(i + 1) \in Nat
        /\ Start(i) + Long(i) <= Start(i + 1)
    BY <1>2, <1>3, <2>1
  <2>4. /\ s[i + 1] \in Seq(Nat) /\ s[i + 1] # <<>> /\ Ascends(s[i + 1])
        /\ \A j \in DOMAIN s[i + 1] : /\ Start(i + 1) < s[i + 1][j] /\ s[i + 1][j] \in Nat
                                      /\ s[i + 1][j] <= Start(i + 1) + Long(i + 1)
    BY <1>5, <2>1
  <2>5. /\ g[i] \in Seq(Nat) /\ g[i] # <<>> /\ Ascends(g[i])
        /\ \A k \in DOMAIN g[i] : 1 <= g[i][k] /\ g[i][k] <= Start(i) + Long(i) /\ g[i][k] \in Nat
    BY <1>7
  <2>6. \A k \in DOMAIN g[i] : \A j \in DOMAIN s[i + 1] : g[i][k] < s[i + 1][j]
    BY <2>3, <2>4, <2>5
  <2>7. /\ g[i + 1] \in Seq(Nat) /\ Ascends(g[i + 1]) /\ g[i + 1] # <<>>
        /\ \A k \in DOMAIN g[i + 1] : \/ \E j \in DOMAIN g[i] : g[i + 1][k] = g[i][j]
                                      \/ \E j \in DOMAIN s[i + 1] : g[i + 1][k] = s[i + 1][j]
    <3> DEFINE a == g[i]
               b == s[i + 1]
    <3>1. /\ a \in Seq(Nat) /\ Ascends(a) /\ a # <<>> /\ b \in Seq(Nat) /\ Ascends(b)
          /\ \A k \in DOMAIN a : \A j \in DOMAIN b : a[k] < b[j]
      BY <2>4, <2>5, <2>6
    <3>2. g[i + 1] = a \o b
      BY <2>2
    <3> HIDE DEF a, b
    <3>3. /\ a \o b \in Seq(Nat) /\ Ascends(a \o b)
          /\ \A k \in DOMAIN (a \o b) : \/ \E j \in DOMAIN a : (a \o b)[k] = a[j]
                                       \/ \E j \in DOMAIN b : (a \o b)[k] = b[j]
      BY <3>1, JoinAscends, Zenon
    <3>4. a \o b # <<>>
      BY <3>1
    <3>5. /\ g[i + 1] \in Seq(Nat) /\ Ascends(g[i + 1]) /\ g[i + 1] # <<>>
          /\ \A k \in DOMAIN g[i + 1] : \/ \E j \in DOMAIN a : g[i + 1][k] = a[j]
                                        \/ \E j \in DOMAIN b : g[i + 1][k] = b[j]
      BY <3>2, <3>3, <3>4, Zenon
    <3> QED
      BY <3>5, Zenon DEF a, b
  <2>9. \A k \in DOMAIN g[i + 1] : 1 <= g[i + 1][k] /\ g[i + 1][k] <= Start(i + 1) + Long(i + 1)
    <3>1. ASSUME NEW k \in DOMAIN g[i], NEW x, x = g[i][k] PROVE 1 <= x /\ x <= Start(i + 1) + Long(i + 1)
      BY <2>3, <2>5, <3>1
    <3>2. ASSUME NEW j \in DOMAIN s[i + 1], NEW x, x = s[i + 1][j]
          PROVE  1 <= x /\ x <= Start(i + 1) + Long(i + 1)
      BY <2>3, <2>4, <3>2
    <3> QED
      BY <2>7, <3>1, <3>2
  <2> QED
    BY <2>1, <2>7, <2>9
<1>8. n \in Good
  <2>1. 1 \in Nat /\ n \in Nat /\ n \in 1 .. n
    BY <1>1
  <2> HIDE DEF Good
  <2>2. 1 .. n \subseteq Good
    BY <1>6, <1>7, <2>1, RangeInduction
  <2> QED
    BY <2>1, <2>2
<1> DEFINE d == g[n]
<1>9. /\ d \in Seq(Nat) /\ d # <<>> /\ Ascends(d) /\ Start(n) + Long(n) <= size
      /\ \A k \in DOMAIN d : d[k] \in 1 .. size
  <2>1. n \in 1 .. n
    BY <1>1
  <2>2. Start(n) \in Nat /\ Long(n) \in Nat /\ Start(n) + Long(n) <= size
    BY <1>2, <2>1
  <2> QED
    BY <1>1, <1>8, <2>2
<1> HIDE DEF d
<1>10. Len(d) \in 1 .. size /\ DOMAIN d = 1 .. Len(d)
  <2> DEFINE m == Len(d)
  <2>1. m \in Nat \ {0} /\ DOMAIN d = 1 .. m
    BY <1>9
  <2>2. 1 \in 1 .. m /\ m \in 1 .. m
    BY <2>1
  <2>3. \A k \in 1 .. m : d[k] \in Int
    BY <1>9, <2>1
  <2>4. \A k \in 1 .. m - 1 : d[k] < d[k + 1]
    <3>1. ASSUME NEW k \in 1 .. m - 1 PROVE k \in DOMAIN d /\ k + 1 \in DOMAIN d /\ k < k + 1
      BY <2>1
    <3> QED
      BY <1>9, <3>1 DEF Ascends
  <2> HIDE DEF m
  <2>5. m - 1 <= d[m] - d[1]
    BY <2>1, <2>2, <2>3, <2>4, AscentIsSteep
  <2>6. d[m] \in 1 .. size /\ d[1] \in 1 .. size
    BY <1>9, <2>1, <2>2
  <2>7. m <= size
    BY <1>1, <2>1, <2>5, <2>6
  <2> QED
    BY <1>1, <2>1, <2>7 DEF m
<1>11. d \in [1 .. Len(d) -> 1 .. size]
  BY <1>9, <1>10
<1>12. Assembled(list) = d
  BY <1>4 DEF Assembled, s, d
<1> QED
  BY <1>9, <1>10, <1>11, <1>12 DEF Promised!Pieces, Ascends, size

\* The whole file is a piece of it, and a piece is not empty.
LEMMA WholeIsPiece ==
    ASSUME NEW size \in Nat \ {0}
    PROVE  Promised!Content(size) \in Promised!Pieces(size) /\ None \notin Promised!Pieces(size)
<1>1. /\ Promised!Content(size) = [k \in 1 .. size |-> k] /\ size \in 1 .. size
      /\ Promised!Content(size) \in [1 .. size -> 1 .. size]
  BY DEF Promised!Content
<1>2. Promised!Content(size) \in Promised!Pieces(size)
  BY <1>1 DEF Promised!Pieces
<1>3. ASSUME NEW n \in 1 .. size, NEW c \in [1 .. n -> 1 .. size] PROVE c # <<>>
  <2>1. 1 \in DOMAIN c
    BY <1>3
  <2> QED
    BY <2>1
<1> QED
  BY <1>2, <1>3 DEF Promised!Pieces, None

-----------------------------------------------------------------------------
(* Calls that overlap *)

\* Calls that overlap are known to.
OverlapsAreKnown == \A u, v \in Active : u # v => u \in overlapped

\* What all the steps do to the calls in progress.
LEMMA ActiveSteps ==
    ASSUME TypeInv, [Next]_vars
    PROVE  /\ overlapped \subseteq overlapped' /\ troubled \subseteq troubled'
           /\ \/ Active' \subseteq Active
              \/ \E u \in Request : NewUploader(u) /\ Active' = Active \union {u}
<1>0. CallsOK
  BY DEF TypeInv
<1>1. ASSUME NEW u \in Request, RequestStep(u)
      PROVE  /\ overlapped \subseteq overlapped' /\ troubled \subseteq troubled'
             /\ \/ Active' \subseteq Active
                \/ \E w \in Request : NewUploader(w) /\ Active' = Active \union {w}
  <2>0. /\ \A v \in Request \ {u} : req'[v] = req[v]
        /\ req[u] \in [pc : Stages, n : Nat, i : Nat] /\ DOMAIN req = Request
    BY <1>0, <1>1, Frames DEF CallsOK
  <2>1. req[u].pc \notin {"start", "done", "failed"} => Active' \subseteq Active
    BY <2>0 DEF Active
  <2>2. CASE NewUploader(u)
    <3>1. req'[u].pc \in {"claim", "close"}
      BY <2>0, <2>2 DEF NewUploader, Goto
    <3>2. Active' = Active \union {u}
      BY <2>0, <3>1 DEF Active
    <3> QED
      BY <2>2, <3>2 DEF NewUploader
  <2>3. CASE \/ SkipFile(u) \/ ClaimUploadId(u) \/ Execute(u) \/ AwaitTermination(u)
             \/ CountParts(u) \/ ListAllParts(u) \/ SortParts(u)
    BY <2>1, <2>3
    DEF SkipFile, ClaimUploadId, Execute, AwaitTermination, CountParts, ListAllParts, SortParts, Failing
  <2>4. CASE NewCompleteRequest(u) \/ CallClient(u) \/ HasNext(u) \/ NextEntry(u)
    BY <2>1, <2>4 DEF NewCompleteRequest, CallClient, HasNext, NextEntry
  <2>5. CASE CompleteMultipartUpload(u) \/ Clear(u) \/ Close(u)
    <3>1. req[u].pc \notin {"start", "done", "failed"}
      BY <2>5 DEF CompleteMultipartUpload, Clear, Close
    <3>2. overlapped \subseteq overlapped' /\ troubled \subseteq troubled'
      BY <2>5 DEF CompleteMultipartUpload, Clear, Close, Failing
    <3> QED
      BY <2>1, <3>1, <3>2
  <2> QED
    BY <1>1, <2>2, <2>3, <2>4, <2>5 DEF RequestStep
<1>2. CASE \E t \in tasks : TaskStep(t)
  <2>1. UNCHANGED <<req, overlapped>>
    BY <1>2, Frames
  <2>2. troubled \subseteq troubled'
    BY <1>2 DEF TaskStep, SetKey, UploadPart, AddETag, Failing
  <2> QED
    BY <2>1, <2>2 DEF Active
<1>3. CASE UNCHANGED vars
  BY <1>3 DEF vars, Active
<1> QED
  BY <1>1, <1>2, <1>3 DEF Next

LEMMA OverlapsStayKnown ==
    ASSUME TypeInv, OverlapsAreKnown, [Next]_vars PROVE OverlapsAreKnown'
<1>1. overlapped \subseteq overlapped'
  BY ActiveSteps
<1>2. CASE Active' \subseteq Active
  BY <1>1, <1>2 DEF OverlapsAreKnown
<1>3. ASSUME NEW u \in Request, NewUploader(u), Active' = Active \union {u} PROVE OverlapsAreKnown'
  <2>1. CASE Active = {}
    BY <1>3, <2>1 DEF OverlapsAreKnown
  <2>2. CASE Active # {}
    <3>1. Active' \subseteq overlapped'
      BY <1>3, <2>2 DEF NewUploader
    <3> QED
      BY <3>1 DEF OverlapsAreKnown
  <2> QED
    BY <2>1, <2>2
<1> QED
  BY <1>2, <1>3, ActiveSteps

\* A list that is cleared while the SDK walks it is cleared by a call beside it.
ClearedOverlapped == \A f \in cleared : f[1] \in overlapped

OverlapInv == OverlapsAreKnown /\ ClearedOverlapped

LEMMA OverlapsAlwaysKnown == Spec => []OverlapInv
<1>1. Init => OverlapInv
  BY DEF Init, OverlapInv, OverlapsAreKnown, ClearedOverlapped, Active
<1>2. ASSUME TypeInv, OverlapInv, [Next]_vars PROVE ClearedOverlapped'
  <2>0. overlapped \subseteq overlapped'
    BY <1>2, ActiveSteps
  <2>1. CASE cleared' = cleared
    BY <1>2, <2>0, <2>1 DEF OverlapInv, ClearedOverlapped
  <2>2. ASSUME NEW u \in Request, Clear(u) PROVE ClearedOverlapped'
    <3>1. ASSUME NEW v \in Walking(u) PROVE Current(v)[1] \in overlapped
      <4>1. u \in Active /\ v \in Active /\ u # v
        BY <2>2, <3>1 DEF Clear, Walking, Active
      <4> QED
        BY <1>2, <4>1 DEF OverlapInv, OverlapsAreKnown, Current
    <3>2. cleared' = cleared \union {Current(v) : v \in Walking(u)}
      BY <2>2 DEF Clear
    <3> QED
      BY <1>2, <2>0, <3>1, <3>2 DEF OverlapInv, ClearedOverlapped
  <2> QED
    BY <1>2, <2>1, <2>2, Frames
    DEF Next, vars, RequestStep, NewUploader, SkipFile, ClaimUploadId, Execute, AwaitTermination,
        CountParts, ListAllParts, SortParts, NewCompleteRequest, CallClient, HasNext, NextEntry,
        CompleteMultipartUpload, Close
<1>3. TypeInv /\ OverlapInv /\ [Next]_vars => OverlapInv'
  BY <1>2, OverlapsStayKnown DEF OverlapInv
<1> QED
  BY <1>1, <1>3, TypesAlways, PTL DEF Spec

-----------------------------------------------------------------------------
(* A completed object is the whole file, or a piece of it *)

\* From the count to the end of the call to the storage.
Completing == {"list", "sort", "complete", "call", "walk", "entry"}

\* After the count, the list has no part of the file, and the SDK has read none, or
\* the list has at least as many entries as the file has parts: it only grows by
\* parts of others, or is cleared.
ListedIsComplete ==
    \A u \in Request : req[u].pc \in Completing /\ Current(u) \notin cleared =>
        \/ /\ \A k \in DOMAIN etags : etags[k].file # Current(u)
           /\ \A k \in DOMAIN sending[u].list : sending[u].list[k].file # Current(u)
        \/ Len(etags) >= PartCount(SizeOf(Current(u)))

\* What a step does to the list.
LEMMA ListSteps ==
    ASSUME TypeInv, [Next]_vars
    PROVE  /\ cleared \subseteq cleared'
           /\ \/ etags' = etags
              \/ \E u \in Request : Clear(u)
              \/ \E t \in tasks : etags' = Append(etags, Part(t.file, t.i)) /\ AddETag(t)
              \/ \E u \in Request : \E p \in Bijection(DOMAIN etags, DOMAIN etags) :
                    /\ IsStableSort(p, etags) /\ etags' = [k \in DOMAIN etags |-> etags[p[k]]]
                    /\ SortParts(u)
<1>1. CASE \E t \in tasks : AddETag(t)
  BY <1>1, Frames DEF AddETag
<1>2. CASE \E u \in Request : SortParts(u)
  BY <1>2 DEF SortParts
<1>3. CASE \E u \in Request : Clear(u)
  BY <1>3 DEF Clear
<1>4. CASE UNCHANGED <<etags, cleared>>
  BY <1>4
<1> QED
  BY <1>1, <1>2, <1>3, <1>4
  DEF Next, vars, RequestStep, TaskStep, NewUploader, SkipFile, ClaimUploadId, Execute, AwaitTermination,
      CountParts, ListAllParts, NewCompleteRequest, CallClient, HasNext, NextEntry,
      CompleteMultipartUpload, Close, SetKey, UploadPart

\* What a step does to a call that is completing.
LEMMA CompletingSteps ==
    ASSUME TypeInv, [Next]_vars, NEW u \in Request, req'[u].pc \in Completing
    PROVE  /\ Current(u)' = Current(u)
           /\ \/ CountParts(u) /\ Len(etags) = PartCount(SizeOf(Current(u)))
              \/ /\ req[u].pc \in Completing
                 /\ \/ sending'[u].list = sending[u].list
                    \/ /\ UNCHANGED etags
                       /\ \E k \in DOMAIN etags : sending'[u].list = Append(sending[u].list, etags[k])
<1>0. /\ req[u] \in [pc : Stages, n : Nat, i : Nat] /\ DOMAIN req = Request
      /\ DOMAIN sending = Request /\ CallsOK /\ etags \in Seq(AllParts)
      /\ sending[u] \in [key : File \union {None}, client : Request \union {None}, list : Seq(stored)]
  BY DEF TypeInv, CallsOK, SendingOK, PartsOK
<1>1. ASSUME NEW p, Goto(u, p) PROVE req'[u].pc = p /\ Current(u)' = Current(u)
  BY <1>0, <1>1 DEF Goto, Current
<1>2. ASSUME NEW p \in Completing, Goto(u, p), req[u].pc \in Completing, sending' = sending
      PROVE  /\ Current(u)' = Current(u)
             /\ req[u].pc \in Completing /\ sending'[u].list = sending[u].list
  BY <1>1, <1>2
<1>3. CASE CountParts(u)
  <2>1. Len(etags) = PartCount(SizeOf(Current(u))) /\ Goto(u, "list")
    BY <1>1, <1>3 DEF CountParts, Completing
  <2> QED
    BY <1>1, <1>3, <2>1
<1>4. CASE ListAllParts(u) \/ SortParts(u) \/ HasNext(u)
  BY <1>1, <1>2, <1>4 DEF ListAllParts, SortParts, HasNext, Completing
<1>5. CASE NewCompleteRequest(u) \/ CallClient(u)
  BY <1>0, <1>1, <1>5 DEF NewCompleteRequest, CallClient, Completing
<1>6. CASE NextEntry(u)
  <2> DEFINE k == Len(sending[u].list) + 1
  <2>1. k <= Len(etags) /\ Goto(u, "walk") /\ req[u].pc = "entry" /\ etags' = etags
        /\ sending' = [sending EXCEPT ![u].list = Append(@, etags[k])]
    BY <1>1, <1>6 DEF NextEntry, Completing
  <2>2. k \in DOMAIN etags
    BY <1>0, <2>1
  <2>3. sending'[u].list = Append(sending[u].list, etags[k])
    BY <1>0, <2>1
  <2> HIDE DEF k
  <2> QED
    BY <1>1, <2>1, <2>2, <2>3 DEF Completing
<1>7. CASE NewUploader(u) \/ ClaimUploadId(u) \/ AwaitTermination(u) \/ Close(u)
  BY <1>1, <1>7 DEF NewUploader, ClaimUploadId, AwaitTermination, Close, Completing
<1>8. CASE CompleteMultipartUpload(u)
  <2>1. \E p \in {"return", "throw"} : Goto(u, p)
    BY <1>8, Zenon DEF CompleteMultipartUpload
  <2> QED
    BY <1>1, <2>1 DEF Completing
<1>9. CASE Execute(u)
  BY <1>0, <1>1, <1>9 DEF Execute, Completing
<1>10. CASE SkipFile(u) \/ Clear(u)
  <2>1. req'[u].pc \in {"claim", "close", "failed"}
    BY <1>0, <1>1, <1>10 DEF SkipFile, Clear, AfterFile
  <2> QED
    BY <2>1 DEF Completing
<1>11. CASE req'[u] = req[u] /\ sending'[u] = sending[u]
  BY <1>11 DEF Current
<1>12. CASE RequestStep(u)
  BY <1>3, <1>4, <1>5, <1>6, <1>7, <1>8, <1>9, <1>10, <1>12 DEF RequestStep
<1>13. ASSUME NEW v \in Request, RequestStep(v), v # u PROVE req'[u] = req[u] /\ sending'[u] = sending[u]
  <2>1. req'[u] = req[u]
    BY <1>13, Frames
  <2>2. \/ sending' = sending
        \/ \E s : sending' = [sending EXCEPT ![v] = s]
    <3>1. CASE NextEntry(v)
      BY <3>1 DEF NextEntry
    <3>2. CASE CompleteMultipartUpload(v) \/ NewCompleteRequest(v) \/ CallClient(v)
      BY <3>2 DEF CompleteMultipartUpload, NewCompleteRequest, CallClient
    <3> QED
      BY <1>13, <3>1, <3>2
      DEF RequestStep, NewUploader, SkipFile, ClaimUploadId, Execute, AwaitTermination,
          CountParts, ListAllParts, SortParts, HasNext, Clear, Close
  <2> QED
    BY <1>0, <1>13, <2>1, <2>2
<1> QED
  BY <1>11, <1>12, <1>13, Frames DEF Next, vars

LEMMA ListStaysComplete ==
    ASSUME TypeInv, TasksAreCurrent, ListedIsComplete, [Next]_vars PROVE ListedIsComplete'
<1>0. /\ CallsOK /\ TasksOK /\ SendingOK
      /\ etags \in Seq(AllParts) /\ DOMAIN etags = 1 .. Len(etags) /\ Len(etags) \in Nat
      /\ files' = files
  BY Frames DEF TypeInv, PartsOK
<1> DEFINE NoneOf(list, f) == \A k \in DOMAIN list : list[k].file # f
<1> DEFINE Good(f, list, sent) == \/ NoneOf(list, f) /\ NoneOf(sent, f)
                                  \/ Len(list) >= PartCount(SizeOf(f))
<1>1. SUFFICES ASSUME NEW u \in Request, req'[u].pc \in Completing,
                      NEW f, f = Current(u)', f \notin cleared'
               PROVE  Good(f, etags', sending'[u].list)
  <2>1. \A f : SizeOf(f)' = SizeOf(f)
    BY <1>0, SameFiles
  <2>2. ASSUME NEW u \in Request, req'[u].pc \in Completing, Current(u)' \notin cleared'
        PROVE  \/ /\ \A k \in DOMAIN etags' : etags'[k].file # Current(u)'
                  /\ \A k \in DOMAIN sending'[u].list : sending'[u].list[k].file # Current(u)'
               \/ Len(etags') >= PartCount(SizeOf(Current(u)))'
    <3>1. PICK f : f = Current(u)'
      OBVIOUS
    <3>2. PartCount(SizeOf(Current(u)))' = PartCount(SizeOf(f))
      BY <2>1, <3>1 DEF PartCount, SizeOf
    <3> QED
      BY <1>1, <2>2, <3>1, <3>2
  <2> QED
    BY <2>2 DEF ListedIsComplete, Completing
<1>2. f = Current(u) /\ f \notin cleared
  BY <1>1, CompletingSteps, ListSteps
<1>3. sending[u] \in [key : File \union {<<>>}, client : Request \union {<<>>}, list : Seq(stored)]
  BY <1>0 DEF SendingOK, None
<1>4. CASE CountParts(u) /\ Len(etags) = PartCount(SizeOf(Current(u)))
  BY <1>0, <1>2, <1>4 DEF CountParts
<1>5. CASE req[u].pc \in Completing
  <2>0. Good(f, etags, sending[u].list)
    BY <1>2, <1>5 DEF ListedIsComplete
  <2> DEFINE l == sending[u].list
             m == sending'[u].list
  <2>1. CASE etags' = etags
    <3>1. CASE m = l
      BY <2>0, <2>1, <3>1
    <3>2. ASSUME NEW k \in DOMAIN etags, m = Append(l, etags[k]), NoneOf(etags, f), NoneOf(l, f)
          PROVE  NoneOf(m, f)
      <4>1. l \in Seq(stored) /\ etags[k].file # f
        BY <1>3, <3>2
      <4>2. /\ DOMAIN m = 1 .. Len(l) + 1 /\ m[Len(l) + 1] = etags[k] /\ Len(l) \in Nat
            /\ DOMAIN l = 1 .. Len(l) /\ \A j \in 1 .. Len(l) : m[j] = l[j]
        BY <3>2, <4>1
      <4> HIDE DEF l, m
      <4> QED
        BY <3>2, <4>1, <4>2
    <3> QED
      BY <1>1, <1>5, <2>0, <2>1, <3>1, <3>2, CompletingSteps DEF CountParts, Completing
  <2>2. ASSUME NEW v \in Request, Clear(v) PROVE Good(f, etags', m)
    <3>1. v # u /\ etags' = <<>> /\ cleared' = cleared \union {Current(w) : w \in Walking(v)}
      BY <1>5, <2>2 DEF Clear, Completing
    <3>2. req[u].pc \notin {"walk", "entry"}
      BY <1>1, <1>2, <3>1 DEF Walking
    <3>3. m = <<>>
      <4>1. l = <<>> /\ sending' = sending
        BY <1>0, <2>2, <3>2 DEF SendingOK, Clear
      <4> QED
        BY <4>1
    <3> QED
      BY <3>1, <3>3
  <2>3. ASSUME NEW t \in tasks, etags' = Append(etags, Part(t.file, t.i)), AddETag(t)
        PROVE  Good(f, etags', m)
    <3>1. t.file # f /\ Part(t.file, t.i).file = t.file
      <4>1. t.file = <<t.file[1], req[t.file[1]].n>> /\ req[t.file[1]].pc \in {"split", "await"}
        BY DEF TasksAreCurrent, Current
      <4>2. f = <<u, req[u].n>>
        BY <1>2 DEF Current
      <4>3. t.file[1] # u
        BY <1>5, <4>1 DEF Completing
      <4> QED
        BY <4>1, <4>2, <4>3 DEF Part
    <3>2. Len(etags') = Len(etags) + 1 /\ DOMAIN etags' = 1 .. Len(etags) + 1 /\ m = l
      BY <1>0, <2>3 DEF AddETag
    <3>3. etags'[Len(etags) + 1] = Part(t.file, t.i) /\ \A k \in 1 .. Len(etags) : etags'[k] = etags[k]
      BY <1>0, <2>3
    <3>4. CASE NoneOf(etags, f) /\ NoneOf(l, f)
      BY <1>0, <3>1, <3>2, <3>3, <3>4
    <3>5. CASE Len(etags) >= PartCount(SizeOf(f))
      <4>1. PartCount(SizeOf(f)) \in Nat
        BY <1>0, <1>2, <1>5, CurrentIsFile DEF CallsOK, CallOK, Completing
      <4> QED
        BY <1>0, <3>2, <3>5, <4>1
    <3> QED
      BY <2>0, <3>4, <3>5
  <2>4. ASSUME NEW v \in Request, SortParts(v), NEW p \in Bijection(DOMAIN etags, DOMAIN etags),
               etags' = [k \in DOMAIN etags |-> etags[p[k]]]
        PROVE  Good(f, etags', m)
    <3>1. p \in [DOMAIN etags -> DOMAIN etags] /\ m = l
      BY <2>4 DEF Bijection, Injection, SortParts
    <3>2. Len(etags') = Len(etags) /\ \A k \in DOMAIN etags' : etags'[k] = etags[p[k]] /\ p[k] \in DOMAIN etags
      BY <1>0, <2>4, <3>1
    <3> QED
      BY <2>0, <3>1, <3>2
  <2> QED
    BY <2>1, <2>2, <2>3, <2>4, ListSteps
<1> QED
  BY <1>1, <1>4, <1>5, CompletingSteps

LEMMA ListAlwaysComplete == Spec => []ListedIsComplete
<1>1. Init => ListedIsComplete
  BY DEF Init, ListedIsComplete, Completing
<1>2. TypeInv /\ TasksAreCurrent /\ ListedIsComplete /\ [Next]_vars => ListedIsComplete'
  BY ListStaysComplete
<1> QED
  BY <1>1, <1>2, TypesAlways, TasksAlwaysCurrent, PTL DEF Spec

\* What can be stored for the current file of a call.
Storable(u) ==
    {c \in Promised!Pieces(SizeOf(Current(u))) :
        Current(u) \notin cleared => c = Promised!Content(SizeOf(Current(u)))}

\* The end of the call to the storage stores nothing, or the whole current file, or a
\* piece of it if the list was cleared.
LEMMA CompletionStores ==
    ASSUME TypeInv, ListedIsComplete, NEW u \in Request, CompleteMultipartUpload(u)
    PROVE  /\ req[u].pc = "walk" /\ Current(u) \in File
           /\ \/ UNCHANGED objects /\ Goto(u, "throw")
              \/ \E c \in Storable(u) : /\ objects' = [objects EXCEPT ![Current(u)] = c]
                                        /\ \E p \in {"return", "throw"} : Goto(u, p)
<1> DEFINE list == sending[u].list
<1>1. /\ req[u].pc = "walk" /\ Len(list) >= Len(etags)
      /\ \/ UNCHANGED objects /\ Goto(u, "throw")
         \/ /\ Accepts(Current(u), list)
            /\ objects' = [objects EXCEPT ![Current(u)] = Assembled(list)]
            /\ \E p \in {"return", "throw"} : Goto(u, p)
  BY Zenon DEF CompleteMultipartUpload
<1>2. Current(u) \in File
  BY <1>1, CurrentIsFile DEF TypeInv, CallsOK, CallOK
<1>3. sending[u].list \in Seq(AllParts) /\ etags \in Seq(AllParts)
  <2>1. stored \subseteq AllParts /\ etags \in Seq(AllParts)
    BY DEF TypeInv, PartsOK
  <2>2. sending[u].list \in Seq(stored)
    BY DEF TypeInv, SendingOK
  <2> QED
    BY <2>1, <2>2
<1> HIDE DEF list
<1>4. ASSUME Accepts(Current(u), list) PROVE Assembled(list) \in Storable(u)
  <2>1. Assembled(list) \in Promised!Pieces(SizeOf(Current(u)))
    BY <1>2, <1>3, <1>4, AcceptedIsPiece DEF list
  <2>2. ASSUME Current(u) \notin cleared
        PROVE  Assembled(list) = Promised!Content(SizeOf(Current(u)))
    <3>1. list # <<>> /\ \A k \in DOMAIN list : list[k].file = Current(u)
      BY <1>4 DEF Accepts
    <3>2. 1 \in DOMAIN list
      BY <1>3, <3>1 DEF list
    <3>3. Len(etags) >= PartCount(SizeOf(Current(u)))
      BY <1>1, <2>2, <3>1, <3>2 DEF ListedIsComplete, Completing, list
    <3>4. PartCount(SizeOf(Current(u))) \in Nat /\ Len(list) \in Nat /\ Len(etags) \in Nat
      BY <1>2, <1>3, FilesHaveParts DEF TypeInv, CallsOK, list
    <3>5. Len(list) >= PartCount(SizeOf(Current(u)))
      BY <1>1, <3>3, <3>4
    <3> QED
      BY <1>2, <1>3, <1>4, <3>5, LongEnoughIsWhole DEF Promised!Content, list
  <2> QED
    BY <2>1, <2>2 DEF Storable
<1>5. CASE UNCHANGED objects /\ Goto(u, "throw")
  BY <1>1, <1>2, <1>5
<1>6. CASE /\ Accepts(Current(u), list)
           /\ objects' = [objects EXCEPT ![Current(u)] = Assembled(list)]
           /\ \E p \in {"return", "throw"} : Goto(u, p)
  <2>1. Assembled(list) \in Storable(u)
    BY <1>4, <1>6
  <2> QED
    BY <1>1, <1>2, <1>6, <2>1
<1> QED
  BY <1>1, <1>5, <1>6

\* No other step stores an object.
LEMMA OnlyPiecesAreStored ==
    ASSUME TypeInv, ListedIsComplete, [Next]_vars
    PROVE  \/ objects' = objects
           \/ \E u \in Request : \E c \in Storable(u) :
                 /\ CompleteMultipartUpload(u)
                 /\ objects' = [objects EXCEPT ![Current(u)] = c]
<1>1. CASE \E u \in Request : CompleteMultipartUpload(u)
  BY <1>1, CompletionStores
<1>2. CASE \E t \in tasks : TaskStep(t)
  BY <1>2, Frames
<1>3. CASE UNCHANGED objects
  BY <1>3
<1> QED
  BY <1>1, <1>2, <1>3
  DEF Next, vars, RequestStep, NewUploader, SkipFile, ClaimUploadId, Execute, AwaitTermination,
      CountParts, ListAllParts, SortParts, NewCompleteRequest, CallClient, HasNext, NextEntry, Clear, Close

\* An object that was completed is the whole file, each byte once and in order, or,
\* if the list was cleared while the SDK walked it, a piece of that file (upload,
\* run, completeMultipartUpload), for any sizes, pools and overlaps.
THEOREM StoredIsWholeUnlessClearedAlways == Spec => []StoredIsWholeUnlessCleared
<1>1. Init => StoredIsWholeUnlessCleared
  BY DEF Init, StoredIsWholeUnlessCleared
<1>2. ASSUME TypeInv, ListedIsComplete, StoredIsWholeUnlessCleared, [Next]_vars
      PROVE  StoredIsWholeUnlessCleared'
  <2>1. File' = File /\ DOMAIN objects = File /\ cleared \subseteq cleared' /\ \A f : SizeOf(f)' = SizeOf(f)
    BY <1>2, Frames, SameFiles, ListSteps DEF TypeInv, ClientsOK
  <2>2. ASSUME NEW f \in File, objects'[f] # None
        PROVE  /\ objects'[f] \in Promised!Pieces(SizeOf(f))
               /\ f \notin cleared' => objects'[f] = Promised!Content(SizeOf(f))
    <3>1. CASE objects' = objects
      BY <1>2, <2>1, <2>2, <3>1 DEF StoredIsWholeUnlessCleared
    <3>2. ASSUME NEW u \in Request, NEW c \in Storable(u),
                 objects' = [objects EXCEPT ![Current(u)] = c]
          PROVE  /\ objects'[f] \in Promised!Pieces(SizeOf(f))
                 /\ f \notin cleared' => objects'[f] = Promised!Content(SizeOf(f))
      <4>1. CASE f = Current(u)
        <5>1. objects'[f] = c
          BY <2>1, <3>2, <4>1
        <5> QED
          BY <2>1, <3>2, <4>1, <5>1 DEF Storable
      <4>2. CASE f # Current(u)
        <5>1. objects'[f] = objects[f]
          BY <2>1, <3>2, <4>2
        <5> QED
          BY <1>2, <2>1, <2>2, <5>1 DEF StoredIsWholeUnlessCleared
      <4> QED
        BY <4>1, <4>2
    <3> QED
      BY <1>2, <3>1, <3>2, OnlyPiecesAreStored
  <2> QED
    BY <2>1, <2>2 DEF StoredIsWholeUnlessCleared
<1> QED
  BY <1>1, <1>2, TypesAlways, ListAlwaysComplete, PTL DEF Spec

-----------------------------------------------------------------------------
(* MultipartUpload implements Uploads *)

\* What of the files of a call is stored: no file after the current one, and the
\* current one only after the end of the call to the storage.
InOrder(u, m) ==
    LET there == objects[<<u, m>>] # None IN
    /\ m > req[u].n => ~there
    /\ m = req[u].n /\ req[u].pc = "return" => there
    /\ m = req[u].n /\ req[u].pc \notin {"return", "throw", "failed", "close", "done"} => ~there

StoredInOrder == \A u \in Request : \A m \in DOMAIN files[u] : InOrder(u, m)

\* Each file before the current one has an answer.
AnswersInOrder ==
    \A u \in Request :
        Len(fileList[u]) = IF req[u].pc \in {"close", "done"} THEN Len(files[u]) ELSE req[u].n - 1

\* While a file is uploaded.
Uploading == {"claim", "split", "await", "count", "list", "sort", "complete", "call", "walk", "entry"}

\* What a step of a call means to the answer.
LEMMA CallProgress ==
    ASSUME TypeInv, NEW u \in Request, RequestStep(u)
    PROVE  \/ /\ NewUploader(u) /\ req'[u].n = req[u].n
              /\ req'[u].pc = IF files[u] = <<>> THEN "close" ELSE "claim"
           \/ /\ req[u].pc \in Uploading /\ req'[u].pc \in Uploading \union {"unfinished", "throw"}
              /\ req'[u].n = req[u].n /\ UNCHANGED <<objects, fileList, overlapped>>
           \/ CompleteMultipartUpload(u)
           \/ /\ req[u].pc = "claim" /\ AfterFile(u, None) /\ UNCHANGED <<objects, overlapped>>
           \/ /\ req[u].pc = "return" /\ AfterFile(u, Current(u)) /\ UNCHANGED <<objects, overlapped>>
           \/ /\ req[u].pc \in {"unfinished", "throw"} /\ req'[u].pc = "failed" /\ req'[u].n = req[u].n
              /\ UNCHANGED <<objects, fileList, overlapped>>
           \/ /\ req[u].pc = "close" /\ req'[u].pc = "done" /\ req'[u].n = req[u].n
              /\ UNCHANGED <<objects, fileList, overlapped>>
<1>0. req[u] \in [pc : Stages, n : Nat, i : Nat] /\ DOMAIN req = Request
  BY DEF TypeInv, CallsOK
<1>1. ASSUME NEW p, Goto(u, p) PROVE req'[u].pc = p /\ req'[u].n = req[u].n
  BY <1>0, <1>1 DEF Goto
<1>2. CASE NewUploader(u) \/ Close(u)
  BY <1>1, <1>2 DEF NewUploader, Close
<1>3. CASE ClaimUploadId(u) \/ AwaitTermination(u) \/ CountParts(u) \/ ListAllParts(u) \/ SortParts(u)
  BY <1>1, <1>3 DEF ClaimUploadId, AwaitTermination, CountParts, ListAllParts, SortParts, Uploading
<1>4. CASE NewCompleteRequest(u) \/ CallClient(u) \/ HasNext(u) \/ NextEntry(u)
  BY <1>1, <1>4 DEF NewCompleteRequest, CallClient, HasNext, NextEntry, Uploading
<1>5. CASE Execute(u)
  BY <1>0, <1>1, <1>5 DEF Execute, Uploading
<1>6. CASE SkipFile(u) \/ Clear(u)
  BY <1>1, <1>6 DEF SkipFile, Clear
<1> QED
  BY <1>2, <1>3, <1>4, <1>5, <1>6 DEF RequestStep

LEMMA ObjectsStayInOrder ==
    ASSUME TypeInv, ListedIsComplete, StoredInOrder, [Next]_vars PROVE StoredInOrder'
<1>0. CallsOK /\ DOMAIN objects = File /\ files' = files
  BY Frames DEF TypeInv, ClientsOK
<1>1. ASSUME NEW u \in Request, NEW m \in DOMAIN files[u]
      PROVE  /\ <<u, m>> \in File /\ files[u] # <<>> /\ m \in Nat /\ req[u].n \in Nat
             /\ Len(files[u]) \in Nat /\ m <= Len(files[u])
  <2>1. files[u] \in Seq(Nat \ {0})
    BY <1>0, FileAssumption DEF CallsOK
  <2> QED
    BY <1>0, <2>1 DEF CallsOK, File
<1>2. SUFFICES ASSUME NEW v \in Request, NEW m \in DOMAIN files[v] PROVE InOrder(v, m)'
  BY <1>0 DEF StoredInOrder
<1>3. /\ InOrder(v, m) /\ req[v] \in [pc : Stages, n : Nat, i : Nat]
      /\ m \in Nat /\ req[v].n \in Nat /\ files[v] # <<>> /\ <<v, m>> \in File
  BY <1>0, <1>1 DEF StoredInOrder, CallsOK
<1>4. ASSUME req'[v] = req[v], objects'[<<v, m>>] = objects[<<v, m>>] PROVE InOrder(v, m)'
  BY <1>3, <1>4 DEF InOrder
<1>5. ASSUME NEW u \in Request, CompleteMultipartUpload(u) PROVE InOrder(v, m)'
  <2>1. /\ req[u].pc = "walk" /\ Current(u) \in File /\ Current(u) = <<u, req[u].n>>
        /\ \/ UNCHANGED objects /\ Goto(u, "throw")
           \/ \E c \in Storable(u) : /\ objects' = [objects EXCEPT ![Current(u)] = c]
                                     /\ \E p \in {"return", "throw"} : Goto(u, p)
    BY <1>5, CompletionStores DEF Current
  <2>2. req \in [Request -> [pc : Stages, n : Nat, i : Nat]]
    BY <1>0 DEF CallsOK
  <2>3. ASSUME NEW p, Goto(u, p)
        PROVE  /\ req'[u].n = req[u].n /\ req'[u].pc = p
               /\ \A w \in Request \ {u} : req'[w] = req[w]
    BY <2>2, <2>3 DEF Goto
  <2>4. CASE UNCHANGED objects /\ Goto(u, "throw")
    <3>1. CASE v = u
      BY <1>3, <2>1, <2>3, <2>4, <3>1 DEF InOrder
    <3>2. CASE v # u
      BY <1>4, <2>3, <2>4, <3>2
    <3> QED
      BY <3>1, <3>2
  <2>5. ASSUME NEW c \in Storable(u), objects' = [objects EXCEPT ![Current(u)] = c],
               NEW p \in {"return", "throw"}, Goto(u, p)
        PROVE  InOrder(v, m)'
    <3>1. c # None
      <4>1. SizeOf(Current(u)) \in Nat \ {0}
        BY <1>0, <2>1, FilesHaveParts DEF CallsOK
      <4> QED
        BY <4>1, WholeIsPiece DEF Storable
    <3>2. CASE v = u /\ m = req[u].n
      <4>1. objects'[<<v, m>>] # None
        BY <1>0, <1>3, <2>1, <2>5, <3>1, <3>2
      <4> QED
        BY <1>3, <2>3, <2>5, <3>2, <4>1 DEF InOrder
    <3>3. CASE v = u /\ m # req[u].n
      <4>1. objects'[<<v, m>>] = objects[<<v, m>>]
        BY <1>0, <1>3, <2>1, <2>5, <3>3
      <4> QED
        BY <1>3, <2>3, <2>5, <3>3, <4>1 DEF InOrder
    <3>4. CASE v # u
      <4>1. objects'[<<v, m>>] = objects[<<v, m>>]
        BY <1>0, <1>3, <2>1, <2>5, <3>4
      <4> QED
        BY <1>4, <2>3, <2>5, <3>4, <4>1
    <3> QED
      BY <3>2, <3>3, <3>4
  <2> QED
    BY <2>1, <2>4, <2>5
<1>6. ASSUME NEW u \in Request, RequestStep(u), ~CompleteMultipartUpload(u) PROVE InOrder(v, m)'
  <2>0. /\ \A w \in Request \ {u} : req'[w] = req[w]
        /\ objects' = objects
    BY <1>6, Frames
    DEF RequestStep, NewUploader, SkipFile, ClaimUploadId, Execute, AwaitTermination, CountParts,
        ListAllParts, SortParts, NewCompleteRequest, CallClient, HasNext, NextEntry, Clear, Close
  <2>1. CASE v # u
    BY <1>4, <2>0, <2>1
  <2>2. ASSUME v = u, NEW name, AfterFile(u, name) PROVE InOrder(v, m)'
    <3>1. \/ /\ req[u].n < Len(files[u])
             /\ req' = [req EXCEPT ![u] = [pc |-> "claim", n |-> @.n + 1, i |-> 0]]
          \/ req[u].n = Len(files[u]) /\ Goto(u, "close")
      BY <1>0, <1>3, <2>2, AfterFileMoves
    <3>2. \/ req'[u].pc = "claim" /\ req'[u].n = req[u].n + 1
          \/ req'[u].pc = "close" /\ req'[u].n = req[u].n
      <4>1. req \in [Request -> [pc : Stages, n : Nat, i : Nat]]
        BY <1>0 DEF CallsOK
      <4> QED
        BY <3>1, <4>1 DEF Goto
    <3> QED
      BY <1>3, <2>0, <2>2, <3>2 DEF InOrder
  <2>3. CASE /\ v = u /\ NewUploader(u) /\ req'[u].n = req[u].n
             /\ req'[u].pc = IF files[u] = <<>> THEN "close" ELSE "claim"
    <3>1. req[u].pc = "start"
      BY <2>3 DEF NewUploader
    <3> QED
      BY <1>3, <2>0, <2>3, <3>1 DEF InOrder
  <2>4. CASE /\ v = u /\ req'[u].n = req[u].n /\ req[u].pc \in Uploading
             /\ req'[u].pc \in Uploading \union {"unfinished", "throw"}
    BY <1>3, <2>0, <2>4 DEF InOrder, Uploading
  <2>5. CASE v = u /\ req'[u].n = req[u].n /\ req'[u].pc \in {"failed", "done"}
    BY <1>3, <2>0, <2>5 DEF InOrder
  <2> QED
    BY <1>6, <2>1, <2>2, <2>3, <2>4, <2>5, CallProgress
<1>7. CASE \E t \in tasks : TaskStep(t)
  BY <1>4, <1>7, Frames
<1>8. CASE UNCHANGED vars
  BY <1>4, <1>8 DEF vars
<1> QED
  BY <1>5, <1>6, <1>7, <1>8 DEF Next

LEMMA ObjectsAlwaysInOrder == Spec => []StoredInOrder
<1>1. Init => StoredInOrder
  <2>1. ASSUME Init, NEW u \in Request, NEW m \in DOMAIN files[u]
        PROVE  req[u].pc = "start" /\ objects[<<u, m>>] = None
    <3>1. files[u] \in Seq(Nat \ {0}) /\ <<u, m>> \in File
      BY <2>1, FileAssumption DEF Init, File
    <3> QED
      BY <2>1, <3>1 DEF Init
  <2>2. SUFFICES ASSUME Init PROVE StoredInOrder
    OBVIOUS
  <2> QED
    BY <2>1, <2>2, Zenon DEF StoredInOrder, InOrder
<1>2. TypeInv /\ ListedIsComplete /\ StoredInOrder /\ [Next]_vars => StoredInOrder'
  BY ObjectsStayInOrder
<1> QED
  BY <1>1, <1>2, TypesAlways, ListAlwaysComplete, PTL DEF Spec

LEMMA AnswersStayInOrder ==
    ASSUME TypeInv, AnswersInOrder, [Next]_vars PROVE AnswersInOrder'
<1>0. /\ CallsOK /\ files' = files /\ req \in [Request -> [pc : Stages, n : Nat, i : Nat]]
      /\ fileList \in [Request -> Seq(File \union {None})]
  BY Frames DEF TypeInv, CallsOK, AnswersOK
<1> DEFINE Answered(s, pc, n, c) == Len(s) = IF pc \in {"close", "done"} THEN Len(c) ELSE n - 1
<1>1. SUFFICES ASSUME NEW v \in Request
               PROVE  Answered(fileList'[v], req'[v].pc, req'[v].n, files[v])
  BY <1>0 DEF AnswersInOrder
<1>2. /\ Answered(fileList[v], req[v].pc, req[v].n, files[v])
      /\ fileList[v] \in Seq(File \union {None}) /\ req[v].n \in Nat
  BY <1>0 DEF AnswersInOrder
<1>3. CASE req'[v] = req[v] /\ fileList'[v] = fileList[v]
  BY <1>2, <1>3
<1>4. ASSUME RequestStep(v) PROVE Answered(fileList'[v], req'[v].pc, req'[v].n, files[v])
  <2>1. ASSUME NEW name, AfterFile(v, name), req[v].pc \in {"claim", "return"}
        PROVE  Answered(fileList'[v], req'[v].pc, req'[v].n, files[v])
    <3>1. files[v] # <<>> /\ Len(files[v]) \in Nat
      BY <1>0, <2>1, CurrentIsFile DEF CallsOK, CallOK
    <3>2. \/ /\ req[v].n < Len(files[v])
             /\ req' = [req EXCEPT ![v] = [pc |-> "claim", n |-> @.n + 1, i |-> 0]]
          \/ req[v].n = Len(files[v]) /\ Goto(v, "close")
      BY <1>0, <2>1, <3>1, AfterFileMoves
    <3>3. \/ req'[v].pc = "claim" /\ req'[v].n = req[v].n + 1
          \/ req'[v].pc = "close" /\ req[v].n = Len(files[v])
      BY <1>0, <3>2 DEF Goto
    <3>4. fileList'[v] = Append(fileList[v], name)
      BY <1>0, <2>1 DEF AfterFile
    <3>5. Len(fileList'[v]) = Len(fileList[v]) + 1 /\ Len(fileList[v]) = req[v].n - 1
      <4>1. Len(fileList[v]) = req[v].n - 1
        BY <1>2, <2>1
      <4>2. Len(Append(fileList[v], name)) = Len(fileList[v]) + 1
        BY <1>2
      <4> QED
        BY <3>4, <4>1, <4>2
    <3> QED
      BY <1>2, <3>1, <3>3, <3>5
  <2>2. CASE /\ NewUploader(v) /\ req'[v].n = req[v].n
             /\ req'[v].pc = IF files[v] = <<>> THEN "close" ELSE "claim"
    <3>1. req[v].pc = "start" /\ req[v].n = 1 /\ fileList' = fileList
      BY <1>0, <2>2 DEF NewUploader, CallsOK, CallOK
    <3>2. CASE files[v] = <<>>
      <4>1. Len(files[v]) = 0
        BY <3>2
      <4> QED
        BY <1>2, <2>2, <3>1, <3>2, <4>1
    <3>3. CASE files[v] # <<>>
      BY <1>2, <2>2, <3>1, <3>3
    <3> QED
      BY <3>2, <3>3
  <2>3. ASSUME req'[v].n = req[v].n, fileList' = fileList, req'[v].pc \notin {"close", "done"},
               req[v].pc \notin {"close", "done"}
        PROVE  Answered(fileList'[v], req'[v].pc, req'[v].n, files[v])
    BY <1>2, <2>3
  <2>4. CASE CompleteMultipartUpload(v)
    <3>1. fileList' = fileList /\ req[v].pc = "walk" /\ \E p \in {"return", "throw"} : Goto(v, p)
      BY <2>4, Zenon DEF CompleteMultipartUpload
    <3>2. req'[v].n = req[v].n /\ req'[v].pc \in {"return", "throw"}
      BY <1>0, <3>1 DEF Goto
    <3> QED
      BY <2>3, <3>1, <3>2
  <2>5. CASE /\ req[v].pc = "close" /\ req'[v].pc = "done" /\ UNCHANGED fileList
    BY <1>2, <2>5
  <2> QED
    BY <1>4, <2>1, <2>2, <2>3, <2>4, <2>5, CallProgress DEF Uploading
<1>5. ASSUME NEW u \in Request, RequestStep(u), u # v PROVE req'[v] = req[v] /\ fileList'[v] = fileList[v]
  <2>1. req'[v] = req[v]
    BY <1>5, Frames
  <2>2. fileList' = fileList \/ \E name : AfterFile(u, name)
    BY <1>5
    DEF RequestStep, NewUploader, SkipFile, ClaimUploadId, Execute, AwaitTermination, CountParts,
        ListAllParts, SortParts, NewCompleteRequest, CallClient, HasNext, NextEntry,
        CompleteMultipartUpload, Clear, Close
  <2> QED
    BY <1>0, <1>5, <2>1, <2>2 DEF AfterFile
<1> QED
  BY <1>3, <1>4, <1>5, Frames DEF Next, vars

LEMMA AnswersAlwaysInOrder == Spec => []AnswersInOrder
<1>1. Init => AnswersInOrder
  BY DEF Init, AnswersInOrder
<1>2. TypeInv /\ AnswersInOrder /\ [Next]_vars => AnswersInOrder'
  BY AnswersStayInOrder
<1> QED
  BY <1>1, <1>2, TypesAlways, PTL DEF Spec

\* What a call is for Uploads.
Status == [u \in Request |-> CASE req[u].pc = "start" -> "ready"
                               [] req[u].pc \in {"done", "failed"} -> req[u].pc
                               [] OTHER -> "busy"]

\* A step of a call changes at most its own status.
LEMMA StatusSteps ==
    ASSUME TypeInv, NEW u \in Request, RequestStep(u)
    PROVE  Status' = [Status EXCEPT ![u] = Status'[u]]
<1>1. DOMAIN req' = Request /\ \A v \in Request \ {u} : req'[v] = req[v]
  BY Frames
<1>2. \A v \in Request \ {u} : Status'[v] = Status[v]
  BY <1>1 DEF Status
<1>3. Status = [v \in Request |-> Status[v]] /\ Status' = [v \in Request |-> Status'[v]]
  BY DEF Status
<1> QED
  BY <1>2, <1>3

\* A call that is at a file is at the next one without an answer.
LEMMA CallIsAt ==
    ASSUME TypeInv, AnswersInOrder, NEW u \in Request, req[u].pc \in Uploading \union {"return"}
    PROVE  /\ Promised!At(u, req[u].n) /\ req[u].n \in DOMAIN files[u] /\ files[u] # <<>>
           /\ Current(u) = <<u, req[u].n>> /\ Current(u) \in File
           /\ SizeOf(Current(u)) = files[u][req[u].n]
<1>1. files[u] # <<>>
  BY DEF TypeInv, CallsOK, CallOK, Uploading
<1>2. Current(u) \in File /\ Current(u) = <<u, req[u].n>> /\ req[u].n \in DOMAIN files[u] /\ req[u].n \in Nat
  BY <1>1, CurrentIsFile DEF TypeInv, Current, CallsOK, CallOK
<1>3. Len(fileList[u]) + 1 = req[u].n
  BY <1>2 DEF AnswersInOrder, Uploading
<1>4. Status[u] = "busy"
  BY DEF Status, Uploading
<1> QED
  BY <1>1, <1>2, <1>3, <1>4 DEF Promised!At, Status, SizeOf

\* The end of the call to the storage stores the file the call is at.
LEMMA CompletionKeepsPromise ==
    ASSUME TypeInv, OverlapInv, ListedIsComplete, StoredInOrder, AnswersInOrder,
           NEW u \in Request, CompleteMultipartUpload(u)
    PROVE  [Promised!Next]_(Promised!vars)
<1>0. /\ files' = files /\ fileList' = fileList /\ overlapped' = overlapped /\ DOMAIN objects = File
      /\ req[u] \in [pc : Stages, n : Nat, i : Nat] /\ DOMAIN req = Request
      /\ Status' = [Status EXCEPT ![u] = Status'[u]]
  <2>1. RequestStep(u)
    BY DEF RequestStep
  <2> QED
    BY <2>1, StatusSteps DEF CompleteMultipartUpload, TypeInv, ClientsOK, CallsOK
<1>1. /\ req[u].pc = "walk" /\ Current(u) \in File
      /\ \/ UNCHANGED objects /\ Goto(u, "throw")
         \/ \E c \in Storable(u) : /\ objects' = [objects EXCEPT ![Current(u)] = c]
                                   /\ \E p \in {"return", "throw"} : Goto(u, p)
  BY CompletionStores
<1>2. Status' = Status
  <2>1. req'[u].pc \in {"return", "throw"}
    BY <1>0, <1>1 DEF Goto
  <2>2. Status[u] = "busy" /\ Status'[u] = "busy"
    BY <1>1, <2>1 DEF Status
  <2>3. Status = [v \in Request |-> Status[v]]
    BY DEF Status
  <2> HIDE DEF Status
  <2> QED
    BY <1>0, <2>2, <2>3
<1>3. CASE UNCHANGED objects
  BY <1>0, <1>2, <1>3 DEF Promised!vars, Status
<1>4. ASSUME NEW c \in Storable(u), objects' = [objects EXCEPT ![Current(u)] = c]
      PROVE  Promised!Next
  <2> DEFINE n == req[u].n
  <2>1. /\ Promised!At(u, n) /\ n \in DOMAIN files[u] /\ Current(u) = <<u, n>>
        /\ SizeOf(Current(u)) = files[u][n]
    BY <1>1, CallIsAt DEF Uploading
  <2>2. objects[<<u, n>>] = <<>>
    BY <1>1, <2>1 DEF StoredInOrder, InOrder, None
  <2>3. c \in Promised!Pieces(files[u][n]) /\ (u \notin overlapped => c = Promised!Content(files[u][n]))
    <3>1. u \notin overlapped => Current(u) \notin cleared
      BY <2>1 DEF OverlapInv, ClearedOverlapped
    <3> QED
      BY <2>1, <3>1 DEF Storable
  <2>4. objects' = [objects EXCEPT ![<<u, n>>] = c]
    BY <1>4, <2>1
  <2> HIDE DEF n
  <2>5. objects'[<<u, n>>] = c
    BY <1>0, <1>1, <2>1, <2>4
  <2>6. Promised!Store(u, n)
    BY <1>0, <1>2, <2>1, <2>2, <2>3, <2>4, <2>5 DEF Promised!Store, Status
  <2> QED
    BY <2>1, <2>6 DEF Promised!Next
<1> QED
  BY <1>1, <1>3, <1>4

\* The name of a file, or null, joins the answer.
LEMMA AnswerKeepsPromise ==
    ASSUME TypeInv, StoredInOrder, AnswersInOrder, NEW u \in Request, RequestStep(u),
           UNCHANGED <<objects, overlapped>>,
           \/ req[u].pc = "claim" /\ AfterFile(u, None)
           \/ req[u].pc = "return" /\ AfterFile(u, Current(u))
    PROVE  Promised!Next
<1> DEFINE n == req[u].n
<1>0. /\ files' = files /\ Promised!At(u, n) /\ n \in DOMAIN files[u] /\ files[u] # <<>>
      /\ Current(u) = <<u, n>> /\ DOMAIN req = Request
      /\ req[u] \in [pc : Stages, n : Nat, i : Nat]
      /\ Status' = [Status EXCEPT ![u] = Status'[u]]
  BY Frames, CallIsAt, StatusSteps DEF TypeInv, CallsOK, Uploading, Next
<1>1. Status' = Status
  <2>1. req'[u].pc \in {"claim", "close"}
    BY <1>0 DEF AfterFile
  <2>2. Status[u] = "busy" /\ Status'[u] = "busy"
    BY <2>1 DEF Status
  <2>3. Status = [v \in Request |-> Status[v]]
    BY DEF Status
  <2> HIDE DEF Status
  <2> QED
    BY <1>0, <2>2, <2>3
<1>2. CASE req[u].pc = "claim" /\ AfterFile(u, None)
  <2>1. objects[<<u, n>>] = <<>> /\ fileList' = [fileList EXCEPT ![u] = Append(@, <<>>)]
    BY <1>0, <1>2 DEF StoredInOrder, InOrder, AfterFile, None
  <2> HIDE DEF n
  <2>2. Promised!Skip(u, n)
    BY <1>0, <1>1, <2>1 DEF Promised!Skip, Status
  <2> QED
    BY <1>0, <2>2 DEF Promised!Next
<1>3. CASE req[u].pc = "return" /\ AfterFile(u, Current(u))
  <2>1. objects[<<u, n>>] # <<>> /\ fileList' = [fileList EXCEPT ![u] = Append(@, <<u, n>>)]
    BY <1>0, <1>3 DEF StoredInOrder, InOrder, AfterFile, None
  <2> HIDE DEF n
  <2>2. Promised!Name(u, n)
    BY <1>0, <1>1, <2>1 DEF Promised!Name, Status
  <2> QED
    BY <1>0, <2>2 DEF Promised!Next
<1> QED
  BY <1>2, <1>3

\* The other steps of a call.
LEMMA StatusKeepsPromise ==
    ASSUME TypeInv, AnswersInOrder, NEW u \in Request, RequestStep(u), UNCHANGED <<objects, fileList>>
    PROVE  /\ NewUploader(u) /\ req'[u].pc \in {"claim", "close"} => Promised!Next
           /\ req[u].pc = "close" /\ req'[u].pc = "done" /\ UNCHANGED overlapped => Promised!Next
           /\ req[u].pc \in {"unfinished", "throw"} /\ req'[u].pc = "failed" /\ UNCHANGED overlapped
                => Promised!Next
<1>0. files' = files /\ Status' = [Status EXCEPT ![u] = Status'[u]]
  BY Frames, StatusSteps DEF Next
<1>1. ASSUME NewUploader(u), req'[u].pc \in {"claim", "close"} PROVE Promised!Next
  <2> DEFINE busy == {v \in Request : Status[v] = "busy"}
  <2>1. Active = busy
    <3>1. \A v \in Request : Status[v] = "busy" <=> req[v].pc \notin {"start", "done", "failed"}
      BY DEF Status
    <3> HIDE DEF Status
    <3> QED
      BY <3>1 DEF Active
  <2>2. overlapped' = IF busy = {} THEN overlapped ELSE overlapped \union busy \union {u}
    BY <1>1, <2>1 DEF NewUploader
  <2>3. Status[u] = "ready" /\ Status'[u] = "busy"
    BY <1>1 DEF NewUploader, Status
  <2>4. Promised!Begin(u)
    BY <1>0, <2>2, <2>3 DEF Promised!Begin, Promised!Becomes, Status
  <2> QED
    BY <2>4 DEF Promised!Next
<1>2. ASSUME req[u].pc = "close", req'[u].pc = "done", UNCHANGED overlapped PROVE Promised!Next
  <2>1. Status[u] = "busy" /\ Status'[u] = "done"
    BY <1>2 DEF Status
  <2>2. Len(fileList[u]) = Len(files[u])
    BY <1>2 DEF AnswersInOrder
  <2>3. Promised!Becomes(u, "busy", "done")
    BY <1>0, <2>1 DEF Promised!Becomes, Status
  <2>4. Promised!Answer(u)
    BY <1>0, <1>2, <2>2, <2>3 DEF Promised!Answer
  <2> QED
    BY <2>4 DEF Promised!Next
<1>3. ASSUME req[u].pc \in {"unfinished", "throw"}, req'[u].pc = "failed", UNCHANGED overlapped
      PROVE  Promised!Next
  <2>1. Status[u] = "busy" /\ Status'[u] = "failed"
    BY <1>3 DEF Status
  <2>2. Promised!Becomes(u, "busy", "failed")
    BY <1>0, <2>1 DEF Promised!Becomes, Status
  <2>3. Promised!Throw(u)
    BY <1>0, <1>3, <2>2 DEF Promised!Throw
  <2> QED
    BY <2>3 DEF Promised!Next
<1> QED
  BY <1>1, <1>2, <1>3

\* Every call of uploadFile keeps what Uploads promises (uploadFile, upload), however
\* calls overlap and storage, files and clients fail.
THEOREM UploadsImplemented == Spec => KeepsPromise
<1>1. Init => Promised!Init
  BY DEF Init, Promised!Init, File, None
<1> DEFINE Inv == TypeInv /\ OverlapInv /\ ListedIsComplete /\ StoredInOrder /\ AnswersInOrder
<1>2. ASSUME Inv, NEW u \in Request, RequestStep(u) PROVE [Promised!Next]_(Promised!vars)
  <2>1. CASE NewUploader(u)
    <3>1. UNCHANGED <<objects, fileList>> /\ req'[u].pc \in {"claim", "close"}
      BY <1>2, <2>1 DEF NewUploader, Goto, TypeInv, CallsOK
    <3> QED
      BY <1>2, <2>1, <3>1, StatusKeepsPromise
  <2>2. CASE CompleteMultipartUpload(u)
    BY <1>2, <2>2, CompletionKeepsPromise
  <2>3. CASE /\ UNCHANGED <<objects, overlapped>>
             /\ \/ req[u].pc = "claim" /\ AfterFile(u, None)
                \/ req[u].pc = "return" /\ AfterFile(u, Current(u))
    BY <1>2, <2>3, AnswerKeepsPromise
  <2>4. CASE /\ req[u].pc \in {"unfinished", "throw"} /\ req'[u].pc = "failed"
             /\ UNCHANGED <<objects, fileList, overlapped>>
    BY <1>2, <2>4, StatusKeepsPromise
  <2>5. CASE /\ req[u].pc = "close" /\ req'[u].pc = "done"
             /\ UNCHANGED <<objects, fileList, overlapped>>
    BY <1>2, <2>5, StatusKeepsPromise
  <2>6. CASE /\ req[u].pc \in Uploading /\ req'[u].pc \in Uploading \union {"unfinished", "throw"}
             /\ UNCHANGED <<objects, fileList, overlapped>>
    <3>1. Status' = [Status EXCEPT ![u] = Status'[u]] /\ files' = files
      BY <1>2, StatusSteps, Frames DEF Next
    <3>2. Status[u] = "busy" /\ Status'[u] = "busy" /\ Status = [v \in Request |-> Status[v]]
      BY <2>6 DEF Status, Uploading
    <3>3. Status' = Status
      <4> HIDE DEF Status
      <4> QED
        BY <3>1, <3>2
    <3> QED
      BY <2>6, <3>1, <3>3 DEF Promised!vars, Status
  <2> QED
    BY <1>2, <2>1, <2>2, <2>3, <2>4, <2>5, <2>6, CallProgress
<1>3. ASSUME Inv, [Next]_vars PROVE [Promised!Next]_(Promised!vars)
  <2>1. ASSUME UNCHANGED <<files, req, fileList, objects, overlapped>> PROVE UNCHANGED Promised!vars
    BY <2>1 DEF Promised!vars
  <2>2. CASE \E t \in tasks : TaskStep(t)
    BY <1>3, <2>1, <2>2, Frames
  <2>3. CASE UNCHANGED vars
    BY <2>1, <2>3 DEF vars
  <2> QED
    BY <1>2, <1>3, <2>2, <2>3 DEF Next
<1> QED
  BY <1>1, <1>3, TypesAlways, OverlapsAlwaysKnown, ListAlwaysComplete, ObjectsAlwaysInOrder,
     AnswersAlwaysInOrder, PTL
  DEF Spec, KeepsPromise, Promised!Spec

-----------------------------------------------------------------------------
(* Failures are earned *)

Disturbed == overlapped \union troubled

\* A call that has not started finds no trace of itself.
Fresh == \A u \in Request : req[u].pc = "start" => client # u /\ u \notin shut

\* The list is empty unless an upload is in progress.
ListHasUpload ==
    etags # <<>> =>
        \E u \in Request : req[u].pc \in {"split", "await", "count", "return", "unfinished", "throw"}
                                         \union Completing

\* What the SDK has read is the name, the client and the list of the call, as far as
\* it has got.
SendsOwnList(u) ==
    LET s == sending[u] IN
    /\ req[u].pc \in {"call", "walk", "entry"} => s.key = Current(u)
    /\ req[u].pc \in {"walk", "entry"} =>
          /\ s.client = u /\ Len(s.list) <= Len(etags)
          /\ \A k \in 1 .. Len(s.list) : s.list[k] = etags[k]
    /\ req[u].pc = "entry" => Len(s.list) < Len(etags)

\* A call that nothing has disturbed has client, name, tasks and list to itself,
\* and each of the parts it has queued is either a task or in the list.
Undisturbed(u) ==
    /\ client = u /\ u \notin shut
    /\ req[u].pc \notin {"unfinished", "throw"}
    /\ req[u].i > 0 => key = Current(u)
    /\ \A t \in tasks : t.file = Current(u) /\ (t.pc # "queued" => t.key = t.file)
    /\ \A k \in DOMAIN etags : etags[k].file = Current(u) /\ etags[k].number <= req[u].i
    /\ \A s, t \in tasks : s.i = t.i => s = t
    /\ \A j, k \in DOMAIN etags : etags[j].number = etags[k].number => j = k
    /\ \A t \in tasks : \A k \in DOMAIN etags : etags[k].number # t.i + 1
    /\ IsFiniteSet(tasks)
    /\ req[u].pc = "claim" => etags = <<>>
    /\ req[u].pc \in {"split", "await"} => Len(etags) + Cardinality(tasks) = req[u].i
    /\ req[u].pc \in {"count"} \union Completing => Len(etags) = req[u].i
    /\ req[u].pc \in Completing \ {"list", "sort"} =>
          \A k \in 1 .. Len(etags) - 1 : etags[k].number < etags[k + 1].number
    /\ SendsOwnList(u)

QuietInv ==
    /\ OverlapsAreKnown /\ Fresh /\ ListHasUpload
    /\ \A u \in Active \ Disturbed : Undisturbed(u)
    /\ \A u \in Request : req[u].pc = "failed" => u \in Disturbed

LEMMA FreshStays == ASSUME TypeInv, Fresh, [Next]_vars PROVE Fresh'
<1>0. CallsOK
  BY DEF TypeInv
<1>1. ASSUME NEW u \in Request, RequestStep(u), NEW v \in Request, req'[v].pc = "start"
      PROVE  v # u /\ req[v].pc = "start"
  <2>1. \A w \in Request \ {u} : req'[w] = req[w]
    BY <1>1, Frames
  <2>2. req'[u].pc # "start"
    <3>0. req[u] \in [pc : Stages, n : Nat, i : Nat] /\ DOMAIN req = Request
      BY <1>0 DEF CallsOK
    <3>1. ASSUME NEW p, Goto(u, p), p # "start" PROVE req'[u].pc # "start"
      BY <3>0, <3>1 DEF Goto
    <3>2. CASE Execute(u)
      BY <3>0, <3>1, <3>2 DEF Execute
    <3>3. CASE Clear(u) \/ SkipFile(u)
      BY <3>0, <3>1, <3>3 DEF Clear, SkipFile, AfterFile
    <3> QED
      BY <1>1, <3>1, <3>2, <3>3
      DEF RequestStep, NewUploader, ClaimUploadId, AwaitTermination, CountParts, ListAllParts,
          SortParts, NewCompleteRequest, CallClient, HasNext, NextEntry, CompleteMultipartUpload, Close
  <2> QED
    BY <1>1, <2>1, <2>2
<1>2. ASSUME NEW u \in Request, RequestStep(u) PROVE Fresh'
  <2>1. client' \in {client, u} /\ shut' \subseteq shut \union {client}
    BY <1>2
    DEF RequestStep, NewUploader, SkipFile, ClaimUploadId, Execute, AwaitTermination, CountParts,
        ListAllParts, SortParts, NewCompleteRequest, CallClient, HasNext, NextEntry,
        CompleteMultipartUpload, Clear, Close
  <2> QED
    BY <1>1, <1>2, <2>1 DEF Fresh
<1>3. CASE \E t \in tasks : TaskStep(t)
  BY <1>3, Frames DEF Fresh
<1> QED
  BY <1>2, <1>3 DEF Fresh, Next, vars

LEMMA ListStaysOwned == ASSUME TypeInv, TasksAreCurrent, ListHasUpload, [Next]_vars PROVE ListHasUpload'
<1>0. CallsOK /\ TasksOK
  BY DEF TypeInv
<1> DEFINE Owning == {"split", "await", "count", "return", "unfinished", "throw"} \union Completing
<1>1. SUFFICES ASSUME etags' # <<>> PROVE \E v \in Request : req'[v].pc \in Owning
  BY DEF ListHasUpload
<1>2. ASSUME NEW u \in Request, RequestStep(u) PROVE \E v \in Request : req'[v].pc \in Owning
  <2>0. /\ req[u] \in [pc : Stages, n : Nat, i : Nat] /\ DOMAIN req = Request
        /\ \A w \in Request \ {u} : req'[w] = req[w]
    BY <1>0, <1>2, Frames DEF CallsOK
  <2>1. CASE etags # <<>> /\ req[u].pc \notin Owning
    BY <2>0, <2>1 DEF ListHasUpload
  <2>2. ASSUME NEW p \in Owning, Goto(u, p) PROVE req'[u].pc \in Owning
    BY <2>0, <2>2 DEF Goto
  <2>3. CASE Execute(u) \/ AwaitTermination(u) \/ CountParts(u) \/ ListAllParts(u) \/ SortParts(u)
    BY <2>0, <2>2, <2>3 DEF Execute, AwaitTermination, CountParts, ListAllParts, SortParts, Completing
  <2>7. CASE NewCompleteRequest(u) \/ CallClient(u) \/ HasNext(u) \/ NextEntry(u)
    BY <2>2, <2>7 DEF NewCompleteRequest, CallClient, HasNext, NextEntry, Completing
  <2>4. CASE CompleteMultipartUpload(u)
    <3>1. \E p \in Owning : Goto(u, p)
      BY <2>4, Zenon DEF CompleteMultipartUpload
    <3> QED
      BY <2>2, <3>1
  <2>5. CASE NewUploader(u) \/ SkipFile(u) \/ ClaimUploadId(u) \/ Close(u)
    BY <1>1, <2>1, <2>5 DEF NewUploader, SkipFile, ClaimUploadId, Close, Completing
  <2>6. CASE Clear(u)
    BY <1>1, <2>6 DEF Clear
  <2> QED
    BY <1>2, <2>3, <2>4, <2>5, <2>6, <2>7 DEF RequestStep
<1>3. ASSUME NEW t \in tasks, TaskStep(t) PROVE \E v \in Request : req'[v].pc \in Owning
  <2>1. t.file[1] \in Request /\ req[t.file[1]].pc \in {"split", "await"}
    BY <1>0, FilesHaveParts DEF TasksOK, CallsOK, TasksAreCurrent
  <2> QED
    BY <1>3, <2>1, Frames
<1>4. CASE UNCHANGED vars
  BY <1>1, <1>4 DEF vars, ListHasUpload
<1> QED
  BY <1>2, <1>3, <1>4 DEF Next

\* One member of a finite set replaced by another.
LEMMA SwapSize ==
    ASSUME NEW S, IsFiniteSet(S), NEW t \in S, NEW r, r \notin S \ {t}
    PROVE  /\ IsFiniteSet(S \ {t}) /\ Cardinality(S) \in Nat
           /\ Cardinality(S \ {t}) = Cardinality(S) - 1
           /\ IsFiniteSet((S \ {t}) \union {r})
           /\ Cardinality((S \ {t}) \union {r}) = Cardinality(S)
<1>1. IsFiniteSet(S \ {t}) /\ Cardinality(S \ {t}) = Cardinality(S) - 1 /\ Cardinality(S) \in Nat
  BY FS_RemoveElement, FS_CardinalityType
<1>2. /\ IsFiniteSet((S \ {t}) \union {r})
      /\ Cardinality((S \ {t}) \union {r}) = Cardinality(S \ {t}) + 1
  BY <1>1, FS_AddElement
<1> QED
  BY <1>1, <1>2

\* A call that begins when no other is in progress.
LEMMA BeginsUndisturbed ==
    ASSUME TypeInv, TasksAreCurrent, QuietInv, NEW u \in Request, NewUploader(u), u \notin Disturbed'
    PROVE  Undisturbed(u)'
<1>1. Active = {}
  BY DEF NewUploader, Disturbed
<1>2. tasks = {} /\ etags = <<>>
  <2>1. tasks = {}
    <3>1. ASSUME NEW t \in tasks PROVE FALSE
      <4>1. t.file[1] \in Request /\ req[t.file[1]].pc \in {"split", "await"}
        BY FilesHaveParts DEF TypeInv, TasksOK, CallsOK, TasksAreCurrent
      <4> QED
        BY <1>1, <4>1 DEF Active
    <3> QED
      BY <3>1
  <2> QED
    BY <1>1, <2>1 DEF QuietInv, ListHasUpload, Active, Completing
<1>3. /\ req'[u].pc \in {"claim", "close"} /\ req'[u].i = req[u].i /\ req[u].i = 0
      /\ tasks' = {} /\ etags' = <<>> /\ client' = u /\ shut' = shut /\ u \notin shut
  BY <1>2 DEF TypeInv, CallsOK, CallOK, NewUploader, Goto, QuietInv, Fresh
<1>4. IsFiniteSet(tasks')
  BY <1>3, FS_EmptySet
<1> QED
  BY <1>3, <1>4 DEF Undisturbed, SendsOwnList, Completing

\* The steps of a call that stays undisturbed.
LEMMA UndisturbedCallGoesOn ==
    ASSUME TypeInv, TasksAreCurrent, NEW u \in Request, u \in Active, Undisturbed(u),
           RequestStep(u), u \notin Disturbed', req'[u].pc \notin {"done", "failed"}
    PROVE  Undisturbed(u)'
<1> DEFINE c == PartCount(SizeOf(Current(u)))
<1>0. /\ CallsOK /\ TasksOK /\ PartsOK
      /\ req[u] \in [pc : Stages, n : Nat, i : Nat] /\ DOMAIN req = Request
      /\ etags \in Seq(AllParts) /\ Len(etags) \in Nat /\ DOMAIN etags = 1 .. Len(etags)
      /\ sending[u] \in [key : File \union {None}, client : Request \union {None}, list : Seq(stored)]
      /\ DOMAIN sending = Request /\ SendingOK
  BY DEF TypeInv, CallsOK, PartsOK, SendingOK
<1>1. /\ req[u].pc \notin {"start", "close"} => files[u] # <<>> /\ c \in Nat \ {0}
      /\ req[u].pc \in {"await", "count", "return"} \union Completing => req[u].i = c
  BY <1>0, CurrentIsFile DEF CallsOK, CallOK, Active, Ending, Completing
<1>2. ASSUME NEW p, Goto(u, p) PROVE /\ req'[u].pc = p /\ req'[u].i = req[u].i /\ Current(u)' = Current(u)
  BY <1>0, <1>2 DEF Goto, Current
<1>3. ASSUME NEW p, Goto(u, p), UNCHANGED <<tasks, client, shut, key, etags>>,
             p \notin {"unfinished", "throw", "claim", "complete", "call", "walk", "entry"},
             p \in {"split", "await"} => \/ req[u].pc \in {"split", "await"}
                                        \/ Len(etags) + Cardinality(tasks) = req[u].i,
             p \in {"count", "list", "sort"} => Len(etags) = req[u].i
      PROVE  Undisturbed(u)'
  BY <1>2, <1>3 DEF Undisturbed, SendsOwnList, Completing
<1>14. ASSUME NEW p \in {"call", "walk", "entry"}, req'[u].pc = p, req'[u].i = req[u].i,
              Current(u)' = Current(u), UNCHANGED <<tasks, client, shut, key, etags>>,
              req[u].pc \in Completing \ {"list", "sort"}, SendsOwnList(u)'
       PROVE  Undisturbed(u)'
  BY <1>14 DEF Undisturbed, Completing
<1> HIDE DEF c
<1>4. CASE ClaimUploadId(u)
  <2>1. Goto(u, "split") /\ UNCHANGED <<tasks, client, shut, key, etags>> /\ req[u].pc = "claim"
    BY <1>4 DEF ClaimUploadId, Failing, Undisturbed, Disturbed
  <2>2. etags = <<>> /\ tasks = {} /\ req[u].i = 0
    <3>1. \A t \in tasks : t.file[1] = u
      BY DEF Undisturbed, Current
    <3>2. tasks = {}
      BY <2>1, <3>1 DEF TasksAreCurrent
    <3> QED
      BY <1>0, <2>1, <3>2 DEF Undisturbed, CallsOK, CallOK
  <2>3. Len(etags) + Cardinality(tasks) = req[u].i
    BY <2>2, FS_EmptySet
  <2> QED
    BY <1>3, <2>1, <2>3
<1>5. CASE Execute(u) /\ req[u].i < c
  <2> DEFINE r == [file |-> Current(u), i |-> req[u].i, pc |-> "queued", key |-> None]
  <2>1. /\ key' = Current(u) /\ tasks' = tasks \union {r} /\ UNCHANGED <<client, shut, etags>>
        /\ req'[u].pc = "split" /\ req'[u].i = req[u].i + 1 /\ Current(u)' = Current(u) /\ req[u].pc = "split"
    BY <1>0, <1>5 DEF Execute, Current, c
  <2>2. \A t \in tasks : t.i < req[u].i /\ t.i \in Nat
    <3>1. \A t \in tasks : t.file[1] = u
      BY DEF Undisturbed, Current
    <3> QED
      BY <1>0, <3>1 DEF TasksAreCurrent, TasksOK
  <2>3. r \notin tasks
    BY <1>0, <2>2
  <2>4. IsFiniteSet(tasks') /\ Cardinality(tasks') = Cardinality(tasks) + 1 /\ Cardinality(tasks) \in Nat
    BY <2>1, <2>3, FS_AddElement, FS_CardinalityType DEF Undisturbed
  <2>5. Len(etags') + Cardinality(tasks') = req'[u].i
    BY <1>0, <2>1, <2>4 DEF Undisturbed
  <2>6. \A s, t \in tasks' : s.i = t.i => s = t
    BY <1>0, <2>1, <2>2 DEF Undisturbed
  <2>7. \A k \in DOMAIN etags : etags[k].number \in Nat
    <3>1. \A p \in AllParts : p.number \in Nat
      BY DEF AllParts, PartsOf, Part
    <3> QED
      BY <1>0, <3>1
  <2>8. \A t \in tasks' : \A k \in DOMAIN etags' : etags'[k].number # t.i + 1
    BY <1>0, <2>1, <2>2, <2>7 DEF Undisturbed
  <2>9. \A k \in DOMAIN etags' : etags'[k].file = Current(u)' /\ etags'[k].number <= req'[u].i
    BY <1>0, <2>1, <2>7 DEF Undisturbed
  <2>10. \A t \in tasks' : t.file = Current(u)' /\ (t.pc # "queued" => t.key = t.file)
    BY <2>1 DEF Undisturbed
  <2> HIDE DEF r
  <2> QED
    BY <2>1, <2>4, <2>5, <2>6, <2>8, <2>9, <2>10 DEF Undisturbed, SendsOwnList, Completing
<1>6. CASE Execute(u) /\ ~(req[u].i < c)
  BY <1>3, <1>6 DEF Execute, c
<1>7. CASE AwaitTermination(u)
  <2>1. tasks = {}
    BY <1>7 DEF AwaitTermination, TasksOf, Undisturbed, Current
  <2>2. Len(etags) = req[u].i
    BY <1>0, <1>7, <2>1, FS_EmptySet DEF AwaitTermination, Undisturbed
  <2> QED
    BY <1>3, <1>7, <2>2 DEF AwaitTermination
<1>8. CASE CountParts(u)
  <2>1. Len(etags) = c
    BY <1>1, <1>8 DEF CountParts, Undisturbed
  <2>2. Goto(u, "list") /\ UNCHANGED <<tasks, client, shut, key, etags>> /\ Len(etags) = req[u].i
    BY <1>1, <1>8, <2>1 DEF CountParts, c
  <2> QED
    BY <1>3, <2>2
<1>9. CASE ListAllParts(u)
  <2>1. key = Current(u) /\ client \notin shut
    BY <1>1, <1>9 DEF ListAllParts, Undisturbed, Completing
  <2>2. Goto(u, "sort") /\ UNCHANGED <<tasks, client, shut, key, etags>> /\ Len(etags) = req[u].i
    BY <1>9, <2>1 DEF ListAllParts, Failing, Undisturbed, Disturbed, Completing
  <2> QED
    BY <1>3, <2>2
<1>10. CASE SortParts(u)
  <2>1. PICK p \in Bijection(DOMAIN etags, DOMAIN etags) :
          IsStableSort(p, etags) /\ etags' = [k \in DOMAIN etags |-> etags[p[k]]]
    BY <1>10 DEF SortParts
  <2>2. /\ p \in [DOMAIN etags -> DOMAIN etags]
        /\ \A j, k \in DOMAIN etags : p[j] = p[k] => j = k
    BY <2>1 DEF Bijection, Injection, IsInjective
  <2>3. /\ Len(etags') = Len(etags) /\ DOMAIN etags' = DOMAIN etags
        /\ \A k \in DOMAIN etags : etags'[k] = etags[p[k]] /\ p[k] \in DOMAIN etags
    BY <1>0, <2>1, <2>2
  <2>4. /\ Goto(u, "complete") /\ UNCHANGED <<tasks, client, shut, key>> /\ req[u].pc = "sort"
        /\ req'[u].pc = "complete" /\ req'[u].i = req[u].i /\ Current(u)' = Current(u)
    BY <1>2, <1>10 DEF SortParts
  <2>5. \A k \in DOMAIN etags' : etags'[k].file = Current(u)' /\ etags'[k].number <= req'[u].i
    BY <2>3, <2>4 DEF Undisturbed
  <2>6. \A j, k \in DOMAIN etags' : etags'[j].number = etags'[k].number => j = k
    BY <2>2, <2>3 DEF Undisturbed
  <2>7. \A t \in tasks' : \A k \in DOMAIN etags' : etags'[k].number # t.i + 1
    BY <2>3, <2>4 DEF Undisturbed
  <2>8. ASSUME NEW k \in 1 .. Len(etags') - 1 PROVE etags'[k].number < etags'[k + 1].number
    <3>1. k \in DOMAIN etags /\ k + 1 \in DOMAIN etags /\ k < k + 1 /\ k # k + 1
      BY <1>0, <2>3
    <3>2. \/ etags[p[k]].number < etags[p[k + 1]].number
          \/ etags[p[k]].number = etags[p[k + 1]].number
      BY <2>1, <3>1 DEF IsStableSort
    <3>3. etags'[k].number # etags'[k + 1].number
      BY <2>3, <2>6, <3>1
    <3> QED
      BY <2>3, <3>1, <3>2, <3>3
  <2> QED
    BY <2>3, <2>4, <2>5, <2>6, <2>7, <2>8 DEF Undisturbed, SendsOwnList, Completing
<1>15. CASE NewCompleteRequest(u)
  <2>1. req[u].pc = "complete" /\ Goto(u, "call") /\ sending'[u].key = key /\ key = Current(u)
        /\ UNCHANGED <<tasks, client, shut, key, etags>>
    BY <1>0, <1>1, <1>15 DEF NewCompleteRequest, Undisturbed, Completing
  <2>2. SendsOwnList(u)'
    BY <1>2, <2>1 DEF SendsOwnList
  <2> QED
    BY <1>2, <1>14, <2>1, <2>2 DEF Completing
<1>16. CASE CallClient(u)
  <2>1. /\ req[u].pc = "call" /\ Goto(u, "walk") /\ client = u /\ sending'[u].client = client
        /\ sending'[u].key = sending[u].key /\ sending'[u].list = sending[u].list
        /\ UNCHANGED <<tasks, client, shut, key, etags>>
    BY <1>0, <1>16 DEF CallClient, Undisturbed
  <2>2. sending[u].key = Current(u) /\ sending[u].list = <<>>
    BY <1>0, <2>1 DEF Undisturbed, SendsOwnList, SendingOK
  <2>3. Len(sending'[u].list) = 0
    BY <2>1, <2>2
  <2>4. SendsOwnList(u)'
    BY <1>0, <1>2, <2>1, <2>2, <2>3 DEF SendsOwnList
  <2> QED
    BY <1>2, <1>14, <2>1, <2>4 DEF Completing
<1>17. CASE HasNext(u)
  <2>1. /\ req[u].pc = "walk" /\ Goto(u, "entry") /\ Len(sending[u].list) < Len(etags) /\ sending' = sending
        /\ UNCHANGED <<tasks, client, shut, key, etags>>
    BY <1>17 DEF HasNext
  <2>2. SendsOwnList(u)'
    BY <1>2, <2>1 DEF Undisturbed, SendsOwnList
  <2> QED
    BY <1>2, <1>14, <2>1, <2>2 DEF Completing
<1>18. CASE NextEntry(u)
  <2> DEFINE l == sending[u].list
             k == Len(l) + 1
  <2>1. /\ req[u].pc = "entry" /\ l \in Seq(stored) /\ k \in 1 .. Len(etags) /\ Len(l) \in Nat
        /\ sending[u].key = Current(u) /\ sending[u].client = u
        /\ \A j \in 1 .. Len(l) : l[j] = etags[j]
    BY <1>0, <1>18 DEF NextEntry, Undisturbed, SendsOwnList
  <2>2. /\ Goto(u, "walk") /\ UNCHANGED <<tasks, client, shut, key, etags>>
        /\ sending' = [sending EXCEPT ![u].list = Append(@, etags[k])]
    BY <1>18, <2>1 DEF NextEntry
  <2>3. /\ sending'[u].key = Current(u) /\ sending'[u].client = u
        /\ sending'[u].list = Append(l, etags[k])
    BY <1>0, <2>1, <2>2
  <2>4. /\ Len(Append(l, etags[k])) = k /\ Append(l, etags[k])[k] = etags[k]
        /\ \A j \in 1 .. Len(l) : Append(l, etags[k])[j] = l[j]
    BY <2>1
  <2>5. Len(sending'[u].list) = k /\ \A j \in 1 .. k : sending'[u].list[j] = etags[j]
    <3>1. \A j \in 1 .. k : j = k \/ j \in 1 .. Len(l)
      BY <2>1
    <3> HIDE DEF l, k
    <3> QED
      BY <2>1, <2>3, <2>4, <3>1
  <2> HIDE DEF l, k
  <2>6. SendsOwnList(u)'
    BY <1>0, <1>2, <2>1, <2>2, <2>3, <2>5 DEF SendsOwnList
  <2> QED
    BY <1>2, <1>14, <2>1, <2>2, <2>6 DEF Completing
<1>11. CASE CompleteMultipartUpload(u)
  <2> DEFINE l == sending[u].list
  <2>0. /\ req[u].pc = "walk" /\ Len(l) = Len(etags) /\ Len(etags) = c
        /\ l \in Seq(stored) /\ Len(l) \in Nat /\ DOMAIN l = 1 .. Len(l)
        /\ sending[u].key = Current(u) /\ sending[u].client = u
        /\ \A k \in 1 .. Len(l) : l[k] = etags[k]
    BY <1>0, <1>1, <1>11 DEF CompleteMultipartUpload, Undisturbed, SendsOwnList, Completing
  <2>1. Accepts(Current(u), l)
    <3>1. l # <<>>
      BY <1>1, <2>0
    <3>2. \A k \in DOMAIN l : l[k] \in stored /\ l[k].file = Current(u)
      <4>1. \A k \in DOMAIN l : l[k] \in stored
        BY <2>0
      <4>2. \A k \in DOMAIN l : l[k] = etags[k] /\ k \in DOMAIN etags
        BY <1>0, <2>0
      <4> HIDE DEF l
      <4> QED
        BY <4>1, <4>2 DEF Undisturbed
    <3>3. \A k \in 1 .. Len(l) - 1 : l[k].number < l[k + 1].number
      <4>1. \A k \in 1 .. Len(l) - 1 : /\ l[k] = etags[k] /\ l[k + 1] = etags[k + 1]
                                         /\ etags[k].number < etags[k + 1].number
        BY <1>0, <2>0 DEF Undisturbed, Completing
      <4> HIDE DEF l
      <4> QED
        BY <4>1
    <3> HIDE DEF l
    <3> QED
      BY <3>1, <3>2, <3>3 DEF Accepts
  <2>2. sending[u].client \notin shut
    BY <2>0 DEF Undisturbed
  <2>3. Goto(u, "return")
    <3>1. ~Failing(u)
      BY DEF Failing, Disturbed
    <3> QED
      BY <1>11, <2>0, <2>1, <2>2, <3>1, Zenon DEF CompleteMultipartUpload
  <2> HIDE DEF l
  <2> QED
    BY <1>3, <1>11, <2>3 DEF CompleteMultipartUpload
<1>12. CASE Clear(u) \/ SkipFile(u)
  <2>1. /\ \/ req[u].pc = "return" /\ AfterFile(u, Current(u)) /\ etags' = <<>>
           \/ req[u].pc = "claim" /\ AfterFile(u, None) /\ etags' = etags /\ etags = <<>>
        /\ UNCHANGED <<tasks, client, shut, key>>
    BY <1>12 DEF Clear, SkipFile, Undisturbed
  <2>2. tasks = {}
    BY <2>1 DEF TasksAreCurrent, Undisturbed, Current
  <2>3. \/ req'[u].pc = "claim" /\ req'[u].i = 0
        \/ req'[u].pc = "close" /\ req'[u].i = req[u].i /\ Current(u)' = Current(u)
    <3>1. CASE req' = [req EXCEPT ![u] = [pc |-> "claim", n |-> @.n + 1, i |-> 0]]
      BY <1>0, <3>1
    <3>2. CASE Goto(u, "close")
      BY <1>2, <3>2
    <3>3. files[u] # <<>> /\ \E name : AfterFile(u, name)
      BY <1>1, <2>1
    <3> QED
      BY <1>0, <3>1, <3>2, <3>3, AfterFileMoves
  <2>4. IsFiniteSet(tasks') /\ etags' = <<>> /\ tasks' = {}
    BY <2>1, <2>2, FS_EmptySet
  <2> QED
    BY <2>1, <2>3, <2>4 DEF Undisturbed, SendsOwnList, Completing
<1>13. CASE NewUploader(u) \/ Close(u)
  BY <1>2, <1>13 DEF NewUploader, Close, Active
<1> QED
  BY <1>4, <1>5, <1>6, <1>7, <1>8, <1>9, <1>10, <1>11, <1>12, <1>13,
     <1>15, <1>16, <1>17, <1>18 DEF RequestStep

\* The steps of the pool of a call that stays undisturbed.
LEMMA UndisturbedPoolGoesOn ==
    ASSUME TypeInv, TasksAreCurrent, NEW u \in Request, u \in Active, Undisturbed(u),
           NEW t \in tasks, TaskStep(t), u \notin Disturbed'
    PROVE  Undisturbed(u)'
<1>0. /\ TasksOK /\ PartsOK /\ etags \in Seq(AllParts) /\ Len(etags) \in Nat /\ DOMAIN etags = 1 .. Len(etags)
      /\ UNCHANGED <<req, key, client, shut>> /\ Current(u)' = Current(u)
      /\ req[u] \in [pc : Stages, n : Nat, i : Nat]
  BY Frames DEF TypeInv, PartsOK, Current, CallsOK
<1>1. /\ t.file = Current(u) /\ t.file[1] = u /\ req[u].pc \in {"split", "await"}
      /\ t.i < req[u].i /\ t.i \in Nat
  BY <1>0 DEF Undisturbed, TasksAreCurrent, TasksOK, Current
<1>2. ASSUME NEW r, tasks' = (tasks \ {t}) \union {r}, r.file = t.file, r.i = t.i,
             r.pc # "queued" => r.key = r.file, etags' = etags
      PROVE  Undisturbed(u)'
  <2>1. r \notin tasks \ {t}
    BY <1>2 DEF Undisturbed
  <2>2. IsFiniteSet(tasks') /\ Cardinality(tasks') = Cardinality(tasks)
    BY <1>2, <2>1, SwapSize DEF Undisturbed
  <2>3. \A q, s \in tasks' : q.i = s.i => q = s
    BY <1>2 DEF Undisturbed
  <2>4. \A s \in tasks' : \A k \in DOMAIN etags' : etags'[k].number # s.i + 1
    BY <1>2 DEF Undisturbed
  <2>5. \A s \in tasks' : s.file = Current(u)' /\ (s.pc # "queued" => s.key = s.file)
    BY <1>0, <1>1, <1>2 DEF Undisturbed
  <2> QED
    BY <1>0, <1>1, <1>2, <2>2, <2>3, <2>4, <2>5 DEF Undisturbed, SendsOwnList, Completing
<1>3. CASE SetKey(t)
  <2> DEFINE r == [t EXCEPT !.pc = "named", !.key = key]
  <2>1. r.file = t.file /\ r.i = t.i /\ r.key = key
    BY <1>0 DEF TasksOK
  <2>2. key = Current(u)
    BY <1>0, <1>1 DEF Undisturbed
  <2>3. tasks' = (tasks \ {t}) \union {r} /\ etags' = etags
    BY <1>3 DEF SetKey
  <2> HIDE DEF r
  <2> QED
    BY <1>1, <1>2, <2>1, <2>2, <2>3
<1>4. CASE UploadPart(t)
  <2> DEFINE r == [t EXCEPT !.pc = "sent"]
  <2>1. r.file = t.file /\ r.i = t.i /\ r.key = t.key /\ t.key = t.file
    BY <1>0, <1>4 DEF TasksOK, UploadPart, Undisturbed
  <2>2. client \notin shut /\ t.key = t.file /\ ~Failing(u)
    BY <1>1, <2>1 DEF Undisturbed, Failing, Disturbed
  <2>3. tasks' = (tasks \ {t}) \union {r} /\ etags' = etags
    BY <1>1, <1>4, <2>2 DEF UploadPart, Becomes
  <2> HIDE DEF r
  <2> QED
    BY <1>1, <1>2, <2>1, <2>3
<1>5. CASE AddETag(t)
  <2> DEFINE p == Part(t.file, t.i)
  <2>1. tasks' = tasks \ {t} /\ etags' = Append(etags, p) /\ p.file = Current(u) /\ p.number = t.i + 1
    BY <1>1, <1>5 DEF AddETag, Ends, Part
  <2>2. /\ DOMAIN etags' = 1 .. Len(etags) + 1 /\ Len(etags') = Len(etags) + 1
        /\ etags'[Len(etags) + 1] = p /\ \A k \in 1 .. Len(etags) : etags'[k] = etags[k]
    BY <1>0, <2>1
  <2>3. /\ IsFiniteSet(tasks') /\ Cardinality(tasks') = Cardinality(tasks) - 1 /\ Cardinality(tasks) \in Nat
    BY <2>1, FS_RemoveElement, FS_CardinalityType DEF Undisturbed
  <2> HIDE DEF p
  <2>4. Len(etags') + Cardinality(tasks') = req[u].i
    BY <1>0, <1>1, <2>2, <2>3 DEF Undisturbed
  <2>5. \A k \in DOMAIN etags' : etags'[k].file = Current(u) /\ etags'[k].number <= req[u].i
    BY <1>0, <1>1, <2>1, <2>2 DEF Undisturbed
  <2>6. \A j, k \in DOMAIN etags' : etags'[j].number = etags'[k].number => j = k
    <3>1. \A k \in DOMAIN etags : etags[k].number # p.number
      BY <2>1 DEF Undisturbed
    <3> QED
      BY <1>0, <2>2, <3>1 DEF Undisturbed
  <2>7. ASSUME NEW s \in tasks', NEW k \in DOMAIN etags' PROVE etags'[k].number # s.i + 1
    <3>1. s \in tasks /\ s # t /\ s.i # t.i /\ s.i \in Nat
      BY <1>0, <2>1 DEF Undisturbed, TasksOK
    <3> QED
      BY <1>0, <1>1, <2>1, <2>2, <3>1 DEF Undisturbed
  <2> QED
    BY <1>0, <1>1, <2>1, <2>3, <2>4, <2>5, <2>6, <2>7 DEF Undisturbed, SendsOwnList, Completing
<1> QED
  BY <1>3, <1>4, <1>5 DEF TaskStep

LEMMA QuietStays == ASSUME TypeInv, TasksAreCurrent, QuietInv, [Next]_vars PROVE QuietInv'
<1>0. CallsOK /\ TasksOK /\ Disturbed \subseteq Disturbed'
  BY ActiveSteps DEF TypeInv, Disturbed
<1>1. OverlapsAreKnown' /\ Fresh' /\ ListHasUpload'
  BY OverlapsStayKnown, FreshStays, ListStaysOwned DEF QuietInv
<1>2. ASSUME NEW u \in Active', u \notin Disturbed' PROVE Undisturbed(u)'
  <2>1. u \in Request /\ req'[u].pc \notin {"start", "done", "failed"}
    BY <1>2 DEF Active
  <2>2. CASE NewUploader(u)
    BY <1>2, <2>1, <2>2, BeginsUndisturbed
  <2>3. CASE u \in Active
    <3>1. u \notin Disturbed /\ Undisturbed(u) /\ \A v \in Active : v = u
      BY <1>0, <1>2, <2>3 DEF QuietInv, OverlapsAreKnown, Disturbed
    <3>2. ASSUME NEW v \in Request, RequestStep(v) PROVE v = u
      <4>1. CASE NewUploader(v)
        BY <1>2, <2>3, <4>1 DEF NewUploader, Disturbed
      <4>2. CASE ~NewUploader(v)
        <5>1. v \in Active
          BY <3>2, <4>2
          DEF Active, RequestStep, SkipFile, ClaimUploadId, Execute, AwaitTermination, CountParts,
              ListAllParts, SortParts, NewCompleteRequest, CallClient, HasNext, NextEntry,
              CompleteMultipartUpload, Clear, Close
        <5> QED
          BY <3>1, <5>1
      <4> QED
        BY <4>1, <4>2
    <3>3. CASE RequestStep(u)
      BY <1>2, <2>1, <2>3, <3>1, <3>3, UndisturbedCallGoesOn
    <3>4. ASSUME NEW t \in tasks, TaskStep(t) PROVE Undisturbed(u)'
      BY <1>2, <2>1, <2>3, <3>1, <3>4, UndisturbedPoolGoesOn
    <3>5. CASE UNCHANGED vars
      BY <3>1, <3>5 DEF Undisturbed, SendsOwnList, Current, vars
    <3> QED
      BY <3>2, <3>3, <3>4, <3>5 DEF Next
  <2> QED
    <3>1. CASE Active' \subseteq Active
      BY <1>2, <2>3, <3>1
    <3>2. ASSUME NEW w \in Request, NewUploader(w), Active' = Active \union {w} PROVE Undisturbed(u)'
      BY <1>2, <2>2, <2>3, <3>2
    <3> QED
      BY <3>1, <3>2, ActiveSteps
<1>3. ASSUME NEW u \in Request, req'[u].pc = "failed" PROVE u \in Disturbed'
  <2>1. CASE req[u].pc = "failed"
    BY <1>0, <2>1 DEF QuietInv
  <2>2. CASE RequestStep(u) /\ req[u].pc # "failed"
    <3>0. req[u] \in [pc : Stages, n : Nat, i : Nat] /\ DOMAIN req = Request
      BY <1>0 DEF CallsOK
    <3>1. ASSUME NEW p, Goto(u, p), p # "failed" PROVE FALSE
      BY <1>3, <3>0, <3>1 DEF Goto
    <3>5. CASE SkipFile(u)
      BY <1>3, <3>0, <3>1, <3>5 DEF SkipFile, AfterFile
    <3>2. CASE Clear(u)
      <4>1. req[u].pc \in {"unfinished", "throw"}
        BY <1>3, <3>0, <3>1, <3>2 DEF Clear, AfterFile
      <4>2. u \in Active /\ ~Undisturbed(u)
        BY <4>1 DEF Active, Undisturbed
      <4> QED
        BY <1>0, <4>2 DEF QuietInv
    <3>3. CASE Execute(u)
      BY <1>3, <2>2, <3>0, <3>1, <3>3 DEF Execute
    <3>4. CASE CompleteMultipartUpload(u)
      <4>1. Goto(u, "return") \/ Goto(u, "throw")
        BY <3>4, Zenon DEF CompleteMultipartUpload
      <4> QED
        BY <3>1, <4>1
    <3> QED
      BY <2>2, <3>1, <3>2, <3>3, <3>4, <3>5
      DEF RequestStep, NewUploader, ClaimUploadId, AwaitTermination, CountParts, ListAllParts,
          SortParts, NewCompleteRequest, CallClient, HasNext, NextEntry, Close
  <2>3. req'[u] = req[u] \/ RequestStep(u)
    BY Frames DEF Next, vars
  <2> QED
    BY <1>3, <2>1, <2>2, <2>3
<1> QED
  BY <1>1, <1>2, <1>3 DEF QuietInv

\* A call fails only if a call to the storage failed or another upload overlapped it
\* (uploadFile, upload, run): what earlier calls leave in the static fields disturbs none.
THEOREM FailuresAreEarned == Spec => []FailsOnlyWhenDisturbed
<1>1. Init => QuietInv
  BY RequestAssumption DEF Init, QuietInv, OverlapsAreKnown, Fresh, ListHasUpload, Active, None, Disturbed
<1>2. TypeInv /\ TasksAreCurrent /\ QuietInv /\ [Next]_vars => QuietInv'
  BY QuietStays
<1>3. QuietInv => FailsOnlyWhenDisturbed
  BY DEF QuietInv, FailsOnlyWhenDisturbed, Undisturbed, Active, Disturbed
<1> QED
  BY <1>1, <1>2, <1>3, TypesAlways, TasksAlwaysCurrent, PTL DEF Spec
=============================================================================
