------------------------------ MODULE Uploads ------------------------------
(***************************************************************************)
(* What OssService.uploadFile promises: a call takes the files it brings   *)
(* one after the other. It stores a file at once and answers its name, or  *)
(* skips it and answers null; or it throws, and keeps what it has stored   *)
(* until then. A file is stored as a whole, or at least a piece of it if   *)
(* other calls ran beside this one.                                        *)
(***************************************************************************)
EXTENDS Integers, Sequences

CONSTANTS Request,    \* calls of uploadFile
          FileLists   \* the sizes of the files a call may bring

VARIABLES files,      \* the sizes of the files of each call
          status,     \* "ready", "busy", "done" or "failed"
          fileList,   \* the answer of each call so far, <<>> for null
          objects,    \* the content of the object of each file, <<>> while there is none
          overlapped  \* calls that ran beside another one

vars == <<files, status, fileList, objects, overlapped>>

Content(size) == [k \in 1 .. size |-> k]

\* Some of the bytes of a file, in their order.
Pieces(size) ==
    {c \in UNION {[1 .. n -> 1 .. size] : n \in 1 .. size} :
        \A j, k \in DOMAIN c : j < k => c[j] < c[k]}

Init ==
    /\ files \in [Request -> FileLists]
    /\ status = [u \in Request |-> "ready"]
    /\ fileList = [u \in Request |-> <<>>]
    /\ objects = [f \in UNION {{u} \X DOMAIN files[u] : u \in Request} |-> <<>>]
    /\ overlapped = {}

Becomes(u, from, to) ==
    /\ status[u] = from
    /\ status' = [status EXCEPT ![u] = to]

Begin(u) ==
    LET busy == {v \in Request : status[v] = "busy"} IN
    /\ Becomes(u, "ready", "busy")
    /\ overlapped' = IF busy = {} THEN overlapped ELSE overlapped \union busy \union {u}
    /\ UNCHANGED <<files, fileList, objects>>

\* Call u is at its file n.
At(u, n) == status[u] = "busy" /\ n = Len(fileList[u]) + 1 /\ n \in DOMAIN files[u]

Store(u, n) ==
    LET c == objects'[<<u, n>>] IN
    /\ At(u, n) /\ objects[<<u, n>>] = <<>>
    /\ objects' = [objects EXCEPT ![<<u, n>>] = c]
    /\ c \in Pieces(files[u][n])
    /\ u \notin overlapped => c = Content(files[u][n])
    /\ UNCHANGED <<files, status, fileList, overlapped>>

Name(u, n) ==
    /\ At(u, n) /\ objects[<<u, n>>] # <<>>
    /\ fileList' = [fileList EXCEPT ![u] = Append(@, <<u, n>>)]
    /\ UNCHANGED <<files, status, objects, overlapped>>

Skip(u, n) ==
    /\ At(u, n) /\ objects[<<u, n>>] = <<>>
    /\ fileList' = [fileList EXCEPT ![u] = Append(@, <<>>)]
    /\ UNCHANGED <<files, status, objects, overlapped>>

Answer(u) ==
    /\ Len(fileList[u]) = Len(files[u])
    /\ Becomes(u, "busy", "done")
    /\ UNCHANGED <<files, fileList, objects, overlapped>>

Throw(u) == Becomes(u, "busy", "failed") /\ UNCHANGED <<files, fileList, objects, overlapped>>

Next ==
    \E u \in Request :
        \/ Begin(u) \/ Answer(u) \/ Throw(u)
        \/ \E n \in DOMAIN files[u] : Store(u, n) \/ Name(u, n) \/ Skip(u, n)

Spec == Init /\ [][Next]_vars
=============================================================================
