------------------------- MODULE MCMultipartUpload -------------------------
(* MultipartUpload on a small instance. *)
EXTENDS MultipartUpload

CONSTANTS r1, r2   \* the calls

\* Two parts, the last one short; two files, one short and one exactly full part;
\* none that is not empty.
MCFileLists == {<<>>, <<3>>, <<1, 2>>}

\* The calls do not differ in anything else, so one of two ways to give them
\* different files is enough. One of them brings at most one file.
MCInit == Init /\ Len(files[r1]) <= 1 /\ Len(files[r1]) <= Len(files[r2])

MCSpec == MCInit /\ [][Next]_vars /\ Fairness
=============================================================================
