----------------------------- MODULE PageScripts ----------------------------
(***************************************************************************)
(* A page of the management front end uses the library for one of two      *)
(* things: it digests (encryptBySHA1 of index.html, and what else the      *)
(* hashers offer), or it exchanges a message with another page             *)
(* (encryptByDES, decryptByDES).                                           *)
(***************************************************************************)
EXTENDS HashScripts, CipherScripts

NoJob == [kind |-> "none"]
NoTask == [key |-> EmptyArray, size |-> 0, stops |-> {}, standard |-> <<>>]

ScriptsInit ==
    \/ HashInit /\ CipherStart(NoTask)
    \/ CipherInit /\ HashStart(NoJob)
ScriptsNext ==
    \/ job # NoJob /\ HashNext /\ UNCHANGED cvars
    \/ task # NoTask /\ CipherNext /\ UNCHANGED hvars
ScriptsSpec == ScriptsInit /\ [][ScriptsNext]_<<hvars, cvars>>
=============================================================================
