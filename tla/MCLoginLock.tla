---------------------------- MODULE MCLoginLock ----------------------------
(* LoginLock on a small instance. The threads are interchangeable, but the *)
(* liveness property forbids symmetry.                                     *)
EXTENDS LoginLock
=============================================================================
