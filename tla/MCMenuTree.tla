----------------------------- MODULE MCMenuTree -----------------------------
(* MenuTree for every forest of four menus, with one of them moved or none. *)
EXTENDS MenuTree

MCMenuId == 1 .. 4
MCSortKey == 1 .. 2
=============================================================================
