--------------------------- MODULE MCMenuAuthority --------------------------
(* Three administrators; three menus, each below the one before, and a      *)
(* fourth to be added; a role that has the second menu, and an element.     *)
EXTENDS MenuAuthority, TLC

MCMenu == 1 .. 4
MCFirstMenus == <<Top, 1, 2>>
MCFirstPaths == <<<<1>>, <<1, 2>>, <<1, 2, 3>>>>
MCFirstLinks == {2}
Symmetry == Permutations(Admin)
=============================================================================
