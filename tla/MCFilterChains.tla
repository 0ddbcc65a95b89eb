--------------------------- MODULE MCFilterChains ---------------------------
(* FilterChains on a small instance: two roles, two menus, three elements *)
(* (one with a blank url), pages of two rows, one listener besides startup. *)
EXTENDS FilterChains, TLC

CONSTANTS r1, r2, m1, m2, e1, e2, e3

MCUrl == 0 .. 2
MCUrlOf == (e1 :> 1) @@ (e2 :> 2) @@ (e3 :> 0)
MCInitialDb == [roles |-> {r1, r2}, menus |-> {m1, m2},
                links |-> {<<r1, m1>>, <<r2, m2>>}, rows |-> {<<r1, m1>>, <<r2, m2>>},
                place |-> (e1 :> m1) @@ (e2 :> m2) @@ (e3 :> m1)]
=============================================================================
