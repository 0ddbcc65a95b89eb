----------------------- MODULE MCFilterChainRequests -----------------------
(* FilterChainRequests on a small instance: one request at a time, callers *)
(* with and without the role, two urls.                                    *)
EXTENDS FilterChainRequests, TLC

CONSTANTS r1, m1, m2, e1, e2, c1, c2

MCUrl == 0 .. 2
MCUrlOf == (e1 :> 1) @@ (e2 :> 2)
MCRoleSet == (c1 :> {r1}) @@ (c2 :> {})
MCInitialDb == [roles |-> {r1}, menus |-> {m1, m2},
                links |-> {<<r1, m1>>}, rows |-> {<<r1, m1>>},
                place |-> (e1 :> m1) @@ (e2 :> m2)]
=============================================================================
