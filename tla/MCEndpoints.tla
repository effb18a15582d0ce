-------------------------- MODULE MCEndpoints --------------------------
(* Two names: one answered with an address outside or one inside, the other with an
   address that carries the one inside.  The third URL has no shape. *)
EXTENDS Endpoints, TLC

CONSTANTS r1, r2, e1, e2, a1, a2, moving, carrying, shapeless, out, in, nat

MCLeads == (moving :> {{out}, {in}}) @@ (carrying :> {{nat}}) @@ (shapeless :> {{out}})
MCCarries == (out :> {}) @@ (in :> {}) @@ (nat :> {in})

Alike == Permutations({r1, r2}) \cup Permutations({e1, e2}) \cup Permutations({a1, a2})

=======================================================================
