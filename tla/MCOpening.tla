-------------------------- MODULE MCOpening --------------------------
(* Two accounts with a credential each, on two connections.  The first body names no
   deadline, the second one that passes. *)
EXTENDS Opening, TLC

CONSTANTS cl1, cl2, a1, a2, c1, c2, jpyc, d1, d2, k1

MCAccountOf == (c1 :> a1) @@ (c2 :> a2)
MCDecimals == jpyc :> 2
MCOwner == (d1 :> a1) @@ (d2 :> a2)
Soon == [asset |-> jpyc, amount |-> <<0, Point, 9>>, expires |-> 3]
Unnamed == [asset |-> jpyc, amount |-> <<9>>, expires |-> 0]
MCBodies == {Soon, Unnamed}
MCSent == {<<k1, Soon>>, <<k1, Unnamed>>}

\* Every text of up to five characters, of which the digits are 0, 1 and 9.
Characters == {0, 1, 9, Point, Other}
MCTexts == UNION {[1 .. n -> Characters] : n \in 0 .. 5}

TwoClients == Permutations({cl1, cl2})

=======================================================================
