------------------------- MODULE MCSettlement -------------------------
(***************************************************************************)
(* Settlement on small instances.  Block 2 is in time and block 3 is late  *)
(* for a deadline of 3; block 1 is where the chain starts.                 *)
(***************************************************************************)
EXTENDS Settlement, TLC

CONSTANTS p1, a1, a2, t1, t2, t3, o1, o2, w1, w2

\* One payment, two attempts; the key of the first is spent in full or short.
OnePayment == {p1}
TwoAttempts == {a1, a2}
EarlyDeadline == [p \in {p1} |-> 3]
AllOfOne == [a \in {a1, a2} |-> p1]

ThreeTransfers == {t1, t2, t3}
ThreeKeys == (t1 :> a1) @@ (t2 :> a1) @@ (t3 :> a2)
ThreeKinds == (t1 :> "full") @@ (t2 :> "short") @@ (t3 :> "full")


OneAttempt == {a1}
OneOfOne == (a1 :> p1)
TwoOfOneKey == (t1 :> a1) @@ (t2 :> a1)
FirstTwo == {t1, t2}
FullAndShort == (t1 :> "full") @@ (t2 :> "short")

Working == Permutations(Workers)

=======================================================================
