-------------------------- MODULE MCRefunds --------------------------
(***************************************************************************)
(* Refunds on a small instance.  A refund opened at 0 is good for block 2   *)
(* and not for block 3; block 1 is where the chain starts.                  *)
(***************************************************************************)
EXTENDS Refunds, TLC

CONSTANTS r1, r2, p1, q1, q2, k1, t1, w1

TwoRefunds == {r1, r2}
Nonces == {r1, r2} \X Wallets
ReceivedTwo == (p1 :> 2)

\* One of what was received under a key, and all that is left under none.
ForOne == (q1 :> p1) @@ (q2 :> p1)
KeyOfFirst == (q1 :> k1) @@ (q2 :> NoKey)
FirstTwice == (q1 :> 2) @@ (q2 :> 1)
AskOneAndRest == (q1 :> 1) @@ (q2 :> 0)

\* The key of r1 is spent for what it asks, with a later deadline than its own.
OneKey == (t1 :> <<r1, "merchant">>)
Later == (t1 :> "later")

=======================================================================
