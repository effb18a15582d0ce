-------------------------- MODULE MCWebhooks --------------------------
(***************************************************************************)
(* Webhooks on a small instance: two events of one payment, one endpoint.  *)
(***************************************************************************)
EXTENDS Webhooks, TLC

CONSTANTS e1, x, w1, w2

TwoOfOne == <<x, x>>
AllOfTwo == (e1 :> {1, 2})

=======================================================================
