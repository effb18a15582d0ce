------------------------- MODULE MCCheckout -------------------------
(* The page on two tabs.  A tab is like any other. *)
EXTENDS Checkout, TLC

CONSTANTS t1, t2

=======================================================================
