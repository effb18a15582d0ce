--------------------------- MODULE Returns ---------------------------
(***************************************************************************)
(* What a merchant is promised of the money it sends back (payment/         *)
(* refund.go and postgres.go): an account of what each payment has left.    *)
(* Opening a refund takes its amount out of what is left, whatever else is  *)
(* opened meanwhile, and under an idempotency key that opened none before;  *)
(* the amount stays with the refund for good when it succeeds and comes     *)
(* back when it expires; each end is told in the step that makes it, once.  *)
(*                                                                         *)
(* Refunds is shown to implement this.                                      *)
(***************************************************************************)
EXTENDS Naturals, Sequences

CONSTANTS Refunds,   \* the refunds there may come to be
          Payments,
          Received,  \* what a payment received
          Keys,      \* what a refund may be opened under
          NoKey,     \* which is not a key, and opens any number
          Nobody     \* the payment of a refund that is not opened

VARIABLES left,      \* what a payment has left to send back
          of,        \* the payment a refund is of
          key,       \* what a refund was opened under
          amount,    \* what a refund sends back
          status,    \* where a refund stands
          told       \* the events written for a refund, in order

vars == <<left, of, key, amount, status, told>>

Init == /\ left = Received
        /\ of = [r \in Refunds |-> Nobody]
        /\ key = [r \in Refunds |-> NoKey]
        /\ amount = [r \in Refunds |-> 0]
        /\ status = [r \in Refunds |-> "none"]
        /\ told = [r \in Refunds |-> <<>>]

\* Part of what p has left goes to a refund, under a key that opened no other.
Open(r, p, k, n) == /\ status[r] = "none"
                    /\ \A s \in Refunds : k # NoKey => key[s] # k
                    /\ left' = [left EXCEPT ![p] = @ - n]
                    /\ of' = [of EXCEPT ![r] = p]
                    /\ key' = [key EXCEPT ![r] = k]
                    /\ amount' = [amount EXCEPT ![r] = n]
                    /\ status' = [status EXCEPT ![r] = "created"]
                    /\ UNCHANGED told

Move(r, want) == /\ status' = [status EXCEPT ![r] = want]
                 /\ UNCHANGED <<of, key, amount>>

\* The time to send it is over.
Wait(r) == /\ status[r] = "created"
           /\ Move(r, "awaiting_finality")
           /\ UNCHANGED <<left, told>>

\* It was sent.
Succeed(r) == /\ status[r] \in {"created", "awaiting_finality"}
              /\ Move(r, "succeeded")
              /\ told' = [told EXCEPT ![r] = Append(@, "succeeded")]
              /\ UNCHANGED left

\* It was not: what it held can be sent back by another.
Expire(r) == /\ status[r] = "awaiting_finality"
             /\ Move(r, "expired")
             /\ told' = [told EXCEPT ![r] = Append(@, "expired")]
             /\ left' = [left EXCEPT ![of[r]] = @ + amount[r]]

Next == \E r \in Refunds :
            \/ \E p \in Payments, k \in Keys : \E n \in 1 .. left[p] : Open(r, p, k, n)
            \/ Wait(r)
            \/ Succeed(r)
            \/ Expire(r)

Spec == Init /\ [][Next]_vars

=======================================================================
