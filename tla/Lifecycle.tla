-------------------------- MODULE Lifecycle --------------------------
(***************************************************************************)
(* What a merchant is promised of its payments (payment/status.go, and what *)
(* payment.go and postgres.go keep to): where each stands, what it says     *)
(* arrived, and the events that tell of it.  A payment moves only along its *)
(* machine, and a move and its event are one step; what arrived changes     *)
(* only while it can receive, and it succeeds on the full amount only; once *)
(* it is closed nothing of that moves again.  One step may concern several  *)
(* payments.                                                                *)
(*                                                                         *)
(* Settlement is shown to implement this.                                   *)
(***************************************************************************)
EXTENDS Payment, Sequences

CONSTANTS Payments

VARIABLES status,    \* where a payment stands
          received,  \* what it says arrived
          told       \* the events written for it, in order

vars == <<status, received, told>>

Init == /\ status = [p \in Payments |-> "created"]
        /\ received = [p \in Payments |-> "nothing"]
        /\ told = [p \in Payments |-> <<>>]

\* A move, with the event that tells of it.
Move(p) ==  /\ CanBecome(status[p], status'[p])
            /\ status'[p] = "succeeded" => received[p] = "full"
            /\ received'[p] = received[p]
            /\ told'[p] = Append(told[p], status'[p])

\* What arrived, or is there no more.
Receives(p) == /\ status'[p] = status[p]
               /\ received'[p] # received[p] => CanReceive(status[p])

\* Transfers seen in blocks are told of, one event for each.
Announces(p) == \/ told'[p] = told[p]
                \/ \E n \in 1 .. Len(told'[p]) :
                       told'[p] = told[p] \o [i \in 1 .. n |-> "confirming"]

Step(p) == Move(p) \/ (Receives(p) /\ Announces(p))

Next == /\ status' \in [Payments -> Statuses]
        /\ received' \in [Payments -> Amounts]
        /\ DOMAIN told' = Payments
        /\ \A p \in Payments : Step(p)

Spec == Init /\ [][Next]_vars

=======================================================================
