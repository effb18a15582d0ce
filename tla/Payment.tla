--------------------------- MODULE Payment ---------------------------
(***************************************************************************)
(* The rules of internal/payment that need no state: the moves a payment   *)
(* may make (status.go), when money can land on it (payment.go) and what   *)
(* the rules make of a transfer (evidence.go).                             *)
(***************************************************************************)
EXTENDS Naturals

Statuses == {"created", "awaiting_payment", "awaiting_finality",
             "succeeded", "failed", "expired"}

\* Every move a payment may make; a status with none is final.
Moves == [s \in Statuses |->
            CASE s = "created" -> {"awaiting_payment"}
              [] s = "awaiting_payment" -> {"succeeded", "failed", "awaiting_finality"}
              [] s = "awaiting_finality" -> {"succeeded", "expired"}
              [] OTHER -> {}]

Closed == {s \in Statuses : Moves[s] = {}}

CanBecome(s, want) == want \in Moves[s]

CanReceive(s) == s \in {"awaiting_payment", "awaiting_finality"}

\* What a payment says arrived, against what it asked for.
Amounts == {"nothing", "short", "full"}

\* What a transfer carries: enough, too little, a value that does not read as
\* an amount of the asset, or something of another asset or to another address.
Kinds == {"full", "short", "unreadable", "wrong"}

\* What a row says of a transfer.  "none" is a row that is not there, and
\* "wrong" is both wrong_asset and wrong_to.
Reasons == {"none", "matched", "short", "late", "wrong", "vanished"}

\* The rules in the order they are applied: where it went, how much it was,
\* when the block was made, and whether the payment can still receive.
Judge(kind, time, validBefore, status) ==
    IF kind = "wrong" THEN "wrong"
    ELSE IF kind # "full" THEN "short"
    ELSE IF time >= validBefore \/ ~CanReceive(status) THEN "late"
    ELSE "matched"

\* Issued and confirming are the statuses attempts_one_live_per_payment is over;
\* "none" is an attempt nobody made, "minted" one whose row is not stored yet.
AttemptStatuses == {"none", "minted", "issued", "confirming", "superseded"}
Live == {"issued", "confirming"}

=======================================================================
