--------------------------- MODULE Refunds ---------------------------
(***************************************************************************)
(* The refunds of settled payments: requests open them under the payment's  *)
(* lock and an idempotency key (payment/refundhttp.go, CreateRefund), the   *)
(* merchant signs on a page (refund/), the observer judges what the chain   *)
(* carries under their keys (JudgeRefund), and the finality worker settles, *)
(* closes and expires them (finality/worker.go).                            *)
(*                                                                          *)
(* The observer is the one of Settlement, reduced to what a refund can      *)
(* tell: one round at a time, and each of its two writes one step with the  *)
(* reading it rests on.  JudgeRefund looks at nothing that changes once the *)
(* refund is stored, and the key is handed out after that, so what a range  *)
(* held when it was read is judged the same when it is written.             *)
(***************************************************************************)
EXTENDS Chain, Sequences, FiniteSetsExt

CONSTANTS Refunds,      \* the refunds there may come to be
          Payments,     \* settled payments of one account on one network
          Received,     \* what a payment received
          Requests,     \* the distinct requests a merchant's server sends
          For,          \* the payment a request names
          Under,        \* the idempotency key a request carries, or NoKey
          NoKey,
          Asks,         \* the amount in a request's body, 0 for an empty body
          Nobody,       \* not a request
          Sends,        \* times each request is sent
          Carries,      \* what a transfer of a refund's key carries
          Life,         \* RefundLife
          MaxNow,       \* the clock stops here
          Width,        \* blocks one round reads
          Overclaims,   \* the provider may call final what is not
          Workers       \* tasks of finality workers in hand at once

\* A nonce is its signer's own: a refund's key can be spent once by the wallet
\* the payment was paid to, and once by any other.
Wallets == {"merchant", "stranger"}

\* Signed as the page gave it; less or more; to another address or in another
\* asset; or as it was given but with a later deadline.
Terms == {"exact", "short", "over", "elsewhere", "later"}

ASSUME NonceAssumption == Attempts = Refunds \X Wallets
ASSUME RefundAssumptions ==
    /\ Received \in [Payments -> Nat \ {0}]
    /\ For \in [Requests -> Payments]
    /\ Asks \in [Requests -> Nat]
    /\ Carries \in [Transfers -> Terms]
    /\ Nobody \notin Requests
    /\ IsFiniteSet(Refunds)
ASSUME RefundBounds ==
    /\ Sends \in [Requests -> Nat]
    /\ Life \in Nat \ {0}
    /\ MaxNow \in Nat
    /\ Width \in Nat \ {0}
    /\ Overclaims \in BOOLEAN

VARIABLES now,          \* the clock of the deployment
          by,           \* the request that opened a refund
          amount,       \* refunds.amount
          until,        \* refunds.expires_at
          status,       \* refunds.status
          version,      \* refunds.version
          outbox,       \* the events of a refund
          row,          \* observations against refunds
          cursor,       \* observation_cursors
          sent,         \* times each request was sent
          asked,        \* what a request in hand asks to send back
          heard,        \* what the sender of a request was answered
          task          \* what a worker holds of a refund it read

refundVars == <<by, amount, until, status, version, outbox>>
requestVars == <<sent, asked, heard>>
vars == <<chainVars, now, refundVars, row, cursor, requestVars, task>>

RefundOf(t) == KeyOf[t][1]
Sender(t) == KeyOf[t][2]

Statuses == {"none", "created", "awaiting_finality", "succeeded", "expired"}

\* Every move a refund may make.
Moves == [s \in Statuses |->
            CASE s = "created" -> {"succeeded", "awaiting_finality"}
              [] s = "awaiting_finality" -> {"succeeded", "expired"}
              [] OTHER -> {}]
CanBecome(s, want) == want \in Moves[s]
Ended == {"succeeded", "expired"}
Open == {"created", "awaiting_finality"}

\* What JudgeRefund makes of a transfer; "none" is a row that is not there, and
\* "wrong_to" is wrong_asset too.
Reasons == {"none", "wrong_to", "wrong_from", "short", "over", "late", "matched", "vanished"}

\* The rules in the order they are applied: where it went, who sent it, how
\* much it was, and when the block was made.
JudgeRefundAtDeadline(t, time) ==  \* a mutant: the deadline is in time
    CASE Carries[t] = "elsewhere" -> "wrong_to"
      [] Sender(t) # "merchant" -> "wrong_from"
      [] Carries[t] = "short" -> "short"
      [] Carries[t] = "over" -> "over"
      [] time > until[RefundOf(t)] -> "late"
      [] OTHER -> "matched"
JudgeRefund(t, time) ==
    CASE Carries[t] = "elsewhere" -> "wrong_to"
      [] Sender(t) # "merchant" -> "wrong_from"
      [] Carries[t] = "short" -> "short"
      [] Carries[t] = "over" -> "over"
      [] time >= until[RefundOf(t)] -> "late"
      [] OTHER -> "matched"

Row == [reason : Reasons, height : Heights, fork : 0 .. MaxForks, final : BOOLEAN]
NoRow == [reason |-> "none", height |-> 0, fork |-> 0, final |-> FALSE]

NotAsked == [amount |-> 0, until |-> 0]
Answers == Refunds \cup {"refused"}

Candidate == [phase : {"asking", "final", "gone"}, transfer : Transfers,
              height : Heights, fork : 0 .. MaxForks,
              refund : Refunds, status : Statuses, version : Nat]
Due == [phase : {"overdue", "unsettled"}, refund : Refunds,
        status : Statuses, version : Nat]
NoTask == [phase |-> "idle"]

TypeOK ==
    /\ ChainTypeOK
    /\ now \in 0 .. MaxNow
    /\ by \in [Refunds -> Requests \cup {Nobody}]
    /\ amount \in [Refunds -> Nat]
    /\ until \in [Refunds -> Nat]
    /\ status \in [Refunds -> Statuses]
    /\ version \in [Refunds -> Nat]
    /\ outbox \in [Refunds -> Seq(Ended)]
    /\ row \in [Transfers -> Row]
    /\ cursor \in Block
    /\ sent \in [Requests -> Nat]
    /\ asked \in [Requests -> [amount : Nat, until : Nat]]
    /\ heard \in [Requests -> SUBSET Answers]
    /\ task \in [Workers -> Candidate \cup Due \cup {NoTask}]

Init ==
    /\ ChainInit
    /\ now = 0
    /\ by = [r \in Refunds |-> Nobody]
    /\ amount = [r \in Refunds |-> 0]
    /\ until = [r \in Refunds |-> 0]
    /\ status = [r \in Refunds |-> "none"]
    /\ version = [r \in Refunds |-> 0]
    /\ outbox = [r \in Refunds |-> <<>>]
    /\ row = [t \in Transfers |-> NoRow]
    /\ cursor = BlockAt(1)
    /\ sent = [q \in Requests |-> 0]
    /\ asked = [q \in Requests |-> NotAsked]
    /\ heard = [q \in Requests |-> {}]
    /\ task = [w \in Workers |-> NoTask]

(***************************************************************************)
(* The chain and the clock.                                                *)
(***************************************************************************)
\* A refund's key is on its page from when it is opened.
Opened == {r \in Refunds : status[r] # "none"}

\* The asset's contract takes no authorisation past its own deadline, which is
\* the refund's unless the merchant signed another.
InItsTime(t) == Carries[t] = "later" \/ latest + 1 < until[RefundOf(t)]

ChainMines == /\ \E ts \in SUBSET {t \in Transfers : InItsTime(t)} : Mine(ts, Opened \X Wallets)
              /\ UNCHANGED <<now, refundVars, row, cursor, requestVars, task>>

ChainForks == /\ \E h \in Heights : Reorg(h)
              /\ UNCHANGED <<now, refundVars, row, cursor, requestVars, task>>

ChainFinalizes ==
    /\ Finalize
    /\ UNCHANGED <<now, refundVars, row, cursor, requestVars, task>>

\* The moments the clock is compared with are the deadlines of refunds.
Moments == {until[r] : r \in Opened} \cup {asked[q].until : q \in Requests}

Tick == \E m \in Moments :
            /\ m > now
            /\ m <= MaxNow
            /\ \A n \in Moments : n > now => m <= n
            /\ now' = m
            /\ UNCHANGED <<chainVars, refundVars, row, cursor, requestVars, task>>

(***************************************************************************)
(* Opening a refund.                                                       *)
(***************************************************************************)
PaymentOf(r) == For[by[r]]
RefundsOf(p) == {r \in Opened : PaymentOf(r) = p}

SumOf(amounts, refunds) == MapThenSumSet(LAMBDA r : amounts[r], refunds)
TotalOf(refunds) == SumOf(amount, refunds)

\* refunded: what the refunds of p hold, which is every one but the expired.
HeldOpen(p) ==  \* a mutant: what succeeded is counted no more
    TotalOf({r \in RefundsOf(p) : status[r] \in Open})
Held(p) == TotalOf({r \in RefundsOf(p) : status[r] # "expired"})

\* Refundable: what p has left, read outside any lock.
Left(p) == IF Held(p) > Received[p] THEN 0 ELSE Received[p] - Held(p)

\* asked: the amount the body names, or everything that is left for an empty one.
Wants(q) == IF Asks[q] = 0 THEN Left(For[q]) ELSE Asks[q]

\* The refund a request would open, with its deadline.
NewRefund(wants) == [amount |-> wants, until |-> now + Life]

\* A request is read.  Zero is not a refund.
Ask(q) ==
    /\ asked[q] = NotAsked
    /\ sent[q] < Sends[q]
    /\ sent' = [sent EXCEPT ![q] = @ + 1]
    /\ IF Wants(q) = 0
       THEN /\ heard' = [heard EXCEPT ![q] = @ \cup {"refused"}]
            /\ UNCHANGED asked
       ELSE /\ asked' = [asked EXCEPT ![q] = NewRefund(Wants(q))]
            /\ UNCHANGED heard
    /\ UNCHANGED <<chainVars, now, refundVars, row, cursor, task>>

\* The refund an idempotency key opened.
ByKeyOpen(k) ==  \* a mutant: a refund that ended gives its key back
    {r \in Opened : k # NoKey /\ Under[by[r]] = k /\ status[r] \in Open}
ByKey(k) == {r \in Opened : k # NoKey /\ Under[by[r]] = k}

\* The ceiling under the payment's lock.
FitsRead(q) == TRUE  \* a mutant: what was left was read before the lock
Fits(q) == asked[q].amount <= Received[For[q]] - Held(For[q])

\* opened: the first refund of the key answers the request it was opened by,
\* which names the same payment with the same body.
Repeats(q, first) == PaymentOf(first) = For[q] /\ Asks[by[first]] = Asks[q]

\* The answer is told, or lost on its way.
Answer(q, what) == \/ heard' = [heard EXCEPT ![q] = @ \cup {what}]
                   \/ UNCHANGED heard

\* The ceiling is measured and then the refund inserted, which the index on
\* idempotency keys refuses.
CreateRefund(q) ==
    /\ asked[q] # NotAsked
    /\ now < asked[q].until
    /\ asked' = [asked EXCEPT ![q] = NotAsked]
    /\ \/ /\ ~Fits(q)
          /\ Answer(q, "refused")
          /\ UNCHANGED refundVars
       \/ /\ Fits(q)
          /\ \E first \in ByKey(Under[q]) :
                Answer(q, IF Repeats(q, first) THEN first ELSE "refused")
          /\ UNCHANGED refundVars
       \/ /\ Fits(q)
          /\ ByKey(Under[q]) = {}
          /\ \E r \in Refunds :
                /\ status[r] = "none"
                /\ by' = [by EXCEPT ![r] = q]
                /\ amount' = [amount EXCEPT ![r] = asked[q].amount]
                /\ until' = [until EXCEPT ![r] = asked[q].until]
                /\ status' = [status EXCEPT ![r] = "created"]
                /\ Answer(q, r)
          /\ UNCHANGED <<version, outbox>>
    /\ UNCHANGED <<chainVars, now, row, cursor, sent, task>>

\* A request that does not come back, or a process that stops.
DropRequest(q) ==
    /\ asked[q] # NotAsked
    /\ asked' = [asked EXCEPT ![q] = NotAsked]
    /\ UNCHANGED <<chainVars, now, refundVars, row, cursor, sent, heard, task>>

RowsOf(r) == {t \in Transfers : RefundOf(t) = r}

(***************************************************************************)
(* The observer.                                                           *)
(***************************************************************************)
\* What the blocks first to last carry under the keys of refunds.
Scan(first, last) ==
    [t \in Transfers |->
        IF on[t] \in first .. last
        THEN [reason |-> JudgeRefund(t, on[t]), height |-> on[t],
              fork |-> made[on[t]], final |-> FALSE]
        ELSE NoRow]

\* recordOne: a row is rewritten where it stands, and stays final once it was.
Recorded(s, stamp) ==
    [t \in Transfers |-> IF s[t].reason = "none" THEN row[t]
                         ELSE [s[t] EXCEPT !.final = row[t].final \/ stamp]]

\* vanish: nothing stands on a refund's row, so only the row is marked.
Vanished(rows, lost) ==
    [t \in Transfers |-> IF t \in lost THEN [rows[t] EXCEPT !.reason = "vanished"]
                                       ELSE rows[t]]

Lost(s, first, last) ==
    {t \in Transfers : /\ s[t].reason = "none"
                       /\ row[t].reason \notin {"none", "vanished"}
                       /\ row[t].height \in first .. last}

\* Record and Advance: the blocks after the cursor that the provider calls
\* final, in one transaction, while the chain holds the cursor's block.
ReadBehind ==
    /\ Holds(cursor)
    /\ \E to \in cursor.height + 1 .. IF Overclaims THEN latest ELSE final :
          LET s == Scan(cursor.height + 1, to) IN
          /\ to <= cursor.height + Width
          /\ row' = Vanished(Recorded(s, TRUE), Lost(s, cursor.height + 1, to))
          /\ cursor' = BlockAt(to)
    /\ UNCHANGED <<chainVars, now, refundVars, requestVars, task>>

\* The newest blocks after the cursor's, which moves no position.
ReadAhead ==
    /\ Holds(cursor)
    /\ LET first == IF latest - cursor.height > Width THEN latest - Width + 1
                                                       ELSE cursor.height + 1
       IN row' = Recorded(Scan(first, latest), FALSE)
    /\ UNCHANGED <<chainVars, now, refundVars, cursor, requestVars, task>>

(***************************************************************************)
(* The finality worker.                                                    *)
(***************************************************************************)
Undertake(w, it) ==
    /\ task[w] = NoTask
    /\ task' = [task EXCEPT ![w] = it]
    /\ UNCHANGED <<chainVars, now, refundVars, row, cursor, requestVars>>

\* RefundCandidates: a final matched row of a refund still open.
TakeCandidate(w, t) ==
    LET r == RefundOf(t) IN
    /\ row[t].reason = "matched"
    /\ row[t].final
    /\ status[r] \in Open
    /\ Undertake(w, [phase |-> "asking", transfer |-> t,
                     height |-> row[t].height, fork |-> row[t].fork,
                     refund |-> r, status |-> status[r], version |-> version[r]])

\* OverdueRefunds: the clock has reached the deadline.
TakeOverdue(w, r) ==
    /\ status[r] = "created"
    /\ now >= until[r]
    /\ Undertake(w, [phase |-> "overdue", refund |-> r,
                     status |-> status[r], version |-> version[r]])

\* The network was read past the deadline of r.
ReadPastByClock(r) == now >= until[r]  \* a mutant: the clock stands for the chain
ReadPastAfter(r) == cursor.height > until[r]  \* a mutant: the block after the deadline
ReadPast(r) == cursor.height >= until[r]

\* Nothing of the key is known to have left the wallet the payment was paid to.
Unspent(r) == \A t \in RowsOf(r) : row[t].reason \in {"none", "vanished"}
                                   \/ Sender(t) # "merchant"

TakeUnsettled(w, r) ==
    /\ status[r] = "awaiting_finality"
    /\ ReadPast(r)
    /\ Unspent(r)
    /\ Undertake(w, [phase |-> "unsettled", refund |-> r,
                     status |-> status[r], version |-> version[r]])

\* Enough endpoints say the same of the transfer, and it is one of the two
\* answers that do anything.
Answered(w) ==
    LET c == task[w] IN
    /\ c.phase = "asking"
    /\ c.height <= final
    /\ \/ /\ on[c.transfer] = 0
          /\ task' = [task EXCEPT ![w].phase = "gone"]
       \/ /\ on[c.transfer] = c.height
          /\ made[c.height] = c.fork
          /\ task' = [task EXCEPT ![w].phase = "final"]
    /\ UNCHANGED <<chainVars, now, refundVars, row, cursor, requestVars>>

\* SaveRefund compares the version the refund was read at.
Unmoved(c) == version[c.refund] = c.version

\* AnnounceRefund: an end of a refund is told, and nothing before it.
Announced(events, want) == IF want \in Ended THEN Append(events, want) ELSE events

\* returned: the move and, when it ends the refund, the event that says so.
Save(w, want) ==
    LET c == task[w] IN
    /\ CanBecome(c.status, want)
    /\ Unmoved(c)
    /\ status' = [status EXCEPT ![c.refund] = want]
    /\ version' = [version EXCEPT ![c.refund] = @ + 1]
    /\ outbox' = [outbox EXCEPT ![c.refund] = Announced(@, want)]
    /\ task' = [task EXCEPT ![w] = NoTask]
    /\ UNCHANGED <<chainVars, now, by, amount, until, row, cursor, requestVars>>

Settle(w) == task[w].phase = "final" /\ Save(w, "succeeded")
AwaitFinality(w) == task[w].phase = "overdue" /\ Save(w, "awaiting_finality")
Expire(w) == task[w].phase = "unsettled" /\ Save(w, "expired")

\* Vanish names the row by its transfer, whatever block it is recorded in.
GiveUp(w) ==
    /\ task[w].phase = "gone"
    /\ row' = Vanished(row, {task[w].transfer})
    /\ task' = [task EXCEPT ![w] = NoTask]
    /\ UNCHANGED <<chainVars, now, refundVars, cursor, requestVars>>

\* No answer to act on, a refund that moved since it was read, or a process
\* that stops.
PassOver(w) ==
    /\ task[w] # NoTask
    /\ task' = [task EXCEPT ![w] = NoTask]
    /\ UNCHANGED <<chainVars, now, refundVars, row, cursor, requestVars>>

(***************************************************************************)
ObserverStep == ReadBehind \/ ReadAhead

WorkerStep(w) == \/ \E t \in Transfers : TakeCandidate(w, t)
                 \/ \E r \in Refunds : TakeOverdue(w, r) \/ TakeUnsettled(w, r)
                 \/ Answered(w)
                 \/ Settle(w)
                 \/ AwaitFinality(w)
                 \/ Expire(w)
                 \/ GiveUp(w)

Next == \/ ChainMines
        \/ ChainForks
        \/ ChainFinalizes
        \/ Tick
        \/ \E q \in Requests : Ask(q) \/ CreateRefund(q) \/ DropRequest(q)
        \/ ObserverStep
        \/ \E w \in Workers : WorkerStep(w) \/ PassOver(w)

Spec == Init /\ [][Next]_vars

(***************************************************************************)
(* Properties.                                                             *)
(***************************************************************************)
\* A transfer of the key of r left the merchant's wallet before the deadline.
SpentInTime(r) == \E t \in RowsOf(r) : /\ Sender(t) = "merchant"
                                       /\ on[t] \in 1 .. until[r] - 1

\* Nothing a provider called final has been replaced.
Grounded == Holds(cursor)

\* What refunds of a payment hold, and what expired ones have sent after all,
\* is never more than the payment received: not when requests race past the
\* balance they read, and not when one expires and its amount is refunded
\* again (CreateRefund, UnsettledRefunds).
WithinCeiling ==
    Grounded => \A p \in Payments :
        TotalOf({r \in RefundsOf(p) : status[r] # "expired" \/ SpentInTime(r)})
            <= Received[p]

\* A refund is called succeeded only when the final part of the chain carries
\* its amount, out of the right wallet, to the right one and in time (settle,
\* RefundCandidates, JudgeRefund).
SucceededIsSent ==
    \A r \in Refunds : status[r] = "succeeded" =>
        \E t \in RowsOf(r) : /\ Sender(t) = "merchant"
                             /\ Carries[t] \in {"exact", "later"}
                             /\ on[t] \in 1 .. final
                             /\ on[t] < until[r]

\* Whatever the provider calls final and however late workers write, what a refund says of
\* itself is true (SaveRefund, JudgeRefund).
RefundsHold == TypeOK /\ SucceededIsSent

\* A refund that expired is one whose key the merchant's wallet did not spend
\* before the deadline, in any block of the chain and whatever that carried
\* (UnsettledRefunds reads the cursor's block and every row of the key).
ExpiredIsUnspent ==
    Grounded => \A r \in Refunds : status[r] = "expired" => ~SpentInTime(r)

\* An idempotency key opens one refund, and the sender of a request is answered
\* with no refund but one of the payment it named, of the amount it asked for
\* and under its key, however requests race, are repeated or lose their answer
\* (CreateRefund, opened).
AnsweredWithItsOwn ==
    /\ \A r, s \in Opened : r # s => Under[by[r]] # Under[by[s]] \/ Under[by[r]] = NoKey
    /\ \A q \in Requests : \A r \in heard[q] \ {"refused"} :
          /\ PaymentOf(r) = For[q]
          /\ Under[by[r]] = Under[q]
          /\ Asks[q] # 0 => amount[r] = Asks[q]

\* A refund that ended is never moved again, and the end is told once, as the
\* one it was: a settling and an expiry of one refund do not both get through
\* (SaveRefund).
EndsOnce ==
    [][\A r \in Refunds :
            /\ status[r] \in Ended => status'[r] = status[r]
            /\ outbox'[r] = IF status'[r] \in Ended THEN <<status'[r]>> ELSE <<>>]_vars

\* What the refunds are to a merchant: an account of what each payment has left,
\* in which opening a refund under its key, moving it, giving its amount back and
\* telling of its end are single steps, however many requests and workers race
\* (CreateRefund, SaveRefund and UnsettledRefunds against Returns).
Account == [p \in Payments |-> Received[p] - Held(p)]
OpenedOf == [r \in Refunds |-> IF by[r] = Nobody THEN Nobody ELSE PaymentOf(r)]
OpenedUnder == [r \in Refunds |-> IF by[r] = Nobody THEN NoKey ELSE Under[by[r]]]
Promised == INSTANCE Returns WITH
                left <- Account, of <- OpenedOf, key <- OpenedUnder, told <- outbox,
                Keys <- {Under[q] : q \in Requests}
KeepsAccount == Promised!Spec

(***************************************************************************)
(* Liveness, under the fairness of Settlement.                             *)
(***************************************************************************)
Calm == \A w \in Workers : PassOver(w) /\ ~WorkerStep(w) => ~ENABLED WorkerStep(w)

FairSpec ==
    /\ Spec
    /\ <>[][Calm]_vars
    /\ WF_vars(ChainMines) /\ WF_vars(ChainFinalizes) /\ WF_vars(Tick)
    /\ WF_vars(ReadBehind)
    /\ \A w \in Workers : WF_vars(WorkerStep(w) \/ PassOver(w))

\* A transfer left the merchant's wallet under the key of r without being what
\* r asks for: the amount stays held, so that it cannot go out twice.
HeldForGood(r) == \E t \in RowsOf(r) : /\ Sender(t) = "merchant"
                                       /\ row[t].reason \notin {"none", "matched", "vanished"}

\* The bounded clock and chain get to the deadline of r.
Reached(r) == until[r] <= MaxNow /\ until[r] <= MaxHeight

\* A refund does not hold its amount for ever: it ends, unless a transfer that
\* is not it was made with its key (OverdueRefunds, UnsettledRefunds).
RefundEnds ==
    \A r \in Refunds :
        (status[r] = "created" /\ Reached(r)) ~> (status[r] \in Ended \/ HeldForGood(r))

\* A transfer of a refund that is what it asks for, in time and in a final
\* block, settles it, whatever deadline of its own it was signed with.
SentSettles ==
    \A t \in Transfers :
        ( /\ Sender(t) = "merchant"
          /\ Carries[t] \in {"exact", "later"}
          /\ on[t] \in 1 .. final
          /\ on[t] < until[RefundOf(t)] )
        ~> status[RefundOf(t)] = "succeeded"

\* A refund comes to its end, by its transfer when there is one, as long as what was read
\* as final stays.
RefundsEnd == []Grounded => RefundEnds /\ SentSettles

=======================================================================
