-------------------------- MODULE Settlement --------------------------
(***************************************************************************)
(* How a payment of one network comes to be settled: the payer's page hands *)
(* out attempts (payment/service.go), the observer reads the chain into     *)
(* rows (observe/observer.go), the store moves attempts and payments with   *)
(* the rows (payment/postgres.go), and the finality worker asks endpoints   *)
(* about the final ones and settles, gives up or expires                    *)
(* (finality/worker.go).                                                    *)
(*                                                                          *)
(* Every transaction of the store is one step.  What a process read before  *)
(* it wrote is kept in its round or task, so that anything may happen in    *)
(* between; the versions the store compares are the ones the rows carry.    *)
(***************************************************************************)
EXTENDS Chain, Payment, Integers, Sequences

CONSTANTS Payments,     \* the payments of the network
          PaymentOf,    \* the payment an attempt is against
          Deadline,     \* when a payment stops being payable
          Kind,         \* what a transfer carries
          Observers,    \* observers reading the network, one but for a lease that ran out
          Workers,      \* tasks of finality workers in hand at once
          Width,        \* blocks one round reads
          MinRemaining, \* what is left before the deadline for an attempt to be issued
          MaxAttempts,  \* attempts a payment can have
          Overclaims,   \* an observer's provider may call final what is not
          MaxSets       \* times an operator puts the cursor somewhere

ASSUME PaymentAssumptions ==
    /\ PaymentOf \in [Attempts -> Payments]
    /\ Deadline \in [Payments -> Nat \ {0}]
    /\ Kind \in [Transfers -> Kinds]
ASSUME RoundAssumptions ==
    /\ Width \in Nat \ {0}
    /\ MinRemaining \in Nat
    /\ MaxAttempts \in Nat
    /\ Overclaims \in BOOLEAN
    /\ MaxSets \in Nat

VARIABLES now,          \* the clock of the deployment
          status,       \* payments.status
          received,     \* payments.received
          version,      \* payments.version
          attempt,      \* attempts.status
          revision,     \* attempts.revision
          row,          \* observations, one row to a transfer
          cursor,       \* observation_cursors
          outbox,       \* the events of a payment, in the order they were written
          round,        \* what an observer holds of its round
          task,         \* what a worker holds of a payment it read
          moving,       \* the height an operator asked for and had checked, or 0
          sets          \* cursors put so far

ledger == <<status, received, version, attempt, revision, row, outbox>>
vars == <<chainVars, now, ledger, cursor, round, task, moving, sets>>

PaidBy(t) == PaymentOf[KeyOf[t]]
Handed == {a \in Attempts : attempt[a] \in Live \cup {"superseded"}}

Row == [reason : Reasons, height : Heights, fork : 0 .. MaxForks, final : BOOLEAN]
NoRow == [reason |-> "none", height |-> 0, fork |-> 0, final |-> FALSE]

\* One transfer of a scan: where it was, what Judge made of it, and the attempt
\* as it was read.
Sight == [reason : Reasons, height : Heights, fork : 0 .. MaxForks,
          issued : BOOLEAN, revision : Nat]
Unseen == [reason |-> "none", height |-> 0, fork |-> 0, issued |-> FALSE, revision |-> 0]
NothingSeen == [t \in Transfers |-> Unseen]

Round == [phase : {"idle", "behind", "found", "ahead", "spied"},
          head : Block, latest : Heights, from : Block, to : Block,
          seen : [Transfers -> Sight]]
NoRound == [phase |-> "idle", head |-> Nowhere, latest |-> 0,
            from |-> Nowhere, to |-> Nowhere, seen |-> NothingSeen]

Candidate == [phase : {"asking", "final", "gone"}, transfer : Transfers,
              height : Heights, fork : 0 .. MaxForks,
              status : Statuses, received : Amounts, version : Nat]
Due == [phase : {"overdue", "unsettled"}, payment : Payments,
        status : Statuses, version : Nat]
NoTask == [phase |-> "idle"]
Tasks == Candidate \cup Due \cup {NoTask}

Events == {"awaiting_payment", "confirming", "awaiting_finality", "succeeded", "expired"}

TypeOK ==
    /\ ChainTypeOK
    /\ now \in Nat
    /\ status \in [Payments -> Statuses]
    /\ received \in [Payments -> Amounts]
    /\ version \in [Payments -> Nat]
    /\ attempt \in [Attempts -> AttemptStatuses]
    /\ revision \in [Attempts -> Nat]
    /\ row \in [Transfers -> Row]
    /\ cursor \in Block
    /\ outbox \in [Payments -> Seq(Events)]
    /\ round \in [Observers -> Round]
    /\ task \in [Workers -> Tasks]
    /\ moving \in Heights
    /\ sets \in 0 .. MaxSets

Init ==
    /\ ChainInit
    /\ now = 0
    /\ status = [p \in Payments |-> "created"]
    /\ received = [p \in Payments |-> "nothing"]
    /\ version = [p \in Payments |-> 0]
    /\ attempt = [a \in Attempts |-> "none"]
    /\ revision = [a \in Attempts |-> 0]
    /\ row = [t \in Transfers |-> NoRow]
    /\ cursor = Nowhere
    /\ outbox = [p \in Payments |-> <<>>]
    /\ round = [o \in Observers |-> NoRound]
    /\ task = [w \in Workers |-> NoTask]
    /\ moving = 0
    /\ sets = 0

(***************************************************************************)
(* The chain and the clock.                                                *)
(***************************************************************************)
ChainMines == /\ \E ts \in SUBSET Transfers : Mine(ts, Handed)
              /\ UNCHANGED <<now, ledger, cursor, round, task, moving, sets>>

ChainForks == /\ \E h \in Heights : Reorg(h)
              /\ UNCHANGED <<now, ledger, cursor, round, task, moving, sets>>

ChainFinalizes ==
    /\ Finalize
    /\ UNCHANGED <<now, ledger, cursor, round, task, moving, sets>>

\* The moments the clock is compared with: the first too late to issue an
\* attempt, and the deadline.  It moves from one to the next.
Moments == UNION {{Deadline[p] + 1 - MinRemaining, Deadline[p]} : p \in Payments}

Tick == \E m \in Moments :
            /\ m > now
            /\ \A n \in Moments : n > now => m <= n
            /\ now' = m
            /\ UNCHANGED <<chainVars, ledger, cursor, round, task, moving, sets>>

(***************************************************************************)
(* The payer's page.                                                       *)
(***************************************************************************)
AttemptsOf(p) == {a \in Attempts : PaymentOf[a] = p}
Stored(p) == {a \in AttemptsOf(p) : attempt[a] \in Live \cup {"superseded"}}
LiveOf(p) == {a \in AttemptsOf(p) : attempt[a] \in Live}

\* Payment p is at the version it was read at.
Unmoved(p, at) == version[p] = at

\* A move of payment p is saved with the event that says so.
SaveMove(p, at, want) ==
    /\ Unmoved(p, at)
    /\ status' = [status EXCEPT ![p] = want]
    /\ version' = [version EXCEPT ![p] = at + 1]
    /\ outbox' = [outbox EXCEPT ![p] = Append(@, want)]
    /\ UNCHANGED <<received, attempt, revision, row>>

Await(p) == /\ CanBecome(status[p], "awaiting_payment")
            /\ SaveMove(p, version[p], "awaiting_payment")
            /\ UNCHANGED <<chainVars, now, cursor, round, task, moving, sets>>

\* What Issue reads before it stores the attempt.
MintAttempt(a) ==
    LET p == PaymentOf[a] IN
    /\ attempt[a] = "none"
    /\ status[p] = "awaiting_payment"
    /\ LiveOf(p) = {}
    /\ cursor # Nowhere
    /\ now + MinRemaining <= Deadline[p]
    /\ attempt' = [attempt EXCEPT ![a] = "minted"]
    /\ UNCHANGED <<chainVars, now, status, received, version, revision, row, outbox,
                   cursor, round, task, moving, sets>>

\* The insert, which one live attempt to a payment refuses.
StoreAttempt(a) ==
    /\ attempt[a] = "minted"
    /\ attempt' = [attempt EXCEPT ![a] = IF LiveOf(PaymentOf[a]) = {} THEN "issued"
                                                                     ELSE "none"]
    /\ UNCHANGED <<chainVars, now, status, received, version, revision, row, outbox,
                   cursor, round, task, moving, sets>>

Supersede(a) ==
    LET p == PaymentOf[a] IN
    /\ status[p] = "awaiting_payment"
    /\ attempt[a] = "issued"
    /\ Cardinality(Stored(p)) < MaxAttempts
    /\ attempt' = [attempt EXCEPT ![a] = "superseded"]
    /\ revision' = [revision EXCEPT ![a] = @ + 1]
    /\ UNCHANGED <<chainVars, now, status, received, version, row, outbox,
                   cursor, round, task, moving, sets>>

(***************************************************************************)
(* What the store does with what a round saw.                              *)
(***************************************************************************)
Seen(s) == {t \in Transfers : s[t].reason # "none"}

\* A mutant: a row is stamped final only when it is first written.
RecordedOnce(s, stamp) ==
    [t \in Transfers |->
        IF t \in Seen(s)
        THEN [reason |-> s[t].reason, height |-> s[t].height, fork |-> s[t].fork,
              final |-> row[t].final \/ (stamp /\ row[t].reason = "none")]
        ELSE row[t]]

\* recordOne: a row is rewritten where it stands, and stays final once it was.
Recorded(s, stamp) ==
    [t \in Transfers |->
        IF t \in Seen(s)
        THEN [reason |-> s[t].reason, height |-> s[t].height, fork |-> s[t].fork,
              final |-> row[t].final \/ stamp]
        ELSE row[t]]

\* What was recorded in the blocks first to last and was not seen there now.
LostAfterFirst(s, first, last) ==  \* a mutant: the first block is left out
    {t \in Transfers \ Seen(s) : /\ row[t].reason \notin {"none", "vanished"}
                                 /\ row[t].height \in first + 1 .. last}

Lost(s, first, last) ==
    {t \in Transfers \ Seen(s) : /\ row[t].reason \notin {"none", "vanished"}
                                 /\ row[t].height \in first .. last}

Vanished(rows, lost) ==
    [t \in Transfers |-> IF t \in lost THEN [rows[t] EXCEPT !.reason = "vanished"]
                                       ELSE rows[t]]

\* unconfirm: the attempts the lost rows take back to issued.
Unconfirmed(rows, lost) ==
    {a \in Attempts : /\ \E t \in lost : KeyOf[t] = a
                      /\ attempt[a] = "confirming"
                      /\ \A t \in Transfers : KeyOf[t] = a => rows[t].reason # "matched"}

\* Mutants of unreceive: nothing is counted before; only a payable payment.
UnreceivedUncounted(rows, lost) ==
    {p \in Payments : /\ \E t \in lost : PaidBy(t) = p
                      /\ CanReceive(status[p])
                      /\ received[p] # "nothing"}

\* unreceive: the payments the lost rows take what arrived back from.
Unreceived(rows, lost) ==
    {p \in Payments : /\ \E t \in lost : PaidBy(t) = p
                      /\ CanReceive(status[p])
                      /\ received[p] # "nothing"
                      /\ \A t \in Transfers :
                            PaidBy(t) = p => rows[t].reason \notin {"matched", "short"}}

\* arrived: the transfers that put something on payment p, and the earliest of
\* them, which does.
Arrivals(s, p) == {t \in Seen(s) : /\ PaidBy(t) = p
                                   /\ s[t].reason \in {"matched", "short"}
                                   /\ Kind[t] # "unreadable"}
Earliest(s, p) == {t \in Arrivals(s, p) :
                      \A u \in Arrivals(s, p) : s[t].height <= s[u].height}
CreditedWhatever(s, emptied) ==  \* a mutant: the status is not looked at
    {p \in Payments : /\ Arrivals(s, p) # {}
                      /\ received[p] = "nothing" \/ p \in emptied}
Credited(s, emptied) ==
    {p \in Payments : /\ Arrivals(s, p) # {}
                      /\ CanReceive(status[p])
                      /\ received[p] = "nothing" \/ p \in emptied}

\* The transfers whose attempt this round confirms.
Confirming(s) == {t \in Seen(s) : s[t].reason = "matched" /\ s[t].issued}

\* Every attempt to be confirmed is at the revision the round read, and is not
\* one the round itself has just taken back.
Fresh(s, freed) == \A t \in Confirming(s) : /\ KeyOf[t] \notin freed
                                            /\ revision[KeyOf[t]] = s[t].revision

\* AnnounceConfirming: one event for each attempt of p the round confirms.
Announced(s, p) ==
    [i \in 1 .. Cardinality({t \in Confirming(s) : PaidBy(t) = p}) |-> "confirming"]

One(condition) == IF condition THEN 1 ELSE 0

\* Record: the rows, then what vanished, then what arrived, then the attempts.
Record(s, stamp, lost) ==
    LET rows    == Vanished(Recorded(s, stamp), lost)
        freed   == Unconfirmed(rows, lost)
        emptied == Unreceived(rows, lost)
        filled  == Credited(s, emptied)
        taken   == {KeyOf[t] : t \in Confirming(s)}
    IN /\ Fresh(s, freed)
       /\ row' = rows
       /\ received' \in [Payments -> Amounts]
       /\ \A p \in Payments :
             received'[p] \in IF p \in filled THEN {Kind[t] : t \in Earliest(s, p)}
                              ELSE IF p \in emptied THEN {"nothing"}
                              ELSE {received[p]}
       /\ version' = [p \in Payments |->
                         version[p] + One(p \in emptied) + One(p \in filled)]
       /\ attempt' = [a \in Attempts |-> IF a \in taken THEN "confirming"
                                         ELSE IF a \in freed THEN "issued"
                                         ELSE attempt[a]]
       /\ revision' = [a \in Attempts |-> revision[a] + One(a \in taken \cup freed)]
       /\ outbox' = [p \in Payments |-> outbox[p] \o Announced(s, p)]
       /\ UNCHANGED status

(***************************************************************************)
(* The observer's round.                                                   *)
(***************************************************************************)
\* The blocks a provider may call final.
Claims == 1 .. IF Overclaims THEN latest ELSE final

\* The first round puts the cursor at the final block and reads nothing.
StartCursor(o) ==
    /\ round[o].phase = "idle"
    /\ cursor = Nowhere
    /\ \E f \in Claims : cursor' = BlockAt(f)
    /\ UNCHANGED <<chainVars, now, ledger, round, task, moving, sets>>

\* Where the chain stands and where the cursor is.  A provider that is behind
\* the cursor, or a chain that no longer holds its block, is a round that ends.
Begin(o) ==
    /\ round[o].phase = "idle"
    /\ cursor # Nowhere
    /\ Holds(cursor)
    /\ \E f \in {c \in Claims : c >= cursor.height} :
          round' = [round EXCEPT ![o] =
                      [NoRound EXCEPT !.phase = IF f > cursor.height THEN "behind" ELSE "ahead",
                                      !.head = BlockAt(f), !.latest = latest,
                                      !.from = IF f > cursor.height THEN cursor ELSE Nowhere]]
    /\ UNCHANGED <<chainVars, now, ledger, cursor, task, moving, sets>>

\* What the blocks first to last carry, judged against what the store holds now.
Scan(first, last) ==
    [t \in Transfers |->
        IF on[t] \in first .. last
        THEN [reason |-> Judge(Kind[t], on[t], Deadline[PaidBy(t)], status[PaidBy(t)]),
              height |-> on[t], fork |-> made[on[t]],
              issued |-> attempt[KeyOf[t]] = "issued", revision |-> revision[KeyOf[t]]]
        ELSE Unseen]

\* at: the final block, or the one at the height the width cuts the range short at.
Position(r, last) == IF last = r.head.height THEN r.head ELSE BlockAt(last)

ScanBehind(o) ==
    LET r    == round[o]
        last == IF r.head.height > r.from.height + Width THEN r.from.height + Width
                                                          ELSE r.head.height
    IN /\ r.phase = "behind"
       /\ last <= latest
       /\ round' = [round EXCEPT ![o] =
             [r EXCEPT !.phase = "found",
                       !.to = Position(r, last),
                       !.seen = Scan(r.from.height + 1, last)]]
       /\ UNCHANGED <<chainVars, now, ledger, cursor, task, moving, sets>>

\* What was found and the position it was read to, in one transaction.
WriteBehind(o) ==
    LET r == round[o] IN
    /\ r.phase = "found"
    /\ cursor = r.from
    /\ Record(r.seen, TRUE, Lost(r.seen, r.from.height + 1, r.to.height))
    /\ cursor' = r.to
    /\ round' = [round EXCEPT ![o] = [NoRound EXCEPT !.phase = "ahead",
                                                     !.head = r.head, !.latest = r.latest]]
    /\ UNCHANGED <<chainVars, now, task, moving, sets>>

\* The newest blocks after the final one, at most a round's width of them.
FirstAheadFinal(r) ==  \* a mutant: the final block is read again
    IF r.latest - r.head.height > Width THEN r.latest - Width + 1 ELSE r.head.height
FirstAhead(r) ==
    IF r.latest - r.head.height > Width THEN r.latest - Width + 1 ELSE r.head.height + 1

ScanAhead(o) ==
    LET r    == round[o]
        seen == Scan(FirstAhead(r), r.latest)
    IN /\ r.phase = "ahead"
       /\ round' = [round EXCEPT ![o] = IF Seen(seen) = {} THEN NoRound
                                        ELSE [NoRound EXCEPT !.phase = "spied", !.seen = seen]]
       /\ UNCHANGED <<chainVars, now, ledger, cursor, task, moving, sets>>

WriteAhead(o) ==
    /\ round[o].phase = "spied"
    /\ Record(round[o].seen, FALSE, {})
    /\ round' = [round EXCEPT ![o] = NoRound]
    /\ UNCHANGED <<chainVars, now, cursor, task, moving, sets>>

\* A provider that does not answer, a write that lost a race, a process that
\* stops: the round wrote nothing and the next one starts over.
LoseRound(o) ==
    /\ round[o].phase # "idle"
    /\ round' = [round EXCEPT ![o] = NoRound]
    /\ UNCHANGED <<chainVars, now, ledger, cursor, task, moving, sets>>

(***************************************************************************)
(* The finality worker's round.                                            *)
(***************************************************************************)
Undertake(w, it) ==
    /\ task[w] = NoTask
    /\ task' = [task EXCEPT ![w] = it]
    /\ UNCHANGED <<chainVars, now, ledger, cursor, round, moving, sets>>

\* Candidates: a final matched row of a payment still open.
TakeCandidate(w, t) ==
    LET p == PaidBy(t) IN
    /\ row[t].reason = "matched"
    /\ row[t].final
    /\ CanReceive(status[p])
    /\ Undertake(w, [phase |-> "asking", transfer |-> t,
                     height |-> row[t].height, fork |-> row[t].fork,
                     status |-> status[p], received |-> received[p],
                     version |-> version[p]])

TakeOverdue(w, p) ==
    /\ status[p] = "awaiting_payment"
    /\ now >= Deadline[p]
    /\ Undertake(w, [phase |-> "overdue", payment |-> p,
                     status |-> status[p], version |-> version[p]])

\* The network was read past the deadline of p.
ReadPastByClock(p) == now >= Deadline[p]  \* a mutant: the clock stands for the chain
ReadPast(p) == cursor.height >= Deadline[p]

\* No transfer may yet pay p.
UnmatchedAndShort(p) ==  \* a mutant: a short one holds the payment open
    \A t \in Transfers : PaidBy(t) = p => row[t].reason \notin {"matched", "short"}
Unmatched(p) == \A t \in Transfers : PaidBy(t) = p => row[t].reason # "matched"

TakeUnsettled(w, p) ==
    /\ status[p] = "awaiting_finality"
    /\ ReadPast(p)
    /\ Unmatched(p)
    /\ Undertake(w, [phase |-> "unsettled", payment |-> p,
                     status |-> status[p], version |-> version[p]])

\* The transfer a worker asks about is carried where it was recorded.
CarriedSomewhere(c) == on[c.transfer] > 0  \* a mutant: another block is as good
CarriedThere(c) == on[c.transfer] = c.height /\ made[c.height] = c.fork

\* Enough endpoints say the same of the transfer, and it is one of the two
\* answers that do anything.
Answered(w) ==
    LET c == task[w] IN
    /\ c.phase = "asking"
    /\ c.height <= final
    /\ \/ /\ on[c.transfer] = 0
          /\ task' = [task EXCEPT ![w].phase = "gone"]
       \/ /\ CarriedThere(c)
          /\ task' = [task EXCEPT ![w].phase = "final"]
    /\ UNCHANGED <<chainVars, now, ledger, cursor, round, moving, sets>>

Pay(w) ==
    LET c == task[w] IN
    /\ c.phase = "final"
    /\ CanBecome(c.status, "succeeded")
    /\ c.received = "full"
    /\ SaveMove(PaidBy(c.transfer), c.version, "succeeded")
    /\ task' = [task EXCEPT ![w] = NoTask]
    /\ UNCHANGED <<chainVars, now, cursor, round, moving, sets>>

\* The row is named by its transfer, whatever block it is recorded in by now.
GiveUp(w) ==
    LET t       == task[w].transfer
        rows    == Vanished(row, {t})
        freed   == Unconfirmed(rows, {t})
        emptied == Unreceived(rows, {t})
    IN /\ task[w].phase = "gone"
       /\ row[t].reason # "vanished"
       /\ row' = rows
       /\ attempt' = [a \in Attempts |-> IF a \in freed THEN "issued" ELSE attempt[a]]
       /\ revision' = [a \in Attempts |-> revision[a] + One(a \in freed)]
       /\ received' = [p \in Payments |-> IF p \in emptied THEN "nothing" ELSE received[p]]
       /\ version' = [p \in Payments |-> version[p] + One(p \in emptied)]
       /\ task' = [task EXCEPT ![w] = NoTask]
       /\ UNCHANGED <<chainVars, now, status, outbox, cursor, round, moving, sets>>

CloseToPayment(w) ==
    /\ task[w].phase = "overdue"
    /\ CanBecome(task[w].status, "awaiting_finality")
    /\ SaveMove(task[w].payment, task[w].version, "awaiting_finality")
    /\ task' = [task EXCEPT ![w] = NoTask]
    /\ UNCHANGED <<chainVars, now, cursor, round, moving, sets>>

Expire(w) ==
    /\ task[w].phase = "unsettled"
    /\ CanBecome(task[w].status, "expired")
    /\ SaveMove(task[w].payment, task[w].version, "expired")
    /\ task' = [task EXCEPT ![w] = NoTask]
    /\ UNCHANGED <<chainVars, now, cursor, round, moving, sets>>

\* No answer to act on, a payment that moved since it was read, one that says
\* less arrived than it asked for, or a process that stops.
PassOver(w) ==
    /\ task[w].phase # "idle"
    /\ task' = [task EXCEPT ![w] = NoTask]
    /\ UNCHANGED <<chainVars, now, ledger, cursor, round, moving, sets>>

(***************************************************************************)
(* The operator's `network cursor`.                                        *)
(***************************************************************************)
\* The payments a range nobody reads may have settled.
Open == {p \in Payments : CanReceive(status[p])}

\* Forward, or with no cursor yet, only while nothing is open.
CheckCursor(h) ==
    /\ moving = 0
    /\ sets < MaxSets
    /\ cursor = Nowhere \/ h > cursor.height => Open = {}
    /\ moving' = h
    /\ sets' = sets + 1
    /\ UNCHANGED <<chainVars, now, ledger, cursor, round, task>>

\* A height the chain has not got is an error, and the cursor stays.
PutCursor ==
    /\ moving > 0
    /\ cursor' = IF moving <= latest THEN BlockAt(moving) ELSE cursor
    /\ moving' = 0
    /\ UNCHANGED <<chainVars, now, ledger, round, task, sets>>

(***************************************************************************)
ObserverStep(o) == \/ StartCursor(o)
                   \/ Begin(o)
                   \/ ScanBehind(o)
                   \/ WriteBehind(o)
                   \/ ScanAhead(o)
                   \/ WriteAhead(o)

WorkerStep(w) == \/ \E t \in Transfers : TakeCandidate(w, t)
                 \/ \E p \in Payments : TakeOverdue(w, p) \/ TakeUnsettled(w, p)
                 \/ Answered(w)
                 \/ Pay(w)
                 \/ GiveUp(w)
                 \/ CloseToPayment(w)
                 \/ Expire(w)

Next == \/ ChainMines
        \/ ChainForks
        \/ ChainFinalizes
        \/ Tick
        \/ \E p \in Payments : Await(p)
        \/ \E a \in Attempts : MintAttempt(a) \/ StoreAttempt(a) \/ Supersede(a)
        \/ \E o \in Observers : ObserverStep(o) \/ LoseRound(o)
        \/ \E w \in Workers : WorkerStep(w) \/ PassOver(w)
        \/ \E h \in Heights \ {0} : CheckCursor(h)
        \/ PutCursor

Spec == Init /\ [][Next]_vars

(***************************************************************************)
(* Properties.                                                             *)
(***************************************************************************)
\* A payment is called succeeded only when the final part of the chain carries
\* a transfer to it that was enough and in time, whatever observers, workers,
\* pages and an operator did in whatever order (Succeed, Candidates, Ask).
SucceededIsPaid ==
    \A p \in Payments : status[p] = "succeeded" =>
        /\ received[p] = "full"
        /\ \E t \in Transfers : /\ PaidBy(t) = p
                                /\ Kind[t] = "full"
                                /\ on[t] \in 1 .. final
                                /\ on[t] < Deadline[p]

\* A payment that is closed keeps its status and what it says arrived: no stale
\* task, late row or vanished row moves it again (moveTo, Unreceive, Save).
ClosedStays ==
    [][\A p \in Payments : status[p] \in Closed =>
            status'[p] = status[p] /\ received'[p] = received[p]]_vars

\* A payment that expired is one nobody paid in time, on any block of the chain
\* (Unsettled reads the cursor's block, not the clock).
ExpiredIsUnpaid ==
    \A p \in Payments : status[p] = "expired" =>
        \A t \in Transfers :
            PaidBy(t) = p /\ Kind[t] = "full" => on[t] \notin 1 .. Deadline[p] - 1

\* What an open payment says arrived stands on a row that has not vanished
\* (arrived and unreceive take turns over many rounds and reorganisations).
ArrivalIsEvidenced ==
    \A p \in Payments : CanReceive(status[p]) /\ received[p] # "nothing" =>
        \E t \in Transfers : /\ PaidBy(t) = p
                             /\ row[t].reason \in {"matched", "short", "late"}

\* A row that pays an open payment, or pays some of it, is never one the
\* payment says nothing of.
EvidenceArrived ==
    \A t \in Transfers :
        /\ row[t].reason \in {"matched", "short"}
        /\ Kind[t] # "unreadable"
        /\ CanReceive(status[PaidBy(t)])
        => received[PaidBy(t)] # "nothing"

\* What a payment says arrived and what the rows hold for it agree, both ways.
BooksBalance == ArrivalIsEvidenced /\ EvidenceArrived

\* An attempt is confirming because of a transfer of its key that is on record,
\* and an attempt a transfer matched is not one the payer can have replaced.
AttemptFollowsRow ==
    \A a \in Attempts :
        /\ attempt[a] = "confirming" =>
              \E t \in Transfers : KeyOf[t] = a /\ row[t].reason \in {"matched", "late"}
        /\ attempt[a] = "issued" =>
              \A t \in Transfers : KeyOf[t] = a => row[t].reason # "matched"

\* Below the cursor the rows are the chain: every transfer carried there is on
\* record in its block, and nothing else is (Record and Advance in one
\* transaction, vanish for what was replaced).
BelowCursorIsTheChain ==
    \A t \in Transfers :
        /\ on[t] \in 1 .. cursor.height =>
              /\ row[t].reason \notin {"none", "vanished"}
              /\ row[t].height = on[t]
              /\ row[t].fork = made[on[t]]
              /\ row[t].final
        /\ row[t].reason \notin {"none", "vanished"} /\ row[t].height <= cursor.height =>
              on[t] = row[t].height

\* A succeeded payment keeps the transfer that paid it: the one a merchant is
\* answered with and a refund is sent back to (MatchedTransfer).
SucceededKeepsItsTransfer ==
    \A p \in Payments : status[p] = "succeeded" =>
        \E t \in Transfers : PaidBy(t) = p /\ row[t].reason = "matched"

\* With one reader that nobody misleads and no operator, rows, attempts and payments
\* follow the chain, whatever order transfers came, went and came again in.
LedgerIsTheChain == /\ BelowCursorIsTheChain
                    /\ SucceededKeepsItsTransfer
                    /\ AttemptFollowsRow
                    /\ BooksBalance

\* What was recorded from final blocks and is still there is never written
\* over: not by a later round, nor by one that began before
\* (Advance compares the cursor so that two rounds do not overwrite each other).
FinalRowStays ==
    [][\A t \in Transfers :
            /\ row[t].final
            /\ row[t].reason \notin {"none", "vanished"}
            /\ on[t] = row[t].height
            => row'[t] = row[t]]_vars

\* Whatever observers and workers do, and whatever endpoints make of the chain, a payment
\* does what its merchant is promised: a task that read it before it changed does not
\* move it, and what is found late changes nothing of one that is closed (SaveMove, Record,
\* GiveUp against Lifecycle).
Promised == INSTANCE Lifecycle WITH told <- outbox
KeepsPromise == Promised!Spec

(***************************************************************************)
(* Liveness.  Blocks are made and become final and the clock runs; an       *)
(* observer and a worker whose step is possible take it (Observer.Run,      *)
(* Worker.Run).  From some moment on the endpoints answer, are up to date   *)
(* with the final block, and nothing stops half way, so that a round is     *)
(* dropped only when it cannot go on.  Before that moment anything may      *)
(* fail, and nothing is assumed of the payer, the page or reorganisations.  *)
(***************************************************************************)
Calm ==
    /\ \A o \in Observers :
          /\ Begin(o) => round'[o].head.height = final
          /\ LoseRound(o) /\ ~ObserverStep(o) => ~ENABLED ObserverStep(o)
    /\ \A w \in Workers :
          PassOver(w) /\ ~WorkerStep(w) => ~ENABLED WorkerStep(w)

FairSpec ==
    /\ Spec
    /\ <>[][Calm]_vars
    /\ WF_vars(ChainMines) /\ WF_vars(ChainFinalizes) /\ WF_vars(Tick)
    /\ \A o \in Observers : WF_vars(ObserverStep(o) \/ LoseRound(o))
    /\ \A w \in Workers : WF_vars(WorkerStep(w) \/ PassOver(w))

\* A shorter transfer came first, so the payment holds an arrival that never
\* covers it, and a transfer that would have stands matched against it
\* (worker.go pay: "payment not settled by a final transfer").
Stuck(p) == /\ received[p] = "short"
            /\ \E t \in Transfers : PaidBy(t) = p /\ row[t].reason = "matched"

\* A payment that can be paid does not wait for ever: it is closed, unless a
\* shorter transfer stands in the way of one that paid it.
PayableEnds ==
    \A p \in Payments :
        status[p] = "awaiting_payment" ~> (status[p] \in Closed \/ Stuck(p))

\* A transfer that was enough, in time and in a final block settles a payment
\* that is still open, with the same exception.
PaidIsSettled ==
    \A p \in Payments :
        ( /\ CanReceive(status[p])
          /\ \E t \in Transfers : /\ PaidBy(t) = p /\ Kind[t] = "full"
                                 /\ on[t] \in 1 .. final /\ on[t] < Deadline[p] )
        ~> (status[p] = "succeeded" \/ Stuck(p))

=======================================================================
