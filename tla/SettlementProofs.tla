----------------------- MODULE SettlementProofs -----------------------
(***************************************************************************)
(* Proofs about Settlement, for any payments, attempts, transfers,         *)
(* observers, workers, chain and operator.                                 *)
(*                                                                         *)
(* First what a merchant is paid on.  SucceededIsPaid is not inductive.  A *)
(* payment succeeds from a task, the task was made from a row, the row from *)
(* a sight, and the sight from the chain, each of them some steps old, so  *)
(* what each one still says has to be carried: a matched row or sight was  *)
(* judged full and in time (RowsJudged, SightsJudged), a task was made from *)
(* such a row (TasksJudged), an answer "final" stays true (FinalStays), and *)
(* a task whose version still stands holds what the payment holds          *)
(* (TasksRead).  With that (Inv), Settlement implements Lifecycle.         *)
(*                                                                         *)
(* Then that the books balance (Books), whatever is done to the cursor and *)
(* whatever providers claim; and last, where no reader is misled (Unmisled) *)
(* and the lease lets one of them read at a time (LeaseHolds), that the     *)
(* ledger follows the chain (Honest).                                      *)
(***************************************************************************)
EXTENDS Settlement, FiniteSetTheorems, SequenceTheorems, TLAPS

USE PaymentAssumptions, RoundAssumptions, KeyOfAssumption, ChainBounds

\* Transfer t is enough for its payment, and a block at h is in time for it.
InTime(t, h) == /\ Kind[t] = "full"
                /\ h > 0
                /\ h < Deadline[PaidBy(t)]

RowsJudged == \A t \in Transfers : row[t].reason = "matched" => InTime(t, row[t].height)

SightsJudged ==
    \A o \in Observers, t \in Transfers :
        round[o].seen[t].reason = "matched" => InTime(t, round[o].seen[t].height)

TasksJudged ==
    \A w \in Workers : task[w] \in Candidate => InTime(task[w].transfer, task[w].height)

FinalStays ==
    \A w \in Workers : task[w] \in Candidate /\ task[w].phase = "final" =>
        /\ on[task[w].transfer] = task[w].height
        /\ task[w].height <= final

TasksRead ==
    \A w \in Workers :
        /\ task[w] \in Candidate =>
              LET p == PaidBy(task[w].transfer) IN
              /\ task[w].version <= version[p]
              /\ task[w].version = version[p] => /\ status[p] = task[w].status
                                                 /\ received[p] = task[w].received
        /\ task[w] \in Due =>
              LET p == task[w].payment IN
              /\ task[w].version <= version[p]
              /\ task[w].version = version[p] => status[p] = task[w].status

Inv == /\ TypeOK
       /\ RowsJudged
       /\ SightsJudged
       /\ TasksJudged
       /\ FinalStays
       /\ TasksRead
       /\ SucceededIsPaid

-----------------------------------------------------------------------
\* Which payment a transfer pays.
LEMMA PaidByType == \A t \in Transfers : PaidBy(t) \in Payments
  BY DEF PaidBy

\* The three kinds of task are told apart by their phase.
LEMMA TaskPhases ==
  ASSUME NEW k \in Tasks
  PROVE  /\ k.phase \in {"asking", "final", "gone"} <=> k \in Candidate
         /\ k.phase \in {"overdue", "unsettled"} <=> k \in Due
         /\ k.phase = "idle" <=> k = NoTask
  BY DEF Tasks, Candidate, Due, NoTask

\* What the blocks carry is judged into sights.
LEMMA ScanType ==
  ASSUME TypeOK, NEW first \in Nat, NEW last \in Nat, first > 0
  PROVE  /\ Scan(first, last) \in [Transfers -> Sight]
         /\ \A t \in Transfers : Scan(first, last)[t].reason = "matched" =>
                InTime(t, Scan(first, last)[t].height)
<1>1. ASSUME NEW t \in Transfers
      PROVE  Judge(Kind[t], on[t], Deadline[PaidBy(t)], status[PaidBy(t)])
                \in {"wrong", "short", "late", "matched"}
  BY DEF Judge
<1>2. ASSUME NEW t \in Transfers, on[t] \in first .. last
      PROVE  /\ on[t] \in Heights
             /\ made[on[t]] \in 0 .. MaxForks
             /\ revision[KeyOf[t]] \in Nat
  BY <1>2 DEF TypeOK, ChainTypeOK, Heights
<1>3. Scan(first, last) \in [Transfers -> Sight]
  BY <1>1, <1>2 DEF Scan, Sight, Unseen, Reasons, Heights
<1>4. ASSUME NEW t \in Transfers, Scan(first, last)[t].reason = "matched"
      PROVE  InTime(t, Scan(first, last)[t].height)
  <2>1. on[t] \in first .. last
    BY <1>4 DEF Scan, Unseen
  <2>2. /\ Scan(first, last)[t].height = on[t]
        /\ Judge(Kind[t], on[t], Deadline[PaidBy(t)], status[PaidBy(t)]) = "matched"
    BY <1>4, <2>1 DEF Scan
  <2>3. Deadline[PaidBy(t)] \in Nat
    BY PaidByType
  <2>4. on[t] \in Nat
    BY DEF TypeOK, ChainTypeOK
  <2> QED
    BY <2>1, <2>2, <2>3, <2>4 DEF Judge, InTime
<1> QED
  BY <1>3, <1>4

-----------------------------------------------------------------------
(***************************************************************************)
(* What the store's transactions do to the ledger.                         *)
(***************************************************************************)
LedgerTypeOK ==
    /\ status \in [Payments -> Statuses]
    /\ received \in [Payments -> Amounts]
    /\ version \in [Payments -> Nat]
    /\ attempt \in [Attempts -> AttemptStatuses]
    /\ revision \in [Attempts -> Nat]
    /\ row \in [Transfers -> Row]
    /\ outbox \in [Payments -> Seq(Events)]

\* A payment whose version has not moved says what it said, and one that cannot
\* receive keeps what arrived.
Guarded ==
    \A p \in Payments :
        /\ version[p] <= version'[p]
        /\ version[p] = version'[p] => status'[p] = status[p] /\ received'[p] = received[p]
        /\ ~CanReceive(status[p]) => received'[p] = received[p]

\* A transaction of the observer leaves the ledger typed and guarded, and makes
\* a row matched only from a matched sight.
LEMMA RecordStep ==
  ASSUME TypeOK, NEW s \in [Transfers -> Sight], NEW stamp \in BOOLEAN,
         NEW lost \in SUBSET Transfers, Record(s, stamp, lost)
  PROVE  /\ LedgerTypeOK'
         /\ Guarded
         /\ UNCHANGED status
         /\ \A t \in Transfers : row'[t].reason = "matched" =>
               \/ s[t].reason = "matched" /\ row'[t].height = s[t].height
               \/ row'[t] = row[t]
<1> DEFINE rows    == Vanished(Recorded(s, stamp), lost)
           emptied == Unreceived(rows, lost)
           filled  == Credited(s, emptied)
<1>1. Recorded(s, stamp) \in [Transfers -> Row]
  BY DEF Recorded, TypeOK, Row, Sight
<1>2. rows \in [Transfers -> Row]
  BY <1>1 DEF Vanished, Row, Reasons
<1>3. ASSUME NEW t \in Transfers, rows[t].reason = "matched"
      PROVE  \/ s[t].reason = "matched" /\ rows[t].height = s[t].height
             \/ rows[t] = row[t]
  <2>1. t \notin lost
    BY <1>1, <1>3 DEF Vanished, Row
  <2>2. rows[t] = Recorded(s, stamp)[t]
    BY <2>1 DEF Vanished
  <2> QED
    BY <1>3, <2>2 DEF Recorded
<1>4. row' = rows /\ status' = status
  BY DEF Record
<1>5. /\ received' \in [Payments -> Amounts]
      /\ version' = [p \in Payments |->
                        version[p] + One(p \in emptied) + One(p \in filled)]
      /\ \A p \in Payments : p \notin emptied /\ p \notin filled => received'[p] = received[p]
  BY DEF Record
<1>6. version' \in [Payments -> Nat]
  BY <1>5 DEF TypeOK, One
<1>7. /\ attempt' \in [Attempts -> AttemptStatuses]
      /\ revision' \in [Attempts -> Nat]
  <2>1. attempt \in [Attempts -> AttemptStatuses] /\ revision \in [Attempts -> Nat]
    BY DEF TypeOK
  <2>2. ASSUME NEW a \in Attempts, NEW T PROVE revision[a] + One(a \in T) \in Nat
    BY <2>1 DEF One
  <2>3. attempt' \in [Attempts -> AttemptStatuses]
    BY <2>1 DEF Record, AttemptStatuses
  <2> QED
    BY <2>2, <2>3 DEF Record
<1>8. outbox' \in [Payments -> Seq(Events)]
  <2>1. ASSUME NEW p \in Payments PROVE outbox[p] \o Announced(s, p) \in Seq(Events)
    <3>1. IsFiniteSet({t \in Confirming(s) : PaidBy(t) = p})
      BY TransfersFinite, FS_Subset DEF Confirming, Seen
    <3>2. Cardinality({t \in Confirming(s) : PaidBy(t) = p}) \in Nat
      BY <3>1, FS_CardinalityType
    <3>3. Announced(s, p) \in Seq(Events)
      BY <3>2 DEF Announced, Events
    <3>4. outbox[p] \in Seq(Events)
      BY DEF TypeOK
    <3> QED
      BY <3>3, <3>4, ConcatProperties
  <2>2. outbox' = [p \in Payments |-> outbox[p] \o Announced(s, p)]
    BY DEF Record
  <2> QED
    BY <2>1, <2>2
<1>9. Guarded
  <2> SUFFICES ASSUME NEW p \in Payments
               PROVE  /\ version[p] <= version'[p]
                      /\ version[p] = version'[p] => received'[p] = received[p]
                      /\ ~CanReceive(status[p]) => received'[p] = received[p]
    BY <1>4 DEF Guarded
  <2>1. version'[p] = version[p] + One(p \in emptied) + One(p \in filled)
    BY <1>5
  <2>2. p \in emptied \/ p \in filled => CanReceive(status[p])
    BY DEF Unreceived, Credited
  <2>3. version[p] \in Nat
    BY DEF TypeOK
  <2> QED
    BY <1>5, <2>1, <2>2, <2>3 DEF One
<1> QED
  BY <1>2, <1>3, <1>4, <1>5, <1>6, <1>7, <1>8, <1>9 DEF LedgerTypeOK, TypeOK

\* A saved move leaves the ledger typed and guarded, and moves one payment.
LEMMA SaveStep ==
  ASSUME TypeOK, NEW p \in Payments, NEW at \in Nat, NEW want \in Events \cap Statuses,
         SaveMove(p, at, want)
  PROVE  /\ LedgerTypeOK'
         /\ Guarded
         /\ version[p] = at
         /\ status' = [status EXCEPT ![p] = want]
         /\ UNCHANGED <<received, row>>
<1>1. /\ version[p] = at
      /\ status' = [status EXCEPT ![p] = want]
      /\ version' = [version EXCEPT ![p] = at + 1]
      /\ outbox' = [outbox EXCEPT ![p] = Append(@, want)]
      /\ UNCHANGED <<received, attempt, revision, row>>
  BY DEF SaveMove, Unmoved
<1>2. LedgerTypeOK'
  BY <1>1 DEF LedgerTypeOK, TypeOK
<1>3. Guarded
  BY <1>1 DEF Guarded, TypeOK
<1> QED
  BY <1>1, <1>2, <1>3

\* Giving a transfer up leaves the ledger typed and guarded, and no row is
\* matched that was not.
LEMMA GiveUpStep ==
  ASSUME TypeOK, NEW w \in Workers, GiveUp(w), task[w] \in Candidate
  PROVE  /\ LedgerTypeOK'
         /\ Guarded
         /\ UNCHANGED status
         /\ \A t \in Transfers : row'[t].reason = "matched" => row'[t] = row[t]
<1> DEFINE g       == task[w].transfer
           rows    == Vanished(row, {g})
           freed   == Unconfirmed(rows, {g})
           emptied == Unreceived(rows, {g})
<1>1. g \in Transfers
  BY DEF Candidate
<1>2. /\ row' = rows
      /\ attempt' = [a \in Attempts |-> IF a \in freed THEN "issued" ELSE attempt[a]]
      /\ revision' = [a \in Attempts |-> revision[a] + One(a \in freed)]
      /\ received' = [p \in Payments |-> IF p \in emptied THEN "nothing" ELSE received[p]]
      /\ version' = [p \in Payments |-> version[p] + One(p \in emptied)]
      /\ UNCHANGED <<status, outbox>>
  BY DEF GiveUp
<1>0. row \in [Transfers -> Row]
  BY DEF TypeOK
<1>3. rows \in [Transfers -> Row]
  <2>1. ASSUME NEW t \in Transfers PROVE [row[t] EXCEPT !.reason = "vanished"] \in Row
    BY <1>0 DEF Row, Reasons
  <2> QED
    BY <1>0, <2>1 DEF Vanished
<1>4. ASSUME NEW t \in Transfers, rows[t].reason = "matched" PROVE rows[t] = row[t]
  <2>1. t # g
    BY <1>0, <1>4 DEF Vanished, Row
  <2> QED
    BY <2>1 DEF Vanished
<1>5. LedgerTypeOK'
  <2>1. LedgerTypeOK
    BY DEF TypeOK, LedgerTypeOK
  <2>2. /\ version' \in [Payments -> Nat]
        /\ revision' \in [Attempts -> Nat]
    BY <1>2, <2>1 DEF LedgerTypeOK, One
  <2>3. /\ received' \in [Payments -> Amounts]
        /\ attempt' \in [Attempts -> AttemptStatuses]
    BY <1>2, <2>1 DEF LedgerTypeOK, AttemptStatuses, Amounts
  <2> QED
    BY <1>2, <1>3, <2>1, <2>2, <2>3 DEF LedgerTypeOK
<1>6. Guarded
  <2> SUFFICES ASSUME NEW p \in Payments
               PROVE  /\ version[p] <= version'[p]
                      /\ version[p] = version'[p] => received'[p] = received[p]
                      /\ ~CanReceive(status[p]) => received'[p] = received[p]
    BY <1>2 DEF Guarded
  <2>1. /\ version'[p] = version[p] + One(p \in emptied)
        /\ p \notin emptied => received'[p] = received[p]
    BY <1>2
  <2>2. p \in emptied => CanReceive(status[p])
    BY DEF Unreceived
  <2>3. version[p] \in Nat
    BY DEF TypeOK
  <2> QED
    BY <2>1, <2>2, <2>3 DEF One
<1> QED
  BY <1>2, <1>4, <1>5, <1>6

-----------------------------------------------------------------------
(***************************************************************************)
(* Types.                                                                  *)
(***************************************************************************)
LEMMA TypeInit == Init => TypeOK
<1> SUFFICES ASSUME Init PROVE TypeOK
  OBVIOUS
<1>1. ChainTypeOK
  BY DEF Init, ChainInit, ChainTypeOK, Heights
<1>2. NoRow \in Row
  BY DEF NoRow, Row, Reasons, Heights
<1>3. Nowhere \in Block
  BY DEF Nowhere, Block, Heights
<1>4. NothingSeen \in [Transfers -> Sight]
  BY DEF NothingSeen, Unseen, Sight, Reasons, Heights
<1>5. NoRound \in Round
  BY <1>3, <1>4 DEF NoRound, Round, Heights
<1>6. <<>> \in Seq(Events)
  BY EmptySeq
<1> QED
  BY <1>1, <1>2, <1>3, <1>5, <1>6
     DEF Init, TypeOK, Statuses, Amounts, AttemptStatuses, Tasks, Heights

\* Every step of the chain keeps its types, and what is final stays.
LEMMA ChainStep ==
  ASSUME ChainTypeOK,
         \/ \E ts \in SUBSET Transfers : Mine(ts, Handed)
         \/ \E h \in Heights : Reorg(h)
         \/ Finalize
  PROVE  /\ ChainTypeOK'
         /\ final <= final'
         /\ \A t \in Transfers : on[t] \in 1 .. final => on'[t] = on[t]
<1>1. ASSUME NEW ts \in SUBSET Transfers, Mine(ts, Handed)
      PROVE  /\ ChainTypeOK'
             /\ final <= final'
             /\ \A t \in Transfers : on[t] \in 1 .. final => on'[t] = on[t]
  <2>1. ChainTypeOK'
    BY <1>1 DEF Mine, ChainTypeOK, Heights
  <2>2. ASSUME NEW t \in Transfers, on[t] \in 1 .. final PROVE on'[t] = on[t]
    <3>1. Spent(KeyOf[t])
      BY <2>2 DEF Spent, ChainTypeOK
    <3> QED
      BY <1>1, <3>1 DEF Mine
  <2> QED
    BY <1>1, <2>1, <2>2 DEF Mine, ChainTypeOK
<1>2. ASSUME NEW h \in Heights, Reorg(h)
      PROVE  /\ ChainTypeOK'
             /\ final <= final'
             /\ \A t \in Transfers : on[t] \in 1 .. final => on'[t] = on[t]
  BY <1>2 DEF Reorg, ChainTypeOK, Heights
<1>3. CASE Finalize
  BY <1>3 DEF Finalize, ChainTypeOK, Heights
<1> QED
  BY <1>1, <1>2, <1>3

\* Every step of an observer keeps the types, and judges what it sees.
LEMMA ObserverTypes ==
  ASSUME TypeOK, NEW o \in Observers, ObserverStep(o) \/ LoseRound(o)
  PROVE  TypeOK'
<1>0. /\ Nowhere \in Block
      /\ NothingSeen \in [Transfers -> Sight]
  BY DEF Nowhere, Block, NothingSeen, Unseen, Sight, Reasons, Heights
<1>1. NoRound \in Round
  BY <1>0 DEF NoRound, Round, Heights
<1>2. round[o] \in Round
  BY DEF TypeOK
<1>3. \A h \in 1 .. latest : BlockAt(h) \in Block
  BY DEF TypeOK, ChainTypeOK, BlockAt, Block, Heights
<1>4. Claims \subseteq 1 .. latest
  BY DEF Claims, TypeOK, ChainTypeOK
<1>5. ASSUME NEW r \in Round, round' = [round EXCEPT ![o] = r],
             UNCHANGED <<chainVars, now, task, moving, sets>>,
             LedgerTypeOK', cursor' \in Block
      PROVE  TypeOK'
  BY <1>5 DEF TypeOK, LedgerTypeOK, ChainTypeOK, chainVars
<1>6. ASSUME UNCHANGED ledger PROVE LedgerTypeOK'
  BY <1>6 DEF LedgerTypeOK, TypeOK, ledger
<1>7. cursor \in Block
  BY DEF TypeOK
<1>8. CASE StartCursor(o)
  <2>1. cursor' \in Block
    BY <1>3, <1>4, <1>8 DEF StartCursor
  <2> QED
    BY <1>6, <1>8, <2>1 DEF StartCursor, TypeOK, LedgerTypeOK, ChainTypeOK, chainVars
<1>9. CASE Begin(o)
  <2>1. PICK f \in Claims :
          round' = [round EXCEPT ![o] =
                      [NoRound EXCEPT !.phase = IF f > cursor.height THEN "behind" ELSE "ahead",
                                      !.head = BlockAt(f), !.latest = latest,
                                      !.from = IF f > cursor.height THEN cursor ELSE Nowhere]]
    BY <1>9 DEF Begin
  <2>2. latest \in Heights
    BY DEF TypeOK, ChainTypeOK, Heights
  <2>3. [NoRound EXCEPT !.phase = IF f > cursor.height THEN "behind" ELSE "ahead",
                        !.head = BlockAt(f), !.latest = latest,
                        !.from = IF f > cursor.height THEN cursor ELSE Nowhere] \in Round
    BY <1>0, <1>1, <1>3, <1>4, <1>7, <2>2 DEF Round
  <2>4. UNCHANGED <<chainVars, now, ledger, cursor, task, moving, sets>>
    BY <1>9 DEF Begin
  <2> QED
    BY <1>5, <1>6, <1>7, <2>1, <2>3, <2>4
<1>10. CASE ScanBehind(o)
  <2> DEFINE last == IF round[o].head.height > round[o].from.height + Width
                     THEN round[o].from.height + Width ELSE round[o].head.height
             to   == IF last = round[o].head.height THEN round[o].head ELSE BlockAt(last)
             r    == [round[o] EXCEPT !.phase = "found", !.to = to,
                                      !.seen = Scan(round[o].from.height + 1, last)]
  <2>1. /\ last <= latest
        /\ round' = [round EXCEPT ![o] = r]
        /\ UNCHANGED <<chainVars, now, ledger, cursor, task, moving, sets>>
    BY <1>10 DEF ScanBehind, Position
  <2>2. /\ round[o].head \in Block
        /\ round[o].from.height \in Nat
        /\ round[o].head.height \in Nat
    BY <1>2 DEF Round, Block, Heights
  <2>3. last \in Nat
    BY <2>2
  <2>4. Scan(round[o].from.height + 1, last) \in [Transfers -> Sight]
    <3>1. round[o].from.height + 1 \in Nat /\ round[o].from.height + 1 > 0
      BY <2>2
    <3> HIDE DEF last
    <3> QED
      BY <2>3, <3>1, ScanType
  <2>5. to \in Block
    BY <1>3, <2>1, <2>2
  <2>6. r \in Round
    BY <1>2, <2>4, <2>5 DEF Round
  <2> QED
    BY <1>5, <1>6, <1>7, <2>1, <2>6
<1>11. CASE WriteBehind(o)
  <2> DEFINE r    == round[o]
             lost == Lost(r.seen, r.from.height + 1, r.to.height)
             next == [NoRound EXCEPT !.phase = "ahead", !.head = r.head, !.latest = r.latest]
  <2>1. /\ Record(r.seen, TRUE, lost)
        /\ cursor' = r.to
        /\ round' = [round EXCEPT ![o] = next]
        /\ UNCHANGED <<chainVars, now, task, moving, sets>>
    BY <1>11 DEF WriteBehind
  <2>2. r.seen \in [Transfers -> Sight] /\ r.to \in Block
    BY <1>2 DEF Round
  <2>3. lost \in SUBSET Transfers
    BY DEF Lost
  <2>4. LedgerTypeOK'
    <3> HIDE DEF r, lost
    <3> QED
      BY <2>1, <2>2, <2>3, RecordStep
  <2>5. next \in Round
    BY <1>1, <1>2 DEF Round
  <2> QED
    BY <1>5, <2>1, <2>2, <2>4, <2>5
<1>12. CASE ScanAhead(o)
  <2> DEFINE seen == Scan(FirstAhead(round[o]), round[o].latest)
             r    == IF Seen(seen) = {} THEN NoRound
                     ELSE [NoRound EXCEPT !.phase = "spied", !.seen = seen]
  <2>1. /\ round' = [round EXCEPT ![o] = r]
        /\ UNCHANGED <<chainVars, now, ledger, cursor, task, moving, sets>>
    BY <1>12 DEF ScanAhead
  <2>2. /\ round[o].latest \in Nat
        /\ round[o].head.height \in Nat
    BY <1>2 DEF Round, Block, Heights
  <2>3. FirstAhead(round[o]) \in Nat \ {0}
    BY <2>2 DEF FirstAhead
  <2>4. seen \in [Transfers -> Sight]
    BY <2>2, <2>3, ScanType
  <2>5. r \in Round
    <3> HIDE DEF seen
    <3> QED
      BY <1>1, <2>4 DEF Round
  <2> QED
    BY <1>5, <1>6, <1>7, <2>1, <2>5
<1>13. CASE WriteAhead(o)
  <2>1. /\ Record(round[o].seen, FALSE, {})
        /\ round' = [round EXCEPT ![o] = NoRound]
        /\ UNCHANGED <<chainVars, now, cursor, task, moving, sets>>
    BY <1>13 DEF WriteAhead
  <2>2. round[o].seen \in [Transfers -> Sight]
    BY <1>2 DEF Round
  <2>3. {} \in SUBSET Transfers /\ FALSE \in BOOLEAN
    OBVIOUS
  <2>4. LedgerTypeOK'
    BY <2>1, <2>2, <2>3, RecordStep
  <2> QED
    BY <1>1, <1>5, <1>7, <2>1, <2>4
<1>14. CASE LoseRound(o)
  BY <1>1, <1>5, <1>6, <1>7, <1>14 DEF LoseRound
<1> QED
  BY <1>8, <1>9, <1>10, <1>11, <1>12, <1>13, <1>14 DEF ObserverStep

\* Every step of the payer's page keeps the types and is guarded.
LEMMA PageStep ==
  ASSUME TypeOK,
         \/ \E p \in Payments : Await(p)
         \/ \E a \in Attempts : MintAttempt(a) \/ StoreAttempt(a) \/ Supersede(a)
  PROVE  TypeOK' /\ Guarded /\ UNCHANGED row
<1>0. ASSUME LedgerTypeOK', UNCHANGED <<chainVars, now, cursor, round, task, moving, sets>>
      PROVE  TypeOK'
  BY <1>0 DEF TypeOK, LedgerTypeOK, ChainTypeOK, chainVars
<1>1. ASSUME NEW p \in Payments, Await(p) PROVE TypeOK' /\ Guarded /\ UNCHANGED row
  <2>1. /\ SaveMove(p, version[p], "awaiting_payment")
        /\ UNCHANGED <<chainVars, now, cursor, round, task, moving, sets>>
    BY <1>1 DEF Await
  <2>2. version[p] \in Nat /\ "awaiting_payment" \in Events \cap Statuses
    BY DEF TypeOK, Events, Statuses
  <2>3. LedgerTypeOK' /\ Guarded /\ UNCHANGED row
    BY <2>1, <2>2, SaveStep
  <2> QED
    BY <1>0, <2>1, <2>3
<1>2. ASSUME NEW a \in Attempts, MintAttempt(a) \/ StoreAttempt(a) \/ Supersede(a)
      PROVE  TypeOK' /\ Guarded /\ UNCHANGED row
  <2>1. /\ \E v \in AttemptStatuses : attempt' = [attempt EXCEPT ![a] = v]
        /\ revision' = revision \/ revision' = [revision EXCEPT ![a] = @ + 1]
        /\ UNCHANGED <<status, received, version, row, outbox>>
        /\ UNCHANGED <<chainVars, now, cursor, round, task, moving, sets>>
    BY <1>2 DEF MintAttempt, StoreAttempt, Supersede, AttemptStatuses
  <2>2. attempt' \in [Attempts -> AttemptStatuses] /\ revision' \in [Attempts -> Nat]
    <3>1. attempt \in [Attempts -> AttemptStatuses] /\ revision \in [Attempts -> Nat]
      BY DEF TypeOK
    <3>2. attempt' \in [Attempts -> AttemptStatuses]
      BY <2>1, <3>1
    <3>3. revision' \in [Attempts -> Nat]
      BY <2>1, <3>1
    <3> QED
      BY <3>2, <3>3
  <2>3. LedgerTypeOK'
    BY <2>1, <2>2 DEF LedgerTypeOK, TypeOK
  <2>4. Guarded
    BY <2>1 DEF Guarded, TypeOK
  <2> QED
    BY <1>0, <2>1, <2>3, <2>4
<1> QED
  BY <1>1, <1>2

\* Every step of a worker keeps the types and is guarded, and no row becomes
\* matched by it.
LEMMA WorkerKeeps ==
  ASSUME TypeOK, NEW w \in Workers, WorkerStep(w) \/ PassOver(w)
  PROVE  /\ TypeOK'
         /\ Guarded
         /\ \A t \in Transfers : row'[t].reason = "matched" => row'[t] = row[t]
<1> DEFINE Kept == /\ TypeOK'
                   /\ Guarded
                   /\ \A t \in Transfers : row'[t].reason = "matched" => row'[t] = row[t]
<1>0. ASSUME LedgerTypeOK', NEW k \in Tasks, task' = [task EXCEPT ![w] = k],
             UNCHANGED <<chainVars, now, cursor, round, moving, sets>>
      PROVE  TypeOK'
  BY <1>0 DEF TypeOK, LedgerTypeOK, ChainTypeOK, chainVars
<1>1. LedgerTypeOK
  BY DEF TypeOK, LedgerTypeOK
<1>2. ASSUME NEW k \in Tasks, task' = [task EXCEPT ![w] = k],
             UNCHANGED <<chainVars, now, ledger, cursor, round, moving, sets>>
      PROVE  Kept
  <2>1. LedgerTypeOK'
    BY <1>1, <1>2 DEF LedgerTypeOK, ledger
  <2>2. TypeOK'
    BY <1>0, <1>2, <2>1
  <2> QED
    BY <1>1, <1>2, <2>2 DEF Guarded, ledger, LedgerTypeOK
<1>3. task[w] \in Tasks /\ NoTask \in Tasks
  BY DEF TypeOK, Tasks
<1>4. ASSUME NEW p \in Payments, NEW at \in Nat, NEW want \in Events \cap Statuses,
             SaveMove(p, at, want), task' = [task EXCEPT ![w] = NoTask],
             UNCHANGED <<chainVars, now, cursor, round, moving, sets>>
      PROVE  Kept
  <2>1. LedgerTypeOK' /\ Guarded /\ UNCHANGED row
    BY <1>4, SaveStep
  <2>2. TypeOK'
    BY <1>0, <1>3, <1>4, <2>1
  <2> QED
    BY <2>1, <2>2
<1>5. ASSUME NEW t \in Transfers, TakeCandidate(w, t) PROVE Kept
  <2> DEFINE k == [phase |-> "asking", transfer |-> t, height |-> row[t].height,
                   fork |-> row[t].fork, status |-> status[PaidBy(t)],
                   received |-> received[PaidBy(t)], version |-> version[PaidBy(t)]]
  <2>1. row[t].height \in Heights /\ row[t].fork \in 0 .. MaxForks
    BY <1>1 DEF LedgerTypeOK, Row
  <2>2. /\ status[PaidBy(t)] \in Statuses
        /\ received[PaidBy(t)] \in Amounts
        /\ version[PaidBy(t)] \in Nat
    BY <1>1, PaidByType DEF LedgerTypeOK
  <2>3. k \in Tasks
    BY <2>1, <2>2 DEF Tasks, Candidate
  <2>4. /\ task' = [task EXCEPT ![w] = k]
        /\ UNCHANGED <<chainVars, now, ledger, cursor, round, moving, sets>>
    BY <1>5 DEF TakeCandidate, Undertake
  <2> QED
    BY <1>2, <2>3, <2>4
<1>6. ASSUME NEW p \in Payments, TakeOverdue(w, p) \/ TakeUnsettled(w, p) PROVE Kept
  <2>1. PICK ph \in {"overdue", "unsettled"} :
          Undertake(w, [phase |-> ph, payment |-> p,
                        status |-> status[p], version |-> version[p]])
    BY <1>6 DEF TakeOverdue, TakeUnsettled
  <2>2. [phase |-> ph, payment |-> p, status |-> status[p], version |-> version[p]] \in Tasks
    BY <1>1 DEF LedgerTypeOK, Tasks, Due
  <2> QED
    BY <1>2, <2>1, <2>2 DEF Undertake
<1>7. CASE Answered(w)
  <2>1. task[w] \in Candidate
    BY <1>3, <1>7, TaskPhases DEF Answered
  <2>2. PICK ph \in {"gone", "final"} : task' = [task EXCEPT ![w].phase = ph]
    BY <1>7 DEF Answered
  <2>3. [task[w] EXCEPT !.phase = ph] \in Tasks
    BY <2>1 DEF Tasks, Candidate
  <2>4. task' = [task EXCEPT ![w] = [task[w] EXCEPT !.phase = ph]]
    BY <2>2
  <2>5. UNCHANGED <<chainVars, now, ledger, cursor, round, moving, sets>>
    BY <1>7 DEF Answered
  <2> QED
    BY <1>2, <2>3, <2>4, <2>5
<1>8. CASE Pay(w)
  <2>1. task[w] \in Candidate
    BY <1>3, <1>8, TaskPhases DEF Pay
  <2>2. PaidBy(task[w].transfer) \in Payments /\ task[w].version \in Nat
    BY <2>1, PaidByType DEF Candidate
  <2>3. "succeeded" \in Events \cap Statuses
    BY DEF Events, Statuses
  <2> QED
    BY <1>4, <1>8, <2>2, <2>3 DEF Pay
<1>9. CASE GiveUp(w)
  <2>1. task[w] \in Candidate
    BY <1>3, <1>9, TaskPhases DEF GiveUp
  <2>2. /\ LedgerTypeOK' /\ Guarded
        /\ \A t \in Transfers : row'[t].reason = "matched" => row'[t] = row[t]
    BY <1>9, <2>1, GiveUpStep
  <2>3. /\ task' = [task EXCEPT ![w] = NoTask]
        /\ UNCHANGED <<chainVars, now, cursor, round, moving, sets>>
    BY <1>9 DEF GiveUp
  <2>4. TypeOK'
    BY <1>0, <1>3, <2>2, <2>3
  <2> QED
    BY <2>2, <2>4
<1>10. CASE CloseToPayment(w)
  <2>1. task[w] \in Due
    BY <1>3, <1>10, TaskPhases DEF CloseToPayment
  <2>2. task[w].payment \in Payments /\ task[w].version \in Nat
    BY <2>1 DEF Due
  <2>3. "awaiting_finality" \in Events \cap Statuses
    BY DEF Events, Statuses
  <2> QED
    BY <1>4, <1>10, <2>2, <2>3 DEF CloseToPayment
<1>11. CASE Expire(w)
  <2>1. task[w] \in Due
    BY <1>3, <1>11, TaskPhases DEF Expire
  <2>2. task[w].payment \in Payments /\ task[w].version \in Nat
    BY <2>1 DEF Due
  <2>3. "expired" \in Events \cap Statuses
    BY DEF Events, Statuses
  <2> QED
    BY <1>4, <1>11, <2>2, <2>3 DEF Expire
<1>12. CASE PassOver(w)
  BY <1>2, <1>3, <1>12 DEF PassOver
<1> QED
  BY <1>5, <1>6, <1>7, <1>8, <1>9, <1>10, <1>11, <1>12 DEF WorkerStep

\* Every step keeps the types.
LEMMA TypeStep == TypeOK /\ [Next]_vars => TypeOK'
<1> SUFFICES ASSUME TypeOK, [Next]_vars PROVE TypeOK'
  OBVIOUS
<1>1. CASE ChainMines \/ ChainForks \/ ChainFinalizes
  <2>1. ChainTypeOK'
    BY <1>1, ChainStep DEF TypeOK, ChainMines, ChainForks, ChainFinalizes
  <2>2. UNCHANGED <<now, ledger, cursor, round, task, moving, sets>>
    BY <1>1 DEF ChainMines, ChainForks, ChainFinalizes
  <2> QED
    BY <2>1, <2>2 DEF TypeOK, ledger
<1>2. CASE Tick
  <2>1. PICK m \in Moments : now' = m /\ m > now
    BY <1>2 DEF Tick
  <2>2. Moments \subseteq Int
    BY DEF Moments
  <2>3. now' \in Nat
    BY <2>1, <2>2 DEF TypeOK
  <2>4. UNCHANGED <<chainVars, ledger, cursor, round, task, moving, sets>>
    BY <1>2 DEF Tick
  <2> QED
    BY <2>3, <2>4 DEF TypeOK, ChainTypeOK, chainVars, ledger
<1>3. CASE \/ \E p \in Payments : Await(p)
           \/ \E a \in Attempts : MintAttempt(a) \/ StoreAttempt(a) \/ Supersede(a)
  BY <1>3, PageStep
<1>4. CASE \E o \in Observers : ObserverStep(o) \/ LoseRound(o)
  BY <1>4, ObserverTypes
<1>5. CASE \E w \in Workers : WorkerStep(w) \/ PassOver(w)
  BY <1>5, WorkerKeeps
<1>6. CASE \E h \in Heights \ {0} : CheckCursor(h)
  <2>1. PICK h \in Heights : moving' = h /\ sets' = sets + 1 /\ sets < MaxSets
    BY <1>6 DEF CheckCursor
  <2>2. UNCHANGED <<chainVars, now, ledger, cursor, round, task>>
    BY <1>6 DEF CheckCursor
  <2>3. moving' \in Heights /\ sets' \in 0 .. MaxSets
    BY <2>1 DEF TypeOK
  <2> QED
    BY <2>2, <2>3 DEF TypeOK, ChainTypeOK, chainVars, ledger
<1>7. CASE PutCursor
  <2>1. cursor' \in Block
    BY <1>7 DEF PutCursor, TypeOK, ChainTypeOK, BlockAt, Block, Heights
  <2>2. moving' \in Heights
    BY <1>7 DEF PutCursor, Heights
  <2>3. UNCHANGED <<chainVars, now, ledger, round, task, sets>>
    BY <1>7 DEF PutCursor
  <2> QED
    BY <2>1, <2>2, <2>3 DEF TypeOK, ChainTypeOK, chainVars, ledger
<1>8. CASE UNCHANGED vars
  BY <1>8 DEF vars, TypeOK, ChainTypeOK, chainVars, ledger
<1> QED
  BY <1>1, <1>2, <1>3, <1>4, <1>5, <1>6, <1>7, <1>8 DEF Next

\* Every variable holds a value of its type in every state of every run.
THEOREM TypeCorrect == Spec => []TypeOK
<1>1. Init => TypeOK
  BY TypeInit
<1>2. TypeOK /\ [Next]_vars => TypeOK'
  BY TypeStep
<1> QED
  BY <1>1, <1>2, PTL DEF Spec

-----------------------------------------------------------------------
(***************************************************************************)
(* What a step may do to the ledger, the chain, the sights and the tasks.  *)
(***************************************************************************)
\* A step makes a row matched only from a matched sight.
MatchedFromSight ==
    \A t \in Transfers : row'[t].reason = "matched" =>
        \/ row'[t] = row[t]
        \/ \E o \in Observers : /\ round[o].seen[t].reason = "matched"
                                /\ row'[t].height = round[o].seen[t].height

\* What is final stays final, and stays where it is.
FinalKept == /\ final <= final'
             /\ \A t \in Transfers : on[t] \in 1 .. final => on'[t] = on[t]

\* A step that leaves the ledger alone.
LEMMA LedgerIdle ==
  ASSUME TypeOK, UNCHANGED ledger
  PROVE  Guarded /\ MatchedFromSight
BY DEF TypeOK, Guarded, MatchedFromSight, ledger

\* An observer's step is guarded and makes a row matched from its own sight.
LEMMA ObserverLedger ==
  ASSUME TypeOK, NEW o \in Observers, ObserverStep(o) \/ LoseRound(o)
  PROVE  Guarded /\ MatchedFromSight /\ UNCHANGED status
<1>1. CASE UNCHANGED ledger
  BY <1>1, LedgerIdle DEF ledger
<1>2. round[o].seen \in [Transfers -> Sight]
  BY DEF TypeOK, Round
<1>3. ASSUME NEW stamp \in BOOLEAN, NEW lost \in SUBSET Transfers,
             Record(round[o].seen, stamp, lost)
      PROVE  Guarded /\ MatchedFromSight /\ UNCHANGED status
  BY <1>2, <1>3, RecordStep DEF MatchedFromSight
<1>4. CASE WriteBehind(o)
  <2> DEFINE lost == Lost(round[o].seen, round[o].from.height + 1, round[o].to.height)
  <2>1. Record(round[o].seen, TRUE, lost)
    BY <1>4 DEF WriteBehind
  <2>2. lost \in SUBSET Transfers /\ TRUE \in BOOLEAN
    BY DEF Lost
  <2> HIDE DEF lost
  <2> QED
    BY <1>3, <2>1, <2>2
<1>5. CASE WriteAhead(o)
  <2>1. Record(round[o].seen, FALSE, {})
    BY <1>5 DEF WriteAhead
  <2>2. {} \in SUBSET Transfers /\ FALSE \in BOOLEAN
    OBVIOUS
  <2> QED
    BY <1>3, <2>1, <2>2
<1>6. CASE StartCursor(o) \/ Begin(o) \/ ScanBehind(o) \/ ScanAhead(o) \/ LoseRound(o)
  BY <1>1, <1>6 DEF StartCursor, Begin, ScanBehind, ScanAhead, LoseRound
<1> QED
  BY <1>4, <1>5, <1>6 DEF ObserverStep

\* Every step is guarded, takes matched rows from matched sights and keeps what
\* is final.
LEMMA StepKeeps ==
  ASSUME TypeOK, [Next]_vars
  PROVE  Guarded /\ MatchedFromSight /\ FinalKept
<1>1. ASSUME UNCHANGED chainVars PROVE FinalKept
  BY <1>1 DEF FinalKept, chainVars, TypeOK, ChainTypeOK
<1>2. CASE ChainMines \/ ChainForks \/ ChainFinalizes
  <2>1. FinalKept
    BY <1>2, ChainStep DEF TypeOK, ChainMines, ChainForks, ChainFinalizes, FinalKept
  <2>2. UNCHANGED ledger
    BY <1>2 DEF ChainMines, ChainForks, ChainFinalizes
  <2> QED
    BY <2>1, <2>2, LedgerIdle
<1>3. CASE \/ \E p \in Payments : Await(p)
           \/ \E a \in Attempts : MintAttempt(a) \/ StoreAttempt(a) \/ Supersede(a)
  <2>1. Guarded /\ UNCHANGED row
    BY <1>3, PageStep
  <2>2. UNCHANGED chainVars
    BY <1>3 DEF Await, MintAttempt, StoreAttempt, Supersede
  <2> QED
    BY <1>1, <2>1, <2>2 DEF MatchedFromSight
<1>4. CASE \E o \in Observers : ObserverStep(o) \/ LoseRound(o)
  <2>1. Guarded /\ MatchedFromSight
    BY <1>4, ObserverLedger
  <2>2. UNCHANGED chainVars
    BY <1>4 DEF ObserverStep, StartCursor, Begin, ScanBehind, WriteBehind, ScanAhead,
                WriteAhead, LoseRound
  <2> QED
    BY <1>1, <2>1, <2>2
<1>5. CASE \E w \in Workers : WorkerStep(w) \/ PassOver(w)
  <2>1. Guarded /\ MatchedFromSight
    BY <1>5, WorkerKeeps DEF MatchedFromSight
  <2>2. UNCHANGED chainVars
    BY <1>5 DEF WorkerStep, TakeCandidate, TakeOverdue, TakeUnsettled, Undertake, Answered,
                Pay, GiveUp, CloseToPayment, Expire, PassOver
  <2> QED
    BY <1>1, <2>1, <2>2
<1>6. CASE Tick \/ PutCursor \/ (\E h \in Heights \ {0} : CheckCursor(h)) \/ UNCHANGED vars
  <2>1. UNCHANGED <<chainVars, ledger>>
    BY <1>6 DEF Tick, PutCursor, CheckCursor, vars
  <2> QED
    BY <1>1, <2>1, LedgerIdle
<1> QED
  BY <1>2, <1>3, <1>4, <1>5, <1>6 DEF Next

\* What an observer holds after its step was judged by that step or before it.
LEMMA ObserverSights ==
  ASSUME TypeOK, SightsJudged, NEW o \in Observers, ObserverStep(o) \/ LoseRound(o)
  PROVE  SightsJudged'
<1> DEFINE Judged(r) == \A t \in Transfers :
                            r.seen[t].reason = "matched" => InTime(t, r.seen[t].height)
<1>1. NoRound \in Round /\ Judged(NoRound)
  BY DEF NoRound, Round, Nowhere, Block, NothingSeen, Unseen, Sight, Reasons, Heights
<1>2. round \in [Observers -> Round]
  BY DEF TypeOK
<1>3. ASSUME NEW r, round' = [round EXCEPT ![o] = r], Judged(r) PROVE SightsJudged'
  BY <1>2, <1>3 DEF SightsJudged, InTime
<1>4. ASSUME NEW r, round' = [round EXCEPT ![o] = r], r.seen = NothingSeen
      PROVE  SightsJudged'
  <2>1. Judged(r)
    BY <1>4 DEF NothingSeen, Unseen
  <2> QED
    BY <1>3, <1>4, <2>1
<1>5. CASE StartCursor(o)
  BY <1>5 DEF StartCursor, SightsJudged, InTime
<1>6. CASE Begin(o)
  <2> DEFINE r(f) == [NoRound EXCEPT !.phase = IF f > cursor.height THEN "behind" ELSE "ahead",
                                     !.head = BlockAt(f), !.latest = latest,
                                     !.from = IF f > cursor.height THEN cursor ELSE Nowhere]
  <2>1. PICK f \in Claims : round' = [round EXCEPT ![o] = r(f)]
    BY <1>6 DEF Begin
  <2>2. r(f).seen = NothingSeen
    BY DEF NoRound
  <2> HIDE DEF r
  <2> QED
    BY <1>4, <2>1, <2>2
<1>7. CASE ScanBehind(o)
  <2> DEFINE last == IF round[o].head.height > round[o].from.height + Width
                     THEN round[o].from.height + Width ELSE round[o].head.height
             to   == IF last = round[o].head.height THEN round[o].head ELSE BlockAt(last)
             seen == Scan(round[o].from.height + 1, last)
             r    == [round[o] EXCEPT !.phase = "found", !.to = to, !.seen = seen]
  <2>1. round' = [round EXCEPT ![o] = r]
    BY <1>7 DEF ScanBehind, Position
  <2>2. /\ last \in Nat
        /\ round[o].from.height + 1 \in Nat /\ round[o].from.height + 1 > 0
    BY <1>2 DEF Round, Block, Heights
  <2>3. \A t \in Transfers : seen[t].reason = "matched" => InTime(t, seen[t].height)
    <3> HIDE DEF last
    <3> QED
      BY <2>2, ScanType
  <2>4. r.seen = seen
    BY <1>2 DEF Round
  <2> HIDE DEF r, seen
  <2> QED
    BY <1>3, <2>1, <2>3, <2>4
<1>8. CASE WriteBehind(o)
  <2> DEFINE r == [NoRound EXCEPT !.phase = "ahead",
                                  !.head = round[o].head, !.latest = round[o].latest]
  <2>1. round' = [round EXCEPT ![o] = r]
    BY <1>8 DEF WriteBehind
  <2>2. r.seen = NothingSeen
    BY DEF NoRound
  <2> HIDE DEF r
  <2> QED
    BY <1>4, <2>1, <2>2
<1>9. CASE ScanAhead(o)
  <2> DEFINE seen == Scan(FirstAhead(round[o]), round[o].latest)
             r    == IF Seen(seen) = {} THEN NoRound
                     ELSE [NoRound EXCEPT !.phase = "spied", !.seen = seen]
  <2>1. round' = [round EXCEPT ![o] = r]
    BY <1>9 DEF ScanAhead
  <2>2. /\ round[o].latest \in Nat
        /\ FirstAhead(round[o]) \in Nat /\ FirstAhead(round[o]) > 0
    BY <1>2 DEF FirstAhead, Round, Block, Heights
  <2>3. \A t \in Transfers : seen[t].reason = "matched" => InTime(t, seen[t].height)
    BY <2>2, ScanType
  <2>4. r = NoRound \/ r.seen = seen
    BY DEF NoRound
  <2>5. Judged(r)
    <3> HIDE DEF seen
    <3> QED
      BY <1>1, <2>3, <2>4
  <2> HIDE DEF r
  <2> QED
    BY <1>3, <2>1, <2>5
<1>10. CASE WriteAhead(o) \/ LoseRound(o)
  BY <1>1, <1>3, <1>10 DEF WriteAhead, LoseRound
<1> QED
  BY <1>5, <1>6, <1>7, <1>8, <1>9, <1>10 DEF ObserverStep

\* A step judges every row and every sight it makes.
LEMMA JudgedStep ==
  ASSUME TypeOK, RowsJudged, SightsJudged, [Next]_vars
  PROVE  RowsJudged' /\ SightsJudged'
<1>1. RowsJudged'
  <2>1. MatchedFromSight
    BY StepKeeps
  <2> QED
    BY <2>1 DEF MatchedFromSight, RowsJudged, SightsJudged, InTime
<1>2. CASE \E o \in Observers : ObserverStep(o) \/ LoseRound(o)
  BY <1>1, <1>2, ObserverSights
<1>3. CASE UNCHANGED round
  BY <1>1, <1>3 DEF SightsJudged, InTime
<1>4. CASE \E w \in Workers : WorkerStep(w) \/ PassOver(w)
  BY <1>3, <1>4 DEF WorkerStep, TakeCandidate, TakeOverdue, TakeUnsettled, Undertake,
                    Answered, Pay, GiveUp, CloseToPayment, Expire, PassOver
<1>5. CASE \/ ChainMines \/ ChainForks \/ ChainFinalizes \/ Tick \/ PutCursor
           \/ UNCHANGED vars
           \/ \E p \in Payments : Await(p)
           \/ \E a \in Attempts : MintAttempt(a) \/ StoreAttempt(a) \/ Supersede(a)
           \/ \E h \in Heights \ {0} : CheckCursor(h)
  BY <1>3, <1>5 DEF ChainMines, ChainForks, ChainFinalizes, Tick, PutCursor, vars, Await,
                    MintAttempt, StoreAttempt, Supersede, CheckCursor
<1> QED
  BY <1>2, <1>4, <1>5 DEF Next

\* What a step may make of a worker's task: drop it, ask about it, or take up a
\* candidate or a payment as the ledger has it.
TaskMoves(w) ==
    \/ task'[w] = task[w]
    \/ task'[w] = NoTask
    \/ /\ task[w] \in Candidate
       /\ \E ph \in {"gone", "final"} : task'[w] = [task[w] EXCEPT !.phase = ph]
       /\ task'[w].phase = "gone" => on[task[w].transfer] = 0
       /\ task'[w].phase = "final" => CarriedThere(task[w]) /\ task[w].height <= final
       /\ UNCHANGED <<chainVars, ledger>>
    \/ \E t \in Transfers :
          /\ row[t].reason = "matched"
          /\ row[t].final
          /\ task'[w] = [phase |-> "asking", transfer |-> t, height |-> row[t].height,
                         fork |-> row[t].fork, status |-> status[PaidBy(t)],
                         received |-> received[PaidBy(t)], version |-> version[PaidBy(t)]]
          /\ UNCHANGED <<chainVars, ledger>>
    \/ \E p \in Payments, ph \in {"overdue", "unsettled"} :
          /\ ph = "unsettled" => /\ status[p] = "awaiting_finality"
                                 /\ ReadPast(p)
                                 /\ Unmatched(p)
          /\ task'[w] = [phase |-> ph, payment |-> p,
                         status |-> status[p], version |-> version[p]]
          /\ UNCHANGED <<chainVars, ledger>>

LEMMA TaskStep ==
  ASSUME TypeOK, [Next]_vars
  PROVE  \A w \in Workers : TaskMoves(w)
<1>1. CASE UNCHANGED task
  BY <1>1 DEF TaskMoves
<1>2. ASSUME NEW w \in Workers, WorkerStep(w) \/ PassOver(w)
      PROVE  \A v \in Workers : TaskMoves(v)
  <2>0. task \in [Workers -> Tasks]
    BY DEF TypeOK
  <2>1. ASSUME NEW v \in Workers, v # w PROVE TaskMoves(v)
    <3>1. task'[v] = task[v]
      BY <1>2, <2>0, <2>1 DEF WorkerStep, TakeCandidate, TakeOverdue, TakeUnsettled, Undertake,
                              Answered, Pay, GiveUp, CloseToPayment, Expire, PassOver
    <3> QED
      BY <3>1 DEF TaskMoves
  <2>2. ASSUME task' = [task EXCEPT ![w] = NoTask] PROVE TaskMoves(w)
    BY <2>0, <2>2 DEF TaskMoves
  <2>3. ASSUME NEW t \in Transfers, TakeCandidate(w, t) PROVE TaskMoves(w)
    BY <2>0, <2>3 DEF TakeCandidate, Undertake, TaskMoves
  <2>4. ASSUME NEW p \in Payments, TakeOverdue(w, p) \/ TakeUnsettled(w, p) PROVE TaskMoves(w)
    BY <2>0, <2>4 DEF TakeOverdue, TakeUnsettled, Undertake, TaskMoves
  <2>5. ASSUME Answered(w) PROVE TaskMoves(w)
    <3>1. task[w] \in Candidate
      BY <2>0, <2>5, TaskPhases DEF Answered
    <3>2. \/ /\ on[task[w].transfer] = 0
             /\ task' = [task EXCEPT ![w] = [task[w] EXCEPT !.phase = "gone"]]
          \/ /\ CarriedThere(task[w])
             /\ task' = [task EXCEPT ![w] = [task[w] EXCEPT !.phase = "final"]]
      BY <2>5 DEF Answered
    <3>3. task[w].height <= final /\ UNCHANGED <<chainVars, ledger>>
      BY <2>5 DEF Answered
    <3>4. /\ [task[w] EXCEPT !.phase = "gone"].phase = "gone"
          /\ [task[w] EXCEPT !.phase = "final"].phase = "final"
      BY <3>1 DEF Candidate
    <3>5. PICK ph \in {"gone", "final"} :
             /\ task'[w] = [task[w] EXCEPT !.phase = ph]
             /\ task'[w].phase = "gone" => on[task[w].transfer] = 0
             /\ task'[w].phase = "final" => CarriedThere(task[w])
      BY <2>0, <3>2, <3>4
    <3> QED
      BY <3>1, <3>3, <3>5 DEF TaskMoves
  <2>6. ASSUME Pay(w) \/ GiveUp(w) \/ CloseToPayment(w) \/ Expire(w) \/ PassOver(w)
        PROVE  TaskMoves(w)
    BY <2>2, <2>6 DEF Pay, GiveUp, CloseToPayment, Expire, PassOver
  <2> QED
    BY <1>2, <2>1, <2>3, <2>4, <2>5, <2>6 DEF WorkerStep
<1>3. CASE \E o \in Observers : ObserverStep(o) \/ LoseRound(o)
  BY <1>1, <1>3 DEF ObserverStep, StartCursor, Begin, ScanBehind, WriteBehind, ScanAhead,
                    WriteAhead, LoseRound
<1>4. CASE \/ ChainMines \/ ChainForks \/ ChainFinalizes \/ Tick \/ PutCursor
           \/ UNCHANGED vars
           \/ \E p \in Payments : Await(p)
           \/ \E a \in Attempts : MintAttempt(a) \/ StoreAttempt(a) \/ Supersede(a)
           \/ \E h \in Heights \ {0} : CheckCursor(h)
  BY <1>1, <1>4 DEF ChainMines, ChainForks, ChainFinalizes, Tick, PutCursor, vars, Await,
                    MintAttempt, StoreAttempt, Supersede, CheckCursor
<1> QED
  BY <1>2, <1>3, <1>4 DEF Next

\* What a task says of its transfer and of its payment still holds, or is out of
\* date by the version.
LEMMA TasksStep ==
  ASSUME Inv, [Next]_vars
  PROVE  TasksJudged' /\ FinalStays' /\ TasksRead'
<1>0. /\ TypeOK /\ TypeOK' /\ Guarded /\ FinalKept
      /\ \A w \in Workers : TaskMoves(w)
  BY StepKeeps, TaskStep, TypeStep DEF Inv
<1>1. /\ version \in [Payments -> Nat] /\ version' \in [Payments -> Nat]
      /\ final \in Nat /\ final' \in Nat
      /\ on \in [Transfers -> Nat]
      /\ task \in [Workers -> Tasks] /\ task' \in [Workers -> Tasks]
  BY <1>0 DEF TypeOK, ChainTypeOK
<1>2. NoTask \notin Candidate /\ NoTask \notin Due /\ Candidate \cap Due = {}
  BY DEF NoTask, Candidate, Due
<1>3. TasksJudged'
  <2> SUFFICES ASSUME NEW w \in Workers, task'[w] \in Candidate
               PROVE  InTime(task'[w].transfer, task'[w].height)
    BY DEF TasksJudged, InTime
  <2>1. CASE task'[w] = task[w]
    BY <2>1 DEF Inv, TasksJudged
  <2>2. CASE /\ task[w] \in Candidate
             /\ \E ph \in {"gone", "final"} : task'[w] = [task[w] EXCEPT !.phase = ph]
    <3>1. task'[w].transfer = task[w].transfer /\ task'[w].height = task[w].height
      BY <2>2 DEF Candidate
    <3> QED
      BY <2>2, <3>1 DEF Inv, TasksJudged
  <2>3. ASSUME NEW t \in Transfers, row[t].reason = "matched",
               task'[w] = [phase |-> "asking", transfer |-> t, height |-> row[t].height,
                           fork |-> row[t].fork, status |-> status[PaidBy(t)],
                           received |-> received[PaidBy(t)], version |-> version[PaidBy(t)]]
        PROVE  InTime(task'[w].transfer, task'[w].height)
    <3>1. task'[w].transfer = t /\ task'[w].height = row[t].height
      BY <2>3
    <3> QED
      BY <2>3, <3>1 DEF Inv, RowsJudged
  <2>4. task'[w] \notin Due /\ task'[w] # NoTask
    BY <1>2
  <2>5. ASSUME NEW p \in Payments, NEW ph \in {"overdue", "unsettled"},
               task'[w] = [phase |-> ph, payment |-> p,
                           status |-> status[p], version |-> version[p]]
        PROVE  task'[w] \in Due
    <3>1. task'[w].phase \in {"overdue", "unsettled"}
      BY <2>5
    <3> QED
      BY <1>1, <3>1, TaskPhases
  <2> QED
    BY <1>0, <2>1, <2>2, <2>3, <2>4, <2>5 DEF TaskMoves
<1>4. FinalStays'
  <2> SUFFICES ASSUME NEW w \in Workers, task'[w] \in Candidate, task'[w].phase = "final"
               PROVE  /\ on'[task'[w].transfer] = task'[w].height
                      /\ task'[w].height <= final'
    BY DEF FinalStays
  <2>1. CASE task'[w] = task[w]
    <3>1. /\ task[w].transfer \in Transfers
          /\ on[task[w].transfer] = task[w].height
          /\ task[w].height <= final
          /\ task[w].height > 0
      BY <2>1 DEF Inv, FinalStays, TasksJudged, InTime, Candidate
    <3> QED
      BY <1>0, <1>1, <2>1, <3>1 DEF FinalKept
  <2>2. CASE /\ task[w] \in Candidate
             /\ \E ph \in {"gone", "final"} : task'[w] = [task[w] EXCEPT !.phase = ph]
             /\ task'[w].phase = "final" => CarriedThere(task[w]) /\ task[w].height <= final
             /\ UNCHANGED <<chainVars, ledger>>
    <3>1. task'[w].transfer = task[w].transfer /\ task'[w].height = task[w].height
      BY <2>2 DEF Candidate
    <3> QED
      BY <2>2, <3>1 DEF CarriedThere, chainVars
  <2>3. task'[w] # NoTask
    BY DEF NoTask
  <2>4. ASSUME NEW t \in Transfers,
               task'[w] = [phase |-> "asking", transfer |-> t, height |-> row[t].height,
                           fork |-> row[t].fork, status |-> status[PaidBy(t)],
                           received |-> received[PaidBy(t)], version |-> version[PaidBy(t)]]
        PROVE  FALSE
    BY <2>4
  <2>5. ASSUME NEW p \in Payments, NEW ph \in {"overdue", "unsettled"},
               task'[w] = [phase |-> ph, payment |-> p,
                           status |-> status[p], version |-> version[p]]
        PROVE  FALSE
    BY <2>5
  <2> QED
    BY <1>0, <2>1, <2>2, <2>3, <2>4, <2>5 DEF TaskMoves
<1>5. TasksRead'
  <2> DEFINE Read(k) ==
        /\ k \in Candidate =>
              LET p == PaidBy(k.transfer) IN
              /\ k.version <= version'[p]
              /\ k.version = version'[p] => /\ status'[p] = k.status
                                            /\ received'[p] = k.received
        /\ k \in Due =>
              LET p == k.payment IN
              /\ k.version <= version'[p]
              /\ k.version = version'[p] => status'[p] = k.status
  <2> SUFFICES ASSUME NEW w \in Workers PROVE Read(task'[w])
    BY DEF TasksRead, PaidBy
  <2>1. CASE task'[w] = task[w]
    <3>1. ASSUME task[w] \in Candidate PROVE Read(task[w])
      <4>1. PaidBy(task[w].transfer) \in Payments /\ task[w].version \in Nat
        BY <3>1, PaidByType DEF Candidate
      <4> QED
        BY <1>0, <1>1, <1>2, <3>1, <4>1 DEF Inv, TasksRead, Guarded
    <3>2. ASSUME task[w] \in Due PROVE Read(task[w])
      <4>1. task[w].payment \in Payments /\ task[w].version \in Nat
        BY <3>2 DEF Due
      <4> QED
        BY <1>0, <1>1, <1>2, <3>2, <4>1 DEF Inv, TasksRead, Guarded
    <3> QED
      BY <2>1, <3>1, <3>2
  <2>2. CASE task'[w] = NoTask
    BY <1>2, <2>2
  <2>3. CASE /\ task[w] \in Candidate
             /\ \E ph \in {"gone", "final"} : task'[w] = [task[w] EXCEPT !.phase = ph]
             /\ UNCHANGED <<chainVars, ledger>>
    <3>1. /\ task'[w].transfer = task[w].transfer /\ task'[w].version = task[w].version
          /\ task'[w].status = task[w].status /\ task'[w].received = task[w].received
          /\ task'[w] \in Candidate
      BY <2>3 DEF Candidate
    <3>2. task[w] \notin Due /\ task'[w] \notin Due
      BY <2>3, <3>1 DEF Candidate, Due
    <3>3. /\ task[w].version <= version[PaidBy(task[w].transfer)]
          /\ task[w].version = version[PaidBy(task[w].transfer)] =>
                /\ status[PaidBy(task[w].transfer)] = task[w].status
                /\ received[PaidBy(task[w].transfer)] = task[w].received
      BY <2>3 DEF Inv, TasksRead
    <3>4. UNCHANGED <<version, status, received>>
      BY <2>3 DEF ledger
    <3> QED
      BY <3>1, <3>2, <3>3, <3>4
  <2>4. ASSUME NEW t \in Transfers,
               task'[w] = [phase |-> "asking", transfer |-> t, height |-> row[t].height,
                           fork |-> row[t].fork, status |-> status[PaidBy(t)],
                           received |-> received[PaidBy(t)], version |-> version[PaidBy(t)]],
               UNCHANGED <<chainVars, ledger>>
        PROVE  Read(task'[w])
    <3>1. task'[w].phase = "asking"
      BY <2>4
    <3>2. task'[w] \notin Due
      BY <3>1 DEF Due
    <3>3. /\ task'[w].transfer = t /\ task'[w].version = version[PaidBy(t)]
          /\ task'[w].status = status[PaidBy(t)] /\ task'[w].received = received[PaidBy(t)]
      BY <2>4
    <3> QED
      BY <1>1, <2>4, <3>2, <3>3, PaidByType DEF ledger
  <2>5. ASSUME NEW p \in Payments, NEW ph \in {"overdue", "unsettled"},
               task'[w] = [phase |-> ph, payment |-> p,
                           status |-> status[p], version |-> version[p]],
               UNCHANGED <<chainVars, ledger>>
        PROVE  Read(task'[w])
    <3>1. /\ task'[w].phase = ph /\ task'[w].payment = p
          /\ task'[w].version = version[p] /\ task'[w].status = status[p]
      BY <2>5
    <3>2. task'[w] \notin Candidate
      BY <3>1 DEF Candidate
    <3> QED
      BY <1>1, <2>5, <3>1, <3>2 DEF ledger
  <2> TaskMoves(w)
    BY <1>0
  <2> HIDE DEF Read
  <2> QED
    BY <2>1, <2>2, <2>3, <2>4, <2>5 DEF TaskMoves
<1> QED
  BY <1>3, <1>4, <1>5

\* A payment moves only as it may, to succeeded only by a worker that was told its
\* transfer is final, and to expired only by one that read it as unsettled.
MovesRight ==
    \A p \in Payments : status'[p] # status[p] =>
        /\ CanBecome(status[p], status'[p])
        /\ status'[p] = "succeeded" => \E w \in Workers : /\ Pay(w)
                                                          /\ PaidBy(task[w].transfer) = p
        /\ status'[p] = "expired" => \E w \in Workers : Expire(w) /\ task[w].payment = p

LEMMA MovesStep ==
  ASSUME Inv, [Next]_vars
  PROVE  MovesRight
<1>0. TypeOK
  BY DEF Inv
<1>1. status \in [Payments -> Statuses] /\ task \in [Workers -> Tasks]
  BY <1>0 DEF TypeOK
<1>2. CASE UNCHANGED status
  BY <1>2 DEF MovesRight
<1>3. ASSUME NEW p \in Payments, Await(p) PROVE MovesRight
  <2>1. /\ CanBecome(status[p], "awaiting_payment")
        /\ status' = [status EXCEPT ![p] = "awaiting_payment"]
    BY <1>3 DEF Await, SaveMove
  <2> QED
    BY <1>1, <2>1 DEF MovesRight
<1>4. ASSUME NEW a \in Attempts, MintAttempt(a) \/ StoreAttempt(a) \/ Supersede(a)
      PROVE  MovesRight
  BY <1>2, <1>4 DEF MintAttempt, StoreAttempt, Supersede
<1>5. ASSUME NEW o \in Observers, ObserverStep(o) \/ LoseRound(o) PROVE MovesRight
  BY <1>0, <1>2, <1>5, ObserverLedger
<1>6. ASSUME NEW w \in Workers, WorkerStep(w) \/ PassOver(w) PROVE MovesRight
  <2>1. CASE Pay(w)
    <3>1. task[w] \in Candidate
      BY <1>1, <2>1, TaskPhases DEF Pay
    <3> DEFINE p == PaidBy(task[w].transfer)
    <3>2. p \in Payments
      BY <3>1, PaidByType DEF Candidate
    <3>3. /\ CanBecome(task[w].status, "succeeded")
          /\ task[w].version = version[p]
          /\ status' = [status EXCEPT ![p] = "succeeded"]
      BY <2>1 DEF Pay, SaveMove, Unmoved
    <3>4. status[p] = task[w].status
      BY <3>1, <3>3 DEF Inv, TasksRead
    <3> HIDE DEF p
    <3>5. CanBecome(status[p], "succeeded") /\ status' = [status EXCEPT ![p] = "succeeded"]
      BY <3>3, <3>4
    <3>6. ASSUME NEW q \in Payments, status'[q] # status[q] PROVE q = p
      BY <1>1, <3>2, <3>5, <3>6
    <3> QED
      BY <1>1, <2>1, <3>2, <3>5, <3>6 DEF MovesRight, p
  <2>2. ASSUME NEW want \in {"awaiting_finality", "expired"}, task[w] \in Due,
               CanBecome(task[w].status, want),
               SaveMove(task[w].payment, task[w].version, want),
               want = "expired" => Expire(w)
        PROVE  MovesRight
    <3> DEFINE p == task[w].payment
    <3>1. p \in Payments
      BY <2>2 DEF Due
    <3>2. status[p] = task[w].status /\ status' = [status EXCEPT ![p] = want]
      BY <2>2 DEF SaveMove, Unmoved, Inv, TasksRead
    <3> HIDE DEF p
    <3>3. ASSUME NEW q \in Payments, status'[q] # status[q] PROVE q = p /\ status'[q] = want
      BY <1>1, <3>1, <3>2, <3>3
    <3> QED
      BY <2>2, <3>2, <3>3 DEF MovesRight, p
  <2>3. CASE CloseToPayment(w)
    <3>1. task[w] \in Due
      BY <1>1, <2>3, TaskPhases DEF CloseToPayment
    <3> QED
      BY <2>2, <2>3, <3>1 DEF CloseToPayment
  <2>4. CASE Expire(w)
    <3>1. task[w] \in Due
      BY <1>1, <2>4, TaskPhases DEF Expire
    <3> QED
      BY <2>2, <2>4, <3>1 DEF Expire
  <2>5. CASE \/ \E t \in Transfers : TakeCandidate(w, t)
             \/ \E p \in Payments : TakeOverdue(w, p) \/ TakeUnsettled(w, p)
             \/ Answered(w) \/ GiveUp(w) \/ PassOver(w)
    BY <1>2, <2>5 DEF TakeCandidate, TakeOverdue, TakeUnsettled, Undertake, Answered,
                      GiveUp, PassOver, ledger
  <2> QED
    BY <1>6, <2>1, <2>3, <2>4, <2>5 DEF WorkerStep
<1>7. CASE \/ ChainMines \/ ChainForks \/ ChainFinalizes \/ Tick \/ PutCursor
           \/ UNCHANGED vars
           \/ \E h \in Heights \ {0} : CheckCursor(h)
  BY <1>2, <1>7 DEF ChainMines, ChainForks, ChainFinalizes, Tick, PutCursor, vars,
                    CheckCursor, ledger
<1> QED
  BY <1>3, <1>4, <1>5, <1>6, <1>7 DEF Next

\* A payment that succeeds was paid, and one that has succeeded stays paid.
LEMMA SucceededStep ==
  ASSUME Inv, [Next]_vars
  PROVE  SucceededIsPaid'
<1>0. /\ TypeOK /\ TypeOK' /\ Guarded /\ FinalKept /\ MovesRight
  BY StepKeeps, MovesStep, TypeStep DEF Inv
<1>1. /\ final \in Nat /\ final' \in Nat
      /\ on \in [Transfers -> Nat]
      /\ task \in [Workers -> Tasks]
      /\ Deadline \in [Payments -> Nat]
  BY <1>0 DEF TypeOK, ChainTypeOK
<1> DEFINE Pays(t, p) == /\ PaidBy(t) = p
                         /\ Kind[t] = "full"
                         /\ on[t] \in 1 .. final
                         /\ on[t] < Deadline[p]
<1>2. ASSUME NEW p \in Payments, NEW t \in Transfers, Pays(t, p), received[p] = "full",
             ~CanReceive(status[p]) \/ received'[p] = received[p]
      PROVE  /\ received'[p] = "full"
             /\ \E u \in Transfers : /\ PaidBy(u) = p
                                     /\ Kind[u] = "full"
                                     /\ on'[u] \in 1 .. final'
                                     /\ on'[u] < Deadline[p]
  <2>1. received'[p] = "full"
    BY <1>0, <1>2 DEF Guarded
  <2>2. on'[t] = on[t] /\ final <= final'
    BY <1>0, <1>2 DEF FinalKept
  <2> QED
    BY <1>1, <1>2, <2>1, <2>2
<1>3. ASSUME NEW p \in Payments, status'[p] = "succeeded"
      PROVE  /\ received[p] = "full"
             /\ ~CanReceive(status[p]) \/ received'[p] = received[p]
             /\ \E t \in Transfers : Pays(t, p)
  <2>1. CASE status[p] = "succeeded"
    BY <2>1 DEF Inv, SucceededIsPaid, CanReceive
  <2>2. CASE status[p] # "succeeded"
    <3>1. PICK w \in Workers : Pay(w) /\ PaidBy(task[w].transfer) = p
      BY <1>0, <1>3, <2>2 DEF MovesRight
    <3>2. task[w] \in Candidate
      BY <1>1, <3>1, TaskPhases DEF Pay
    <3>3. /\ task[w].phase = "final" /\ task[w].received = "full"
          /\ task[w].version = version[p] /\ UNCHANGED received
      BY <3>1 DEF Pay, SaveMove, Unmoved
    <3>4. received[p] = "full"
      BY <3>1, <3>2, <3>3 DEF Inv, TasksRead
    <3>5. /\ task[w].transfer \in Transfers
          /\ on[task[w].transfer] = task[w].height
          /\ task[w].height <= final
          /\ InTime(task[w].transfer, task[w].height)
      BY <3>2, <3>3 DEF Inv, FinalStays, TasksJudged, Candidate
    <3>6. Pays(task[w].transfer, p)
      BY <1>1, <3>1, <3>5 DEF InTime
    <3> QED
      BY <3>3, <3>4, <3>5, <3>6
  <2> QED
    BY <2>1, <2>2
<1> QED
  BY <1>2, <1>3 DEF SucceededIsPaid, PaidBy

-----------------------------------------------------------------------
LEMMA InvInit == Init => Inv
<1> SUFFICES ASSUME Init PROVE Inv
  OBVIOUS
<1>1. TypeOK
  BY TypeInit
<1>2. NoTask \notin Candidate /\ NoTask \notin Due
  BY DEF NoTask, Candidate, Due
<1>3. RowsJudged /\ SightsJudged
  BY DEF Init, RowsJudged, SightsJudged, NoRow, NoRound, NothingSeen, Unseen
<1>4. TasksJudged /\ FinalStays /\ TasksRead
  BY <1>2 DEF Init, TasksJudged, FinalStays, TasksRead
<1>5. SucceededIsPaid
  BY DEF Init, SucceededIsPaid
<1> QED
  BY <1>1, <1>3, <1>4, <1>5 DEF Inv

LEMMA InvStep == Inv /\ [Next]_vars => Inv'
<1> SUFFICES ASSUME Inv, [Next]_vars PROVE Inv'
  OBVIOUS
<1>1. TypeOK'
  BY TypeStep DEF Inv
<1>2. RowsJudged' /\ SightsJudged'
  BY JudgedStep DEF Inv
<1>3. TasksJudged' /\ FinalStays' /\ TasksRead'
  BY TasksStep
<1>4. SucceededIsPaid'
  BY SucceededStep
<1> QED
  BY <1>1, <1>2, <1>3, <1>4 DEF Inv

\* The invariant that carries what was judged from the chain to the payment.
THEOREM Inductive == Spec => []Inv
<1>1. Init => Inv
  BY InvInit
<1>2. Inv /\ [Next]_vars => Inv'
  BY InvStep
<1> QED
  BY <1>1, <1>2, PTL DEF Spec

\* No payment is called succeeded that the final part of the chain does not
\* carry a transfer to, enough and in time: however many observers, workers,
\* pages and reorganisations there are, with a provider that overclaims and an
\* operator who moves the cursor.
THEOREM SucceededIsAlwaysPaid == Spec => []SucceededIsPaid
<1>1. Inv => SucceededIsPaid
  BY DEF Inv
<1> QED
  BY <1>1, Inductive, PTL

\* A payment that succeeded, failed or expired is never moved again, and what
\* it says arrived is never taken back.
THEOREM ClosedForGood == Spec => ClosedStays
<1>1. ASSUME Inv, [Next]_vars
      PROVE  [\A p \in Payments : status[p] \in Closed =>
                 status'[p] = status[p] /\ received'[p] = received[p]]_vars
  <2>1. Guarded /\ MovesRight
    BY <1>1, StepKeeps, MovesStep DEF Inv
  <2>2. ASSUME NEW p \in Payments, status[p] \in Closed
        PROVE  status'[p] = status[p] /\ received'[p] = received[p]
    <3>1. Moves[status[p]] = {}
      BY <2>2 DEF Closed
    <3>2. ~CanReceive(status[p])
      BY <2>2 DEF Closed, Moves, CanReceive, Statuses
    <3> QED
      BY <2>1, <3>1, <3>2 DEF Guarded, MovesRight, CanBecome
  <2> QED
    BY <2>2
<1> QED
  BY <1>1, Inductive, PTL DEF Spec, ClosedStays

-----------------------------------------------------------------------
(***************************************************************************)
(* Settlement implements Lifecycle.                                        *)
(***************************************************************************)
LEMMA SameMachine ==
  /\ Promised!Statuses = Statuses /\ Promised!Amounts = Amounts
  /\ \A s, want : CanBecome(s, want) => Promised!CanBecome(s, want)
  /\ \A s : CanReceive(s) => Promised!CanReceive(s)
BY DEF Promised!Statuses, Statuses, Promised!Amounts, Amounts, Promised!CanBecome, CanBecome,
       Promised!Moves, Moves, Promised!CanReceive, CanReceive

\* A payment that is not moved, and of which nothing more is told.
LEMMA PromiseKept ==
  ASSUME NEW p \in Payments, status'[p] = status[p], outbox'[p] = outbox[p],
         received'[p] # received[p] => CanReceive(status[p])
  PROVE  Promised!Step(p)
BY SameMachine DEF Promised!Step, Promised!Receives, Promised!Announces

\* A move that was read at the version it is saved over.
LEMMA PromiseMoved ==
  ASSUME TypeOK, NEW p \in Payments, NEW at, NEW want \in Events \cap Statuses,
         SaveMove(p, at, want), CanBecome(status[p], want),
         want = "succeeded" => received[p] = "full"
  PROVE  \A q \in Payments : Promised!Step(q)
<1>1. /\ status' = [status EXCEPT ![p] = want]
      /\ outbox' = [outbox EXCEPT ![p] = Append(@, want)]
      /\ received' = received
  BY DEF SaveMove
<1>2. status \in [Payments -> Statuses] /\ DOMAIN outbox = Payments
  BY DEF TypeOK
<1>3. status'[p] = want /\ outbox'[p] = Append(outbox[p], want)
  BY <1>1, <1>2
<1>4. Promised!CanBecome(status[p], status'[p])
  BY <1>3, SameMachine
<1>5. Promised!Move(p)
  BY <1>1, <1>3, <1>4 DEF Promised!Move
<1>6. ASSUME NEW q \in Payments, q # p PROVE Promised!Step(q)
  <2>1. status'[q] = status[q] /\ outbox'[q] = outbox[q]
    BY <1>1, <1>2, <1>6
  <2> QED
    BY <1>1, <2>1, PromiseKept
<1> QED
  BY <1>5, <1>6 DEF Promised!Step

\* What a round found changes what arrived only where something can.
LEMMA PromiseRecorded ==
  ASSUME TypeOK, NEW s \in [Transfers -> Sight], NEW stamp \in BOOLEAN,
         NEW lost \in SUBSET Transfers, Record(s, stamp, lost)
  PROVE  \A q \in Payments : Promised!Step(q)
<1> SUFFICES ASSUME NEW q \in Payments PROVE Promised!Step(q)
  OBVIOUS
<1>1. Guarded /\ status' = status /\ outbox'[q] = outbox[q] \o Announced(s, q)
  BY RecordStep DEF Record
<1>2. received'[q] # received[q] => Promised!CanReceive(status[q])
  BY <1>1, SameMachine DEF Guarded
<1> DEFINE n == Cardinality({t \in Confirming(s) : PaidBy(t) = q})
<1>3. n \in Nat
  <2>1. IsFiniteSet({t \in Confirming(s) : PaidBy(t) = q})
    BY TransfersFinite, FS_Subset DEF Confirming, Seen
  <2> QED
    BY <2>1, FS_CardinalityType
<1>4. Announced(s, q) = [i \in 1 .. n |-> "confirming"]
  BY DEF Announced
<1>5. outbox[q] \in Seq(Events)
  BY DEF TypeOK
<1> HIDE DEF n
<1>6. CASE n = 0
  <2>1. [i \in 1 .. n |-> "confirming"] = <<>>
    BY <1>6
  <2>2. outbox'[q] = outbox[q]
    BY <1>1, <1>4, <1>5, <2>1, ConcatEmptySeq
  <2>3. Promised!Announces(q)
    BY <2>2 DEF Promised!Announces
  <2>4. status'[q] = status[q]
    BY <1>1
  <2>5. Promised!Receives(q)
    BY <1>2, <2>4 DEF Promised!Receives
  <2> QED
    BY <2>3, <2>5 DEF Promised!Step
<1>7. CASE n # 0
  <2>1. Announced(s, q) \in Seq(Events) /\ Len(Announced(s, q)) = n
    BY <1>3, <1>4 DEF Events
  <2>2. Len(outbox'[q]) = Len(outbox[q]) + n
    <3> DEFINE o == outbox[q]
               a == Announced(s, q)
    <3>1. Len(o \o a) = Len(o) + n
      <4>1. o \in Seq(Events) /\ a \in Seq(Events) /\ Len(a) = n
        BY <1>5, <2>1
      <4> HIDE DEF o, a
      <4> QED
        BY <4>1, ConcatProperties
    <3> QED
      BY <1>1, <3>1
  <2>3. Len(outbox[q]) \in Nat
    BY <1>5, LenProperties
  <2>4. n \in 1 .. Len(outbox'[q])
    BY <1>3, <1>7, <2>2, <2>3
  <2>5. Promised!Announces(q)
    BY <1>1, <1>4, <2>4 DEF Promised!Announces
  <2> QED
    BY <1>1, <1>2, <2>5 DEF Promised!Step, Promised!Receives
<1> QED
  BY <1>6, <1>7

LEMMA PromiseStep ==
  ASSUME Inv, [Next]_vars
  PROVE  UNCHANGED <<status, received, outbox>> \/ \A p \in Payments : Promised!Step(p)
<1>0. TypeOK
  BY DEF Inv
<1>1. status \in [Payments -> Statuses] /\ task \in [Workers -> Tasks]
  BY <1>0 DEF TypeOK
<1>2. {"awaiting_payment", "awaiting_finality", "succeeded", "expired"}
         \subseteq Events \cap Statuses
  BY DEF Events, Statuses
<1>3. ASSUME NEW p \in Payments, Await(p) PROVE \A q \in Payments : Promised!Step(q)
  <2>1. CanBecome(status[p], "awaiting_payment") /\ SaveMove(p, version[p], "awaiting_payment")
    BY <1>3 DEF Await
  <2> QED
    BY <1>0, <1>2, <2>1, PromiseMoved
<1>4. ASSUME NEW o \in Observers, WriteBehind(o) PROVE \A q \in Payments : Promised!Step(q)
  <2> DEFINE lost == Lost(round[o].seen, round[o].from.height + 1, round[o].to.height)
  <2>1. Record(round[o].seen, TRUE, lost)
    BY <1>4 DEF WriteBehind
  <2>2. lost \in SUBSET Transfers /\ TRUE \in BOOLEAN
    BY DEF Lost
  <2>3. round[o].seen \in [Transfers -> Sight]
    BY <1>0 DEF TypeOK, Round
  <2> HIDE DEF lost
  <2> QED
    BY <1>0, <2>1, <2>2, <2>3, PromiseRecorded
<1>5. ASSUME NEW o \in Observers, WriteAhead(o) PROVE \A q \in Payments : Promised!Step(q)
  <2>1. Record(round[o].seen, FALSE, {})
    BY <1>5 DEF WriteAhead
  <2>2. {} \in SUBSET Transfers /\ FALSE \in BOOLEAN
    OBVIOUS
  <2>3. round[o].seen \in [Transfers -> Sight]
    BY <1>0 DEF TypeOK, Round
  <2> QED
    BY <1>0, <2>1, <2>2, <2>3, PromiseRecorded
<1>6. ASSUME NEW w \in Workers, Pay(w) PROVE \A q \in Payments : Promised!Step(q)
  <2>1. task[w] \in Candidate
    BY <1>1, <1>6, TaskPhases DEF Pay
  <2>2. PaidBy(task[w].transfer) \in Payments
    BY <2>1, PaidByType DEF Candidate
  <2>3. /\ CanBecome(task[w].status, "succeeded") /\ task[w].received = "full"
        /\ task[w].version = version[PaidBy(task[w].transfer)]
        /\ SaveMove(PaidBy(task[w].transfer), task[w].version, "succeeded")
    BY <1>6 DEF Pay, SaveMove, Unmoved
  <2>4. /\ status[PaidBy(task[w].transfer)] = task[w].status
        /\ received[PaidBy(task[w].transfer)] = "full"
    BY <2>1, <2>3 DEF Inv, TasksRead
  <2> QED
    BY <1>0, <1>2, <2>2, <2>3, <2>4, PromiseMoved
<1>7. ASSUME NEW w \in Workers, NEW want \in {"awaiting_finality", "expired"},
             task[w] \in Due, CanBecome(task[w].status, want),
             SaveMove(task[w].payment, task[w].version, want)
      PROVE  \A q \in Payments : Promised!Step(q)
  <2>1. task[w].payment \in Payments
    BY <1>7 DEF Due
  <2>2. status[task[w].payment] = task[w].status
    BY <1>7 DEF SaveMove, Unmoved, Inv, TasksRead
  <2> QED
    BY <1>0, <1>2, <1>7, <2>1, <2>2, PromiseMoved
<1>8. ASSUME NEW w \in Workers, CloseToPayment(w) \/ Expire(w)
      PROVE  \A q \in Payments : Promised!Step(q)
  <2>1. task[w] \in Due
    BY <1>1, <1>8, TaskPhases DEF CloseToPayment, Expire
  <2> QED
    BY <1>7, <1>8, <2>1 DEF CloseToPayment, Expire
<1>9. ASSUME NEW w \in Workers, GiveUp(w) PROVE \A q \in Payments : Promised!Step(q)
  <2>1. task[w] \in Candidate
    BY <1>1, <1>9, TaskPhases DEF GiveUp
  <2>2. Guarded /\ UNCHANGED <<status, outbox>>
    BY <1>0, <1>9, <2>1, GiveUpStep DEF GiveUp
  <2> QED
    BY <2>2, PromiseKept DEF Guarded
<1>10. CASE \/ \E o \in Observers : \/ StartCursor(o) \/ Begin(o) \/ ScanBehind(o)
                                   \/ ScanAhead(o) \/ LoseRound(o)
            \/ \E a \in Attempts : MintAttempt(a) \/ StoreAttempt(a) \/ Supersede(a)
  BY <1>10 DEF StartCursor, Begin, ScanBehind, ScanAhead, LoseRound, ledger,
               MintAttempt, StoreAttempt, Supersede
<1>11. CASE \E w \in Workers : \/ \E t \in Transfers : TakeCandidate(w, t)
                               \/ \E p \in Payments : TakeOverdue(w, p) \/ TakeUnsettled(w, p)
                               \/ Answered(w) \/ PassOver(w)
  BY <1>11 DEF TakeCandidate, TakeOverdue, TakeUnsettled, Undertake, Answered, PassOver, ledger
<1>12. CASE \/ ChainMines \/ ChainForks \/ ChainFinalizes \/ Tick \/ PutCursor
            \/ UNCHANGED vars
            \/ \E h \in Heights \ {0} : CheckCursor(h)
  BY <1>12 DEF ChainMines, ChainForks, ChainFinalizes, Tick, PutCursor, vars, CheckCursor, ledger
<1> QED
  BY <1>3, <1>4, <1>5, <1>6, <1>8, <1>9, <1>10, <1>11, <1>12
  DEF Next, ObserverStep, WorkerStep

\* Every behaviour of the observers, workers and operator is one a merchant is promised:
\* payments move along their machine, one event to a move, and succeed on the full amount
\* only (SaveMove's version, Record's and GiveUp's guards).
THEOREM Implements == Spec => KeepsPromise
<1>1. Init => Promised!Init
  BY DEF Init, Promised!Init
<1>2. ASSUME Inv, [Next]_vars PROVE [Promised!Next]_(Promised!vars)
  <2>1. CASE UNCHANGED <<status, received, outbox>>
    BY <2>1 DEF Promised!vars
  <2>2. CASE \A p \in Payments : Promised!Step(p)
    <3>1. TypeOK'
      BY <1>2, TypeStep DEF Inv
    <3>2. /\ status' \in [Payments -> Promised!Statuses]
          /\ received' \in [Payments -> Promised!Amounts]
          /\ DOMAIN outbox' = Payments
      BY <3>1, SameMachine DEF TypeOK
    <3> QED
      BY <2>2, <3>2 DEF Promised!Next
  <2> QED
    BY <1>2, <2>1, <2>2, PromiseStep
<1> QED
  BY <1>1, <1>2, Inductive, PTL DEF Spec, KeepsPromise, Promised!Spec

-----------------------------------------------------------------------
(***************************************************************************)
(* Books: what payments say arrived and what the rows hold for them.       *)
(*                                                                         *)
(* Neither half of BooksBalance is inductive.  What holds an arrival up is  *)
(* a row, which the next round may write over: it stays evidence because a  *)
(* transfer is judged by the same rule each time (Judgements).  And a       *)
(* payment that is opened must have nothing on record yet: whatever carries *)
(* a key, or tells of one, comes after the key was handed out (Keyed), and  *)
(* that after the payment was opened.  LateClosed is for what expires: the  *)
(* rules call a transfer that came in time late only where the payment had  *)
(* been closed.                                                            *)
(***************************************************************************)
\* What Judge may make of transfer t, whenever it is asked, and of a block.
Verdicts(t) == CASE Kind[t] = "wrong" -> {"wrong"}
                 [] Kind[t] = "full" -> {"matched", "late"}
                 [] OTHER -> {"short"}

Judgements ==
    \A t \in Transfers :
        /\ row[t].reason \in Verdicts(t) \cup {"none", "vanished"}
        /\ row[t].reason \in Verdicts(t) => row[t].height > 0
        /\ \A o \in Observers :
              /\ round[o].seen[t].reason \in Verdicts(t) \cup {"none"}
              /\ round[o].seen[t].reason \in Verdicts(t) => round[o].seen[t].height > 0

\* Transfer t was on the chain, or something of the deployment tells of it.
Known(t) == \/ on[t] > 0
            \/ row[t].reason # "none"
            \/ \E o \in Observers : round[o].seen[t].reason # "none"
            \/ \E w \in Workers : task[w] \in Candidate /\ task[w].transfer = t

Keyed == /\ \A t \in Transfers : Known(t) => KeyOf[t] \in Handed
         /\ \A a \in Attempts : attempt[a] # "none" => status[PaymentOf[a]] # "created"

LateClosed ==
    \A t \in Transfers :
        /\ row[t].reason = "late" /\ row[t].height < Deadline[PaidBy(t)] =>
              status[PaidBy(t)] \in Closed
        /\ \A o \in Observers :
              /\ round[o].seen[t].reason = "late"
              /\ round[o].seen[t].height < Deadline[PaidBy(t)]
              => status[PaidBy(t)] \in Closed

Unopened == \A p \in Payments : status[p] = "created" => received[p] = "nothing"

Books == /\ Inv
         /\ Judgements
         /\ Keyed
         /\ LateClosed
         /\ Unopened
         /\ BooksBalance

\* What a step may make of a row: leave it, write what an observer saw of it,
\* or mark it vanished.
RowMoves(t) ==
    \/ row'[t] = row[t]
    \/ \E o \in Observers : /\ round[o].seen[t].reason # "none"
                            /\ row'[t].reason = round[o].seen[t].reason
                            /\ row'[t].height = round[o].seen[t].height
    \/ row'[t].reason = "vanished" /\ Known(t)

\* What a step may make of an observer's sight of transfer t: leave it, forget
\* it, or make one of what the chain carries and the ledger says.
Sighted(t) ==
    [reason |-> Judge(Kind[t], on[t], Deadline[PaidBy(t)], status[PaidBy(t)]),
     height |-> on[t], fork |-> made[on[t]],
     issued |-> attempt[KeyOf[t]] = "issued", revision |-> revision[KeyOf[t]]]

SightMoves(o, t) ==
    \/ round'[o].seen[t] = round[o].seen[t]
    \/ round'[o].seen[t] = Unseen
    \/ /\ on[t] > 0
       /\ round'[o].seen[t] = Sighted(t)
       /\ UNCHANGED <<chainVars, ledger>>

\* The steps that write rows: an observer's, and a worker's that gives one up.
RowsWritten == \/ \E o \in Observers : WriteBehind(o) \/ WriteAhead(o)
               \/ \E w \in Workers : GiveUp(w)

\* What a step may make of an attempt.
AttemptMoves(a) ==
    \/ attempt'[a] = attempt[a]
    \/ /\ attempt[a] = "none" /\ attempt'[a] = "minted"
       /\ status[PaymentOf[a]] = "awaiting_payment"
       /\ cursor # Nowhere
       /\ UNCHANGED <<status, cursor>>
    \/ attempt[a] = "minted" /\ attempt'[a] \in {"issued", "none"}
    \/ attempt[a] = "issued" /\ attempt'[a] = "superseded"
    \/ /\ attempt'[a] = "confirming" /\ \E t \in Transfers : KeyOf[t] = a /\ Known(t)
       /\ RowsWritten
    \/ attempt[a] = "confirming" /\ attempt'[a] = "issued" /\ RowsWritten

\* What a step may make of where a transfer is.
OnMoves(t) == \/ on'[t] = on[t]
              \/ on'[t] = 0
              \/ on'[t] > final /\ KeyOf[t] \in Handed /\ UNCHANGED <<ledger, round, task>>

\* What recording the sights s, with the rows lost, makes of a row.
Written(s, stamp, lost, t) ==
    \/ /\ s[t].reason # "none"
       /\ row'[t] = [reason |-> s[t].reason, height |-> s[t].height,
                     fork |-> s[t].fork, final |-> row[t].final \/ stamp]
    \/ s[t].reason = "none" /\ t \notin lost /\ row'[t] = row[t]
    \/ s[t].reason = "none" /\ t \in lost /\ row'[t] = [row[t] EXCEPT !.reason = "vanished"]

\* Recording makes rows of sights, and marks none it saw.
LEMMA RecordRows ==
  ASSUME NEW s \in [Transfers -> Sight], NEW stamp \in BOOLEAN,
         NEW lost \in SUBSET Transfers, lost \cap Seen(s) = {}, Record(s, stamp, lost),
         NEW t \in Transfers
  PROVE  Written(s, stamp, lost, t)
<1>1. row' = Vanished(Recorded(s, stamp), lost)
  BY DEF Record
<1>2. CASE s[t].reason # "none"
  <2>1. t \in Seen(s) /\ t \notin lost
    BY <1>2 DEF Seen
  <2> QED
    BY <1>1, <1>2, <2>1 DEF Vanished, Recorded, Written
<1>3. CASE s[t].reason = "none"
  <2>1. t \notin Seen(s)
    BY <1>3 DEF Seen
  <2> QED
    BY <1>1, <1>3, <2>1 DEF Vanished, Recorded, Written
<1> QED
  BY <1>2, <1>3

\* What a round writes, and what it found gone.
LEMMA Writes ==
  ASSUME TypeOK, NEW o \in Observers, WriteBehind(o) \/ WriteAhead(o)
  PROVE  \E stamp \in BOOLEAN, lost \in SUBSET Transfers :
            /\ Record(round[o].seen, stamp, lost)
            /\ lost \cap Seen(round[o].seen) = {}
            /\ \A t \in lost : row[t].reason \notin {"none", "vanished"}
            /\ round[o].seen \in [Transfers -> Sight]
            /\ \A t \in Transfers : Written(round[o].seen, stamp, lost, t)
            /\ UNCHANGED <<chainVars, task>>
<1>1. round[o].seen \in [Transfers -> Sight]
  BY DEF TypeOK, Round
<1>2. CASE WriteBehind(o)
  <2> DEFINE lost == Lost(round[o].seen, round[o].from.height + 1, round[o].to.height)
  <2>1. Record(round[o].seen, TRUE, lost) /\ UNCHANGED <<chainVars, task>>
    BY <1>2 DEF WriteBehind
  <2>2. /\ lost \in SUBSET Transfers /\ TRUE \in BOOLEAN
        /\ lost \cap Seen(round[o].seen) = {}
        /\ \A t \in lost : row[t].reason \notin {"none", "vanished"}
    BY DEF Lost
  <2> HIDE DEF lost
  <2>3. \A t \in Transfers : Written(round[o].seen, TRUE, lost, t)
    BY <1>1, <2>1, <2>2, RecordRows
  <2> QED
    BY <1>1, <2>1, <2>2, <2>3
<1>3. CASE WriteAhead(o)
  <2>1. Record(round[o].seen, FALSE, {}) /\ UNCHANGED <<chainVars, task>>
    BY <1>3 DEF WriteAhead
  <2>2. {} \in SUBSET Transfers /\ FALSE \in BOOLEAN /\ {} \cap Seen(round[o].seen) = {}
    OBVIOUS
  <2>3. \A t \in Transfers : Written(round[o].seen, FALSE, {}, t)
    BY <1>1, <2>1, <2>2, RecordRows
  <2> QED
    BY <1>1, <2>1, <2>2, <2>3
<1> QED
  BY <1>2, <1>3

\* The steps that write no row and nothing of what arrived, and the three that do.
LEMMA QuietSteps ==
  ASSUME [Next]_vars
  PROVE  \/ UNCHANGED <<row, received>>
         \/ \E o \in Observers : WriteBehind(o) \/ WriteAhead(o)
         \/ \E w \in Workers : GiveUp(w)
<1>1. CASE \/ ChainMines \/ ChainForks \/ ChainFinalizes \/ Tick \/ PutCursor
           \/ UNCHANGED vars
           \/ \E p \in Payments : Await(p)
           \/ \E a \in Attempts : MintAttempt(a) \/ StoreAttempt(a) \/ Supersede(a)
           \/ \E h \in Heights \ {0} : CheckCursor(h)
  BY <1>1 DEF ChainMines, ChainForks, ChainFinalizes, Tick, PutCursor, vars, ledger, Await,
              SaveMove, MintAttempt, StoreAttempt, Supersede, CheckCursor
<1>2. ASSUME NEW o \in Observers, ObserverStep(o) \/ LoseRound(o)
      PROVE  \/ UNCHANGED <<row, received>>
             \/ WriteBehind(o) \/ WriteAhead(o)
  BY <1>2 DEF ObserverStep, StartCursor, Begin, ScanBehind, ScanAhead, LoseRound, ledger
<1>3. ASSUME NEW w \in Workers, WorkerStep(w) \/ PassOver(w)
      PROVE  UNCHANGED <<row, received>> \/ GiveUp(w)
  BY <1>3 DEF WorkerStep, TakeCandidate, TakeOverdue, TakeUnsettled, Undertake, Answered, Pay,
              SaveMove, CloseToPayment, Expire, PassOver, ledger
<1> QED
  BY <1>1, <1>2, <1>3 DEF Next

LEMMA RowStep ==
  ASSUME TypeOK, [Next]_vars
  PROVE  \A t \in Transfers : RowMoves(t)
<1>1. CASE UNCHANGED row
  BY <1>1 DEF RowMoves
<1>2. ASSUME NEW o \in Observers, WriteBehind(o) \/ WriteAhead(o), NEW t \in Transfers
      PROVE  RowMoves(t)
  <2>1. PICK stamp \in BOOLEAN, lost \in SUBSET Transfers :
            /\ Record(round[o].seen, stamp, lost)
            /\ lost \cap Seen(round[o].seen) = {}
            /\ \A u \in lost : row[u].reason \notin {"none", "vanished"}
            /\ \A u \in Transfers : Written(round[o].seen, stamp, lost, u)
    BY <1>2, Writes
  <2>2. CASE /\ round[o].seen[t].reason # "none"
             /\ row'[t] = [reason |-> round[o].seen[t].reason, height |-> round[o].seen[t].height,
                           fork |-> round[o].seen[t].fork, final |-> row[t].final \/ stamp]
    BY <2>2 DEF RowMoves
  <2>3. CASE row'[t] = row[t]
    BY <2>3 DEF RowMoves
  <2>4. CASE t \in lost /\ row'[t] = [row[t] EXCEPT !.reason = "vanished"]
    <3>1. row[t] \in Row
      BY DEF TypeOK
    <3>2. row'[t].reason = "vanished"
      BY <2>4, <3>1 DEF Row
    <3> QED
      BY <2>1, <2>4, <3>2 DEF RowMoves, Known
  <2> QED
    BY <2>1, <2>2, <2>3, <2>4 DEF Written
<1>3. ASSUME NEW w \in Workers, GiveUp(w), NEW t \in Transfers PROVE RowMoves(t)
  <2>1. task[w] \in Candidate
    BY <1>3, TaskPhases DEF GiveUp, TypeOK
  <2>2. row' = Vanished(row, {task[w].transfer})
    BY <1>3 DEF GiveUp
  <2>3. CASE t = task[w].transfer
    <3>1. row[t] \in Row /\ row'[t] = [row[t] EXCEPT !.reason = "vanished"]
      BY <2>2, <2>3 DEF TypeOK, Vanished
    <3>2. row'[t].reason = "vanished"
      BY <3>1 DEF Row
    <3> QED
      BY <2>1, <2>3, <3>2 DEF RowMoves, Known
  <2>4. CASE t # task[w].transfer
    BY <2>2, <2>4 DEF Vanished, RowMoves
  <2> QED
    BY <2>3, <2>4
<1> QED
  BY <1>1, <1>2, <1>3, QuietSteps

\* A scan makes a sight of what the chain carries in the range, and of nothing else.
LEMMA ScanOne ==
  ASSUME NEW first, NEW last, NEW t \in Transfers
  PROVE  \/ on[t] \in first .. last /\ Scan(first, last)[t] = Sighted(t)
         \/ on[t] \notin first .. last /\ Scan(first, last)[t] = Unseen
BY DEF Scan, Sighted

LEMMA SightStep ==
  ASSUME TypeOK, [Next]_vars
  PROVE  \A o \in Observers, t \in Transfers : SightMoves(o, t)
<1>0. round \in [Observers -> Round]
  BY DEF TypeOK
<1>1. CASE UNCHANGED round
  BY <1>1 DEF SightMoves
<1>2. ASSUME NEW o \in Observers, ObserverStep(o) \/ LoseRound(o),
             NEW q \in Observers, NEW t \in Transfers
      PROVE  SightMoves(q, t)
  <2>0. \E r : round' = [round EXCEPT ![o] = r]
    <3>1. CASE StartCursor(o)
      BY <1>0, <3>1 DEF StartCursor
    <3> QED
      BY <1>2, <3>1 DEF ObserverStep, Begin, ScanBehind, WriteBehind, ScanAhead, WriteAhead,
                        LoseRound
  <2>1. CASE q # o
    <3>1. round'[q] = round[q]
      BY <1>0, <2>0, <2>1
    <3> QED
      BY <3>1 DEF SightMoves
  <2>2. ASSUME NEW r, round' = [round EXCEPT ![o] = r], r.seen = NothingSeen, q = o
        PROVE  SightMoves(q, t)
    BY <1>0, <2>2 DEF SightMoves, NothingSeen
  <2>3. CASE StartCursor(o)
    BY <1>1, <2>3 DEF StartCursor, SightMoves
  <2>4. CASE Begin(o) /\ q = o
    <3> DEFINE r(f) == [NoRound EXCEPT !.phase = IF f > cursor.height THEN "behind" ELSE "ahead",
                                       !.head = BlockAt(f), !.latest = latest,
                                       !.from = IF f > cursor.height THEN cursor ELSE Nowhere]
    <3>1. PICK f \in Claims : round' = [round EXCEPT ![o] = r(f)]
      BY <2>4 DEF Begin
    <3>2. r(f).seen = NothingSeen
      BY DEF NoRound
    <3> HIDE DEF r
    <3> QED
      BY <2>2, <2>4, <3>1, <3>2
  <2>5. CASE ScanBehind(o) /\ q = o
    <3> DEFINE last == IF round[o].head.height > round[o].from.height + Width
                       THEN round[o].from.height + Width ELSE round[o].head.height
               first == round[o].from.height + 1
               seen == Scan(first, last)
               to   == Position(round[o], last)
               r    == [round[o] EXCEPT !.phase = "found", !.to = to, !.seen = seen]
    <3>1. round' = [round EXCEPT ![o] = r] /\ UNCHANGED <<chainVars, ledger>>
      BY <2>5 DEF ScanBehind
    <3>2. round[o] \in Round
      BY <1>0
    <3>3. r.seen = seen
      <4> HIDE DEF seen, to
      <4> QED
        BY <3>2 DEF Round
    <3>4. round'[o].seen = seen
      <4> HIDE DEF r, seen
      <4> QED
        BY <1>0, <3>1, <3>3
    <3>5. first > 0 /\ first \in Nat /\ last \in Nat
      BY <3>2 DEF Round, Block, Heights
    <3> HIDE DEF first, last
    <3>6. \/ on[t] \in first .. last /\ seen[t] = Sighted(t)
          \/ seen[t] = Unseen
      BY ScanOne
    <3>7. on[t] \in first .. last => on[t] > 0
      BY <3>5
    <3> HIDE DEF r, seen
    <3> QED
      BY <2>5, <3>1, <3>4, <3>6, <3>7 DEF SightMoves
  <2>6. CASE WriteBehind(o) /\ q = o
    <3> DEFINE r == [NoRound EXCEPT !.phase = "ahead",
                                    !.head = round[o].head, !.latest = round[o].latest]
    <3>1. round' = [round EXCEPT ![o] = r]
      BY <2>6 DEF WriteBehind
    <3>2. r.seen = NothingSeen
      BY DEF NoRound
    <3> HIDE DEF r
    <3> QED
      BY <2>2, <2>6, <3>1, <3>2
  <2>7. CASE ScanAhead(o) /\ q = o
    <3> DEFINE first == FirstAhead(round[o])
               last  == round[o].latest
               seen  == Scan(first, last)
               r     == IF Seen(seen) = {} THEN NoRound
                        ELSE [NoRound EXCEPT !.phase = "spied", !.seen = seen]
    <3>1. round' = [round EXCEPT ![o] = r] /\ UNCHANGED <<chainVars, ledger>>
      BY <2>7 DEF ScanAhead
    <3>2. r = NoRound \/ r.seen = seen
      BY DEF NoRound
    <3>3. round'[o].seen = NothingSeen \/ round'[o].seen = seen
      <4> HIDE DEF r, seen
      <4> QED
        BY <1>0, <3>1, <3>2 DEF NoRound
    <3>4. first > 0 /\ first \in Nat /\ last \in Nat
      <4>1. round[o] \in Round
        BY <1>0
      <4> QED
        BY <4>1 DEF FirstAhead, Round, Block, Heights
    <3> HIDE DEF first, last
    <3>5. \/ on[t] \in first .. last /\ seen[t] = Sighted(t)
          \/ seen[t] = Unseen
      BY ScanOne
    <3>6. on[t] \in first .. last => on[t] > 0
      BY <3>4
    <3> HIDE DEF seen
    <3>7. NothingSeen[t] = Unseen
      BY DEF NothingSeen
    <3> QED
      BY <2>7, <3>1, <3>3, <3>5, <3>6, <3>7 DEF SightMoves
  <2>8. CASE (WriteAhead(o) \/ LoseRound(o)) /\ q = o
    <3>1. round' = [round EXCEPT ![o] = NoRound] /\ NoRound.seen = NothingSeen
      BY <2>8 DEF WriteAhead, LoseRound, NoRound
    <3> QED
      BY <2>2, <2>8, <3>1
  <2> QED
    BY <1>2, <2>1, <2>3, <2>4, <2>5, <2>6, <2>7, <2>8 DEF ObserverStep
<1>3. ASSUME NEW w \in Workers, WorkerStep(w) \/ PassOver(w) PROVE UNCHANGED round
  BY <1>3 DEF WorkerStep, TakeCandidate, TakeOverdue, TakeUnsettled, Undertake,
              Answered, Pay, GiveUp, CloseToPayment, Expire, PassOver
<1>4. CASE \/ ChainMines \/ ChainForks \/ ChainFinalizes \/ Tick \/ PutCursor
           \/ UNCHANGED vars
           \/ \E p \in Payments : Await(p)
           \/ \E a \in Attempts : MintAttempt(a) \/ StoreAttempt(a) \/ Supersede(a)
           \/ \E h \in Heights \ {0} : CheckCursor(h)
  BY <1>1, <1>4 DEF ChainMines, ChainForks, ChainFinalizes, Tick, PutCursor, vars, Await,
                    MintAttempt, StoreAttempt, Supersede, CheckCursor
<1> QED
  BY <1>1, <1>2, <1>3, <1>4 DEF Next

LEMMA AttemptStep ==
  ASSUME TypeOK, [Next]_vars
  PROVE  \A a \in Attempts : AttemptMoves(a)
<1>0. attempt \in [Attempts -> AttemptStatuses]
  BY DEF TypeOK
<1>1. CASE UNCHANGED attempt
  BY <1>1 DEF AttemptMoves
<1>2. ASSUME NEW o \in Observers, WriteBehind(o) \/ WriteAhead(o), NEW a \in Attempts
      PROVE  AttemptMoves(a)
  <2>1. PICK stamp \in BOOLEAN, lost \in SUBSET Transfers : Record(round[o].seen, stamp, lost)
    BY <1>2, Writes
  <2> DEFINE s     == round[o].seen
             freed == Unconfirmed(Vanished(Recorded(s, stamp), lost), lost)
             taken == {KeyOf[t] : t \in Confirming(s)}
  <2>2. attempt'[a] = IF a \in taken THEN "confirming"
                      ELSE IF a \in freed THEN "issued" ELSE attempt[a]
    BY <2>1 DEF Record
  <2>3. a \in freed => attempt[a] = "confirming"
    BY DEF Unconfirmed
  <2>4. a \in taken => \E t \in Transfers : KeyOf[t] = a /\ Known(t)
    BY DEF Confirming, Seen, Known
  <2> HIDE DEF freed, taken
  <2>5. RowsWritten
    BY <1>2 DEF RowsWritten
  <2> QED
    BY <2>2, <2>3, <2>4, <2>5 DEF AttemptMoves
<1>3. ASSUME NEW w \in Workers, GiveUp(w), NEW a \in Attempts PROVE AttemptMoves(a)
  <2> DEFINE freed == Unconfirmed(Vanished(row, {task[w].transfer}), {task[w].transfer})
  <2>1. attempt'[a] = IF a \in freed THEN "issued" ELSE attempt[a]
    BY <1>3 DEF GiveUp
  <2>2. a \in freed => attempt[a] = "confirming"
    BY DEF Unconfirmed
  <2> HIDE DEF freed
  <2>3. RowsWritten
    BY <1>3 DEF RowsWritten
  <2> QED
    BY <2>1, <2>2, <2>3 DEF AttemptMoves
<1>4. ASSUME NEW b \in Attempts, MintAttempt(b) \/ StoreAttempt(b) \/ Supersede(b),
             NEW a \in Attempts
      PROVE  AttemptMoves(a)
  <2>1. CASE MintAttempt(b)
    BY <1>0, <2>1 DEF MintAttempt, AttemptMoves
  <2>2. CASE StoreAttempt(b)
    BY <1>0, <2>2 DEF StoreAttempt, AttemptMoves
  <2>3. CASE Supersede(b)
    BY <1>0, <2>3 DEF Supersede, AttemptMoves
  <2> QED
    BY <1>4, <2>1, <2>2, <2>3
<1>5. ASSUME NEW o \in Observers, ObserverStep(o) \/ LoseRound(o),
             ~WriteBehind(o), ~WriteAhead(o)
      PROVE  UNCHANGED attempt
  BY <1>5 DEF ObserverStep, StartCursor, Begin, ScanBehind, ScanAhead, LoseRound, ledger
<1>6. ASSUME NEW w \in Workers, WorkerStep(w) \/ PassOver(w), ~GiveUp(w)
      PROVE  UNCHANGED attempt
  BY <1>6 DEF WorkerStep, TakeCandidate, TakeOverdue, TakeUnsettled, Undertake, Answered, Pay,
              SaveMove, CloseToPayment, Expire, PassOver, ledger
<1>7. CASE \/ ChainMines \/ ChainForks \/ ChainFinalizes \/ Tick \/ PutCursor
           \/ UNCHANGED vars
           \/ \E p \in Payments : Await(p)
           \/ \E h \in Heights \ {0} : CheckCursor(h)
  BY <1>1, <1>7 DEF ChainMines, ChainForks, ChainFinalizes, Tick, PutCursor, vars, ledger,
                    Await, SaveMove, CheckCursor
<1> QED
  BY <1>1, <1>2, <1>3, <1>4, <1>5, <1>6, <1>7 DEF Next

LEMMA OnStep ==
  ASSUME TypeOK, [Next]_vars
  PROVE  \A t \in Transfers : OnMoves(t)
<1>1. CASE UNCHANGED on
  BY <1>1 DEF OnMoves
<1>2. CASE ChainMines
  <2>1. PICK ts \in SUBSET Transfers : Mine(ts, Handed)
    BY <1>2 DEF ChainMines
  <2>2. latest \in Nat /\ final \in Nat /\ final <= latest
    BY DEF TypeOK, ChainTypeOK
  <2>3. UNCHANGED <<ledger, round, task>>
    BY <1>2 DEF ChainMines
  <2> QED
    BY <2>1, <2>2, <2>3 DEF Mine, OnMoves
<1>3. CASE ChainForks
  <2>1. PICK h \in Heights : Reorg(h)
    BY <1>3 DEF ChainForks
  <2> QED
    BY <2>1 DEF Reorg, OnMoves
<1>4. ASSUME NEW o \in Observers, ObserverStep(o) \/ LoseRound(o) PROVE UNCHANGED on
  BY <1>4 DEF ObserverStep, StartCursor, Begin, ScanBehind, WriteBehind, ScanAhead,
              WriteAhead, LoseRound, chainVars
<1>5. ASSUME NEW w \in Workers, WorkerStep(w) \/ PassOver(w) PROVE UNCHANGED on
  BY <1>5 DEF WorkerStep, TakeCandidate, TakeOverdue, TakeUnsettled, Undertake, Answered,
              Pay, GiveUp, CloseToPayment, Expire, PassOver, chainVars
<1>6. CASE \/ ChainFinalizes \/ Tick \/ PutCursor \/ UNCHANGED vars
           \/ \E p \in Payments : Await(p)
           \/ \E a \in Attempts : MintAttempt(a) \/ StoreAttempt(a) \/ Supersede(a)
           \/ \E h \in Heights \ {0} : CheckCursor(h)
  BY <1>6, <1>1 DEF ChainFinalizes, Finalize, Tick, PutCursor, vars, chainVars, Await,
                    MintAttempt, StoreAttempt, Supersede, CheckCursor
<1> QED
  BY <1>1, <1>2, <1>3, <1>4, <1>5, <1>6 DEF Next

\* Whatever Judge says of a transfer is one of its verdicts, and it says late in
\* time only where the payment can receive nothing.
LEMMA Verdict ==
  ASSUME TypeOK, NEW t \in Transfers
  PROVE  /\ Sighted(t).reason \in Verdicts(t)
         /\ Sighted(t).height = on[t]
         /\ Sighted(t).reason # "none"
         /\ Sighted(t).reason = "late" /\ on[t] < Deadline[PaidBy(t)] =>
               ~CanReceive(status[PaidBy(t)])
<1>1. Kind[t] \in {"full", "short", "unreadable", "wrong"}
  BY DEF Kinds
<1>2. Deadline[PaidBy(t)] \in Nat /\ on[t] \in Nat
  BY PaidByType DEF TypeOK, ChainTypeOK
<1>3. /\ Sighted(t).reason = Judge(Kind[t], on[t], Deadline[PaidBy(t)], status[PaidBy(t)])
      /\ Sighted(t).height = on[t]
  BY DEF Sighted
<1>4. Judge(Kind[t], on[t], Deadline[PaidBy(t)], status[PaidBy(t)]) \in Verdicts(t)
  <2>1. CASE Kind[t] = "full"
    BY <2>1 DEF Judge, Verdicts
  <2>2. CASE Kind[t] = "wrong"
    BY <2>2 DEF Judge, Verdicts
  <2>3. CASE Kind[t] \in {"short", "unreadable"}
    BY <2>3 DEF Judge, Verdicts
  <2> QED
    BY <1>1, <2>1, <2>2, <2>3
<1>5. "none" \notin Verdicts(t)
  BY DEF Verdicts
<1>6. ASSUME Judge(Kind[t], on[t], Deadline[PaidBy(t)], status[PaidBy(t)]) = "late",
             on[t] < Deadline[PaidBy(t)]
      PROVE  ~CanReceive(status[PaidBy(t)])
  BY <1>2, <1>6 DEF Judge
<1> QED
  BY <1>3, <1>4, <1>5, <1>6

LEMMA JudgementsStep ==
  ASSUME TypeOK, Judgements, [Next]_vars
  PROVE  Judgements'
<1>0. ASSUME NEW t \in Transfers PROVE "none" \notin Verdicts(t) /\ "vanished" \notin Verdicts(t)
  BY DEF Verdicts
<1>1. ASSUME NEW t \in Transfers
      PROVE  /\ row'[t].reason \in Verdicts(t) \cup {"none", "vanished"}
             /\ row'[t].reason \in Verdicts(t) => row'[t].height > 0
  <2>1. RowMoves(t)
    BY RowStep
  <2> QED
    BY <1>0, <2>1 DEF RowMoves, Judgements
<1>2. ASSUME NEW t \in Transfers, NEW o \in Observers
      PROVE  /\ round'[o].seen[t].reason \in Verdicts(t) \cup {"none"}
             /\ round'[o].seen[t].reason \in Verdicts(t) => round'[o].seen[t].height > 0
  <2>1. SightMoves(o, t)
    BY SightStep
  <2>2. /\ Sighted(t).reason \in Verdicts(t) /\ Sighted(t).height = on[t]
        /\ Unseen.reason = "none"
    BY Verdict DEF Unseen
  <2> QED
    BY <1>0, <2>1, <2>2 DEF SightMoves, Judgements
<1> QED
  BY <1>1, <1>2 DEF Judgements, Verdicts

\* What was known of a transfer, or was not, before a step.
LEMMA KnownStep ==
  ASSUME TypeOK, Keyed, [Next]_vars, NEW t \in Transfers, Known(t)'
  PROVE  Known(t) \/ KeyOf[t] \in Handed
<1>1. CASE on'[t] > 0
  <2>1. OnMoves(t)
    BY OnStep
  <2> QED
    BY <1>1, <2>1 DEF OnMoves, Known
<1>2. CASE row'[t].reason # "none"
  <2>1. RowMoves(t)
    BY RowStep
  <2> QED
    BY <1>2, <2>1 DEF RowMoves, Known
<1>3. ASSUME NEW o \in Observers, round'[o].seen[t].reason # "none"
      PROVE  Known(t)
  <2>1. SightMoves(o, t)
    BY SightStep
  <2> QED
    BY <1>3, <2>1 DEF SightMoves, Known, Unseen
<1>4. ASSUME NEW w \in Workers, task'[w] \in Candidate, task'[w].transfer = t
      PROVE  Known(t)
  <2>1. TaskMoves(w)
    BY TaskStep
  <2>2. CASE task'[w] = task[w]
    BY <1>4, <2>2 DEF Known
  <2>3. CASE task'[w] = NoTask
    BY <1>4, <2>3 DEF NoTask, Candidate
  <2>4. ASSUME task[w] \in Candidate, NEW ph, task'[w] = [task[w] EXCEPT !.phase = ph]
        PROVE  Known(t)
    <3>1. task[w].transfer = t
      BY <1>4, <2>4 DEF Candidate
    <3> QED
      BY <2>4, <3>1 DEF Known
  <2>5. ASSUME NEW u \in Transfers, row[u].reason = "matched",
               task'[w] = [phase |-> "asking", transfer |-> u, height |-> row[u].height,
                           fork |-> row[u].fork, status |-> status[PaidBy(u)],
                           received |-> received[PaidBy(u)], version |-> version[PaidBy(u)]]
        PROVE  Known(t)
    <3>1. u = t
      BY <1>4, <2>5
    <3> QED
      BY <2>5, <3>1 DEF Known
  <2>6. ASSUME NEW p \in Payments, NEW ph \in {"overdue", "unsettled"},
               task'[w] = [phase |-> ph, payment |-> p,
                           status |-> status[p], version |-> version[p]]
        PROVE  FALSE
    <3>1. task'[w].phase \notin {"asking", "final", "gone"}
      BY <2>6
    <3> QED
      BY <1>4, <3>1 DEF Candidate
  <2> QED
    BY <2>1, <2>2, <2>3, <2>4, <2>5, <2>6 DEF TaskMoves
<1> QED
  BY <1>1, <1>2, <1>3, <1>4 DEF Known

\* A key that was handed out stays so.
LEMMA HandedStays ==
  ASSUME TypeOK, [Next]_vars, NEW a \in Handed
  PROVE  a \in Handed'
<1>1. a \in Attempts /\ AttemptMoves(a)
  BY AttemptStep DEF Handed
<1> QED
  BY <1>1 DEF Handed, AttemptMoves, Live

LEMMA KeyedStep ==
  ASSUME Inv, Keyed, [Next]_vars
  PROVE  Keyed'
<1>0. TypeOK
  BY DEF Inv
<1>1. ASSUME NEW t \in Transfers, Known(t)' PROVE KeyOf[t] \in Handed'
  <2>1. KeyOf[t] \in Handed
    BY <1>0, <1>1, KnownStep DEF Keyed
  <2> QED
    BY <1>0, <2>1, HandedStays
<1>2. ASSUME NEW a \in Attempts, attempt'[a] # "none" PROVE status'[PaymentOf[a]] # "created"
  <2>1. AttemptMoves(a)
    BY <1>0, AttemptStep
  <2>2. ASSUME NEW t \in Transfers, KeyOf[t] = a, Known(t) PROVE attempt[a] # "none"
    BY <2>2 DEF Keyed, Handed, Live
  <2>3. status[PaymentOf[a]] # "created"
    BY <1>2, <2>1, <2>2 DEF AttemptMoves, Keyed
  <2>4. MovesRight /\ PaymentOf[a] \in Payments /\ status \in [Payments -> Statuses]
    BY <1>0, MovesStep DEF TypeOK
  <2>5. "created" \notin Moves[status[PaymentOf[a]]]
    BY <2>4 DEF Moves
  <2> QED
    BY <2>3, <2>4, <2>5 DEF MovesRight, CanBecome
<1>3. (\A t \in Transfers : Known(t) => KeyOf[t] \in Handed)'
  BY <1>1
<1> QED
  BY <1>2, <1>3 DEF Keyed

\* A payment that is closed stays closed, and one that is opened was not before.
LEMMA StatusSteps ==
  ASSUME Inv, [Next]_vars, NEW p \in Payments
  PROVE  /\ status[p] \in Closed => status'[p] \in Closed
         /\ CanReceive(status'[p]) => CanReceive(status[p]) \/ status[p] = "created"
         /\ status'[p] = "created" => status[p] = "created"
         /\ ~CanReceive(status[p]) => status[p] = "created" \/ status[p] \in Closed
<1>1. MovesRight /\ status[p] \in Statuses
  BY MovesStep DEF Inv, TypeOK
<1>2. /\ status[p] \in Closed => Moves[status[p]] = {}
      /\ status'[p] \in Moves[status[p]] /\ CanReceive(status'[p]) =>
            CanReceive(status[p]) \/ status[p] = "created"
      /\ "created" \notin Moves[status[p]]
  BY <1>1 DEF Closed, Moves, CanReceive, Statuses
<1>3. ~CanReceive(status[p]) => status[p] = "created" \/ status[p] \in Closed
  BY <1>1 DEF Closed, Moves, CanReceive, Statuses
<1> QED
  BY <1>1, <1>2, <1>3 DEF MovesRight, CanBecome

LEMMA LateStep ==
  ASSUME Inv, Keyed, LateClosed, [Next]_vars
  PROVE  LateClosed'
<1>0. TypeOK
  BY DEF Inv
<1>1. ASSUME NEW t \in Transfers, status[PaidBy(t)] \in Closed
      PROVE  status'[PaidBy(t)] \in Closed
  BY <1>1, StatusSteps, PaidByType
<1>2. ASSUME NEW t \in Transfers, row'[t].reason = "late", row'[t].height < Deadline[PaidBy(t)]
      PROVE  status[PaidBy(t)] \in Closed
  <2>1. RowMoves(t)
    BY <1>0, RowStep
  <2> QED
    BY <1>2, <2>1 DEF RowMoves, LateClosed
<1>3. ASSUME NEW t \in Transfers, NEW o \in Observers, round'[o].seen[t].reason = "late",
             round'[o].seen[t].height < Deadline[PaidBy(t)]
      PROVE  status[PaidBy(t)] \in Closed
  <2>1. SightMoves(o, t)
    BY <1>0, SightStep
  <2>2. CASE round'[o].seen[t] = round[o].seen[t]
    BY <1>3, <2>2 DEF LateClosed
  <2>3. CASE round'[o].seen[t] = Unseen
    BY <1>3, <2>3 DEF Unseen
  <2>4. CASE on[t] > 0 /\ round'[o].seen[t] = Sighted(t)
    <3>1. ~CanReceive(status[PaidBy(t)])
      BY <1>0, <1>3, <2>4, Verdict
    <3>2. status[PaidBy(t)] # "created"
      <4>1. KeyOf[t] \in Handed
        BY <2>4 DEF Keyed, Known
      <4> QED
        BY <4>1 DEF Keyed, Handed, Live, PaidBy
    <3> QED
      BY <3>1, <3>2, StatusSteps, PaidByType
  <2> QED
    BY <2>1, <2>2, <2>3, <2>4 DEF SightMoves
<1> QED
  BY <1>1, <1>2, <1>3 DEF LateClosed, PaidBy

LEMMA UnopenedStep ==
  ASSUME Inv, Unopened, [Next]_vars
  PROVE  Unopened'
<1>1. ASSUME NEW p \in Payments, status'[p] = "created" PROVE received'[p] = "nothing"
  <2>1. status[p] = "created"
    BY <1>1, StatusSteps
  <2>2. Guarded
    BY StepKeeps DEF Inv
  <2> QED
    BY <2>1, <2>2 DEF Unopened, Guarded, CanReceive
<1> QED
  BY <1>1 DEF Unopened

\* Recording keeps the books: what is credited stands on a row just written,
\* and what arrived is taken back with the last row that held it.
LEMMA RecordBooks ==
  ASSUME TypeOK, Judgements, BooksBalance, NEW o \in Observers,
         WriteBehind(o) \/ WriteAhead(o)
  PROVE  BooksBalance'
<1>1. PICK stamp \in BOOLEAN, lost \in SUBSET Transfers :
          /\ Record(round[o].seen, stamp, lost)
          /\ lost \cap Seen(round[o].seen) = {}
          /\ \A u \in Transfers : Written(round[o].seen, stamp, lost, u)
  BY Writes
<1> DEFINE s       == round[o].seen
           rows    == Vanished(Recorded(s, stamp), lost)
           emptied == Unreceived(rows, lost)
           filled  == Credited(s, emptied)
           Becomes(t) == \/ s[t].reason # "none" /\ row'[t].reason = s[t].reason
                         \/ /\ s[t].reason = "none" /\ t \notin lost
                            /\ row'[t].reason = row[t].reason
                         \/ t \in lost /\ row'[t].reason = "vanished"
<1>2. ASSUME NEW t \in Transfers PROVE Becomes(t)
  <2>1. row[t] \in Row
    BY DEF TypeOK
  <2>2. [row[t] EXCEPT !.reason = "vanished"].reason = "vanished"
    BY <2>1 DEF Row
  <2>3. CASE s[t].reason # "none"
    <3>1. row'[t] = [reason |-> s[t].reason, height |-> s[t].height,
                     fork |-> s[t].fork, final |-> row[t].final \/ stamp]
      BY <1>1, <2>3 DEF Written
    <3> HIDE DEF s
    <3> QED
      BY <2>3, <3>1
  <2>4. CASE s[t].reason = "none"
    <3>1. \/ t \notin lost /\ row'[t] = row[t]
          \/ t \in lost /\ row'[t] = [row[t] EXCEPT !.reason = "vanished"]
      BY <1>1, <2>4 DEF Written
    <3> HIDE DEF s
    <3> QED
      BY <2>2, <2>4, <3>1
  <2> QED
    BY <2>3, <2>4
<1>3. row' = rows /\ status' = status
  BY <1>1 DEF Record
<1>4. ASSUME NEW p \in Payments
      PROVE  /\ p \in filled => received'[p] # "nothing"
             /\ p \notin filled /\ p \in emptied => received'[p] = "nothing"
             /\ p \notin filled /\ p \notin emptied => received'[p] = received[p]
  <2>1. received'[p] \in IF p \in filled THEN {Kind[t] : t \in Earliest(s, p)}
                         ELSE IF p \in emptied THEN {"nothing"}
                         ELSE {received[p]}
    BY <1>1 DEF Record
  <2>2. \A t \in Earliest(s, p) : Kind[t] # "nothing"
    BY DEF Earliest, Arrivals, Seen, Kinds
  <2> HIDE DEF filled, emptied
  <2> QED
    BY <2>1, <2>2
<1>5. ASSUME NEW p \in Payments, CanReceive(status[p]), received'[p] # "nothing"
      PROVE  \E t \in Transfers : PaidBy(t) = p /\ row'[t].reason \in {"matched", "short", "late"}
  <2>1. CASE p \in filled
    <3>1. PICK t \in Seen(s) : PaidBy(t) = p /\ s[t].reason \in {"matched", "short"}
      BY <2>1 DEF Credited, Arrivals
    <3>2. t \in Transfers /\ t \notin lost /\ s[t].reason # "none"
      BY <1>1, <3>1 DEF Seen
    <3>3. row'[t].reason = s[t].reason
      BY <1>2, <3>2
    <3> QED
      BY <3>1, <3>2, <3>3
  <2>2. CASE p \notin filled /\ p \notin emptied
    <3>1. received[p] # "nothing"
      BY <1>4, <1>5, <2>2
    <3>2. PICK t \in Transfers : PaidBy(t) = p /\ row[t].reason \in {"matched", "short", "late"}
      BY <1>5, <3>1 DEF BooksBalance, ArrivalIsEvidenced
    <3>3. CASE s[t].reason # "none"
      <4>1. s[t].reason \in Verdicts(t) /\ row[t].reason \in Verdicts(t)
        BY <3>2, <3>3 DEF Judgements
      <4>2. s[t].reason \in {"matched", "short", "late"}
        <5>1. CASE Kind[t] = "wrong"
          BY <3>2, <4>1, <5>1 DEF Verdicts
        <5>2. CASE Kind[t] # "wrong"
          BY <4>1, <5>2 DEF Verdicts
        <5> QED
          BY <5>1, <5>2
      <4>3. t \notin lost
        BY <1>1, <3>3 DEF Seen
      <4> QED
        BY <1>2, <3>2, <3>3, <4>2, <4>3
    <3>4. CASE t \in lost
      <4>1. PICK u \in Transfers : PaidBy(u) = p /\ rows[u].reason \in {"matched", "short"}
        BY <1>5, <2>2, <3>1, <3>2, <3>4 DEF Unreceived
      <4> QED
        BY <1>3, <4>1
    <3>5. CASE s[t].reason = "none" /\ t \notin lost
      BY <1>2, <3>2, <3>5
    <3> QED
      BY <3>3, <3>4, <3>5
  <2> QED
    BY <1>4, <1>5, <2>1, <2>2
<1>6. ASSUME NEW t \in Transfers, row'[t].reason \in {"matched", "short"}, Kind[t] # "unreadable",
             CanReceive(status[PaidBy(t)])
      PROVE  received'[PaidBy(t)] # "nothing"
  <2>0. PaidBy(t) \in Payments
    BY PaidByType
  <2>1. PaidBy(t) \notin emptied
    BY <1>3, <1>6 DEF Unreceived
  <2>2. CASE s[t].reason # "none"
    <3>1. row'[t].reason = s[t].reason
      BY <1>1, <1>2, <2>2 DEF Seen
    <3>2. t \in Arrivals(s, PaidBy(t))
      BY <1>6, <2>2, <3>1 DEF Arrivals, Seen
    <3>3. received[PaidBy(t)] = "nothing" => PaidBy(t) \in filled
      BY <1>6, <2>0, <3>2 DEF Credited
    <3> QED
      BY <1>4, <2>0, <2>1, <3>3
  <2>3. CASE row'[t].reason = row[t].reason
    <3>1. received[PaidBy(t)] # "nothing"
      BY <1>6, <2>3 DEF BooksBalance, EvidenceArrived
    <3> QED
      BY <1>4, <2>0, <2>1, <3>1
  <2> QED
    BY <1>2, <1>6, <2>2, <2>3
<1>7. ArrivalIsEvidenced'
  BY <1>3, <1>5 DEF ArrivalIsEvidenced, PaidBy
<1>8. EvidenceArrived'
  BY <1>3, <1>6 DEF EvidenceArrived, PaidBy
<1> QED
  BY <1>7, <1>8 DEF BooksBalance

\* So does giving a transfer up.
LEMMA GiveUpBooks ==
  ASSUME TypeOK, BooksBalance, NEW w \in Workers, GiveUp(w)
  PROVE  BooksBalance'
<1> DEFINE g       == task[w].transfer
           rows    == Vanished(row, {g})
           emptied == Unreceived(rows, {g})
<1>1. /\ row' = rows /\ status' = status
      /\ received' = [p \in Payments |-> IF p \in emptied THEN "nothing" ELSE received[p]]
  BY DEF GiveUp
<1>2. g \in Transfers
  <2>1. task[w] \in Candidate
    BY TaskPhases DEF GiveUp, TypeOK
  <2> QED
    BY <2>1 DEF Candidate
<1>3. ASSUME NEW t \in Transfers
      PROVE  /\ t # g => rows[t] = row[t]
             /\ rows[g].reason = "vanished"
  <2>1. row[g] \in Row
    BY <1>2 DEF TypeOK
  <2> QED
    BY <1>2, <2>1 DEF Vanished, Row
<1> HIDE DEF g
<1>4. ASSUME NEW p \in Payments, CanReceive(status[p]), received'[p] # "nothing"
      PROVE  \E t \in Transfers : PaidBy(t) = p /\ rows[t].reason \in {"matched", "short", "late"}
  <2>1. p \notin emptied /\ received[p] # "nothing"
    <3> HIDE DEF emptied
    <3> QED
      BY <1>1, <1>4
  <2>2. PICK t \in Transfers : PaidBy(t) = p /\ row[t].reason \in {"matched", "short", "late"}
    BY <1>4, <2>1 DEF BooksBalance, ArrivalIsEvidenced
  <2>3. CASE t = g
    <3>1. PICK u \in Transfers : PaidBy(u) = p /\ rows[u].reason \in {"matched", "short"}
      <4> HIDE DEF rows
      <4> QED
        BY <1>4, <2>1, <2>2, <2>3 DEF Unreceived
    <3> HIDE DEF rows
    <3> QED
      BY <3>1
  <2>4. CASE t # g
    <3> HIDE DEF rows
    <3> QED
      BY <1>3, <2>2, <2>4
  <2> QED
    BY <2>3, <2>4
<1>5. ASSUME NEW t \in Transfers, rows[t].reason \in {"matched", "short"}, Kind[t] # "unreadable",
             CanReceive(status[PaidBy(t)])
      PROVE  received'[PaidBy(t)] # "nothing"
  <2>1. PaidBy(t) \in Payments
    BY PaidByType
  <2>2. PaidBy(t) \notin emptied
    <3> HIDE DEF rows
    <3> QED
      BY <1>5 DEF Unreceived
  <2>3. rows[t] = row[t]
    <3> HIDE DEF rows
    <3> QED
      BY <1>3, <1>5
  <2>4. received[PaidBy(t)] # "nothing"
    <3> HIDE DEF rows
    <3> QED
      BY <1>5, <2>3 DEF BooksBalance, EvidenceArrived
  <2> HIDE DEF emptied
  <2> QED
    BY <1>1, <2>1, <2>2, <2>4
<1> HIDE DEF rows, emptied
<1>6. ArrivalIsEvidenced'
  BY <1>1, <1>4 DEF ArrivalIsEvidenced, PaidBy
<1>7. EvidenceArrived'
  BY <1>1, <1>5 DEF EvidenceArrived, PaidBy
<1> QED
  BY <1>6, <1>7 DEF BooksBalance

LEMMA BooksBalanceStep ==
  ASSUME Books, [Next]_vars
  PROVE  BooksBalance'
<1>0. TypeOK /\ Inv /\ BooksBalance
  BY DEF Books, Inv
<1>1. CASE UNCHANGED <<row, received>>
  <2>1. ASSUME NEW p \in Payments, CanReceive(status'[p]), ~CanReceive(status[p])
        PROVE  /\ received[p] = "nothing"
               /\ \A t \in Transfers : PaidBy(t) = p => row[t].reason = "none"
    <3>1. status[p] = "created"
      BY <1>0, <2>1, StatusSteps
    <3>2. received[p] = "nothing"
      BY <3>1 DEF Books, Unopened
    <3>3. ASSUME NEW t \in Transfers, PaidBy(t) = p, row[t].reason # "none" PROVE FALSE
      <4>1. KeyOf[t] \in Handed
        BY <3>3 DEF Books, Keyed, Known
      <4> QED
        BY <3>1, <3>3, <4>1 DEF Books, Keyed, Handed, Live, PaidBy
    <3> QED
      BY <3>2, <3>3
  <2>2. ASSUME NEW p \in Payments, CanReceive(status'[p]), received[p] # "nothing"
        PROVE  \E t \in Transfers : /\ PaidBy(t) = p
                                    /\ row[t].reason \in {"matched", "short", "late"}
    <3>1. CanReceive(status[p])
      BY <2>1, <2>2
    <3> QED
      BY <1>0, <2>2, <3>1 DEF BooksBalance, ArrivalIsEvidenced
  <2>3. ASSUME NEW t \in Transfers, row[t].reason \in {"matched", "short"},
               Kind[t] # "unreadable", CanReceive(status'[PaidBy(t)])
        PROVE  received[PaidBy(t)] # "nothing"
    <3>1. CanReceive(status[PaidBy(t)])
      BY <2>1, <2>3, PaidByType
    <3> QED
      BY <1>0, <2>3, <3>1 DEF BooksBalance, EvidenceArrived
  <2>4. ArrivalIsEvidenced'
    BY <1>1, <2>2 DEF ArrivalIsEvidenced, PaidBy
  <2>5. EvidenceArrived'
    BY <1>1, <2>3 DEF EvidenceArrived, PaidBy
  <2> QED
    BY <2>4, <2>5 DEF BooksBalance
<1>2. ASSUME NEW o \in Observers, WriteBehind(o) \/ WriteAhead(o) PROVE BooksBalance'
  BY <1>0, <1>2, RecordBooks DEF Books
<1> QED
  BY <1>0, <1>1, <1>2, QuietSteps, GiveUpBooks

LEMMA BooksInit == Init => Books
<1> SUFFICES ASSUME Init PROVE Books
  OBVIOUS
<1>1. Inv
  BY InvInit
<1>2. /\ \A t \in Transfers : on[t] = 0 /\ row[t].reason = "none"
      /\ \A o \in Observers, t \in Transfers : round[o].seen[t].reason = "none"
      /\ \A w \in Workers : task[w] \notin Candidate
      /\ \A a \in Attempts : attempt[a] = "none"
      /\ \A p \in Payments : status[p] = "created" /\ received[p] = "nothing"
  BY DEF Init, ChainInit, NoRow, NoRound, NothingSeen, Unseen, NoTask, Candidate
<1>3. Judgements /\ LateClosed
  <2>1. \A t \in Transfers : "none" \notin Verdicts(t)
    BY DEF Verdicts
  <2> QED
    BY <1>2, <2>1 DEF Judgements, LateClosed
<1>4. Keyed /\ Unopened
  BY <1>2 DEF Keyed, Known, Unopened
<1>5. BooksBalance
  BY <1>2 DEF BooksBalance, ArrivalIsEvidenced, EvidenceArrived
<1> QED
  BY <1>1, <1>3, <1>4, <1>5 DEF Books

THEOREM BooksHold == Spec => []Books
<1>1. Init => Books
  BY BooksInit
<1>2. Books /\ [Next]_vars => Books'
  <2> SUFFICES ASSUME Books, [Next]_vars PROVE Books'
    OBVIOUS
  <2>1. Inv /\ TypeOK
    BY DEF Books, Inv
  <2> QED
    BY <2>1, InvStep, JudgementsStep, KeyedStep, LateStep, UnopenedStep, BooksBalanceStep
    DEF Books
<1> QED
  BY <1>1, <1>2, PTL DEF Spec

\* What an open payment says arrived stands on a row, and a row that pays it is
\* never one it says nothing of: for any observers, with leases that ran out,
\* providers that overclaim, an operator that moves the cursor, and a chain that
\* takes blocks back.
THEOREM BooksAlwaysBalance == Spec => []BooksBalance
<1>1. Books => BooksBalance
  BY DEF Books
<1> QED
  BY <1>1, BooksHold, PTL

-----------------------------------------------------------------------
(***************************************************************************)
(* Readers that take turns and are not misled, and no operator: rows,      *)
(* attempts and payments follow the chain.                                 *)
(*                                                                         *)
(* What a round holds was read some steps before it is written.  It is     *)
(* still right when it is, because a round reads behind the final block    *)
(* only what nothing replaces (RoundStands), and ahead of it only what     *)
(* lies above the cursor, which no other round has moved in between.  So a *)
(* final row is never written over (FinalRows), no candidate is ever heard *)
(* gone (TasksStand), and what is due to expire was read past, with every  *)
(* transfer in time on record (Unpaid).                                    *)
(***************************************************************************)
Unmisled == ~Overclaims /\ MaxSets = 0

\* Nobody's lease runs out while its round goes on: whoever else reads waits until the round
\* is over or lost.
LeaseHolds == \A o, q \in Observers :
                  round[o].phase # "idle" /\ round[q].phase # "idle" => o = q

\* Who is not in a round holds nothing of one, and no round begins before the cursor is there.
Resting == \A o \in Observers :
               IF round[o].phase = "idle" THEN round[o].seen = NothingSeen
                                          ELSE cursor # Nowhere

\* The cursor is not ahead of what is final.
CursorFinal == cursor.height <= final

\* Nothing is handed out on a network nobody has begun to read.
Unstarted == cursor = Nowhere => \A a \in Attempts : attempt[a] = "none"

\* What an observer holds of its round, in each of its phases.
RoundStands(o) ==
    LET r == round[o] IN
    /\ r.phase = "behind" =>
          /\ r.from = cursor
          /\ r.head.height \in cursor.height + 1 .. final
    /\ r.phase = "found" =>
          /\ r.from = cursor
          /\ r.to.height \in cursor.height + 1 .. r.head.height
          /\ r.head.height <= final
          /\ \A t \in Transfers :
                /\ on[t] \in cursor.height + 1 .. r.to.height => r.seen[t].reason # "none"
                /\ r.seen[t].reason # "none" =>
                      /\ on[t] \in cursor.height + 1 .. r.to.height
                      /\ r.seen[t].height = on[t]
                      /\ r.seen[t].fork = made[on[t]]
    /\ r.phase = "ahead" => cursor.height <= r.head.height
    /\ r.phase = "spied" =>
          \A t \in Transfers : r.seen[t].reason # "none" =>
              /\ r.seen[t].height > cursor.height
              /\ on[t] \notin 1 .. cursor.height

RoundsStand == \A o \in Observers : RoundStands(o)

\* A row read as final is of a transfer below the cursor.
FinalRows == \A t \in Transfers : row[t].final => on[t] \in 1 .. cursor.height

\* A candidate is still the final matched row it was taken from, and is never
\* heard gone.
TasksStand ==
    \A w \in Workers : task[w] \in Candidate =>
        /\ task[w].phase # "gone"
        /\ row[task[w].transfer].final
        /\ row[task[w].transfer].reason = "matched"

\* An attempt that was seen when it was not issued has not been since.
SeenIssued ==
    \A o \in Observers, t \in Transfers :
        round[o].seen[t].reason # "none" /\ ~round[o].seen[t].issued =>
            attempt[KeyOf[t]] # "issued"

SucceededKept ==
    \A p \in Payments : status[p] = "succeeded" =>
        \E t \in Transfers : PaidBy(t) = p /\ row[t].reason = "matched" /\ row[t].final

\* The network was read past the deadline of p, and nothing that would have
\* paid it in time is on the chain: no step can change that.
PastUnpaid(p) ==
    /\ Deadline[p] <= cursor.height
    /\ \A t \in Transfers :
          PaidBy(t) = p /\ Kind[t] = "full" => on[t] \notin 1 .. Deadline[p] - 1

Unpaid ==
    /\ \A p \in Payments : status[p] = "expired" => PastUnpaid(p)
    /\ \A w \in Workers :
          task[w] \in Due /\ task[w].phase = "unsettled" => PastUnpaid(task[w].payment)

Honest == /\ Books
          /\ moving = 0
          /\ CursorFinal
          /\ Unstarted
          /\ Resting
          /\ RoundsStand
          /\ BelowCursorIsTheChain
          /\ FinalRows
          /\ TasksStand
          /\ SeenIssued
          /\ AttemptFollowsRow
          /\ SucceededKept
          /\ Unpaid

\* The numbers the proofs below compare.
Numbers == /\ cursor.height \in Nat
           /\ final \in Nat /\ final' \in Nat /\ latest \in Nat
           /\ on \in [Transfers -> Nat] /\ on' \in [Transfers -> Nat]
           /\ round \in [Observers -> Round]

LEMMA NumbersHold ==
  ASSUME TypeOK, [Next]_vars
  PROVE  Numbers
<1>1. TypeOK'
  BY TypeStep
<1>2. final \in Nat /\ latest \in Nat /\ on \in [Transfers -> 0 .. latest]
  BY DEF TypeOK, ChainTypeOK
<1>3. final' \in Nat /\ latest' \in Nat /\ on' \in [Transfers -> 0 .. latest']
  BY <1>1 DEF TypeOK, ChainTypeOK
<1>4. on \in [Transfers -> Nat] /\ on' \in [Transfers -> Nat]
  BY <1>2, <1>3
<1>5. cursor.height \in Nat
  <2>1. cursor.height \in Heights
    BY DEF TypeOK, Block
  <2> QED
    BY <2>1 DEF Heights
<1>6. round \in [Observers -> Round]
  BY DEF TypeOK
<1> QED
  BY <1>2, <1>3, <1>4, <1>5, <1>6 DEF Numbers

\* The blocks that are final are made for good.
LEMMA MadeStays ==
  ASSUME TypeOK, [Next]_vars
  PROVE  \A h \in 1 .. final : made'[h] = made[h]
<1>0. latest \in Nat /\ final \in Nat /\ final <= latest /\ made \in [Heights -> 0 .. MaxForks]
  BY DEF TypeOK, ChainTypeOK
<1>1. CASE UNCHANGED made
  BY <1>1
<1>2. CASE ChainMines
  BY <1>0, <1>2 DEF ChainMines, Mine
<1>3. CASE ChainForks
  <2>1. PICK h \in Heights : Reorg(h)
    BY <1>3 DEF ChainForks
  <2>2. h \in Nat /\ h >= final /\ made' = [k \in Heights |-> IF k > h THEN 0 ELSE made[k]]
    BY <1>0, <2>1 DEF Reorg, Heights
  <2>3. ASSUME NEW k \in 1 .. final PROVE k \in Heights
    BY <1>0, <2>3 DEF TypeOK, ChainTypeOK, Heights
  <2> QED
    BY <1>0, <2>2, <2>3
<1>4. ASSUME NEW o \in Observers, ObserverStep(o) \/ LoseRound(o) PROVE UNCHANGED made
  BY <1>4 DEF ObserverStep, StartCursor, Begin, ScanBehind, WriteBehind, ScanAhead,
              WriteAhead, LoseRound, chainVars
<1>5. ASSUME NEW w \in Workers, WorkerStep(w) \/ PassOver(w) PROVE UNCHANGED made
  BY <1>5 DEF WorkerStep, TakeCandidate, TakeOverdue, TakeUnsettled, Undertake, Answered,
              Pay, GiveUp, CloseToPayment, Expire, PassOver, chainVars
<1>6. CASE \/ ChainFinalizes \/ Tick \/ PutCursor \/ UNCHANGED vars
           \/ \E p \in Payments : Await(p)
           \/ \E a \in Attempts : MintAttempt(a) \/ StoreAttempt(a) \/ Supersede(a)
           \/ \E h \in Heights \ {0} : CheckCursor(h)
  BY <1>6, <1>1 DEF ChainFinalizes, Finalize, Tick, PutCursor, vars, chainVars, Await,
                    MintAttempt, StoreAttempt, Supersede, CheckCursor
<1> QED
  BY <1>1, <1>2, <1>3, <1>4, <1>5, <1>6 DEF Next

\* What is carried below a height that is final neither comes nor goes.
LEMMA BelowFinal ==
  ASSUME TypeOK, [Next]_vars, NEW t \in Transfers, NEW b \in Nat, b <= final
  PROVE  /\ on'[t] \in 1 .. b <=> on[t] \in 1 .. b
         /\ on[t] \in 1 .. b => on'[t] = on[t] /\ made'[on[t]] = made[on[t]]
<1>0. Numbers
  BY NumbersHold
<1>1. OnMoves(t) /\ FinalKept /\ \A h \in 1 .. final : made'[h] = made[h]
  BY OnStep, StepKeeps, MadeStays
<1>2. on[t] \in Nat /\ on'[t] \in Nat /\ final \in Nat
  BY <1>0 DEF Numbers
<1>3. on[t] \in 1 .. b => on[t] \in 1 .. final
  BY <1>2
<1>4. on'[t] \in 1 .. b => on'[t] # 0 /\ ~(on'[t] > final)
  BY <1>2
<1>5. on[t] \in 1 .. b => on'[t] = on[t] /\ made'[on[t]] = made[on[t]]
  BY <1>1, <1>3 DEF FinalKept
<1>6. on'[t] \in 1 .. b => on'[t] = on[t]
  BY <1>1, <1>4 DEF OnMoves
<1> QED
  BY <1>5, <1>6

\* No operator puts the cursor anywhere, and nobody gives a transfer up.
LEMMA NobodyElse ==
  ASSUME Unmisled, Honest, [Next]_vars
  PROVE  /\ moving' = 0
         /\ \A w \in Workers : ~GiveUp(w)
         /\ \/ UNCHANGED <<row, cursor>>
            \/ \E o \in Observers : /\ StartCursor(o) \/ WriteBehind(o) \/ WriteAhead(o)
                                    /\ UNCHANGED <<chainVars, task, moving>>
<1>0. TypeOK /\ moving = 0 /\ sets \in 0 .. MaxSets /\ MaxSets = 0
  BY DEF Honest, Books, Inv, TypeOK, Unmisled
<1>1. ASSUME NEW w \in Workers, GiveUp(w) PROVE FALSE
  <2>1. task[w] \in Candidate /\ task[w].phase = "gone"
    BY <1>0, <1>1, TaskPhases DEF GiveUp, TypeOK
  <2> QED
    BY <2>1 DEF Honest, TasksStand
<1>2. ~PutCursor /\ \A h \in Heights \ {0} : ~CheckCursor(h)
  BY <1>0 DEF PutCursor, CheckCursor
<1>3. ASSUME NEW w \in Workers, WorkerStep(w) \/ PassOver(w)
      PROVE  UNCHANGED <<row, cursor, moving>>
  BY <1>1, <1>3 DEF WorkerStep, TakeCandidate, TakeOverdue, TakeUnsettled, Undertake, Answered,
                    Pay, SaveMove, CloseToPayment, Expire, PassOver, ledger
<1>4. ASSUME NEW o \in Observers, ObserverStep(o) \/ LoseRound(o)
      PROVE  \/ UNCHANGED <<row, cursor, moving>>
             \/ /\ StartCursor(o) \/ WriteBehind(o) \/ WriteAhead(o)
                /\ UNCHANGED <<chainVars, task, moving>>
  BY <1>4 DEF ObserverStep, StartCursor, Begin, ScanBehind, WriteBehind, ScanAhead, WriteAhead,
              LoseRound, ledger
<1>5. ASSUME \/ ChainMines \/ ChainForks \/ ChainFinalizes \/ Tick \/ UNCHANGED vars
             \/ \E p \in Payments : Await(p)
             \/ \E a \in Attempts : MintAttempt(a) \/ StoreAttempt(a) \/ Supersede(a)
      PROVE  UNCHANGED <<row, cursor, moving>>
  BY <1>5 DEF ChainMines, ChainForks, ChainFinalizes, Tick, vars, ledger, Await, SaveMove,
              MintAttempt, StoreAttempt, Supersede
<1> QED
  BY <1>0, <1>1, <1>2, <1>3, <1>4, <1>5 DEF Next

\* What a write of the observer does, where there is one: behind, it rewrites what
\* the blocks after the cursor carry and stamps it; ahead, it writes what lies above.
LEMMA BehindWritten ==
  ASSUME TypeOK, NEW o \in Observers, WriteBehind(o)
  PROVE  LET r    == round[o]
             lost == Lost(r.seen, r.from.height + 1, r.to.height)
         IN /\ \A t \in Transfers : Written(r.seen, TRUE, lost, t)
            /\ cursor = r.from /\ cursor' = r.to
            /\ r.phase = "found"
            /\ UNCHANGED <<chainVars, status, task>>
<1>1. round[o].seen \in [Transfers -> Sight]
  BY DEF TypeOK, Round
<1> DEFINE lost == Lost(round[o].seen, round[o].from.height + 1, round[o].to.height)
<1>2. Record(round[o].seen, TRUE, lost)
  BY DEF WriteBehind
<1>3. lost \in SUBSET Transfers /\ lost \cap Seen(round[o].seen) = {} /\ TRUE \in BOOLEAN
  BY DEF Lost
<1> HIDE DEF lost
<1>4. \A t \in Transfers : Written(round[o].seen, TRUE, lost, t)
  BY <1>1, <1>2, <1>3, RecordRows
<1>5. status' = status
  BY <1>2 DEF Record
<1>6. /\ cursor = round[o].from /\ cursor' = round[o].to /\ round[o].phase = "found"
      /\ UNCHANGED <<chainVars, task>>
  BY DEF WriteBehind
<1> QED
  BY <1>4, <1>5, <1>6 DEF lost

LEMMA AheadWritten ==
  ASSUME TypeOK, NEW o \in Observers, WriteAhead(o)
  PROVE  /\ \A t \in Transfers : Written(round[o].seen, FALSE, {}, t)
         /\ round[o].phase = "spied"
         /\ UNCHANGED <<chainVars, cursor, status, task>>
<1>1. round[o].seen \in [Transfers -> Sight]
  BY DEF TypeOK, Round
<1>2. Record(round[o].seen, FALSE, {})
  BY DEF WriteAhead
<1>3. {} \in SUBSET Transfers /\ {} \cap Seen(round[o].seen) = {} /\ FALSE \in BOOLEAN
  OBVIOUS
<1>4. \A t \in Transfers : Written(round[o].seen, FALSE, {}, t)
  BY <1>1, <1>2, <1>3, RecordRows
<1> QED
  BY <1>2, <1>4 DEF WriteAhead, Record

\* A round that is over leaves nothing behind.
LEMMA RestingStep ==
  ASSUME Unmisled, Honest, [Next]_vars
  PROVE  Resting'
<1>0. /\ Resting /\ RoundsStand /\ Numbers /\ round \in [Observers -> Round]
      /\ cursor.height \in Nat /\ Nowhere.height = 0
  <2>1. TypeOK
    BY DEF Honest, Books, Inv
  <2> QED
    BY <2>1, NumbersHold DEF Honest, Numbers, Nowhere
<1>1. ASSUME NEW o \in Observers, ObserverStep(o) \/ LoseRound(o), NEW q \in Observers
      PROVE  IF round'[q].phase = "idle" THEN round'[q].seen = NothingSeen
                                         ELSE cursor' # Nowhere
  <2>0. NoRound.phase = "idle" /\ NoRound.seen = NothingSeen
    BY DEF NoRound
  <2>1. cursor # Nowhere => cursor' # Nowhere
    <3>1. CASE WriteBehind(o)
      <4>1. /\ round[o].phase = "found" /\ cursor' = round[o].to /\ round[o].head.height \in Nat
        BY <1>0, <3>1 DEF WriteBehind, Round, Block, Heights
      <4>2. round[o].to.height \in cursor.height + 1 .. round[o].head.height
        BY <1>0, <4>1 DEF RoundsStand, RoundStands
      <4>3. cursor'.height # 0
        BY <1>0, <4>1, <4>2
      <4> QED
        BY <1>0, <4>3
    <3> QED
      BY <1>1, <3>1 DEF ObserverStep, StartCursor, Begin, ScanBehind, ScanAhead, WriteAhead,
                        LoseRound
  <2>2. round'[q] = round[q] \/ q = o
    BY <1>0, <1>1 DEF ObserverStep, StartCursor, Begin, ScanBehind, WriteBehind, ScanAhead,
                      WriteAhead, LoseRound
  <2>3. CASE round'[q] = round[q]
    BY <1>0, <2>1, <2>3 DEF Resting
  <2>4. CASE q = o /\ (ScanBehind(o) \/ WriteBehind(o))
    <3>1. round[o].phase # "idle"
      BY <2>4 DEF ScanBehind, WriteBehind
    <3>2. CASE WriteBehind(o)
      <4>1. round' = [round EXCEPT ![o] = [NoRound EXCEPT !.phase = "ahead",
                                                          !.head = round[o].head,
                                                          !.latest = round[o].latest]]
        BY <3>2 DEF WriteBehind
      <4>2. round'[o].phase = "ahead"
        BY <1>0, <4>1 DEF NoRound
      <4> QED
        BY <1>0, <2>1, <2>4, <3>1, <4>2 DEF Resting
    <3>3. CASE ScanBehind(o)
      <4>1. PICK to, seen : round'[o] = [round[o] EXCEPT !.phase = "found", !.to = to,
                                                         !.seen = seen]
        BY <1>0, <3>3 DEF ScanBehind
      <4>2. round[o] \in Round
        BY <1>0
      <4>3. round'[o].phase = "found"
        BY <4>1, <4>2 DEF Round
      <4> QED
        BY <1>0, <2>1, <2>4, <3>1, <4>3 DEF Resting
    <3> QED
      BY <2>4, <3>2, <3>3
  <2>5. CASE q = o /\ Begin(o)
    <3>1. cursor # Nowhere /\ round'[o].phase # "idle"
      BY <1>0, <2>5 DEF Begin, NoRound
    <3> QED
      BY <2>1, <2>5, <3>1
  <2>6. CASE q = o /\ ScanAhead(o)
    <3>1. round[o].phase # "idle"
      BY <2>6 DEF ScanAhead
    <3>2. PICK seen : round'[o] \in {NoRound, [NoRound EXCEPT !.phase = "spied", !.seen = seen]}
      BY <1>0, <2>6 DEF ScanAhead
    <3>3. round'[o] = NoRound \/ round'[o].phase # "idle"
      BY <3>2 DEF NoRound
    <3> QED
      BY <1>0, <2>0, <2>1, <2>6, <3>1, <3>3 DEF Resting
  <2>7. CASE q = o /\ (WriteAhead(o) \/ LoseRound(o))
    <3>1. round'[o] = NoRound
      BY <1>0, <2>7 DEF WriteAhead, LoseRound
    <3> QED
      BY <2>0, <2>7, <3>1
  <2>8. StartCursor(o) => round'[q] = round[q]
    BY DEF StartCursor
  <2> QED
    BY <1>1, <2>2, <2>3, <2>4, <2>5, <2>6, <2>7, <2>8 DEF ObserverStep
<1>2. CASE UNCHANGED <<round, cursor>>
  BY <1>0, <1>2 DEF Resting
<1>3. ASSUME NEW w \in Workers, WorkerStep(w) \/ PassOver(w) PROVE UNCHANGED <<round, cursor>>
  BY <1>3 DEF WorkerStep, TakeCandidate, TakeOverdue, TakeUnsettled, Undertake,
              Answered, Pay, GiveUp, CloseToPayment, Expire, PassOver
<1>4. CASE \/ ChainMines \/ ChainForks \/ ChainFinalizes \/ Tick
           \/ UNCHANGED vars
           \/ \E p \in Payments : Await(p)
           \/ \E a \in Attempts : MintAttempt(a) \/ StoreAttempt(a) \/ Supersede(a)
           \/ \E h \in Heights \ {0} : CheckCursor(h)
  BY <1>2, <1>4 DEF ChainMines, ChainForks, ChainFinalizes, Tick, vars, Await,
                    MintAttempt, StoreAttempt, Supersede, CheckCursor
<1>5. ~PutCursor
  BY DEF PutCursor, Honest
<1> QED
  BY <1>1, <1>2, <1>3, <1>4, <1>5 DEF Next, Resting

\* A round holds what it read as long as it holds it.
LEMMA RoundsStandStep ==
  ASSUME Unmisled, Honest, LeaseHolds, LeaseHolds', [Next]_vars
  PROVE  RoundsStand'
<1>0. /\ TypeOK /\ Numbers /\ FinalKept /\ RoundsStand
      /\ cursor.height <= final
  BY NumbersHold, StepKeeps DEF Honest, Books, Inv, CursorFinal
<1>1. /\ cursor.height \in Nat /\ final \in Nat /\ final' \in Nat /\ final <= final'
      /\ round \in [Observers -> Round] /\ on \in [Transfers -> Nat]
  BY <1>0 DEF Numbers, FinalKept
<1>2. ASSUME NEW o \in Observers
      PROVE  /\ round[o].head.height \in Nat /\ round[o].to.height \in Nat
             /\ round[o].from.height \in Nat /\ round[o].latest \in Nat
  BY <1>1 DEF Round, Block, Heights
<1>3. ASSUME NEW o \in Observers, UNCHANGED <<round, cursor>> PROVE RoundStands(o)'
  <2>1. RoundStands(o)
    BY <1>0 DEF RoundsStand
  <2>2. CASE round[o].phase = "behind"
    BY <1>1, <1>2, <1>3, <2>1, <2>2 DEF RoundStands
  <2>3. CASE round[o].phase = "found"
    <3>1. /\ round[o].from = cursor
          /\ round[o].to.height \in cursor.height + 1 .. round[o].head.height
          /\ round[o].head.height <= final
      BY <2>1, <2>3 DEF RoundStands
    <3>2. round[o].to.height \in Nat /\ round[o].to.height <= final
      BY <1>1, <1>2, <3>1
    <3>3. ASSUME NEW t \in Transfers, on'[t] \in cursor.height + 1 .. round[o].to.height
          PROVE  on[t] = on'[t]
      <4>1. on'[t] \in 1 .. round[o].to.height
        BY <1>1, <3>2, <3>3
      <4> QED
        BY <1>0, <3>2, <4>1, BelowFinal
    <3>4. ASSUME NEW t \in Transfers, on[t] \in cursor.height + 1 .. round[o].to.height
          PROVE  on'[t] = on[t] /\ made'[on[t]] = made[on[t]]
      <4>1. on[t] \in 1 .. round[o].to.height
        BY <1>1, <3>2, <3>4
      <4> QED
        BY <1>0, <3>2, <4>1, BelowFinal
    <3>5. \A t \in Transfers :
             /\ on[t] \in cursor.height + 1 .. round[o].to.height => round[o].seen[t].reason # "none"
             /\ round[o].seen[t].reason # "none" =>
                      /\ on[t] \in cursor.height + 1 .. round[o].to.height
                      /\ round[o].seen[t].height = on[t]
                      /\ round[o].seen[t].fork = made[on[t]]
      BY <2>1, <2>3 DEF RoundStands
    <3>6. \A t \in Transfers :
             /\ on'[t] \in cursor.height + 1 .. round[o].to.height => round[o].seen[t].reason # "none"
             /\ round[o].seen[t].reason # "none" =>
                      /\ on'[t] \in cursor.height + 1 .. round[o].to.height
                      /\ round[o].seen[t].height = on'[t]
                      /\ round[o].seen[t].fork = made'[on'[t]]
      BY <3>3, <3>4, <3>5
    <3>7. round[o].head.height <= final'
      BY <1>1, <1>2, <3>1
    <3> QED
      BY <1>3, <2>3, <3>1, <3>6, <3>7 DEF RoundStands
  <2>4. CASE round[o].phase = "ahead"
    BY <1>3, <2>1, <2>4 DEF RoundStands
  <2>5. CASE round[o].phase = "spied"
    <3>1. \A t \in Transfers : on'[t] \in 1 .. cursor.height <=> on[t] \in 1 .. cursor.height
      BY <1>0, <1>1, BelowFinal
    <3> QED
      BY <1>3, <2>1, <2>5, <3>1 DEF RoundStands
  <2>6. CASE round[o].phase = "idle"
    BY <1>3, <2>6 DEF RoundStands
  <2>7. round[o].phase \in {"idle", "behind", "found", "ahead", "spied"}
    BY <1>1 DEF Round
  <2> QED
    BY <2>2, <2>3, <2>4, <2>5, <2>6, <2>7
<1>4. ASSUME NEW o \in Observers, ObserverStep(o) \/ LoseRound(o) PROVE RoundStands(o)'
  <2>0. RoundStands(o) /\ round[o] \in Round
    BY <1>0, <1>1 DEF RoundsStand
  <2>1. CASE StartCursor(o)
    BY <2>1 DEF StartCursor, RoundStands
  <2>2. CASE Begin(o)
    <3> DEFINE r(f) == [NoRound EXCEPT !.phase = IF f > cursor.height THEN "behind" ELSE "ahead",
                                       !.head = BlockAt(f), !.latest = latest,
                                       !.from = IF f > cursor.height THEN cursor ELSE Nowhere]
    <3>1. PICK f \in Claims : f >= cursor.height /\ round' = [round EXCEPT ![o] = r(f)]
      BY <2>2 DEF Begin
    <3>2. UNCHANGED <<chainVars, cursor>>
      BY <2>2 DEF Begin
    <3>3. f \in 1 .. final
      BY <3>1 DEF Claims, Unmisled
    <3>4. /\ r(f).phase = IF f > cursor.height THEN "behind" ELSE "ahead"
          /\ r(f).head.height = f
          /\ f > cursor.height => r(f).from = cursor
      BY DEF NoRound, BlockAt
    <3>5. round'[o] = r(f)
      <4> HIDE DEF r
      <4> QED
        BY <1>1, <3>1
    <3> HIDE DEF r
    <3>6. CASE f > cursor.height
      BY <1>1, <3>2, <3>3, <3>4, <3>5, <3>6 DEF RoundStands, chainVars
    <3>7. CASE ~(f > cursor.height)
      BY <1>1, <3>1, <3>2, <3>3, <3>4, <3>5, <3>7 DEF RoundStands, chainVars
    <3> QED
      BY <3>6, <3>7
  <2>3. CASE ScanBehind(o)
    <3> DEFINE last == IF round[o].head.height > round[o].from.height + Width
                       THEN round[o].from.height + Width ELSE round[o].head.height
               first == round[o].from.height + 1
               seen == Scan(first, last)
               to   == Position(round[o], last)
               r    == [round[o] EXCEPT !.phase = "found", !.to = to, !.seen = seen]
    <3>1. /\ round' = [round EXCEPT ![o] = r] /\ round[o].phase = "behind"
          /\ UNCHANGED <<chainVars, cursor>>
      BY <2>3 DEF ScanBehind
    <3>2. round[o].from = cursor /\ round[o].head.height \in cursor.height + 1 .. final
      BY <2>0, <3>1 DEF RoundStands
    <3>3. first = cursor.height + 1 /\ last \in cursor.height + 1 .. round[o].head.height
      BY <1>1, <1>2, <3>2
    <3> HIDE DEF first, last
    <3>4. to.height = last
      BY DEF Position, BlockAt
    <3>5. /\ r.phase = "found" /\ r.to.height = last /\ r.seen = seen
          /\ r.from = cursor /\ r.head = round[o].head
      <4> HIDE DEF seen, to
      <4> QED
        BY <2>0, <3>2, <3>4 DEF Round
    <3>6. round'[o] = r
      <4> HIDE DEF r
      <4> QED
        BY <1>1, <3>1
    <3>7. ASSUME NEW t \in Transfers
          PROVE  \/ /\ on[t] \in first .. last
                    /\ seen[t].reason # "none" /\ seen[t].height = on[t]
                    /\ seen[t].fork = made[on[t]]
                 \/ on[t] \notin first .. last /\ seen[t].reason = "none"
      <4>1. Sighted(t).reason # "none" /\ Sighted(t).height = on[t]
        BY <1>0, Verdict
      <4>2. Sighted(t).fork = made[on[t]]
        BY DEF Sighted
      <4>3. Unseen.reason = "none"
        BY DEF Unseen
      <4> QED
        BY <4>1, <4>2, <4>3, ScanOne
    <3>8. round[o].head.height <= final
      BY <1>1, <1>2, <3>2
    <3> HIDE DEF r, seen, to
    <3> QED
      BY <3>1, <3>3, <3>5, <3>6, <3>7, <3>8 DEF RoundStands, chainVars
  <2>4. CASE WriteBehind(o)
    <3> DEFINE r == [NoRound EXCEPT !.phase = "ahead",
                                    !.head = round[o].head, !.latest = round[o].latest]
    <3>1. /\ round' = [round EXCEPT ![o] = r] /\ round[o].phase = "found"
          /\ cursor' = round[o].to
      BY <2>4 DEF WriteBehind
    <3>2. r.phase = "ahead" /\ r.head = round[o].head
      BY DEF NoRound
    <3>3. round'[o] = r
      <4> HIDE DEF r
      <4> QED
        BY <1>1, <3>1
    <3>4. round[o].to.height <= round[o].head.height
      BY <1>1, <1>2, <2>0, <3>1 DEF RoundStands
    <3> HIDE DEF r
    <3> QED
      BY <3>1, <3>2, <3>3, <3>4 DEF RoundStands
  <2>5. CASE ScanAhead(o)
    <3> DEFINE first == FirstAhead(round[o])
               last  == round[o].latest
               seen  == Scan(first, last)
               r     == IF Seen(seen) = {} THEN NoRound
                        ELSE [NoRound EXCEPT !.phase = "spied", !.seen = seen]
    <3>1. /\ round' = [round EXCEPT ![o] = r] /\ round[o].phase = "ahead"
          /\ UNCHANGED <<chainVars, cursor>>
      BY <2>5 DEF ScanAhead
    <3>2. round'[o] = r
      <4> HIDE DEF r
      <4> QED
        BY <1>1, <3>1
    <3>3. cursor.height <= round[o].head.height
      BY <2>0, <3>1 DEF RoundStands
    <3>4. first \in Nat /\ first > cursor.height
      BY <1>1, <1>2, <3>3 DEF FirstAhead
    <3> HIDE DEF first, last
    <3>5. ASSUME NEW t \in Transfers, seen[t].reason # "none"
          PROVE  seen[t].height > cursor.height /\ on[t] \notin 1 .. cursor.height
      <4>1. Sighted(t).height = on[t] /\ Unseen.reason = "none"
        BY <1>0, Verdict DEF Unseen
      <4>2. on[t] \in first .. last /\ seen[t].height = on[t]
        BY <3>5, <4>1, ScanOne
      <4> QED
        BY <1>1, <3>4, <4>2
    <3>6. CASE r = NoRound
      <4>1. round'[o].phase = "idle"
        <5> HIDE DEF r
        <5> QED
          BY <3>2, <3>6 DEF NoRound
      <4> QED
        BY <4>1 DEF RoundStands
    <3>7. CASE r = [NoRound EXCEPT !.phase = "spied", !.seen = seen]
      <4>1. r.phase = "spied" /\ r.seen = seen
        <5> HIDE DEF seen
        <5> QED
          BY <3>7 DEF NoRound
      <4> HIDE DEF r, seen
      <4> QED
        BY <3>1, <3>2, <3>5, <4>1 DEF RoundStands, chainVars
    <3> QED
      BY <3>6, <3>7
  <2>6. CASE WriteAhead(o) \/ LoseRound(o)
    <3>1. round'[o] = NoRound
      BY <1>1, <2>6 DEF WriteAhead, LoseRound
    <3> QED
      BY <3>1 DEF RoundStands, NoRound
  <2> QED
    BY <1>4, <2>1, <2>2, <2>3, <2>4, <2>5, <2>6 DEF ObserverStep
<1>5. ASSUME NEW o \in Observers, ObserverStep(o) \/ LoseRound(o), NEW q \in Observers
      PROVE  RoundStands(q)'
  <2>1. q # o => round'[q] = round[q]
    BY <1>1, <1>5 DEF ObserverStep, StartCursor, Begin, ScanBehind, WriteBehind, ScanAhead,
                      WriteAhead, LoseRound
  <2>2. ASSUME q # o, round[q].phase # "idle"
        PROVE  FALSE
    <3>1. round[o].phase = "idle" /\ cursor # Nowhere
      BY <2>2 DEF LeaseHolds, Honest, Resting
    <3>2. Begin(o)
      BY <1>5, <3>1 DEF ObserverStep, StartCursor, ScanBehind, WriteBehind, ScanAhead,
                        WriteAhead, LoseRound
    <3>3. round'[o].phase # "idle"
      BY <1>1, <3>2 DEF Begin, NoRound
    <3> QED
      BY <2>1, <2>2, <3>3 DEF LeaseHolds
  <2>3. CASE q # o /\ round[q].phase = "idle"
    BY <2>1, <2>3 DEF RoundStands
  <2> QED
    BY <1>4, <1>5, <2>2, <2>3
<1>6. CASE UNCHANGED <<round, cursor>>
  BY <1>3, <1>6 DEF RoundsStand
<1>7. ASSUME NEW w \in Workers, WorkerStep(w) \/ PassOver(w) PROVE UNCHANGED <<round, cursor>>
  BY <1>7 DEF WorkerStep, TakeCandidate, TakeOverdue, TakeUnsettled, Undertake,
              Answered, Pay, GiveUp, CloseToPayment, Expire, PassOver
<1>8. CASE \/ ChainMines \/ ChainForks \/ ChainFinalizes \/ Tick
           \/ UNCHANGED vars
           \/ \E p \in Payments : Await(p)
           \/ \E a \in Attempts : MintAttempt(a) \/ StoreAttempt(a) \/ Supersede(a)
           \/ \E h \in Heights \ {0} : CheckCursor(h)
  BY <1>6, <1>8 DEF ChainMines, ChainForks, ChainFinalizes, Tick, vars, Await,
                    MintAttempt, StoreAttempt, Supersede, CheckCursor
<1>9. ~PutCursor
  BY DEF PutCursor, Honest
<1> QED
  BY <1>5, <1>6, <1>7, <1>8, <1>9 DEF Next, RoundsStand

\* Below the cursor the rows are the chain, and stay so; a row read as final is
\* never written over.
LEMMA RowsStandStep ==
  ASSUME Unmisled, Honest, [Next]_vars
  PROVE  /\ CursorFinal'
         /\ BelowCursorIsTheChain'
         /\ FinalRows'
         /\ cursor.height <= cursor'.height
         /\ \A t \in Transfers : row[t].final => row'[t] = row[t]
<1>0. /\ TypeOK /\ TypeOK' /\ Numbers /\ FinalKept /\ Keyed /\ Judgements
      /\ CursorFinal /\ Unstarted /\ RoundsStand /\ BelowCursorIsTheChain /\ FinalRows
  <2>1. TypeOK
    BY DEF Honest, Books, Inv
  <2> QED
    BY <2>1, NumbersHold, StepKeeps, TypeStep DEF Honest, Books
<1>1. /\ cursor.height \in Nat /\ final \in Nat /\ final' \in Nat /\ final <= final'
      /\ round \in [Observers -> Round] /\ on \in [Transfers -> Nat]
      /\ row \in [Transfers -> Row] /\ cursor.height <= final
  BY <1>0 DEF Numbers, FinalKept, TypeOK, CursorFinal
<1>2. ASSUME UNCHANGED <<row, cursor>>
      PROVE  CursorFinal' /\ BelowCursorIsTheChain' /\ FinalRows'
  <2>1. CursorFinal'
    BY <1>1, <1>2 DEF CursorFinal
  <2>2. ASSUME NEW t \in Transfers
        PROVE  /\ on'[t] \in 1 .. cursor.height <=> on[t] \in 1 .. cursor.height
               /\ on[t] \in 1 .. cursor.height => on'[t] = on[t] /\ made'[on[t]] = made[on[t]]
    BY <1>0, <1>1, BelowFinal
  <2>3. FinalRows'
    BY <1>0, <1>2, <2>2 DEF FinalRows
  <2>4. ASSUME NEW t \in Transfers, on'[t] \in 1 .. cursor.height
        PROVE  /\ row[t].reason \notin {"none", "vanished"}
               /\ row[t].height = on'[t]
               /\ row[t].fork = made'[on'[t]]
               /\ row[t].final
    BY <1>0, <2>2, <2>4 DEF BelowCursorIsTheChain
  <2>5. ASSUME NEW t \in Transfers, row[t].reason \notin {"none", "vanished"},
               row[t].height <= cursor.height
        PROVE  on'[t] = row[t].height
    <3>1. on[t] = row[t].height
      BY <1>0, <2>5 DEF BelowCursorIsTheChain
    <3>2. CASE on[t] > 0
      BY <1>1, <2>2, <2>5, <3>1, <3>2
    <3>3. row[t].height > 0
      BY <1>0, <2>5 DEF Judgements
    <3> QED
      BY <1>1, <3>1, <3>2, <3>3
  <2>6. BelowCursorIsTheChain'
    BY <1>2, <2>4, <2>5 DEF BelowCursorIsTheChain
  <2> QED
    BY <2>1, <2>3, <2>6
<1>3. ASSUME NEW t \in Transfers, row[t].reason \notin {"none", "vanished"}
      PROVE  row[t].height \in Nat
  BY <1>1 DEF Row, Heights
<1>4. ASSUME NEW o \in Observers, StartCursor(o), UNCHANGED chainVars
      PROVE  CursorFinal' /\ BelowCursorIsTheChain' /\ FinalRows' /\ cursor.height <= cursor'.height
             /\ UNCHANGED row
  <2>1. cursor = Nowhere /\ UNCHANGED row /\ \E f \in Claims : cursor' = BlockAt(f)
    BY <1>4 DEF StartCursor, ledger
  <2>2. PICK f \in 1 .. final : cursor' = BlockAt(f)
    BY <2>1 DEF Claims, Unmisled
  <2>3. cursor.height = 0 /\ cursor'.height = f
    BY <2>1, <2>2 DEF Nowhere, BlockAt
  <2>4. ASSUME NEW t \in Transfers PROVE on[t] = 0 /\ row[t].reason = "none" /\ ~row[t].final
    <3>1. attempt[KeyOf[t]] = "none"
      BY <1>0, <2>1 DEF Unstarted
    <3>2. ~Known(t)
      BY <1>0, <3>1 DEF Keyed, Handed, Live
    <3>3. ~row[t].final
      BY <1>0, <2>3 DEF FinalRows
    <3> QED
      BY <1>1, <3>2, <3>3 DEF Known
  <2>5. UNCHANGED <<on, final, made>>
    BY <1>4 DEF chainVars
  <2>6. CursorFinal'
    BY <1>1, <2>2, <2>3, <2>5 DEF CursorFinal
  <2>7. BelowCursorIsTheChain' /\ FinalRows'
    BY <2>1, <2>4, <2>5 DEF BelowCursorIsTheChain, FinalRows
  <2> QED
    BY <1>1, <2>1, <2>2, <2>3, <2>6, <2>7
<1>5. ASSUME NEW o \in Observers, WriteBehind(o)
      PROVE  /\ CursorFinal' /\ BelowCursorIsTheChain' /\ FinalRows'
             /\ cursor.height <= cursor'.height
             /\ \A t \in Transfers : row[t].final => row'[t] = row[t]
  <2> DEFINE s    == round[o].seen
             to   == round[o].to.height
             lost == Lost(s, cursor.height + 1, to)
  <2>1. /\ \A t \in Transfers : Written(s, TRUE, lost, t)
        /\ cursor' = round[o].to
        /\ UNCHANGED <<on, final, made>>
        /\ round[o].phase = "found" /\ round[o].from = cursor
    BY <1>0, <1>5, BehindWritten DEF chainVars
  <2>2. /\ to \in cursor.height + 1 .. round[o].head.height
        /\ round[o].head.height <= final
        /\ \A t \in Transfers :
              /\ on[t] \in cursor.height + 1 .. to => s[t].reason # "none"
              /\ s[t].reason # "none" => /\ on[t] \in cursor.height + 1 .. to
                                         /\ s[t].height = on[t]
                                         /\ s[t].fork = made[on[t]]
    BY <1>0, <2>1 DEF RoundsStand, RoundStands
  <2>3. to \in Nat /\ to > cursor.height /\ to <= final
    <3>1. round[o].head.height \in Nat
      BY <1>1 DEF Round, Block, Heights
    <3> QED
      BY <1>1, <2>2, <3>1
  <2>4. ASSUME NEW t \in Transfers, t \in lost
        PROVE  /\ s[t].reason = "none" /\ row[t].reason \notin {"none", "vanished"}
               /\ row[t].height > cursor.height
    <3>1. row[t].reason \notin {"none", "vanished"} /\ row[t].height \in cursor.height + 1 .. to
      BY <2>4 DEF Lost
    <3>2. s[t].reason = "none"
      BY <2>4 DEF Lost, Seen
    <3> QED
      BY <1>1, <3>1, <3>2
  <2>5. ASSUME NEW t \in Transfers, t \notin lost, s[t].reason = "none",
               row[t].reason \notin {"none", "vanished"}, row[t].height <= to
        PROVE  row[t].height <= cursor.height
    <3>1. row[t].height \notin cursor.height + 1 .. to
      BY <2>5 DEF Lost, Seen
    <3> QED
      BY <1>1, <1>3, <2>3, <2>5, <3>1
  <2> HIDE DEF lost, s, to
  <2>6. ASSUME NEW t \in Transfers, on[t] \in 1 .. cursor.height
        PROVE  row'[t] = row[t]
    <3>1. s[t].reason = "none"
      <4>1. on[t] \notin cursor.height + 1 .. to
        BY <1>1, <2>3, <2>6
      <4> QED
        BY <2>2, <4>1
    <3>2. t \notin lost
      <4>1. row[t].height = on[t]
        BY <1>0, <2>6 DEF BelowCursorIsTheChain
      <4> QED
        BY <1>1, <2>4, <2>6, <4>1
    <3> QED
      BY <2>1, <3>1, <3>2 DEF Written
  <2>7. ASSUME NEW t \in Transfers, s[t].reason # "none"
        PROVE  /\ row'[t].reason \notin {"none", "vanished"}
               /\ row'[t].height = on[t] /\ row'[t].fork = made[on[t]] /\ row'[t].final
               /\ on[t] \in cursor.height + 1 .. to
    <3>1. row'[t] = [reason |-> s[t].reason, height |-> s[t].height,
                     fork |-> s[t].fork, final |-> row[t].final \/ TRUE]
      BY <2>1, <2>7 DEF Written
    <3>2. s[t].reason # "vanished"
      BY <1>0, <2>7 DEF Judgements, Verdicts, s
    <3>3. /\ row'[t].reason = s[t].reason /\ row'[t].height = s[t].height
          /\ row'[t].fork = s[t].fork
      BY <3>1
    <3>4. row'[t].final
      <4>1. row'[t].final = (row[t].final \/ TRUE)
        BY <3>1
      <4> QED
        BY <4>1
    <3> QED
      BY <2>2, <2>7, <3>2, <3>3, <3>4
  <2>8. ASSUME NEW t \in Transfers, s[t].reason = "none"
        PROVE  \/ t \notin lost /\ row'[t] = row[t]
               \/ t \in lost /\ row'[t].reason = "vanished" /\ row'[t].final = row[t].final
    <3>1. row[t] \in Row
      BY <1>1
    <3>2. /\ [row[t] EXCEPT !.reason = "vanished"].reason = "vanished"
          /\ [row[t] EXCEPT !.reason = "vanished"].final = row[t].final
      BY <3>1 DEF Row
    <3> QED
      BY <2>1, <2>8, <3>2 DEF Written
  <2>9. CursorFinal' /\ cursor.height <= cursor'.height
    BY <1>1, <2>1, <2>3 DEF CursorFinal, to
  <2>10. FinalRows'
    <3>1. ASSUME NEW t \in Transfers, row'[t].final PROVE on[t] \in 1 .. to
      <4>1. CASE s[t].reason # "none"
        BY <1>1, <2>3, <2>7, <4>1
      <4>2. CASE s[t].reason = "none"
        <5>1. row[t].final
          BY <2>8, <3>1, <4>2
        <5>2. on[t] \in 1 .. cursor.height
          BY <1>0, <5>1 DEF FinalRows
        <5> QED
          BY <1>1, <2>3, <5>2
      <4> QED
        BY <4>1, <4>2
    <3> QED
      BY <2>1, <3>1 DEF FinalRows, to
  <2>11. ASSUME NEW t \in Transfers, on[t] \in 1 .. to
         PROVE  /\ row'[t].reason \notin {"none", "vanished"}
                /\ row'[t].height = on[t] /\ row'[t].fork = made[on[t]] /\ row'[t].final
    <3>1. CASE s[t].reason # "none"
      BY <2>7, <3>1
    <3>2. CASE s[t].reason = "none"
      <4>1. on[t] \in 1 .. cursor.height
        <5>1. on[t] \notin cursor.height + 1 .. to
          BY <2>2, <3>2
        <5> QED
          BY <1>1, <2>3, <2>11, <5>1
      <4> QED
        BY <1>0, <2>6, <4>1 DEF BelowCursorIsTheChain
    <3> QED
      BY <3>1, <3>2
  <2>12. ASSUME NEW t \in Transfers, row'[t].reason \notin {"none", "vanished"},
                row'[t].height <= to
         PROVE  on[t] = row'[t].height
    <3>1. CASE s[t].reason # "none"
      BY <2>7, <3>1
    <3>2. CASE s[t].reason = "none"
      <4>1. t \notin lost /\ row'[t] = row[t]
        BY <2>8, <2>12, <3>2
      <4>2. row[t].height <= cursor.height
        BY <2>5, <2>12, <3>2, <4>1
      <4> QED
        BY <1>0, <2>12, <4>1, <4>2 DEF BelowCursorIsTheChain
    <3> QED
      BY <3>1, <3>2
  <2>13. BelowCursorIsTheChain'
    BY <2>1, <2>11, <2>12 DEF BelowCursorIsTheChain, to
  <2> QED
    BY <1>0, <2>6, <2>9, <2>10, <2>13 DEF FinalRows
<1>7. ASSUME NEW t \in Transfers PROVE row'[t].height \in Nat
  BY <1>0 DEF TypeOK, Row, Heights
<1>6. ASSUME NEW o \in Observers, WriteAhead(o)
      PROVE  /\ CursorFinal' /\ BelowCursorIsTheChain' /\ FinalRows'
             /\ cursor.height <= cursor'.height
             /\ \A t \in Transfers : row[t].final => row'[t] = row[t]
  <2> DEFINE s == round[o].seen
  <2>1. /\ \A t \in Transfers : Written(s, FALSE, {}, t)
        /\ UNCHANGED <<cursor, on, final, made>>
        /\ round[o].phase = "spied"
    BY <1>0, <1>6, AheadWritten DEF chainVars
  <2>2. \A t \in Transfers : s[t].reason # "none" =>
            s[t].height > cursor.height /\ on[t] \notin 1 .. cursor.height
    BY <1>0, <2>1 DEF RoundsStand, RoundStands
  <2> HIDE DEF s
  <2>3. ASSUME NEW t \in Transfers
        PROVE  \/ row'[t] = row[t]
               \/ /\ row'[t].height > cursor.height /\ on[t] \notin 1 .. cursor.height
                  /\ row'[t].final = row[t].final
    <3>1. CASE s[t].reason # "none"
      <4>1. row'[t] = [reason |-> s[t].reason, height |-> s[t].height,
                       fork |-> s[t].fork, final |-> row[t].final \/ FALSE]
        BY <2>1, <3>1 DEF Written
      <4>2. row[t].final \in BOOLEAN
        BY <1>1 DEF Row
      <4> QED
        BY <2>2, <3>1, <4>1, <4>2
    <3>2. CASE s[t].reason = "none"
      BY <2>1, <3>2 DEF Written
    <3> QED
      BY <3>1, <3>2
  <2>4. \A t \in Transfers : on[t] \in 1 .. cursor.height \/ row[t].final => row'[t] = row[t]
    BY <1>0, <2>3 DEF FinalRows
  <2>5. CursorFinal' /\ cursor.height <= cursor'.height
    BY <1>1, <2>1 DEF CursorFinal
  <2>6. FinalRows'
    BY <1>0, <2>1, <2>3 DEF FinalRows
  <2>7. ASSUME NEW t \in Transfers, row'[t].height <= cursor.height PROVE row'[t] = row[t]
    BY <1>1, <2>3, <2>7, <1>7
  <2>8. BelowCursorIsTheChain'
    BY <1>0, <2>1, <2>4, <2>7 DEF BelowCursorIsTheChain
  <2> QED
    BY <2>4, <2>5, <2>6, <2>8
<1>8. cursor.height <= cursor.height
  BY <1>1
<1> QED
  BY <1>1, <1>2, <1>4, <1>5, <1>6, <1>8, NobodyElse

-----------------------------------------------------------------------
(***************************************************************************)
(* Tasks, attempts and payments where readers take turns.                  *)
(***************************************************************************)
\* A candidate keeps its row, and nothing that is asked of it says it is gone.
LEMMA TasksStandStep ==
  ASSUME Unmisled, Honest, [Next]_vars
  PROVE  TasksStand'
<1>0. /\ TypeOK /\ TasksStand /\ FinalRows
      /\ \A t \in Transfers : row[t].final => row'[t] = row[t]
  BY RowsStandStep DEF Honest, Books, Inv
<1>1. ASSUME NEW w \in Workers, task'[w] \in Candidate
      PROVE  /\ task'[w].phase # "gone"
             /\ row'[task'[w].transfer].final
             /\ row'[task'[w].transfer].reason = "matched"
  <2>0. ASSUME task[w] \in Candidate
        PROVE  /\ task[w].transfer \in Transfers
               /\ row'[task[w].transfer].final /\ row'[task[w].transfer].reason = "matched"
               /\ on[task[w].transfer] # 0
               /\ task[w].phase # "gone"
    <3>1. task[w].transfer \in Transfers
      BY <2>0 DEF Candidate
    <3>2. /\ row[task[w].transfer].final /\ row[task[w].transfer].reason = "matched"
          /\ task[w].phase # "gone"
      BY <1>0, <2>0 DEF TasksStand
    <3> QED
      BY <1>0, <3>1, <3>2 DEF FinalRows
  <2>1. TaskMoves(w)
    BY <1>0, TaskStep
  <2>2. CASE task'[w] = task[w]
    BY <1>1, <2>0, <2>2
  <2>3. CASE task'[w] = NoTask
    BY <1>1, <2>3 DEF NoTask, Candidate
  <2>4. ASSUME task[w] \in Candidate, NEW ph, task'[w] = [task[w] EXCEPT !.phase = ph],
               task'[w].phase = "gone" => on[task[w].transfer] = 0
        PROVE  /\ task'[w].phase # "gone"
               /\ task'[w].transfer = task[w].transfer
    BY <2>0, <2>4 DEF Candidate
  <2>5. ASSUME NEW t \in Transfers, row[t].reason = "matched", row[t].final,
               task'[w] = [phase |-> "asking", transfer |-> t, height |-> row[t].height,
                           fork |-> row[t].fork, status |-> status[PaidBy(t)],
                           received |-> received[PaidBy(t)], version |-> version[PaidBy(t)]]
        PROVE  /\ task'[w].phase # "gone"
               /\ row'[task'[w].transfer].final
               /\ row'[task'[w].transfer].reason = "matched"
    <3>1. task'[w].phase = "asking" /\ task'[w].transfer = t
      BY <2>5
    <3> QED
      BY <1>0, <2>5, <3>1
  <2>6. ASSUME NEW p \in Payments, NEW ph \in {"overdue", "unsettled"},
               task'[w] = [phase |-> ph, payment |-> p,
                           status |-> status[p], version |-> version[p]]
        PROVE  FALSE
    <3>1. task'[w].phase \notin {"asking", "final", "gone"}
      BY <2>6
    <3> QED
      BY <1>1, <3>1 DEF Candidate
  <2> QED
    BY <2>0, <2>1, <2>2, <2>3, <2>4, <2>5, <2>6 DEF TaskMoves
<1> QED
  BY <1>1 DEF TasksStand

\* A cursor that was put somewhere stays somewhere, and nothing is handed out before.
LEMMA UnstartedStep ==
  ASSUME Unmisled, Honest, [Next]_vars
  PROVE  Unstarted'
<1>0. /\ TypeOK /\ Numbers /\ Keyed /\ Unstarted /\ RoundsStand
  BY NumbersHold DEF Honest, Books, Inv
<1>1. \A a \in Attempts : AttemptMoves(a)
  BY <1>0, AttemptStep
<1>2. CASE cursor = Nowhere
  <2>1. ASSUME NEW a \in Attempts PROVE attempt'[a] = "none"
    <3>1. attempt[a] = "none"
      BY <1>0, <1>2 DEF Unstarted
    <3>2. \A t \in Transfers : KeyOf[t] = a => ~Known(t)
      BY <1>0, <3>1 DEF Keyed, Handed, Live
    <3> QED
      BY <1>1, <1>2, <3>1, <3>2 DEF AttemptMoves
  <2> QED
    BY <2>1 DEF Unstarted
<1>3. CASE cursor # Nowhere
  <2>1. ASSUME NEW o \in Observers, WriteBehind(o) PROVE cursor'.height > 0
    <3>1. round[o].phase = "found" /\ cursor' = round[o].to
      BY <2>1 DEF WriteBehind
    <3>2. round[o].to.height \in cursor.height + 1 .. round[o].head.height
      BY <1>0, <3>1 DEF RoundsStand, RoundStands
    <3>3. round[o].head.height \in Nat /\ cursor.height \in Nat
      BY <1>0 DEF Numbers, Round, Block, Heights
    <3> QED
      BY <3>1, <3>2, <3>3
  <2>2. ASSUME NEW o \in Observers, StartCursor(o) \/ WriteAhead(o) PROVE UNCHANGED cursor
    BY <1>3, <2>2 DEF StartCursor, WriteAhead
  <2>3. UNCHANGED cursor \/ cursor'.height > 0
    BY <2>1, <2>2, NobodyElse
  <2>4. cursor' # Nowhere
    BY <1>3, <2>3 DEF Nowhere
  <2> QED
    BY <2>4 DEF Unstarted
<1> QED
  BY <1>2, <1>3

\* A payment that succeeded keeps a final row that matched.
LEMMA SucceededKeptStep ==
  ASSUME Unmisled, Honest, [Next]_vars
  PROVE  SucceededKept'
<1>0. /\ Inv /\ TypeOK /\ TasksStand /\ SucceededKept
      /\ \A t \in Transfers : row[t].final => row'[t] = row[t]
  BY RowsStandStep DEF Honest, Books, Inv
<1>1. ASSUME NEW p \in Payments, status'[p] = "succeeded"
      PROVE  \E t \in Transfers : PaidBy(t) = p /\ row[t].reason = "matched" /\ row[t].final
  <2>1. CASE status[p] = "succeeded"
    BY <1>0, <2>1 DEF SucceededKept
  <2>2. CASE status[p] # "succeeded"
    <3>1. PICK w \in Workers : Pay(w) /\ PaidBy(task[w].transfer) = p
      BY <1>0, <1>1, <2>2, MovesStep DEF MovesRight
    <3>2. task[w] \in Candidate
      BY <1>0, <3>1, TaskPhases DEF Pay, TypeOK
    <3>3. task[w].transfer \in Transfers
      BY <3>2 DEF Candidate
    <3> QED
      BY <1>0, <3>1, <3>2, <3>3 DEF TasksStand
  <2> QED
    BY <2>1, <2>2
<1>2. ASSUME NEW p \in Payments, status'[p] = "succeeded"
      PROVE  \E t \in Transfers : PaidBy(t) = p /\ row'[t].reason = "matched" /\ row'[t].final
  BY <1>0, <1>1, <1>2
<1> QED
  BY <1>2 DEF SucceededKept, PaidBy

\* Nothing that would have paid in time comes below a cursor that is past the deadline.
LEMMA PastUnpaidStays ==
  ASSUME Unmisled, Honest, [Next]_vars, NEW p \in Payments, PastUnpaid(p)
  PROVE  PastUnpaid(p)'
<1>0. TypeOK /\ Numbers /\ CursorFinal /\ cursor.height <= cursor'.height
  BY NumbersHold, RowsStandStep DEF Honest, Books, Inv
<1>1. TypeOK'
  BY <1>0, TypeStep
<1>2. /\ Deadline[p] \in Nat \ {0} /\ cursor.height \in Nat /\ cursor'.height \in Nat
      /\ final \in Nat /\ Deadline[p] <= cursor.height /\ cursor.height <= final
  BY <1>0, <1>1 DEF Numbers, PastUnpaid, CursorFinal, TypeOK, Block, Heights
<1>3. Deadline[p] <= cursor'.height
  BY <1>0, <1>2
<1>4. Deadline[p] - 1 \in Nat /\ Deadline[p] - 1 <= final
  BY <1>2
<1>5. \A t \in Transfers : on'[t] \in 1 .. Deadline[p] - 1 <=> on[t] \in 1 .. Deadline[p] - 1
  BY <1>0, <1>4, BelowFinal
<1>6. \A t \in Transfers :
         PaidBy(t) = p /\ Kind[t] = "full" => on'[t] \notin 1 .. Deadline[p] - 1
  BY <1>5 DEF PastUnpaid
<1> QED
  BY <1>3, <1>6 DEF PastUnpaid, PaidBy

\* A payment the network was read past the deadline of, with no row that matches, has no
\* transfer that would have paid it: whatever is below the cursor is on record, and what
\* came in time is late only to a payment that was closed.
LEMMA UnsettledIsUnpaid ==
  ASSUME Unmisled, Honest, NEW p \in Payments, status[p] = "awaiting_finality", ReadPast(p),
         Unmatched(p)
  PROVE  PastUnpaid(p)
<1>0. TypeOK /\ Judgements /\ LateClosed /\ BelowCursorIsTheChain
  BY DEF Honest, Books, Inv
<1>1. /\ Deadline[p] \in Nat /\ cursor.height \in Nat /\ Deadline[p] <= cursor.height
      /\ on \in [Transfers -> Nat]
  BY <1>0 DEF ReadPast, TypeOK, ChainTypeOK, Block, Heights
<1>2. ASSUME NEW t \in Transfers, PaidBy(t) = p, Kind[t] = "full",
             on[t] \in 1 .. Deadline[p] - 1
      PROVE  FALSE
  <2>1. on[t] \in 1 .. cursor.height /\ on[t] < Deadline[p]
    BY <1>1, <1>2
  <2>2. row[t].reason \notin {"none", "vanished"} /\ row[t].height = on[t]
    BY <1>0, <2>1 DEF BelowCursorIsTheChain
  <2>3. row[t].reason \in {"matched", "late"}
    BY <1>0, <1>2, <2>2 DEF Judgements, Verdicts
  <2>4. row[t].reason = "late"
    BY <1>2, <2>3 DEF Unmatched
  <2>5. status[p] \in Closed
    BY <1>0, <1>2, <2>1, <2>2, <2>4 DEF LateClosed
  <2> QED
    BY <2>5 DEF Closed, Moves, Statuses
<1> QED
  BY <1>1, <1>2 DEF PastUnpaid

LEMMA UnpaidStep ==
  ASSUME Unmisled, Honest, [Next]_vars
  PROVE  Unpaid'
<1>0. Inv /\ TypeOK /\ Unpaid
  BY DEF Honest, Books, Inv
<1>1. ASSUME NEW p \in Payments, status'[p] = "expired" PROVE PastUnpaid(p)'
  <2>1. CASE status[p] = "expired"
    BY <1>0, <2>1, PastUnpaidStays DEF Unpaid
  <2>2. CASE status[p] # "expired"
    <3>1. PICK w \in Workers : Expire(w) /\ task[w].payment = p
      BY <1>0, <1>1, <2>2, MovesStep DEF MovesRight
    <3>2. task[w] \in Due /\ task[w].phase = "unsettled"
      BY <1>0, <3>1, TaskPhases DEF Expire, TypeOK
    <3>3. PastUnpaid(p)
      BY <1>0, <3>1, <3>2 DEF Unpaid
    <3> QED
      BY <3>3, PastUnpaidStays
  <2> QED
    BY <2>1, <2>2
<1>2. ASSUME NEW w \in Workers, task'[w] \in Due, task'[w].phase = "unsettled"
      PROVE  task'[w].payment \in Payments /\ PastUnpaid(task'[w].payment)
  <2>0. task'[w].payment \in Payments
    BY <1>2 DEF Due
  <2>1. TaskMoves(w)
    BY <1>0, TaskStep
  <2>2. CASE task'[w] = task[w]
    BY <1>0, <1>2, <2>0, <2>2 DEF Unpaid
  <2>3. CASE task'[w] = NoTask
    BY <1>2, <2>3 DEF NoTask, Due
  <2>4. ASSUME task[w] \in Candidate, NEW ph \in {"gone", "final"},
               task'[w] = [task[w] EXCEPT !.phase = ph]
        PROVE  FALSE
    <3>1. task'[w].phase = ph
      BY <2>4 DEF Candidate
    <3> QED
      BY <1>2, <2>4, <3>1
  <2>5. ASSUME NEW t \in Transfers,
               task'[w] = [phase |-> "asking", transfer |-> t, height |-> row[t].height,
                           fork |-> row[t].fork, status |-> status[PaidBy(t)],
                           received |-> received[PaidBy(t)], version |-> version[PaidBy(t)]]
        PROVE  FALSE
    <3>1. task'[w].phase = "asking"
      BY <2>5
    <3> QED
      BY <1>2, <3>1
  <2>6. ASSUME NEW p \in Payments, NEW ph \in {"overdue", "unsettled"},
               ph = "unsettled" => /\ status[p] = "awaiting_finality"
                                   /\ ReadPast(p)
                                   /\ Unmatched(p),
               task'[w] = [phase |-> ph, payment |-> p,
                           status |-> status[p], version |-> version[p]]
        PROVE  PastUnpaid(task'[w].payment)
    <3>1. ph = "unsettled" /\ task'[w].payment = p
      BY <1>2, <2>6
    <3>2. PastUnpaid(p)
      BY <2>6, <3>1, UnsettledIsUnpaid
    <3> QED
      BY <3>1, <3>2
  <2> QED
    BY <2>0, <2>1, <2>2, <2>3, <2>4, <2>5, <2>6 DEF TaskMoves
<1>3. ASSUME NEW w \in Workers, task'[w] \in Due, task'[w].phase = "unsettled"
      PROVE  \E p \in Payments : p = task'[w].payment /\ PastUnpaid(p)'
  BY <1>2, <1>3, PastUnpaidStays
<1>4. (\A p \in Payments : status[p] = "expired" => PastUnpaid(p))'
  BY <1>1
<1>5. (\A w \in Workers : task[w] \in Due /\ task[w].phase = "unsettled" =>
          PastUnpaid(task[w].payment))'
  BY <1>3 DEF PastUnpaid
<1> QED
  BY <1>4, <1>5 DEF Unpaid

\* An attempt that is taken back to issued is taken back by the one round under way, which
\* is over with that write, so that nobody still holds a sight of it.
LEMMA SeenIssuedStep ==
  ASSUME Unmisled, Honest, LeaseHolds, [Next]_vars
  PROVE  SeenIssued'
<1>0. /\ TypeOK /\ Keyed /\ SeenIssued
      /\ round \in [Observers -> Round]
      /\ \A w \in Workers : ~GiveUp(w)
  BY NobodyElse DEF Honest, Books, Inv, TypeOK
<1>1. ASSUME NEW o \in Observers, NEW t \in Transfers, round'[o].seen[t].reason # "none",
             ~round'[o].seen[t].issued
      PROVE  attempt'[KeyOf[t]] # "issued"
  <2>1. SightMoves(o, t) /\ KeyOf[t] \in Attempts
    BY <1>0, SightStep
  <2>2. CASE round'[o].seen[t] = round[o].seen[t]
    <3>1. attempt[KeyOf[t]] # "issued" /\ KeyOf[t] \in Handed
      BY <1>0, <1>1, <2>2 DEF SeenIssued, Keyed, Known
    <3>2. ASSUME NEW q \in Observers, WriteBehind(q) \/ WriteAhead(q) PROVE FALSE
      <4>1. o = q
        <5>1. round[q].phase # "idle"
          BY <3>2 DEF WriteBehind, WriteAhead
        <5>2. round[o].phase # "idle"
          BY <1>1, <2>2 DEF Honest, Resting, NothingSeen, Unseen
        <5> QED
          BY <5>1, <5>2 DEF LeaseHolds
      <4>2. round'[o].seen = NothingSeen
        <5> DEFINE r == [NoRound EXCEPT !.phase = "ahead",
                                        !.head = round[o].head, !.latest = round[o].latest]
        <5>1. r.seen = NothingSeen /\ NoRound.seen = NothingSeen
          BY DEF NoRound
        <5>2. round' = [round EXCEPT ![o] = r] \/ round' = [round EXCEPT ![o] = NoRound]
          BY <3>2, <4>1 DEF WriteBehind, WriteAhead
        <5> HIDE DEF r
        <5> QED
          BY <1>0, <5>1, <5>2
      <4> QED
        BY <1>1, <4>2 DEF NothingSeen, Unseen
    <3>3. ~RowsWritten
      BY <1>0, <3>2 DEF RowsWritten
    <3>4. AttemptMoves(KeyOf[t])
      BY <1>0, <2>1, AttemptStep
    <3> QED
      BY <3>1, <3>3, <3>4 DEF AttemptMoves, Handed, Live
  <2>3. CASE round'[o].seen[t] = Unseen
    BY <1>1, <2>3 DEF Unseen
  <2>4. CASE round'[o].seen[t] = Sighted(t) /\ UNCHANGED ledger
    <3>1. round'[o].seen[t].issued = (attempt[KeyOf[t]] = "issued")
      BY <2>4 DEF Sighted
    <3>2. attempt[KeyOf[t]] # "issued"
      BY <1>1, <3>1
    <3> QED
      BY <2>4, <3>2 DEF ledger
  <2> QED
    BY <2>1, <2>2, <2>3, <2>4 DEF SightMoves
<1> QED
  BY <1>1 DEF SeenIssued

\* What Record makes of an attempt: confirming where a matched sight of its key was issued,
\* issued again where its rows are lost and none is matched, and else what it was.
AttemptWritten(s, lost, a) ==
    \/ /\ attempt'[a] = "confirming"
       /\ \E t \in Transfers : KeyOf[t] = a /\ s[t].reason = "matched" /\ s[t].issued
    \/ /\ attempt'[a] = "issued" /\ attempt[a] = "confirming"
       /\ \A t \in Transfers : KeyOf[t] = a => row'[t].reason # "matched"
    \/ /\ attempt'[a] = attempt[a]
       /\ \A t \in Transfers : KeyOf[t] = a /\ s[t].reason = "matched" => ~s[t].issued
       /\ attempt[a] = "confirming" /\ (\E t \in lost : KeyOf[t] = a) =>
             \E t \in Transfers : KeyOf[t] = a /\ row'[t].reason = "matched"

LEMMA RecordAttempts ==
  ASSUME NEW s, NEW stamp, NEW lost \in SUBSET Transfers, Record(s, stamp, lost),
         NEW a \in Attempts
  PROVE  AttemptWritten(s, lost, a)
<1> DEFINE freed == Unconfirmed(row', lost)
           taken == {KeyOf[t] : t \in Confirming(s)}
<1>1. attempt'[a] = IF a \in taken THEN "confirming"
                    ELSE IF a \in freed THEN "issued" ELSE attempt[a]
  BY DEF Record
<1>2. a \in taken <=>
        \E t \in Transfers : KeyOf[t] = a /\ s[t].reason = "matched" /\ s[t].issued
  BY DEF Confirming, Seen
<1>3. a \in freed <=>
        /\ \E t \in lost : KeyOf[t] = a
        /\ attempt[a] = "confirming"
        /\ \A t \in Transfers : KeyOf[t] = a => row'[t].reason # "matched"
  BY DEF Unconfirmed
<1> HIDE DEF taken, freed
<1>4. CASE a \in taken
  BY <1>1, <1>2, <1>4 DEF AttemptWritten
<1>5. CASE a \notin taken /\ a \in freed
  BY <1>1, <1>3, <1>5 DEF AttemptWritten
<1>6. CASE a \notin taken /\ a \notin freed
  BY <1>1, <1>2, <1>3, <1>6 DEF AttemptWritten
<1> QED
  BY <1>4, <1>5, <1>6

LEMMA AttemptFollowsRowStep ==
  ASSUME Unmisled, Honest, [Next]_vars
  PROVE  AttemptFollowsRow'
<1>0. /\ TypeOK /\ Judgements /\ Keyed /\ SeenIssued /\ AttemptFollowsRow
      /\ \A w \in Workers : ~GiveUp(w)
  BY NobodyElse DEF Honest, Books, Inv
<1>1. ASSUME NEW o \in Observers, WriteBehind(o) \/ WriteAhead(o), NEW a \in Attempts
      PROVE  /\ attempt'[a] = "confirming" =>
                   \E t \in Transfers : KeyOf[t] = a /\ row'[t].reason \in {"matched", "late"}
             /\ attempt'[a] = "issued" =>
                   \A t \in Transfers : KeyOf[t] = a => row'[t].reason # "matched"
  <2> DEFINE s == round[o].seen
  <2>1. PICK stamp \in BOOLEAN, lost \in SUBSET Transfers :
            /\ Record(s, stamp, lost)
            /\ \A t \in Transfers : Written(s, stamp, lost, t)
    BY <1>0, <1>1, Writes
  <2>2. ASSUME NEW t \in Transfers
        PROVE  /\ s[t].reason # "none" => row'[t].reason = s[t].reason
               /\ s[t].reason = "none" => row'[t] = row[t] \/ row'[t].reason = "vanished"
               /\ s[t].reason = "none" /\ t \notin lost => row'[t] = row[t]
    <3>1. row[t] \in Row
      BY <1>0 DEF TypeOK
    <3>2. [row[t] EXCEPT !.reason = "vanished"].reason = "vanished"
      BY <3>1 DEF Row
    <3> HIDE DEF s
    <3>3. CASE s[t].reason # "none"
      <4>1. row'[t] = [reason |-> s[t].reason, height |-> s[t].height,
                       fork |-> s[t].fork, final |-> row[t].final \/ stamp]
        BY <2>1, <3>3 DEF Written
      <4>2. row'[t].reason = s[t].reason
        BY <4>1
      <4> QED
        BY <3>3, <4>2
    <3>4. CASE s[t].reason = "none"
      <4>1. \/ t \notin lost /\ row'[t] = row[t]
            \/ t \in lost /\ row'[t] = [row[t] EXCEPT !.reason = "vanished"]
        BY <2>1, <3>4 DEF Written
      <4> QED
        BY <3>2, <3>4, <4>1
    <3> QED
      BY <3>3, <3>4
  <2>3. ASSUME NEW t \in Transfers, row[t].reason \in {"matched", "late"}, s[t].reason # "none"
        PROVE  s[t].reason \in {"matched", "late"}
    BY <1>0, <2>3 DEF Judgements, Verdicts
  <2>4. ASSUME NEW t \in Transfers, s[t].reason # "none", ~s[t].issued
        PROVE  attempt[KeyOf[t]] # "issued"
    BY <1>0, <2>4 DEF SeenIssued
  <2>5. AttemptWritten(s, lost, a)
    BY <2>1, RecordAttempts
  <2> HIDE DEF s
  <2>6. CASE /\ attempt'[a] = "confirming"
             /\ \E t \in Transfers : KeyOf[t] = a /\ s[t].reason = "matched" /\ s[t].issued
    BY <2>2, <2>6
  <2>7. CASE /\ attempt'[a] = "issued" /\ attempt[a] = "confirming"
             /\ \A t \in Transfers : KeyOf[t] = a => row'[t].reason # "matched"
    BY <2>7
  <2>8. ASSUME attempt'[a] = attempt[a],
               \A t \in Transfers : KeyOf[t] = a /\ s[t].reason = "matched" => ~s[t].issued,
               attempt[a] = "confirming" /\ (\E t \in lost : KeyOf[t] = a) =>
                  \E t \in Transfers : KeyOf[t] = a /\ row'[t].reason = "matched"
        PROVE  /\ attempt'[a] = "confirming" =>
                     \E t \in Transfers : KeyOf[t] = a /\ row'[t].reason \in {"matched", "late"}
               /\ attempt'[a] = "issued" =>
                     \A t \in Transfers : KeyOf[t] = a => row'[t].reason # "matched"
    <3>1. ASSUME attempt[a] = "confirming"
          PROVE  \E t \in Transfers : KeyOf[t] = a /\ row'[t].reason \in {"matched", "late"}
      <4>1. PICK t \in Transfers : KeyOf[t] = a /\ row[t].reason \in {"matched", "late"}
        BY <1>0, <3>1 DEF AttemptFollowsRow
      <4>2. CASE s[t].reason # "none"
        BY <2>2, <2>3, <4>1, <4>2
      <4>3. CASE s[t].reason = "none" /\ t \notin lost
        BY <2>2, <4>1, <4>3
      <4>4. CASE t \in lost
        BY <2>8, <3>1, <4>1, <4>4
      <4> QED
        BY <4>2, <4>3, <4>4
    <3>2. ASSUME attempt[a] = "issued", NEW t \in Transfers, KeyOf[t] = a,
                 row'[t].reason = "matched"
          PROVE  FALSE
      <4>1. row[t].reason # "matched"
        BY <1>0, <3>2 DEF AttemptFollowsRow
      <4>2. s[t].reason = "matched"
        BY <2>2, <3>2, <4>1
      <4> QED
        BY <2>4, <2>8, <3>2, <4>2
    <3> QED
      BY <2>8, <3>1, <3>2
  <2> QED
    BY <2>5, <2>6, <2>7, <2>8 DEF AttemptWritten
<1>2. ASSUME ~RowsWritten, NEW a \in Attempts
      PROVE  /\ attempt'[a] = "confirming" =>
                   \E t \in Transfers : KeyOf[t] = a /\ row'[t].reason \in {"matched", "late"}
             /\ attempt'[a] = "issued" =>
                   \A t \in Transfers : KeyOf[t] = a => row'[t].reason # "matched"
  <2>1. AttemptMoves(a)
    BY <1>0, AttemptStep
  <2>2. UNCHANGED row
    <3>1. [Next]_vars /\ \A o \in Observers : ~WriteBehind(o) /\ ~WriteAhead(o)
      BY <1>2 DEF RowsWritten
    <3> QED
      BY <1>0, <3>1, QuietSteps
  <2>3. CASE attempt'[a] = attempt[a]
    BY <1>0, <2>2, <2>3 DEF AttemptFollowsRow
  <2>4. CASE attempt[a] = "minted"
    <3>1. ASSUME NEW t \in Transfers, KeyOf[t] = a, row[t].reason = "matched" PROVE FALSE
      <4>1. Known(t)
        BY <3>1 DEF Known
      <4> QED
        BY <1>0, <2>4, <3>1, <4>1 DEF Keyed, Handed, Live
    <3> QED
      BY <1>2, <2>1, <2>2, <2>4, <3>1 DEF AttemptMoves
  <2> QED
    BY <1>2, <2>1, <2>3, <2>4 DEF AttemptMoves
<1>3. ASSUME NEW a \in Attempts
      PROVE  /\ attempt'[a] = "confirming" =>
                   \E t \in Transfers : KeyOf[t] = a /\ row'[t].reason \in {"matched", "late"}
             /\ attempt'[a] = "issued" =>
                   \A t \in Transfers : KeyOf[t] = a => row'[t].reason # "matched"
  BY <1>0, <1>1, <1>2 DEF RowsWritten
<1> QED
  BY <1>3 DEF AttemptFollowsRow

LEMMA HonestInit == Init => Honest
<1> SUFFICES ASSUME Init PROVE Honest
  OBVIOUS
<1>1. Books
  BY BooksInit
<1>2. /\ moving = 0 /\ cursor = Nowhere /\ cursor.height = 0 /\ final = 1
      /\ \A t \in Transfers : on[t] = 0 /\ row[t].reason = "none" /\ ~row[t].final
      /\ \A o \in Observers : round[o].phase = "idle"
      /\ \A o \in Observers, t \in Transfers : round[o].seen[t].reason = "none"
      /\ \A w \in Workers : task[w] \notin Candidate /\ task[w] \notin Due
      /\ \A a \in Attempts : attempt[a] = "none"
      /\ \A p \in Payments : status[p] = "created"
  BY DEF Init, ChainInit, Nowhere, NoRow, NoRound, NothingSeen, Unseen, NoTask, Candidate, Due
<1>3. CursorFinal /\ Unstarted /\ TasksStand /\ SeenIssued /\ AttemptFollowsRow
      /\ SucceededKept /\ Unpaid /\ FinalRows
  BY <1>2 DEF CursorFinal, Unstarted, TasksStand, SeenIssued, AttemptFollowsRow,
              SucceededKept, Unpaid, FinalRows
<1>4. RoundsStand
  BY <1>2 DEF RoundsStand, RoundStands
<1>5. BelowCursorIsTheChain
  BY <1>2 DEF BelowCursorIsTheChain
<1>6. Resting
  BY DEF Init, Resting, NoRound
<1> QED
  BY <1>1, <1>2, <1>3, <1>4, <1>5, <1>6 DEF Honest

\* With any number of observers that read one at a time, as the lease has it while it lasts
\* longer than a round, whose provider calls final only what is, and no operator moving the
\* cursor, what the deployment holds of the chain is true of it, in every state it reaches
\* however its processes and the chain interleave and whichever rounds are lost half way.
THEOREM HonestHolds ==
  ASSUME Unmisled
  PROVE  Spec /\ []LeaseHolds => []Honest
<1>1. Init => Honest
  BY HonestInit
<1>2. Honest /\ LeaseHolds /\ LeaseHolds' /\ [Next]_vars => Honest'
  <2> SUFFICES ASSUME Honest, LeaseHolds, LeaseHolds', [Next]_vars PROVE Honest'
    OBVIOUS
  <2>1. Books'
    <3>1. Books /\ Inv /\ TypeOK
      BY DEF Honest, Books, Inv
    <3> QED
      BY <3>1, InvStep, JudgementsStep, KeyedStep, LateStep, UnopenedStep, BooksBalanceStep
      DEF Books
  <2>2. (moving = 0)'
    BY NobodyElse
  <2> QED
    BY <2>1, <2>2, RestingStep, RoundsStandStep, RowsStandStep, TasksStandStep, UnstartedStep,
       SeenIssuedStep, AttemptFollowsRowStep, SucceededKeptStep, UnpaidStep
    DEF Honest
<1> QED
  BY <1>1, <1>2, PTL DEF Spec

\* Rows, attempts and payments follow the chain: below the cursor the rows are its
\* transfers, an attempt confirms because of a row, a succeeded payment keeps the row that
\* paid it, and what payments say arrived agrees with the rows.
THEOREM LedgerAlwaysTheChain ==
  ASSUME Unmisled
  PROVE  Spec /\ []LeaseHolds => []LedgerIsTheChain
<1>1. Honest => LedgerIsTheChain
  BY DEF Honest, Books, SucceededKept, SucceededKeepsItsTransfer, LedgerIsTheChain
<1> QED
  BY <1>1, HonestHolds, PTL

\* No payment expires that a transfer paid in time, in any block the chain still has.
THEOREM ExpiredAlwaysUnpaid ==
  ASSUME Unmisled
  PROVE  Spec /\ []LeaseHolds => []ExpiredIsUnpaid
<1>1. Honest => ExpiredIsUnpaid
  BY DEF Honest, Unpaid, PastUnpaid, ExpiredIsUnpaid
<1> QED
  BY <1>1, HonestHolds, PTL

\* What was recorded from final blocks is never written over, by whatever round.
THEOREM FinalRowsStay ==
  ASSUME Unmisled
  PROVE  Spec /\ []LeaseHolds => FinalRowStays
<1>1. ASSUME Honest, [Next]_vars
      PROVE  [\A t \in Transfers :
                 /\ row[t].final
                 /\ row[t].reason \notin {"none", "vanished"}
                 /\ on[t] = row[t].height
                 => row'[t] = row[t]]_vars
  BY <1>1, RowsStandStep
<1> QED
  BY <1>1, HonestHolds, PTL DEF Spec, FinalRowStays

=======================================================================
