--------------------------- MODULE Webhooks ---------------------------
(***************************************************************************)
(* How what happened to payments reaches the merchants' endpoints: the     *)
(* outbox is expanded into deliveries, a delivery whose time has come is    *)
(* sent, and what each attempt came to is written down (webhook/worker.go   *)
(* over webhook/postgres.go), while merchants disable, delete, test and     *)
(* resend.                                                                 *)
(*                                                                         *)
(* Every transaction of the store is one step, but for a deletion and a     *)
(* sweep, whose second statement does not see what the first did not, and   *)
(* the expansion of a row, which reads the endpoints without locking them.  *)
(* The rows a transaction has locked are those other steps wait for.        *)
(***************************************************************************)
EXTENDS Naturals, FiniteSets, Sequences

CONSTANTS Endpoints,
          Accounts,     \* payments the events are about
          About,        \* the payment of each event, in the order they happen
          Wants,        \* the events an endpoint's account and list give it
          MaxTests,     \* tests a merchant makes of an endpoint
          Workers,      \* processes that deliver
          Nobody,       \* the lease held by none
          Overruns,     \* a round may outlast the lease it was begun under
          MaxAttempts,  \* how often a delivery is tried
          PerEndpoint,  \* deliveries of one round to one endpoint
          PerRound,     \* deliveries of one round
          MaxResends, MaxChanges, MaxAged,  \* what merchants and time do
          MaxAsked      \* how much of it, tests included, all told

Events == 1 .. Len(About)
Tests == {Len(About) + n : n \in 1 .. MaxTests}
Deliveries == Endpoints \X (Events \cup Tests)

ASSUME EventAssumptions ==
    /\ About \in Seq(Accounts)
    /\ Wants \in [Endpoints -> SUBSET Events]
    /\ MaxTests \in Nat
ASSUME RoundAssumptions ==
    /\ Nobody \notin Workers
    /\ Overruns \in BOOLEAN
    /\ {MaxAttempts, PerEndpoint, PerRound} \subseteq Nat \ {0}
    /\ {MaxResends, MaxChanges, MaxAged, MaxAsked} \subseteq Nat

VARIABLES happened,     \* how many of the events there have been
          outbox,       \* rows of the outbox
          endpoint,     \* whether an endpoint is on, off or deleted
          closing,      \* endpoints whose deletion has not committed
          struck,       \* deliveries those deletions have failed
          state,        \* webhook_deliveries.state
          attempts,     \* webhook_deliveries.attempts
          due,          \* deliveries whose next_at has come
          seq,          \* webhook_deliveries.seq
          numbered,     \* the last number that column has given
          aged,         \* deliveries made longer ago than they are kept
          holder,       \* who holds the lease
          round,        \* what a worker has in hand
          resends, changes,
          made,         \* rows inserted for a delivery, ever
          received,     \* deliveries a receiver has had, ever
          ended         \* deliveries that were delivered or failed, ever

queue == <<state, attempts, due, seq, numbered, aged, made, ended>>
merchant == <<endpoint, closing, struck, resends, changes>>
vars == <<happened, outbox, merchant, queue, holder, round, received>>

Sending == [at : {"no", "due", "ok", "bad"}, attempts : Nat]
NotSending == [at |-> "no", attempts |-> 0]
NothingSent == [d \in Deliveries |-> NotSending]

Round == [phase : {"idle", "expanding", "inserting", "sweeping", "reading", "sending"},
          row : Nat, to : SUBSET Endpoints, doomed : SUBSET Deliveries,
          sends : [Deliveries -> Sending]]
NoRound == [phase |-> "idle", row |-> 0, to |-> {}, doomed |-> {}, sends |-> NothingSent]
At(phase) == [NoRound EXCEPT !.phase = phase]

Done == {"delivered", "failed"}

TypeOK ==
    /\ happened \in 0 .. Len(About)
    /\ outbox \subseteq Events
    /\ endpoint \in [Endpoints -> {"on", "off", "deleted"}]
    /\ closing \subseteq Endpoints
    /\ struck \subseteq Deliveries
    /\ state \in [Deliveries -> {"none", "pending", "swept"} \cup Done]
    /\ attempts \in [Deliveries -> Nat]
    /\ due \subseteq Deliveries
    /\ seq \in [Deliveries -> Nat]
    /\ numbered \in Nat
    /\ aged \subseteq Deliveries
    /\ holder \in Workers \cup {Nobody}
    /\ round \in [Workers -> Round]
    /\ resends \in Nat /\ changes \in Nat
    /\ made \in [Deliveries -> Nat]
    /\ received \subseteq Deliveries
    /\ ended \subseteq Deliveries

Init ==
    /\ happened = 0
    /\ outbox = {}
    /\ endpoint = [e \in Endpoints |-> "on"]
    /\ closing = {}
    /\ struck = {}
    /\ state = [d \in Deliveries |-> "none"]
    /\ attempts = [d \in Deliveries |-> 0]
    /\ due = {}
    /\ seq = [d \in Deliveries |-> 0]
    /\ numbered = 0
    /\ aged = {}
    /\ holder = Nobody
    /\ round = [w \in Workers |-> NoRound]
    /\ resends = 0 /\ changes = 0
    /\ made = [d \in Deliveries |-> 0]
    /\ received = {}
    /\ ended = {}

\* Two deliveries to one endpoint about one payment, or two tests of it.
Together(c, d) == /\ c[1] = d[1]
                  /\ IF d[2] \in Tests THEN c[2] \in Tests
                     ELSE c[2] \in Events /\ About[c[2]] = About[d[2]]

\* The index webhook_deliveries_one_pending_test leaves room for d.
RoomFor(d) == d[2] \in Tests =>
                 \A c \in Deliveries : Together(c, d) /\ c # d => state[c] # "pending"

\* Bounds what merchants and time do, all told.
MoreMayBeAsked ==
    resends + changes + Cardinality(aged)
        + Cardinality({d \in Deliveries : d[2] \in Tests /\ made[d] = 1}) < MaxAsked

(***************************************************************************)
(* What happens to payments, and time.                                     *)
(***************************************************************************)
Happen == /\ happened < Len(About)
          /\ happened' = happened + 1
          /\ outbox' = outbox \cup {happened + 1}
          /\ UNCHANGED <<merchant, queue, holder, round, received>>

Elapse(d) == /\ state[d] = "pending"
             /\ d \notin due
             /\ due' = due \cup {d}
             /\ UNCHANGED <<happened, outbox, merchant, state, attempts, seq, numbered, aged,
                            made, ended, holder, round, received>>

\* A month goes by for a delivery no round has in hand.
Age(d) == /\ Cardinality(aged) < MaxAged
          /\ MoreMayBeAsked
          /\ state[d] \in Done \cup {"pending"}
          /\ d \notin aged
          /\ \A w \in Workers : round[w].sends[d].at = "no"
          /\ aged' = aged \cup {d}
          /\ UNCHANGED <<happened, outbox, merchant, state, attempts, due, seq, numbered, made,
                         ended, holder, round, received>>

(***************************************************************************)
(* The lease.                                                              *)
(***************************************************************************)
AcquireAnyway(w) == TRUE  \* a mutant: whoever asks holds it
Free(w) == holder \in {Nobody, w}

Acquire(w) == /\ round[w].phase = "idle"
              /\ Free(w)
              /\ holder' = w
              /\ round' = [round EXCEPT ![w] = At("expanding")]
              /\ UNCHANGED <<happened, outbox, merchant, queue, received>>

\* The deadline passes, or its holder puts the lease down.
Lapse == /\ holder # Nobody
         /\ Overruns \/ round[holder].phase = "idle"
         /\ holder' = Nobody
         /\ UNCHANGED <<happened, outbox, merchant, queue, round, received>>

(***************************************************************************)
(* A round: expand, sweep, read what is due, send, write down.             *)
(***************************************************************************)
Unlocked == {v \in outbox : \A w \in Workers : round[w].row # v}

OldestOf(rows) == {v \in rows : \A u \in rows : v <= u}

Receiving(v) == {e \in Endpoints : endpoint[e] = "on" /\ v \in Wants[e]}

TakeRow(w) ==
    /\ round[w].phase = "expanding"
    /\ \E v \in OldestOf(Unlocked) :
          round' = [round EXCEPT ![w] =
                      [At("inserting") EXCEPT !.row = v, !.to = Receiving(v)]]
    /\ UNCHANGED <<happened, outbox, merchant, queue, holder, received>>

\* The deliveries are inserted and the row removed, in one transaction.
\* A mutant: the row is not removed.
RowStays(v) == outbox
RowGone(v) == outbox \ {v}
InsertDeliveries(w) ==
    LET new == round[w].to \X {round[w].row} IN
    /\ round[w].phase = "inserting"
    /\ state' = [d \in Deliveries |-> IF d \in new THEN "pending" ELSE state[d]]
    /\ attempts' = [d \in Deliveries |-> IF d \in new THEN 0 ELSE attempts[d]]
    /\ due' = due \cup new
    /\ numbered' = IF new = {} THEN numbered ELSE numbered + 1
    /\ seq' = [d \in Deliveries |-> IF d \in new THEN numbered + 1 ELSE seq[d]]
    /\ made' = [d \in Deliveries |-> IF d \in new THEN made[d] + 1 ELSE made[d]]
    /\ outbox' = RowGone(round[w].row)
    /\ round' = [round EXCEPT ![w] = At("expanding")]
    /\ UNCHANGED <<happened, merchant, aged, ended, holder, received>>

\* What is past its retention and done with, as read.
Sweepable == {d \in aged : state[d] \in Done}

SweepRead(w) ==
    /\ round[w].phase = "expanding"
    /\ Unlocked = {}
    /\ round' = [round EXCEPT ![w] = IF Sweepable = {} THEN At("reading")
                    ELSE [At("sweeping") EXCEPT !.doomed = Sweepable]]
    /\ UNCHANGED <<happened, outbox, merchant, queue, holder, received>>

\* Removed by id, whatever they have become; one a deletion holds is waited for.
SweepDelete(w) ==
    /\ round[w].phase = "sweeping"
    /\ round[w].doomed \cap struck = {}
    /\ state' = [d \in Deliveries |-> IF d \in round[w].doomed THEN "swept" ELSE state[d]]
    /\ due' = due \ round[w].doomed
    /\ aged' = aged \ round[w].doomed
    /\ round' = [round EXCEPT ![w] = At("reading")]
    /\ UNCHANGED <<happened, outbox, merchant, attempts, seq, numbered, made, ended, holder,
                   received>>

\* Mutants: no delivery waits for an earlier one; each waits for any other.
BehindNone(d) == FALSE
BehindOther(d) == \E c \in Deliveries \ {d} : Together(c, d) /\ state[c] = "pending"
Behind(d) == \E c \in Deliveries : Together(c, d) /\ state[c] = "pending" /\ seq[c] < seq[d]

Ready == {d \in due : /\ state[d] = "pending"
                      /\ endpoint[d[1]] = "on"
                      /\ ~Behind(d)}

\* As many as there is room for; the order of next_at decides which.
Batch(ds) ==
    LET of(e) == {d \in ds : d[1] = e}
    IN /\ \A e \in Endpoints : Cardinality(of(e)) <= PerEndpoint
       /\ Cardinality(ds) <= PerRound
       /\ \A d \in Ready \ ds : \/ Cardinality(of(d[1])) = PerEndpoint
                                \/ Cardinality(ds) = PerRound

ReadDue(w) ==
    /\ round[w].phase = "reading"
    /\ \E ds \in SUBSET Ready :
          /\ Batch(ds)
          /\ round' = [round EXCEPT ![w] =
                IF ds = {} THEN NoRound
                ELSE [At("sending") EXCEPT !.sends =
                        [d \in Deliveries |->
                            IF d \in ds THEN [at |-> "due", attempts |-> attempts[d]]
                                        ELSE NotSending]]]
    /\ UNCHANGED <<happened, outbox, merchant, queue, holder, received>>

\* The receiver has it and says so, has it and is not heard, or never had it.
Send(w, d) ==
    /\ round[w].sends[d].at = "due"
    /\ \/ /\ round' = [round EXCEPT ![w].sends[d].at = "ok"]
          /\ received' = received \cup {d}
       \/ /\ round' = [round EXCEPT ![w].sends[d].at = "bad"]
          /\ received' \in {received, received \cup {d}}
    /\ UNCHANGED <<happened, outbox, merchant, queue, holder>>

\* The round without the send of d; the last one ends it.
Landed(r, d) ==
    LET sends == [r.sends EXCEPT ![d] = NotSending]
    IN IF sends = NothingSent THEN NoRound ELSE [r EXCEPT !.sends = sends]

\* A mutant of Outcome: any answer will do.
OutcomeOfAny(sent) ==
    IF sent.at \in {"ok", "bad"} THEN "delivered"
    ELSE IF sent.attempts + 1 < MaxAttempts THEN "pending" ELSE "failed"
Outcome(sent) ==
    IF sent.at = "ok" THEN "delivered"
    ELSE IF sent.attempts + 1 < MaxAttempts THEN "pending" ELSE "failed"

\* The row is there, nobody else is writing it, and the index allows it.
Writable(d, want) == /\ state[d] # "swept"
                     /\ want = "pending" => RoomFor(d)

\* Written over whatever the delivery has become.
Attempted(w, d) ==
    LET sent == round[w].sends[d]
        want == Outcome(sent)
    IN /\ sent.at \in {"ok", "bad"}
       /\ d \notin struck
       /\ Writable(d, want)
       /\ state' = [state EXCEPT ![d] = want]
       /\ attempts' = [attempts EXCEPT ![d] = sent.attempts + 1]
       /\ due' = due \ {d}
       /\ ended' = IF want \in Done THEN ended \cup {d} ELSE ended
       /\ round' = [round EXCEPT ![w] = Landed(@, d)]
       /\ UNCHANGED <<happened, outbox, merchant, seq, numbered, aged, made, holder, received>>

\* A secret that was not read or an outcome that was not written.
LoseSend(w, d) ==
    /\ round[w].sends[d].at # "no"
    /\ round' = [round EXCEPT ![w] = Landed(@, d)]
    /\ UNCHANGED <<happened, outbox, merchant, queue, holder, received>>

\* A statement that failed, or a process that stopped: what it locked is free.
Crash(w) ==
    /\ round[w].phase # "idle"
    /\ round' = [round EXCEPT ![w] = NoRound]
    /\ UNCHANGED <<happened, outbox, merchant, queue, holder, received>>

(***************************************************************************)
(* What merchants ask for.                                                 *)
(***************************************************************************)
\* The row of an endpoint being deleted is locked; afterwards it is not found.
Update(e) ==
    /\ changes < MaxChanges
    /\ MoreMayBeAsked
    /\ endpoint[e] # "deleted"
    /\ e \notin closing
    /\ endpoint' = [endpoint EXCEPT ![e] = IF @ = "on" THEN "off" ELSE "on"]
    /\ changes' = changes + 1
    /\ UNCHANGED <<happened, outbox, closing, struck, queue, holder, round, received, resends>>

\* Both statements of a deletion, and its commit.
Pending(e) == {d \in Deliveries : d[1] = e /\ state[d] = "pending"}

DeleteStrike(e) ==
    /\ changes < MaxChanges
    /\ MoreMayBeAsked
    /\ endpoint[e] # "deleted"
    /\ e \notin closing
    /\ closing' = closing \cup {e}
    /\ struck' = struck \cup Pending(e)
    /\ changes' = changes + 1
    /\ UNCHANGED <<happened, outbox, endpoint, queue, holder, round, received, resends>>

DeleteCommit(e) ==
    LET mine == {d \in struck : d[1] = e} IN
    /\ e \in closing
    /\ endpoint' = [endpoint EXCEPT ![e] = "deleted"]
    /\ closing' = closing \ {e}
    /\ struck' = struck \ mine
    /\ state' = [d \in Deliveries |-> IF d \in mine THEN "failed" ELSE state[d]]
    /\ due' = due \ mine
    /\ ended' = ended \cup mine
    /\ UNCHANGED <<happened, outbox, attempts, seq, numbered, aged, made, holder, round, received,
                   resends, changes>>

\* A deletion that does not commit.
DeleteRollback(e) ==
    /\ e \in closing
    /\ closing' = closing \ {e}
    /\ struck' = {d \in struck : d[1] # e}
    /\ UNCHANGED <<happened, outbox, endpoint, queue, holder, round, received, resends,
                   changes>>

\* One test of an endpoint that is on, unless one is pending.
Test(d) ==
    /\ d[2] \in Tests
    /\ made[d] = 0
    /\ MoreMayBeAsked
    /\ endpoint[d[1]] = "on"
    /\ RoomFor(d)
    /\ state' = [state EXCEPT ![d] = "pending"]
    /\ due' = due \cup {d}
    /\ numbered' = numbered + 1
    /\ seq' = [seq EXCEPT ![d] = numbered + 1]
    /\ made' = [made EXCEPT ![d] = 1]
    /\ UNCHANGED <<happened, outbox, merchant, attempts, aged, ended, holder, round, received>>

\* A delivery done with is put back on its way, its attempts going on.
Resend(d) ==
    /\ resends < MaxResends
    /\ MoreMayBeAsked
    /\ endpoint[d[1]] # "deleted"
    /\ state[d] \in Done
    /\ d \notin struck
    /\ RoomFor(d)
    /\ state' = [state EXCEPT ![d] = "pending"]
    /\ due' = due \cup {d}
    /\ resends' = resends + 1
    /\ UNCHANGED <<happened, outbox, endpoint, closing, struck, attempts, seq, numbered, aged,
                   made, ended, holder, round, received, changes>>

(***************************************************************************)
SendStep(w, d) == Send(w, d) \/ Attempted(w, d)
Step(w) == \/ TakeRow(w)
           \/ InsertDeliveries(w)
           \/ SweepRead(w)
           \/ SweepDelete(w)
           \/ ReadDue(w)
           \/ \E d \in Deliveries : SendStep(w, d)

Next == \/ Happen
        \/ Lapse
        \/ \E w \in Workers : Acquire(w) \/ Step(w) \/ Crash(w)
        \/ \E w \in Workers, d \in Deliveries : LoseSend(w, d)
        \/ \E e \in Endpoints : Update(e) \/ DeleteStrike(e)
                                   \/ DeleteCommit(e) \/ DeleteRollback(e)
        \/ \E d \in Deliveries : Elapse(d) \/ Age(d) \/ Test(d) \/ Resend(d)

Spec == Init /\ [][Next]_vars

(***************************************************************************)
(* Properties.                                                             *)
(***************************************************************************)
\* An event is one delivery to an endpoint: a row of the outbox is expanded
\* once however many workers find it and however they stop (skip locked, and
\* the delete in the transaction of the inserts).
OneDelivery == \A d \in Deliveries : made[d] <= 1

\* The events of one payment reach a receiver in the order they happened: none
\* has arrived while an earlier one is on its way for the first time (Due).
InOrder ==
    \A c, d \in Deliveries :
        /\ {c[2], d[2]} \subseteq Events
        /\ Together(c, d) /\ c[2] < d[2]
        /\ d \in received
        /\ state[c] = "pending"
        => c \in ended

\* A delivery called delivered is one its receiver has.
DeliveredArrived == \A d \in Deliveries : state[d] = "delivered" => d \in received

\* A delivery is tried so often and no more, plus once for each resend, and one
\* that has had its tries is not pending (NextAttempt, over what Due had read).
TriesAreCounted ==
    \A d \in Deliveries : /\ attempts[d] <= MaxAttempts + resends
                          /\ state[d] = "pending" => attempts[d] < MaxAttempts + resends

\* Rounds overlap, stop half way and write late, and what a delivery says of itself is
\* still true (Attempted, Outcome).
DeliveriesHold == TypeOK /\ DeliveredArrived /\ TriesAreCounted

\* What is in hand is sent by one worker: no two rounds hold the same delivery,
\* and none holds one that is not on its way (the lease, and Due).
SentByOne ==
    \A w \in Workers, d \in Deliveries : round[w].sends[d].at # "no" =>
        /\ \A v \in Workers \ {w} : round[v].sends[d].at = "no"
        /\ state[d] = "pending" \/ endpoint[d[1]] = "deleted"

(***************************************************************************)
(* Liveness.  Workers go on with their rounds (Worker.Run), intervals pass, *)
(* deletions commit; from some moment on nothing stops half way, and only   *)
(* what the database refuses is lost.                                      *)
(***************************************************************************)
Refused(w, d) == /\ round[w].sends[d].at \in {"ok", "bad"}
                 /\ ~Writable(d, Outcome(round[w].sends[d]))

Calm == \A w \in Workers :
            Crash(w) \/ (\E d \in Deliveries : LoseSend(w, d)) =>
                Step(w) \/ \E d \in Deliveries : Refused(w, d) /\ LoseSend(w, d)

FairSpec ==
    /\ Spec
    /\ <>[][Calm]_vars
    /\ WF_vars(\E w \in Workers : Acquire(w))
    /\ \A w \in Workers : WF_vars(Step(w) \/ \E d \in Deliveries : LoseSend(w, d))
    /\ \A d \in Deliveries : WF_vars(Elapse(d))
    /\ \A e \in Endpoints : WF_vars(DeleteCommit(e))

\* Again and again there is nothing left to do: what happened is expanded, and every
\* delivery is delivered or failed, however its receiver answers, unless somebody has
\* turned its endpoint off.
EverythingIsTold ==
    []<>(/\ outbox = {}
         /\ \A d \in Deliveries : state[d] = "pending" => endpoint[d[1]] # "on")

=======================================================================
