-------------------------- MODULE Finality --------------------------
(***************************************************************************)
(* How the finality workers of one network come to an answer about the     *)
(* recorded transfers: the endpoints are asked one after another until as  *)
(* many as agreement takes have said the same (finality/finality.go), what *)
(* they said is remembered between rounds, a page of candidates at a time  *)
(* (finality/worker.go), and a lease lets one instance at a time work on   *)
(* the network (observe/lease.go).                                         *)
(*                                                                         *)
(* A transfer is a number: its place in the order of block and transaction *)
(* in which candidates are read.  What the chain will hold of it in the    *)
(* end is truth, chosen once.  An endpoint whose final block has reached   *)
(* the transfer shows the truth; one behind it may show anything, since    *)
(* the blocks there may still be replaced.  What is settled or given up is *)
(* followed in the transfer's row; what that does to a payment or a refund *)
(* is the matter of Settlement and Refunds.                                *)
(***************************************************************************)
EXTENDS Integers, FiniteSetsExt

CONSTANTS Paying,       \* transfers recorded against payments
          Backing,      \* transfers recorded against refunds
          Networks,     \* how the network may be set up
          PerRound,     \* perRound
          MaxSkip,      \* maxSkip
          Lags,         \* what may be shown at the moment the final block passes
          Workers,      \* the instances of the deployment
          Nobody        \* not a worker

Transfers == Paying \cup Backing

\* What an endpoint can show of a transfer.
Places == {"recorded", "elsewhere", "nowhere"}

\* Network.Endpoints, in their order, Agreements and Misses; with the endpoints
\* that may answer anything, the instances that run, how many of their rounds
\* end early and how often the observer records each transfer.
ASSUME NetworkAssumptions ==
    \A n \in Networks :
        /\ n.endpoints \subseteq Nat /\ IsFiniteSet(n.endpoints)
        /\ n.liars \subseteq n.endpoints
        /\ n.agreements \in Nat /\ n.agreements > Cardinality(n.liars)
        /\ n.misses \in Nat \ {0}
        /\ n.running \subseteq Workers
        /\ n.failures \in Nat
        /\ n.records \in [Transfers -> Nat]
ASSUME FinalityAssumptions ==
    /\ Transfers \subseteq Nat \ {0} /\ IsFiniteSet(Transfers)
    /\ Paying \cap Backing = {}
    /\ PerRound \in Nat \ {0}
    /\ MaxSkip \in Nat \ {0}
    /\ Lags \subseteq Places
    /\ Nobody \notin Workers

VARIABLES network,      \* how the network is set up
          truth,        \* what the chain will hold of a transfer
          reached,      \* the last transfer an endpoint's final block is past
          calm,         \* providers answer and instances stay up from here on
          row,          \* observations.reason, as far as it goes here
          times,        \* how often a transfer was recorded
          settled,      \* its payment, or its refund, succeeded by it
          contested,    \* observations.disagreed_at is set
          lease,        \* who holds the name of the network
          failures,     \* rounds that ended early
          answers,      \* Worker.answers
          pass,         \* Worker.pass
          from,         \* Worker.from
          back,         \* Worker.back
          round         \* the round a worker is in

chainVars == <<network, truth, reached>>
rowVars == <<row, times, settled, contested>>
memory == <<answers, pass, from, back>>
vars == <<chainVars, calm, rowVars, lease, failures, memory, round>>

Verdicts == {"final", "waiting", "elsewhere", "gone", "disagreed"}

\* How often "gone" was said is compared with Misses, and "disagreed" with 1 and
\* with MaxSkip, so they are counted up to the greatest of those; the rounds of
\* another verdict are for the log.
Enough == Max({2, network.misses, MaxSkip})
Answer == [verdict : Verdicts, rounds : 1 .. Enough, skip : 0 .. MaxSkip]
Untold == [verdict |-> "none", rounds |-> 0, skip |-> 0]

\* A row read as a candidate, with what its payment's version says of it.
Candidate == [transfer : Transfers, times : Nat]

\* The candidate a round takes next: the payments' first, in their order.
NextOf(todo) ==
    LET payments == {c \in todo : c.transfer \in Paying}
        side == IF payments # {} THEN payments ELSE todo
    IN CHOOSE c \in side : \A d \in side : c.transfer <= d.transfer

\* The round goes through todo; asking are the endpoints not silent so far.
\* Of the candidate in hand: left are those to be asked yet, said those that
\* said verdict, and shown is what the last of them has just answered.
Round == [phase : {"next", "asking", "shown", "heard", "decide"},
          todo : SUBSET Candidate, asking : SUBSET network.endpoints,
          left : SUBSET network.endpoints, said : SUBSET network.endpoints,
          verdict : Verdicts \cup {"none"},
          shown : Places \cup {"none"},
          onwards : Transfers \cup {0}, onwardsBack : Transfers \cup {0}]
NoRound == [phase |-> "idle"]

TypeOK ==
    /\ network \in Networks
    /\ truth \in [Transfers -> Places]
    /\ reached \in [network.endpoints -> Transfers \cup {0}]
    /\ calm \in BOOLEAN
    /\ row \in [Transfers -> {"none", "matched", "vanished"}]
    /\ times \in [Transfers -> Nat]
    /\ settled \in [Transfers -> BOOLEAN]
    /\ contested \in [Transfers -> BOOLEAN]
    /\ lease \in Workers \cup {Nobody}
    /\ failures \in 0 .. network.failures
    /\ answers \in [Workers -> [Transfers -> Answer \cup {Untold}]]
    /\ pass \in [Workers -> [Transfers -> Answer \cup {Untold}]]
    /\ from \in [Workers -> Transfers \cup {0}]
    /\ back \in [Workers -> Transfers \cup {0}]
    /\ round \in [Workers -> Round \cup {NoRound}]

Init ==
    /\ network \in Networks
    /\ truth \in [Transfers -> Places]
    /\ \A t \in Transfers : network.records[t] = 0 => truth[t] = "nowhere"
    /\ reached = [e \in network.endpoints |-> 0]
    /\ calm = FALSE
    /\ row = [t \in Transfers |-> "none"]
    /\ times = [t \in Transfers |-> 0]
    /\ settled = [t \in Transfers |-> FALSE]
    /\ contested = [t \in Transfers |-> FALSE]
    /\ lease = Nobody
    /\ failures = 0
    /\ answers = [w \in Workers |-> [t \in Transfers |-> Untold]]
    /\ pass = [w \in Workers |-> [t \in Transfers |-> Untold]]
    /\ from = [w \in Workers |-> 0]
    /\ back = [w \in Workers |-> 0]
    /\ round = [w \in Workers |-> NoRound]

(***************************************************************************)
(* The chain and the observer.                                             *)
(***************************************************************************)

\* What endpoint e may show of t.
Shows(e, t) == IF e \in network.liars \/ t > reached[e] THEN Places ELSE {truth[t]}

InHand(r) == NextOf(r.todo)

\* The final block of e gets to t.
Finalizes(e) ==
    \E t \in Transfers :
        /\ network.records[t] > 0 /\ t > reached[e]
        /\ reached' = [reached EXCEPT ![e] = t]
        /\ UNCHANGED <<network, truth, calm, rowVars, lease, failures, memory, round>>

\* A round of the observer records t in a final block, for the first time or
\* again after it vanished.  What is known of a disagreement stays.
Recorded(t) ==
    /\ row[t] # "matched"
    /\ times[t] < network.records[t]
    /\ row' = [row EXCEPT ![t] = "matched"]
    /\ times' = [times EXCEPT ![t] = @ + 1]
    /\ UNCHANGED <<chainVars, calm, settled, contested, lease, failures, memory, round>>

(***************************************************************************)
(* A round.                                                                *)
(***************************************************************************)

\* The next page of candidates of one side, from after a place.
Undecided(side) == {t \in side : row[t] = "matched" /\ ~settled[t]}
Waiting(side, after) == {t \in Undecided(side) : t > after}
Page(side, after) ==
    {t \in Waiting(side, after) :
        Cardinality({u \in Waiting(side, after) : u < t}) < PerRound}

\* Where the round after it goes on from: a page that is not full is the last.
Onwards(page) == IF Cardinality(page) < PerRound THEN 0 ELSE Max(page)

\* The lease is free, ran out, or is this instance's already.
Acquire(w) ==
    /\ lease \in {Nobody, w}
    /\ lease' = w

Begin(w) ==
    /\ w \in network.running /\ round[w] = NoRound
    /\ Acquire(w)
    /\ LET payments == Page(Paying, from[w])
           refunds == Page(Backing, back[w])
       IN round' = [round EXCEPT ![w] =
            [phase |-> "next",
             todo |-> {[transfer |-> t, times |-> times[t]] : t \in payments \cup refunds},
             asking |-> network.endpoints, left |-> {}, said |-> {},
             verdict |-> "none", shown |-> "none",
             onwards |-> Onwards(payments), onwardsBack |-> Onwards(refunds)]]
    /\ UNCHANGED <<chainVars, calm, rowVars, failures, memory>>

\* The round of w goes on to be r.
GoOn(w, r) ==
    /\ round' = [round EXCEPT ![w] = r]
    /\ UNCHANGED <<chainVars, calm, lease, failures, from, back>>

Told(w, t) == answers[w][t] # Untold
InDoubt(w, t) == answers[w][t].verdict = "disagreed" /\ answers[w][t].skip > 0

\* The candidate in hand is done with.
Past(r) == [r EXCEPT !.phase = "next", !.todo = @ \ {InHand(r)}, !.left = {},
                     !.said = {}, !.verdict = "none", !.shown = "none"]

\* A transfer the endpoints disagree about is left unasked this time.
SkipAgain(w) ==  \* a mutant: the rounds left unasked are not counted down
    LET r == round[w]
        t == InHand(r).transfer
    IN /\ r.phase = "next" /\ r.todo # {}
       /\ InDoubt(w, t)
       /\ pass' = [pass EXCEPT ![w][t] = answers[w][t]]
       /\ GoOn(w, Past(r))
       /\ UNCHANGED <<rowVars, answers>>
Skip(w) ==
    LET r == round[w]
        t == InHand(r).transfer
    IN /\ r.phase = "next" /\ r.todo # {}
       /\ InDoubt(w, t)
       /\ pass' = [pass EXCEPT ![w][t] = [answers[w][t] EXCEPT !.skip = @ - 1]]
       /\ GoOn(w, Past(r))
       /\ UNCHANGED <<rowVars, answers>>

Ask(w) ==
    LET r == round[w]
    IN /\ r.phase = "next" /\ r.todo # {}
       /\ ~InDoubt(w, InHand(r).transfer)
       /\ GoOn(w, [r EXCEPT !.phase = "asking", !.left = r.asking])
       /\ UNCHANGED <<rowVars, answers, pass>>

\* Endpoint e does not answer, and is asked nothing more this round.
Silent(w, r, e) ==
    /\ calm => e \in network.liars
    /\ GoOn(w, [r EXCEPT !.phase = "asking", !.shown = "none",
                         !.left = @ \ {e}, !.asking = @ \ {e}])

\* What r is once endpoint e has said v.
CountedTogether(r, e, v) ==  \* a mutant: answers are counted, not compared
    [r EXCEPT !.phase = IF Cardinality(r.said \cup {e}) = network.agreements
                        THEN "heard" ELSE "asking",
              !.verdict = IF r.said = {} THEN v ELSE @,
              !.said = @ \cup {e}, !.left = @ \ {e}, !.shown = "none"]
Counted(r, e, v) ==
    IF r.said # {} /\ v # r.verdict
    THEN [r EXCEPT !.phase = "heard", !.verdict = "disagreed", !.shown = "none"]
    ELSE [r EXCEPT !.phase = IF Cardinality(r.said \cup {e}) = network.agreements
                             THEN "heard" ELSE "asking",
                   !.verdict = v, !.said = @ \cup {e}, !.left = @ \ {e}, !.shown = "none"]

\* The next endpoint is asked for the transaction.
Receipt(w) ==
    LET r == round[w]
        e == Min(r.left)
    IN /\ r.phase = "asking" /\ r.left # {}
       /\ \/ Silent(w, r, e)
          \/ \E at \in Shows(e, InHand(r).transfer) :
                GoOn(w, IF at = "elsewhere" THEN Counted(r, e, "elsewhere")
                        ELSE [r EXCEPT !.phase = "shown", !.shown = at])
       /\ UNCHANGED <<rowVars, answers, pass>>

\* And then for its final block, which is what the answer turns on.  What e has
\* just shown may have given way to the truth between the two questions only as
\* far as Lags says; the final block gets there after the answer otherwise.
IsPast(e, t, shown) ==
    IF e \in network.liars THEN BOOLEAN
    ELSE {reached[e] >= t /\ shown \in Lags \cup {truth[t]}}
Head(w) ==
    LET r == round[w]
        e == Min(r.left)
    IN /\ r.phase = "shown"
       /\ \/ Silent(w, r, e)
          \/ \E past \in IsPast(e, InHand(r).transfer, r.shown) :
                GoOn(w, Counted(r, e, IF ~past THEN "waiting"
                                      ELSE IF r.shown = "recorded" THEN "final" ELSE "gone"))
       /\ UNCHANGED <<rowVars, answers, pass>>

\* Fewer endpoints answered than agreement takes: what they had been saying
\* before stands.
Unanswered(w) ==
    LET r == round[w]
        t == InHand(r).transfer
    IN /\ r.phase = "asking" /\ r.left = {}
       /\ pass' = IF Told(w, t) THEN [pass EXCEPT ![w][t] = answers[w][t]] ELSE pass
       /\ GoOn(w, Past(r))
       /\ UNCHANGED <<rowVars, answers>>

\* What an answer is remembered as, after the one before it.
Following(before, verdict) ==
    LET rounds == IF before.verdict = verdict /\ verdict \in {"gone", "disagreed"}
                  THEN Min({before.rounds + 1, Enough})
                  ELSE 1
    IN [verdict |-> verdict, rounds |-> rounds,
        skip |-> IF verdict = "disagreed" THEN Min({rounds, MaxSkip}) ELSE 0]

\* The endpoints are found to disagree, or no longer do.
Disagree(t) == contested' = [contested EXCEPT ![t] = TRUE]
Agree(t) == contested' = [contested EXCEPT ![t] = FALSE]

\* Which is written when the answer is the first to say so, before it is
\* remembered.
Note(w) ==
    LET r == round[w]
        t == InHand(r).transfer
        before == answers[w][t]
        now == Following(before, r.verdict)
    IN /\ r.phase = "heard"
       /\ IF now.verdict = "disagreed"
          THEN IF now.rounds = 1 THEN Disagree(t) ELSE UNCHANGED contested
          ELSE IF before.verdict = "disagreed" THEN Agree(t) ELSE UNCHANGED contested
       /\ pass' = [pass EXCEPT ![w][t] = now]
       /\ GoOn(w, [r EXCEPT !.phase = "decide"])
       /\ UNCHANGED <<row, times, settled, answers>>

\* The payment or refund of c is as it was read: recording a transfer and its
\* vanishing move a payment, and a refund is moved by neither.
Unmoved(c) ==
    /\ ~settled[c.transfer]
    /\ c.transfer \in Paying => row[c.transfer] = "matched" /\ times[c.transfer] = c.times

\* The answer is final: pay, or settle.
Settle(w) ==
    LET r == round[w]
        c == InHand(r)
    IN /\ r.phase = "decide" /\ r.verdict = "final"
       /\ settled' = [settled EXCEPT ![c.transfer] = @ \/ Unmoved(c)]
       /\ GoOn(w, Past(r))
       /\ UNCHANGED <<row, times, contested, answers, pass>>

\* The endpoints have said often enough in a row that it is gone.
MissedBefore(w, r) ==  \* a mutant: one round too few
    r.verdict = "gone" /\ pass[w][InHand(r).transfer].rounds + 1 >= network.misses
Missed(w, r) ==
    r.verdict = "gone" /\ pass[w][InHand(r).transfer].rounds >= network.misses
GiveUp(w) ==
    LET r == round[w]
    IN /\ r.phase = "decide" /\ Missed(w, r)
       /\ row' = [row EXCEPT ![InHand(r).transfer] = "vanished"]
       /\ GoOn(w, Past(r))
       /\ UNCHANGED <<times, settled, contested, answers, pass>>

\* Anything else moves nothing.
LeaveIt(w) ==
    LET r == round[w]
    IN /\ r.phase = "decide" /\ r.verdict # "final" /\ ~Missed(w, r)
       /\ GoOn(w, Past(r))
       /\ UNCHANGED <<rowVars, answers, pass>>

\* A pass ends with the round that came to the end of both sides.
End(w) ==
    LET r == round[w]
    IN /\ r.phase = "next" /\ r.todo = {}
       /\ round' = [round EXCEPT ![w] = NoRound]
       /\ from' = [from EXCEPT ![w] = r.onwards]
       /\ back' = [back EXCEPT ![w] = r.onwardsBack]
       /\ IF r.onwards = 0 /\ r.onwardsBack = 0
          THEN /\ answers' = [answers EXCEPT ![w] = pass[w]]
               /\ pass' = [pass EXCEPT ![w] = [t \in Transfers |-> Untold]]
          ELSE UNCHANGED <<answers, pass>>
       /\ UNCHANGED <<chainVars, calm, rowVars, lease, failures>>

WorkerStep(w) ==
    \/ Skip(w) \/ Ask(w) \/ Receipt(w) \/ Head(w) \/ Unanswered(w)
    \/ Note(w) \/ Settle(w) \/ GiveUp(w) \/ LeaveIt(w) \/ End(w)

(***************************************************************************)
(* Failures, restarts and the lease.                                       *)
(***************************************************************************)

\* The store or the context fails: the round ends where it is, and what this
\* pass has heard so far is kept.
Fail(w) ==
    /\ ~calm /\ failures < network.failures
    /\ round[w] # NoRound
    /\ round' = [round EXCEPT ![w] = NoRound]
    /\ failures' = failures + 1
    /\ UNCHANGED <<chainVars, calm, rowVars, lease, memory>>

\* A lease another instance holds is left alone.
Release(w) == lease' = IF lease = w THEN Nobody ELSE lease

\* An instance is started anew, and remembers nothing.  One that was stopped
\* put its lease down, one that died did not.
Restart(w) ==
    /\ ~calm /\ w \in network.running /\ failures < network.failures
    /\ failures' = failures + 1
    /\ round' = [round EXCEPT ![w] = NoRound]
    /\ answers' = [answers EXCEPT ![w] = [t \in Transfers |-> Untold]]
    /\ pass' = [pass EXCEPT ![w] = [t \in Transfers |-> Untold]]
    /\ from' = [from EXCEPT ![w] = 0]
    /\ back' = [back EXCEPT ![w] = 0]
    /\ Release(w) \/ UNCHANGED lease
    /\ UNCHANGED <<chainVars, calm, rowVars>>

\* The lease runs out, between two rounds or during one that outlasts it: a
\* name that ran out is as good as one nobody holds.
Lapse ==
    /\ lease # Nobody
    /\ calm => round[lease] = NoRound
    /\ lease' = Nobody
    /\ UNCHANGED <<chainVars, calm, rowVars, failures, memory, round>>

CalmsDown ==
    /\ ~calm
    /\ calm' = TRUE
    /\ UNCHANGED <<chainVars, rowVars, lease, failures, memory, round>>

Next ==
    \/ \E e \in network.endpoints : Finalizes(e)
    \/ \E t \in Transfers : Recorded(t)
    \/ \E w \in Workers : Begin(w) \/ WorkerStep(w) \/ Fail(w) \/ Restart(w)
    \/ Lapse
    \/ CalmsDown

Spec == Init /\ [][Next]_vars

(***************************************************************************)
(* Safety.                                                                 *)
(***************************************************************************)

\* A payment or refund is settled by a transfer only when that is where it was
\* recorded in what the chain will hold, though one endpoint lies, others lag
\* or are silent, and two instances work at once (Ask, pay, settle).
SettledIsFinal == \A t \in Transfers : settled[t] => truth[t] = "recorded"

\* A transfer is given up only when the chain will not hold it: an endpoint
\* that says once, while its final block passes, that it has nothing is
\* outvoted by the rounds that have to say so in a row, whatever was paged,
\* skipped, cut short or asked by two instances in between (decided, Vanish).
GivenUpIsGone == \A t \in Transfers : row[t] = "vanished" => truth[t] = "nowhere"

\* What rounds remember of a transfer, and what they do on it, stays in bounds and in
\* step with what the endpoints said (decided).
RoundsHold == TypeOK /\ GivenUpIsGone

(***************************************************************************)
(* Liveness: providers and instances are up in the end, and rounds go on.  *)
(***************************************************************************)
FairSpec ==
    /\ Spec
    /\ WF_vars(CalmsDown)
    /\ WF_vars(\E e \in network.endpoints : Finalizes(e))
    /\ WF_vars(\E w \in Workers : Begin(w))
    /\ \A w \in Workers : WF_vars(WorkerStep(w))

\* When no endpoint lies, a transfer that is where it was recorded settles in
\* the end, however often endpoints that lag made the others disagree and the
\* transfer be asked about less often (round, pay, settle).
FinalSettles ==
    \A t \in Transfers :
        (network.liars = {} /\ truth[t] = "recorded" /\ row[t] = "matched") ~> settled[t]

\* And one that is nowhere is given up in the end, so that a payment does not
\* go on showing money that is not there (decided, Vanish).
GoneIsGivenUp ==
    \A t \in Transfers :
        (network.liars = {} /\ truth[t] = "nowhere" /\ row[t] = "matched") ~> (row[t] = "vanished")

\* Every transfer recorded of a payment is decided in the end, the one way or the other.
IsDecided == FinalSettles /\ GoneIsGivenUp

=======================================================================
