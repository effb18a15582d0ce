-------------------------- MODULE Checkout --------------------------
(***************************************************************************)
(* The page a payer is sent to (checkout/http.go, state.go, postgres.go)   *)
(* and what it asks of the payments: one attempt to sign, and one more in  *)
(* its place when the payer says the first was spent by something else     *)
(* (payment/service.go Await, Supersede, Issue).                           *)
(*                                                                         *)
(* One payment, and several tabs on its page.  A request is a row of calls *)
(* to the database, each a step; what it read it keeps, and the other tab, *)
(* the observer, finality and the clock move in between.  Attempts are     *)
(* numbered in the order they were stored.                                 *)
(***************************************************************************)
EXTENDS Payment, Integers, Sequences

CONSTANTS Tabs,         \* the pages open on the payment
          MaxAttempts,  \* attempts a payment can have
          ExpiresAt,    \* when the payment stops being payable
          MinRemaining, \* what is left before that for an attempt to be issued
          PageLife,     \* how long the page is read after the payment ended
          Horizon,      \* when the clock stops
          MaxRevision   \* times an attempt is confirmed and taken back

ASSUME CheckoutAssumptions ==
    /\ MaxAttempts \in Nat \ {0}
    /\ ExpiresAt \in Nat /\ MinRemaining \in Nat /\ PageLife \in Nat
    /\ Horizon \in Nat /\ MaxRevision \in Nat

VARIABLES now,          \* the clock of the deployment
          key,          \* the key the token was derived under is in force
          watched,      \* the network has been read
          status,       \* payments.status
          closed,       \* payments.closed_at, or -1
          attempt,      \* the attempts, by the order they were stored in
          matched,      \* the attempt a matched transfer spends the key of, or 0
          request,      \* what a tab's request has read so far
          told          \* the answer a tab had last

deployment == <<now, key, watched>>
rows == <<status, closed, attempt, matched>>
vars == <<deployment, rows, request, told>>

\* The calls a request is made of, in the order of the code: first what find and
\* facts read, then Supersede, Await and Issue, and answerLive.
Reads == {"lookup", "find", "matched", "watched", "live", "attempted"}
Supersedes == {"supersede.find", "supersede.live", "supersede.count", "supersede.save"}
Awaits == {"await.find", "await.save"}
Issues == {"issue.find", "issue.live", "issue.has", "issue.insert"}
Calls == Reads \cup Supersedes \cup Awaits \cup Issues \cup {"answer"}

\* What a tab is told: something to sign, what the page shows, that the request is
\* refused (with 404, 400, or 409 and a reason), that it is to ask again, or that it
\* failed; broken is an answer that did not come for an error outside the
\* program, dropped a connection closed on the tab.
Answers == {"none", "given", "shown", "refused", "again", "failed", "broken", "dropped"}

Attempt == [status : {"issued", "confirming", "superseded"}, revision : 0 .. MaxRevision + 1]
NoAttempt == [status |-> "none"]

Request == [at : Calls, wants : {"state", "attempt"}, reissue : 0 .. MaxAttempts,
            status : Statuses, matched : BOOLEAN, watched : BOOLEAN,
            live : 0 .. MaxAttempts, read : Attempt \cup {NoAttempt}, moved : BOOLEAN]
NoRequest == [at |-> "idle"]

TypeOK ==
    /\ now \in 0 .. Horizon
    /\ key \in BOOLEAN /\ watched \in BOOLEAN
    /\ status \in Statuses
    /\ closed \in -1 .. Horizon
    /\ attempt \in Seq(Attempt)
    /\ matched \in 0 .. Len(attempt)
    /\ request \in [Tabs -> Request \cup {NoRequest}]
    /\ told \in [Tabs -> Answers]

Init ==
    /\ now = 0 /\ key = TRUE /\ watched \in BOOLEAN
    /\ status = "created" /\ closed = -1
    /\ attempt = <<>> /\ matched = 0
    /\ request = [t \in Tabs |-> NoRequest]
    /\ told = [t \in Tabs |-> "none"]

(***************************************************************************)
(* What happens around the page.                                           *)
(***************************************************************************)
Tick == now < Horizon /\ now' = now + 1 /\ UNCHANGED <<key, watched, rows>>
Reading == ~watched /\ watched' = TRUE /\ UNCHANGED <<now, key, rows>>

Moved(i, s) == [attempt EXCEPT ![i] = [status |-> s, revision |-> @.revision + 1]]

\* A transfer spending the key of attempt i is recorded as matched.
Arrives(i) ==
    /\ matched = 0 /\ CanReceive(status)
    /\ attempt[i].status = "issued" => attempt[i].revision < MaxRevision
    /\ matched' = i
    /\ attempt' = IF attempt[i].status = "issued" THEN Moved(i, "confirming") ELSE attempt
    /\ UNCHANGED <<deployment, status, closed>>

\* It is no longer on the chain.
Vanishes ==
    /\ matched # 0 /\ status \notin Closed
    /\ attempt[matched].status = "confirming" => attempt[matched].revision < MaxRevision
    /\ matched' = 0
    /\ attempt' = IF attempt[matched].status = "confirming" THEN Moved(matched, "issued")
                                                            ELSE attempt
    /\ UNCHANGED <<deployment, status, closed>>

Overdue ==
    /\ now >= ExpiresAt /\ CanBecome(status, "awaiting_finality")
    /\ status' = "awaiting_finality"
    /\ UNCHANGED <<deployment, closed, attempt, matched>>

\* Finality settles what a matched transfer paid, and expires the rest.
Ends ==
    LET want == IF matched # 0 THEN "succeeded" ELSE "expired" IN
    /\ CanBecome(status, want)
    /\ status' = want
    /\ closed' = now
    /\ UNCHANGED <<deployment, attempt, matched>>

Around == (\/ Tick \/ Reading \/ Vanishes \/ Overdue \/ Ends
           \/ \E i \in 1 .. Len(attempt) : Arrives(i))
          /\ UNCHANGED <<request, told>>

(***************************************************************************)
(* A request.                                                              *)
(***************************************************************************)
\* The request of tab t is at a call; it goes on to another, with what it read.
At(t, call) == request[t].at = call
Onto(t, call) == request' = [request EXCEPT ![t].at = call] /\ UNCHANGED told
Keeps(t, field, value, call) ==
    request' = [request EXCEPT ![t].at = call, ![t][field] = value] /\ UNCHANGED told
Answer(t, word) ==
    /\ request' = [request EXCEPT ![t] = NoRequest]
    /\ told' = [told EXCEPT ![t] = word]
Quiet == UNCHANGED <<deployment, rows>>

\* A payer opens the page, or asks for something to sign: in place of attempt i
\* if i is not 0.  Which body a tab sends is up to its script.
Ask(t, wants, i) ==
    /\ request[t] = NoRequest
    /\ wants = "state" => i = 0
    /\ request' = [request EXCEPT ![t] =
           [at |-> "lookup", wants |-> wants, reissue |-> i, status |-> "created",
            matched |-> FALSE, watched |-> FALSE, live |-> 0, read |-> NoAttempt,
            moved |-> FALSE]]
    /\ told' = [told EXCEPT ![t] = "none"]
    /\ UNCHANGED <<deployment, rows>>

Readable == closed = -1 \/ now < closed + PageLife

Lookup(t) == /\ At(t, "lookup") /\ Quiet
             /\ IF key /\ Readable THEN Onto(t, "find") ELSE Answer(t, "refused")

Find(t) == At(t, "find") /\ Quiet /\ Keeps(t, "status", status, "matched")

\* Whatever the attempt has come to since: a transfer of a superseded one pays.
MatchedOfLive == matched # 0 /\ attempt[matched].status \in Live  \* a mutant: of the live attempt
MatchedOf == matched # 0

Matched(t) == At(t, "matched") /\ Quiet /\ Keeps(t, "matched", MatchedOf, "watched")

Watched(t) == At(t, "watched") /\ Quiet /\ Keeps(t, "watched", watched, "live")

\* The attempt that could still be paid, or 0.
LiveAttempt == LET live == {i \in 1 .. Len(attempt) : attempt[i].status \in Live}
               IN IF live = {} THEN 0 ELSE CHOOSE i \in live : TRUE

ReadLive(t) == At(t, "live") /\ Quiet /\ Keeps(t, "live", LiveAttempt, "attempted")

\* Why nothing can be signed, in the order a payer would want to be told: that
\* it ended, was paid, is late, and only then what the deployment has not done.
ReasonAtLast(r) ==  \* a mutant: the least that must be left is too little
    IF r.status \in Closed THEN "done"
    ELSE IF r.matched THEN "paid"
    ELSE IF now >= ExpiresAt THEN "expired"
    ELSE IF ExpiresAt - now <= MinRemaining THEN "closing"
    ELSE IF ~r.watched THEN "not_ready"
    ELSE IF Len(attempt) >= MaxAttempts THEN "reissued" ELSE "none"
Reason(r) ==
    IF r.status \in Closed THEN "done"
    ELSE IF r.matched THEN "paid"
    ELSE IF now >= ExpiresAt THEN "expired"
    ELSE IF ExpiresAt - now < MinRemaining THEN "closing"
    ELSE IF ~r.watched THEN "not_ready"
    ELSE IF Len(attempt) >= MaxAttempts THEN "reissued" ELSE "none"

\* What the page shows: the status, a created payment's being the one it is about
\* to have, whether there is a result, what can be signed and why nothing can.
Shown(r) == [status |-> IF r.status = "created" THEN "awaiting_payment" ELSE r.status,
             result |-> r.matched, attempt |-> r.live # 0, reason |-> Reason(r)]

\* Where a request for an attempt goes on: what it asks to be replaced is retired
\* first, and a created payment is made payable.
Onwards(r) == IF r.reissue # 0 THEN "supersede.find"
              ELSE IF r.status = "created" THEN "await.find" ELSE "issue.find"

\* The last read, and what the request comes to by what it read.
CountEarly(t) ==  \* a mutant: the payment is moved before the request is refused
    LET r == request[t] IN
    /\ At(t, "attempted") /\ r.wants = "attempt" /\ r.reissue = 0 /\ r.live = 0
    /\ status' = IF status = "created" THEN "awaiting_payment" ELSE status
    /\ UNCHANGED <<deployment, closed, attempt, matched>>
    /\ IF Reason(r) # "none" THEN Answer(t, "refused") ELSE Onto(t, "issue.find")
Count(t) ==
    LET r == request[t] IN
    /\ At(t, "attempted") /\ Quiet
    /\ IF r.wants = "state" THEN Answer(t, "shown")
       ELSE IF r.reissue # 0 /\ r.live # r.reissue THEN Answer(t, "refused")
       ELSE IF r.reissue = 0 /\ r.live # 0 THEN Answer(t, "given")
       ELSE IF Reason(r) # "none" THEN Answer(t, "refused")
       ELSE Onto(t, Onwards(r))

(***************************************************************************)
(* Supersede: the attempt the payer named, read again and saved by the     *)
(* revision it was read at.                                                *)
(***************************************************************************)
SupersedeFind(t) ==
    /\ At(t, "supersede.find") /\ Quiet
    /\ IF status = "awaiting_payment" THEN Onto(t, "supersede.live") ELSE Answer(t, "failed")

SupersedeLive(t) ==
    /\ At(t, "supersede.live") /\ Quiet
    /\ IF LiveAttempt # request[t].reissue THEN Onto(t, "answer")
       ELSE Keeps(t, "read", attempt[LiveAttempt], "supersede.count")

SupersedeCount(t) ==
    /\ At(t, "supersede.count") /\ Quiet
    /\ IF Len(attempt) >= MaxAttempts THEN Answer(t, "refused")
       ELSE IF request[t].read.status # "issued" THEN Answer(t, "failed")
       ELSE Onto(t, "supersede.save")

\* The row is at the revision it was read at.
UnmovedUnchecked(r) == TRUE  \* a mutant: the revision is not compared
Unmoved(r) == attempt[r.reissue].revision = r.read.revision

SupersedeSave(t) ==
    LET r == request[t] IN
    /\ At(t, "supersede.save")
    /\ UNCHANGED <<deployment, status, closed, matched>>
    /\ IF Unmoved(r)
       THEN /\ attempt' = Moved(r.reissue, "superseded")
            /\ Keeps(t, "moved", TRUE, IF r.status = "created" THEN "await.find"
                                                               ELSE "issue.find")
       ELSE Onto(t, "answer") /\ UNCHANGED attempt

(***************************************************************************)
(* Await: that another request moved the payment first is no reason to     *)
(* stop.  A created payment changes in no other way, so that its version   *)
(* has moved and that it is no longer created are the same.                *)
(***************************************************************************)
AwaitFind(t) ==
    /\ At(t, "await.find") /\ Quiet
    /\ Onto(t, IF status = "created" THEN "await.save" ELSE "issue.find")

AwaitSave(t) ==
    /\ At(t, "await.save")
    /\ IF status = "created"
       THEN status' = "awaiting_payment" /\ Keeps(t, "moved", TRUE, "issue.find")
       ELSE UNCHANGED status /\ Onto(t, "issue.find")
    /\ UNCHANGED <<deployment, closed, attempt, matched>>

(***************************************************************************)
(* Issue.  A request that finds an attempt live, or loses the insert to    *)
(* one, goes on with the payment Issue returned, which is none.            *)
(***************************************************************************)
IssueFind(t) ==
    /\ At(t, "issue.find") /\ Quiet
    /\ IF status = "awaiting_payment" THEN Onto(t, "issue.live") ELSE Answer(t, "failed")

Lost(t) == Answer(t, "dropped")

IssueLive(t) ==
    /\ At(t, "issue.live") /\ Quiet
    /\ IF LiveAttempt # 0 THEN Lost(t) ELSE Onto(t, "issue.has")

IssueHas(t) ==
    /\ At(t, "issue.has") /\ Quiet
    /\ IF watched /\ ExpiresAt - now >= MinRemaining THEN Onto(t, "issue.insert")
                                                     ELSE Answer(t, "failed")

\* attempts_one_live_per_payment
Taken == LiveAttempt # 0

Insert(t) ==
    /\ At(t, "issue.insert")
    /\ IF Taken THEN Lost(t) /\ UNCHANGED attempt
       ELSE /\ attempt' = Append(attempt, [status |-> "issued", revision |-> 0])
            /\ Answer(t, "given")
    /\ UNCHANGED <<deployment, status, closed, matched>>

AnswerLive(t) ==
    /\ At(t, "answer") /\ Quiet
    /\ Answer(t, IF LiveAttempt = 0 THEN "again" ELSE "given")

\* A call to the database fails.
Fails(t) == request[t] # NoRequest /\ Quiet /\ Answer(t, "broken")

\* The deployment starts again, under another key or under the same.
Restart(k) ==
    /\ key' = k
    /\ request' = [t \in Tabs |-> NoRequest]
    /\ told' = [t \in Tabs |-> IF request[t] = NoRequest THEN told[t] ELSE "broken"]
    /\ UNCHANGED <<now, watched, rows>>

Step(t) == \/ Lookup(t) \/ Find(t) \/ Matched(t) \/ Watched(t) \/ ReadLive(t) \/ Count(t)
           \/ SupersedeFind(t) \/ SupersedeLive(t) \/ SupersedeCount(t) \/ SupersedeSave(t)
           \/ AwaitFind(t) \/ AwaitSave(t)
           \/ IssueFind(t) \/ IssueLive(t) \/ IssueHas(t) \/ Insert(t)
           \/ AnswerLive(t)

Asks(t) == \/ Ask(t, "state", 0)
           \/ Ask(t, "attempt", 0)
           \/ \E i \in 1 .. Len(attempt) : Ask(t, "attempt", i)

Breaks == \/ Restart(key) \/ Restart(FALSE)
          \/ \E t \in Tabs : Fails(t)

Next == \/ Around \/ Breaks
        \/ \E t \in Tabs : Asks(t) \/ Step(t)

\* The server works on a request until it is answered.  A payer's page comes back to
\* asking for something to sign, whatever else it asks in between.
Fairness == \A t \in Tabs : WF_vars(Step(t)) /\ SF_vars(Ask(t, "attempt", 0))

Spec == Init /\ [][Next]_vars
FairSpec == Spec /\ Fairness

(***************************************************************************)
(* What holds.                                                             *)
(***************************************************************************)
\* A payment has one reissue and no more (service.go:270-274).  Only Supersede
\* counts: Issue stores whatever the index over live attempts lets through, and
\* two tabs that both retired the first attempt, or found none, both issue.
OneReissue == Len(attempt) <= MaxAttempts

\* An attempt a transfer was seen against is not retired (attempt.go:243-245): the
\* transfer may come in between the page's reading of the attempt and its save.
ConfirmingStays ==
    [][\A i \in 1 .. Len(attempt) :
         attempt[i].status = "confirming" => attempt'[i].status # "superseded"]_vars

\* What refuses a request is answered before anything moves (http.go:153-154): a
\* request that is refused has changed nothing, neither before nor with the answer,
\* whatever the other tab did meanwhile.
RefusedMovesNothing ==
    [][\A t \in Tabs : request[t] # NoRequest /\ told'[t] = "refused" =>
          ~request[t].moved /\ rows' = rows]_vars

\* The page never shows a payment that succeeded and no transfer that paid it: its
\* status and its result are two reads, and what paid may be an attempt long
\* retired.
SucceededHasResult ==
    \A t \in Tabs : At(t, "attempted") =>
        (Shown(request[t]).status = "succeeded" => Shown(request[t]).result)

\* Two tabs and a restart between any two statements leave the attempts and the page true.
PageHolds == TypeOK /\ OneReissue /\ SucceededHasResult

\* Something can be signed: the payment is open, there is time, and nothing paid it.
Payable == /\ key /\ watched /\ matched = 0
           /\ status \in {"created", "awaiting_payment"}
           /\ ExpiresAt - now >= MinRemaining

\* A payer whose page keeps asking is given something to sign, wherever a request
\* broke off between retiring one attempt and issuing the next, unless the payment
\* stops being payable first, or something breaks again and again.
PayerIsServed ==
    <>[][~Breaks]_vars => \A t \in Tabs : Payable ~> (told[t] = "given" \/ ~Payable)

=======================================================================
