---------------------------- MODULE Rounds ----------------------------
(***************************************************************************)
(* What an instance that observes a network asks of it, how often, and      *)
(* what it says of it (observe/observer.go).  What a round finds and writes *)
(* is Settlement's; here a block is a height, and a round is the calls it   *)
(* makes, any of which may fail: to the lease, to the chain, and to the     *)
(* cursor.                                                                  *)
(*                                                                         *)
(* A provider refuses a span wider than it answers for, or refuses for the  *)
(* rate of calls; what a round comes to moves the span and the wait of the  *)
(* next.  Time is told in parts of Stale.  The wait itself is not modelled:  *)
(* rounds come when they come.                                              *)
(***************************************************************************)
EXTENDS Integers

CONSTANTS Instances, Nobody,
          Someone,       \* an instance besides them, of which only the lease and the cursor tell
          Width,         \* the most blocks the document lets a round read
          MinWidth,      \* the fewest a refusal leaves it
          Limit,         \* the widest span the provider answers for
          Poll,          \* the wait the document sets
          MaxInterval,   \* the longest one
          RetryAfters,   \* what a refusal for the rate of calls may ask for, 0 for nothing
          RecoverAfter,  \* rounds that pass before the span goes back up
          Stale,         \* how long a word that reading goes on stands
          Every,         \* how often the chain is asked what it is
          FallsBehind,   \* a provider may be behind the cursor
          Repoints,      \* an instance may be started with an endpoint of another chain
          MaxFinal, MaxRestarts   \* bounds of a run

ASSUME RoundsAssumptions ==
    /\ {Nobody, Someone} \cap Instances = {} /\ Nobody # Someone
    /\ {Width, MinWidth, Limit, Poll, MaxInterval, RecoverAfter, Every, MaxFinal}
           \subseteq Nat \ {0}
    /\ MinWidth <= Width /\ MinWidth <= Limit /\ Poll <= MaxInterval
    /\ RetryAfters \subseteq Nat /\ {Stale, MaxRestarts} \subseteq Nat
    /\ {FallsBehind, Repoints} \subseteq BOOLEAN

VARIABLES final,     \* the final block of the chain the document names
          endpoint,  \* the chain an instance's endpoint leads to
          cursor,    \* observation_cursors: the height and its chain
          touched,   \* how long ago it was written
          lease,     \* who holds the lease, and whether its deadline has passed
          inst,      \* what an instance has in hand
          restarts

vars == <<final, endpoint, cursor, touched, lease, inst, restarts>>

Chains == {"named", "other"}
NoCursor == [height |-> 0, chain |-> "named"]

Words == {"observing", "no-cursor", "unreachable", "no-finalized", "stalled",
          "chain-mismatch", "finalized-behind", "finalized-changed"}

\* Where an instance is in its round.
Steps == {"off", "idle", "standing", "head", "cursor", "holds", "read", "write", "ahead"}

\* However a provider refuses, a round reads no fewer blocks than keeps up and no more
\* than the document allows, and waits between the document's interval and the longest
\* one (observer.go:68-70, 87-91, 192-196).
Instance == [at : Steps, word : Words, width : MinWidth .. Width,
             interval : Poll .. MaxInterval, passed : 0 .. RecoverAfter, identified : 0 .. Every, succeeded : 0 .. Stale + 1,
             head : 0 .. MaxFinal, from : [height : 0 .. MaxFinal, chain : Chains],
             to : 0 .. MaxFinal]

Off(word) == [at |-> "off", word |-> word, width |-> Width, interval |-> Poll, passed |-> 0,
              identified |-> Every, succeeded |-> Stale + 1,
              head |-> 0, from |-> NoCursor, to |-> 0]

\* Types, the bounds of a round's span and wait among them.
TypeOK ==
    /\ final \in 1 .. MaxFinal
    /\ endpoint \in [Instances -> Chains]
    /\ cursor \in [height : 0 .. MaxFinal, chain : Chains]
    /\ touched \in 0 .. Stale + 1
    /\ lease \in [holder : Instances \cup {Nobody, Someone}, lapsed : BOOLEAN]
    /\ inst \in [Instances -> Instance]
    /\ restarts \in 0 .. MaxRestarts

Init ==
    /\ final = 1
    /\ endpoint \in [Instances -> IF Repoints THEN Chains ELSE {"named"}]
    /\ cursor = NoCursor /\ touched = 0
    /\ lease = [holder |-> Nobody, lapsed |-> FALSE]
    /\ inst = [i \in Instances |-> Off("unreachable")]
    /\ restarts = 0

(***************************************************************************)
(* What a round comes to.                                                  *)
(***************************************************************************)
\* How a call ends: it is answered, or it fails in one of these ways.
Wide == [kind |-> "wide", after |-> 0]
Other == [kind |-> "other", after |-> 0]
Limited(n) == [kind |-> "limited", after |-> n]
Failures == {Other} \cup {Limited(n) : n \in RetryAfters}

Least(a, b) == IF a < b THEN a ELSE b
Most(a, b) == IF a < b THEN b ELSE a

Widened(width) == Least(2 * width, Width)

Passed(s) ==
    LET again == s.passed + 1 >= RecoverAfter IN
    [s EXCEPT !.interval = Most(s.interval \div 2, Poll),
              !.passed = IF again THEN 0 ELSE s.passed + 1,
              !.width = IF again THEN Widened(s.width) ELSE s.width]

\* A wait that was asked for is taken where it is one this would take anyway.
WaitAsked(interval, n) ==  \* a mutant: whatever was asked for is waited
    IF n > 0 THEN Most(n, Poll) ELSE Least(2 * interval, MaxInterval)
Wait(interval, n) ==
    IF n > 0 /\ n <= MaxInterval THEN Most(n, Poll) ELSE Least(2 * interval, MaxInterval)

NarrowedNever(width) == width  \* a mutant: a refusal narrows nothing
Narrowed(width) == IF width > MinWidth THEN Most(width \div 2, MinWidth) ELSE width

Refused(s, e) ==
    LET t == [s EXCEPT !.passed = 0] IN
    CASE e.kind = "limited" -> [t EXCEPT !.interval = Wait(s.interval, e.after)]
      [] e.kind = "wide"    -> [t EXCEPT !.width = Narrowed(s.width)]
      [] OTHER              -> t

\* A provider behind the cursor moves neither, by the word it left.
Behind(s) == s.word = "finalized-behind"

\* A word that reading goes on is taken back once it has not for too long.
StallingNever(s) == s  \* a mutant: it stands
Stalling(s) == IF s.word = "observing" /\ s.succeeded > Stale
               THEN [s EXCEPT !.word = "stalled"] ELSE s

Done(s) == [s EXCEPT !.at = "idle", !.head = 0, !.from = NoCursor, !.to = 0]

Finished(s) == Done(IF Behind(s) THEN s ELSE Passed(s))
Failed(s, e) == LET t == Stalling(s) IN Done(IF Behind(t) THEN t ELSE Refused(t, e))

(***************************************************************************)
(* A round.                                                                *)
(***************************************************************************)
At(i, step) == inst[i].at = step
Becomes(i, s) == inst' = [inst EXCEPT ![i] = s]
Says(s, word) == [s EXCEPT !.word = word]
Goes(i, step) == Becomes(i, [inst[i] EXCEPT !.at = step])
Fails(i, s) == \E e \in Failures : Becomes(i, Failed(s, e))

\* The probe a process starts with.  One that is not answered is waited on; one that is
\* answered by another chain is too, and asked again what it is only when it is time.
Start(i) ==
    /\ At(i, "off")
    /\ \/ \E word \in {"unreachable", "no-finalized"} :
             Becomes(i, [inst[i] EXCEPT !.at = "idle", !.word = word])
       \/ Becomes(i, [inst[i] EXCEPT !.at = "idle", !.identified = 0,
                      !.word = IF endpoint[i] = "named" THEN "no-cursor" ELSE "chain-mismatch"])
    /\ UNCHANGED <<final, endpoint, cursor, touched, lease, restarts>>

\* The lease is taken where nobody's stands.  Without it an instance says what the
\* holder's writing says; without the database, nothing.
MayHold(i) == lease.holder \in {Nobody, i} \/ lease.lapsed

Waiting(i) ==
    Becomes(i, Says(inst[i], IF cursor = NoCursor THEN "no-cursor"
                             ELSE IF touched > Stale THEN "stalled" ELSE "observing"))

Acquire(i) ==
    /\ At(i, "idle")
    /\ IF MayHold(i)
       THEN lease' = [holder |-> i, lapsed |-> FALSE] /\ Goes(i, "standing")
       ELSE Waiting(i) /\ UNCHANGED lease
    /\ UNCHANGED <<final, endpoint, cursor, touched, restarts>>

\* Before a call, the lease is put out again where little of it is left.
Keeps(i) == \/ UNCHANGED lease
            \/ lease.holder = i /\ lease' = [lease EXCEPT !.lapsed = FALSE]

Lost(i) == /\ At(i, "standing") \/ At(i, "holds") \/ At(i, "read")
           /\ lease.holder # i
           /\ Becomes(i, Failed(inst[i], Other))
           /\ UNCHANGED <<final, endpoint, cursor, touched, lease, restarts>>

\* What the chain says it is, where it is time to ask.
Standing(i) ==
    LET s == inst[i] IN
    /\ At(i, "standing") /\ Keeps(i)
    /\ \/ s.identified < Every /\ Goes(i, "head")
       \/ /\ s.identified >= Every
          /\ IF endpoint[i] = "named"
             THEN Becomes(i, [s EXCEPT !.at = "head", !.identified = 0])
             ELSE Becomes(i, Failed([Says(s, "chain-mismatch") EXCEPT !.identified = 0], Other))
       \/ s.identified >= Every /\ Fails(i, Says(s, "unreachable"))
    /\ UNCHANGED <<final, endpoint, cursor, touched, restarts>>

\* Where it stands: another endpoint may not have got as far.
Head(i) ==
    LET s == inst[i] IN
    /\ At(i, "head")
    /\ \/ \E h \in IF FallsBehind THEN 1 .. final ELSE {final} :
             Becomes(i, [s EXCEPT !.at = "cursor", !.head = h])
       \/ \E word \in {"unreachable", "no-finalized"} : Fails(i, Says(s, word))
    /\ UNCHANGED <<final, endpoint, cursor, touched, lease, restarts>>

\* The first round on a network begins where the chain stands, and reads nothing.
FirstRound(i) ==
    LET s == inst[i] IN
    /\ At(i, "cursor") /\ cursor = NoCursor
    /\ \/ /\ cursor' = [height |-> s.head, chain |-> endpoint[i]]
          /\ touched' = 0
          /\ Becomes(i, Finished(Says(s, "no-cursor")))
       \/ Becomes(i, Failed(Says(s, "no-cursor"), Other)) /\ UNCHANGED <<cursor, touched>>
    /\ UNCHANGED <<final, endpoint, lease, restarts>>

Cursor(i) ==
    LET s == inst[i] IN
    /\ At(i, "cursor") /\ cursor # NoCursor
    /\ \/ /\ s.head < cursor.height
          /\ Becomes(i, Finished(Says(s, "finalized-behind")))
       \/ /\ s.head >= cursor.height
          /\ Becomes(i, [s EXCEPT !.at = "holds", !.from = cursor])
    /\ UNCHANGED <<final, endpoint, cursor, touched, lease, restarts>>

\* The database is not reached.
NoDatabase(i) ==
    /\ At(i, "cursor") \/ At(i, "write")
    /\ Becomes(i, Failed(inst[i], Other))
    /\ UNCHANGED <<final, endpoint, cursor, touched, lease, restarts>>

\* The block the cursor sits on is on the chain its endpoint leads to.
HoldsAny(i) == TRUE  \* a mutant: the hash is not looked at
Holds(i) == inst[i].from.chain = endpoint[i]

Check(i) ==
    LET s == inst[i] IN
    /\ At(i, "holds") /\ Keeps(i)
    /\ \/ IF Holds(i) THEN Goes(i, "read")
                      ELSE Becomes(i, Finished(Says(s, "finalized-changed")))
       \/ s.head > s.from.height + 1 /\ Fails(i, s)
    /\ UNCHANGED <<final, endpoint, cursor, touched, restarts>>

\* The last block of the span: the final one, or as far as one round reads.
Last(s) == Least(s.head, s.from.height + s.width)
Span(s) == Last(s) - s.from.height

\* Where nothing more is final there is nothing to read.
Read(i) ==
    LET s == inst[i] IN
    /\ At(i, "read") /\ Keeps(i)
    /\ Span(s) <= Limit
    /\ Becomes(i, [s EXCEPT !.at = "write", !.to = Last(s)])
    /\ UNCHANGED <<final, endpoint, cursor, touched, restarts>>

ReadFails(i) ==
    LET s == inst[i] IN
    /\ At(i, "read") /\ Keeps(i) /\ Span(s) > 0
    /\ IF Span(s) > Limit THEN Becomes(i, Failed(s, Wide)) ELSE Fails(i, s)
    /\ UNCHANGED <<final, endpoint, cursor, touched, restarts>>

\* What was found and the position it was read to, unless the cursor has moved since.
\* The network is being read from then on.
Advances(i) == cursor = inst[i].from

Write(i) ==
    LET s == inst[i] IN
    /\ At(i, "write")
    /\ IF Advances(i)
       THEN /\ cursor' = [height |-> s.to, chain |-> endpoint[i]]
            /\ touched' = 0
            /\ Becomes(i, [Says(s, "observing") EXCEPT !.at = "ahead", !.succeeded = 0])
       ELSE Becomes(i, Failed(s, Other)) /\ UNCHANGED <<cursor, touched>>
    /\ UNCHANGED <<final, endpoint, lease, restarts>>

\* What is read ahead of the final block moves nothing, and its failing is only logged.
Ahead(i) == /\ At(i, "ahead") /\ Keeps(i)
            /\ Becomes(i, Finished(inst[i]))
            /\ UNCHANGED <<final, endpoint, cursor, touched, restarts>>

(***************************************************************************)
(* Around the rounds.                                                      *)
(***************************************************************************)
Finalize == /\ final < MaxFinal
            /\ \E h \in final + 1 .. MaxFinal : final' = h
            /\ UNCHANGED <<endpoint, cursor, touched, lease, inst, restarts>>

Older(age, bound) == Least(age + 1, bound)

Tick == /\ touched' = Older(touched, Stale + 1)
        /\ inst' = [i \in Instances |->
               [inst[i] EXCEPT !.identified = Older(@, Every), !.succeeded = Older(@, Stale + 1)]]
        /\ UNCHANGED <<final, endpoint, cursor, lease, restarts>>

\* A lease has not been put out again in time.
Lapse == /\ lease.holder # Nobody /\ ~lease.lapsed
         /\ lease' = [lease EXCEPT !.lapsed = TRUE]
         /\ UNCHANGED <<final, endpoint, cursor, touched, inst, restarts>>

\* Another instance takes the lease where it may, and writes the cursor, as far as the
\* chain the document names is final; the lease may be lost to it in between.
Elsewhere ==
    /\ \/ MayHold(Someone) /\ lease' = [holder |-> Someone, lapsed |-> FALSE]
          /\ UNCHANGED <<cursor, touched>>
       \/ /\ lease.holder = Someone /\ cursor.chain = "named"
          /\ \E h \in cursor.height .. final : h > 0 /\ cursor' = [cursor EXCEPT !.height = h]
          /\ touched' = 0
          /\ UNCHANGED lease
    /\ UNCHANGED <<final, endpoint, inst, restarts>>

\* A process stops and another is started: one that is asked to puts its lease down.
Restart(i) ==
    /\ restarts < MaxRestarts /\ restarts' = restarts + 1
    /\ ~At(i, "off") /\ Becomes(i, Off("unreachable"))
    /\ \E c \in IF Repoints THEN Chains ELSE {endpoint[i]} : endpoint' = [endpoint EXCEPT ![i] = c]
    /\ \/ UNCHANGED lease
       \/ lease.holder = i /\ lease' = [holder |-> Nobody, lapsed |-> FALSE]
    /\ UNCHANGED <<final, cursor, touched>>

Step(i) == \/ Start(i) \/ Acquire(i) \/ Lost(i) \/ Standing(i) \/ Head(i)
           \/ FirstRound(i) \/ Cursor(i) \/ NoDatabase(i) \/ Check(i)
           \/ Read(i) \/ ReadFails(i) \/ Write(i) \/ Ahead(i)

Next == (\E i \in Instances : Step(i) \/ Restart(i)) \/ Finalize \/ Tick
        \/ Lapse \/ Elsewhere

Spec == Init /\ [][Next]_vars

\* A process goes on, and what it asks for is not refused for ever, but for a span that is
\* wider than its provider answers for.
Takes(i) == Acquire(i) /\ inst'[i].at = "standing"
Answered(i) == Standing(i) /\ inst'[i].at = "head"
Told(i) == Head(i) /\ inst'[i].head = final
Found(i) == Check(i) /\ inst'[i].at = "read"
Asked(i) == Read(i) \/ (Span(inst[i]) > Limit /\ ReadFails(i))
Begun(i) == FirstRound(i) /\ cursor' # cursor
Fairness ==
    /\ WF_vars(Lapse)
    /\ \A i \in Instances :
          /\ WF_vars(Step(i))
          /\ SF_vars(Takes(i)) /\ SF_vars(Answered(i)) /\ SF_vars(Told(i))
          /\ SF_vars(Begun(i)) /\ SF_vars(Cursor(i)) /\ SF_vars(Found(i))
          /\ SF_vars(Asked(i)) /\ SF_vars(Write(i))

LiveSpec == Spec /\ Fairness

(***************************************************************************)
(* What holds.                                                             *)
(***************************************************************************)
\* A cursor is never moved onto another chain: an instance whose endpoint leads to one
\* finds that it does not hold the block the cursor sits on (observer.go:742-744).
CursorStays ==
    [][cursor # NoCursor => cursor'.chain = cursor.chain /\ cursor'.height >= cursor.height]_vars

\* However rounds end, and whichever endpoint an instance is started with: the span of a
\* round and its wait keep their bounds (observer.go:68-70, 87-91), the one that narrows with
\* what is refused and the other that doubles with it, and the cursor keeps its chain.
BoundsAndCursorStay == []TypeOK /\ CursorStays

\* A round that does not finish leaves the word that the network is being read only where
\* one of the instance's own has written within Stale: the word it took over from what
\* another instance wrote is not one it may go on with (observer.go:538-558).
ObservingIsFresh ==
    [][\A i \in Instances :
          inst[i].at \notin {"idle", "ahead"} /\ inst'[i].at = "idle" /\ inst'[i].word = "observing" =>
              inst'[i].succeeded <= Stale]_vars

\* What is final is read, once every provider answers for the chain the document names and
\* has caught up with it: refused spans are narrowed until they are not refused
\* (observer.go:163-168, docs/operating.md:81).
CaughtUp(i) == endpoint[i] = "named" /\ inst[i].head \in {0, final}

CatchesUp ==
    <>[](cursor.chain = "named" /\ \A i \in Instances : CaughtUp(i)) =>
        []<>(cursor.height = final)

=======================================================================
