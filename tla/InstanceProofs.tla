------------------------ MODULE InstanceProofs ------------------------
(***************************************************************************)
(* What an instance of the deployment does of its own accord, proved: how   *)
(* it goes on from round to round of a network (Rounds), what it says of    *)
(* the network's assets (Assets), and how it brings its database up to its  *)
(* build before it serves (Migrations).  The constants and variables of     *)
(* Assets that go by a name Rounds has are renamed.                         *)
(***************************************************************************)
EXTENDS Rounds, TLAPS

\* An instance s whose endpoint leads to chain c goes on from a block its provider has passed,
\* reads on from it only on the chain it is of, and no further back.
ReadsOn(s, c) ==
    /\ s.at \in {"holds", "read", "write"} => s.from.height <= s.head
    /\ s.at \in {"read", "write"} => s.from.chain = c
    /\ s.at = "write" => s.from.height <= s.to

RoundsInv == TypeOK /\ \A i \in Instances : ReadsOn(inst[i], endpoint[i])

\* A span and a wait, halved and doubled, keep their bounds.
LEMMA WidthKept ==
    ASSUME NEW w \in MinWidth .. Width
    PROVE  Narrowed(w) \in MinWidth .. Width /\ Widened(w) \in MinWidth .. Width
  <1>1. MinWidth \in Nat \ {0} /\ Width \in Nat /\ w \in Nat
    BY RoundsAssumptions
  <1>2. w \div 2 \in Nat /\ w \div 2 <= w
    BY <1>1
  <1>. QED BY <1>1, <1>2 DEF Narrowed, Widened, Most, Least

LEMMA IntervalKept ==
    ASSUME NEW n \in Poll .. MaxInterval, NEW a \in RetryAfters
    PROVE  Wait(n, a) \in Poll .. MaxInterval /\ Most(n \div 2, Poll) \in Poll .. MaxInterval
  <1>1. Poll \in Nat \ {0} /\ MaxInterval \in Nat /\ n \in Nat /\ Poll <= MaxInterval /\ a \in Nat
    BY RoundsAssumptions
  <1>2. n \div 2 \in Nat /\ n \div 2 <= n
    BY <1>1
  <1>3. Most(n \div 2, Poll) \in Poll .. MaxInterval
    BY <1>1, <1>2 DEF Most
  <1>4. Wait(n, a) \in Poll .. MaxInterval
    BY <1>1 DEF Wait, Most, Least
  <1>. QED BY <1>3, <1>4

Ends == Failures \cup {Wide}

LEMMA EndIs ==
    ASSUME NEW e \in Ends
    PROVE  e.kind = "limited" => e.after \in RetryAfters
  BY DEF Ends, Failures, Wide, Other, Limited

\* An instance that is done with its round.
Over(s) == s \in Instance /\ s.at = "idle"

LEMMA DoneOver ==
    ASSUME NEW s \in Instance
    PROVE  Over(Done(s)) /\ Done(s).word = s.word /\ Done(s).succeeded = s.succeeded
  <1>1. 0 \in 0 .. MaxFinal /\ NoCursor \in [height : 0 .. MaxFinal, chain : Chains]
    BY RoundsAssumptions DEF NoCursor, Chains
  <1>2. "idle" \in Steps
    BY DEF Steps
  <1>. QED BY <1>1, <1>2 DEF Done, Instance, Over

LEMMA PassedIs ==
    ASSUME NEW s \in Instance
    PROVE  /\ Passed(s) \in Instance
           /\ Passed(s).word = s.word /\ Passed(s).succeeded = s.succeeded
  <1>. DEFINE again == s.passed + 1 >= RecoverAfter
              interval == Most(s.interval \div 2, Poll)
              passed == IF again THEN 0 ELSE s.passed + 1
              width == IF again THEN Widened(s.width) ELSE s.width
  <1>0. /\ s.interval \in Poll .. MaxInterval /\ s.width \in MinWidth .. Width
        /\ s.passed \in 0 .. RecoverAfter
    BY DEF Instance
  <1>1. RecoverAfter \in Nat
    BY RoundsAssumptions
  <1>2. interval \in Poll .. MaxInterval
    <2>1. Poll \in Nat \ {0} /\ MaxInterval \in Nat /\ s.interval \in Nat /\ Poll <= MaxInterval
      BY <1>0, RoundsAssumptions
    <2>2. s.interval \div 2 \in Nat /\ s.interval \div 2 <= s.interval
      BY <2>1
    <2>. QED BY <1>0, <2>1, <2>2 DEF Most
  <1>3. passed \in 0 .. RecoverAfter
    BY <1>0, <1>1
  <1>4. width \in MinWidth .. Width
    BY <1>0, WidthKept
  <1>5. Passed(s) = [s EXCEPT !.interval = interval, !.passed = passed, !.width = width]
    BY DEF Passed
  <1>. HIDE DEF interval, passed, width
  <1>. QED BY <1>2, <1>3, <1>4, <1>5 DEF Instance

LEMMA FinishedOver ==
    ASSUME NEW s \in Instance
    PROVE  Over(Finished(s)) /\ Finished(s).word = s.word
  BY DoneOver, PassedIs DEF Finished

LEMMA RefusedIs ==
    ASSUME NEW s \in Instance, NEW e \in Ends
    PROVE  /\ Refused(s, e) \in Instance
           /\ Refused(s, e).word = s.word /\ Refused(s, e).succeeded = s.succeeded
  <1>. DEFINE t == [s EXCEPT !.passed = 0]
  <1>0. 0 \in 0 .. RecoverAfter
    BY RoundsAssumptions
  <1>1. /\ t \in Instance /\ t.word = s.word /\ t.succeeded = s.succeeded
        /\ s.interval \in Poll .. MaxInterval /\ s.width \in MinWidth .. Width
    BY <1>0 DEF Instance
  <1>. HIDE DEF t
  <1>2. CASE e.kind = "limited"
    <2>1. Wait(s.interval, e.after) \in Poll .. MaxInterval
      BY <1>1, <1>2, EndIs, IntervalKept
    <2>2. Refused(s, e) = [t EXCEPT !.interval = Wait(s.interval, e.after)]
      BY <1>2 DEF Refused, t
    <2>. QED BY <1>1, <2>1, <2>2 DEF Instance
  <1>3. CASE e.kind = "wide"
    <2>1. Narrowed(s.width) \in MinWidth .. Width
      BY <1>1, WidthKept
    <2>2. Refused(s, e) = [t EXCEPT !.width = Narrowed(s.width)]
      BY <1>3 DEF Refused, t
    <2>. QED BY <1>1, <2>1, <2>2 DEF Instance
  <1>4. CASE e.kind \notin {"limited", "wide"}
    BY <1>1, <1>4 DEF Refused, t
  <1>. QED BY <1>2, <1>3, <1>4

\* A round that fails says that reading goes on only where it has not long ago.
LEMMA FailedOver ==
    ASSUME NEW s \in Instance, NEW e \in Ends
    PROVE  /\ Over(Failed(s, e))
           /\ Failed(s, e).word = "observing" => Failed(s, e).succeeded <= Stale
  <1>. DEFINE t == Stalling(s)
  <1>1. t \in Instance /\ (t.word = "observing" => t.succeeded <= Stale)
    <2>1. "stalled" \in Words
      BY DEF Words
    <2>2. Stale \in Nat /\ s.succeeded \in Nat
      BY RoundsAssumptions DEF Instance
    <2>. QED BY <2>1, <2>2 DEF Stalling, Instance
  <1>. HIDE DEF t
  <1>. DEFINE u == IF Behind(t) THEN t ELSE Refused(t, e)
  <1>2. u \in Instance /\ u.word = t.word /\ u.succeeded = t.succeeded
    BY <1>1, RefusedIs
  <1>3. Failed(s, e) = Done(u)
    BY DEF Failed, t
  <1>. HIDE DEF u
  <1>. QED BY <1>1, <1>2, <1>3, DoneOver


\* What a call may make of an instance r whose endpoint leads to c: s, which reads on where it
\* may, and says that reading goes on after a round it did not end only where it has.
NextIs(r, c, s) ==
    /\ s \in Instance
    /\ ReadsOn(s, c)
    /\ r.at \notin {"idle", "ahead"} /\ s.at = "idle" /\ s.word = "observing" => s.succeeded <= Stale

LEMMA SaysIs ==
    ASSUME NEW s \in Instance, NEW word \in Words
    PROVE  Says(s, word) \in Instance /\ Says(s, word).word = word
  BY DEF Says, Instance

LEMMA FailsNext ==
    ASSUME NEW i \in Instances, NEW c, NEW s \in Instance, Fails(i, s), NEW r
    PROVE  \E t : NextIs(r, c, t) /\ Becomes(i, t)
  <1>1. PICK e \in Failures : Becomes(i, Failed(s, e))
    BY DEF Fails
  <1>2. e \in Ends
    BY DEF Ends
  <1>. QED BY <1>1, <1>2, FailedOver DEF NextIs, Over, ReadsOn

LEMMA FailedNext ==
    ASSUME NEW c, NEW s \in Instance, NEW e \in Ends, NEW r
    PROVE  NextIs(r, c, Failed(s, e))
  BY FailedOver DEF NextIs, Over, ReadsOn

LEMMA FinishedNext ==
    ASSUME NEW c, NEW s \in Instance, NEW r, r.at = "ahead" \/ s.word # "observing"
    PROVE  NextIs(r, c, Finished(s))
  BY FinishedOver DEF NextIs, Over, ReadsOn

\* Every call leaves the instance that makes it so.
LEMMA StepNext ==
    ASSUME RoundsInv, NEW i \in Instances, Step(i)
    PROVE  \E s : NextIs(inst[i], endpoint[i], s) /\ Becomes(i, s)
  <1>. DEFINE r == inst[i]
              c == endpoint[i]
              Good == \E s : NextIs(r, c, s) /\ Becomes(i, s)
  <1>. SUFFICES Good
    OBVIOUS
  <1>0. /\ r \in Instance /\ ReadsOn(r, c) /\ c \in Chains
        /\ final \in 1 .. MaxFinal /\ cursor \in [height : 0 .. MaxFinal, chain : Chains]
    BY DEF RoundsInv, TypeOK
  <1>1. 0 \in 0 .. Every /\ 0 \in 0 .. Stale + 1 /\ Other \in Ends /\ Wide \in Ends
        /\ \A e \in Failures : e \in Ends
    BY RoundsAssumptions DEF Ends, Failures
  <1>2. CASE Start(i)
    <2>1. ASSUME NEW word \in Words, word # "observing", NEW n \in {r.identified, 0},
                 Becomes(i, [r EXCEPT !.at = "idle", !.identified = n, !.word = word])
          PROVE  Good
      <3>. DEFINE s == [r EXCEPT !.at = "idle", !.identified = n, !.word = word]
      <3>1. s \in Instance /\ s.at = "idle" /\ s.word = word
        BY <1>0, <1>1 DEF Instance, Steps
      <3>. QED BY <2>1, <3>1 DEF NextIs, ReadsOn
    <2>2. ASSUME NEW word \in {"unreachable", "no-finalized"},
                 Becomes(i, [r EXCEPT !.at = "idle", !.word = word])
          PROVE  Good
      <3>1. [r EXCEPT !.at = "idle", !.word = word]
              = [r EXCEPT !.at = "idle", !.identified = r.identified, !.word = word]
        BY <1>0 DEF Instance
      <3>. QED BY <2>1, <2>2, <3>1 DEF Words
    <2>3. ASSUME NEW word \in {"no-cursor", "chain-mismatch"},
                 Becomes(i, [r EXCEPT !.at = "idle", !.identified = 0, !.word = word])
          PROVE  Good
      BY <2>1, <2>3 DEF Words
    <2>4. \/ \E word \in {"unreachable", "no-finalized"} :
                 Becomes(i, [r EXCEPT !.at = "idle", !.word = word])
          \/ \E word \in {"no-cursor", "chain-mismatch"} :
                 Becomes(i, [r EXCEPT !.at = "idle", !.identified = 0, !.word = word])
      BY <1>2 DEF Start
    <2>. HIDE DEF Good
    <2>. QED BY <2>2, <2>3, <2>4
  <1>3. CASE Acquire(i)
    <2>1. CASE Goes(i, "standing")
      <3>1. [r EXCEPT !.at = "standing"] \in Instance /\ [r EXCEPT !.at = "standing"].at = "standing"
        BY <1>0 DEF Instance, Steps
      <3>. QED BY <2>1, <3>1 DEF Goes, NextIs, ReadsOn
    <2>2. CASE Waiting(i)
      <3>1. PICK word \in Words : Becomes(i, Says(r, word))
        BY <2>2 DEF Waiting, Words
      <3>2. r.at = "idle" /\ Says(r, word) \in Instance /\ Says(r, word).at = "idle"
        BY <1>0, <1>3 DEF Acquire, At, Says, Instance
      <3>. QED BY <3>1, <3>2 DEF NextIs, ReadsOn
    <2>. QED BY <1>3, <2>1, <2>2 DEF Acquire
  <1>4. CASE Lost(i) \/ NoDatabase(i)
    BY <1>0, <1>1, <1>4, FailedNext DEF Lost, NoDatabase
  <1>5. CASE Standing(i)
    <2>1. CASE Goes(i, "head")
      <3>1. [r EXCEPT !.at = "head"] \in Instance /\ [r EXCEPT !.at = "head"].at = "head"
        BY <1>0 DEF Instance, Steps
      <3>. QED BY <2>1, <3>1 DEF Goes, NextIs, ReadsOn
    <2>2. CASE Becomes(i, [r EXCEPT !.at = "head", !.identified = 0])
      <3>. DEFINE s == [r EXCEPT !.at = "head", !.identified = 0]
      <3>1. s \in Instance /\ s.at = "head"
        BY <1>0, <1>1 DEF Instance, Steps
      <3>. QED BY <2>2, <3>1 DEF NextIs, ReadsOn
    <2>3. CASE Becomes(i, Failed([Says(r, "chain-mismatch") EXCEPT !.identified = 0], Other))
      <3>1. [Says(r, "chain-mismatch") EXCEPT !.identified = 0] \in Instance
        BY <1>0, <1>1 DEF Says, Instance, Words
      <3>. QED BY <1>1, <2>3, <3>1, FailedNext
    <2>4. CASE Fails(i, Says(r, "unreachable"))
      <3>1. Says(r, "unreachable") \in Instance
        BY <1>0, SaysIs DEF Words
      <3>. QED BY <2>4, <3>1, FailsNext
    <2>. HIDE DEF Good
    <2>. QED BY <1>5, <2>1, <2>2, <2>3, <2>4 DEF Standing
  <1>6. CASE Head(i)
    <2>1. ASSUME NEW h \in 0 .. MaxFinal, Becomes(i, [r EXCEPT !.at = "cursor", !.head = h])
          PROVE  Good
      <3>. DEFINE s == [r EXCEPT !.at = "cursor", !.head = h]
      <3>1. s \in Instance /\ s.at = "cursor"
        BY <1>0 DEF Instance, Steps
      <3>. QED BY <2>1, <3>1 DEF NextIs, ReadsOn
    <2>2. \/ \E h \in 0 .. MaxFinal : Becomes(i, [r EXCEPT !.at = "cursor", !.head = h])
          \/ \E word \in {"unreachable", "no-finalized"} : Fails(i, Says(r, word))
      <3>1. (1 .. final) \cup {final} \subseteq 0 .. MaxFinal
        BY <1>0, RoundsAssumptions
      <3>. QED BY <1>6, <3>1 DEF Head
    <2>3. ASSUME NEW word \in {"unreachable", "no-finalized"}, Fails(i, Says(r, word))
          PROVE  Good
      <3>1. Says(r, word) \in Instance
        BY <1>0, SaysIs DEF Words
      <3>. QED BY <2>3, <3>1, FailsNext
    <2>. HIDE DEF Good
    <2>. QED BY <2>1, <2>2, <2>3
  <1>7. CASE FirstRound(i)
    <2>1. Says(r, "no-cursor") \in Instance /\ Says(r, "no-cursor").word # "observing"
      BY <1>0, SaysIs DEF Words
    <2>. QED BY <1>1, <1>7, <2>1, FinishedNext, FailedNext DEF FirstRound
  <1>8. CASE Cursor(i)
    <2>1. Says(r, "finalized-behind") \in Instance
          /\ Says(r, "finalized-behind").word # "observing"
      BY <1>0, SaysIs DEF Words
    <2>2. CASE Becomes(i, Finished(Says(r, "finalized-behind")))
      BY <2>1, <2>2, FinishedNext
    <2>3. CASE r.head >= cursor.height /\ Becomes(i, [r EXCEPT !.at = "holds", !.from = cursor])
      <3>. DEFINE s == [r EXCEPT !.at = "holds", !.from = cursor]
      <3>1. s \in Instance /\ s.at = "holds" /\ s.from = cursor /\ s.head = r.head
        BY <1>0 DEF Instance, Steps
      <3>2. cursor.height <= r.head
        BY <1>0, <2>3 DEF Instance
      <3>. QED BY <2>3, <3>1, <3>2 DEF NextIs, ReadsOn
    <2>. HIDE DEF Good
    <2>. QED BY <1>8, <2>2, <2>3 DEF Cursor
  <1>9. CASE Check(i)
    <2>1. r.at = "holds" /\ r.from.height <= r.head
      BY <1>0, <1>9 DEF Check, At, ReadsOn
    <2>2. CASE Holds(i) /\ Goes(i, "read")
      <3>. DEFINE s == [r EXCEPT !.at = "read"]
      <3>1. s \in Instance /\ s.at = "read" /\ s.from = r.from /\ s.head = r.head
        BY <1>0 DEF Instance, Steps
      <3>2. r.from.chain = c
        BY <2>2 DEF Holds
      <3>. QED BY <2>1, <2>2, <3>1, <3>2 DEF Goes, NextIs, ReadsOn
    <2>3. CASE Becomes(i, Finished(Says(r, "finalized-changed")))
      <3>1. Says(r, "finalized-changed") \in Instance
            /\ Says(r, "finalized-changed").word # "observing"
        BY <1>0, SaysIs DEF Words
      <3>. QED BY <2>3, <3>1, FinishedNext
    <2>4. CASE Fails(i, r)
      BY <1>0, <2>4, FailsNext
    <2>. HIDE DEF Good
    <2>. QED BY <1>9, <2>2, <2>3, <2>4 DEF Check
  <1>10. CASE Read(i)
    <2>. DEFINE to == Last(r)
                s == [r EXCEPT !.at = "write", !.to = to]
    <2>1. r.at = "read" /\ r.from.height <= r.head /\ r.from.chain = c
      BY <1>0, <1>10 DEF Read, At, ReadsOn
    <2>2. to \in 0 .. MaxFinal /\ r.from.height <= to
      <3>1. /\ r.head \in 0 .. MaxFinal /\ r.from.height \in 0 .. MaxFinal
            /\ r.width \in Nat /\ MaxFinal \in Nat
        BY <1>0, RoundsAssumptions DEF Instance
      <3>. QED BY <2>1, <3>1 DEF Last, Least
    <2>3. Becomes(i, s)
      BY <1>10 DEF Read
    <2>. HIDE DEF to
    <2>4. s \in Instance /\ s.at = "write" /\ s.from = r.from /\ s.head = r.head /\ s.to = to
      BY <1>0, <2>2 DEF Instance, Steps
    <2>. HIDE DEF s
    <2>. QED BY <2>1, <2>2, <2>3, <2>4 DEF NextIs, ReadsOn
  <1>11. CASE ReadFails(i)
    BY <1>0, <1>1, <1>11, FailedNext, FailsNext DEF ReadFails
  <1>12. CASE Write(i)
    <2>1. CASE Becomes(i, [Says(r, "observing") EXCEPT !.at = "ahead", !.succeeded = 0])
      <3>. DEFINE s == [Says(r, "observing") EXCEPT !.at = "ahead", !.succeeded = 0]
      <3>1. Says(r, "observing") \in Instance
        BY <1>0, SaysIs DEF Words
      <3>2. s \in Instance /\ s.at = "ahead"
        BY <1>1, <3>1 DEF Instance, Steps
      <3>. QED BY <2>1, <3>2 DEF NextIs, ReadsOn
    <2>2. CASE Becomes(i, Failed(r, Other))
      BY <1>0, <1>1, <2>2, FailedNext
    <2>. HIDE DEF Good
    <2>. QED BY <1>12, <2>1, <2>2 DEF Write
  <1>13. CASE Ahead(i)
    BY <1>0, <1>13, FinishedNext DEF Ahead, At
  <1>. HIDE DEF Good
  <1>. QED BY <1>2, <1>3, <1>4, <1>5, <1>6, <1>7, <1>8, <1>9, <1>10, <1>11, <1>12, <1>13 DEF Step


LEMMA LeaseIs ==
    ASSUME NEW h \in Instances \cup {Nobody, Someone}
    PROVE  [holder |-> h, lapsed |-> FALSE]
               \in [holder : Instances \cup {Nobody, Someone}, lapsed : BOOLEAN]
  OBVIOUS

\* What else a call may write: the cursor, where nothing has moved it since it was read or none
\* was there, and the lease.
LEMMA StepWrites ==
    ASSUME RoundsInv, NEW i \in Instances, Step(i)
    PROVE  /\ UNCHANGED <<final, endpoint, restarts>>
           /\ cursor' \in [height : 0 .. MaxFinal, chain : Chains]
           /\ cursor # NoCursor => cursor'.chain = cursor.chain /\ cursor'.height >= cursor.height
           /\ touched' \in 0 .. Stale + 1
           /\ lease' \in [holder : Instances \cup {Nobody, Someone}, lapsed : BOOLEAN]
  <1>0. /\ cursor \in [height : 0 .. MaxFinal, chain : Chains] /\ cursor.height \in Nat
        /\ touched \in 0 .. Stale + 1 /\ inst[i] \in Instance /\ ReadsOn(inst[i], endpoint[i])
        /\ lease \in [holder : Instances \cup {Nobody, Someone}, lapsed : BOOLEAN]
        /\ endpoint[i] \in Chains
    BY DEF RoundsInv, TypeOK
  <1>1. UNCHANGED <<final, endpoint, restarts>>
    BY DEF Step, Start, Acquire, Lost, Standing, Head, FirstRound, Cursor, NoDatabase,
       Check, Read, ReadFails, Write, Ahead
  <1>2. lease' \in [holder : Instances \cup {Nobody, Someone}, lapsed : BOOLEAN]
    <2>1. CASE Acquire(i)
      <3>1. lease' = [holder |-> i, lapsed |-> FALSE] \/ lease' = lease
        BY <2>1 DEF Acquire
      <3>. QED BY <1>0, <3>1, LeaseIs
    <2>2. CASE Keeps(i)
      BY <1>0, <2>2 DEF Keeps
    <2>3. Acquire(i) \/ Keeps(i)
      BY DEF Step, Start, Lost, Standing, Head, FirstRound, Cursor, NoDatabase,
         Check, Read, ReadFails, Write, Ahead, Keeps
    <2>. QED BY <2>1, <2>2, <2>3
  <1>3. CASE UNCHANGED <<cursor, touched>>
    BY <1>0, <1>1, <1>2, <1>3
  <1>4. 0 \in 0 .. Stale + 1
    BY RoundsAssumptions
  <1>5. CASE FirstRound(i)
    BY <1>0, <1>1, <1>2, <1>3, <1>4, <1>5 DEF FirstRound, Instance
  <1>6. CASE Write(i)
    <2>1. CASE Advances(i) /\ cursor' = [height |-> inst[i].to, chain |-> endpoint[i]] /\ touched' = 0
      <3>1. /\ inst[i].from.height <= inst[i].to /\ inst[i].from.chain = endpoint[i]
            /\ cursor = inst[i].from /\ inst[i].to \in 0 .. MaxFinal
        BY <1>0, <1>6, <2>1 DEF Write, At, ReadsOn, Advances, Instance
      <3>2. inst[i].to >= cursor.height
        BY <1>0, <3>1, RoundsAssumptions
      <3>. QED BY <1>0, <1>1, <1>2, <1>4, <2>1, <3>1, <3>2
    <2>. QED BY <1>3, <1>6, <2>1 DEF Write
  <1>. QED BY <1>3, <1>5, <1>6 DEF Step, Start, Acquire, Lost, Standing, Head, Cursor,
              NoDatabase, Check, Read, ReadFails, Ahead

\* An instance that is started anew has nothing in hand.
LEMMA OffIs ==
    ASSUME NEW c
    PROVE  Off("unreachable") \in Instance /\ ReadsOn(Off("unreachable"), c)
           /\ Off("unreachable").at = "off"
  <1>1. /\ Width \in MinWidth .. Width /\ Poll \in Poll .. MaxInterval /\ 0 \in 0 .. RecoverAfter
        /\ Every \in 0 .. Every /\ Stale + 1 \in 0 .. Stale + 1 /\ 0 \in 0 .. MaxFinal
    BY RoundsAssumptions
  <1>2. NoCursor \in [height : 0 .. MaxFinal, chain : Chains] /\ "off" \in Steps
        /\ "unreachable" \in Words
    BY <1>1 DEF NoCursor, Chains, Steps, Words
  <1>. QED BY <1>1, <1>2 DEF Off, Instance, ReadsOn

LEMMA RoundsInit ==
    ASSUME Init
    PROVE  RoundsInv
  <1>1. /\ 0 \in 0 .. MaxFinal /\ 1 \in 1 .. MaxFinal /\ 0 \in 0 .. Stale + 1 /\ 0 \in 0 .. MaxRestarts
    BY RoundsAssumptions
  <1>2. endpoint \in [Instances -> Chains]
    BY DEF Init, Chains
  <1>3. TypeOK
    BY <1>1, <1>2, OffIs DEF Init, TypeOK, NoCursor, Chains
  <1>4. \A i \in Instances : ReadsOn(inst[i], endpoint[i])
    BY OffIs DEF Init
  <1>. QED BY <1>3, <1>4 DEF RoundsInv

LEMMA RoundsStep ==
    ASSUME RoundsInv, [Next]_vars
    PROVE  RoundsInv'
  <1>0. /\ TypeOK /\ inst \in [Instances -> Instance]
        /\ \A i \in Instances : ReadsOn(inst[i], endpoint[i])
    BY DEF RoundsInv, TypeOK
  <1>1. CASE UNCHANGED vars
    BY <1>0, <1>1 DEF vars, RoundsInv, TypeOK
  <1>2. ASSUME NEW i \in Instances, Step(i)
        PROVE  RoundsInv'
    <2>1. PICK s : NextIs(inst[i], endpoint[i], s) /\ Becomes(i, s)
      BY <1>2, StepNext
    <2>2. /\ inst' \in [Instances -> Instance]
          /\ \A j \in Instances : inst'[j] = IF j = i THEN s ELSE inst[j]
      BY <1>0, <2>1 DEF Becomes, NextIs
    <2>3. UNCHANGED <<final, endpoint, restarts>>
          /\ cursor' \in [height : 0 .. MaxFinal, chain : Chains]
          /\ touched' \in 0 .. Stale + 1
          /\ lease' \in [holder : Instances \cup {Nobody, Someone}, lapsed : BOOLEAN]
      BY <1>2, StepWrites
    <2>4. TypeOK'
      BY <1>0, <2>2, <2>3 DEF TypeOK
    <2>5. \A j \in Instances : ReadsOn(inst'[j], endpoint'[j])
      BY <1>0, <2>1, <2>2, <2>3 DEF NextIs
    <2>. QED BY <2>4, <2>5 DEF RoundsInv, ReadsOn
  <1>3. ASSUME NEW i \in Instances, Restart(i)
        PROVE  RoundsInv'
    <2>1. /\ inst' \in [Instances -> Instance] /\ inst'[i] = Off("unreachable")
          /\ \A j \in Instances \ {i} : inst'[j] = inst[j]
      BY <1>0, <1>3, OffIs DEF Restart, Becomes
    <2>2. endpoint' \in [Instances -> Chains] /\ \A j \in Instances \ {i} : endpoint'[j] = endpoint[j]
      BY <1>0, <1>3 DEF Restart, TypeOK, Chains
    <2>3. restarts' \in 0 .. MaxRestarts
      BY <1>0, <1>3, RoundsAssumptions DEF Restart, TypeOK
    <2>4. lease' = lease \/ lease' = [holder |-> Nobody, lapsed |-> FALSE]
      BY <1>3 DEF Restart
    <2>5. lease' \in [holder : Instances \cup {Nobody, Someone}, lapsed : BOOLEAN]
      BY <1>0, <2>4, LeaseIs DEF TypeOK
    <2>6. UNCHANGED <<final, cursor, touched>>
      BY <1>3 DEF Restart
    <2>7. TypeOK'
      BY <1>0, <2>1, <2>2, <2>3, <2>5, <2>6 DEF TypeOK
    <2>8. ReadsOn(inst'[i], endpoint'[i])
      <3>1. inst'[i].at = "off"
        BY <2>1 DEF Off
      <3>. QED BY <3>1 DEF ReadsOn
    <2>9. \A j \in Instances : ReadsOn(inst'[j], endpoint'[j])
      BY <1>0, <2>1, <2>2, <2>8
    <2>. QED BY <2>7, <2>9 DEF RoundsInv, ReadsOn
  <1>4. CASE Finalize
    BY <1>0, <1>4, RoundsAssumptions DEF Finalize, TypeOK, RoundsInv
  <1>5. CASE Tick
    <2>1. \A n \in Nat : \A a \in 0 .. n : Older(a, n) \in 0 .. n
      BY DEF Older, Least
    <2>2. Stale + 1 \in Nat /\ Every \in Nat
      BY RoundsAssumptions
    <2>3. touched' \in 0 .. Stale + 1
      BY <1>0, <1>5, <2>1, <2>2 DEF Tick, TypeOK
    <2>4. ASSUME NEW i \in Instances
          PROVE  inst'[i] \in Instance /\ ReadsOn(inst'[i], endpoint[i])
      <3>. DEFINE asked == Older(inst[i].identified, Every)
                  written == Older(inst[i].succeeded, Stale + 1)
      <3>1. asked \in 0 .. Every /\ written \in 0 .. Stale + 1
        BY <1>0, <2>1, <2>2 DEF Instance
      <3>2. inst'[i] = [inst[i] EXCEPT !.identified = asked, !.succeeded = written]
        BY <1>5 DEF Tick
      <3>. HIDE DEF asked, written
      <3>3. inst'[i] \in Instance /\ inst'[i].at = inst[i].at /\ inst'[i].from = inst[i].from
            /\ inst'[i].head = inst[i].head /\ inst'[i].to = inst[i].to
        BY <1>0, <3>1, <3>2 DEF Instance
      <3>. QED BY <1>0, <3>3 DEF ReadsOn
    <2>5. inst' \in [Instances -> Instance]
      <3>1. inst' = [i \in Instances |-> inst'[i]]
        BY <1>5 DEF Tick
      <3>. QED BY <2>4, <3>1
    <2>6. TypeOK'
      BY <1>0, <1>5, <2>3, <2>5 DEF Tick, TypeOK
    <2>7. \A i \in Instances : ReadsOn(inst'[i], endpoint'[i])
      BY <1>5, <2>4 DEF Tick
    <2>. QED BY <2>6, <2>7 DEF RoundsInv, ReadsOn
  <1>6. CASE Lapse
    BY <1>0, <1>6 DEF Lapse, TypeOK, RoundsInv
  <1>7. CASE Elsewhere
    <2>1. cursor' \in [height : 0 .. MaxFinal, chain : Chains]
      <3>1. ASSUME NEW h \in cursor.height .. final, h > 0
            PROVE  h \in 0 .. MaxFinal
        BY <1>0, <3>1, RoundsAssumptions DEF TypeOK
      <3>. QED BY <1>0, <1>7, <3>1 DEF Elsewhere, TypeOK
    <2>2. touched' \in 0 .. Stale + 1
          /\ lease' \in [holder : Instances \cup {Nobody, Someone}, lapsed : BOOLEAN]
      <3>1. touched' = touched \/ touched' = 0
        BY <1>7 DEF Elsewhere
      <3>2. lease' = lease \/ lease' = [holder |-> Someone, lapsed |-> FALSE]
        BY <1>7 DEF Elsewhere
      <3>3. touched' \in 0 .. Stale + 1
        BY <1>0, <3>1, RoundsAssumptions DEF TypeOK
      <3>4. lease' \in [holder : Instances \cup {Nobody, Someone}, lapsed : BOOLEAN]
        BY <1>0, <3>2, LeaseIs DEF TypeOK
      <3>. QED BY <3>3, <3>4
    <2>. QED BY <1>0, <1>7, <2>1, <2>2 DEF Elsewhere, TypeOK, RoundsInv
  <1>. QED BY <1>1, <1>2, <1>3, <1>4, <1>5, <1>6, <1>7 DEF Next

LEMMA RoundsInvHolds == Spec => []RoundsInv
  <1>1. Init => RoundsInv
    BY RoundsInit
  <1>2. RoundsInv /\ [Next]_vars => RoundsInv'
    BY RoundsStep
  <1>. QED BY <1>1, <1>2, PTL DEF Spec

\* However a provider refuses, is behind or fails, and whatever a lease and other instances do
\* meanwhile, a round reads no fewer blocks than keeps up and no more than the document allows, and
\* waits no less than the document says and no longer than the longest wait.
THEOREM BoundsAlwaysKept == Spec => []TypeOK
  <1>1. RoundsInv => TypeOK
    BY DEF RoundsInv
  <1>. QED BY <1>1, RoundsInvHolds, PTL

\* The cursor of a network is never moved onto another chain nor back, though an instance is
\* started with an endpoint of another chain, reads with a lease that has run out, and writes beside
\* another instance (holds, Advance).
THEOREM CursorAlwaysStays == Spec => CursorStays
  <1>1. RoundsInv /\ [Next]_vars =>
            [cursor # NoCursor =>
                cursor'.chain = cursor.chain /\ cursor'.height >= cursor.height]_vars
    <2>. SUFFICES ASSUME RoundsInv, Next, cursor # NoCursor
                  PROVE  cursor'.chain = cursor.chain /\ cursor'.height >= cursor.height
      OBVIOUS
    <2>1. cursor \in [height : 0 .. MaxFinal, chain : Chains] /\ cursor.height \in Nat
          /\ final \in Nat
      BY DEF RoundsInv, TypeOK
    <2>2. CASE cursor' = cursor
      BY <2>1, <2>2
    <2>3. CASE \E i \in Instances : Step(i)
      BY <2>3, StepWrites
    <2>4. CASE Elsewhere
      <3>1. ASSUME NEW h \in cursor.height .. final, cursor' = [cursor EXCEPT !.height = h]
            PROVE  cursor'.chain = cursor.chain /\ cursor'.height >= cursor.height
        BY <2>1, <3>1
      <3>. QED BY <2>2, <2>4, <3>1 DEF Elsewhere
    <2>. QED BY <2>2, <2>3, <2>4 DEF Next, Restart, Finalize, Tick, Lapse
  <1>. QED BY <1>1, RoundsInvHolds, PTL DEF Spec, CursorStays

\* Both together, whatever a round comes to and wherever an endpoint leads.
THEOREM BoundsAndCursorAlwaysStay == Spec => BoundsAndCursorStay
  BY BoundsAlwaysKept, CursorAlwaysStays DEF BoundsAndCursorStay

\* A round that does not finish leaves the word that the network is being read only where its
\* instance has written within Stale, whatever another instance wrote (stalling).
THEOREM ObservingAlwaysFresh == Spec => ObservingIsFresh
  <1>1. RoundsInv /\ [Next]_vars =>
            [\A i \in Instances :
               inst[i].at \notin {"idle", "ahead"} /\ inst'[i].at = "idle"
                   /\ inst'[i].word = "observing" => inst'[i].succeeded <= Stale]_vars
    <2>. SUFFICES ASSUME RoundsInv, Next, NEW i \in Instances,
                         inst[i].at \notin {"idle", "ahead"}, inst'[i].at = "idle",
                         inst'[i].word = "observing"
                  PROVE  inst'[i].succeeded <= Stale
      OBVIOUS
    <2>1. inst \in [Instances -> Instance]
      BY DEF RoundsInv, TypeOK
    <2>2. ASSUME NEW j \in Instances, Step(j)
          PROVE  inst'[i].succeeded <= Stale
      <3>1. PICK s : NextIs(inst[j], endpoint[j], s) /\ Becomes(j, s)
        BY <2>2, StepNext
      <3>2. inst'[i] = IF i = j THEN s ELSE inst[i]
        BY <2>1, <3>1 DEF Becomes
      <3>. QED BY <3>1, <3>2 DEF NextIs
    <2>3. ASSUME NEW j \in Instances, Restart(j)
          PROVE  FALSE
      BY <2>1, <2>3, OffIs DEF Restart, Becomes
    <2>4. ~Tick
      <3>1. Tick => inst'[i].at = inst[i].at
        BY <2>1 DEF Tick, Instance
      <3>. QED BY <3>1
    <2>. QED BY <2>2, <2>3, <2>4 DEF Next, Finalize, Lapse, Elsewhere
  <1>. QED BY <1>1, RoundsInvHolds, PTL DEF Spec, ObservingIsFresh

-----------------------------------------------------------------------
(***************************************************************************)
(* What an instance says of the assets was true of them, for any assets,    *)
(* codes, intervals and restarts.                                          *)
(***************************************************************************)
CONSTANTS Assets, Codes, Unread, Sealed, Mute, LookEvery, HoldFor, MaxChanges, MaxReturns
VARIABLES code, stopped, announced, obs, changes, returns, replaced, since

A == INSTANCE Assets WITH Every <- LookEvery, MaxRestarts <- MaxReturns, restarts <- returns

\* What is known of the contracts: an announced upgrade is one that was made,
\* and an asset is in the state it is in now.
Contracts ==
    /\ code \in [Assets -> Codes]
    /\ stopped \in [Assets -> BOOLEAN]
    /\ announced \subseteq replaced /\ replaced \subseteq Assets
    /\ since \in [Assets -> [BOOLEAN -> 0 .. HoldFor + 1]]
    /\ \A a \in Assets : since[a][stopped[a]] = 0

Bounds == changes \in 0 .. MaxChanges /\ returns \in 0 .. MaxReturns

\* An instance s says nothing, and has nothing in hand, that was not so.
SaidSo(s) == \A a \in Assets : s.word[a] = "changed" => a \in replaced
StartedSo(s) == \A a \in Assets : s.started[a] \notin {Unread, code[a]} => a \in replaced
FlagSo(s) == \A a \in Assets :
                 s.flag[a].age <= HoldFor => since[a][s.flag[a].value] <= s.flag[a].age
Sound(s) == s \in A!Observer /\ SaidSo(s) /\ StartedSo(s) /\ FlagSo(s)

\* The inductive invariant.
AssetsInv == Contracts /\ Bounds /\ Sound(obs)

(***************************************************************************)
(* What an instance does to itself keeps it sound.                         *)
(***************************************************************************)
LEMMA GoesSound ==
    ASSUME NEW s, Sound(s), NEW step \in {"round", "upgraded", "stopped"}
    PROVE  Sound(A!Goes(s, step))
  BY DEF Sound, SaidSo, StartedSo, FlagSo, A!Observer, A!Goes

LEMMA VisitedSound ==
    ASSUME NEW s, Sound(s), NEW a, NEW step \in {"round", "upgraded", "stopped"}
    PROVE  Sound(A!Visited(s, a, step))
  <1>1. Sound([s EXCEPT !.left = @ \ {a}])
    BY DEF Sound, SaidSo, StartedSo, FlagSo, A!Observer
  <1>. QED BY <1>1, GoesSound DEF A!Visited

LEMMA SaidSound ==
    ASSUME NEW s, Sound(s), NEW those \in SUBSET replaced
    PROVE  Sound(A!Said(s, those))
  <1>1. A!Said(s, those) \in A!Observer
    BY DEF Sound, A!Observer, A!Said
  <1>2. SaidSo(A!Said(s, those))
    BY DEF Sound, A!Observer, A!Said, SaidSo
  <1>3. StartedSo(A!Said(s, those)) /\ FlagSo(A!Said(s, those))
    BY DEF Sound, A!Observer, A!Said, StartedSo, FlagSo
  <1>. QED BY <1>1, <1>2, <1>3 DEF Sound

LEMMA LookingSound ==
    ASSUME A!ConstantsFit, NEW s, Sound(s)
    PROVE  Sound(A!Looking(s))
  <1>. DEFINE t == [s EXCEPT !.looked = 0, !.at = "upgraded", !.left = Assets]
  <1>0. 0 \in 0 .. LookEvery
    BY DEF A!ConstantsFit
  <1>1. t \in A!Observer
    BY <1>0 DEF Sound, A!Observer
  <1>2. t.word = s.word /\ t.started = s.started /\ t.flag = s.flag
    BY DEF Sound, A!Observer
  <1>3. Sound(t)
    BY <1>1, <1>2 DEF Sound, SaidSo, StartedSo, FlagSo
  <1>. QED BY <1>3 DEF A!Looking

LEMMA FlagSound ==
    ASSUME A!ConstantsFit, NEW s, Sound(s), NEW a \in Assets, Contracts
    PROVE  /\ Sound([s EXCEPT !.flag[a] = A!Flag(a)])
           /\ Sound([s EXCEPT !.flag[a] = A!NoFlag])
  <1>. /\ A!Flag(a) \in [value : BOOLEAN, age : 0 .. HoldFor + 1]
       /\ A!NoFlag \in [value : BOOLEAN, age : 0 .. HoldFor + 1]
    BY DEF A!ConstantsFit, Contracts, A!Flag, A!NoFlag
  <1>1. ASSUME NEW f \in {A!Flag(a), A!NoFlag}
        PROVE  Sound([s EXCEPT !.flag[a] = f])
    <2>. DEFINE t == [s EXCEPT !.flag[a] = f]
    <2>1. t \in A!Observer
      BY DEF Sound, A!Observer
    <2>2. SaidSo(t) /\ StartedSo(t)
      BY DEF Sound, A!Observer, SaidSo, StartedSo
    <2>3. FlagSo(t)
      <3>. SUFFICES ASSUME NEW b \in Assets, t.flag[b].age <= HoldFor
                    PROVE  since[b][t.flag[b].value] <= t.flag[b].age
        BY DEF FlagSo
      <3>1. CASE b # a
        BY <3>1 DEF Sound, A!Observer, FlagSo
      <3>2. CASE b = a
        <4>1. t.flag[b] = f
          BY <3>2 DEF Sound, A!Observer
        <4>2. f = A!Flag(a)
          BY <4>1 DEF A!ConstantsFit, A!NoFlag
        <4>. QED BY <3>2, <4>1, <4>2 DEF A!Flag, Contracts
      <3>. QED BY <3>1, <3>2
    <2>. QED BY <2>1, <2>2, <2>3 DEF Sound
  <1>. QED BY <1>1

LEMMA NewSound ==
    ASSUME A!ConstantsFit
    PROVE  Sound(A!New)
  <1>1. A!New \in A!Observer
    BY DEF A!ConstantsFit, A!New, A!NoFlag, A!Observer
  <1>2. SaidSo(A!New) /\ StartedSo(A!New)
    BY DEF A!New, SaidSo, StartedSo
  <1>3. FlagSo(A!New)
    BY DEF A!ConstantsFit, A!New, A!NoFlag, FlagSo
  <1>. QED BY <1>1, <1>2, <1>3 DEF Sound

(***************************************************************************)
(* Every step keeps the invariant.                                         *)
(***************************************************************************)
LEMMA AssetsInit ==
    ASSUME A!ConstantsFit
    PROVE  A!Init => AssetsInv
  <1>. SUFFICES ASSUME A!Init PROVE AssetsInv
    OBVIOUS
  <1>1. Contracts
    <2>1. code \in [Assets -> Codes]
      BY DEF A!ConstantsFit, A!Init
    <2>2. since \in [Assets -> [BOOLEAN -> 0 .. HoldFor + 1]]
      BY DEF A!ConstantsFit, A!Init
    <2>3. \A a \in Assets : since[a][stopped[a]] = 0
      BY DEF A!Init
    <2>. QED BY <2>1, <2>2, <2>3 DEF A!Init, Contracts
  <1>2. Bounds
    BY DEF A!ConstantsFit, A!Init, Bounds
  <1>. QED BY <1>1, <1>2, NewSound DEF A!Init, AssetsInv

\* A step of the instance, which changes itself and no contract.
LEMMA InstanceStep ==
    ASSUME AssetsInv, Sound(obs'), announced' \in SUBSET announced,
           UNCHANGED <<code, stopped, changes, replaced, since>>, Bounds'
    PROVE  AssetsInv'
  BY DEF AssetsInv, Contracts, Sound, SaidSo, StartedSo, FlagSo

LEMMA LooksStep ==
    ASSUME AssetsInv, NEW s, Sound(s), A!Looks(s)
    PROVE  AssetsInv'
  BY InstanceStep DEF AssetsInv, A!Looks, Bounds

LEMMA UpgradeStep ==
    ASSUME A!ConstantsFit, AssetsInv, NEW a \in Assets, A!Upgrade(a)
    PROVE  AssetsInv'
  <1>. PICK c \in Codes : code' = [code EXCEPT ![a] = c]
    BY DEF A!Upgrade
  <1>1. Contracts'
    BY DEF AssetsInv, Contracts, A!Upgrade
  <1>2. Bounds'
    BY DEF A!ConstantsFit, AssetsInv, Bounds, A!Upgrade, A!Changes
  <1>3. SaidSo(obs)'
    BY DEF AssetsInv, Sound, SaidSo, A!Upgrade
  <1>4. StartedSo(obs)'
    BY DEF AssetsInv, Sound, StartedSo, A!Upgrade, Contracts
  <1>5. (obs \in A!Observer)' /\ FlagSo(obs)'
    BY DEF AssetsInv, Sound, FlagSo, A!Upgrade
  <1>. QED BY <1>1, <1>2, <1>3, <1>4, <1>5 DEF AssetsInv, Sound

LEMMA StopStep ==
    ASSUME A!ConstantsFit, AssetsInv, NEW a \in Assets, A!Stop(a)
    PROVE  AssetsInv'
  <1>0. stopped[a] \in BOOLEAN /\ (~stopped[a]) \in BOOLEAN
    BY DEF AssetsInv, Contracts
  <1>1. Contracts'
    <2>1. since' \in [Assets -> [BOOLEAN -> 0 .. HoldFor + 1]]
      BY <1>0 DEF A!ConstantsFit, AssetsInv, Contracts, A!Stop
    <2>2. \A b \in Assets : since'[b][stopped'[b]] = 0
      BY DEF AssetsInv, Contracts, A!Stop
    <2>. QED BY <2>1, <2>2 DEF AssetsInv, Contracts, A!Stop
  <1>2. Bounds'
    BY DEF A!ConstantsFit, AssetsInv, Bounds, A!Stop, A!Changes
  <1>3. \A b \in Assets : \A v \in BOOLEAN : since'[b][v] \in {0, since[b][v]}
    BY DEF AssetsInv, Contracts, A!Stop
  <1>4. FlagSo(obs)'
    BY <1>3 DEF AssetsInv, Sound, A!Observer, FlagSo, A!Stop
  <1>. QED BY <1>1, <1>2, <1>4 DEF AssetsInv, Sound, SaidSo, StartedSo, A!Stop

LEMMA StartStep ==
    ASSUME A!ConstantsFit, AssetsInv, A!Start
    PROVE  AssetsInv'
  <1>1. CASE obs' = [obs EXCEPT !.at = "round"]
    <2>1. Sound(obs')
      BY <1>1 DEF AssetsInv, Sound, SaidSo, StartedSo, FlagSo, A!Observer
    <2>. QED BY <2>1, InstanceStep DEF A!Start, AssetsInv, Bounds
  <1>2. ASSUME NEW told \in SUBSET (Assets \ Mute),
               obs' = [obs EXCEPT !.at = "round", !.looked = 0, !.started = code,
                            !.flag = [a \in Assets |-> IF a \in told THEN A!Flag(a) ELSE @[a]]]
        PROVE  AssetsInv'
    <2>0. \A a \in Assets : A!Flag(a) \in [value : BOOLEAN, age : 0 .. HoldFor + 1]
      <3>1. 0 \in 0 .. HoldFor + 1
        BY DEF A!ConstantsFit
      <3>. QED BY <3>1 DEF AssetsInv, Contracts, A!Flag
    <2>1. obs' \in A!Observer
      <3>0. 0 \in 0 .. LookEvery /\ code \in [Assets -> Codes \cup {Unread}]
        BY DEF A!ConstantsFit, AssetsInv, Contracts
      <3>1. obs'.flag \in [Assets -> [value : BOOLEAN, age : 0 .. HoldFor + 1]]
        BY <1>2, <2>0 DEF AssetsInv, Sound, A!Observer
      <3>2. obs'.flag = [a \in Assets |-> IF a \in told THEN A!Flag(a) ELSE obs.flag[a]]
        BY <1>2 DEF AssetsInv, Sound, A!Observer
      <3>. DEFINE f == obs'.flag
      <3>3. obs' = [obs EXCEPT !.at = "round", !.looked = 0, !.started = code, !.flag = f]
        BY <1>2, <3>2
      <3>. HIDE DEF f
      <3>. QED BY <3>0, <3>1, <3>3 DEF f, AssetsInv, Sound, A!Observer
    <2>2. SaidSo(obs') /\ StartedSo(obs')
      BY <1>2 DEF AssetsInv, Sound, A!Observer, SaidSo, StartedSo
    <2>3. FlagSo(obs')
      <3>. SUFFICES ASSUME NEW a \in Assets, obs'.flag[a].age <= HoldFor
                    PROVE  since[a][obs'.flag[a].value] <= obs'.flag[a].age
        BY DEF FlagSo
      <3>1. CASE a \in told
        BY <1>2, <3>1 DEF AssetsInv, Sound, A!Observer, A!Flag, Contracts
      <3>2. CASE a \notin told
        BY <1>2, <3>2 DEF AssetsInv, Sound, A!Observer, FlagSo
      <3>. QED BY <3>1, <3>2
    <2>4. Sound(obs')
      BY <2>1, <2>2, <2>3 DEF Sound
    <2>. QED BY <2>4, InstanceStep DEF A!Start, AssetsInv, Bounds
  <1>. QED BY <1>1, <1>2 DEF A!Start

LEMMA RoundStep ==
    ASSUME A!ConstantsFit, AssetsInv, A!Round
    PROVE  AssetsInv'
  <1>. PICK read \in SUBSET announced :
            \/ obs' = A!Said(obs, read) /\ UNCHANGED announced
            \/ /\ obs' = A!Looking(A!Said(obs, read))
               /\ announced' \in {announced, announced \ read}
    BY DEF A!Round
  <1>1. Sound(A!Said(obs, read))
    BY SaidSound DEF AssetsInv, Contracts
  <1>2. Sound(obs')
    BY <1>1, LookingSound
  <1>. QED BY <1>2, InstanceStep DEF AssetsInv, A!Round, Bounds

LEMMA ReadCodeStep ==
    ASSUME AssetsInv, NEW a \in Assets, A!ReadCode(a)
    PROVE  AssetsInv'
  <1>. DEFINE s == IF A!Differs(a) THEN A!Said(obs, {a}) ELSE obs
  <1>1. Sound(s)
    BY SaidSound DEF AssetsInv, Sound, StartedSo, A!Differs
  <1>2. Sound(A!Visited(s, a, "stopped"))
    BY <1>1, VisitedSound
  <1>. QED BY <1>2, LooksStep DEF A!ReadCode

LEMMA ReadFlagStep ==
    ASSUME A!ConstantsFit, AssetsInv, NEW a \in Assets, A!ReadFlag(a) \/ A!ReadNoFlag(a)
    PROVE  AssetsInv'
  <1>1. /\ Sound(A!Visited([obs EXCEPT !.flag[a] = A!Flag(a)], a, "round"))
        /\ Sound(A!Visited([obs EXCEPT !.flag[a] = A!NoFlag], a, "round"))
    BY FlagSound, VisitedSound DEF AssetsInv
  <1>. QED BY <1>1, LooksStep DEF A!ReadFlag, A!ReadNoFlag, A!AfterNoFlag

LEMMA LoseStep ==
    ASSUME AssetsInv, A!Lose \/ \E a \in Assets : A!ReadNoCode(a)
    PROVE  AssetsInv'
  <1>1. Sound(A!Goes(obs, "stopped")) /\ Sound(A!Goes(obs, "round"))
    BY GoesSound DEF AssetsInv
  <1>. QED BY <1>1, LooksStep DEF A!Lose, A!ReadNoCode

LEMMA RestartStep ==
    ASSUME A!ConstantsFit, AssetsInv, A!Restart
    PROVE  AssetsInv'
  <1>1. Bounds'
    BY DEF A!ConstantsFit, AssetsInv, Bounds, A!Restart
  <1>. QED BY <1>1, NewSound, InstanceStep DEF A!Restart

LEMMA TickStep ==
    ASSUME A!ConstantsFit, AssetsInv, A!Tick
    PROVE  AssetsInv'
  <1>0. obs'.flag = [a \in Assets |-> A!Aged(obs.flag[a])]
    BY DEF AssetsInv, Sound, A!Observer, A!Tick
  <1>1. \A a \in Assets : /\ obs'.flag[a].value = obs.flag[a].value
                          /\ obs'.flag[a].age = A!Older(obs.flag[a].age, HoldFor + 1)
    BY <1>0 DEF AssetsInv, Sound, A!Observer, A!Aged
  <1>2. obs' \in A!Observer
    <2>1. \A a \in Assets : A!Aged(obs.flag[a]) \in [value : BOOLEAN, age : 0 .. HoldFor + 1]
      BY DEF A!ConstantsFit, AssetsInv, Sound, A!Observer, A!Aged, A!Older
    <2>2. obs' = [obs EXCEPT !.looked = A!Older(@, LookEvery), !.flag = [a \in Assets |-> A!Aged(@[a])]]
      BY DEF A!Tick
    <2>3. A!Older(obs.looked, LookEvery) \in 0 .. LookEvery
      BY DEF A!ConstantsFit, AssetsInv, Sound, A!Observer, A!Older
    <2>. QED BY <2>1, <2>2, <2>3 DEF AssetsInv, Sound, A!Observer
  <1>3. obs'.word = obs.word /\ obs'.started = obs.started
    BY DEF AssetsInv, Sound, A!Observer, A!Tick
  <1>4. \A a \in Assets, v \in BOOLEAN :
            since'[a][v] = IF v = stopped[a] THEN 0 ELSE A!Older(since[a][v], HoldFor + 1)
    BY DEF A!Tick
  <1>5. Contracts'
    <2>1. since' \in [Assets -> [BOOLEAN -> 0 .. HoldFor + 1]]
      BY DEF A!ConstantsFit, AssetsInv, Contracts, A!Tick, A!Older
    <2>2. \A a \in Assets : since'[a][stopped'[a]] = 0
      BY <1>4 DEF AssetsInv, Contracts, A!Tick
    <2>. QED BY <2>1, <2>2 DEF AssetsInv, Contracts, A!Tick
  <1>6. FlagSo(obs)'
    <2>. SUFFICES ASSUME NEW a \in Assets, obs'.flag[a].age <= HoldFor
                  PROVE  since'[a][obs'.flag[a].value] <= obs'.flag[a].age
      BY DEF FlagSo
    <2>. DEFINE v == obs.flag[a].value
                n == obs.flag[a].age
    <2>1. v \in BOOLEAN /\ n \in 0 .. HoldFor + 1 /\ since[a][v] \in 0 .. HoldFor + 1
      BY DEF AssetsInv, Sound, A!Observer, Contracts
    <2>2. obs'.flag[a].value = v /\ obs'.flag[a].age = A!Older(n, HoldFor + 1)
      BY <1>1
    <2>3. n <= HoldFor => since[a][v] <= n
      BY DEF AssetsInv, Sound, FlagSo
    <2>4. since'[a][v] \in {0, A!Older(since[a][v], HoldFor + 1)}
      BY <1>4, <2>1
    <2>. HIDE DEF v, n
    <2>. QED BY <2>1, <2>2, <2>3, <2>4 DEF A!ConstantsFit, A!Older
  <1>7. SaidSo(obs)' /\ StartedSo(obs)'
    BY <1>3 DEF AssetsInv, Sound, SaidSo, StartedSo, A!Tick
  <1>. QED BY <1>2, <1>5, <1>6, <1>7 DEF AssetsInv, Sound, Bounds, A!Tick

LEMMA AssetsNext ==
    ASSUME A!ConstantsFit
    PROVE  AssetsInv /\ [A!Next]_(A!vars) => AssetsInv'
  <1>. SUFFICES ASSUME AssetsInv, [A!Next]_(A!vars) PROVE AssetsInv'
    OBVIOUS
  <1>1. CASE A!Start BY <1>1, StartStep
  <1>2. CASE A!Round BY <1>2, RoundStep
  <1>3. CASE A!Lose BY <1>3, LoseStep
  <1>4. ASSUME NEW a \in Assets, A!ReadCode(a) PROVE AssetsInv' BY <1>4, ReadCodeStep
  <1>5. ASSUME NEW a \in Assets, A!ReadNoCode(a) PROVE AssetsInv' BY <1>5, LoseStep
  <1>6. ASSUME NEW a \in Assets, A!ReadFlag(a) \/ A!ReadNoFlag(a) PROVE AssetsInv'
    BY <1>6, ReadFlagStep
  <1>7. CASE A!Tick BY <1>7, TickStep
  <1>8. CASE A!Restart BY <1>8, RestartStep
  <1>9. ASSUME NEW a \in Assets, A!Upgrade(a) PROVE AssetsInv' BY <1>9, UpgradeStep
  <1>10. ASSUME NEW a \in Assets, A!Stop(a) PROVE AssetsInv' BY <1>10, StopStep
  <1>11. CASE UNCHANGED A!vars
    BY <1>11 DEF A!vars, AssetsInv, Contracts, Bounds, Sound, SaidSo, StartedSo, FlagSo
  <1>. QED
    BY <1>1, <1>2, <1>3, <1>4, <1>5, <1>6, <1>7, <1>8, <1>9, <1>10, <1>11 DEF A!Next, A!Step

LEMMA AssetsInvHolds ==
    ASSUME A!ConstantsFit
    PROVE  AssetsInv => A!AnswersHold
  <1>. SUFFICES ASSUME AssetsInv PROVE A!AnswersHold
    OBVIOUS
  <1>1. A!TypeOK
    BY DEF AssetsInv, Contracts, Bounds, Sound, A!TypeOK
  <1>2. A!ChangedIsSo
    BY DEF AssetsInv, Sound, SaidSo, A!ChangedIsSo
  <1>3. A!AnswersAreRecent
    <2>. SUFFICES ASSUME NEW a \in Assets, obs.flag[a].age <= HoldFor
                  PROVE  since[a][obs.flag[a].value] <= HoldFor
      BY DEF A!AnswersAreRecent, A!Answered
    <2>1. /\ since[a][obs.flag[a].value] \in Int /\ obs.flag[a].age \in Int
          /\ HoldFor \in Int
      BY DEF A!ConstantsFit, AssetsInv, Contracts, Sound, A!Observer
    <2>2. since[a][obs.flag[a].value] <= obs.flag[a].age
      BY DEF AssetsInv, Sound, FlagSo
    <2>. QED BY <2>1, <2>2
  <1>. QED BY <1>1, <1>2, <1>3 DEF A!AnswersHold

\* Whatever the contracts do and whichever calls fail, an instance says that an asset has
\* changed only of one whose code was replaced, and answers that one is stopped or is not
\* only when that was so within HoldFor (observer.go, upgraded, stopped, Paused).
THEOREM AnswersAlwaysHold ==
    ASSUME A!ConstantsFit
    PROVE  A!Spec => []A!AnswersHold
  <1>1. AssetsInv /\ [A!Next]_(A!vars) => AssetsInv'
    BY AssetsNext
  <1>. QED BY <1>1, AssetsInit, AssetsInvHolds, PTL DEF A!Spec

-----------------------------------------------------------------------
(***************************************************************************)
(* The record of a database and what it holds agree, for any builds,       *)
(* versions, instances and faults.                                         *)
(***************************************************************************)
CONSTANTS Versions, Bodies, Outside, Carries, Absent, Invalid, Left, MaxFaults
VARIABLES schema, ledger, lock, start, left, faults

M == INSTANCE Migrations

Working == {"working", "dropped", "made", "valid"}

\* Start s has read the record l, and what it has done since is in it.
Synced(s, l) ==
    \A v \in Versions : l[v] = IF v \in s.done THEN M!Body(s, v) ELSE s.recorded[v]

\* Start s is between two statements of an index, and has left d of it.
Making(s, d) ==
    \E v \in Versions : /\ M!IsNext(s, v) /\ ~M!Changed(s, v)
                        /\ M!Body(s, v) \in Outside
                        /\ s.at # "dropped" => d[v] = M!Body(s, v)

\* What is known of the start whose session holds the lock.
Holding(s, l, d) ==
    /\ s.at \in Working \cup {"reading", "letting"}
    /\ s.done \subseteq M!Carried(s)
    /\ s.at = "reading" => s.done = {}
    /\ s.ok => s.at = "letting" /\ M!Open(s) = {}
    /\ s.at \in Working \/ s.ok => M!Unknown(s, s.recorded) = {} /\ Synced(s, l)
    /\ s.at \in {"dropped", "made", "valid"} => Making(s, d)

Fresh == \A p \in Instances : start[p].at = "waiting" => start[p].done = {} /\ ~start[p].ok

Ready == \A p \in Instances : start[p].at = "ready" =>
             \A v \in M!Carried(start[p]) : ledger[v] = Carries[p][v]

HeldByOne == \A p \in Instances : lock = p => Holding(start[p], ledger, schema)
HeldByLeft == lock = Left => Holding(left, ledger, schema)

\* The inductive invariant.
MigrationsInv == M!TypeOK /\ M!LedgerIsTheSchema /\ Fresh /\ Ready /\ HeldByOne /\ HeldByLeft

USE DEF M!ConstantsFit

(***************************************************************************)
(* What a statement does.                                                  *)
(***************************************************************************)
LEMMA OneNext ==
    ASSUME M!ConstantsFit, NEW s \in M!Start, NEW u \in Versions, NEW v \in Versions,
           M!IsNext(s, u), M!IsNext(s, v)
    PROVE  u = v
  <1>. u \in Nat /\ v \in Nat /\ u <= v /\ v <= u
    BY DEF M!IsNext
  <1>. QED OBVIOUS

\* What a start has next is not recorded, nor is its migration applied.
LEMMA NextIsAbsent ==
    ASSUME M!ConstantsFit, NEW s \in M!Start, NEW v \in Versions, M!IsNext(s, v), ~M!Changed(s, v),
           Synced(s, ledger)
    PROVE  /\ ledger[v] = Absent /\ v \notin s.done
           /\ M!Body(s, v) \in Bodies /\ v \in M!Carried(s)
  <1>1. v \in M!Carried(s) /\ v \notin s.done
    BY DEF M!IsNext, M!Open
  <1>2. ledger[v] = Absent
    BY <1>1 DEF M!Changed, Synced
  <1>3. M!Body(s, v) \in Bodies
    BY <1>1 DEF M!Carried, M!Body, M!Start, M!Recorded
  <1>. QED BY <1>1, <1>2, <1>3

\* What is recorded is a part of what a start in work carries.
LEMMA RecordedIsCarried ==
    ASSUME M!ConstantsFit, NEW s \in M!Start, M!Unknown(s, s.recorded) = {}, Synced(s, ledger),
           s.done \subseteq M!Carried(s), NEW v \in Versions, ledger[v] # Absent
    PROVE  Carries[s.of][v] # Absent
  <1>1. CASE v \in s.done
    BY <1>1 DEF M!Carried
  <1>2. CASE v \notin s.done
    BY <1>2 DEF Synced, M!Unknown, M!Carried
  <1>. QED BY <1>1, <1>2

\* The database before and after a change to version v alone.
LEMMA ChangeOfOne ==
    ASSUME M!ConstantsFit, M!TypeOK, M!LedgerIsTheSchema, NEW v \in Versions, ledger[v] = Absent,
           NEW d \in M!InSchema, NEW l \in M!Recorded,
           schema' = [schema EXCEPT ![v] = d], ledger' = [ledger EXCEPT ![v] = l],
           l # Absent => d = l,
           d \in Bodies \ Outside => l = d
    PROVE  /\ schema' \in [Versions -> M!InSchema] /\ ledger' \in [Versions -> M!Recorded]
           /\ M!LedgerIsTheSchema'
           /\ \A u \in Versions : ledger[u] # Absent =>
                  schema'[u] = schema[u] /\ ledger'[u] = ledger[u]
  BY DEF M!TypeOK, M!LedgerIsTheSchema

LEMMA StatementChanges ==
    ASSUME M!ConstantsFit, M!TypeOK, M!LedgerIsTheSchema, NEW s \in M!Start, NEW v \in Versions,
           M!IsNext(s, v), ~M!Changed(s, v), Holding(s, ledger, schema), M!Statement(s, v)
    PROVE  /\ schema' \in [Versions -> M!InSchema] /\ ledger' \in [Versions -> M!Recorded]
           /\ M!LedgerIsTheSchema'
           /\ M!ChangesBy(s.of)
           /\ \A u \in Versions \ {v} : ledger'[u] = ledger[u]
           /\ \/ /\ s.at = "working" /\ M!Body(s, v) \in Outside
                 /\ UNCHANGED ledger
              \/ /\ s.at \in {"dropped", "made"} /\ schema'[v] = M!Body(s, v)
                 /\ UNCHANGED ledger
              \/ /\ s.at = "working" /\ M!Body(s, v) \notin Outside
                 /\ ledger'[v] = M!Body(s, v)
              \/ s.at = "valid" /\ ledger'[v] = M!Body(s, v)
  <1>1. /\ s.at \in Working
        /\ M!Unknown(s, s.recorded) = {} /\ Synced(s, ledger) /\ s.done \subseteq M!Carried(s)
    BY DEF Holding, M!Statement, M!Apply, M!Drop, M!Make, M!Look, M!Record, Working
  <1>2. ledger[v] = Absent /\ M!Body(s, v) \in Bodies
    BY <1>1, NextIsAbsent
  <1>3. s.at \in {"dropped", "made", "valid"} =>
            M!Body(s, v) \in Outside /\ (s.at # "dropped" => schema[v] = M!Body(s, v))
    BY OneNext DEF Holding, Making
  <1>4. \A u \in Versions : ledger[u] # Absent => Carries[s.of][u] # Absent
    BY <1>1, RecordedIsCarried
  <1>5. \E d \in M!InSchema, l \in M!Recorded :
            /\ schema' = [schema EXCEPT ![v] = d] /\ ledger' = [ledger EXCEPT ![v] = l]
            /\ l # Absent => d = l
            /\ d \in Bodies \ Outside => l = d
            /\ \/ /\ s.at = "working" /\ M!Body(s, v) \in Outside /\ l = Absent
               \/ /\ s.at \in {"dropped", "made"} /\ d = M!Body(s, v) /\ l = Absent
               \/ s.at = "working" /\ M!Body(s, v) \notin Outside /\ l = M!Body(s, v)
               \/ s.at = "valid" /\ l = M!Body(s, v)
    <2>0. schema[v] \in M!InSchema /\ schema = [schema EXCEPT ![v] = schema[v]]
          /\ ledger = [ledger EXCEPT ![v] = Absent]
      BY <1>2 DEF M!TypeOK
    <2>1. CASE M!Apply(s, v)
      BY <2>1, <1>2 DEF M!Apply, M!InSchema, M!Recorded
    <2>2. CASE M!Drop(s, v)
      BY <2>2, <2>0 DEF M!Drop, M!Dropped, M!InSchema, M!Recorded
    <2>3. CASE M!Make(s, v)
      BY <2>3, <2>0, <1>2, <1>3 DEF M!Make, M!InSchema, M!Recorded
    <2>4. CASE M!Look(s, v)
      BY <2>4, <2>0, <1>2, <1>3 DEF M!Look, M!InSchema, M!Recorded
    <2>5. CASE M!Record(s, v)
      BY <2>5, <2>0, <1>2, <1>3 DEF M!Record, M!InSchema, M!Recorded
    <2>. QED BY <2>1, <2>2, <2>3, <2>4, <2>5 DEF M!Statement
  <1>. PICK d \in M!InSchema, l \in M!Recorded :
            /\ schema' = [schema EXCEPT ![v] = d] /\ ledger' = [ledger EXCEPT ![v] = l]
            /\ l # Absent => d = l
            /\ d \in Bodies \ Outside => l = d
            /\ \/ /\ s.at = "working" /\ M!Body(s, v) \in Outside /\ l = Absent
               \/ /\ s.at \in {"dropped", "made"} /\ d = M!Body(s, v) /\ l = Absent
               \/ s.at = "working" /\ M!Body(s, v) \notin Outside /\ l = M!Body(s, v)
               \/ s.at = "valid" /\ l = M!Body(s, v)
    BY <1>5
  <1>6. /\ schema' \in [Versions -> M!InSchema] /\ ledger' \in [Versions -> M!Recorded]
        /\ M!LedgerIsTheSchema'
        /\ \A u \in Versions : ledger[u] # Absent =>
               schema'[u] = schema[u] /\ ledger'[u] = ledger[u]
    BY <1>2, ChangeOfOne
  <1>7. M!ChangesBy(s.of)
    BY <1>4, <1>6 DEF M!ChangesBy
  <1>8. /\ schema'[v] = d /\ ledger'[v] = l
        /\ \A u \in Versions \ {v} : ledger'[u] = ledger[u]
        /\ l = Absent => ledger' = ledger
    BY <1>2 DEF M!TypeOK
  <1>. QED BY <1>6, <1>7, <1>8

\* Where a start is after its statement.
LEMMA StatementKeeps ==
    ASSUME M!ConstantsFit, M!TypeOK, M!LedgerIsTheSchema, NEW s \in M!Start, NEW v \in Versions,
           M!IsNext(s, v), ~M!Changed(s, v), Holding(s, ledger, schema), M!Statement(s, v)
    PROVE  /\ M!After(s, v) \in M!Start /\ M!After(s, v).of = s.of
           /\ M!After(s, v).at \in Working
           /\ Holding(M!After(s, v), ledger', schema')
  <1>. DEFINE t == M!After(s, v)
  <1>0. /\ s.at \in Working /\ ~s.ok
        /\ M!Unknown(s, s.recorded) = {} /\ Synced(s, ledger) /\ s.done \subseteq M!Carried(s)
    BY DEF Holding, M!Statement, M!Apply, M!Drop, M!Make, M!Look, M!Record, Working
  <1>1. ASSUME NEW to \in {"dropped", "made", "valid"}, t = [s EXCEPT !.at = to],
               UNCHANGED ledger, M!Body(s, v) \in Outside,
               to # "dropped" => schema'[v] = M!Body(s, v)
        PROVE  /\ t \in M!Start /\ t.of = s.of /\ t.at \in Working
               /\ Holding(t, ledger', schema')
    <2>. HIDE DEF t
    <2>1. /\ t \in M!Start /\ t.of = s.of /\ t.at = to /\ t.done = s.done /\ t.ok = s.ok
          /\ t.recorded = s.recorded
      BY <1>1 DEF M!Start, M!Phases
    <2>2. M!Carried(t) = M!Carried(s) /\ M!Open(t) = M!Open(s)
      BY <2>1 DEF M!Carried, M!Open, M!Body
    <2>3. M!IsNext(t, v) /\ ~M!Changed(t, v) /\ M!Body(t, v) = M!Body(s, v)
      BY <2>1, <2>2 DEF M!IsNext, M!Changed, M!Body
    <2>4. Making(t, schema')
      BY <1>1, <2>1, <2>3 DEF Making
    <2>5. M!Unknown(t, t.recorded) = {} /\ Synced(t, ledger')
      BY <1>0, <1>1, <2>1, <2>2 DEF M!Unknown, Synced, M!Body
    <2>. QED BY <1>0, <1>1, <2>1, <2>2, <2>4, <2>5 DEF Holding, Working
  <1>2. ASSUME t = [s EXCEPT !.at = "working", !.done = @ \cup {v}],
               ledger'[v] = M!Body(s, v), \A u \in Versions \ {v} : ledger'[u] = ledger[u]
        PROVE  /\ t \in M!Start /\ t.of = s.of /\ t.at \in Working
               /\ Holding(t, ledger', schema')
    <2>. HIDE DEF t
    <2>1. /\ t \in M!Start /\ t.of = s.of /\ t.at = "working" /\ t.done = s.done \cup {v}
          /\ t.ok = s.ok /\ t.recorded = s.recorded
      BY <1>2 DEF M!Start, M!Phases
    <2>2. M!Carried(t) = M!Carried(s) /\ v \in M!Carried(s)
      BY <2>1 DEF M!Carried, M!IsNext, M!Open
    <2>3. M!Unknown(t, t.recorded) = {} /\ Synced(t, ledger')
      BY <1>0, <1>2, <2>1, <2>2 DEF M!Unknown, Synced, M!Body
    <2>. QED BY <1>0, <2>1, <2>2, <2>3 DEF Holding, Working
  <1>3. /\ \A u \in Versions \ {v} : ledger'[u] = ledger[u]
        /\ \/ s.at = "working" /\ M!Body(s, v) \in Outside /\ UNCHANGED ledger
           \/ s.at \in {"dropped", "made"} /\ schema'[v] = M!Body(s, v) /\ UNCHANGED ledger
           \/ s.at = "working" /\ M!Body(s, v) \notin Outside /\ ledger'[v] = M!Body(s, v)
           \/ s.at = "valid" /\ ledger'[v] = M!Body(s, v)
    BY StatementChanges
  <1>4. s.at \in {"dropped", "made"} => M!Body(s, v) \in Outside
    BY OneNext DEF Holding, Making
  <1>5. CASE s.at = "working" /\ M!Body(s, v) \in Outside
    BY <1>1, <1>3, <1>5 DEF M!After
  <1>6. CASE s.at = "dropped"
    BY <1>1, <1>3, <1>4, <1>6 DEF M!After
  <1>7. CASE s.at = "made"
    BY <1>1, <1>3, <1>4, <1>7 DEF M!After
  <1>8. CASE s.at = "valid" \/ (s.at = "working" /\ M!Body(s, v) \notin Outside)
    BY <1>2, <1>3, <1>8 DEF M!After
  <1>. QED BY <1>3, <1>5, <1>6, <1>7, <1>8

\* What a statement cut short leaves.
LEMMA CutShortKeeps ==
    ASSUME M!ConstantsFit, M!TypeOK, M!LedgerIsTheSchema, NEW s \in M!Start,
           Holding(s, ledger, schema), M!CutShort(s)
    PROVE  /\ schema' \in [Versions -> M!InSchema] /\ UNCHANGED ledger
           /\ M!LedgerIsTheSchema'
           /\ UNCHANGED schema \/ M!ChangesBy(s.of)
  <1>1. CASE UNCHANGED schema
    BY <1>1 DEF M!CutShort, M!TypeOK, M!LedgerIsTheSchema
  <1>2. CASE s.at = "dropped" /\ \E v \in Versions :
                 M!IsNext(s, v) /\ schema[v] = Absent /\ schema' = [schema EXCEPT ![v] = Invalid]
    <2>. PICK v \in Versions :
             M!IsNext(s, v) /\ schema[v] = Absent /\ schema' = [schema EXCEPT ![v] = Invalid]
      BY <1>2
    <2>1. /\ ~M!Changed(s, v)
          /\ M!Unknown(s, s.recorded) = {} /\ Synced(s, ledger) /\ s.done \subseteq M!Carried(s)
      BY <1>2, OneNext DEF Holding, Making, Working
    <2>2. ledger[v] = Absent
      BY <2>1, NextIsAbsent
    <2>3. ledger' = [ledger EXCEPT ![v] = Absent]
      BY <2>2 DEF M!CutShort, M!TypeOK
    <2>4. Invalid \in M!InSchema /\ Absent \in M!Recorded /\ Invalid \notin Bodies
      BY DEF M!InSchema, M!Recorded
    <2>5. /\ schema' \in [Versions -> M!InSchema] /\ M!LedgerIsTheSchema'
          /\ \A u \in Versions : ledger[u] # Absent =>
                 schema'[u] = schema[u] /\ ledger'[u] = ledger[u]
      BY <2>2, <2>3, <2>4, ChangeOfOne
    <2>6. \A u \in Versions : ledger[u] # Absent => Carries[s.of][u] # Absent
      BY <2>1, RecordedIsCarried
    <2>. QED BY <2>5, <2>6 DEF M!ChangesBy, M!CutShort
  <1>. QED BY <1>1, <1>2 DEF M!CutShort

(***************************************************************************)
(* Every step keeps the invariant.                                         *)
(***************************************************************************)
LEMMA DownIsStart ==
    ASSUME M!ConstantsFit, NEW p \in Instances
    PROVE  /\ M!Down(p) \in M!Start /\ M!Down(p).of = p /\ M!Down(p).at = "down"
           /\ M!Down(p).done = {} /\ ~M!Down(p).ok
  BY DEF M!Down, M!Start, M!Phases, M!Recorded

LEMMA MigrationsInit ==
    ASSUME M!ConstantsFit
    PROVE  M!Init => MigrationsInv
  <1>. SUFFICES ASSUME M!Init PROVE MigrationsInv
    OBVIOUS
  <1>1. left \in M!Start
    BY DownIsStart DEF M!Init
  <1>2. start \in [Instances -> M!Start] /\ \A p \in Instances : start[p].of = p /\ start[p].at = "down"
    BY DownIsStart DEF M!Init
  <1>3. M!TypeOK
    BY <1>1, <1>2 DEF M!Init, M!TypeOK, M!InSchema, M!Recorded
  <1>4. M!LedgerIsTheSchema
    BY DEF M!Init, M!LedgerIsTheSchema
  <1>5. Fresh /\ Ready
    BY <1>2 DEF Fresh, Ready
  <1>6. HeldByOne /\ HeldByLeft
    BY DEF M!Init, HeldByOne, HeldByLeft
  <1>. QED BY <1>3, <1>4, <1>5, <1>6 DEF MigrationsInv

\* Instance p's start becomes t, over a database whose record only grew.
LEMMA StartBecomes ==
    ASSUME M!ConstantsFit, MigrationsInv, NEW p \in Instances, NEW t \in M!Start, t.of = p,
           start' = [start EXCEPT ![p] = t],
           t.at = "waiting" => t.done = {} /\ ~t.ok,
           t.at = "ready" => \A v \in M!Carried(t) : ledger'[v] = Carries[p][v],
           schema' \in [Versions -> M!InSchema], ledger' \in [Versions -> M!Recorded],
           M!LedgerIsTheSchema',
           \A v \in Versions : ledger[v] # Absent => ledger'[v] = ledger[v],
           left' \in M!Start, faults' \in 0 .. MaxFaults,
           lock' \in Instances \cup {Nobody, Left},
           \A q \in Instances \ {p} : lock' = q => lock = q /\ UNCHANGED <<schema, ledger>>,
           lock' = p => Holding(t, ledger', schema'),
           lock' = Left => Holding(left', ledger', schema')
    PROVE  MigrationsInv'
  <1>0. /\ start'[p] = t /\ start' \in [Instances -> M!Start]
        /\ \A q \in Instances \ {p} : start'[q] = start[q]
    BY DEF MigrationsInv, M!TypeOK
  <1>1. M!TypeOK'
    BY <1>0 DEF MigrationsInv, M!TypeOK
  <1>2. Fresh'
    BY <1>0 DEF MigrationsInv, Fresh
  <1>3. Ready'
    <2>. SUFFICES ASSUME NEW q \in Instances, q # p, start[q].at = "ready",
                         NEW v \in M!Carried(start[q])
                  PROVE  ledger'[v] = Carries[q][v]
      BY <1>0 DEF Ready
    <2>1. ledger[v] = Carries[q][v] /\ v \in Versions /\ Carries[q][v] # Absent
      BY DEF MigrationsInv, Ready, M!Carried, M!TypeOK
    <2>. QED BY <2>1
  <1>4. HeldByOne'
    <2>. SUFFICES ASSUME NEW q \in Instances, lock' = q
                  PROVE  Holding(start'[q], ledger', schema')
      BY DEF HeldByOne
    <2>1. CASE q = p
      BY <2>1, <1>0
    <2>2. CASE q # p
      <3>1. lock = q /\ ledger' = ledger /\ schema' = schema /\ start'[q] = start[q]
        BY <2>2, <1>0
      <3>. QED BY <3>1 DEF MigrationsInv, HeldByOne
    <2>. QED BY <2>1, <2>2
  <1>5. HeldByLeft'
    BY DEF HeldByLeft
  <1>. QED BY <1>1, <1>2, <1>3, <1>4, <1>5 DEF MigrationsInv

\* Instance p's start becomes t, and nothing else moves but a lock that is let go.
LEMMA QuietStep ==
    ASSUME M!ConstantsFit, MigrationsInv, NEW p \in Instances, NEW t \in M!Start, t.of = p,
           start' = [start EXCEPT ![p] = t],
           t.at = "waiting" => t.done = {} /\ ~t.ok,
           t.at = "ready" => \A v \in M!Carried(t) : ledger[v] = Carries[p][v],
           UNCHANGED <<schema, ledger>>,
           faults' \in 0 .. MaxFaults,
           \/ UNCHANGED <<lock, left>> /\ (lock = p => Holding(t, ledger, schema))
           \/ lock = p /\ lock' = Nobody /\ UNCHANGED left
           \/ lock = Nobody /\ lock' = p /\ UNCHANGED left /\ Holding(t, ledger, schema)
           \/ lock = p /\ lock' = Left /\ left' = start[p]
    PROVE  MigrationsInv'
  <1>1. /\ schema' \in [Versions -> M!InSchema] /\ ledger' \in [Versions -> M!Recorded]
        /\ M!LedgerIsTheSchema'
        /\ left' \in M!Start /\ lock' \in Instances \cup {Nobody, Left}
    BY DEF MigrationsInv, M!TypeOK, M!LedgerIsTheSchema
  <1>2. \A q \in Instances \ {p} : lock' = q => lock = q /\ UNCHANGED <<schema, ledger>>
    OBVIOUS
  <1>3. lock' = p => Holding(t, ledger', schema')
    OBVIOUS
  <1>4. lock' = Left => Holding(left', ledger', schema')
    BY DEF MigrationsInv, HeldByOne, HeldByLeft
  <1>. QED BY <1>1, <1>2, <1>3, <1>4, StartBecomes

LEMMA FaultCounts ==
    ASSUME M!ConstantsFit, M!TypeOK, M!Fault \/ UNCHANGED faults
    PROVE  faults' \in 0 .. MaxFaults
  BY DEF M!TypeOK, M!Fault

LEMMA BeginStep ==
    ASSUME M!ConstantsFit, MigrationsInv, NEW p \in Instances, M!Begin(p)
    PROVE  MigrationsInv'
  <1>. DEFINE t == [M!Down(p) EXCEPT !.at = "waiting"]
  <1>1. t \in M!Start /\ t.of = p /\ t.at = "waiting" /\ t.done = {} /\ ~t.ok
    BY DownIsStart DEF M!Start, M!Phases
  <1>2. lock # p
    BY DEF MigrationsInv, HeldByOne, Holding, M!Begin, Working
  <1>3. start' = [start EXCEPT ![p] = t] /\ UNCHANGED <<schema, ledger, lock, left, faults>>
    BY DEF M!Begin
  <1>. HIDE DEF t
  <1>. QED BY <1>1, <1>2, <1>3, QuietStep DEF MigrationsInv, M!TypeOK

\* Only the phase of p's start moves.
LEMMA PhaseOf ==
    ASSUME M!ConstantsFit, M!TypeOK, NEW p \in Instances, NEW phase \in M!Phases, M!To(p, phase)
    PROVE  \E t \in M!Start : /\ t = [start[p] EXCEPT !.at = phase]
                            /\ t.of = p /\ t.at = phase /\ t.done = start[p].done
                            /\ t.ok = start[p].ok /\ t.recorded = start[p].recorded
                            /\ M!Carried(t) = M!Carried(start[p])
                            /\ start' = [start EXCEPT ![p] = t]
  <1>. DEFINE t == [start[p] EXCEPT !.at = phase]
  <1>1. start' = [start EXCEPT ![p] = t]
    BY Zenon DEF M!To
  <1>2. /\ t \in M!Start /\ t.of = start[p].of /\ t.at = phase /\ t.done = start[p].done
        /\ t.ok = start[p].ok /\ t.recorded = start[p].recorded
    <2>. PICK s \in M!Start : s = start[p]
      BY DEF M!TypeOK
    <2>. DEFINE u == [s EXCEPT !.at = phase]
    <2>1. u \in M!Start /\ u.of = s.of /\ u.at = phase /\ u.done = s.done
          /\ u.ok = s.ok /\ u.recorded = s.recorded
      BY DEF M!Start
    <2>2. t = u
      OBVIOUS
    <2>. HIDE DEF t, u
    <2>. QED BY <2>1, <2>2
  <1>3. M!Carried(t) = M!Carried(start[p])
    BY <1>2 DEF M!Carried
  <1>. QED BY <1>1, <1>2, <1>3 DEF M!TypeOK

LEMMA TakeStep ==
    ASSUME M!ConstantsFit, MigrationsInv, NEW p \in Instances, M!Take(p)
    PROVE  MigrationsInv'
  <1>1. M!TypeOK /\ "reading" \in M!Phases
    BY DEF MigrationsInv, M!Phases
  <1>. PICK t \in M!Start : /\ t.of = p /\ t.at = "reading" /\ t.done = start[p].done
                          /\ t.ok = start[p].ok
                          /\ start' = [start EXCEPT ![p] = t]
    BY <1>1, PhaseOf DEF M!Take
  <1>2. t.done = {} /\ ~t.ok
    BY DEF MigrationsInv, Fresh, M!Take
  <1>3. Holding(t, ledger, schema)
    BY <1>2 DEF Holding, Working
  <1>. QED BY <1>1, <1>2, <1>3, QuietStep, FaultCounts DEF M!Take

LEMMA ReadLedgerStep ==
    ASSUME M!ConstantsFit, MigrationsInv, NEW p \in Instances, M!ReadLedger(p)
    PROVE  MigrationsInv'
  <1>. DEFINE phase == IF M!Unknown(start[p], ledger) = {} THEN "working" ELSE "letting"
              t == [start[p] EXCEPT !.recorded = ledger, !.at = phase]
  <1>1. start' = [start EXCEPT ![p] = t]
    BY DEF M!ReadLedger, MigrationsInv, M!TypeOK
  <1>. phase \in {"working", "letting"} /\ (phase = "working" => M!Unknown(start[p], ledger) = {})
    OBVIOUS
  <1>. HIDE DEF phase
  <1>0. /\ start[p] \in M!Start /\ start[p].of = p
        /\ ledger \in [Versions -> M!Recorded] /\ phase \in M!Phases
    BY DEF MigrationsInv, M!TypeOK, M!Phases
  <1>2. /\ t \in M!Start /\ t.of = p /\ t.at = phase /\ t.recorded = ledger
        /\ t.done = start[p].done /\ t.ok = start[p].ok
    BY <1>0 DEF M!Start
  <1>3. Holding(start[p], ledger, schema) /\ start[p].at = "reading" /\ lock = p
    BY DEF MigrationsInv, HeldByOne, M!ReadLedger, M!OnItsSession
  <1>4. t.done = {} /\ ~t.ok
    BY <1>2, <1>3 DEF Holding
  <1>5. M!Unknown(t, ledger) = M!Unknown(start[p], ledger)
    BY <1>2 DEF M!Unknown, M!Carried, MigrationsInv, M!TypeOK
  <1>7. t.at \in {"working", "letting"}
    BY <1>2
  <1>. HIDE DEF t
  <1>8. Synced(t, ledger)
    BY <1>2, <1>4 DEF Synced
  <1>6. Holding(t, ledger, schema)
    BY <1>2, <1>4, <1>5, <1>7, <1>8 DEF Holding, Working
  <1>. QED BY <1>1, <1>2, <1>3, <1>6, <1>7, QuietStep, FaultCounts DEF M!ReadLedger, MigrationsInv

LEMMA WorkStep ==
    ASSUME M!ConstantsFit, MigrationsInv, NEW p \in Instances, M!Work(p)
    PROVE  MigrationsInv' /\ (lock = p /\ M!ChangesBy(p))
  <1>. PICK v \in Versions :
            /\ M!IsNext(start[p], v) /\ ~M!Changed(start[p], v) /\ lock = p
            /\ M!Statement(start[p], v) /\ start' = [start EXCEPT ![p] = M!After(@, v)]
            /\ UNCHANGED <<lock, left, faults>>
    BY DEF M!Work, M!OnItsSession
  <1>. DEFINE t == M!After(start[p], v)
  <1>1. /\ start[p] \in M!Start /\ start[p].of = p /\ M!TypeOK /\ M!LedgerIsTheSchema
        /\ Holding(start[p], ledger, schema)
    BY DEF MigrationsInv, M!TypeOK, HeldByOne
  <1>2. /\ t \in M!Start /\ t.of = p /\ t.at \in Working /\ Holding(t, ledger', schema')
    BY <1>1, StatementKeeps
  <1>3. /\ schema' \in [Versions -> M!InSchema] /\ ledger' \in [Versions -> M!Recorded]
        /\ M!LedgerIsTheSchema' /\ M!ChangesBy(p)
    BY <1>1, StatementChanges
  <1>4. \A u \in Versions : ledger[u] # Absent => ledger'[u] = ledger[u]
    BY <1>3 DEF M!ChangesBy
  <1>5. /\ left' \in M!Start /\ faults' \in 0 .. MaxFaults /\ lock' = p /\ lock' # Left
    BY DEF MigrationsInv, M!TypeOK
  <1>6. start' = [start EXCEPT ![p] = t]
    OBVIOUS
  <1>. HIDE DEF t
  <1>7. t.at # "waiting" /\ t.at # "ready"
    BY <1>2 DEF Working
  <1>8. MigrationsInv'
    BY <1>2, <1>3, <1>4, <1>5, <1>6, <1>7, StartBecomes
  <1>. QED BY <1>3, <1>8

LEMMA RefuseStep ==
    ASSUME M!ConstantsFit, MigrationsInv, NEW p \in Instances, M!Refuse(p)
    PROVE  MigrationsInv'
  <1>1. M!TypeOK /\ "letting" \in M!Phases
    BY DEF MigrationsInv, M!Phases
  <1>. PICK t \in M!Start : /\ t.of = p /\ t.at = "letting" /\ t.done = start[p].done
                          /\ t.ok = start[p].ok /\ M!Carried(t) = M!Carried(start[p])
                          /\ start' = [start EXCEPT ![p] = t]
    BY <1>1, PhaseOf DEF M!Refuse
  <1>2. lock = p => Holding(t, ledger, schema)
    BY DEF MigrationsInv, HeldByOne, Holding, Working, M!Refuse
  <1>. QED BY <1>1, <1>2, QuietStep, FaultCounts DEF M!Refuse

LEMMA FinishStep ==
    ASSUME M!ConstantsFit, MigrationsInv, NEW p \in Instances, M!Finish(p)
    PROVE  MigrationsInv'
  <1>. DEFINE t == [start[p] EXCEPT !.at = "letting", !.ok = TRUE]
  <1>1. start' = [start EXCEPT ![p] = t]
    BY Zenon DEF M!Finish
  <1>2. /\ t \in M!Start /\ t.of = p /\ t.at = "letting" /\ t.recorded = start[p].recorded
        /\ t.done = start[p].done /\ t.ok
    <2>. PICK s \in M!Start : s = start[p] /\ s.of = p
      BY DEF MigrationsInv, M!TypeOK
    <2>. DEFINE u == [s EXCEPT !.at = "letting", !.ok = TRUE]
    <2>1. "letting" \in M!Phases
      BY DEF M!Phases
    <2>2. u \in M!Start /\ u.of = s.of /\ u.at = "letting" /\ u.done = s.done
          /\ u.ok /\ u.recorded = s.recorded
      BY <2>1 DEF M!Start
    <2>3. t = u
      OBVIOUS
    <2>. HIDE DEF t, u
    <2>. QED BY <2>2, <2>3
  <1>. HIDE DEF t
  <1>3. M!Carried(t) = M!Carried(start[p]) /\ M!Open(t) = M!Open(start[p])
    BY <1>2 DEF M!Carried, M!Open, M!Body, MigrationsInv, M!TypeOK
  <1>4. ASSUME lock = p PROVE Holding(t, ledger, schema)
    <2>1. Holding(start[p], ledger, schema) /\ start[p].at = "working" /\ M!Open(start[p]) = {}
      BY <1>4 DEF MigrationsInv, HeldByOne, M!Finish
    <2>2. M!Unknown(t, t.recorded) = {} /\ Synced(t, ledger)
      BY <2>1, <1>2, <1>3 DEF Holding, Working, M!Unknown, Synced, M!Body, MigrationsInv, M!TypeOK
    <2>. QED BY <2>1, <2>2, <1>2, <1>3 DEF Holding
  <1>. QED BY <1>1, <1>2, <1>4, QuietStep, FaultCounts DEF M!Finish, MigrationsInv

\* A start that ended well has the lock over the record it carries.
LEMMA EndedWell ==
    ASSUME M!ConstantsFit, MigrationsInv, NEW p \in Instances, lock = p, start[p].ok
    PROVE  ledger = Carries[p]
  <1>. DEFINE s == start[p]
  <1>1. /\ s.done \subseteq M!Carried(s) /\ M!Open(s) = {}
        /\ M!Unknown(s, s.recorded) = {} /\ Synced(s, ledger) /\ s.of = p
    BY DEF MigrationsInv, HeldByOne, Holding, M!TypeOK
  <1>. HIDE DEF s
  <1>2. \A v \in Versions : ledger[v] = Carries[p][v]
    BY <1>1 DEF M!Carried, M!Open, M!Unknown, Synced, M!Body
  <1>3. /\ ledger = [v \in Versions |-> ledger[v]]
        /\ Carries[p] = [v \in Versions |-> Carries[p][v]]
    BY DEF MigrationsInv, M!TypeOK
  <1>. QED BY <1>2, <1>3, Zenon

LEMMA UnlockStep ==
    ASSUME M!ConstantsFit, MigrationsInv, NEW p \in Instances, M!Unlock(p)
    PROVE  MigrationsInv'
  <1>. DEFINE phase == IF start[p].ok THEN "ready" ELSE "down"
  <1>1. M!TypeOK /\ phase \in M!Phases /\ M!To(p, phase)
    BY DEF MigrationsInv, M!Phases, M!Unlock
  <1>. PICK t \in M!Start : /\ t.of = p /\ t.at = phase /\ t.ok = start[p].ok
                          /\ start' = [start EXCEPT ![p] = t]
    BY <1>1, PhaseOf
  <1>2. lock = p /\ lock' = Nobody /\ UNCHANGED <<schema, ledger, left, faults>>
    BY DEF M!Unlock, M!OnItsSession
  <1>3. t.at = "ready" => \A v \in M!Carried(t) : ledger[v] = Carries[p][v]
    BY <1>2, EndedWell
  <1>. QED BY <1>1, <1>2, <1>3, QuietStep, FaultCounts

LEMMA TimeOutStep ==
    ASSUME M!ConstantsFit, MigrationsInv, NEW p \in Instances, M!TimeOut(p)
    PROVE  MigrationsInv'
  <1>1. M!TypeOK /\ "down" \in M!Phases
    BY DEF MigrationsInv, M!Phases
  <1>. PICK t \in M!Start : /\ t.of = p /\ t.at = "down"
                          /\ start' = [start EXCEPT ![p] = t]
    BY <1>1, PhaseOf DEF M!TimeOut
  <1>2. lock # p
    BY DEF MigrationsInv, HeldByOne, Holding, Working, M!TimeOut
  <1>. QED BY <1>1, <1>2, QuietStep, FaultCounts DEF M!TimeOut

LEMMA FailsStep ==
    ASSUME M!ConstantsFit, MigrationsInv, NEW p \in Instances, M!Fails(p)
    PROVE  MigrationsInv' /\ (UNCHANGED <<schema, ledger>> \/ (lock = p /\ M!ChangesBy(p)))
  <1>1. M!TypeOK /\ M!LedgerIsTheSchema /\ "letting" \in M!Phases
    BY DEF MigrationsInv, M!Phases
  <1>. PICK t \in M!Start : /\ t.of = p /\ t.at = "letting" /\ t.done = start[p].done
                          /\ t.ok = start[p].ok /\ M!Carried(t) = M!Carried(start[p])
                          /\ start' = [start EXCEPT ![p] = t]
    BY <1>1, PhaseOf DEF M!Fails
  <1>2. /\ start[p].at \in Working \cup {"reading"}
        /\ faults' \in 0 .. MaxFaults
        /\ UNCHANGED <<lock, left>>
    BY <1>1, FaultCounts DEF M!Fails, Working
  <1>3. CASE lock # p
    <2>1. UNCHANGED <<schema, ledger>>
      BY <1>3 DEF M!Fails, M!OnItsSession
    <2>. QED BY <1>2, <1>3, <2>1, QuietStep
  <1>4. CASE lock = p
    <2>1. /\ start[p] \in M!Start /\ start[p].of = p /\ Holding(start[p], ledger, schema)
          /\ M!CutShort(start[p])
      BY <1>4 DEF MigrationsInv, M!TypeOK, HeldByOne, M!Fails, M!OnItsSession
    <2>2. /\ schema' \in [Versions -> M!InSchema] /\ UNCHANGED ledger
          /\ M!LedgerIsTheSchema'
          /\ UNCHANGED schema \/ M!ChangesBy(p)
      BY <1>1, <2>1, CutShortKeeps
    <2>3. Holding(t, ledger', schema')
      BY <1>2, <2>1 DEF Holding, Working
    <2>4. /\ ledger' \in [Versions -> M!Recorded] /\ left' \in M!Start
          /\ lock' = p /\ lock' # Left
      BY <1>2, <1>4, <2>2 DEF MigrationsInv, M!TypeOK
    <2>5. MigrationsInv'
      BY <1>2, <2>2, <2>3, <2>4, StartBecomes
    <2>. QED BY <2>2, <2>5, <1>4
  <1>. QED BY <1>3, <1>4

\* p's start is over, and the lock is left with its session if it had it.
LEMMA OverStep ==
    ASSUME M!ConstantsFit, MigrationsInv, NEW p \in Instances, M!GivenUp(p),
           start' = [start EXCEPT ![p] = M!Down(p)],
           M!Fault \/ UNCHANGED faults, UNCHANGED <<schema, ledger>>
    PROVE  MigrationsInv'
  <1>1. faults' \in 0 .. MaxFaults
    BY FaultCounts DEF MigrationsInv
  <1>2. CASE lock = p
    <2>1. lock' = Left /\ left' = start[p]
      BY <1>2 DEF M!GivenUp
    <2>. QED BY <1>1, <1>2, <2>1, DownIsStart, QuietStep
  <1>3. CASE lock # p
    <2>1. UNCHANGED <<lock, left>>
      BY <1>3 DEF M!GivenUp
    <2>. QED BY <1>1, <1>3, <2>1, DownIsStart, QuietStep
  <1>. QED BY <1>2, <1>3

LEMMA SessionLostStep ==
    ASSUME M!ConstantsFit, MigrationsInv, NEW p \in Instances, M!SessionLost(p)
    PROVE  MigrationsInv' /\ (UNCHANGED <<schema, ledger>> \/ (lock = p /\ M!ChangesBy(p)))
  <1>1. /\ M!TypeOK /\ M!LedgerIsTheSchema /\ start[p] \in M!Start /\ start[p].of = p
        /\ Holding(start[p], ledger, schema) /\ M!CutShort(start[p]) /\ lock = p
    BY DEF MigrationsInv, M!TypeOK, HeldByOne, M!SessionLost
  <1>2. /\ schema' \in [Versions -> M!InSchema] /\ UNCHANGED ledger
        /\ M!LedgerIsTheSchema'
        /\ UNCHANGED schema \/ M!ChangesBy(p)
    BY <1>1, CutShortKeeps
  <1>3. lock' = Nobody /\ UNCHANGED <<start, left>> /\ faults' \in 0 .. MaxFaults
    BY <1>1, FaultCounts DEF M!SessionLost
  <1>4. MigrationsInv'
    BY <1>1, <1>2, <1>3
       DEF MigrationsInv, M!TypeOK, Fresh, Ready, HeldByOne, HeldByLeft
  <1>. QED BY <1>1, <1>2, <1>4

LEMMA LeftEndsStep ==
    ASSUME M!ConstantsFit, MigrationsInv, M!LeftEnds
    PROVE  MigrationsInv' /\ (UNCHANGED <<schema, ledger>> \/ (lock = Left /\ M!ChangesBy(left.of)))
  <1>1. /\ M!TypeOK /\ M!LedgerIsTheSchema /\ left \in M!Start /\ left.of \in Instances
        /\ Holding(left, ledger, schema) /\ lock = Left
    BY DEF MigrationsInv, M!TypeOK, HeldByLeft, M!LeftEnds, M!Start
  <1>2. /\ schema' \in [Versions -> M!InSchema] /\ ledger' \in [Versions -> M!Recorded]
        /\ M!LedgerIsTheSchema'
        /\ UNCHANGED <<schema, ledger>> \/ M!ChangesBy(left.of)
    <2>1. CASE M!CutShort(left)
      BY <1>1, <2>1, CutShortKeeps DEF M!TypeOK
    <2>2. CASE \E v \in Versions :
                  M!IsNext(left, v) /\ ~M!Changed(left, v) /\ M!Statement(left, v)
      BY <1>1, <2>2, StatementChanges
    <2>. QED BY <2>1, <2>2 DEF M!LeftEnds
  <1>3. lock' = Nobody /\ UNCHANGED <<start, faults>> /\ left' \in M!Start
    BY <1>1, DownIsStart DEF M!LeftEnds
  <1>4. \A v \in Versions : ledger[v] # Absent => ledger'[v] = ledger[v]
    BY <1>2 DEF M!ChangesBy
  <1>5. Ready'
    <2>. SUFFICES ASSUME NEW q \in Instances, start[q].at = "ready", NEW v \in M!Carried(start[q])
                  PROVE  ledger'[v] = Carries[q][v]
      BY <1>3 DEF Ready
    <2>1. ledger[v] = Carries[q][v] /\ v \in Versions /\ Carries[q][v] # Absent
      BY DEF MigrationsInv, Ready, M!Carried, M!TypeOK
    <2>. QED BY <2>1, <1>4
  <1>6. MigrationsInv'
    BY <1>1, <1>2, <1>3, <1>5 DEF MigrationsInv, M!TypeOK, Fresh, HeldByOne, HeldByLeft
  <1>. QED BY <1>1, <1>2, <1>6

LEMMA MigrationsNext ==
    ASSUME M!ConstantsFit
    PROVE  MigrationsInv /\ [M!Next]_(M!vars) =>
               MigrationsInv' /\ (M!Changes \/ UNCHANGED <<schema, ledger>>)
  <1>. SUFFICES ASSUME MigrationsInv, [M!Next]_(M!vars)
                PROVE  MigrationsInv' /\ (M!Changes \/ UNCHANGED <<schema, ledger>>)
    OBVIOUS
  <1>1. CASE M!LeftEnds
    BY <1>1, LeftEndsStep DEF M!Changes
  <1>2. ASSUME NEW p \in Instances, M!Begin(p)
        PROVE  MigrationsInv' /\ UNCHANGED <<schema, ledger>>
    BY <1>2, BeginStep DEF M!Begin
  <1>3. ASSUME NEW p \in Instances, M!Step(p)
        PROVE  MigrationsInv' /\ (M!Changes \/ UNCHANGED <<schema, ledger>>)
    <2>1. CASE M!Take(p) BY <2>1, TakeStep DEF M!Take
    <2>2. CASE M!ReadLedger(p) BY <2>2, ReadLedgerStep DEF M!ReadLedger
    <2>3. CASE M!Work(p) BY <2>3, WorkStep DEF M!Changes
    <2>4. CASE M!Refuse(p) BY <2>4, RefuseStep DEF M!Refuse
    <2>5. CASE M!Finish(p) BY <2>5, FinishStep DEF M!Finish
    <2>6. CASE M!Unlock(p) BY <2>6, UnlockStep DEF M!Unlock
    <2>. QED BY <1>3, <2>1, <2>2, <2>3, <2>4, <2>5, <2>6 DEF M!Step
  <1>4. ASSUME NEW p \in Instances, M!Fall(p)
        PROVE  MigrationsInv' /\ (M!Changes \/ UNCHANGED <<schema, ledger>>)
    <2>1. CASE M!TimeOut(p) BY <2>1, TimeOutStep DEF M!TimeOut
    <2>2. CASE M!Fails(p) BY <2>2, FailsStep DEF M!Changes
    <2>3. CASE M!UnlockFails(p)
      <3>1. M!Fault \/ UNCHANGED faults
        BY <2>3 DEF M!UnlockFails
      <3>. QED BY <2>3, <3>1, OverStep DEF M!UnlockFails
    <2>4. CASE M!Crash(p) BY <2>4, OverStep DEF M!Crash
    <2>5. CASE M!SessionLost(p) BY <2>5, SessionLostStep DEF M!Changes
    <2>. QED BY <1>4, <2>1, <2>2, <2>3, <2>4, <2>5 DEF M!Fall
  <1>5. CASE UNCHANGED M!vars
    BY <1>5
       DEF M!vars, MigrationsInv, M!TypeOK, M!LedgerIsTheSchema, Fresh, Ready, HeldByOne, HeldByLeft
  <1>. QED BY <1>1, <1>2, <1>3, <1>4, <1>5 DEF M!Next

LEMMA MigrationsInvHolds ==
    ASSUME M!ConstantsFit
    PROVE  MigrationsInv => M!MigrationsHold
  <1>. SUFFICES ASSUME MigrationsInv PROVE M!MigrationsHold
    OBVIOUS
  <1>1. M!ServesItsSchema
    BY DEF MigrationsInv, M!TypeOK, Ready, M!Carried, M!LedgerIsTheSchema, M!ServesItsSchema
  <1>2. M!EndsInAgreement
    BY EndedWell DEF M!EndsInAgreement
  <1>. QED BY <1>1, <1>2 DEF MigrationsInv, M!MigrationsHold

\* However many starts of whatever builds interleave, and wherever one stops or its session
\* ends, the record tells what the database holds, and an instance serves over what it
\* carries (postgres/migrate.go).
THEOREM MigrationsAlwaysHold ==
    ASSUME M!ConstantsFit
    PROVE  M!Spec => []M!MigrationsHold
  <1>1. MigrationsInv /\ [M!Next]_(M!vars) => MigrationsInv'
    BY MigrationsNext
  <1>. QED BY <1>1, MigrationsInit, MigrationsInvHolds, PTL DEF M!Spec

\* Who changes the database is a build that carries all that is recorded in it, and what is
\* recorded is never touched again (refuseASchemaFromTheFuture, the checksums, the lock).
THEOREM ChangesAreKnown ==
    ASSUME M!ConstantsFit
    PROVE  M!Spec => M!KnowsWhatItChanges
  <1>1. MigrationsInv /\ [M!Next]_(M!vars) => MigrationsInv'
    BY MigrationsNext
  <1>2. MigrationsInv /\ [M!Next]_(M!vars) => [M!Changes]_<<schema, ledger>>
    BY MigrationsNext
  <1>. QED BY <1>1, <1>2, MigrationsInit, PTL DEF M!Spec, M!KnowsWhatItChanges

=======================================================================
