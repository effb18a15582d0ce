------------------------ MODULE WebhooksProofs ------------------------
(***************************************************************************)
(* Proofs about Webhooks, for any endpoints, events, workers and bounds.   *)
(***************************************************************************)
EXTENDS Webhooks, TLAPS

\* A limit that grows is still a limit.
LEMMA LessMore ==
  \A a, b, r, s \in Nat : a < b + r /\ r <= s => a < b + s
OBVIOUS

USE EventAssumptions, RoundAssumptions

-----------------------------------------------------------------------
\* The bounds are numbers, and events and tests are told apart.
LEMMA Bounds ==
  /\ MaxAttempts \in Nat /\ MaxAttempts > 0
  /\ Len(About) \in Nat
  /\ Events \subseteq Nat \ {0} /\ Tests \subseteq Nat
  /\ Events \cap Tests = {}
<1>1. Len(About) \in Nat
  OBVIOUS
<1> QED
  BY <1>1 DEF Events, Tests

\* What a pair is.
LEMMA Pairs ==
  /\ \A d \in Deliveries : d[1] \in Endpoints /\ d[2] \in Events \cup Tests
                           /\ d = <<d[1], d[2]>>
  /\ \A S \in SUBSET Endpoints : \A v \in Events :
        /\ S \X {v} \subseteq Deliveries
        /\ \A d \in Deliveries : d \in S \X {v} <=> d[1] \in S /\ d[2] = v
  BY DEF Deliveries

\* A row being expanded is in the outbox, and nobody else is expanding it.
Locks ==
    \A w \in Workers :
        round[w].phase = "inserting" =>
            /\ round[w].row \in outbox
            /\ \A v \in Workers \ {w} :
                  round[v].phase = "inserting" => round[v].row # round[w].row

Phases == {"idle", "expanding", "inserting", "sweeping", "reading", "sending"}

LEMMA NothingSentType == /\ NothingSent \in [Deliveries -> Sending]
                         /\ \A d \in Deliveries : NothingSent[d] = NotSending
                         /\ NotSending \in Sending
  BY DEF NothingSent, Sending, NotSending

LEMMA AtType ==
  ASSUME NEW ph \in Phases
  PROVE  /\ At(ph) \in Round
         /\ At(ph).phase = ph
         /\ At(ph).row = 0
         /\ At(ph).to = {}
         /\ At(ph).doomed = {}
         /\ At(ph).sends = NothingSent
  BY NothingSentType DEF At, NoRound, Round, Phases

LEMMA NoRoundType ==
  /\ NoRound \in Round
  /\ NoRound.phase = "idle"
  /\ NoRound.row = 0
  /\ NoRound.to = {}
  /\ NoRound.doomed = {}
  /\ NoRound.sends = NothingSent
  BY NothingSentType DEF NoRound, Round

\* A round with the send of d given up or over.
LEMMA LandedType ==
  ASSUME NEW r \in Round, NEW d \in Deliveries
  PROVE  /\ Landed(r, d) \in Round
         /\ \/ Landed(r, d) = NoRound
            \/ /\ Landed(r, d).phase = r.phase /\ Landed(r, d).row = r.row
               /\ Landed(r, d).doomed = r.doomed
         /\ Landed(r, d).sends[d] = NotSending
         /\ \A c \in Deliveries : Landed(r, d).sends[c] \in {NotSending, r.sends[c]}
<1> DEFINE sends == [r.sends EXCEPT ![d] = NotSending]
<1>1. /\ sends \in [Deliveries -> Sending]
      /\ sends[d] = NotSending
      /\ \A c \in Deliveries : sends[c] \in {NotSending, r.sends[c]}
  BY NothingSentType DEF Round
<1>2. CASE sends = NothingSent
  <2>1. Landed(r, d) = NoRound
    BY <1>2 DEF Landed
  <2> QED
    BY <2>1, NoRoundType, NothingSentType
<1>3. CASE sends # NothingSent
  <2>1. Landed(r, d) = [r EXCEPT !.sends = sends]
    BY <1>3 DEF Landed
  <2>2. /\ Landed(r, d) \in Round
        /\ Landed(r, d).phase = r.phase
        /\ Landed(r, d).row = r.row
        /\ Landed(r, d).doomed = r.doomed
        /\ Landed(r, d).sends = sends
    <3> HIDE DEF sends
    <3> QED
      BY <2>1, <1>1 DEF Round
  <2> QED
    BY <2>2, <1>1
<1> QED
  BY <1>2, <1>3

\* A round with an answer to d.
LEMMA AnsweredType ==
  ASSUME NEW r \in Round, NEW d \in Deliveries, NEW x \in {"ok", "bad"},
         NEW q, q = [r EXCEPT !.sends[d].at = x]
  PROVE  /\ q \in Round
         /\ q.phase = r.phase /\ q.row = r.row /\ q.doomed = r.doomed
         /\ q.sends[d].at = x /\ q.sends[d].attempts = r.sends[d].attempts
         /\ \A c \in Deliveries : c # d => q.sends[c] = r.sends[c]
<1> DEFINE sends == [r.sends EXCEPT ![d].at = x]
<1>1. /\ sends \in [Deliveries -> Sending]
      /\ sends[d].at = x /\ sends[d].attempts = r.sends[d].attempts
      /\ \A c \in Deliveries : c # d => sends[c] = r.sends[c]
  BY DEF Round, Sending
<1>2. [r EXCEPT !.sends[d].at = x] = [r EXCEPT !.sends = sends]
  BY DEF Round
<1> HIDE DEF sends
<1> QED
  BY <1>1, <1>2 DEF Round

\* What a send does to its round.
LEMMA SendMoves ==
  ASSUME round \in [Workers -> Round], NEW w \in Workers, NEW d \in Deliveries, Send(w, d)
  PROVE  \E r \in Round :
            /\ round' = [round EXCEPT ![w] = r]
            /\ r.phase = round[w].phase /\ r.row = round[w].row /\ r.doomed = round[w].doomed
            /\ r.sends[d].at \in {"ok", "bad"}
            /\ r.sends[d].at = "ok" => received' = received \cup {d}
            /\ r.sends[d].attempts = round[w].sends[d].attempts
            /\ \A c \in Deliveries : c # d => r.sends[c] = round[w].sends[c]
<1>1. ASSUME NEW x \in {"ok", "bad"}, round' = [round EXCEPT ![w].sends[d].at = x],
             x = "ok" => received' = received \cup {d}
      PROVE  \E r \in Round :
            /\ round' = [round EXCEPT ![w] = r]
            /\ r.phase = round[w].phase /\ r.row = round[w].row /\ r.doomed = round[w].doomed
            /\ r.sends[d].at \in {"ok", "bad"}
            /\ r.sends[d].at = "ok" => received' = received \cup {d}
            /\ r.sends[d].attempts = round[w].sends[d].attempts
            /\ \A c \in Deliveries : c # d => r.sends[c] = round[w].sends[c]
  <2> DEFINE r == [round[w] EXCEPT !.sends[d].at = x]
  <2>1. round[w] \in Round
    OBVIOUS
  <2>2. /\ r \in Round
        /\ r.phase = round[w].phase /\ r.row = round[w].row /\ r.doomed = round[w].doomed
        /\ r.sends[d].at = x /\ r.sends[d].attempts = round[w].sends[d].attempts
        /\ \A c \in Deliveries : c # d => r.sends[c] = round[w].sends[c]
    BY <2>1, AnsweredType
  <2>3. round' = [round EXCEPT ![w] = r]
    BY <1>1
  <2> HIDE DEF r
  <2> QED
    BY <1>1, <2>2, <2>3
<1> QED
  BY <1>1 DEF Send

LEMMA OutcomeType ==
  ASSUME NEW s \in Sending
  PROVE  /\ Outcome(s) \in {"pending", "delivered", "failed"}
         /\ Outcome(s) = "delivered" => s.at = "ok"
         /\ Outcome(s) = "pending" => s.attempts + 1 < MaxAttempts
  BY DEF Outcome, Sending

\* Two statements of every proof below: which steps there are.
LEMMA NextSteps ==
  ASSUME [Next]_vars
  PROVE  \/ Happen
         \/ Lapse
         \/ \E w \in Workers : Acquire(w)
         \/ \E w \in Workers : TakeRow(w)
         \/ \E w \in Workers : InsertDeliveries(w)
         \/ \E w \in Workers : SweepRead(w)
         \/ \E w \in Workers : SweepDelete(w)
         \/ \E w \in Workers : ReadDue(w)
         \/ \E w \in Workers, d \in Deliveries : Send(w, d)
         \/ \E w \in Workers, d \in Deliveries : Attempted(w, d)
         \/ \E w \in Workers, d \in Deliveries : LoseSend(w, d)
         \/ \E w \in Workers : Crash(w)
         \/ \E e \in Endpoints : Update(e)
         \/ \E e \in Endpoints : DeleteStrike(e)
         \/ \E e \in Endpoints : DeleteCommit(e)
         \/ \E e \in Endpoints : DeleteRollback(e)
         \/ \E d \in Deliveries : Elapse(d)
         \/ \E d \in Deliveries : Age(d)
         \/ \E d \in Deliveries : Test(d)
         \/ \E d \in Deliveries : Resend(d)
         \/ UNCHANGED vars
  BY DEF Next, Step, SendStep

\* What a step makes of the round of worker w: it goes on as it was, goes idle,
\* or one of the steps that begin something gave it a row, what to remove or
\* what to send.
Follows(w) ==
    /\ round'[w].phase # "idle" => round[w].phase # "idle" \/ Acquire(w)
    /\ round'[w].phase = "inserting" =>
          \/ round[w].phase = "inserting" /\ round'[w].row = round[w].row
          \/ TakeRow(w) /\ round'[w].row \in OldestOf(Unlocked)
    /\ round'[w].phase # "inserting" =>
          \/ round'[w].row = 0
          \/ round[w].phase # "inserting" /\ round'[w].row = round[w].row
    /\ round'[w].phase # "sending" =>
          \/ round[w].phase # "sending"
          \/ \A d \in Deliveries : round'[w].sends[d].at = "no"
    /\ round'[w].doomed \in {{}, round[w].doomed, Sweepable}
    /\ \A d \in Deliveries :
          \/ round'[w].sends[d].at = "no"
          \/ round'[w].sends[d] = round[w].sends[d]
          \/ /\ ReadDue(w) /\ d \in Ready /\ round'[w].phase = "sending"
             /\ round'[w].sends[d] = [at |-> "due", attempts |-> attempts[d]]
          \/ /\ Send(w, d)
             /\ round'[w].sends[d].attempts = round[w].sends[d].attempts
             /\ round'[w].sends[d].at = "ok" => received' = received \cup {d}

LEMMA RoundStep ==
  ASSUME TypeOK, [Next]_vars, NEW u \in Workers
  PROVE  Follows(u)
<1>0. round \in [Workers -> Round] /\ round[u] \in Round
  BY DEF TypeOK
<1>1. CASE round'[u] = round[u]
  BY <1>1 DEF Follows
<1>2. CASE round'[u] = NoRound
  BY <1>2, NoRoundType, NothingSentType DEF Follows, NotSending
<1>3. ASSUME NEW ph \in Phases \ {"inserting"}, round'[u] = At(ph),
             round[u].phase # "idle" \/ Acquire(u)
      PROVE  Follows(u)
  BY <1>3, AtType, NothingSentType DEF Follows, NotSending
<1>4. ASSUME NEW w \in Workers, Acquire(w) PROVE Follows(u)
  <2>1. w # u => round'[u] = round[u]
    BY <1>0, <1>4 DEF Acquire
  <2>2. w = u => round'[u] = At("expanding")
    BY <1>0, <1>4 DEF Acquire
  <2> QED
    BY <1>1, <1>3, <1>4, <2>1, <2>2 DEF Phases
<1>5. ASSUME NEW w \in Workers, TakeRow(w) PROVE Follows(u)
  <2>1. PICK v \in OldestOf(Unlocked) :
           round' = [round EXCEPT ![w] = [At("inserting") EXCEPT !.row = v, !.to = Receiving(v)]]
    BY <1>5 DEF TakeRow
  <2>2. /\ round'[w].phase = "inserting" /\ round'[w].row = v
        /\ round'[w].doomed = {} /\ round'[w].sends = NothingSent
    BY <1>0, <2>1, AtType DEF Round, Phases
  <2>3. round[w].phase # "idle"
    BY <1>5 DEF TakeRow
  <2>4. CASE w = u
    BY <1>5, <2>2, <2>3, <2>4, NothingSentType DEF Follows, NotSending
  <2>5. CASE w # u
    BY <1>0, <1>1, <2>1, <2>5
  <2> QED
    BY <2>4, <2>5
<1>6. ASSUME NEW w \in Workers, InsertDeliveries(w) PROVE Follows(u)
  <2>1. w # u => round'[u] = round[u]
    BY <1>0, <1>6 DEF InsertDeliveries
  <2>2. w = u => round'[u] = At("expanding") /\ round[u].phase # "idle"
    BY <1>0, <1>6 DEF InsertDeliveries
  <2> QED
    BY <1>1, <1>3, <2>1, <2>2 DEF Phases
<1>7. ASSUME NEW w \in Workers, SweepRead(w) PROVE Follows(u)
  <2>1. w # u => round'[u] = round[u]
    BY <1>0, <1>7 DEF SweepRead
  <2>2. CASE w = u /\ Sweepable = {}
    <3>1. round'[u] = At("reading") /\ round[u].phase # "idle"
      BY <1>0, <1>7, <2>2 DEF SweepRead
    <3> QED
      BY <1>3, <3>1 DEF Phases
  <2>3. CASE w = u /\ Sweepable # {}
    <3>1. round'[u] = [At("sweeping") EXCEPT !.doomed = Sweepable] /\ round[u].phase # "idle"
      BY <1>0, <1>7, <2>3 DEF SweepRead
    <3>2. /\ round'[u].phase = "sweeping" /\ round'[u].doomed = Sweepable
          /\ round'[u].row = 0
          /\ round'[u].sends = NothingSent
      BY <3>1, AtType DEF Round, Phases
    <3> QED
      BY <3>1, <3>2, NothingSentType DEF Follows, NotSending
  <2> QED
    BY <1>1, <2>1, <2>2, <2>3
<1>8. ASSUME NEW w \in Workers, SweepDelete(w) PROVE Follows(u)
  <2>1. w # u => round'[u] = round[u]
    BY <1>0, <1>8 DEF SweepDelete
  <2>2. w = u => round'[u] = At("reading") /\ round[u].phase # "idle"
    BY <1>0, <1>8 DEF SweepDelete
  <2> QED
    BY <1>1, <1>3, <2>1, <2>2 DEF Phases
<1>9. ASSUME NEW w \in Workers, ReadDue(w) PROVE Follows(u)
  <2>1. PICK ds \in SUBSET Ready :
           round' = [round EXCEPT ![w] =
                IF ds = {} THEN NoRound
                ELSE [At("sending") EXCEPT !.sends =
                        [d \in Deliveries |->
                            IF d \in ds THEN [at |-> "due", attempts |-> attempts[d]]
                                        ELSE NotSending]]]
    BY <1>9 DEF ReadDue
  <2>2. CASE w # u
    BY <1>0, <1>1, <2>1, <2>2
  <2>3. CASE w = u /\ ds = {}
    BY <1>0, <1>2, <2>1, <2>3
  <2>4. CASE w = u /\ ds # {}
    <3> DEFINE sends == [d \in Deliveries |->
                            IF d \in ds THEN [at |-> "due", attempts |-> attempts[d]]
                                        ELSE NotSending]
    <3>1. round'[u] = [At("sending") EXCEPT !.sends = sends]
      BY <1>0, <2>1, <2>4
    <3>2. \A d \in Deliveries :
             \/ sends[d].at = "no"
             \/ d \in Ready /\ sends[d] = [at |-> "due", attempts |-> attempts[d]]
      BY DEF NotSending
    <3>3. /\ round'[u].phase = "sending" /\ round'[u].doomed = {}
          /\ round'[u].row = 0
          /\ round'[u].sends = sends
      <4> HIDE DEF sends
      <4> QED
        BY <3>1, AtType DEF Round, Phases
    <3>4. round[u].phase # "idle"
      BY <1>9, <2>4 DEF ReadDue
    <3> HIDE DEF sends
    <3> QED
      BY <1>9, <2>4, <3>2, <3>3, <3>4 DEF Follows
  <2> QED
    BY <2>2, <2>3, <2>4
<1>10. ASSUME NEW w \in Workers, NEW d \in Deliveries, Send(w, d) PROVE Follows(u)
  <2>1. PICK r \in Round :
            /\ round' = [round EXCEPT ![w] = r]
            /\ r.phase = round[w].phase /\ r.row = round[w].row /\ r.doomed = round[w].doomed
            /\ r.sends[d].at \in {"ok", "bad"}
            /\ r.sends[d].at = "ok" => received' = received \cup {d}
            /\ r.sends[d].attempts = round[w].sends[d].attempts
            /\ \A c \in Deliveries : c # d => r.sends[c] = round[w].sends[c]
    BY <1>0, <1>10, SendMoves
  <2>2. CASE w # u
    BY <1>0, <1>1, <2>1, <2>2
  <2>3. CASE w = u
    <3>1. round'[u] = r
      BY <1>0, <2>1, <2>3
    <3> QED
      BY <1>10, <2>1, <2>3, <3>1 DEF Follows
  <2> QED
    BY <2>2, <2>3
<1>11. ASSUME NEW w \in Workers, NEW d \in Deliveries,
              round' = [round EXCEPT ![w] = Landed(@, d)]
       PROVE  Follows(u)
  <2>1. w # u => round'[u] = round[u]
    BY <1>0, <1>11
  <2>2. w = u => round'[u] = Landed(round[u], d)
    BY <1>0, <1>11
  <2>3. CASE w = u /\ round'[u] # NoRound
    BY <1>0, <2>2, <2>3, LandedType DEF Follows, NotSending
  <2> QED
    BY <1>1, <1>2, <2>1, <2>3
<1>12. ASSUME NEW w \in Workers, Crash(w) PROVE Follows(u)
  BY <1>0, <1>1, <1>2, <1>12 DEF Crash
<1>13. CASE UNCHANGED round
  BY <1>1, <1>13
<1>14. \/ Happen \/ Lapse
       \/ \E e \in Endpoints : \/ Update(e) \/ DeleteStrike(e)
                               \/ DeleteCommit(e) \/ DeleteRollback(e)
       \/ \E d \in Deliveries : Elapse(d) \/ Age(d) \/ Test(d) \/ Resend(d)
       \/ UNCHANGED vars
       => UNCHANGED round
  BY DEF Happen, Lapse, Update, DeleteStrike, DeleteCommit, DeleteRollback, Elapse, Age,
         Test, Resend, vars
<1>15. \A w \in Workers : \A d \in Deliveries :
          Attempted(w, d) \/ LoseSend(w, d) => round' = [round EXCEPT ![w] = Landed(@, d)]
  BY DEF Attempted, LoseSend
<1> QED
  BY <1>4, <1>5, <1>6, <1>7, <1>8, <1>9, <1>10, <1>11, <1>12, <1>13, <1>14, <1>15,
     NextSteps

\* The same of one delivery: how it can be in hand after a step.
LEMMA InHandStep ==
  ASSUME TypeOK, [Next]_vars, NEW w \in Workers, NEW d \in Deliveries,
         round'[w].sends[d].at # "no"
  PROVE  \/ round'[w].sends[d] = round[w].sends[d]
         \/ /\ ReadDue(w) /\ d \in Ready /\ round'[w].phase = "sending"
            /\ round'[w].sends[d].at = "due"
            /\ round'[w].sends[d].attempts = attempts[d]
         \/ /\ Send(w, d)
            /\ round[w].sends[d].at = "due"
            /\ round'[w].sends[d].attempts = round[w].sends[d].attempts
            /\ round'[w].sends[d].at = "ok" => received' = received \cup {d}
<1>1. Follows(w)
  BY RoundStep
<1>2. Send(w, d) => round[w].sends[d].at = "due"
  BY DEF Send
<1>3. \/ round'[w].sends[d] = round[w].sends[d]
      \/ /\ ReadDue(w) /\ d \in Ready /\ round'[w].phase = "sending"
         /\ round'[w].sends[d] = [at |-> "due", attempts |-> attempts[d]]
      \/ /\ Send(w, d)
         /\ round'[w].sends[d].attempts = round[w].sends[d].attempts
         /\ round'[w].sends[d].at = "ok" => received' = received \cup {d}
  BY <1>1, Zenon DEF Follows
<1>4. round'[w].sends[d] = [at |-> "due", attempts |-> attempts[d]] =>
         round'[w].sends[d].at = "due" /\ round'[w].sends[d].attempts = attempts[d]
  OBVIOUS
<1> QED
  BY <1>2, <1>3, <1>4, Zenon

LEMMA TypeInit == Init => TypeOK
  BY Bounds, NoRoundType DEF Init, TypeOK, Done

LEMMA TypeStep ==
  ASSUME TypeOK, Locks, [Next]_vars
  PROVE  TypeOK'
<1> USE Bounds DEF TypeOK, vars, queue, merchant, Done
<1>1. CASE Happen
  BY <1>1 DEF Happen, Events
<1>2. CASE Lapse
  BY <1>2 DEF Lapse
<1>3. ASSUME NEW w \in Workers, Acquire(w) PROVE TypeOK'
  BY <1>3, AtType DEF Acquire, Phases
<1>4. ASSUME NEW w \in Workers, TakeRow(w) PROVE TypeOK'
  <2>1. PICK v \in OldestOf(Unlocked) :
           round' = [round EXCEPT ![w] = [At("inserting") EXCEPT !.row = v, !.to = Receiving(v)]]
    BY <1>4 DEF TakeRow
  <2>2. v \in Nat /\ Receiving(v) \subseteq Endpoints
    BY DEF OldestOf, Unlocked, Receiving
  <2>3. [At("inserting") EXCEPT !.row = v, !.to = Receiving(v)] \in Round
    BY <2>2, AtType DEF Round, Phases
  <2> QED
    BY <1>4, <2>1, <2>3 DEF TakeRow
<1>5. ASSUME NEW w \in Workers, InsertDeliveries(w) PROVE TypeOK'
  <2> DEFINE new == round[w].to \X {round[w].row}
  <2>1. At("expanding") \in Round
    BY AtType DEF Phases
  <2>2. outbox' \subseteq Events
    BY <1>5 DEF InsertDeliveries, RowGone
  <2>3. /\ state' \in [Deliveries -> {"none", "pending", "swept"} \cup Done]
        /\ attempts' \in [Deliveries -> Nat]
        /\ seq' \in [Deliveries -> Nat]
        /\ made' \in [Deliveries -> Nat]
        /\ numbered' \in Nat
    BY <1>5 DEF InsertDeliveries
  <2>4. due' \subseteq Deliveries
    <3>1. round[w].row \in Events /\ round[w].to \in SUBSET Endpoints
      BY <1>5 DEF InsertDeliveries, Locks, Round
    <3>2. new \subseteq Deliveries
      BY <3>1, Pairs
    <3> QED
      BY <1>5, <3>2 DEF InsertDeliveries
  <2> QED
    BY <1>5, <2>1, <2>2, <2>3, <2>4 DEF InsertDeliveries
<1>6. ASSUME NEW w \in Workers, SweepRead(w) PROVE TypeOK'
  <2>1. [At("sweeping") EXCEPT !.doomed = Sweepable] \in Round
    BY AtType DEF Round, Phases, Sweepable
  <2> QED
    BY <1>6, <2>1, AtType DEF SweepRead, Phases
<1>7. ASSUME NEW w \in Workers, SweepDelete(w) PROVE TypeOK'
  BY <1>7, AtType DEF SweepDelete, Phases
<1>8. ASSUME NEW w \in Workers, ReadDue(w) PROVE TypeOK'
  <2>1. ASSUME NEW ds \in SUBSET Ready
        PROVE  [At("sending") EXCEPT !.sends =
                   [d \in Deliveries |->
                       IF d \in ds THEN [at |-> "due", attempts |-> attempts[d]]
                                   ELSE NotSending]] \in Round
    <3> DEFINE sends == [d \in Deliveries |->
                            IF d \in ds THEN [at |-> "due", attempts |-> attempts[d]]
                                        ELSE NotSending]
    <3>1. ASSUME NEW d \in Deliveries
          PROVE  [at |-> "due", attempts |-> attempts[d]] \in Sending /\ NotSending \in Sending
      BY DEF Sending, NotSending
    <3>2. sends \in [Deliveries -> Sending]
      BY <3>1
    <3>3. At("sending") \in Round
      BY AtType DEF Phases
    <3> HIDE DEF sends
    <3>4. [At("sending") EXCEPT !.sends = sends] \in Round
      BY <3>2, <3>3 DEF Round
    <3> QED
      BY <3>4 DEF sends
  <2>2. PICK r \in Round : round' = [round EXCEPT ![w] = r]
    BY <1>8, <2>1, NoRoundType DEF ReadDue
  <2>3. round' \in [Workers -> Round]
    BY <2>2
  <2>4. UNCHANGED <<happened, outbox, merchant, queue, holder, received>>
    BY <1>8 DEF ReadDue
  <2> QED
    BY <2>3, <2>4
<1>9. ASSUME NEW w \in Workers, NEW d \in Deliveries, Send(w, d) PROVE TypeOK'
  <2>1. PICK r \in Round : round' = [round EXCEPT ![w] = r]
    BY <1>9, SendMoves
  <2> QED
    BY <1>9, <2>1 DEF Send
<1>10. ASSUME NEW w \in Workers, NEW d \in Deliveries, Attempted(w, d) PROVE TypeOK'
  <2>1. round[w].sends[d] \in Sending
    BY DEF Round
  <2>2. /\ Outcome(round[w].sends[d]) \in {"pending", "delivered", "failed"}
        /\ round[w].sends[d].attempts + 1 \in Nat
    <3>1. round[w].sends[d].attempts \in Nat
      BY <2>1 DEF Sending
    <3>2. Outcome(round[w].sends[d]) \in {"pending", "delivered", "failed"}
      BY <2>1, OutcomeType, Zenon
    <3> DEFINE tried == round[w].sends[d].attempts
    <3>3. tried \in Nat
      BY <3>1
    <3> HIDE DEF tried
    <3>4. tried + 1 \in Nat
      BY <3>3
    <3> QED
      BY <3>2, <3>4, Zenon DEF tried
  <2>3. round' \in [Workers -> Round]
    BY <1>10, LandedType DEF Attempted
  <2> QED
    BY <1>10, <2>2, <2>3 DEF Attempted
<1>11. ASSUME NEW w \in Workers, NEW d \in Deliveries, LoseSend(w, d) PROVE TypeOK'
  BY <1>11, LandedType DEF LoseSend
<1>12. ASSUME NEW w \in Workers, Crash(w) PROVE TypeOK'
  BY <1>12, NoRoundType DEF Crash
<1>13. ASSUME NEW e \in Endpoints, Update(e) PROVE TypeOK'
  BY <1>13 DEF Update
<1>14. ASSUME NEW e \in Endpoints, DeleteStrike(e) PROVE TypeOK'
  <2>1. /\ closing' \subseteq Endpoints /\ changes' \in Nat
        /\ UNCHANGED <<happened, outbox, endpoint, queue, holder, round, received, resends>>
    BY <1>14 DEF DeleteStrike
  <2>2. struck' \subseteq Deliveries
    BY <1>14 DEF DeleteStrike, Pending
  <2> QED
    BY <2>1, <2>2
<1>15. ASSUME NEW e \in Endpoints, DeleteCommit(e) PROVE TypeOK'
  BY <1>15 DEF DeleteCommit
<1>16. ASSUME NEW e \in Endpoints, DeleteRollback(e) PROVE TypeOK'
  BY <1>16 DEF DeleteRollback
<1>17. ASSUME NEW d \in Deliveries, Elapse(d) PROVE TypeOK'
  <2>1. /\ due' \subseteq Deliveries
        /\ UNCHANGED <<happened, outbox, merchant, state, attempts, seq, numbered, aged, made,
                       ended, holder, round, received>>
    BY <1>17 DEF Elapse
  <2> QED
    BY <2>1
<1>18. ASSUME NEW d \in Deliveries, Age(d) PROVE TypeOK'
  <2>1. /\ aged' \subseteq Deliveries
        /\ UNCHANGED <<happened, outbox, merchant, state, attempts, due, seq, numbered, made,
                       ended, holder, round, received>>
    BY <1>18 DEF Age
  <2> QED
    BY <2>1
<1>19. ASSUME NEW d \in Deliveries, Test(d) PROVE TypeOK'
  <2>1. /\ state' = [state EXCEPT ![d] = "pending"] /\ due' = due \cup {d}
        /\ numbered' = numbered + 1 /\ seq' = [seq EXCEPT ![d] = numbered + 1]
        /\ made' = [made EXCEPT ![d] = 1]
        /\ UNCHANGED <<happened, outbox, merchant, attempts, aged, ended, holder, round, received>>
    BY <1>19 DEF Test
  <2>2. /\ state' \in [Deliveries -> {"none", "pending", "swept"} \cup Done]
        /\ due' \subseteq Deliveries
    BY <2>1
  <2>3. /\ numbered' \in Nat /\ seq' \in [Deliveries -> Nat]
        /\ made' \in [Deliveries -> Nat]
    BY <2>1
  <2> QED
    BY <2>1, <2>2, <2>3
<1>20. ASSUME NEW d \in Deliveries, Resend(d) PROVE TypeOK'
  <2>1. /\ state' = [state EXCEPT ![d] = "pending"] /\ due' = due \cup {d}
        /\ resends' = resends + 1
        /\ UNCHANGED <<happened, outbox, endpoint, closing, struck, attempts, seq, numbered, aged,
                       made, ended, holder, round, received, changes>>
    BY <1>20 DEF Resend
  <2>2. /\ state' \in [Deliveries -> {"none", "pending", "swept"} \cup Done]
        /\ due' \subseteq Deliveries
    BY <2>1
  <2>3. resends' \in Nat
    BY <2>1
  <2> QED
    BY <2>1, <2>2, <2>3
<1>21. CASE UNCHANGED vars
  BY <1>21
<1> QED
  BY <1>1, <1>2, <1>3, <1>4, <1>5, <1>6, <1>7, <1>8, <1>9, <1>10, <1>11, <1>12,
     <1>13, <1>14, <1>15, <1>16, <1>17, <1>18, <1>19, <1>20, <1>21, NextSteps

LEMMA LocksInit == Init => Locks
  BY NoRoundType DEF Init, Locks

LEMMA LocksStep ==
  ASSUME TypeOK, Locks, [Next]_vars
  PROVE  Locks'
<1> SUFFICES ASSUME NEW w \in Workers, round'[w].phase = "inserting"
             PROVE  /\ round'[w].row \in outbox'
                    /\ \A v \in Workers \ {w} :
                          round'[v].phase = "inserting" => round'[v].row # round'[w].row
  BY DEF Locks
<1>1. /\ round'[w].row \in outbox
      /\ \A v \in Workers \ {w} :
            round'[v].phase = "inserting" => round'[v].row # round'[w].row
  <2>1. CASE \E u \in Workers : TakeRow(u)
    <3>1. PICK u \in Workers : TakeRow(u)
      BY <2>1
    <3>2. \A v \in Workers \ {u} : round'[v] = round[v]
      BY <3>1 DEF TakeRow, TypeOK
    <3>3. /\ round'[u].row \in outbox
          /\ \A v \in Workers : round[v].row # round'[u].row
      <4>1. PICK v \in OldestOf(Unlocked) :
               round' = [round EXCEPT ![u] =
                           [At("inserting") EXCEPT !.row = v, !.to = Receiving(v)]]
        BY <3>1 DEF TakeRow
      <4>2. round'[u].row = v
        BY <4>1, AtType DEF TypeOK, Round, Phases
      <4> QED
        BY <4>2 DEF OldestOf, Unlocked
    <3> QED
      BY <3>2, <3>3 DEF Locks
  <2>2. CASE ~\E u \in Workers : TakeRow(u)
    BY <2>2, RoundStep DEF Follows, Locks
  <2> QED
    BY <2>1, <2>2
<1>2. ASSUME NEW u \in Workers, InsertDeliveries(u)
      PROVE  round'[w].row \in outbox'
  <2>1. round'[u].phase # "inserting"
    BY <1>2, AtType DEF InsertDeliveries, TypeOK, Phases
  <2>2. round'[w] = round[w]
    BY <1>2, <2>1 DEF InsertDeliveries, TypeOK
  <2> QED
    BY <1>1, <1>2, <2>1, <2>2 DEF InsertDeliveries, RowGone, Locks
<1>3. CASE outbox \subseteq outbox'
  BY <1>1, <1>3
<1>4. (\A u \in Workers : ~InsertDeliveries(u)) => outbox \subseteq outbox'
  BY NextSteps DEF Happen, Lapse, Acquire, TakeRow, SweepRead, SweepDelete, ReadDue, Send,
     Attempted, LoseSend, Crash, Update, DeleteStrike, DeleteCommit, DeleteRollback, Elapse,
     Age, Test, Resend, vars
<1> QED
  BY <1>1, <1>2, <1>3, <1>4

\* Every variable keeps its type.
THEOREM TypeCorrect == Spec => []TypeOK
<1>1. Init => TypeOK /\ Locks
  BY TypeInit, LocksInit
<1>2. TypeOK /\ Locks /\ [Next]_vars => (TypeOK /\ Locks)'
  BY TypeStep, LocksStep
<1> QED
  BY <1>1, <1>2, PTL DEF Spec

-----------------------------------------------------------------------
\* Which steps change what.
LEMMA Keeps ==
  ASSUME [Next]_vars
  PROVE
  /\ \/ UNCHANGED <<happened, outbox, made>>
     \/ Happen
     \/ \E w \in Workers : InsertDeliveries(w)
     \/ \E d \in Deliveries : Test(d)
  /\ \/ UNCHANGED <<made, state, attempts, resends, ended>>
     \/ \E w \in Workers : InsertDeliveries(w)
     \/ \E w \in Workers : SweepDelete(w)
     \/ \E w \in Workers, d \in Deliveries : Attempted(w, d)
     \/ \E e \in Endpoints : DeleteCommit(e)
     \/ \E d \in Deliveries : Test(d)
     \/ \E d \in Deliveries : Resend(d)
  /\ \/ UNCHANGED struck
     \/ \E e \in Endpoints : DeleteStrike(e)
     \/ \E e \in Endpoints : DeleteCommit(e)
     \/ \E e \in Endpoints : DeleteRollback(e)
  /\ \/ UNCHANGED <<seq, numbered>>
     \/ \E w \in Workers : InsertDeliveries(w)
     \/ \E d \in Deliveries : Test(d)
  /\ \/ UNCHANGED resends
     \/ \E d \in Deliveries : Resend(d)
  /\ \/ UNCHANGED received
     \/ \E w \in Workers, d \in Deliveries : Send(w, d)
  /\ \/ UNCHANGED endpoint
     \/ \E e \in Endpoints : Update(e)
     \/ \E e \in Endpoints : DeleteCommit(e)
<1>1. Happen => UNCHANGED <<made, state, attempts, seq, numbered, struck,
                         resends, received, ended, endpoint>>
  BY DEF Happen, queue, merchant
<1>2. Lapse => UNCHANGED <<happened, outbox, made, state, attempts, seq,
                         numbered, struck, resends, received, ended, endpoint>>
  BY DEF Lapse, queue, merchant
<1>3. ASSUME NEW w \in Workers, Acquire(w)
      PROVE  UNCHANGED <<happened, outbox, made, state, attempts, seq,
                         numbered, struck, resends, received, ended, endpoint>>
  BY <1>3 DEF Acquire, queue, merchant
<1>4. ASSUME NEW w \in Workers, TakeRow(w)
      PROVE  UNCHANGED <<happened, outbox, made, state, attempts, seq,
                         numbered, struck, resends, received, ended, endpoint>>
  BY <1>4 DEF TakeRow, queue, merchant
<1>5. ASSUME NEW w \in Workers, InsertDeliveries(w)
      PROVE  UNCHANGED <<happened, struck, resends, received, ended, endpoint>>
  BY <1>5 DEF InsertDeliveries, queue, merchant
<1>6. ASSUME NEW w \in Workers, SweepRead(w)
      PROVE  UNCHANGED <<happened, outbox, made, state, attempts, seq,
                         numbered, struck, resends, received, ended, endpoint>>
  BY <1>6 DEF SweepRead, queue, merchant
<1>7. ASSUME NEW w \in Workers, SweepDelete(w)
      PROVE  UNCHANGED <<happened, outbox, made, attempts, seq, numbered,
                         struck, resends, received, ended, endpoint>>
  BY <1>7 DEF SweepDelete, queue, merchant
<1>8. ASSUME NEW w \in Workers, ReadDue(w)
      PROVE  UNCHANGED <<happened, outbox, made, state, attempts, seq,
                         numbered, struck, resends, received, ended, endpoint>>
  BY <1>8 DEF ReadDue, queue, merchant
<1>9. ASSUME NEW w \in Workers, NEW d \in Deliveries, Send(w, d)
      PROVE  UNCHANGED <<happened, outbox, made, state, attempts, seq,
                         numbered, struck, resends, ended, endpoint>>
  BY <1>9 DEF Send, queue, merchant
<1>10. ASSUME NEW w \in Workers, NEW d \in Deliveries, Attempted(w, d)
      PROVE  UNCHANGED <<happened, outbox, made, seq, numbered, struck,
                         resends, received, endpoint>>
  BY <1>10 DEF Attempted, queue, merchant
<1>11. ASSUME NEW w \in Workers, NEW d \in Deliveries, LoseSend(w, d)
      PROVE  UNCHANGED <<happened, outbox, made, state, attempts, seq,
                         numbered, struck, resends, received, ended, endpoint>>
  BY <1>11 DEF LoseSend, queue, merchant
<1>12. ASSUME NEW w \in Workers, Crash(w)
      PROVE  UNCHANGED <<happened, outbox, made, state, attempts, seq,
                         numbered, struck, resends, received, ended, endpoint>>
  BY <1>12 DEF Crash, queue, merchant
<1>13. ASSUME NEW e \in Endpoints, Update(e)
      PROVE  UNCHANGED <<happened, outbox, made, state, attempts, seq,
                         numbered, struck, resends, received, ended>>
  BY <1>13 DEF Update, queue, merchant
<1>14. ASSUME NEW e \in Endpoints, DeleteStrike(e)
      PROVE  UNCHANGED <<happened, outbox, made, state, attempts, seq,
                         numbered, resends, received, ended, endpoint>>
  BY <1>14 DEF DeleteStrike, queue, merchant
<1>15. ASSUME NEW e \in Endpoints, DeleteCommit(e)
      PROVE  UNCHANGED <<happened, outbox, made, attempts, seq, numbered,
                         resends, received>>
  BY <1>15 DEF DeleteCommit, queue, merchant
<1>16. ASSUME NEW e \in Endpoints, DeleteRollback(e)
      PROVE  UNCHANGED <<happened, outbox, made, state, attempts, seq,
                         numbered, resends, received, ended, endpoint>>
  BY <1>16 DEF DeleteRollback, queue, merchant
<1>17. ASSUME NEW d \in Deliveries, Elapse(d)
      PROVE  UNCHANGED <<happened, outbox, made, state, attempts, seq,
                         numbered, struck, resends, received, ended, endpoint>>
  BY <1>17 DEF Elapse, queue, merchant
<1>18. ASSUME NEW d \in Deliveries, Age(d)
      PROVE  UNCHANGED <<happened, outbox, made, state, attempts, seq,
                         numbered, struck, resends, received, ended, endpoint>>
  BY <1>18 DEF Age, queue, merchant
<1>19. ASSUME NEW d \in Deliveries, Test(d)
      PROVE  UNCHANGED <<happened, outbox, attempts, struck, resends, received,
                         ended, endpoint>>
  BY <1>19 DEF Test, queue, merchant
<1>20. ASSUME NEW d \in Deliveries, Resend(d)
      PROVE  UNCHANGED <<happened, outbox, made, attempts, seq, numbered,
                         struck, received, ended, endpoint>>
  BY <1>20 DEF Resend, queue, merchant
<1>21. UNCHANGED vars => UNCHANGED <<happened, outbox, made, state, attempts, seq, numbered, struck, resends, received, ended, endpoint>>
  BY DEF vars, queue, merchant
<1> QED
  BY <1>1, <1>2, <1>3, <1>4, <1>5, <1>6, <1>7, <1>8, <1>9, <1>10, <1>11, <1>12, <1>13, <1>14, <1>15, <1>16, <1>17, <1>18, <1>19, <1>20, <1>21, NextSteps

(***************************************************************************)
(* What holds whether or not a round outlasts its lease.                   *)
(***************************************************************************)
\* A delivery that was made is of an event that has left the outbox.
Books ==
    /\ outbox \subseteq 1 .. happened
    /\ \A d \in Deliveries : d[2] \in Events /\ made[d] > 0 =>
          d[2] \notin outbox /\ d[2] <= happened
    /\ OneDelivery

LEMMA BooksInit == Init => Books
  BY DEF Init, Books, OneDelivery

LEMMA BooksStep ==
  ASSUME TypeOK, Locks, Books, [Next]_vars
  PROVE  Books'
<1>0. /\ happened \in Nat /\ made \in [Deliveries -> Nat] /\ round \in [Workers -> Round]
      /\ outbox \subseteq Events
  BY Bounds DEF TypeOK
<1>1. CASE Happen
  <2>1. happened' = happened + 1 /\ outbox' = outbox \cup {happened + 1} /\ made' = made
    BY <1>1 DEF Happen, queue
  <2>2. ASSUME NEW d \in Deliveries, d[2] \in Events, made'[d] > 0
        PROVE  d[2] \notin outbox' /\ d[2] <= happened'
    <3>1. d[2] \in Nat /\ d[2] \notin outbox /\ d[2] <= happened
      BY <2>1, <2>2, Bounds DEF Books
    <3> QED
      BY <1>0, <2>1, <3>1
  <2>3. outbox' \subseteq 1 .. happened'
    BY <1>0, <2>1 DEF Books
  <2> QED
    BY <2>1, <2>2, <2>3 DEF Books, OneDelivery
<1>2. ASSUME NEW w \in Workers, InsertDeliveries(w) PROVE Books'
  <2>1. /\ round[w].row \in outbox /\ round[w].row \in Events
        /\ round[w].to \in SUBSET Endpoints
    BY <1>0, <1>2 DEF InsertDeliveries, Locks, Round
  <2>2. made' = [d \in Deliveries |-> IF d \in round[w].to \X {round[w].row}
                                      THEN made[d] + 1 ELSE made[d]]
    BY <1>2 DEF InsertDeliveries
  <2>3. \A d \in Deliveries : d \in round[w].to \X {round[w].row} => d[2] = round[w].row
    BY <2>1, Pairs
  <2>4. \A d \in Deliveries : d[2] = round[w].row => made[d] = 0
    BY <1>0, <2>1 DEF Books
  <2>5. outbox' = outbox \ {round[w].row} /\ UNCHANGED happened
    BY <1>2 DEF InsertDeliveries, RowGone
  <2>6. \A d \in Deliveries : \/ made'[d] = made[d]
                              \/ d[2] = round[w].row /\ made'[d] = 1
    BY <1>0, <2>2, <2>3, <2>4
  <2>7. ASSUME NEW d \in Deliveries, d[2] \in Events, made'[d] > 0
        PROVE  d[2] \notin outbox' /\ d[2] <= happened'
    <3>1. CASE made'[d] = made[d]
      BY <2>5, <2>7, <3>1 DEF Books
    <3>2. CASE d[2] = round[w].row
      <4>1. round[w].row \in 1 .. happened
        BY <2>1 DEF Books
      <4> QED
        BY <1>0, <2>5, <3>2, <4>1
    <3> QED
      BY <2>6, <3>1, <3>2
  <2>8. outbox' \subseteq 1 .. happened'
    BY <2>5 DEF Books
  <2>9. \A d \in Deliveries : made'[d] <= 1
    BY <2>6 DEF Books, OneDelivery
  <2> QED
    BY <2>7, <2>8, <2>9 DEF Books, OneDelivery
<1>3. ASSUME NEW d \in Deliveries, Test(d) PROVE Books'
  <2>1. /\ d[2] \notin Events
        /\ made' = [made EXCEPT ![d] = 1] /\ UNCHANGED <<outbox, happened>>
    BY <1>3, Bounds DEF Test
  <2> QED
    BY <1>0, <2>1 DEF Books, OneDelivery
<1>4. CASE UNCHANGED <<happened, outbox, made>>
  BY <1>4 DEF Books, OneDelivery
<1> QED
  BY <1>1, <1>2, <1>3, <1>4, Keeps

\* Whatever is in hand, struck or received was made.
Known ==
    \A d \in Deliveries :
        /\ state[d] = "none" <=> made[d] = 0
        /\ d \in struck \cup received => state[d] # "none"
        /\ \A w \in Workers : /\ d \in round[w].doomed => state[d] # "none"
                              /\ round[w].sends[d].at # "no" => state[d] # "none"

LEMMA KnownInit == Init => Known
  BY NoRoundType, NothingSentType DEF Init, Known, NotSending

LEMMA KnownStep ==
  ASSUME TypeOK, Known, [Next]_vars
  PROVE  Known'
<1>0. /\ state \in [Deliveries -> {"none", "pending", "swept", "delivered", "failed"}]
      /\ made \in [Deliveries -> Nat] /\ round \in [Workers -> Round]
  BY DEF TypeOK, Done
<1>1. \A d \in Deliveries : /\ state'[d] = "none" <=> made'[d] = 0
                            /\ state[d] # "none" => state'[d] # "none"
  <2>1. ASSUME NEW w \in Workers, NEW d \in Deliveries, Attempted(w, d),
               NEW c \in Deliveries
        PROVE  (state'[c] = "none" <=> made'[c] = 0) /\ (state[c] # "none" => state'[c] # "none")
    <3>1. /\ state' = [state EXCEPT ![d] = Outcome(round[w].sends[d])] /\ made' = made
          /\ round[w].sends[d].at # "no"
      BY <2>1 DEF Attempted
    <3>2. Outcome(round[w].sends[d]) # "none"
      <4>1. round[w].sends[d] \in Sending
        BY <1>0 DEF Round
      <4>2. Outcome(round[w].sends[d]) \in {"pending", "delivered", "failed"}
        BY <4>1, OutcomeType, Zenon
      <4> QED
        BY <4>2
    <3>3. state[d] # "none" /\ made[d] # 0
      BY <3>1 DEF Known
    <3>4. /\ made'[c] = made[c] /\ (state[c] = "none" <=> made[c] = 0)
          /\ state'[c] = IF c = d THEN Outcome(round[w].sends[d]) ELSE state[c]
      BY <1>0, <3>1 DEF Known
    <3> QED
      BY <3>2, <3>3, <3>4
  <2>2. ASSUME NEW w \in Workers, InsertDeliveries(w), NEW c \in Deliveries
        PROVE  (state'[c] = "none" <=> made'[c] = 0) /\ (state[c] # "none" => state'[c] # "none")
    BY <1>0, <2>2 DEF InsertDeliveries, Known
  <2>3. ASSUME NEW w \in Workers, SweepDelete(w), NEW c \in Deliveries
        PROVE  (state'[c] = "none" <=> made'[c] = 0) /\ (state[c] # "none" => state'[c] # "none")
    BY <1>0, <2>3 DEF SweepDelete, Known
  <2>4. ASSUME NEW e \in Endpoints, DeleteCommit(e), NEW c \in Deliveries
        PROVE  (state'[c] = "none" <=> made'[c] = 0) /\ (state[c] # "none" => state'[c] # "none")
    BY <1>0, <2>4 DEF DeleteCommit, Known
  <2>5. ASSUME NEW d \in Deliveries, Test(d) \/ Resend(d), NEW c \in Deliveries
        PROVE  (state'[c] = "none" <=> made'[c] = 0) /\ (state[c] # "none" => state'[c] # "none")
    BY <1>0, <2>5 DEF Test, Resend, Known, Done
  <2>6. CASE UNCHANGED <<state, made>>
    BY <2>6 DEF Known
  <2> QED
    BY <2>1, <2>2, <2>3, <2>4, <2>5, <2>6, Keeps
<1>2. \A d \in Deliveries : d \in struck' => state[d] # "none"
  <2>1. ASSUME NEW e \in Endpoints, DeleteStrike(e)
        PROVE  \A d \in Deliveries : d \in struck' => state[d] # "none"
    BY <2>1 DEF DeleteStrike, Pending, Known
  <2>2. ASSUME NEW e \in Endpoints, DeleteCommit(e) \/ DeleteRollback(e)
        PROVE  \A d \in Deliveries : d \in struck' => state[d] # "none"
    BY <2>2 DEF DeleteCommit, DeleteRollback, Known
  <2> QED
    BY <2>1, <2>2, Keeps DEF Known
<1>3. \A d \in Deliveries : d \in received' => state[d] # "none"
  <2>1. ASSUME NEW w \in Workers, NEW d \in Deliveries, Send(w, d)
        PROVE  received' \subseteq received \cup {d} /\ state[d] # "none"
    BY <2>1 DEF Send, Known
  <2> QED
    BY <2>1, Keeps DEF Known
<1>4. ASSUME NEW w \in Workers, NEW d \in Deliveries
      PROVE  /\ d \in round'[w].doomed => state[d] # "none"
             /\ round'[w].sends[d].at # "no" => state[d] # "none"
  <2>1. round'[w].doomed \in {{}, round[w].doomed, Sweepable}
    BY RoundStep DEF Follows
  <2>2. d \in Sweepable \/ d \in Ready => state[d] # "none"
    BY DEF Sweepable, Ready, Done
  <2>3. d \in round'[w].doomed => state[d] # "none"
    BY <2>1, <2>2 DEF Known
  <2>4. round'[w].sends[d].at # "no" => state[d] # "none"
    BY <2>2, InHandStep DEF Known
  <2> QED
    BY <2>3, <2>4
<1> QED
  BY <1>1, <1>2, <1>3, <1>4 DEF Known

\* What a worker heard, and what a delivery's state says, has happened.
Heard ==
    /\ DeliveredArrived
    /\ \A d \in Deliveries :
          /\ state[d] \in Done => d \in ended
          /\ \A w \in Workers : round[w].sends[d].at = "ok" => d \in received

LEMMA HeardInit == Init => Heard
  BY NoRoundType, NothingSentType DEF Init, Heard, DeliveredArrived, NotSending, Done

LEMMA HeardStep ==
  ASSUME TypeOK, Heard, [Next]_vars
  PROVE  Heard'
<1>0. /\ state \in [Deliveries -> {"none", "pending", "swept", "delivered", "failed"}]
      /\ round \in [Workers -> Round]
  BY DEF TypeOK, Done
<1>1. received \subseteq received'
  <2>1. ASSUME NEW w \in Workers, NEW d \in Deliveries, Send(w, d)
        PROVE  received \subseteq received'
    BY <2>1 DEF Send
  <2> QED
    BY <2>1, Keeps
<1>2. ASSUME NEW w \in Workers, NEW d \in Deliveries, round'[w].sends[d].at = "ok"
      PROVE  d \in received'
  <2>1. round'[w].sends[d].at # "no"
    BY <1>2
  <2> QED
    BY <1>1, <1>2, <2>1, InHandStep DEF Heard
<1> DEFINE Told(c) == /\ state'[c] = "delivered" => c \in received'
                      /\ state'[c] \in Done => c \in ended'
<1>3. \A c \in Deliveries : state[c] = "delivered" => c \in received'
  BY <1>1 DEF Heard, DeliveredArrived
<1>4. ASSUME NEW w \in Workers, NEW d \in Deliveries, Attempted(w, d), NEW c \in Deliveries
      PROVE  Told(c)
  <2> DEFINE sent == round[w].sends[d]
  <2>1. /\ state' = [state EXCEPT ![d] = Outcome(sent)]
        /\ ended' = IF Outcome(sent) \in Done THEN ended \cup {d} ELSE ended
    BY <1>4 DEF Attempted
  <2>2. Outcome(sent) = "delivered" => d \in received'
    BY <1>0, <1>1, OutcomeType DEF Round, Heard
  <2> HIDE DEF sent
  <2> QED
    BY <1>0, <1>3, <2>1, <2>2 DEF Heard
<1>5. ASSUME NEW e \in Endpoints, DeleteCommit(e), NEW c \in Deliveries
      PROVE  Told(c)
  BY <1>0, <1>3, <1>5 DEF DeleteCommit, Heard, Done
<1>6. ASSUME ended' = ended,
             \A c \in Deliveries : state'[c] \in Done => state'[c] = state[c]
      PROVE  \A c \in Deliveries : Told(c)
  BY <1>3, <1>6 DEF Heard, Done
<1>7. ASSUME NEW w \in Workers, InsertDeliveries(w) \/ SweepDelete(w)
      PROVE  \A c \in Deliveries : Told(c)
  <2>1. ended' = ended /\ \A c \in Deliveries : state'[c] \in Done => state'[c] = state[c]
    BY <1>0, <1>7 DEF InsertDeliveries, SweepDelete, Done
  <2> QED
    BY <1>6, <2>1
<1>8. ASSUME NEW d \in Deliveries, Test(d) \/ Resend(d)
      PROVE  \A c \in Deliveries : Told(c)
  <2>1. ended' = ended /\ \A c \in Deliveries : state'[c] \in Done => state'[c] = state[c]
    BY <1>0, <1>8 DEF Test, Resend, Done
  <2> QED
    BY <1>6, <2>1
<1>9. ASSUME UNCHANGED <<state, ended>>
      PROVE  \A c \in Deliveries : Told(c)
  BY <1>6, <1>9
<1>10. \A c \in Deliveries : Told(c)
  BY <1>4, <1>5, <1>7, <1>8, <1>9, Keeps
<1> QED
  BY <1>2, <1>10 DEF Heard, DeliveredArrived

\* A delivery in hand has a try left.
Tries ==
    /\ TriesAreCounted
    /\ \A d \in Deliveries : made[d] = 0 => attempts[d] = 0
    /\ \A w \in Workers, d \in Deliveries :
          round[w].sends[d].at # "no" => round[w].sends[d].attempts < MaxAttempts + resends

LEMMA TriesInit == Init => Tries
  BY Bounds, NoRoundType, NothingSentType DEF Init, Tries, TriesAreCounted, NotSending

LEMMA TriesStep ==
  ASSUME TypeOK, Known, Tries, [Next]_vars
  PROVE  Tries'
<1>0. /\ state \in [Deliveries -> {"none", "pending", "swept", "delivered", "failed"}]
      /\ attempts \in [Deliveries -> Nat] /\ made \in [Deliveries -> Nat]
      /\ round \in [Workers -> Round] /\ resends \in Nat
  BY DEF TypeOK, Done
<1>1. resends' \in Nat /\ resends' >= resends
  <2>1. ASSUME NEW d \in Deliveries, Resend(d) PROVE resends' = resends + 1
    BY <2>1 DEF Resend
  <2>2. resends' = resends \/ resends' = resends + 1
    BY <2>1, Keeps, Zenon
  <2> QED
    BY <1>0, <2>2
<1>2. ASSUME NEW w \in Workers, NEW d \in Deliveries, round'[w].sends[d].at # "no"
      PROVE  round'[w].sends[d].attempts < MaxAttempts + resends'
  <2>1. round[w].sends[d].attempts \in Nat
    BY <1>0 DEF Round, Sending
  <2>2. CASE round[w].sends[d].at # "no" /\ round'[w].sends[d].attempts = round[w].sends[d].attempts
    <3> DEFINE tried == round[w].sends[d].attempts
    <3>1. /\ tried < MaxAttempts + resends /\ tried \in Nat
          /\ round'[w].sends[d].attempts = tried
      <4>1. round[w].sends[d].attempts < MaxAttempts + resends
        BY <2>2, Zenon DEF Tries
      <4> QED
        BY <2>1, <2>2, <4>1
    <3> HIDE DEF tried
    <3>2. MaxAttempts \in Nat /\ resends \in Nat
      BY <1>0, Bounds
    <3>3. tried < MaxAttempts + resends /\ tried \in Nat
      BY <3>1
    <3>4. resends' \in Nat /\ resends <= resends'
      BY <1>1, <3>2
    <3>5. tried < MaxAttempts + resends'
      BY <3>2, <3>3, <3>4, LessMore, Zenon
    <3> QED
      BY <3>1, <3>5
  <2>3. CASE d \in Ready /\ round'[w].sends[d].attempts = attempts[d]
    <3>1. attempts[d] < MaxAttempts + resends /\ attempts[d] \in Nat
      <4>1. d \in Deliveries /\ state[d] = "pending"
        BY <2>3 DEF Ready
      <4> QED
        BY <1>0, <4>1 DEF Tries, TriesAreCounted
    <3> QED
      BY <1>0, <1>1, <2>3, <3>1, Bounds
  <2> QED
    BY <1>2, <2>2, <2>3, InHandStep
<1> DEFINE Counted(c) == /\ attempts'[c] <= MaxAttempts + resends'
                         /\ state'[c] = "pending" => attempts'[c] < MaxAttempts + resends'
                         /\ made'[c] = 0 => attempts'[c] = 0
<1>3. ASSUME NEW c \in Deliveries, attempts'[c] = attempts[c],
             made'[c] = 0 => made[c] = 0,
             state'[c] = "pending" => state[c] = "pending" \/ resends' = resends + 1
      PROVE  Counted(c)
  <2>1. /\ attempts[c] <= MaxAttempts + resends
        /\ state[c] = "pending" => attempts[c] < MaxAttempts + resends
        /\ made[c] = 0 => attempts[c] = 0
    BY DEF Tries, TriesAreCounted
  <2>2. attempts[c] \in Nat /\ MaxAttempts \in Nat
    BY <1>0, Bounds
  <2> QED
    BY <1>0, <1>1, <1>3, <2>1, <2>2
<1>4. ASSUME NEW w \in Workers, NEW d \in Deliveries, Attempted(w, d), NEW c \in Deliveries
      PROVE  Counted(c)
  <2> DEFINE sent == round[w].sends[d]
  <2>1. /\ sent \in Sending
        /\ sent.attempts \in Nat
        /\ sent.attempts < MaxAttempts + resends
        /\ made[d] # 0
    <3>1. sent.at # "no"
      BY <1>4 DEF Attempted
    <3>2. sent \in Sending /\ sent.attempts \in Nat
      BY <1>0 DEF Round, Sending
    <3>3. sent.attempts < MaxAttempts + resends /\ made[d] # 0
      BY <3>1 DEF Tries, Known
    <3> QED
      BY <3>2, <3>3
  <2>2. /\ attempts' = [attempts EXCEPT ![d] = sent.attempts + 1]
        /\ state' = [state EXCEPT ![d] = Outcome(sent)]
        /\ resends' = resends /\ made' = made
    BY <1>4 DEF Attempted, merchant
  <2>3. Outcome(sent) = "pending" => sent.attempts + 1 < MaxAttempts
    BY <2>1, OutcomeType
  <2> HIDE DEF sent
  <2>4. CASE c = d
    BY <1>0, <2>1, <2>2, <2>3, <2>4, Bounds
  <2>5. CASE c # d
    BY <1>0, <1>3, <2>2, <2>5
  <2> QED
    BY <2>4, <2>5
<1>5. ASSUME NEW w \in Workers, InsertDeliveries(w), NEW c \in Deliveries
      PROVE  Counted(c)
  <2>1. \/ attempts'[c] = 0
        \/ attempts'[c] = attempts[c] /\ state'[c] = state[c] /\ made'[c] = made[c]
    BY <1>0, <1>5 DEF InsertDeliveries
  <2> QED
    BY <1>0, <1>1, <1>3, <2>1, Bounds
<1>6. ASSUME NEW w \in Workers, SweepDelete(w), NEW c \in Deliveries
      PROVE  Counted(c)
  <2>1. attempts'[c] = attempts[c] /\ state'[c] \in {"swept", state[c]} /\ made' = made
    BY <1>0, <1>6 DEF SweepDelete
  <2> QED
    BY <1>3, <2>1
<1>7. ASSUME NEW e \in Endpoints, DeleteCommit(e), NEW c \in Deliveries
      PROVE  Counted(c)
  <2>1. attempts'[c] = attempts[c] /\ state'[c] \in {"failed", state[c]} /\ made' = made
    BY <1>0, <1>7 DEF DeleteCommit
  <2> QED
    BY <1>3, <2>1
<1>8. ASSUME NEW d \in Deliveries, Resend(d), NEW c \in Deliveries
      PROVE  Counted(c)
  <2>1. attempts'[c] = attempts[c] /\ resends' = resends + 1 /\ made' = made
    BY <1>8 DEF Resend
  <2> QED
    BY <1>3, <2>1
<1>9. ASSUME NEW d \in Deliveries, Test(d), NEW c \in Deliveries
      PROVE  Counted(c)
  <2>1. /\ attempts' = attempts /\ made[d] = 0 /\ resends' = resends
        /\ made' = [made EXCEPT ![d] = 1] /\ state' = [state EXCEPT ![d] = "pending"]
    BY <1>9 DEF Test, merchant
  <2>2. CASE c = d
    BY <1>0, <2>1, <2>2, Bounds DEF Tries
  <2>3. CASE c # d
    BY <1>0, <1>3, <2>1, <2>3
  <2> QED
    BY <2>2, <2>3
<1>10. ASSUME UNCHANGED <<made, state, attempts, resends, ended>>, NEW c \in Deliveries
       PROVE  Counted(c)
  BY <1>3, <1>10
<1>11. \A c \in Deliveries : Counted(c)
  BY <1>4, <1>5, <1>6, <1>7, <1>8, <1>9, <1>10, Keeps
<1> QED
  BY <1>2, <1>11 DEF Tries, TriesAreCounted

-----------------------------------------------------------------------
\* The unconditional invariant, in one.
Always == TypeOK /\ Locks /\ Books /\ Known /\ Heard /\ Tries

\* What the theorems below are read off.
THEOREM AlwaysHolds == Spec => []Always
<1>1. Init => Always
  BY TypeInit, LocksInit, BooksInit, KnownInit, HeardInit, TriesInit DEF Always
<1>2. Always /\ [Next]_vars => Always'
  BY TypeStep, LocksStep, BooksStep, KnownStep, HeardStep, TriesStep DEF Always
<1> QED
  BY <1>1, <1>2, PTL DEF Spec

\* A row of the outbox is expanded once: for each endpoint, one delivery at
\* most, however many workers expand and however they stop (TakeRow, RowGone).
THEOREM EachEventOnce == Spec => []OneDelivery
<1>1. Always => OneDelivery
  BY DEF Always, Books
<1> QED
  BY <1>1, AlwaysHolds, PTL

\* What is called delivered has arrived (Attempted writes what Send heard).
THEOREM DeliveredHasArrived == Spec => []DeliveredArrived
<1>1. Always => DeliveredArrived
  BY DEF Always, Heard
<1> QED
  BY <1>1, AlwaysHolds, PTL

\* The attempts written stay within what NextAttempt allows, and a pending
\* delivery has one left, though rounds may overlap (Attempted, Resend).
THEOREM TriesCounted == Spec => []TriesAreCounted
<1>1. Always => TriesAreCounted
  BY DEF Always, Tries
<1> QED
  BY <1>1, AlwaysHolds, PTL

-----------------------------------------------------------------------
(***************************************************************************)
(* What holds while no round outlasts its lease.                           *)
(***************************************************************************)
\* Only the holder of the lease is in a round.
Lone ==
    \A w \in Workers :
        /\ round[w].phase # "idle" => holder = w
        /\ round[w].phase # "inserting" => round[w].row = 0
        /\ round[w].phase # "sending" => \A d \in Deliveries : round[w].sends[d].at = "no"

LEMMA LoneInit == Init => Lone
  BY NoRoundType, NothingSentType DEF Init, Lone, NotSending

LEMMA LoneStep ==
  ASSUME ~Overruns, TypeOK, Lone, [Next]_vars
  PROVE  Lone'
<1>0. round \in [Workers -> Round]
  BY DEF TypeOK
<1>1. ASSUME NEW w \in Workers, Acquire(w)
      PROVE  \A u \in Workers : round'[u].phase # "idle" => holder' = u
  <2>1. holder \in {Nobody, w} /\ holder' = w
    BY <1>1 DEF Acquire, Free
  <2>2. \A u \in Workers : u # w => round'[u] = round[u]
    BY <1>0, <1>1 DEF Acquire
  <2> QED
    BY <2>1, <2>2 DEF Lone
<1>2. ASSUME Lapse
      PROVE  \A u \in Workers : round'[u].phase # "idle" => holder' = u
  <2>1. round' = round /\ round[holder].phase = "idle"
    BY <1>2 DEF Lapse
  <2> QED
    BY <2>1 DEF Lone
<1>3. ASSUME holder' = holder, \A u \in Workers : ~Acquire(u)
      PROVE  \A u \in Workers : round'[u].phase # "idle" => holder' = u
  BY <1>3, RoundStep DEF Follows, Lone
<1>4. Lapse \/ (\E w \in Workers : Acquire(w)) \/ holder' = holder
  BY NextSteps DEF Happen, TakeRow, InsertDeliveries, SweepRead, SweepDelete, ReadDue, Send,
     Attempted, LoseSend, Crash, Update, DeleteStrike, DeleteCommit, DeleteRollback, Elapse,
     Age, Test, Resend, vars
<1>5. \A w \in Workers :
         /\ round'[w].phase # "inserting" => round'[w].row = 0
         /\ round'[w].phase # "sending" => \A d \in Deliveries : round'[w].sends[d].at = "no"
  <2> SUFFICES ASSUME NEW w \in Workers
               PROVE  /\ round'[w].phase # "inserting" => round'[w].row = 0
                      /\ round'[w].phase # "sending" =>
                            \A d \in Deliveries : round'[w].sends[d].at = "no"
    OBVIOUS
  <2>1. Follows(w)
    BY RoundStep
  <2>2. round'[w].phase # "inserting" => round'[w].row = 0
    BY <2>1 DEF Follows, Lone
  <2>3. ASSUME round'[w].phase # "sending", NEW d \in Deliveries,
               round'[w].sends[d].at # "no"
        PROVE  FALSE
    <3>1. round[w].phase # "sending"
      BY <2>1, <2>3 DEF Follows
    <3>2. round[w].sends[d].at = "no"
      BY <3>1 DEF Lone
    <3> QED
      BY <2>3, <3>2, InHandStep
  <2> QED
    BY <2>2, <2>3
<1> QED
  BY <1>1, <1>2, <1>3, <1>4, <1>5 DEF Lone

\* A send is of a delivery that is pending, or of an endpoint that is gone.
Sent ==
    \A w \in Workers, d \in Deliveries : round[w].sends[d].at # "no" =>
        state[d] = "pending" \/ endpoint[d[1]] = "deleted"

LEMMA SentInit == Init => Sent
  BY NoRoundType, NothingSentType DEF Init, Sent, NotSending

LEMMA SentStep ==
  ASSUME ~Overruns, TypeOK, Lone, Sent, [Next]_vars
  PROVE  Sent'
<1>0. /\ round \in [Workers -> Round] /\ endpoint \in [Endpoints -> {"on", "off", "deleted"}]
      /\ state \in [Deliveries -> {"none", "pending", "swept"} \cup Done]
  BY DEF TypeOK
<1> SUFFICES ASSUME NEW w \in Workers, NEW d \in Deliveries, round'[w].sends[d].at # "no"
             PROVE  state'[d] = "pending" \/ endpoint'[d[1]] = "deleted"
  BY DEF Sent
<1>1. state[d] = "pending" \/ endpoint[d[1]] = "deleted"
  BY InHandStep DEF Sent, Ready
<1>2. endpoint[d[1]] = "deleted" => endpoint'[d[1]] = "deleted"
  <2>1. ASSUME NEW e \in Endpoints, Update(e) \/ DeleteCommit(e)
        PROVE  endpoint[d[1]] = "deleted" => endpoint'[d[1]] = "deleted"
    BY <1>0, <2>1, Pairs DEF Update, DeleteCommit
  <2> QED
    BY <2>1, Keeps
<1>3. ASSUME state[d] = "pending"
      PROVE  state'[d] = "pending" \/ endpoint'[d[1]] = "deleted"
  <2>1. ASSUME NEW u \in Workers, NEW c \in Deliveries, Attempted(u, c)
        PROVE  state'[d] = "pending"
    <3>1. c # d
      <4>1. ASSUME c = d PROVE FALSE
        <5>1. round[u].sends[d].at # "no" /\ round' = [round EXCEPT ![u] = Landed(@, d)]
          BY <2>1, <4>1 DEF Attempted
        <5>2. round'[u].sends[d].at = "no"
          BY <1>0, <5>1, LandedType DEF NotSending
        <5>3. w # u /\ round'[w] = round[w]
          BY <1>0, <5>1, <5>2
        <5>4. round[w].phase = "sending" /\ round[u].phase = "sending"
          BY <5>1, <5>3 DEF Lone
        <5> QED
          BY <5>3, <5>4 DEF Lone
      <4> QED
        BY <4>1
    <3> QED
      BY <1>0, <1>3, <2>1, <3>1 DEF Attempted
  <2>2. ASSUME NEW u \in Workers, SweepDelete(u)
        PROVE  FALSE
    <3>1. round[u].phase = "sweeping"
      BY <2>2 DEF SweepDelete
    <3>2. holder = u
      BY <3>1 DEF Lone
    <3>3. \A v \in Workers : round[v].phase # "sending"
      BY <3>1, <3>2 DEF Lone
    <3>4. ~ReadDue(w) /\ ~Send(w, d)
      <4>1. ~ReadDue(w)
        BY <3>1, <3>2 DEF Lone, ReadDue
      <4>2. ~Send(w, d)
        BY <3>3 DEF Lone, Send
      <4> QED
        BY <4>1, <4>2
    <3> QED
      BY <3>3, <3>4, InHandStep DEF Lone
  <2>3. ASSUME NEW u \in Workers, InsertDeliveries(u)
        PROVE  state'[d] = "pending"
    BY <1>0, <1>3, <2>3 DEF InsertDeliveries
  <2>4. ASSUME NEW e \in Endpoints, DeleteCommit(e)
        PROVE  state'[d] = "pending" \/ endpoint'[d[1]] = "deleted"
    BY <1>0, <1>3, <2>4, Pairs DEF DeleteCommit
  <2>5. ASSUME NEW c \in Deliveries, Test(c) \/ Resend(c)
        PROVE  state'[d] = "pending"
    BY <1>0, <1>3, <2>5 DEF Test, Resend
  <2> QED
    BY <1>3, <2>1, <2>2, <2>3, <2>4, <2>5, Keeps
<1> QED
  BY <1>1, <1>2, <1>3

LEMMA SentByTheLoneWorker ==
  ASSUME Lone, Sent
  PROVE  SentByOne
<1>1. ASSUME NEW w \in Workers, NEW d \in Deliveries, round[w].sends[d].at # "no",
             NEW v \in Workers \ {w}
      PROVE  round[v].sends[d].at = "no"
  <2>1. round[w].phase # "idle" /\ holder = w
    BY <1>1 DEF Lone
  <2> QED
    BY <1>1, <2>1 DEF Lone
<1> QED
  BY <1>1 DEF Sent, SentByOne

\* The column's numbers follow the events: the oldest row of the outbox is the
\* next to be expanded.
Numbers ==
    /\ \A w \in Workers : round[w].phase = "inserting" =>
          \A v \in outbox : round[w].row <= v
    /\ \A d \in Deliveries : made[d] > 0 =>
          /\ seq[d] <= numbered
          /\ d[2] \in Events => \A v \in outbox : d[2] < v
    /\ \A c, d \in Deliveries :
          /\ {c[2], d[2]} \subseteq Events
          /\ c[1] = d[1] /\ c[2] < d[2]
          /\ made[c] > 0 /\ made[d] > 0
          => seq[c] < seq[d]

LEMMA NumbersInit == Init => Numbers
  BY NoRoundType DEF Init, Numbers

LEMMA NumbersStep ==
  ASSUME TypeOK, Locks, Books, Lone, Lone', Numbers, [Next]_vars
  PROVE  Numbers'
<1>0. /\ round \in [Workers -> Round] /\ outbox \subseteq Nat \ {0} /\ happened \in Nat
      /\ made \in [Deliveries -> Nat] /\ seq \in [Deliveries -> Nat] /\ numbered \in Nat
  BY Bounds DEF TypeOK
<1>1. \A w \in Workers : round'[w].phase = "inserting" =>
          \A v \in outbox' : round'[w].row <= v
  <2>1. ASSUME NEW w \in Workers, round'[w].phase = "inserting",
               NEW v \in outbox
        PROVE  round'[w].row <= v /\ round'[w].row \in outbox
    <3>1. CASE round[w].phase = "inserting" /\ round'[w].row = round[w].row
      BY <2>1, <3>1 DEF Numbers, Locks
    <3>2. CASE TakeRow(w) /\ round'[w].row \in OldestOf(Unlocked)
      <4>1. round[w].phase = "expanding"
        BY <3>2 DEF TakeRow
      <4>2. \A u \in Workers : round[u].phase # "inserting"
        BY <4>1 DEF Lone
      <4>3. Unlocked = outbox
        BY <1>0, <4>2 DEF Unlocked, Lone
      <4> QED
        BY <2>1, <3>2, <4>3 DEF OldestOf
    <3> QED
      BY <2>1, <3>1, <3>2, RoundStep DEF Follows
  <2>2. \A v \in outbox' : v \in outbox \/ v = happened + 1
    <3>1. ASSUME NEW u \in Workers, InsertDeliveries(u) PROVE outbox' \subseteq outbox
      BY <3>1 DEF InsertDeliveries, RowGone
    <3>2. Happen => outbox' = outbox \cup {happened + 1}
      BY DEF Happen
    <3>3. ASSUME NEW d \in Deliveries, Test(d) PROVE outbox' = outbox
      BY <3>3 DEF Test
    <3> QED
      BY <3>1, <3>2, <3>3, Keeps
  <2>3. ASSUME NEW w \in Workers, round'[w].phase = "inserting"
        PROVE  round'[w].row \in outbox
    BY <2>3, RoundStep DEF Follows, Locks, OldestOf, Unlocked
  <2>4. ASSUME NEW w \in Workers, round'[w].phase = "inserting", NEW v \in outbox'
        PROVE  round'[w].row <= v
    <3>1. CASE v \in outbox
      BY <2>1, <2>4, <3>1
    <3>2. CASE v = happened + 1
      <4>1. round'[w].row \in 1 .. happened
        BY <2>3, <2>4 DEF Books
      <4> QED
        BY <1>0, <3>2, <4>1
    <3> QED
      BY <2>2, <2>4, <3>1, <3>2
  <2> QED
    BY <2>4
<1>2. ASSUME NEW w \in Workers, InsertDeliveries(w)
      PROVE  Numbers'
  <2> DEFINE r == round[w].row
             new == round[w].to \X {r}
  <2>1. /\ r \in outbox /\ r \in Events
        /\ \A v \in outbox : r <= v
        /\ outbox' = outbox \ {r}
    BY <1>0, <1>2 DEF InsertDeliveries, Locks, Numbers, RowGone, TypeOK
  <2>2. \A d \in Deliveries : d \in new => d[2] = r
    BY <1>0, <2>1, Pairs DEF Round
  <2>3. /\ made' = [d \in Deliveries |-> IF d \in new THEN made[d] + 1 ELSE made[d]]
        /\ seq' = [d \in Deliveries |-> IF d \in new THEN numbered + 1 ELSE seq[d]]
        /\ numbered' = IF new = {} THEN numbered ELSE numbered + 1
    BY <1>2 DEF InsertDeliveries
  <2> HIDE DEF r, new
  <2>4. \A d \in Deliveries : \/ d \in new
                              \/ made'[d] = made[d] /\ seq'[d] = seq[d]
    BY <2>3
  <2>5. \A d \in Deliveries : d \in new =>
           seq'[d] = numbered + 1 /\ numbered' = numbered + 1
    BY <2>3
  <2>6. numbered' >= numbered
    BY <1>0, <2>3
  <2>7. ASSUME NEW d \in Deliveries, made'[d] > 0
        PROVE  /\ seq'[d] <= numbered'
               /\ d[2] \in Events => \A v \in outbox' : d[2] < v
    <3>1. CASE d \in new
      BY <1>0, <2>1, <2>2, <2>5, <3>1
    <3>2. CASE made'[d] = made[d] /\ seq'[d] = seq[d]
      BY <1>0, <2>1, <2>3, <2>6, <2>7, <3>2 DEF Numbers
    <3> QED
      BY <2>4, <3>1, <3>2
  <2>8. ASSUME NEW c \in Deliveries, NEW d \in Deliveries, {c[2], d[2]} \subseteq Events,
               c[1] = d[1], c[2] < d[2], made'[c] > 0, made'[d] > 0
        PROVE  seq'[c] < seq'[d]
    <3>0. c[2] \in Nat /\ d[2] \in Nat
      BY <2>8, Bounds
    <3>1. CASE c \in new
      <4>1. d \notin new
        BY <2>2, <2>8, <3>0, <3>1
      <4>2. d[2] < r
        BY <2>1, <2>4, <2>8, <4>1 DEF Numbers
      <4> QED
        BY <1>0, <2>1, <2>2, <2>8, <3>0, <3>1, <4>2
    <3>2. CASE c \notin new /\ d \in new
      <4>1. made[c] > 0 /\ seq'[c] = seq[c]
        BY <2>4, <2>8, <3>2
      <4>2. seq[c] <= numbered /\ seq[c] \in Nat /\ numbered \in Nat
        BY <1>0, <4>1 DEF Numbers
      <4>3. seq'[d] = numbered + 1
        BY <2>5, <3>2
      <4> QED
        BY <4>1, <4>2, <4>3
    <3>3. CASE c \notin new /\ d \notin new
      BY <2>4, <2>8, <3>3 DEF Numbers
    <3> QED
      BY <3>1, <3>2, <3>3
  <2> QED
    BY <1>1, <2>7, <2>8 DEF Numbers
<1>3. ASSUME NEW t \in Deliveries, Test(t)
      PROVE  Numbers'
  <2>1. /\ t[2] \notin Events /\ outbox' = outbox
        /\ made' = [made EXCEPT ![t] = 1]
        /\ numbered' = numbered + 1
        /\ seq' = [seq EXCEPT ![t] = numbered + 1]
    BY <1>3, Bounds DEF Test
  <2>2. \A d \in Deliveries : d[2] \in Events => made'[d] = made[d] /\ seq'[d] = seq[d]
    BY <1>0, <2>1
  <2>3. \A d \in Deliveries : made'[d] > 0 => seq'[d] <= numbered'
    BY <1>0, <2>1 DEF Numbers
  <2> QED
    BY <1>1, <2>1, <2>2, <2>3 DEF Numbers
<1>4. ASSUME Happen
      PROVE  Numbers'
  <2>1. /\ outbox' = outbox \cup {happened + 1}
        /\ UNCHANGED <<made, seq, numbered>>
    BY <1>4 DEF Happen, queue
  <2>2. ASSUME NEW d \in Deliveries, d[2] \in Events, made[d] > 0
        PROVE  d[2] < happened + 1
    <3>1. d[2] \in Nat /\ d[2] <= happened
      BY <2>2, Bounds DEF Books
    <3> QED
      BY <1>0, <3>1
  <2> QED
    BY <1>1, <2>1, <2>2 DEF Numbers
<1>5. ASSUME UNCHANGED <<outbox, made, seq, numbered>>
      PROVE  Numbers'
  BY <1>1, <1>5 DEF Numbers
<1> QED
  BY <1>2, <1>3, <1>4, <1>5, Keeps

\* A delivery on its way for the first time is behind none of its payment that
\* its receiver has, or is being sent.
Ordered ==
    \A c, d \in Deliveries :
        /\ {c[2], d[2]} \subseteq Events
        /\ Together(c, d) /\ c[2] < d[2]
        /\ d \in received \/ \E w \in Workers : round[w].sends[d].at # "no"
        /\ state[c] = "pending"
        => c \in ended

LEMMA OrderedInit == Init => Ordered
  BY DEF Init, Ordered

LEMMA OrderedStep ==
  ASSUME TypeOK, Books, Known, Heard, Numbers, Ordered, Locks, [Next]_vars
  PROVE  Ordered'
<1>0. /\ state \in [Deliveries -> {"none", "pending", "swept", "delivered", "failed"}]
      /\ made \in [Deliveries -> Nat] /\ round \in [Workers -> Round]
  BY DEF TypeOK, Done
<1> SUFFICES ASSUME NEW c \in Deliveries, NEW d \in Deliveries,
                    c[2] \in Events, d[2] \in Events, c[1] = d[1],
                    Together(c, d), c[2] < d[2],
                    d \in received' \/ \E w \in Workers : round'[w].sends[d].at # "no",
                    state'[c] = "pending"
             PROVE  c \in ended'
  BY DEF Ordered, Together
<1>1. ended \subseteq ended'
  <2>1. ASSUME NEW u \in Workers, NEW a \in Deliveries, Attempted(u, a)
        PROVE  ended \subseteq ended'
    BY <2>1 DEF Attempted
  <2>2. ASSUME NEW e \in Endpoints, DeleteCommit(e)
        PROVE  ended \subseteq ended'
    BY <2>2 DEF DeleteCommit
  <2>3. ASSUME NEW u \in Workers, InsertDeliveries(u) \/ SweepDelete(u)
        PROVE  ended' = ended
    BY <2>3 DEF InsertDeliveries, SweepDelete
  <2>4. ASSUME NEW a \in Deliveries, Test(a) \/ Resend(a)
        PROVE  ended' = ended
    BY <2>4 DEF Test, Resend
  <2> QED
    BY <2>1, <2>2, <2>3, <2>4, Keeps
<1>2. \/ d \in received
      \/ \E w \in Workers : round[w].sends[d].at # "no"
      \/ d \in Ready /\ \E w \in Workers : ReadDue(w)
  <2>1. d \in received' => d \in received \/ \E w \in Workers : round[w].sends[d].at # "no"
    <3>1. ASSUME NEW u \in Workers, NEW a \in Deliveries, Send(u, a)
          PROVE  received' \subseteq received \cup {a} /\ round[u].sends[a].at # "no"
      BY <3>1 DEF Send
    <3> QED
      BY <3>1, Keeps
  <2>2. ASSUME NEW w \in Workers, round'[w].sends[d].at # "no"
        PROVE  round[w].sends[d].at # "no" \/ (d \in Ready /\ ReadDue(w))
    <3>1. round'[w].sends[d] = round[w].sends[d] => round[w].sends[d].at # "no"
      BY <2>2
    <3> QED
      BY <2>2, <3>1, InHandStep
  <2> QED
    BY <2>1, <2>2
<1>3. ASSUME d \in Ready, NEW w \in Workers, ReadDue(w)
      PROVE  FALSE
  <2>1. state' = state
    BY <1>3 DEF ReadDue, queue
  <2>2. state[d] = "pending" /\ ~(seq[c] < seq[d])
    BY <1>3, <2>1 DEF Ready, Behind
  <2>3. made[c] > 0 /\ made[d] > 0
    BY <1>0, <2>1, <2>2 DEF Known
  <2> QED
    BY <2>2, <2>3 DEF Numbers
<1>4. ASSUME d \in received \/ \E w \in Workers : round[w].sends[d].at # "no"
      PROVE  c \in ended'
  <2>1. state[c] = "pending" => c \in ended
    BY <1>4 DEF Ordered
  <2>2. state[c] \in Done => c \in ended
    BY DEF Heard
  <2>3. state[d] # "none" /\ made[d] > 0
    BY <1>0, <1>4 DEF Known
  <2>4. ASSUME NEW w \in Workers, InsertDeliveries(w)
        PROVE  state'[c] = state[c]
    <3>1. CASE c \in round[w].to \X {round[w].row}
      <4>1. c[2] = round[w].row /\ round[w].row \in outbox
        BY <1>0, <2>4, <3>1 DEF InsertDeliveries, Locks
      <4>2. d[2] < c[2]
        BY <2>3, <4>1 DEF Numbers
      <4>3. c[2] \in Nat /\ d[2] \in Nat
        BY Bounds
      <4> QED
        BY <4>2, <4>3
    <3> QED
      BY <2>4, <3>1 DEF InsertDeliveries
  <2>5. ASSUME NEW w \in Workers, SweepDelete(w)
        PROVE  state'[c] = state[c]
    BY <1>0, <2>5 DEF SweepDelete
  <2>6. ASSUME NEW w \in Workers, NEW a \in Deliveries, Attempted(w, a)
        PROVE  state'[c] = state[c] \/ state[c] \in Done \cup {"pending"}
    <3>1. CASE a = c
      <4>1. state[c] # "swept" /\ round[w].sends[c].at # "no"
        BY <2>6, <3>1 DEF Attempted, Writable
      <4>2. state[c] # "none"
        BY <4>1 DEF Known
      <4> QED
        BY <1>0, <4>1, <4>2 DEF Done
    <3>2. CASE a # c
      BY <1>0, <2>6, <3>2 DEF Attempted
    <3> QED
      BY <3>1, <3>2
  <2>7. ASSUME NEW e \in Endpoints, DeleteCommit(e)
        PROVE  state'[c] = state[c]
    BY <1>0, <2>7 DEF DeleteCommit
  <2>8. ASSUME NEW a \in Deliveries, Test(a)
        PROVE  state'[c] = state[c]
    <3>1. a[2] \notin Events
      BY <2>8, Bounds DEF Test
    <3> QED
      BY <1>0, <2>8, <3>1 DEF Test
  <2>9. ASSUME NEW a \in Deliveries, Resend(a)
        PROVE  state'[c] = state[c] \/ state[c] \in Done
    BY <1>0, <2>9 DEF Resend
  <2> QED
    BY <1>1, <2>1, <2>2, <2>4, <2>5, <2>6, <2>7, <2>8, <2>9, Keeps DEF Done
<1> QED
  BY <1>2, <1>3, <1>4

-----------------------------------------------------------------------
\* Whoever overlaps with whom: types, receipts and the count of tries.
THEOREM DeliveriesAlwaysHold == Spec => []DeliveriesHold
<1>1. TypeOK /\ DeliveredArrived /\ TriesAreCounted => DeliveriesHold
  BY DEF DeliveriesHold
<1> QED
  BY <1>1, TypeCorrect, DeliveredHasArrived, TriesCounted, PTL

-----------------------------------------------------------------------
\* The invariant of a lease that is outlasted by no round.
Leased == Always /\ Lone /\ Sent /\ Numbers /\ Ordered

\* What the last two theorems are read off.
THEOREM LeasedHolds == ~Overruns => (Spec => []Leased)
<1> SUFFICES ASSUME ~Overruns PROVE Spec => []Leased
  OBVIOUS
<1>1. Init => Leased
  BY TypeInit, LocksInit, BooksInit, KnownInit, HeardInit, TriesInit, LoneInit, SentInit,
     NumbersInit, OrderedInit DEF Leased, Always
<1>2. Leased /\ [Next]_vars => Leased'
  BY TypeStep, LocksStep, BooksStep, KnownStep, HeardStep, TriesStep, LoneStep, SentStep,
     NumbersStep, OrderedStep DEF Leased, Always
<1> QED
  BY <1>1, <1>2, PTL DEF Spec

\* While no round outlasts its lease, one worker has a delivery in hand and the
\* delivery is pending: none is sent by two (Acquire, ReadDue).
THEOREM SentByOneWorker == ~Overruns => (Spec => []SentByOne)
<1>1. Leased => SentByOne
  BY SentByTheLoneWorker DEF Leased
<1> QED
  BY <1>1, LeasedHolds, PTL

\* While no round outlasts its lease, the events of a payment reach a receiver
\* in the order they happened, the first time each is on its way: the numbers
\* follow the outbox, and what is behind a pending number is not read (Due).
THEOREM EventsInOrder == ~Overruns => (Spec => []InOrder)
<1>1. Leased => InOrder
  BY DEF Leased, Ordered, InOrder
<1> QED
  BY <1>1, LeasedHolds, PTL

=======================================================================
