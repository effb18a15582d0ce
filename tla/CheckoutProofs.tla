------------------------ MODULE CheckoutProofs ------------------------
(***************************************************************************)
(* What the payer's page may be relied on for, whatever the tabs ask of it *)
(* at once, whatever lands on the payment meanwhile, and wherever a        *)
(* request breaks off: for any tabs, attempts, deadlines and restarts.     *)
(***************************************************************************)
EXTENDS Checkout, SequenceTheorems, TLAPS

\* What a request has read, against what the rows hold by now.  A payment that was seen to have
\* succeeded has, and its transfer is read after; nothing has been moved before the payment is
\* made payable or the first attempt retired; and the attempt to retire is live at the revision
\* it was read at, or has moved on.  Once it was counted, as long as it has not moved no other
\* was stored, and there is room for one more.
So(r, st, attempts) ==
    /\ r.status = "succeeded" =>
           /\ st = "succeeded"
           /\ r.at \notin {"lookup", "find", "matched"} => r.matched
    /\ r.moved => r.at \in Awaits \cup Issues
    /\ r.at \in Supersedes => r.reissue # 0
    /\ r.at \in {"supersede.count", "supersede.save"} =>
           /\ r.reissue \in 1 .. Len(attempts) /\ r.read.status \in Live
           /\ \/ attempts[r.reissue] = r.read
              \/ attempts[r.reissue].revision > r.read.revision
    /\ r.at = "supersede.save" =>
           /\ r.read.status = "issued"
           /\ attempts[r.reissue] = r.read => Len(attempts) < MaxAttempts

\* One attempt is live at a time, and when there can be no more, one is.
RowsSo ==
    /\ Len(attempt) <= MaxAttempts
    /\ \A i, j \in 1 .. Len(attempt) :
           attempt[i].status \in Live /\ attempt[j].status \in Live => i = j
    /\ Len(attempt) = MaxAttempts => \E i \in 1 .. Len(attempt) : attempt[i].status \in Live
    /\ \A i \in 1 .. Len(attempt) :
           attempt[i].status \in Live => attempt[i].revision <= MaxRevision
    /\ status = "succeeded" => matched # 0

RequestsSo == \A t \in Tabs : request[t] = NoRequest \/ So(request[t], status, attempt)

\* The inductive invariant.
Inv == TypeOK /\ RowsSo /\ RequestsSo

LEMMA InitInv == Init => Inv
  <1>. SUFFICES ASSUME Init PROVE Inv
    OBVIOUS
  <1>1. attempt = <<>> /\ attempt \in Seq(Attempt) /\ Len(attempt) = 0
    BY DEF Init
  <1>2. TypeOK
    BY <1>1, CheckoutAssumptions DEF Init, TypeOK, Statuses, Answers
  <1>3. RowsSo
    BY <1>1, CheckoutAssumptions DEF Init, RowsSo
  <1>. QED BY <1>2, <1>3 DEF Init, Inv, RequestsSo

\* The attempt that can be paid is one of those there are, or there is none.
LEMMA LiveIs ==
  /\ LiveAttempt # 0 => LiveAttempt \in 1 .. Len(attempt) /\ attempt[LiveAttempt].status \in Live
  /\ LiveAttempt = 0 => \A i \in 1 .. Len(attempt) : attempt[i].status \notin Live
  <1>. DEFINE live == {i \in 1 .. Len(attempt) : attempt[i].status \in Live}
  <1>1. CASE live = {}
    BY <1>1 DEF LiveAttempt
  <1>2. CASE live # {}
    <2>1. LiveAttempt = CHOOSE i \in live : TRUE
      BY <1>2 DEF LiveAttempt
    <2>2. LiveAttempt \in live
      <3>. HIDE DEF live
      <3>. QED BY <1>2, <2>1
    <2>3. 0 \notin live
      OBVIOUS
    <2>. QED BY <2>2, <2>3
  <1>. QED BY <1>1, <1>2

-----------------------------------------------------------------------
(***************************************************************************)
(* Steps that leave the rows as they are.                                  *)
(***************************************************************************)
Typed(r) == r \in Request \cup {NoRequest}

LEMMA RequestStep ==
  ASSUME Inv, NEW t \in Tabs, NEW r, Typed(r), r = NoRequest \/ So(r, status, attempt),
         request' = [request EXCEPT ![t] = r], told' \in [Tabs -> Answers], Quiet
  PROVE  Inv'
  <1>1. UNCHANGED <<now, key, watched, status, closed, attempt, matched>>
    BY DEF Quiet, deployment, rows
  <1>2. request \in [Tabs -> Request \cup {NoRequest}]
    BY DEF Inv, TypeOK
  <1>3. /\ request' \in [Tabs -> Request \cup {NoRequest}]
        /\ \A u \in Tabs : request'[u] = NoRequest \/ So(request'[u], status, attempt)
    BY <1>2 DEF Typed, Inv, RequestsSo
  <1>4. TypeOK'
    BY <1>1, <1>3 DEF Inv, TypeOK
  <1>5. RowsSo'
    BY <1>1 DEF Inv, RowsSo
  <1>6. RequestsSo'
    BY <1>1, <1>3 DEF RequestsSo, So
  <1>. QED BY <1>4, <1>5, <1>6 DEF Inv

\* A request that is at a call is one.
LEMMA AtCall ==
  ASSUME Inv, NEW t \in Tabs, NEW call, At(t, call), call # "idle"
  PROVE  request[t] \in Request /\ So(request[t], status, attempt) /\ request[t].at = call
  <1>1. request[t] # NoRequest
    BY DEF At, NoRequest
  <1>. QED BY <1>1 DEF At, Inv, TypeOK, RequestsSo

LEMMA AnswerStep ==
  ASSUME Inv, NEW t \in Tabs, NEW word \in Answers, Answer(t, word), Quiet
  PROVE  Inv'
  <1>1. told' \in [Tabs -> Answers]
    BY DEF Answer, Inv, TypeOK
  <1>. QED BY <1>1, RequestStep DEF Answer, Typed

\* It goes on to another call, of the reads or after them.
LEMMA OntoStep ==
  ASSUME Inv, NEW t \in Tabs, NEW call, NEW on, At(t, call), call # "idle", on \in Calls,
         Onto(t, on), Quiet,
         on \in {"lookup", "find", "matched"} => call \in {"lookup", "find", "matched"},
         call \in {"lookup", "find", "matched"} => on \in {"lookup", "find", "matched"},
         on \in Awaits \cup Issues \/ call \notin Awaits \cup Issues,
         on \in Supersedes => request[t].reissue # 0,
         on = "supersede.count" => call = "supersede.count",
         on = "supersede.save" =>
             /\ call = "supersede.count" /\ request[t].read.status = "issued"
             /\ Len(attempt) < MaxAttempts
  PROVE  Inv'
  <1>. DEFINE r == request[t]
              s == [r EXCEPT !.at = on]
  <1>1. r \in Request /\ So(r, status, attempt) /\ r.at = call
    BY AtCall
  <1>2. /\ s \in Request /\ s.at = on /\ s.status = r.status /\ s.matched = r.matched
        /\ s.moved = r.moved /\ s.reissue = r.reissue /\ s.read = r.read
    BY <1>1 DEF Request
  <1>3. request' = [request EXCEPT ![t] = s] /\ told' \in [Tabs -> Answers]
    BY DEF Onto, Inv, TypeOK
  <1>. HIDE DEF s
  <1>4. So(s, status, attempt)
    BY <1>1, <1>2 DEF So
  <1>. QED BY <1>2, <1>3, <1>4, RequestStep DEF Typed

\* It keeps what it read.
LEMMA KeepsIs ==
  ASSUME Inv, NEW t \in Tabs, NEW field, NEW value, NEW call, Keeps(t, field, value, call)
  PROVE  /\ request' = [request EXCEPT ![t] = [[request[t] EXCEPT !.at = call] EXCEPT ![field] = value]]
         /\ told' \in [Tabs -> Answers]
  <1>1. request \in [Tabs -> Request \cup {NoRequest}] /\ told \in [Tabs -> Answers]
    BY DEF Inv, TypeOK
  <1>. QED BY <1>1 DEF Keeps

\* The reads, in their order.
LEMMA ReadStep ==
  ASSUME Inv, NEW t \in Tabs, Find(t) \/ Matched(t) \/ Watched(t) \/ ReadLive(t)
  PROVE  Inv'
  <1>. DEFINE r == request[t]
  <1>1. ASSUME NEW field \in {"status", "matched", "watched", "live"}, NEW value, NEW call, NEW on,
               At(t, call), call \in Reads, on \in Reads, Keeps(t, field, value, on), Quiet,
               field = "status" => value = status /\ on = "matched",
               field = "matched" => value = (matched # 0),
               field = "watched" => value = watched,
               field = "live" => value = LiveAttempt,
               field # "status" => on \notin {"lookup", "find", "matched"},
               field \in {"watched", "live"} => call \notin {"lookup", "find", "matched"}
        PROVE  Inv'
    <2>. DEFINE s == [[r EXCEPT !.at = on] EXCEPT ![field] = value]
    <2>1. r \in Request /\ So(r, status, attempt) /\ r.at = call
      BY <1>1, AtCall DEF Reads
    <2>2. request' = [request EXCEPT ![t] = s] /\ told' \in [Tabs -> Answers]
      BY <1>1, KeepsIs
    <2>3. on \in Calls
      BY <1>1 DEF Calls
    <2>4. LiveAttempt \in 0 .. MaxAttempts
      <3>1. Len(attempt) \in Nat /\ Len(attempt) <= MaxAttempts
        BY DEF Inv, TypeOK, RowsSo
      <3>. QED BY <3>1, LiveIs, CheckoutAssumptions
    <2>5. s \in Request /\ s.at = on /\ s.moved = r.moved /\ s.reissue = r.reissue
      <3>1. CASE field = "status"
        BY <1>1, <2>1, <2>3, <3>1 DEF Request, Inv, TypeOK
      <3>2. CASE field = "matched"
        <4>1. value \in BOOLEAN
          BY <1>1, <3>2
        <4>. QED BY <1>1, <2>1, <2>3, <3>2, <4>1 DEF Request
      <3>3. CASE field = "watched"
        BY <1>1, <2>1, <2>3, <3>3 DEF Request, Inv, TypeOK
      <3>4. CASE field = "live"
        BY <1>1, <2>1, <2>3, <2>4, <3>4 DEF Request
      <3>. QED BY <1>1, <3>1, <3>2, <3>3, <3>4
    <2>6. s.status = "succeeded" => status = "succeeded" /\ (on # "matched" => s.matched)
      <3>1. CASE field = "status"
        BY <1>1, <2>1, <3>1 DEF Request
      <3>2. CASE field = "matched"
        <4>1. s.matched = (matched # 0) /\ s.status = r.status
          BY <1>1, <2>1, <3>2 DEF Request
        <4>. QED BY <2>1, <4>1 DEF So, Inv, RowsSo
      <3>3. CASE field \in {"watched", "live"}
        <4>1. s.matched = r.matched /\ s.status = r.status
          BY <2>1, <3>3 DEF Request
        <4>. QED BY <1>1, <2>1, <3>3, <4>1 DEF So
      <3>. QED BY <1>1, <3>1, <3>2, <3>3
    <2>. HIDE DEF s
    <2>7. So(s, status, attempt)
      BY <1>1, <2>1, <2>5, <2>6 DEF So, Reads, Supersedes, Awaits, Issues
    <2>. QED BY <1>1, <2>2, <2>5, <2>7, RequestStep DEF Typed
  <1>2. CASE Find(t)
    BY <1>1, <1>2 DEF Find, Reads
  <1>3. CASE Matched(t)
    BY <1>1, <1>3 DEF Matched, MatchedOf, Reads
  <1>4. CASE Watched(t)
    BY <1>1, <1>4 DEF Watched, Reads
  <1>5. CASE ReadLive(t)
    BY <1>1, <1>5 DEF ReadLive, Reads
  <1>. QED BY <1>2, <1>3, <1>4, <1>5

LEMMA AskStep ==
  ASSUME Inv, NEW t \in Tabs, Asks(t)
  PROVE  Inv'
  <1>1. PICK wants \in {"state", "attempt"}, i \in {0} \cup 1 .. Len(attempt) : Ask(t, wants, i)
    BY DEF Asks
  <1>. DEFINE r == [at |-> "lookup", wants |-> wants, reissue |-> i, status |-> "created",
                    matched |-> FALSE, watched |-> FALSE, live |-> 0, read |-> NoAttempt,
                    moved |-> FALSE]
  <1>2. Len(attempt) \in Nat /\ Len(attempt) <= MaxAttempts
    BY DEF Inv, TypeOK, RowsSo
  <1>3. i \in 0 .. MaxAttempts /\ 0 \in 0 .. MaxAttempts
    BY <1>2, CheckoutAssumptions
  <1>4. r \in Request
    BY <1>3 DEF Request, Calls, Reads, Statuses
  <1>5. So(r, status, attempt)
    BY DEF So, Supersedes
  <1>6. /\ request' = [request EXCEPT ![t] = r] /\ Quiet
        /\ told' \in [Tabs -> Answers]
    BY <1>1 DEF Ask, Quiet, Inv, TypeOK, Answers
  <1>. HIDE DEF r
  <1>. QED BY <1>4, <1>5, <1>6, RequestStep DEF Typed

LEMMA CountStep ==
  ASSUME Inv, NEW t \in Tabs, Lookup(t) \/ Count(t)
  PROVE  Inv'
  <1>1. CASE Lookup(t)
    <2>1. CASE Onto(t, "find")
      BY <1>1, <2>1, OntoStep DEF Lookup, Calls, Reads, Awaits, Issues, Supersedes
    <2>2. CASE Answer(t, "refused")
      BY <1>1, <2>2, AnswerStep DEF Lookup, Answers
    <2>. QED BY <1>1, <2>1, <2>2 DEF Lookup
  <1>2. CASE Count(t)
    <2>1. ASSUME NEW word \in {"shown", "refused", "given"}, Answer(t, word)
          PROVE  Inv'
      BY <1>2, <2>1, AnswerStep DEF Count, Answers
    <2>2. CASE Onto(t, Onwards(request[t]))
      <3>. DEFINE on == Onwards(request[t])
      <3>1. /\ on \in {"supersede.find", "await.find", "issue.find"}
            /\ on = "supersede.find" => request[t].reissue # 0
        BY DEF Onwards
      <3>2. Onto(t, on) /\ At(t, "attempted") /\ Quiet
        BY <1>2, <2>2 DEF Count
      <3>. HIDE DEF on
      <3>. QED BY <3>1, <3>2, OntoStep DEF Calls, Reads, Awaits, Issues, Supersedes
    <2>. QED BY <1>2, <2>1, <2>2 DEF Count
  <1>. QED BY <1>1, <1>2

\* Await, Issue and the reads of Supersede that move nothing.
LEMMA FindsStep ==
  ASSUME Inv, NEW t \in Tabs,
         \/ SupersedeFind(t) \/ AwaitFind(t) \/ IssueFind(t) \/ IssueLive(t) \/ IssueHas(t)
         \/ AnswerLive(t) \/ Fails(t)
  PROVE  Inv'
  <1>1. ASSUME NEW word \in {"failed", "dropped", "again", "given", "broken"}, Answer(t, word), Quiet
        PROVE  Inv'
    BY <1>1, AnswerStep DEF Answers
  <1>2. ASSUME At(t, "supersede.find"), Onto(t, "supersede.live"), Quiet
        PROVE  Inv'
    <2>1. request[t].reissue # 0
      BY <1>2, AtCall DEF So, Supersedes
    <2>. QED BY <1>2, <2>1, OntoStep DEF Calls, Reads, Awaits, Issues, Supersedes
  <1>3. ASSUME NEW call, NEW on, At(t, call), Onto(t, on), Quiet,
               call \in Awaits \cup Issues, on \in Awaits \cup Issues
        PROVE  Inv'
    BY <1>3, OntoStep DEF Calls, Reads, Awaits, Issues, Supersedes
  <1>. QED BY <1>1, <1>2, <1>3 DEF SupersedeFind, AwaitFind, IssueFind, IssueLive, IssueHas,
              AnswerLive, Fails, Lost, Awaits, Issues

LEMMA SupersedeLiveStep ==
  ASSUME Inv, NEW t \in Tabs, SupersedeLive(t)
  PROVE  Inv'
  <1>. DEFINE r == request[t]
  <1>1. r \in Request /\ So(r, status, attempt) /\ r.at = "supersede.live" /\ Quiet
        /\ At(t, "supersede.live")
    BY AtCall DEF SupersedeLive
  <1>2. CASE LiveAttempt # r.reissue
    BY <1>1, <1>2, OntoStep DEF SupersedeLive, Calls, Reads, Awaits, Issues, Supersedes
  <1>3. CASE LiveAttempt = r.reissue
    <2>. DEFINE read == attempt[LiveAttempt]
                s == [[r EXCEPT !.at = "supersede.count"] EXCEPT !["read"] = read]
    <2>1. r.reissue # 0
      BY <1>1 DEF So, Supersedes
    <2>2. r.reissue \in 1 .. Len(attempt) /\ attempt[r.reissue].status \in Live
      BY <1>3, <2>1, LiveIs
    <2>3. read \in Attempt
      BY <1>3, <2>2 DEF Inv, TypeOK
    <2>4. request' = [request EXCEPT ![t] = s] /\ told' \in [Tabs -> Answers]
      BY <1>3, KeepsIs DEF SupersedeLive
    <2>5. /\ s \in Request /\ s.at = "supersede.count" /\ s.status = r.status /\ s.read = read
          /\ s.matched = r.matched /\ s.moved = r.moved /\ s.reissue = r.reissue
      <3>1. "supersede.count" \in Calls
        BY DEF Calls, Supersedes
      <3>. HIDE DEF read
      <3>. QED BY <1>1, <2>3, <3>1 DEF Request
    <2>. HIDE DEF s
    <2>6. So(s, status, attempt)
      BY <1>1, <1>3, <2>1, <2>2, <2>5 DEF So, Awaits, Issues
    <2>. QED BY <1>1, <2>4, <2>5, <2>6, RequestStep DEF Typed
  <1>. QED BY <1>2, <1>3

LEMMA SupersedeCountStep ==
  ASSUME Inv, NEW t \in Tabs, SupersedeCount(t)
  PROVE  Inv'
  <1>1. At(t, "supersede.count") /\ Quiet
    BY DEF SupersedeCount
  <1>2. ASSUME NEW word \in {"refused", "failed"}, Answer(t, word)
        PROVE  Inv'
    BY <1>1, <1>2, AnswerStep DEF Answers
  <1>3. CASE /\ ~(Len(attempt) >= MaxAttempts) /\ ~(request[t].read.status # "issued")
             /\ Onto(t, "supersede.save")
    <2>1. request[t].reissue # 0
      BY <1>1, AtCall DEF So, Supersedes
    <2>2. Len(attempt) < MaxAttempts
      BY <1>3, CheckoutAssumptions DEF Inv, TypeOK
    <2>. QED BY <1>1, <1>3, <2>1, <2>2, OntoStep DEF Calls, Reads, Awaits, Issues, Supersedes
  <1>. QED BY <1>2, <1>3 DEF SupersedeCount

-----------------------------------------------------------------------
(***************************************************************************)
(* Steps that write the rows.                                              *)
(***************************************************************************)
\* The rows go on: a payment that succeeded stays so, an attempt keeps what it is or its
\* revision moves on, and one is stored only where none is live.
GoesOn ==
    /\ status = "succeeded" => status' = "succeeded"
    /\ Len(attempt') \in Nat /\ Len(attempt') >= Len(attempt)
    /\ \A i \in 1 .. Len(attempt) : \/ attempt'[i] = attempt[i]
                                    \/ attempt'[i].revision > attempt[i].revision
    /\ \A i \in 1 .. Len(attempt) : attempt'[i].revision \in Nat
    /\ Len(attempt') # Len(attempt) => \A i \in 1 .. Len(attempt) : attempt[i].status \notin Live

\* What requests have read stays true of it.
LEMMA RequestsGoOn ==
  ASSUME Inv, GoesOn, NEW t \in Tabs, request[t] # NoRequest
  PROVE  So(request[t], status', attempt')
  <1>. DEFINE r == request[t]
  <1>1. r \in Request /\ So(r, status, attempt)
    BY DEF Inv, TypeOK, RequestsSo
  <1>2. Len(attempt) \in Nat /\ \A i \in 1 .. Len(attempt) : attempt[i] \in Attempt
    BY DEF Inv, TypeOK
  <1>3. ASSUME r.at \in {"supersede.count", "supersede.save"}
        PROVE  /\ r.reissue \in 1 .. Len(attempt') /\ r.read.status \in Live
               /\ \/ attempt'[r.reissue] = r.read
                  \/ attempt'[r.reissue].revision > r.read.revision
               /\ attempt'[r.reissue] = r.read => attempt[r.reissue] = r.read
    <2>1. /\ r.reissue \in 1 .. Len(attempt) /\ r.read.status \in Live
          /\ \/ attempt[r.reissue] = r.read
             \/ attempt[r.reissue].revision > r.read.revision
      BY <1>1, <1>3 DEF So
    <2>2. r.reissue \in 1 .. Len(attempt')
      BY <1>2, <2>1 DEF GoesOn
    <2>3. r.read \in Attempt
      BY <1>1, <2>1 DEF Request, NoAttempt, Live
    <2>4. r.read.revision \in Int /\ attempt[r.reissue].revision \in Int
          /\ attempt'[r.reissue].revision \in Int
      BY <1>2, <2>1, <2>3, CheckoutAssumptions DEF Attempt, GoesOn
    <2>5. \/ attempt'[r.reissue] = attempt[r.reissue]
          \/ attempt'[r.reissue].revision > attempt[r.reissue].revision
      BY <2>1 DEF GoesOn
    <2>. DEFINE a == attempt[r.reissue]
                b == attempt'[r.reissue]
                c == r.read
    <2>6. (a = c \/ a.revision > c.revision) /\ (b = a \/ b.revision > a.revision)
      BY <2>1, <2>5
    <2>7. a.revision \in Int /\ b.revision \in Int /\ c.revision \in Int
      BY <2>4
    <2>. HIDE DEF a, b, c
    <2>8. (b = c \/ b.revision > c.revision) /\ (b = c => a = c)
      BY <2>6, <2>7
    <2>. QED BY <2>1, <2>2, <2>8 DEF a, b, c
  <1>4. ASSUME r.at = "supersede.save"
        PROVE  r.read.status = "issued" /\ (attempt'[r.reissue] = r.read => Len(attempt') < MaxAttempts)
    <2>1. r.read.status = "issued" /\ r.reissue \in 1 .. Len(attempt)
      BY <1>1, <1>4 DEF So
    <2>2. ASSUME attempt'[r.reissue] = r.read
          PROVE  Len(attempt') < MaxAttempts
      <3>1. attempt[r.reissue] = r.read
        BY <1>3, <1>4, <2>2
      <3>2. Len(attempt) < MaxAttempts
        BY <1>1, <1>4, <3>1 DEF So
      <3>3. attempt[r.reissue].status \in Live
        BY <2>1, <3>1 DEF Live
      <3>4. Len(attempt') = Len(attempt)
        BY <2>1, <3>3 DEF GoesOn
      <3>. QED BY <3>2, <3>4
    <2>. QED BY <2>1, <2>2
  <1>. QED BY <1>1, <1>3, <1>4 DEF So, GoesOn

\* A step that writes the rows, and of the request of t at the most.
LEMMA WriteStep ==
  ASSUME Inv, RowsSo', GoesOn, UNCHANGED <<key, watched>>, now' \in 0 .. Horizon,
         status' \in Statuses, closed' \in -1 .. Horizon, attempt' \in Seq(Attempt),
         matched' \in 0 .. Len(attempt'), told' \in [Tabs -> Answers],
         \/ request' = request
         \/ \E t \in Tabs : \E r : /\ Typed(r)
                                   /\ r = NoRequest \/ So(r, status', attempt')
                                   /\ request' = [request EXCEPT ![t] = r]
  PROVE  Inv'
  <1>1. request \in [Tabs -> Request \cup {NoRequest}]
    BY DEF Inv, TypeOK
  <1>2. /\ request' \in [Tabs -> Request \cup {NoRequest}]
        /\ \A u \in Tabs : request'[u] = NoRequest \/ So(request'[u], status', attempt')
    <2>1. \A u \in Tabs : request[u] = NoRequest \/ So(request[u], status', attempt')
      BY RequestsGoOn
    <2>2. CASE request' = request
      BY <1>1, <2>1, <2>2
    <2>3. ASSUME NEW t \in Tabs, NEW r, Typed(r), r = NoRequest \/ So(r, status', attempt'),
                 request' = [request EXCEPT ![t] = r]
          PROVE  /\ request' \in [Tabs -> Request \cup {NoRequest}]
                 /\ \A u \in Tabs : request'[u] = NoRequest \/ So(request'[u], status', attempt')
      BY <1>1, <2>1, <2>3 DEF Typed
    <2>. QED BY <2>2, <2>3
  <1>3. TypeOK'
    BY <1>2 DEF Inv, TypeOK
  <1>4. RequestsSo'
    BY <1>2 DEF RequestsSo
  <1>. QED BY <1>3, <1>4 DEF Inv

LEMMA AttemptIs ==
  ASSUME Inv
  PROVE  /\ Len(attempt) \in Nat
         /\ \A i \in 1 .. Len(attempt) : /\ attempt[i] \in Attempt
                                        /\ attempt[i].revision \in Nat
  <1>1. attempt \in Seq(Attempt)
    BY DEF Inv, TypeOK
  <1>2. \A a \in Attempt : a.revision \in Nat
    BY CheckoutAssumptions DEF Attempt
  <1>. QED BY <1>1, <1>2

\* Attempt i moves on to s.
LEMMA MovedIs ==
  ASSUME Inv, NEW i \in 1 .. Len(attempt), NEW s \in {"issued", "confirming", "superseded"},
         attempt[i].revision <= MaxRevision, attempt' = Moved(i, s)
  PROVE  /\ attempt' \in Seq(Attempt) /\ Len(attempt') = Len(attempt)
         /\ attempt'[i] = [status |-> s, revision |-> attempt[i].revision + 1]
         /\ \A j \in 1 .. Len(attempt) : j # i => attempt'[j] = attempt[j]
         /\ \A j \in 1 .. Len(attempt) : attempt'[j].revision \in Nat
         /\ \A j \in 1 .. Len(attempt) : \/ attempt'[j] = attempt[j]
                                         \/ attempt'[j].revision > attempt[j].revision
  <1>. DEFINE a == [status |-> s, revision |-> attempt[i].revision + 1]
  <1>1. attempt \in Seq(Attempt) /\ attempt' = [attempt EXCEPT ![i] = a]
    BY DEF Moved, Inv, TypeOK
  <1>2. attempt[i] \in Attempt /\ \A j \in 1 .. Len(attempt) : attempt[j].revision \in Nat
    BY AttemptIs
  <1>3. a \in Attempt /\ a.revision \in Nat /\ a.revision > attempt[i].revision
    BY <1>2, CheckoutAssumptions DEF Attempt
  <1>. HIDE DEF a
  <1>4. attempt' \in Seq(Attempt) /\ Len(attempt') = Len(attempt)
        /\ \A j \in 1 .. Len(attempt) : attempt'[j] = IF j = i THEN a ELSE attempt[j]
    BY <1>1, <1>3, ExceptSeq
  <1>. QED BY <1>2, <1>3, <1>4 DEF a

LEMMA RowsMoved ==
  ASSUME Inv, NEW i \in 1 .. Len(attempt), NEW s \in {"issued", "confirming", "superseded"},
         attempt[i].status \in Live, attempt' = Moved(i, s),
         \/ s \in Live /\ attempt[i].revision < MaxRevision
         \/ s = "superseded" /\ Len(attempt) < MaxAttempts,
         status' = "succeeded" => matched' # 0
  PROVE  RowsSo'
  <1>1. attempt[i] \in Attempt /\ attempt[i].revision \in Nat
    BY AttemptIs
  <1>2. attempt[i].revision <= MaxRevision
    BY DEF Inv, RowsSo
  <1>3. /\ Len(attempt') = Len(attempt)
        /\ attempt'[i].status = s /\ attempt'[i].revision = attempt[i].revision + 1
        /\ \A j \in 1 .. Len(attempt) : j # i => attempt'[j] = attempt[j]
    <2>. DEFINE a == [status |-> s, revision |-> attempt[i].revision + 1]
    <2>1. /\ Len(attempt') = Len(attempt) /\ attempt'[i] = a
          /\ \A j \in 1 .. Len(attempt) : j # i => attempt'[j] = attempt[j]
      BY <1>2, MovedIs
    <2>. QED BY <2>1
  <1>4. \A j, k \in 1 .. Len(attempt) :
            attempt'[j].status \in Live /\ attempt'[k].status \in Live => j = k
    BY <1>3 DEF Inv, RowsSo
  <1>5. Len(attempt) = MaxAttempts =>
            \E j \in 1 .. Len(attempt) : attempt'[j].status \in Live
    <2>1. Len(attempt) = MaxAttempts => s \in Live
      BY CheckoutAssumptions
    <2>. QED BY <1>3, <2>1
  <1>6. ASSUME NEW j \in 1 .. Len(attempt), attempt'[j].status \in Live
        PROVE  attempt'[j].revision <= MaxRevision
    <2>1. CASE j = i
      <3>1. attempt[i].revision < MaxRevision
        BY <1>3, <1>6, <2>1 DEF Live
      <3>. QED BY <1>1, <1>3, <2>1, <3>1, CheckoutAssumptions
    <2>2. CASE j # i
      BY <1>3, <1>6, <2>2 DEF Inv, RowsSo
    <2>. QED BY <2>1, <2>2
  <1>. QED BY <1>3, <1>4, <1>5, <1>6 DEF Inv, RowsSo

\* What happens around the page.
LEMMA AroundStep ==
  ASSUME Inv, Around
  PROVE  Inv'
  <1>. DEFINE Types == /\ now \in 0 .. Horizon /\ status \in Statuses /\ closed \in -1 .. Horizon
                       /\ attempt \in Seq(Attempt) /\ matched \in 0 .. Len(attempt)
                       /\ Len(attempt) \in Nat /\ told \in [Tabs -> Answers]
  <1>1. Types /\ Horizon \in Nat
    BY AttemptIs, CheckoutAssumptions DEF Inv, TypeOK
  <1>2. UNCHANGED <<request, told>>
    BY DEF Around
  <1>3. UNCHANGED attempt => /\ Len(attempt') \in Nat /\ Len(attempt') = Len(attempt)
                             /\ \A i \in 1 .. Len(attempt) : attempt'[i] = attempt[i]
                             /\ \A i \in 1 .. Len(attempt) : attempt'[i].revision \in Nat
    BY AttemptIs
  <1>4. CASE Tick \/ Reading
    <2>1. /\ UNCHANGED <<key, status, closed, attempt, matched>> /\ now' \in 0 .. Horizon
      BY <1>1, <1>4 DEF Tick, Reading, rows
    <2>2. RowsSo' /\ RequestsSo'
      BY <1>2, <2>1 DEF Inv, RowsSo, RequestsSo, So
    <2>3. watched' \in BOOLEAN
      BY <1>4 DEF Tick, Reading, Inv, TypeOK
    <2>. QED BY <1>1, <1>2, <2>1, <2>2, <2>3 DEF Inv, TypeOK
  <1>5. CASE Overdue \/ Ends
    <2>1. UNCHANGED <<now, key, watched, attempt, matched>>
      BY <1>5 DEF Overdue, Ends, deployment
    <2>2. /\ status' \in Statuses /\ closed' \in -1 .. Horizon
          /\ status = "succeeded" => FALSE
          /\ status' = "succeeded" => matched # 0
      BY <1>1, <1>5 DEF Overdue, Ends, CanBecome, Moves, Statuses
    <2>3. RowsSo'
      BY <2>1, <2>2 DEF Inv, RowsSo
    <2>4. GoesOn
      BY <1>1, <1>3, <2>1, <2>2 DEF GoesOn
    <2>. QED BY <1>1, <1>2, <2>1, <2>2, <2>3, <2>4, WriteStep
  <1>6. ASSUME NEW i \in 1 .. Len(attempt), NEW s \in {"issued", "confirming"},
               attempt[i].status \in Live, attempt[i].revision < MaxRevision,
               attempt' = Moved(i, s), matched' \in 0 .. Len(attempt),
               UNCHANGED <<deployment, status, closed>>,
               status = "succeeded" => matched' # 0
        PROVE  Inv'
    <2>1. attempt[i].revision <= MaxRevision
      BY <1>6 DEF Inv, RowsSo
    <2>2. /\ attempt' \in Seq(Attempt) /\ Len(attempt') = Len(attempt)
          /\ \A j \in 1 .. Len(attempt) : attempt'[j].revision \in Nat
          /\ \A j \in 1 .. Len(attempt) : \/ attempt'[j] = attempt[j]
                                          \/ attempt'[j].revision > attempt[j].revision
      BY <1>6, <2>1, MovedIs
    <2>3. RowsSo'
      BY <1>6, RowsMoved DEF Live
    <2>4. GoesOn
      BY <1>1, <1>6, <2>2 DEF GoesOn
    <2>. QED BY <1>1, <1>2, <1>6, <2>2, <2>3, <2>4, WriteStep DEF deployment
  <1>7. ASSUME UNCHANGED <<deployment, status, closed, attempt>>, matched' \in 0 .. Len(attempt),
               status = "succeeded" => matched' # 0
        PROVE  Inv'
    <2>1. RowsSo' /\ RequestsSo'
      BY <1>2, <1>7 DEF Inv, RowsSo, RequestsSo, So
    <2>. QED BY <1>1, <1>2, <1>7, <2>1 DEF Inv, TypeOK, deployment
  <1>8. CASE Vanishes
    <2>1. matched \in 1 .. Len(attempt) /\ matched' = 0 /\ status # "succeeded"
          /\ UNCHANGED <<deployment, status, closed>>
      BY <1>1, <1>8 DEF Vanishes, Closed, Moves, Statuses
    <2>2. CASE attempt[matched].status = "confirming"
      BY <1>1, <1>6, <1>8, <2>1, <2>2 DEF Vanishes, Live
    <2>3. CASE attempt[matched].status # "confirming"
      BY <1>1, <1>7, <1>8, <2>1, <2>3 DEF Vanishes
    <2>. QED BY <2>2, <2>3
  <1>9. ASSUME NEW i \in 1 .. Len(attempt), Arrives(i)
        PROVE  Inv'
    <2>1. i \in 0 .. Len(attempt) /\ i # 0 /\ matched' = i
          /\ UNCHANGED <<deployment, status, closed>>
      BY <1>1, <1>9 DEF Arrives
    <2>2. CASE attempt[i].status = "issued"
      BY <1>6, <1>9, <2>1, <2>2 DEF Arrives, Live
    <2>3. CASE attempt[i].status # "issued"
      BY <1>7, <1>9, <2>1, <2>3 DEF Arrives
    <2>. QED BY <2>2, <2>3
  <1>. QED BY <1>4, <1>5, <1>8, <1>9 DEF Around

LEMMA SupersedeSaveStep ==
  ASSUME Inv, NEW t \in Tabs, SupersedeSave(t)
  PROVE  Inv'
  <1>. DEFINE r == request[t]
              i == r.reissue
  <1>1. /\ r \in Request /\ So(r, status, attempt) /\ r.at = "supersede.save"
        /\ At(t, "supersede.save")
        /\ UNCHANGED <<deployment, status, closed, matched>>
    BY AtCall DEF SupersedeSave
  <1>2. /\ i \in 1 .. Len(attempt) /\ r.read.status = "issued" /\ i # 0
        /\ \/ attempt[i] = r.read
           \/ attempt[i].revision > r.read.revision
        /\ attempt[i] = r.read => Len(attempt) < MaxAttempts
        /\ ~r.moved \/ r.at \in Awaits \cup Issues
    BY <1>1 DEF So, Supersedes
  <1>3. ~r.moved
    BY <1>1, <1>2 DEF Awaits, Issues
  <1>4. CASE ~Unmoved(r)
    <2>1. Onto(t, "answer") /\ Quiet
      BY <1>1, <1>4 DEF SupersedeSave, Quiet, rows
    <2>. QED BY <1>1, <2>1, OntoStep DEF Calls, Reads, Awaits, Issues, Supersedes
  <1>5. CASE Unmoved(r)
    <2>1. attempt[i] = r.read
      <3>1. attempt[i].revision \in Nat /\ attempt[i].revision = r.read.revision
        BY <1>2, <1>5, AttemptIs DEF Unmoved
      <3>. QED BY <1>2, <3>1
    <2>2. /\ attempt[i].status \in Live /\ Len(attempt) < MaxAttempts
          /\ attempt' = Moved(i, "superseded") /\ attempt[i].revision <= MaxRevision
      <3>1. attempt[i].status \in Live /\ Len(attempt) < MaxAttempts
        BY <1>2, <2>1 DEF Live
      <3>. QED BY <1>2, <1>5, <3>1 DEF SupersedeSave, Inv, RowsSo
    <2>3. /\ attempt' \in Seq(Attempt) /\ Len(attempt') = Len(attempt)
          /\ \A j \in 1 .. Len(attempt) : attempt'[j].revision \in Nat
          /\ \A j \in 1 .. Len(attempt) : \/ attempt'[j] = attempt[j]
                                          \/ attempt'[j].revision > attempt[j].revision
      BY <1>2, <2>2, MovedIs
    <2>4. RowsSo'
      <3>1. status' = "succeeded" => matched' # 0
        BY <1>1 DEF Inv, RowsSo
      <3>. QED BY <1>2, <2>2, <3>1, RowsMoved
    <2>5. GoesOn
      BY <1>1, <2>3, AttemptIs DEF GoesOn
    <2>. DEFINE on == IF r.status = "created" THEN "await.find" ELSE "issue.find"
                s == [[r EXCEPT !.at = on] EXCEPT !["moved"] = TRUE]
    <2>6. request' = [request EXCEPT ![t] = s] /\ told' \in [Tabs -> Answers]
      <3>1. Keeps(t, "moved", TRUE, on)
        BY <1>5 DEF SupersedeSave
      <3>. HIDE DEF on
      <3>. QED BY <3>1, KeepsIs
    <2>7. on \in {"await.find", "issue.find"} /\ on \in Calls
      BY DEF Calls, Awaits, Issues
    <2>. HIDE DEF on
    <2>8. /\ s \in Request /\ s.at = on /\ s.status = r.status /\ s.matched = r.matched
      BY <1>1, <2>7 DEF Request
    <2>9. So(s, status', attempt')
      BY <1>1, <2>7, <2>8 DEF So, Supersedes, Awaits, Issues
    <2>10. /\ now' \in 0 .. Horizon /\ status' \in Statuses /\ closed' \in -1 .. Horizon
           /\ matched' \in 0 .. Len(attempt') /\ UNCHANGED <<key, watched>>
      BY <1>1, <2>3 DEF Inv, TypeOK, deployment
    <2>. HIDE DEF s
    <2>11. \E u \in Tabs : \E q : /\ Typed(q)
                                  /\ q = NoRequest \/ So(q, status', attempt')
                                  /\ request' = [request EXCEPT ![u] = q]
      BY <2>6, <2>8, <2>9 DEF Typed
    <2>. QED BY <2>3, <2>4, <2>5, <2>6, <2>10, <2>11, WriteStep
  <1>. QED BY <1>4, <1>5

LEMMA AwaitSaveStep ==
  ASSUME Inv, NEW t \in Tabs, AwaitSave(t)
  PROVE  Inv'
  <1>. DEFINE r == request[t]
              s == [[r EXCEPT !.at = "issue.find"] EXCEPT !["moved"] = TRUE]
  <1>1. /\ r \in Request /\ So(r, status, attempt) /\ r.at = "await.save" /\ At(t, "await.save")
        /\ UNCHANGED <<deployment, closed, attempt, matched>>
    BY AtCall DEF AwaitSave
  <1>2. CASE status # "created"
    <2>1. Onto(t, "issue.find") /\ Quiet
      BY <1>1, <1>2 DEF AwaitSave, Quiet, rows
    <2>. QED BY <1>1, <2>1, OntoStep DEF Calls, Reads, Awaits, Issues, Supersedes
  <1>3. CASE status = "created"
    <2>1. Keeps(t, "moved", TRUE, "issue.find") /\ status' = "awaiting_payment"
      BY <1>3 DEF AwaitSave
    <2>2. request' = [request EXCEPT ![t] = s] /\ told' \in [Tabs -> Answers]
      BY <2>1, KeepsIs
    <2>3. /\ s \in Request /\ s.at = "issue.find" /\ s.status = r.status /\ s.matched = r.matched
      BY <1>1 DEF Request, Calls, Issues
    <2>4. RowsSo'
      BY <1>1, <2>1 DEF Inv, RowsSo
    <2>5. GoesOn
      BY <1>1, <1>3, AttemptIs DEF GoesOn
    <2>6. s.status # "succeeded"
      BY <1>1, <1>3, <2>3 DEF So
    <2>. HIDE DEF s
    <2>7. So(s, status', attempt')
      BY <2>3, <2>6 DEF So, Supersedes, Issues
    <2>8. /\ now' \in 0 .. Horizon /\ status' \in Statuses /\ closed' \in -1 .. Horizon
          /\ attempt' \in Seq(Attempt) /\ matched' \in 0 .. Len(attempt') /\ UNCHANGED <<key, watched>>
      BY <1>1, <2>1 DEF Inv, TypeOK, deployment, Statuses
    <2>9. \E u \in Tabs : \E q : /\ Typed(q)
                                 /\ q = NoRequest \/ So(q, status', attempt')
                                 /\ request' = [request EXCEPT ![u] = q]
      BY <2>2, <2>3, <2>7 DEF Typed
    <2>. QED BY <2>2, <2>4, <2>5, <2>8, <2>9, WriteStep
  <1>. QED BY <1>2, <1>3

LEMMA InsertStep ==
  ASSUME Inv, NEW t \in Tabs, Insert(t)
  PROVE  Inv'
  <1>. DEFINE new == [status |-> "issued", revision |-> 0]
  <1>1. /\ At(t, "issue.insert") /\ UNCHANGED <<deployment, status, closed, matched>>
    BY DEF Insert
  <1>2. CASE Taken
    <2>1. Answer(t, "dropped") /\ Quiet
      BY <1>1, <1>2 DEF Insert, Lost, Quiet, rows
    <2>. QED BY <2>1, AnswerStep DEF Answers
  <1>3. CASE ~Taken
    <2>1. attempt' = Append(attempt, new) /\ Answer(t, "given")
      BY <1>3 DEF Insert
    <2>2. attempt \in Seq(Attempt) /\ new \in Attempt /\ new.status \in Live
      BY CheckoutAssumptions DEF Inv, TypeOK, Attempt, Live
    <2>3. \A i \in 1 .. Len(attempt) : attempt[i].status \notin Live
      BY <1>3, LiveIs DEF Taken
    <2>. HIDE DEF new
    <2>4. /\ attempt' \in Seq(Attempt) /\ Len(attempt') = Len(attempt) + 1
          /\ \A i \in 1 .. Len(attempt) : attempt'[i] = attempt[i]
          /\ attempt'[Len(attempt) + 1] = new
      BY <2>1, <2>2, AppendProperties
    <2>5. Len(attempt) \in Nat /\ Len(attempt) < MaxAttempts
      BY <2>3, AttemptIs, CheckoutAssumptions DEF Inv, RowsSo
    <2>6. \A i \in 1 .. Len(attempt') : i \in 1 .. Len(attempt) \/ i = Len(attempt')
      BY <2>4, <2>5
    <2>7. RowsSo'
      <3>1. Len(attempt') \in 1 .. Len(attempt') /\ Len(attempt') <= MaxAttempts
        BY <2>4, <2>5, CheckoutAssumptions
      <3>2. \A i, j \in 1 .. Len(attempt') :
                attempt'[i].status \in Live /\ attempt'[j].status \in Live => i = j
        BY <2>3, <2>4, <2>6
      <3>3. \A i \in 1 .. Len(attempt') :
                attempt'[i].status \in Live => attempt'[i].revision <= MaxRevision
        BY <2>3, <2>4, <2>6, CheckoutAssumptions DEF new
      <3>4. attempt'[Len(attempt')].status \in Live
        BY <2>2, <2>4
      <3>. QED BY <1>1, <3>1, <3>2, <3>3, <3>4 DEF Inv, RowsSo
    <2>8. GoesOn
      <3>1. Len(attempt') \in Nat /\ Len(attempt') >= Len(attempt)
        BY <2>4, <2>5
      <3>2. \A i \in 1 .. Len(attempt) : attempt'[i].revision \in Nat
        BY <2>4, AttemptIs
      <3>. QED BY <1>1, <2>3, <2>4, <3>1, <3>2 DEF GoesOn
    <2>9. /\ now' \in 0 .. Horizon /\ status' \in Statuses /\ closed' \in -1 .. Horizon
          /\ UNCHANGED <<key, watched>> /\ told' \in [Tabs -> Answers]
      BY <1>1, <2>1 DEF Inv, TypeOK, deployment, Answer, Answers
    <2>10. matched' \in 0 .. Len(attempt')
      <3>1. matched \in 0 .. Len(attempt)
        BY DEF Inv, TypeOK
      <3>. QED BY <1>1, <2>4, <2>5, <3>1
    <2>11. \E u \in Tabs : \E q : /\ Typed(q)
                                  /\ q = NoRequest \/ So(q, status', attempt')
                                  /\ request' = [request EXCEPT ![u] = q]
      BY <2>1 DEF Typed, Answer
    <2>. QED BY <2>4, <2>7, <2>8, <2>9, <2>10, <2>11, WriteStep
  <1>. QED BY <1>2, <1>3

LEMMA RestartStep ==
  ASSUME Inv, NEW k \in BOOLEAN, Restart(k)
  PROVE  Inv'
  <1>1. UNCHANGED <<now, watched, status, closed, attempt, matched>> /\ key' = k
    BY DEF Restart, rows
  <1>2. /\ request' \in [Tabs -> Request \cup {NoRequest}]
        /\ \A t \in Tabs : request'[t] = NoRequest
    BY DEF Restart
  <1>3. told' \in [Tabs -> Answers]
    BY DEF Restart, Inv, TypeOK, Answers
  <1>4. TypeOK'
    BY <1>1, <1>2, <1>3 DEF Inv, TypeOK
  <1>5. RowsSo' /\ RequestsSo'
    BY <1>1, <1>2 DEF Inv, RowsSo, RequestsSo
  <1>. QED BY <1>4, <1>5 DEF Inv

LEMMA NextInv == Inv /\ [Next]_vars => Inv'
  <1>. SUFFICES ASSUME Inv, [Next]_vars PROVE Inv'
    OBVIOUS
  <1>1. ASSUME NEW t \in Tabs, Step(t)
        PROVE  Inv'
    BY <1>1, ReadStep, CountStep, FindsStep, SupersedeLiveStep, SupersedeCountStep,
       SupersedeSaveStep, AwaitSaveStep, InsertStep DEF Step
  <1>2. CASE Breaks
    <2>1. key \in BOOLEAN
      BY DEF Inv, TypeOK
    <2>. QED BY <1>2, <2>1, RestartStep, FindsStep DEF Breaks
  <1>3. CASE UNCHANGED vars
    BY <1>3 DEF vars, deployment, rows, Inv, TypeOK, RowsSo, RequestsSo, So
  <1>. QED BY <1>1, <1>2, <1>3, AroundStep, AskStep DEF Next

LEMMA InvHolds == Spec => []Inv
  BY InitInv, NextInv, PTL DEF Spec

-----------------------------------------------------------------------
(***************************************************************************)
(* What follows.                                                           *)
(***************************************************************************)
\* Two tabs, and whatever lands on the payment, ends it or breaks off a request between any two
\* statements, leave the payment with one reissue at the most, and the page showing no payment
\* that succeeded without what paid it (Supersede, Issue, http.go).
THEOREM PageAlwaysHolds == Spec => []PageHolds
  <1>1. Inv => PageHolds
    <2>. SUFFICES ASSUME Inv PROVE PageHolds
      OBVIOUS
    <2>1. ASSUME NEW t \in Tabs, At(t, "attempted"), Shown(request[t]).status = "succeeded"
          PROVE  Shown(request[t]).result
      <3>1. So(request[t], status, attempt) /\ request[t].at = "attempted"
        BY <2>1, AtCall
      <3>2. request[t].status = "succeeded"
        BY <2>1 DEF Shown
      <3>. QED BY <3>1, <3>2 DEF So, Shown
    <2>. QED BY <2>1 DEF PageHolds, Inv, RowsSo, OneReissue, SucceededHasResult
  <1>. QED BY <1>1, InvHolds, PTL

\* An attempt that a transfer was seen against is never retired, though the transfer may land
\* between the page's reading of it and its save (attempt.go:243-245).
THEOREM ConfirmingAlwaysStays == Spec => ConfirmingStays
  <1>. DEFINE Kept == \A i \in 1 .. Len(attempt) :
                          attempt[i].status = "confirming" => attempt'[i].status # "superseded"
  <1>1. Inv /\ [Next]_vars =>
            [\A i \in 1 .. Len(attempt) :
               attempt[i].status = "confirming" => attempt'[i].status # "superseded"]_vars
    <2>. SUFFICES ASSUME Inv, Next PROVE Kept
      OBVIOUS
    <2>1. CASE attempt' = attempt
      BY <2>1
    <2>2. ASSUME NEW i \in 1 .. Len(attempt), NEW s \in {"issued", "confirming", "superseded"},
                 attempt[i].status \in Live, attempt' = Moved(i, s),
                 s = "superseded" => attempt[i].status # "confirming"
          PROVE  Kept
      <3>1. attempt[i].revision <= MaxRevision
        BY <2>2 DEF Inv, RowsSo
      <3>. DEFINE a == [status |-> s, revision |-> attempt[i].revision + 1]
      <3>2. attempt'[i] = a /\ \A j \in 1 .. Len(attempt) : j # i => attempt'[j] = attempt[j]
        BY <2>2, <3>1, MovedIs
      <3>3. attempt'[i].status = s
        BY <3>2
      <3>. HIDE DEF a
      <3>. QED BY <2>2, <3>2, <3>3
    <2>3. CASE Around
      <3>1. CASE Vanishes
        <4>1. matched \in 1 .. Len(attempt)
          BY <3>1, AttemptIs DEF Vanishes, Inv, TypeOK
        <4>. QED BY <2>1, <2>2, <3>1, <4>1 DEF Vanishes, Live
      <3>2. ASSUME NEW i \in 1 .. Len(attempt), Arrives(i)
            PROVE  Kept
        <4>. HIDE DEF Kept
        <4>. QED BY <2>1, <2>2, <3>2 DEF Arrives, Live
      <3>3. CASE Tick \/ Reading \/ Overdue \/ Ends
        BY <2>1, <3>3 DEF Tick, Reading, Overdue, Ends, rows
      <3>. HIDE DEF Kept
      <3>. QED BY <2>3, <3>1, <3>2, <3>3 DEF Around
    <2>4. ASSUME NEW t \in Tabs, SupersedeSave(t)
          PROVE  Kept
      <3>. DEFINE r == request[t]
      <3>1. So(r, status, attempt) /\ r.at = "supersede.save"
        BY <2>4, AtCall DEF SupersedeSave
      <3>2. CASE Unmoved(r)
        <4>1. r.reissue \in 1 .. Len(attempt) /\ r.read.status = "issued"
              /\ (attempt[r.reissue] = r.read \/ attempt[r.reissue].revision > r.read.revision)
          BY <3>1 DEF So
        <4>2. attempt[r.reissue] = r.read
          BY <3>2, <4>1, AttemptIs DEF Unmoved
        <4>3. attempt' = Moved(r.reissue, "superseded")
          BY <2>4, <3>2 DEF SupersedeSave
        <4>4. attempt[r.reissue].status = "issued"
          BY <4>1, <4>2
        <4>. HIDE DEF Kept
        <4>. QED BY <2>2, <4>1, <4>3, <4>4 DEF Live
      <3>3. CASE ~Unmoved(r)
        BY <2>1, <2>4, <3>3 DEF SupersedeSave
      <3>. QED BY <3>2, <3>3
    <2>5. ASSUME NEW t \in Tabs, Insert(t)
          PROVE  Kept
      <3>. DEFINE new == [status |-> "issued", revision |-> 0]
      <3>1. attempt' = attempt \/ attempt' = Append(attempt, new)
        BY <2>5 DEF Insert
      <3>2. attempt \in Seq(Attempt) /\ new \in Attempt
        BY CheckoutAssumptions DEF Inv, TypeOK, Attempt
      <3>. HIDE DEF new
      <3>3. \A i \in 1 .. Len(attempt) : attempt'[i] = attempt[i]
        BY <3>1, <3>2, AppendProperties
      <3>. QED BY <3>3
    <2>6. ASSUME NEW t \in Tabs, Step(t), ~SupersedeSave(t), ~Insert(t)
          PROVE  attempt' = attempt
      BY <2>6 DEF Step, Quiet, rows, Lookup, Find, Matched, Watched, ReadLive, Count, SupersedeFind,
         SupersedeLive, SupersedeCount, AwaitFind, AwaitSave, IssueFind, IssueLive, IssueHas, AnswerLive
    <2>7. ASSUME Breaks \/ \E t \in Tabs : Asks(t)
          PROVE  attempt' = attempt
      BY <2>7 DEF Breaks, Restart, Fails, Asks, Ask, Quiet, rows
    <2>. HIDE DEF Kept
    <2>. QED BY <2>1, <2>3, <2>4, <2>5, <2>6, <2>7 DEF Next
  <1>. QED BY <1>1, InvHolds, PTL DEF Spec, ConfirmingStays

-----------------------------------------------------------------------
(***************************************************************************)
(* A request that is refused.                                              *)
(***************************************************************************)
\* A tab is told nothing while its request goes on.
Untold == \A t \in Tabs : request[t] # NoRequest => told[t] = "none"

LEMMA Refusing ==
  ASSUME Inv, Untold, NEW t \in Tabs, request[t] # NoRequest, told'[t] = "refused", Next
  PROVE  ~request[t].moved /\ Quiet
  <1>1. told[t] = "none" /\ told \in [Tabs -> Answers] /\ told[t] # "refused"
    BY DEF Untold, Inv, TypeOK
  <1>2. told' # told
    BY <1>1
  <1>3. ~Breaks
    <2>1. \A u \in Tabs : \A w : Answer(u, w) => told'[t] = IF u = t THEN w ELSE told[t]
      BY <1>1 DEF Answer
    <2>2. \A u \in Tabs : ~Fails(u)
      BY <1>1, <2>1 DEF Fails
    <2>3. \A k : ~Restart(k)
      BY <1>1 DEF Restart
    <2>. QED BY <2>2, <2>3 DEF Breaks
  <1>4. PICK u \in Tabs : Asks(u) \/ Step(u)
    BY <1>2, <1>3 DEF Next, Around
  <1>5. told' = told \/ \E w : told' = [told EXCEPT ![u] = w]
    BY <1>4 DEF Asks, Ask, Step, Lookup, Find, Matched, Watched, ReadLive, Count, SupersedeFind,
       SupersedeLive, SupersedeCount, SupersedeSave, AwaitFind, AwaitSave, IssueFind, IssueLive, IssueHas,
       Insert, AnswerLive, Lost, Onto, Keeps, Answer
  <1>6. u = t
    BY <1>1, <1>2, <1>5
  <1>7. ~Asks(t)
    BY DEF Asks, Ask
  <1>8. Step(t)
    BY <1>4, <1>6, <1>7
  <1>9. \A w : Answer(t, w) => w = "refused"
    BY <1>1 DEF Answer
  <1>10. ~(UNCHANGED told)
    BY <1>2
  <1>11. Lookup(t) \/ Count(t) \/ SupersedeCount(t)
    BY <1>8, <1>9, <1>10 DEF Step, Find, Matched, Watched, ReadLive, SupersedeFind, SupersedeLive,
       SupersedeSave, AwaitFind, AwaitSave, IssueFind, IssueLive, IssueHas, Insert, AnswerLive, Lost,
       Onto, Keeps
  <1>12. Quiet /\ request[t].at \in {"lookup", "attempted", "supersede.count"}
    BY <1>11 DEF Lookup, Count, SupersedeCount, At
  <1>13. request[t] \in Request /\ So(request[t], status, attempt)
    BY DEF Inv, TypeOK, RequestsSo
  <1>14. ~request[t].moved
    BY <1>12, <1>13 DEF So, Awaits, Issues
  <1>. QED BY <1>12, <1>14

LEMMA UntoldHolds == Spec => []Untold
  <1>1. Init => Untold
    BY DEF Init, Untold
  <1>2. Inv /\ Untold /\ [Next]_vars => Untold'
    <2>. SUFFICES ASSUME Inv, Untold, [Next]_vars PROVE Untold'
      OBVIOUS
    <2>1. request \in [Tabs -> Request \cup {NoRequest}] /\ told \in [Tabs -> Answers]
      BY DEF Inv, TypeOK
    <2>2. CASE UNCHANGED <<request, told>>
      BY <2>2 DEF Untold
    <2>3. ASSUME NEW t \in Tabs, NEW w, Answer(t, w)
          PROVE  Untold'
      BY <2>1, <2>3 DEF Untold, Answer
    <2>4. ASSUME NEW t \in Tabs, request[t] # NoRequest, UNCHANGED told,
                 \A u \in Tabs : u # t => request'[u] = request[u]
          PROVE  Untold'
      BY <2>4 DEF Untold
    <2>5. ASSUME NEW t \in Tabs, Asks(t)
          PROVE  Untold'
      <3>1. told'[t] = "none" /\ \A u \in Tabs : u # t => told'[u] = told[u] /\ request'[u] = request[u]
        BY <2>1, <2>5 DEF Asks, Ask
      <3>. QED BY <3>1 DEF Untold
    <2>6. ASSUME NEW t \in Tabs, Step(t)
          PROVE  Untold'
      <3>1. request[t] # NoRequest
        <4>1. request[t].at # "idle"
          BY <2>6 DEF Step, Lookup, Find, Matched, Watched, ReadLive, Count, SupersedeFind,
             SupersedeLive, SupersedeCount, SupersedeSave, AwaitFind, AwaitSave, IssueFind, IssueLive,
             IssueHas, Insert, AnswerLive, At
        <4>. QED BY <4>1 DEF NoRequest
      <3>2. \A on : Onto(t, on) => /\ UNCHANGED told
                                   /\ \A u \in Tabs : u # t => request'[u] = request[u]
        BY <2>1 DEF Onto
      <3>3. \A f, v, on : Keeps(t, f, v, on) => /\ UNCHANGED told
                                                /\ \A u \in Tabs : u # t => request'[u] = request[u]
        BY <2>1 DEF Keeps
      <3>4. \/ \E w : Answer(t, w)
            \/ UNCHANGED told /\ \A u \in Tabs : u # t => request'[u] = request[u]
        BY <2>6, <3>2, <3>3 DEF Step, Lookup, Find, Matched, Watched, ReadLive, Count, SupersedeFind,
           SupersedeLive, SupersedeCount, SupersedeSave, AwaitFind, AwaitSave, IssueFind, IssueLive,
           IssueHas, Insert, AnswerLive, Lost
      <3>. QED BY <2>3, <2>4, <3>1, <3>4
    <2>7. CASE Breaks
      <3>1. CASE \E t \in Tabs : Fails(t)
        BY <2>3, <3>1 DEF Fails
      <3>2. CASE request' = [t \in Tabs |-> NoRequest]
        BY <3>2 DEF Untold
      <3>. QED BY <2>7, <3>1, <3>2 DEF Breaks, Restart
    <2>. QED BY <2>2, <2>5, <2>6, <2>7 DEF Next, Around, vars
  <1>. QED BY <1>1, <1>2, InvHolds, PTL DEF Spec

\* A request that is refused has moved nothing, neither before nor with the answer, whatever the
\* other tab does between its calls (http.go:153-154).
THEOREM RefusedAlwaysMovesNothing == Spec => RefusedMovesNothing
  <1>1. Inv /\ Untold /\ [Next]_vars =>
            [\A t \in Tabs : request[t] # NoRequest /\ told'[t] = "refused" =>
                ~request[t].moved /\ rows' = rows]_vars
    BY Refusing DEF Quiet
  <1>. QED BY <1>1, InvHolds, UntoldHolds, PTL DEF Spec, RefusedMovesNothing

=======================================================================
