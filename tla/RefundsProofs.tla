------------------------ MODULE RefundsProofs ------------------------
(***************************************************************************)
(* Proofs about Refunds, for any refunds, payments, requests, workers,      *)
(* terms, bounds and chain.                                                 *)
(*                                                                         *)
(* What holds whatever the provider says is Inv: a refund succeeds from a   *)
(* task that was made from a row that was judged from the chain, some steps *)
(* apart, and the ceiling is measured on sums over sets of refunds, whose   *)
(* laws come first.  What needs a provider whose final block is final is    *)
(* Honest: what the observer has read below its cursor is all there is      *)
(* below a deadline it has passed.                                          *)
(***************************************************************************)
EXTENDS Refunds, FiniteSetTheorems, SequenceTheorems, TLAPS

(***************************************************************************)
(* Sums over finite sets.                                                  *)
(***************************************************************************)
Picked(s) == CHOOSE x \in s : TRUE

Adds(a, g, S) ==
    g = [s \in SUBSET S |-> IF s = {} THEN 0 ELSE a[Picked(s)] + g[s \ {Picked(s)}]]

\* A set of numbers that has a member has a least one.
LEMMA Least ==
  ASSUME NEW B \in SUBSET Nat, B # {}
  PROVE  \E m \in B : \A k \in B : m <= k
<1>1. PICK m \in B : \A k \in B : ~ (<<k, m>> \in OpToRel(<, Nat))
  BY WFMin, NatLessThanWellFounded
<1>2. ASSUME NEW k \in B
      PROVE  m <= k
  <2>1. ~ (k < m)
    BY <1>1 DEF OpToRel
  <2> QED
    BY <2>1
<1> QED
  BY <1>2

\* Every non-empty family of subsets has one that holds no smaller one.
LEMMA Smallest ==
  ASSUME NEW S, IsFiniteSet(S), NEW B \in SUBSET (SUBSET S), B # {}
  PROVE  \E s \in B : \A t \in B : t \subseteq s => t = s
<1>1. IsWellFoundedOn(StrictSubsetOrdering(S), SUBSET S)
  BY FS_StrictSubsetOrderingWellFounded, FS_FiniteSubsetsOfFinite
<1>2. PICK s \in B : \A t \in B : ~ (<<t, s>> \in StrictSubsetOrdering(S))
  BY <1>1, WFMin
<1> QED
  BY <1>2 DEF StrictSubsetOrdering

\* What the fold takes first is a member.
LEMMA PickedIn == \A s : s # {} => Picked(s) \in s
  BY DEF Picked

\* A function that adds up every subset exists.
LEMMA AddsExists ==
  ASSUME NEW S, IsFiniteSet(S), NEW a, \A x \in S : a[x] \in Nat
  PROVE  \E g \in [SUBSET S -> Nat] : Adds(a, g, S)
<1> DEFINE Sums(g, s) == g[s] = IF s = {} THEN 0 ELSE a[Picked(s)] + g[s \ {Picked(s)}]
           Upto(n) == \E g \in [SUBSET S -> Nat] :
                         \A s \in SUBSET S : Cardinality(s) <= n => Sums(g, s)
           Bad == {n \in Nat : ~Upto(n)}
<1>1. \A s \in SUBSET S : IsFiniteSet(s) /\ Cardinality(s) \in Nat
  BY FS_Subset, FS_CardinalityType
<1>2. \A s \in SUBSET S : s # {} => /\ Picked(s) \in s
                                   /\ s \ {Picked(s)} \in SUBSET S
                                   /\ Cardinality(s \ {Picked(s)}) = Cardinality(s) - 1
  BY <1>1, PickedIn, FS_RemoveElement
<1>3. Bad = {}
  <2> SUFFICES ASSUME Bad # {} PROVE FALSE
    OBVIOUS
  <2>1. PICK m \in Bad : \A k \in Bad : m <= k
    <3>1. Bad \in SUBSET Nat
      OBVIOUS
    <3> HIDE DEF Bad
    <3> QED
      BY <3>1, Least
  <2>2. m \in Nat /\ ~Upto(m)
    BY <2>1
  <2>3. CASE m = 0
    <3>1. [s \in SUBSET S |-> 0] \in [SUBSET S -> Nat]
      OBVIOUS
    <3>2. \A s \in SUBSET S : Cardinality(s) <= 0 => s = {}
      <4>1. ASSUME NEW s \in SUBSET S, Cardinality(s) <= 0
            PROVE  s = {}
        <5>1. Cardinality(s) = 0
          BY <4>1, <1>1
        <5> QED
          BY <5>1, <1>1, FS_EmptySet
      <4> QED
        BY <4>1
    <3> QED
      BY <3>1, <3>2, <2>3, <2>2
  <2>4. CASE m # 0
    <3>1. m - 1 \in Nat /\ Upto(m - 1)
      <4>1. m - 1 \in Nat /\ ~ (m <= m - 1)
        BY <2>4, <2>2
      <4>2. m - 1 \notin Bad
        BY <4>1, <2>1
      <4> QED
        BY <4>1, <4>2
    <3>2. PICK g \in [SUBSET S -> Nat] :
             \A s \in SUBSET S : Cardinality(s) <= m - 1 => Sums(g, s)
      BY <3>1
    <3> DEFINE h == [s \in SUBSET S |-> IF s = {} THEN 0
                                        ELSE a[Picked(s)] + g[s \ {Picked(s)}]]
    <3>3. h \in [SUBSET S -> Nat]
      <4>1. ASSUME NEW s \in SUBSET S, s # {}
            PROVE  a[Picked(s)] \in Nat /\ g[s \ {Picked(s)}] \in Nat
        <5>1. Picked(s) \in S /\ s \ {Picked(s)} \in SUBSET S
          BY <1>2, <4>1
        <5> HIDE DEF h
        <5> QED
          BY <5>1
      <4> QED
        BY <4>1
    <3>4. ASSUME NEW s \in SUBSET S, Cardinality(s) <= m - 1
          PROVE  h[s] = g[s]
      BY <3>2, <3>4
    <3>5. ASSUME NEW s \in SUBSET S, Cardinality(s) <= m, s # {}
          PROVE  h[s] = a[Picked(s)] + h[s \ {Picked(s)}]
      <4> DEFINE rest == s \ {Picked(s)}
      <4>1. rest \in SUBSET S /\ Cardinality(rest) = Cardinality(s) - 1
        BY <1>2, <3>5
      <4>2. Cardinality(rest) <= m - 1
        BY <4>1, <3>5, <1>1, <2>2
      <4>3. h[rest] = g[rest]
        BY <4>1, <4>2, <3>4
      <4>4. h[s] = a[Picked(s)] + g[rest]
        BY <3>5
      <4> QED
        BY <4>3, <4>4
    <3>6. h[{}] = 0
      OBVIOUS
    <3> HIDE DEF h
    <3>7. \A s \in SUBSET S : Cardinality(s) <= m => Sums(h, s)
      BY <3>5, <3>6
    <3> QED
      BY <3>3, <3>7, <2>2
  <2> QED
    BY <2>3, <2>4
<1>4. Cardinality(S) \in Nat /\ Upto(Cardinality(S))
  <2>1. Cardinality(S) \in Nat
    BY FS_CardinalityType
  <2> QED
    BY <1>3, <2>1
<1>5. PICK g \in [SUBSET S -> Nat] :
         \A s \in SUBSET S : Cardinality(s) <= Cardinality(S) => Sums(g, s)
  BY <1>4
<1>6. \A s \in SUBSET S : Sums(g, s)
  BY <1>5, FS_Subset
<1>7. Adds(a, g, S)
  <2>1. g = [s \in SUBSET S |-> g[s]]
    OBVIOUS
  <2> QED
    BY <1>6, <2>1 DEF Adds
<1> QED
  BY <1>7

\* Amounts that agree on a set add up to the same.
LEMMA AddsAgree ==
  ASSUME NEW S, IsFiniteSet(S), NEW R, NEW T, S \subseteq R, S \subseteq T,
         NEW a, NEW b, \A x \in S : a[x] = b[x],
         NEW g, NEW h, Adds(a, g, R), Adds(b, h, T)
  PROVE  g[S] = h[S]
<1> DEFINE Bad == {s \in SUBSET S : g[s] # h[s]}
<1>1. SUFFICES ASSUME Bad # {} PROVE FALSE
  OBVIOUS
<1>2. PICK s \in Bad : \A t \in Bad : t \subseteq s => t = s
  <2>1. Bad \in SUBSET (SUBSET S)
    OBVIOUS
  <2> HIDE DEF Bad
  <2> QED
    BY <1>1, <2>1, Smallest
<1>3. s \in SUBSET R /\ s \in SUBSET T /\ s \in SUBSET S /\ g[s] # h[s]
  BY <1>2
<1>4. g[s] = IF s = {} THEN 0 ELSE a[Picked(s)] + g[s \ {Picked(s)}]
  BY <1>3, Zenon DEF Adds
<1>5. h[s] = IF s = {} THEN 0 ELSE b[Picked(s)] + h[s \ {Picked(s)}]
  BY <1>3, Zenon DEF Adds
<1>6. s # {}
  BY <1>3, <1>4, <1>5
<1>7. Picked(s) \in s
  BY <1>6, PickedIn
<1>8. g[s \ {Picked(s)}] = h[s \ {Picked(s)}]
  BY <1>7, <1>2, <1>3
<1>9. a[Picked(s)] = b[Picked(s)]
  BY <1>7, <1>3
<1> QED
  BY <1>3, <1>4, <1>5, <1>6, <1>8, <1>9

\* The fold of the model is that function.
LEMMA SumIs ==
  ASSUME NEW S, IsFiniteSet(S), NEW a, \A x \in S : a[x] \in Nat
  PROVE  \E g \in [SUBSET S -> Nat] : Adds(a, g, S) /\ SumOf(a, S) = g[S]
<1>1. SumOf(a, S) = (CHOOSE g : Adds(a, g, S))[S]
  BY SMT DEF SumOf, MapThenSumSet, MapThenFoldSet, Adds, Picked
<1>2. PICK h \in [SUBSET S -> Nat] : Adds(a, h, S)
  BY AddsExists
<1>3. Adds(a, CHOOSE g : Adds(a, g, S), S)
  BY <1>2, Zenon
<1>4. (CHOOSE g : Adds(a, g, S))[S] = h[S]
  BY <1>2, <1>3, AddsAgree
<1> QED
  BY <1>1, <1>2, <1>4

\* Sums of the same amounts are the same.
LEMMA SumSame ==
  ASSUME NEW S, IsFiniteSet(S), NEW a, NEW b,
         \A x \in S : a[x] \in Nat /\ b[x] = a[x]
  PROVE  SumOf(a, S) = SumOf(b, S)
<1>1. \A x \in S : a[x] \in Nat /\ b[x] \in Nat
  OBVIOUS
<1>2. PICK g \in [SUBSET S -> Nat] : Adds(a, g, S) /\ SumOf(a, S) = g[S]
  BY <1>1, SumIs
<1>3. PICK h \in [SUBSET S -> Nat] : Adds(b, h, S) /\ SumOf(b, S) = h[S]
  BY <1>1, SumIs
<1>4. g[S] = h[S]
  BY <1>2, <1>3, AddsAgree
<1> QED
  BY <1>2, <1>3, <1>4

\* A sum is a number, nothing adds up to zero, and any member can be taken out.
LEMMA SumAdds ==
  ASSUME NEW S, IsFiniteSet(S), NEW a, \A x \in S : a[x] \in Nat
  PROVE  /\ SumOf(a, S) \in Nat
         /\ SumOf(a, {}) = 0
         /\ \A x \in S : SumOf(a, S) = a[x] + SumOf(a, S \ {x})
<1>1. PICK g \in [SUBSET S -> Nat] : Adds(a, g, S) /\ SumOf(a, S) = g[S]
  BY SumIs
<1>2. ASSUME NEW s \in SUBSET S
      PROVE  SumOf(a, s) = g[s]
  <2>1. IsFiniteSet(s) /\ \A x \in s : a[x] \in Nat
    BY FS_Subset
  <2>2. PICK h \in [SUBSET s -> Nat] : Adds(a, h, s) /\ SumOf(a, s) = h[s]
    BY <2>1, SumIs
  <2>3. g[s] = h[s]
    BY <1>1, <2>1, <2>2, AddsAgree
  <2> QED
    BY <2>2, <2>3
<1>3. ASSUME NEW s \in SUBSET S
      PROVE  g[s] = IF s = {} THEN 0 ELSE a[Picked(s)] + g[s \ {Picked(s)}]
  BY <1>1, Zenon DEF Adds
<1>4. \A s \in SUBSET S : \A x \in s : g[s] = a[x] + g[s \ {x}]
  <2> DEFINE Bad == {s \in SUBSET S : \E x \in s : g[s] # a[x] + g[s \ {x}]}
  <2>1. SUFFICES ASSUME Bad # {} PROVE FALSE
    OBVIOUS
  <2>2. PICK s \in Bad : \A t \in Bad : t \subseteq s => t = s
    <3>1. Bad \in SUBSET (SUBSET S)
      OBVIOUS
    <3> HIDE DEF Bad
    <3> QED
      BY <2>1, <3>1, Smallest
  <2>3. PICK x \in s : g[s] # a[x] + g[s \ {x}]
    BY <2>2
  <2> DEFINE y == Picked(s)
             both == (s \ {x}) \ {y}
  <2>4. s \in SUBSET S /\ y \in s
    BY <2>2, <2>3, PickedIn
  <2>5. g[s] = a[y] + g[s \ {y}]
    BY <2>4, <1>3
  <2> HIDE DEF y
  <2>6. x # y
    BY <2>3, <2>5
  <2>7. s \ {y} \notin Bad /\ s \ {x} \notin Bad
    BY <2>2, <2>3, <2>4
  <2>8. g[s \ {y}] = a[x] + g[both]
    <3>1. (s \ {y}) \ {x} = both
      OBVIOUS
    <3>2. x \in s \ {y} /\ s \ {y} \in SUBSET S
      BY <2>3, <2>4, <2>6
    <3> HIDE DEF both
    <3> QED
      BY <2>7, <3>1, <3>2
  <2>9. g[s \ {x}] = a[y] + g[both]
    <3>1. y \in s \ {x} /\ s \ {x} \in SUBSET S
      BY <2>4, <2>6
    <3> QED
      BY <2>7, <3>1
  <2>10. a[x] \in Nat /\ a[y] \in Nat /\ g[both] \in Nat
    <3>1. both \in SUBSET S
      BY <2>4
    <3> QED
      BY <3>1, <2>3, <2>4
  <2> QED
    BY <2>3, <2>5, <2>8, <2>9, <2>10
<1>5. g[{}] = 0
  BY <1>3
<1> QED
  BY <1>1, <1>2, <1>4, <1>5
-----------------------------------------------------------------------
USE NonceAssumption, RefundAssumptions, RefundBounds, KeyOfAssumption, ChainBounds

(***************************************************************************)
(* What a payment's refunds hold.                                          *)
(***************************************************************************)
\* What refunds add up to is a number.
LEMMA TotalType ==
  ASSUME amount \in [Refunds -> Nat], NEW refunds \in SUBSET Refunds
  PROVE  TotalOf(refunds) \in Nat
<1>1. IsFiniteSet(refunds)
  BY FS_Subset
<1> QED
  BY <1>1, SumAdds DEF TotalOf

\* So is what the refunds of a payment hold.
LEMMA TypeHeld ==
  ASSUME TypeOK, NEW p \in Payments
  PROVE  Held(p) \in Nat
<1>1. {r \in RefundsOf(p) : status[r] # "expired"} \in SUBSET Refunds
  BY DEF RefundsOf, Opened
<1>2. amount \in [Refunds -> Nat]
  BY DEF TypeOK
<1> QED
  BY <1>1, <1>2, TotalType DEF Held
-----------------------------------------------------------------------
(***************************************************************************)
(* Types.                                                                  *)
(***************************************************************************)
\* A key names a refund and a sender.
LEMMA NonceType ==
  /\ \A t \in Transfers : RefundOf(t) \in Refunds /\ Sender(t) \in Wallets
  /\ \A t \in Transfers : KeyOf[t] = <<RefundOf(t), Sender(t)>>
  BY DEF RefundOf, Sender

\* The kinds of task are told apart by their phase.
LEMMA TaskPhases ==
  ASSUME NEW k \in Candidate \cup Due \cup {NoTask}
  PROVE  /\ k.phase \in {"asking", "final", "gone"} <=> k \in Candidate
         /\ k.phase \in {"overdue", "unsettled"} <=> k \in Due
         /\ k.phase = "idle" <=> k = NoTask
  BY DEF Candidate, Due, NoTask

\* What a worker finds to do is a task.
LEMMA ScanType ==
  ASSUME TypeOK, NEW first \in Nat, NEW last \in Nat
  PROVE  /\ Scan(first, last) \in [Transfers -> Row]
         /\ \A t \in Transfers :
               /\ on[t] \in first .. last => Scan(first, last)[t].reason \notin {"none", "vanished"}
               /\ on[t] \notin first .. last => Scan(first, last)[t] = NoRow
<1>1. \A t \in Transfers : JudgeRefund(t, on[t]) \in Reasons \ {"none", "vanished"}
  BY DEF JudgeRefund, Reasons
<1>2. on \in [Transfers -> Heights] /\ made \in [Heights -> 0 .. MaxForks]
  BY DEF TypeOK, ChainTypeOK, Heights
<1>3. NoRow \in Row
  BY DEF NoRow, Row, Reasons, Heights
<1>4. ASSUME NEW t \in Transfers
      PROVE  [reason |-> JudgeRefund(t, on[t]), height |-> on[t],
              fork |-> made[on[t]], final |-> FALSE] \in Row
  BY <1>1, <1>2 DEF Row
<1>5. Scan(first, last) \in [Transfers -> Row]
  BY <1>3, <1>4 DEF Scan
<1>6. ASSUME NEW t \in Transfers, on[t] \in first .. last
      PROVE  Scan(first, last)[t].reason \notin {"none", "vanished"}
  BY <1>1, <1>6 DEF Scan
<1>7. ASSUME NEW t \in Transfers, on[t] \notin first .. last
      PROVE  Scan(first, last)[t] = NoRow
  BY <1>7 DEF Scan
<1> QED
  BY <1>5, <1>6, <1>7

\* Recording a reading leaves rows rows,
LEMMA RecordedType ==
  ASSUME row \in [Transfers -> Row], NEW s \in [Transfers -> Row], NEW stamp \in BOOLEAN
  PROVE  Recorded(s, stamp) \in [Transfers -> Row]
<1>1. ASSUME NEW t \in Transfers
      PROVE  [s[t] EXCEPT !.final = row[t].final \/ stamp] \in Row
  <2>1. (row[t].final \/ stamp) \in BOOLEAN
    BY Zenon
  <2>2. s[t] \in Row
    OBVIOUS
  <2> QED
    BY <2>1, <2>2 DEF Row
<1> QED
  BY <1>1 DEF Recorded

\* and so does a block that vanished.
LEMMA VanishedType ==
  ASSUME NEW rows \in [Transfers -> Row], NEW lost \in SUBSET Transfers
  PROVE  Vanished(rows, lost) \in [Transfers -> Row]
  BY DEF Vanished, Row, Reasons

\* The types hold at first,
LEMMA TypeInit == Init => TypeOK
<1> SUFFICES ASSUME Init PROVE TypeOK
  OBVIOUS
<1>1. ChainTypeOK
  BY DEF Init, ChainInit, ChainTypeOK, Heights
<1>2. NoRow \in Row
  BY DEF NoRow, Row, Reasons, Heights
<1>3. cursor \in Block
  BY DEF Init, ChainInit, BlockAt, Block, Heights
<1>4. NotAsked \in [amount : Nat, until : Nat]
  BY DEF NotAsked
<1>5. <<>> \in Seq(Ended)
  BY EmptySeq
<1> QED
  BY <1>1, <1>2, <1>3, <1>4, <1>5 DEF Init, TypeOK, Statuses

\* What a step of the chain leaves of it.
ChainMoves ==
    /\ ChainTypeOK'
    /\ final <= final'
    /\ \A t \in Transfers : on[t] \in 1 .. final => on'[t] = on[t]
    /\ \A t \in Transfers :
          on'[t] = on[t] \/ on'[t] = 0 \/ (on'[t] > final /\ RefundOf(t) \in Opened)

\* The chain moves on, and only above its final block.
LEMMA ChainStep ==
  ASSUME ChainTypeOK, ChainMines \/ ChainForks \/ ChainFinalizes
  PROVE  ChainMoves
<1>1. CASE ChainMines
  <2>1. PICK ts \in SUBSET {t \in Transfers : InItsTime(t)} : Mine(ts, Opened \X Wallets)
    BY <1>1 DEF ChainMines
  <2>2. ChainTypeOK' /\ final' = final
    <3>1. /\ latest' = latest + 1 /\ latest < MaxHeight /\ UNCHANGED <<final, forks>>
          /\ made' \in [Heights -> 0 .. MaxForks]
      BY <2>1 DEF Mine, ChainTypeOK
    <3>2. on' \in [Transfers -> 0 .. latest']
      BY <2>1 DEF Mine, ChainTypeOK, Heights
    <3> QED
      BY <3>1, <3>2 DEF ChainTypeOK, Heights
  <2>3. ASSUME NEW t \in Transfers, on[t] \in 1 .. final PROVE on'[t] = on[t]
    <3>1. Spent(KeyOf[t])
      BY <2>3 DEF Spent, ChainTypeOK
    <3> QED
      BY <2>1, <3>1 DEF Mine
  <2>4. ASSUME NEW t \in Transfers, on'[t] # on[t]
        PROVE  on'[t] > final /\ RefundOf(t) \in Opened
    <3>1. t \in ts /\ on'[t] = latest + 1
      BY <2>1, <2>4 DEF Mine
    <3>2. KeyOf[t] \in Opened \X Wallets
      BY <2>1, <3>1 DEF Mine
    <3> QED
      BY <3>1, <3>2 DEF RefundOf, ChainTypeOK
  <2> QED
    BY <2>2, <2>3, <2>4 DEF ChainMoves, ChainTypeOK
<1>2. CASE ChainForks
  <2>1. PICK h \in Heights : Reorg(h)
    BY <1>2 DEF ChainForks
  <2>2. ChainTypeOK'
    BY <2>1 DEF Reorg, ChainTypeOK, Heights
  <2>3. ASSUME NEW t \in Transfers
        PROVE  /\ on[t] \in 1 .. final => on'[t] = on[t]
               /\ on'[t] = on[t] \/ on'[t] = 0
    BY <2>1 DEF Reorg, ChainTypeOK, Heights
  <2>4. final' = final /\ final \in Nat
    BY <2>1 DEF Reorg, ChainTypeOK
  <2> QED
    BY <2>2, <2>3, <2>4 DEF ChainMoves
<1>3. CASE ChainFinalizes
  BY <1>3 DEF ChainFinalizes, Finalize, ChainMoves, ChainTypeOK, Heights
<1> QED
  BY <1>1, <1>2, <1>3

\* A worker's step leaves the types as they are.
LEMMA WorkerTypes ==
  ASSUME TypeOK, NEW w \in Workers, WorkerStep(w) \/ PassOver(w)
  PROVE  TypeOK'
<1>1. /\ row \in [Transfers -> Row]
      /\ status \in [Refunds -> Statuses]
      /\ version \in [Refunds -> Nat]
      /\ outbox \in [Refunds -> Seq(Ended)]
      /\ task \in [Workers -> Candidate \cup Due \cup {NoTask}]
  BY DEF TypeOK
<1> DEFINE Rest == /\ ChainTypeOK' /\ now' \in 0 .. MaxNow
                   /\ by' \in [Refunds -> Requests \cup {Nobody}]
                   /\ amount' \in [Refunds -> Nat] /\ until' \in [Refunds -> Nat]
                   /\ cursor' \in Block
                   /\ sent' \in [Requests -> Nat]
                   /\ asked' \in [Requests -> [amount : Nat, until : Nat]]
                   /\ heard' \in [Requests -> SUBSET Answers]
<1>2. ASSUME UNCHANGED <<chainVars, now, by, amount, until, cursor, requestVars>> PROVE Rest
  BY <1>2 DEF TypeOK, ChainTypeOK, chainVars, Heights, requestVars, Block, Answers
<1>3. NoTask \in Candidate \cup Due \cup {NoTask}
  OBVIOUS
<1>4. ASSUME NEW it \in Candidate \cup Due, Undertake(w, it) PROVE TypeOK'
  <2>1. Rest
    BY <1>2, <1>4 DEF Undertake, refundVars
  <2>2. task' \in [Workers -> Candidate \cup Due \cup {NoTask}]
    BY <1>1, <1>4 DEF Undertake
  <2> QED
    BY <1>1, <1>4, <2>1, <2>2 DEF TypeOK, Undertake, refundVars
<1>5. ASSUME NEW t \in Transfers, TakeCandidate(w, t) PROVE TypeOK'
  <2> DEFINE it == [phase |-> "asking", transfer |-> t,
                    height |-> row[t].height, fork |-> row[t].fork,
                    refund |-> RefundOf(t), status |-> status[RefundOf(t)],
                    version |-> version[RefundOf(t)]]
  <2>1. it \in Candidate
    BY <1>1, NonceType DEF Candidate, Row
  <2>2. Undertake(w, it)
    BY <1>5 DEF TakeCandidate
  <2> QED
    BY <1>4, <2>1, <2>2
<1>6. ASSUME NEW r \in Refunds, TakeOverdue(w, r) \/ TakeUnsettled(w, r) PROVE TypeOK'
  <2>1. PICK ph \in {"overdue", "unsettled"} :
           Undertake(w, [phase |-> ph, refund |-> r, status |-> status[r], version |-> version[r]])
    BY <1>6 DEF TakeOverdue, TakeUnsettled
  <2>2. [phase |-> ph, refund |-> r, status |-> status[r], version |-> version[r]] \in Due
    BY <1>1 DEF Due
  <2> QED
    BY <1>4, <2>1, <2>2
<1>7. ASSUME Answered(w) PROVE TypeOK'
  <2>1. Rest
    BY <1>2, <1>7 DEF Answered, refundVars
  <2>2. task[w] \in Candidate
    BY <1>1, <1>7, TaskPhases DEF Answered
  <2>3. \A ph \in {"gone", "final"} : [task[w] EXCEPT !.phase = ph] \in Candidate
    BY <2>2 DEF Candidate
  <2>4. PICK ph \in {"gone", "final"} : task' = [task EXCEPT ![w] = [task[w] EXCEPT !.phase = ph]]
    BY <1>7 DEF Answered
  <2>5. task' \in [Workers -> Candidate \cup Due \cup {NoTask}]
    BY <1>1, <2>3, <2>4
  <2> QED
    BY <1>1, <1>7, <2>1, <2>5 DEF TypeOK, Answered, refundVars
<1>8. ASSUME NEW want \in Statuses, Save(w, want) PROVE TypeOK'
  <2>1. Rest
    BY <1>2, <1>8 DEF Save
  <2>2. task' \in [Workers -> Candidate \cup Due \cup {NoTask}]
    BY <1>1, <1>3, <1>8 DEF Save
  <2>3. status' \in [Refunds -> Statuses] /\ version' \in [Refunds -> Nat]
    <3> DEFINE r == task[w].refund
    <3>1. status' = [status EXCEPT ![r] = want] /\ version' = [version EXCEPT ![r] = version[r] + 1]
      BY <1>8 DEF Save
    <3> HIDE DEF r
    <3>2. \A x \in Refunds : version[x] + 1 \in Nat
      BY <1>1
    <3>3. status' \in [Refunds -> Statuses]
      BY <1>1, <1>8, <3>1
    <3>4. version' \in [Refunds -> Nat]
      BY <1>1, <3>1, <3>2
    <3> QED
      BY <3>3, <3>4
  <2>4. ASSUME NEW r \in Refunds, want \in Ended PROVE Append(outbox[r], want) \in Seq(Ended)
    BY <1>1, <2>4, AppendProperties
  <2>5. outbox' \in [Refunds -> Seq(Ended)]
    BY <1>1, <1>8, <2>4 DEF Save, Announced
  <2> QED
    BY <1>1, <1>8, <2>1, <2>2, <2>3, <2>5 DEF TypeOK, Save
<1>9. ASSUME GiveUp(w) PROVE TypeOK'
  <2>1. Rest
    BY <1>2, <1>9 DEF GiveUp, refundVars
  <2>2. task' \in [Workers -> Candidate \cup Due \cup {NoTask}]
    BY <1>1, <1>3, <1>9 DEF GiveUp
  <2>3. task[w] \in Candidate
    BY <1>1, <1>9, TaskPhases DEF GiveUp
  <2>4. {task[w].transfer} \in SUBSET Transfers
    BY <2>3 DEF Candidate
  <2>5. row' \in [Transfers -> Row]
    BY <1>1, <1>9, <2>4, VanishedType DEF GiveUp
  <2> QED
    BY <1>1, <1>9, <2>1, <2>2, <2>5 DEF TypeOK, GiveUp, refundVars
<1>10. ASSUME PassOver(w) PROVE TypeOK'
  <2>1. Rest
    BY <1>2, <1>10 DEF PassOver, refundVars
  <2>2. task' \in [Workers -> Candidate \cup Due \cup {NoTask}]
    BY <1>1, <1>3, <1>10 DEF PassOver
  <2> QED
    BY <1>1, <1>10, <2>1, <2>2 DEF TypeOK, PassOver, refundVars
<1>11. {"succeeded", "awaiting_finality", "expired"} \subseteq Statuses
  BY DEF Statuses
<1> QED
  BY <1>5, <1>6, <1>7, <1>8, <1>9, <1>10, <1>11 DEF WorkerStep, Settle, AwaitFinality, Expire

\* So does a request's.
LEMMA RequestTypes ==
  ASSUME TypeOK, NEW q \in Requests, Ask(q) \/ CreateRefund(q) \/ DropRequest(q)
  PROVE  TypeOK'
<1>1. /\ by \in [Refunds -> Requests \cup {Nobody}]
      /\ amount \in [Refunds -> Nat] /\ until \in [Refunds -> Nat]
      /\ status \in [Refunds -> Statuses]
      /\ version \in [Refunds -> Nat] /\ outbox \in [Refunds -> Seq(Ended)]
      /\ sent \in [Requests -> Nat]
      /\ asked \in [Requests -> [amount : Nat, until : Nat]]
      /\ heard \in [Requests -> SUBSET Answers]
      /\ now \in Nat
  BY DEF TypeOK
<1> DEFINE Rest == /\ ChainTypeOK' /\ now' \in 0 .. MaxNow
                   /\ row' \in [Transfers -> Row] /\ cursor' \in Block
                   /\ task' \in [Workers -> Candidate \cup Due \cup {NoTask}]
           Books == /\ by' \in [Refunds -> Requests \cup {Nobody}]
                    /\ amount' \in [Refunds -> Nat] /\ until' \in [Refunds -> Nat]
                    /\ status' \in [Refunds -> Statuses]
                    /\ version' \in [Refunds -> Nat] /\ outbox' \in [Refunds -> Seq(Ended)]
<1>2. UNCHANGED <<chainVars, now, row, cursor, task>>
  BY DEF Ask, CreateRefund, DropRequest
<1>3. Rest
  BY <1>2 DEF TypeOK, ChainTypeOK, chainVars, Heights, Block
<1>4. ASSUME UNCHANGED refundVars PROVE Books
  BY <1>1, <1>4 DEF refundVars
<1>5. NotAsked \in [amount : Nat, until : Nat] /\ "refused" \in Answers /\ Refunds \subseteq Answers
  BY DEF NotAsked, Answers
<1>6. ASSUME Ask(q) PROVE TypeOK'
  <2>1. sent' \in [Requests -> Nat] /\ Books
    BY <1>1, <1>4, <1>6 DEF Ask
  <2>5. heard' \in [Requests -> SUBSET Answers]
    <3>1. heard[q] \cup {"refused"} \in SUBSET Answers
      BY <1>1, <1>5
    <3> QED
      BY <1>1, <1>6, <3>1 DEF Ask
  <2> DEFINE wants == IF Asks[q] = 0 THEN Left(For[q]) ELSE Asks[q]
  <2>2. \/ UNCHANGED asked
        \/ asked' = [asked EXCEPT ![q] = [amount |-> wants, until |-> now + Life]]
    BY <1>6 DEF Ask, Wants, NewRefund
  <2>3. wants \in Nat
    BY TypeHeld DEF Left
  <2>4. asked' \in [Requests -> [amount : Nat, until : Nat]]
    <3>1. [amount |-> wants, until |-> now + Life] \in [amount : Nat, until : Nat]
      BY <1>1, <2>3
    <3> HIDE DEF wants
    <3> QED
      BY <1>1, <2>2, <3>1
  <2> QED
    BY <1>3, <2>1, <2>4, <2>5 DEF TypeOK
<1>7. ASSUME CreateRefund(q) PROVE TypeOK'
  <2>1. sent' \in [Requests -> Nat] /\ asked' \in [Requests -> [amount : Nat, until : Nat]]
    BY <1>1, <1>5, <1>7 DEF CreateRefund
  <2>2. ASSUME NEW what \in Answers, Answer(q, what) PROVE heard' \in [Requests -> SUBSET Answers]
    <3>1. heard[q] \cup {what} \in SUBSET Answers
      BY <1>1, <2>2
    <3> QED
      BY <1>1, <2>2, <3>1 DEF Answer
  <2>3. CASE Answer(q, "refused") /\ UNCHANGED refundVars
    BY <1>3, <1>4, <1>5, <2>1, <2>2, <2>3 DEF TypeOK
  <2>4. ASSUME NEW first \in ByKey(Under[q]), UNCHANGED refundVars,
               Answer(q, IF Repeats(q, first) THEN first ELSE "refused")
        PROVE  TypeOK'
    <3>1. first \in Refunds
      BY DEF ByKey, Opened
    <3>2. heard' \in [Requests -> SUBSET Answers]
      BY <1>5, <2>2, <2>4, <3>1
    <3> QED
      BY <1>3, <1>4, <2>1, <2>4, <3>2 DEF TypeOK
  <2>5. ASSUME NEW r \in Refunds,
               /\ by' = [by EXCEPT ![r] = q]
               /\ amount' = [amount EXCEPT ![r] = asked[q].amount]
               /\ until' = [until EXCEPT ![r] = asked[q].until]
               /\ status' = [status EXCEPT ![r] = "created"]
               /\ Answer(q, r)
               /\ UNCHANGED <<version, outbox>>
        PROVE  TypeOK'
    <3>1. Books
      BY <1>1, <2>5 DEF Statuses
    <3>2. heard' \in [Requests -> SUBSET Answers]
      BY <1>5, <2>2, <2>5
    <3> QED
      BY <1>3, <2>1, <3>1, <3>2 DEF TypeOK
  <2> QED
    BY <1>7, <2>3, <2>4, <2>5 DEF CreateRefund
<1>8. ASSUME DropRequest(q) PROVE TypeOK'
  BY <1>1, <1>3, <1>4, <1>5, <1>8 DEF DropRequest, TypeOK
<1> QED
  BY <1>6, <1>7, <1>8

\* And an observer's.
LEMMA ObserverTypes ==
  ASSUME TypeOK, ObserverStep
  PROVE  TypeOK'
<1>1. /\ row \in [Transfers -> Row] /\ cursor \in Block /\ cursor.height \in Nat
      /\ latest \in Heights /\ latest \in Nat /\ final \in 1 .. latest
      /\ made \in [Heights -> 0 .. MaxForks] /\ MaxHeight \in Nat
  BY DEF TypeOK, ChainTypeOK, Block, Heights
<1>2. UNCHANGED <<chainVars, now, refundVars, requestVars, task>>
  BY DEF ObserverStep, ReadBehind, ReadAhead
<1>3. ASSUME row' \in [Transfers -> Row], cursor' \in Block PROVE TypeOK'
  BY <1>2, <1>3 DEF TypeOK, ChainTypeOK, chainVars, Heights, refundVars, requestVars
<1>4. CASE ReadBehind
  <2>1. PICK to \in cursor.height + 1 .. IF Overclaims THEN latest ELSE final :
           /\ row' = Vanished(Recorded(Scan(cursor.height + 1, to), TRUE),
                              Lost(Scan(cursor.height + 1, to), cursor.height + 1, to))
           /\ cursor' = BlockAt(to)
    BY <1>4 DEF ReadBehind
  <2>2. to \in Nat /\ to \in Heights
    BY <1>1 DEF Heights
  <2>3. Scan(cursor.height + 1, to) \in [Transfers -> Row]
    BY <1>1, <2>2, ScanType
  <2>4. Recorded(Scan(cursor.height + 1, to), TRUE) \in [Transfers -> Row]
    BY <1>1, <2>3, RecordedType
  <2>5. row' \in [Transfers -> Row]
    BY <2>1, <2>4, VanishedType DEF Lost
  <2>6. cursor' \in Block
    BY <1>1, <2>1, <2>2 DEF BlockAt, Block
  <2> QED
    BY <1>3, <2>5, <2>6
<1>5. CASE ReadAhead
  <2>1. PICK first \in Nat : row' = Recorded(Scan(first, latest), FALSE)
    <3> DEFINE one == IF latest - cursor.height > Width THEN latest - Width + 1
                                                       ELSE cursor.height + 1
    <3>1. one \in Nat
      BY <1>1
    <3> QED
      BY <1>5, <3>1 DEF ReadAhead
  <2>2. row' \in [Transfers -> Row]
    BY <1>1, <2>1, ScanType, RecordedType
  <2>3. cursor' \in Block
    BY <1>1, <1>5 DEF ReadAhead
  <2> QED
    BY <1>3, <2>2, <2>3
<1> QED
  BY <1>4, <1>5 DEF ObserverStep

\* and every step keeps them.
LEMMA TypeStep == TypeOK /\ [Next]_vars => TypeOK'
<1> SUFFICES ASSUME TypeOK, [Next]_vars PROVE TypeOK'
  OBVIOUS
<1>1. ASSUME UNCHANGED <<refundVars, row, cursor, requestVars, task>>,
             ChainTypeOK', now' \in 0 .. MaxNow
      PROVE  TypeOK'
  BY <1>1 DEF TypeOK, refundVars, requestVars
<1>2. CASE ChainMines \/ ChainForks \/ ChainFinalizes
  <2>1. ChainTypeOK'
    BY <1>2, ChainStep DEF TypeOK, ChainMoves
  <2> QED
    BY <1>1, <1>2, <2>1 DEF ChainMines, ChainForks, ChainFinalizes, TypeOK
<1>3. CASE Tick
  <2>1. PICK m \in Moments : m <= MaxNow /\ now' = m
    BY <1>3 DEF Tick
  <2>2. m \in Nat
    BY DEF Moments, Opened, TypeOK
  <2>3. ChainTypeOK'
    BY <1>3 DEF Tick, TypeOK, ChainTypeOK, chainVars, Heights
  <2> QED
    BY <1>1, <1>3, <2>1, <2>2, <2>3 DEF Tick
<1>4. CASE UNCHANGED vars
  <2>1. ChainTypeOK' /\ now' \in 0 .. MaxNow
    BY <1>4 DEF vars, TypeOK, ChainTypeOK, chainVars, Heights
  <2> QED
    BY <1>1, <1>4, <2>1 DEF vars
<1> QED
  BY <1>2, <1>3, <1>4, WorkerTypes, RequestTypes, ObserverTypes DEF Next

\* Whatever the store, the chain and the workers do, every variable stays in
\* its type: no status, reason or answer the code has no word for.
THEOREM TypeCorrect == Spec => []TypeOK
<1>1. Init => TypeOK
  BY TypeInit
<1>2. TypeOK /\ [Next]_vars => TypeOK'
  BY TypeStep
<1> QED
  BY <1>1, <1>2, PTL DEF Spec

-----------------------------------------------------------------------
(***************************************************************************)
(* What holds with any provider.                                           *)
(***************************************************************************)
\* Transfer t is what its refund asks for, and a block at h is before deadline.
InTime(t, h, deadline) == /\ Sender(t) = "merchant"
                          /\ Carries[t] \in {"exact", "later"}
                          /\ h > 0
                          /\ h < deadline

\* Only the key of a refund that was opened is on the chain or in a row.
KeysOpened == \A t \in Transfers : on[t] # 0 \/ row[t].reason # "none" => RefundOf(t) \in Opened

RowsJudged ==
    \A t \in Transfers : row[t].reason = "matched" =>
        InTime(t, row[t].height, until[RefundOf(t)])

\* A task is of a refund that was opened, and says what it is while its version stands.
TasksRead ==
    \A w \in Workers : task[w] # NoTask =>
        /\ task[w].refund \in Opened
        /\ task[w].version <= version[task[w].refund]
        /\ task[w].version = version[task[w].refund] =>
              status[task[w].refund] = task[w].status

TasksJudged ==
    \A w \in Workers : task[w] \in Candidate =>
        /\ RefundOf(task[w].transfer) = task[w].refund
        /\ InTime(task[w].transfer, task[w].height, until[task[w].refund])

FinalStays ==
    \A w \in Workers : task[w] \in Candidate /\ task[w].phase = "final" =>
        /\ on[task[w].transfer] = task[w].height
        /\ task[w].height <= final

Told == \A r \in Refunds : outbox[r] = IF status[r] \in Ended THEN <<status[r]>> ELSE <<>>

Inv == /\ TypeOK
       /\ KeysOpened
       /\ RowsJudged
       /\ TasksRead
       /\ TasksJudged
       /\ FinalStays
       /\ Told
       /\ SucceededIsSent

\* A refund that was opened keeps what it was opened with, and says what it said
\* while its version stands.
RefundsKept ==
    \A r \in Refunds :
        /\ version[r] <= version'[r]
        /\ status[r] # "none" =>
              /\ status'[r] # "none"
              /\ by'[r] = by[r] /\ amount'[r] = amount[r] /\ until'[r] = until[r]
              /\ version'[r] = version[r] => status'[r] = status[r]

\* A move of a refund is its opening, or a worker's.
Moved(r) == \/ /\ status[r] = "none" /\ status'[r] = "created"
               /\ outbox'[r] = outbox[r]
               /\ \E q \in Requests : CreateRefund(q)
            \/ \E w \in Workers :
                  /\ Settle(w) \/ AwaitFinality(w) \/ Expire(w)
                  /\ task[w].refund = r
                  /\ CanBecome(status[r], status'[r])
                  /\ outbox'[r] = IF status'[r] \in Ended THEN Append(outbox[r], status'[r])
                                                          ELSE outbox[r]

RefundsMove == \A r \in Refunds : \/ Moved(r)
                                  \/ status'[r] = status[r] /\ outbox'[r] = outbox[r]

\* A save moves a refund from the status and version the task holds, or nothing.
LEMMA SaveStep ==
  ASSUME TypeOK, TasksRead, NEW w \in Workers,
         Settle(w) \/ AwaitFinality(w) \/ Expire(w)
  PROVE  /\ task[w].refund \in Opened
         /\ task[w].version = version[task[w].refund]
         /\ task[w].status = status[task[w].refund]
         /\ RefundsKept
         /\ RefundsMove
<1>1. /\ status \in [Refunds -> Statuses] /\ version \in [Refunds -> Nat]
      /\ outbox \in [Refunds -> Seq(Ended)]
  BY DEF TypeOK
<1> DEFINE r == task[w].refund
<1>2. task[w] # NoTask
  BY DEF Settle, AwaitFinality, Expire, NoTask
<1>3. r \in Opened /\ r \in Refunds
  BY <1>2 DEF TasksRead, Opened
<1>4. PICK want \in {"succeeded", "awaiting_finality", "expired"} : Save(w, want)
  BY DEF Settle, AwaitFinality, Expire
<1>5. version[r] = task[w].version /\ CanBecome(task[w].status, want)
  BY <1>4 DEF Save, Unmoved
<1>6. task[w].status = status[r]
  BY <1>2, <1>5 DEF TasksRead
<1>7. /\ status' = [status EXCEPT ![r] = want]
      /\ version' = [version EXCEPT ![r] = version[r] + 1]
      /\ outbox' = [outbox EXCEPT ![r] = IF want \in Ended THEN Append(outbox[r], want) ELSE outbox[r]]
      /\ UNCHANGED <<by, amount, until>>
  BY <1>4 DEF Save, Announced
<1> HIDE DEF r
<1>8. RefundsKept
  BY <1>1, <1>3, <1>7 DEF RefundsKept
<1>9. ASSUME NEW x \in Refunds, x # r PROVE status'[x] = status[x] /\ outbox'[x] = outbox[x]
  BY <1>1, <1>7, <1>9
<1>10. Moved(r)
  <2>1. status'[r] = want /\ CanBecome(status[r], want)
    BY <1>1, <1>3, <1>5, <1>6, <1>7
  <2>2. outbox'[r] = IF want \in Ended THEN Append(outbox[r], want) ELSE outbox[r]
    BY <1>1, <1>3, <1>7
  <2> QED
    BY <2>1, <2>2 DEF Moved, r
<1> QED
  BY <1>3, <1>5, <1>6, <1>8, <1>9, <1>10 DEF RefundsMove, r

\* Every step moves a refund the one way or leaves it.
LEMMA RefundsStep ==
  ASSUME TypeOK, TasksRead, [Next]_vars
  PROVE  RefundsKept /\ RefundsMove
<1>1. version \in [Refunds -> Nat] /\ status \in [Refunds -> Statuses]
  BY DEF TypeOK
<1>2. CASE UNCHANGED refundVars
  BY <1>1, <1>2 DEF refundVars, RefundsKept, RefundsMove
<1>3. ASSUME NEW q \in Requests, CreateRefund(q) PROVE RefundsKept /\ RefundsMove
  <2>1. CASE UNCHANGED refundVars
    BY <1>2, <2>1
  <2>2. ASSUME NEW r \in Refunds,
               /\ status[r] = "none"
               /\ by' = [by EXCEPT ![r] = q]
               /\ amount' = [amount EXCEPT ![r] = asked[q].amount]
               /\ until' = [until EXCEPT ![r] = asked[q].until]
               /\ status' = [status EXCEPT ![r] = "created"]
               /\ UNCHANGED <<version, outbox>>
        PROVE  RefundsKept /\ RefundsMove
    <3>1. /\ by \in [Refunds -> Requests \cup {Nobody}]
          /\ amount \in [Refunds -> Nat] /\ until \in [Refunds -> Nat]
      BY DEF TypeOK
    <3>2. RefundsKept
      BY <1>1, <2>2, <3>1 DEF RefundsKept
    <3>3. RefundsMove
      BY <1>1, <1>3, <2>2 DEF RefundsMove, Moved
    <3> QED
      BY <3>2, <3>3
  <2> QED
    BY <1>3, <2>1, <2>2 DEF CreateRefund
<1>4. ASSUME NEW w \in Workers, WorkerStep(w) \/ PassOver(w) PROVE RefundsKept /\ RefundsMove
  <2>1. CASE Settle(w) \/ AwaitFinality(w) \/ Expire(w)
    BY <2>1, SaveStep
  <2>2. CASE \/ \E t \in Transfers : TakeCandidate(w, t)
             \/ \E r \in Refunds : TakeOverdue(w, r) \/ TakeUnsettled(w, r)
             \/ Answered(w) \/ GiveUp(w) \/ PassOver(w)
    BY <1>2, <2>2 DEF TakeCandidate, TakeOverdue, TakeUnsettled, Undertake, Answered,
                      GiveUp, PassOver
  <2> QED
    BY <1>4, <2>1, <2>2 DEF WorkerStep
<1>5. CASE \/ ChainMines \/ ChainForks \/ ChainFinalizes \/ Tick \/ ObserverStep
           \/ UNCHANGED vars
           \/ \E q \in Requests : Ask(q) \/ DropRequest(q)
  BY <1>2, <1>5 DEF ChainMines, ChainForks, ChainFinalizes, Tick, ObserverStep, ReadBehind,
                    ReadAhead, vars, Ask, DropRequest
<1> QED
  BY <1>3, <1>4, <1>5 DEF Next

\* What a step may make of a row: leave it, mark it, or judge it from the chain.
RowMoves(t) ==
    \/ row'[t] = row[t]
    \/ row'[t].reason = "vanished" /\ RefundOf(t) \in Opened /\ UNCHANGED refundVars
    \/ /\ on[t] # 0
       /\ row'[t].reason = JudgeRefund(t, on[t])
       /\ row'[t].height = on[t]
       /\ UNCHANGED refundVars

\* What reading the blocks first to last makes of the row of t.
Reread(t, first, last, it) ==
    \/ on[t] \notin first .. last /\ it = row[t]
    \/ /\ on[t] \in first .. last
       /\ on[t] # 0
       /\ it.reason = JudgeRefund(t, on[t])
       /\ it.height = on[t]

\* What one recording writes of each transfer.
LEMMA RecordedRows ==
  ASSUME TypeOK, NEW first \in Nat, NEW last \in Nat, first > 0, NEW stamp \in BOOLEAN,
         NEW t \in Transfers
  PROVE  Reread(t, first, last, Recorded(Scan(first, last), stamp)[t])
<1> DEFINE s == Scan(first, last)
<1>1. CASE on[t] \in first .. last
  <2>1. /\ s[t].reason = JudgeRefund(t, on[t]) /\ s[t].height = on[t]
        /\ s[t].reason # "none"
    BY <1>1, ScanType DEF Scan
  <2>2. s[t] \in Row
    BY ScanType
  <2> HIDE DEF s
  <2>3. Recorded(s, stamp)[t] = [s[t] EXCEPT !.final = row[t].final \/ stamp]
    BY <2>1 DEF Recorded
  <2>4. /\ Recorded(s, stamp)[t].reason = s[t].reason
        /\ Recorded(s, stamp)[t].height = s[t].height
    BY <2>2, <2>3 DEF Row
  <2>5. on[t] # 0
    BY <1>1
  <2> QED
    BY <1>1, <2>1, <2>4, <2>5 DEF s, Reread
<1>2. CASE on[t] \notin first .. last
  <2>1. s[t].reason = "none"
    BY <1>2, ScanType DEF NoRow
  <2> QED
    BY <1>2, <2>1 DEF Recorded, Reread
<1> QED
  BY <1>1, <1>2

\* A row changes to what the chain says of its transfer at its height, or to nothing.
LEMMA RowsStep ==
  ASSUME Inv, [Next]_vars
  PROVE  \A t \in Transfers : RowMoves(t)
<1>0. /\ TypeOK
      /\ row \in [Transfers -> Row]
      /\ cursor.height \in Nat /\ latest \in Nat /\ final \in Nat
  <2>1. TypeOK
    BY DEF Inv
  <2>2. row \in [Transfers -> Row] /\ cursor \in Block /\ ChainTypeOK
    BY <2>1 DEF TypeOK
  <2> QED
    BY <2>1, <2>2 DEF ChainTypeOK, Block, Heights
<1>1. CASE UNCHANGED row
  BY <1>1 DEF RowMoves
<1>2. CASE ReadBehind
  <2>1. PICK to \in cursor.height + 1 .. IF Overclaims THEN latest ELSE final :
           row' = Vanished(Recorded(Scan(cursor.height + 1, to), TRUE),
                           Lost(Scan(cursor.height + 1, to), cursor.height + 1, to))
    BY <1>2 DEF ReadBehind
  <2> DEFINE first == cursor.height + 1
             rows == Recorded(Scan(first, to), TRUE)
             lost == Lost(Scan(first, to), first, to)
  <2>2. first \in Nat /\ first > 0 /\ to \in Nat
    BY <1>0
  <2>3. rows \in [Transfers -> Row]
    BY <1>0, <2>2, ScanType, RecordedType
  <2>4. ASSUME NEW t \in Transfers PROVE RowMoves(t)
    <3>1. CASE t \in lost
      <4>1. row[t].reason # "none"
        BY <3>1 DEF Lost
      <4>2. row'[t].reason = "vanished"
        <5>1. row'[t] = [rows[t] EXCEPT !.reason = "vanished"]
          BY <2>1, <3>1 DEF Vanished
        <5>2. rows[t] \in Row
          BY <2>3
        <5> HIDE DEF rows
        <5> QED
          BY <5>1, <5>2 DEF Row
      <4>3. RefundOf(t) \in Opened
        BY <4>1 DEF Inv, KeysOpened
      <4> QED
        BY <1>2, <4>2, <4>3 DEF RowMoves, ReadBehind
    <3>2. CASE t \notin lost
      <4>1. row'[t] = rows[t]
        BY <2>1, <3>2 DEF Vanished
      <4>2. \/ rows[t] = row[t]
            \/ on[t] # 0 /\ rows[t].reason = JudgeRefund(t, on[t]) /\ rows[t].height = on[t]
        <5>1. TRUE \in BOOLEAN
          OBVIOUS
        <5> HIDE DEF first
        <5>2. Reread(t, first, to, rows[t])
          BY <1>0, <2>2, <5>1, RecordedRows
        <5> QED
          BY <5>2 DEF Reread
      <4> QED
        BY <1>2, <4>1, <4>2 DEF RowMoves, ReadBehind
    <3> QED
      BY <3>1, <3>2
  <2> QED
    BY <2>4
<1>3. CASE ReadAhead
  <2> DEFINE first == IF latest - cursor.height > Width THEN latest - Width + 1
                                                        ELSE cursor.height + 1
  <2>1. row' = Recorded(Scan(first, latest), FALSE) /\ UNCHANGED refundVars
    BY <1>3 DEF ReadAhead
  <2>2. first \in Nat /\ first > 0
    BY <1>0
  <2> HIDE DEF first
  <2>3. ASSUME NEW t \in Transfers PROVE RowMoves(t)
    <3>1. FALSE \in BOOLEAN
      OBVIOUS
    <3>2. Reread(t, first, latest, Recorded(Scan(first, latest), FALSE)[t])
      BY <1>0, <2>2, <3>1, RecordedRows
    <3> QED
      BY <2>1, <3>2 DEF Reread, RowMoves
  <2> QED
    BY <2>3
<1>4. ASSUME NEW w \in Workers, GiveUp(w) PROVE \A t \in Transfers : RowMoves(t)
  <2>1. task[w] \in Candidate /\ task[w] # NoTask
    BY <1>0, <1>4, TaskPhases DEF GiveUp, TypeOK, NoTask
  <2> DEFINE gone == task[w].transfer
  <2>2. RefundOf(gone) \in Opened
    BY <2>1 DEF Inv, TasksRead, TasksJudged
  <2>3. row' = Vanished(row, {gone}) /\ UNCHANGED refundVars
    BY <1>4 DEF GiveUp
  <2>4. ASSUME NEW t \in Transfers PROVE RowMoves(t)
    <3>1. CASE t = gone
      <4>1. row'[t] = [row[t] EXCEPT !.reason = "vanished"]
        BY <2>3, <3>1 DEF Vanished
      <4>2. row'[t].reason = "vanished"
        BY <1>0, <4>1 DEF Row
      <4> QED
        BY <2>2, <2>3, <3>1, <4>2 DEF RowMoves
    <3>2. CASE t # gone
      <4>1. row'[t] = row[t]
        BY <2>3, <3>2 DEF Vanished
      <4> QED
        BY <4>1 DEF RowMoves
    <3> QED
      BY <3>1, <3>2
  <2> QED
    BY <2>4
<1>5. ASSUME NEW w \in Workers, WorkerStep(w) \/ PassOver(w), ~GiveUp(w) PROVE UNCHANGED row
  BY <1>5 DEF WorkerStep, PassOver, TakeCandidate, TakeOverdue, TakeUnsettled, Undertake,
              Answered, Settle, AwaitFinality, Expire, Save
<1>6. CASE \/ ChainMines \/ ChainForks \/ ChainFinalizes \/ Tick \/ UNCHANGED vars
           \/ \E q \in Requests : Ask(q) \/ CreateRefund(q) \/ DropRequest(q)
  BY <1>1, <1>6 DEF ChainMines, ChainForks, ChainFinalizes, Tick, vars, Ask, CreateRefund,
                    DropRequest
<1> QED
  BY <1>1, <1>2, <1>3, <1>4, <1>5, <1>6 DEF Next, ObserverStep

\* What a step leaves of the chain: blocks are added above the final one, and
\* dropped above it.
ChainKept ==
    /\ final <= final'
    /\ \A t \in Transfers : on[t] \in 1 .. final => on'[t] = on[t]
    /\ \A t \in Transfers :
          on'[t] = on[t] \/ on'[t] = 0 \/ (on'[t] > final /\ RefundOf(t) \in Opened)

\* Below the final block nothing moves, and only opened refunds are sent.
LEMMA ChainKeeps ==
  ASSUME TypeOK, [Next]_vars
  PROVE  ChainKept
<1>1. CASE ChainMines \/ ChainForks \/ ChainFinalizes
  BY <1>1, ChainStep DEF TypeOK, ChainMoves, ChainKept
<1>2. CASE UNCHANGED <<final, on>>
  <2>1. final \in Nat
    BY DEF TypeOK, ChainTypeOK
  <2> QED
    BY <1>2, <2>1 DEF ChainKept
<1>3. ASSUME NEW w \in Workers, WorkerStep(w) \/ PassOver(w) PROVE UNCHANGED <<final, on>>
  BY <1>3 DEF WorkerStep, TakeCandidate, TakeOverdue, TakeUnsettled, Undertake, Answered,
              Settle, AwaitFinality, Expire, Save, GiveUp, PassOver, chainVars
<1>4. CASE \/ Tick \/ ObserverStep \/ UNCHANGED vars
           \/ \E q \in Requests : Ask(q) \/ CreateRefund(q) \/ DropRequest(q)
  BY <1>2, <1>4 DEF Tick, ObserverStep, ReadBehind, ReadAhead, vars, Ask, CreateRefund,
                    DropRequest, chainVars
<1> QED
  BY <1>1, <1>2, <1>3, <1>4 DEF Next

\* What a step may make of a worker's task: drop it, ask about it, or take up a
\* refund as it stands.
TaskMoves(w) ==
    \/ task'[w] = task[w]
    \/ task'[w] = NoTask
    \/ /\ task[w] \in Candidate
       /\ task'[w] = [task[w] EXCEPT !.phase = "gone"]
       /\ task[w].height <= final
       /\ on[task[w].transfer] = 0
       /\ UNCHANGED <<chainVars, refundVars>>
    \/ /\ task[w] \in Candidate
       /\ task'[w] = [task[w] EXCEPT !.phase = "final"]
       /\ task[w].height <= final
       /\ on[task[w].transfer] = task[w].height
       /\ UNCHANGED <<chainVars, refundVars>>
    \/ \E t \in Transfers :
          /\ row[t].reason = "matched"
          /\ row[t].final
          /\ status[RefundOf(t)] \in Open
          /\ task'[w] = [phase |-> "asking", transfer |-> t,
                         height |-> row[t].height, fork |-> row[t].fork,
                         refund |-> RefundOf(t), status |-> status[RefundOf(t)],
                         version |-> version[RefundOf(t)]]
          /\ UNCHANGED <<chainVars, refundVars>>
    \/ \E r \in Refunds, ph \in {"overdue", "unsettled"} :
          /\ status[r] \in Open
          /\ ph = "unsettled" => ReadPast(r) /\ Unspent(r)
          /\ task'[w] = [phase |-> ph, refund |-> r, status |-> status[r],
                         version |-> version[r]]
          /\ UNCHANGED <<chainVars, refundVars>>

\* A worker's task comes from a scan or follows from the one before.
LEMMA TaskStep ==
  ASSUME TypeOK, [Next]_vars
  PROVE  \A w \in Workers : TaskMoves(w)
<1>1. CASE UNCHANGED task
  BY <1>1 DEF TaskMoves
<1>2. ASSUME NEW w \in Workers, WorkerStep(w) \/ PassOver(w)
      PROVE  \A v \in Workers : TaskMoves(v)
  <2>0. task \in [Workers -> Candidate \cup Due \cup {NoTask}]
    BY DEF TypeOK
  <2>1. ASSUME NEW v \in Workers, v # w PROVE TaskMoves(v)
    <3>1. task'[v] = task[v]
      BY <1>2, <2>0, <2>1 DEF WorkerStep, TakeCandidate, TakeOverdue, TakeUnsettled, Undertake,
                              Answered, Settle, AwaitFinality, Expire, Save, GiveUp, PassOver
    <3> QED
      BY <3>1 DEF TaskMoves
  <2>2. ASSUME task' = [task EXCEPT ![w] = NoTask] PROVE TaskMoves(w)
    BY <2>0, <2>2 DEF TaskMoves
  <2>3. ASSUME NEW t \in Transfers, TakeCandidate(w, t) PROVE TaskMoves(w)
    <3>1. /\ row[t].reason = "matched" /\ row[t].final /\ status[RefundOf(t)] \in Open
          /\ UNCHANGED <<chainVars, refundVars>>
          /\ task'[w] = [phase |-> "asking", transfer |-> t,
                         height |-> row[t].height, fork |-> row[t].fork,
                         refund |-> RefundOf(t), status |-> status[RefundOf(t)],
                         version |-> version[RefundOf(t)]]
      BY <2>0, <2>3 DEF TakeCandidate, Undertake
    <3> QED
      BY <3>1 DEF TaskMoves
  <2>4. ASSUME NEW r \in Refunds, TakeOverdue(w, r) PROVE TaskMoves(w)
    <3>1. /\ status[r] \in Open /\ UNCHANGED <<chainVars, refundVars>>
          /\ task'[w] = [phase |-> "overdue", refund |-> r, status |-> status[r],
                         version |-> version[r]]
      BY <2>0, <2>4 DEF TakeOverdue, Undertake, Open
    <3> QED
      BY <3>1 DEF TaskMoves
  <2>5. ASSUME NEW r \in Refunds, TakeUnsettled(w, r) PROVE TaskMoves(w)
    <3>1. /\ status[r] \in Open /\ UNCHANGED <<chainVars, refundVars>>
          /\ ReadPast(r) /\ Unspent(r)
          /\ task'[w] = [phase |-> "unsettled", refund |-> r, status |-> status[r],
                         version |-> version[r]]
      BY <2>0, <2>5 DEF TakeUnsettled, Undertake, Open
    <3> QED
      BY <3>1 DEF TaskMoves
  <2>6. ASSUME Answered(w) PROVE TaskMoves(w)
    <3>1. task[w] \in Candidate
      BY <2>0, <2>6, TaskPhases DEF Answered
    <3>2. task[w].height <= final /\ UNCHANGED <<chainVars, refundVars>>
      BY <2>6 DEF Answered
    <3>3. \/ /\ on[task[w].transfer] = 0
             /\ task'[w] = [task[w] EXCEPT !.phase = "gone"]
          \/ /\ on[task[w].transfer] = task[w].height
             /\ task'[w] = [task[w] EXCEPT !.phase = "final"]
      BY <2>0, <2>6 DEF Answered
    <3> QED
      BY <3>1, <3>2, <3>3 DEF TaskMoves
  <2>7. ASSUME Settle(w) \/ AwaitFinality(w) \/ Expire(w) \/ GiveUp(w) \/ PassOver(w)
        PROVE  TaskMoves(w)
    BY <2>2, <2>7 DEF Settle, AwaitFinality, Expire, Save, GiveUp, PassOver
  <2> QED
    BY <1>2, <2>1, <2>3, <2>4, <2>5, <2>6, <2>7 DEF WorkerStep
<1>3. CASE \/ ChainMines \/ ChainForks \/ ChainFinalizes \/ Tick \/ ObserverStep
           \/ UNCHANGED vars
           \/ \E q \in Requests : Ask(q) \/ CreateRefund(q) \/ DropRequest(q)
  BY <1>1, <1>3 DEF ChainMines, ChainForks, ChainFinalizes, Tick, ObserverStep, ReadBehind,
                    ReadAhead, vars, Ask, CreateRefund, DropRequest
<1> QED
  BY <1>2, <1>3 DEF Next

\* An opened refund stays opened, of the terms it was opened on.
LEMMA OpenedStays ==
  ASSUME RefundsKept, NEW r \in Opened
  PROVE  r \in Opened' /\ until'[r] = until[r] /\ amount'[r] = amount[r] /\ by'[r] = by[r]
  BY DEF RefundsKept, Opened

\* A key on the chain or in a row stays one of an opened refund, and a row is
\* matched only by a transfer that is what its refund asks for.
LEMMA JudgedStep ==
  ASSUME Inv, [Next]_vars
  PROVE  KeysOpened' /\ RowsJudged'
<1>0. /\ TypeOK /\ TypeOK' /\ RefundsKept /\ ChainKept
      /\ \A t \in Transfers : RowMoves(t)
  BY RefundsStep, ChainKeeps, RowsStep, TypeStep DEF Inv
<1>1. /\ on \in [Transfers -> Nat] /\ on' \in [Transfers -> Nat]
      /\ final \in Nat /\ until \in [Refunds -> Nat]
  BY <1>0 DEF TypeOK, ChainTypeOK
<1>2. ASSUME NEW t \in Transfers, RefundOf(t) \in Opened
      PROVE  RefundOf(t) \in Opened' /\ until'[RefundOf(t)] = until[RefundOf(t)]
  BY <1>0, <1>2, OpenedStays
<1>3. ASSUME NEW t \in Transfers, on'[t] # 0 \/ row'[t].reason # "none"
      PROVE  RefundOf(t) \in Opened
  <2>1. CASE on'[t] # 0
    BY <1>0, <2>1 DEF ChainKept, Inv, KeysOpened
  <2>2. CASE row'[t].reason # "none"
    BY <1>0, <2>2 DEF RowMoves, Inv, KeysOpened
  <2> QED
    BY <1>3, <2>1, <2>2
<1>4. KeysOpened'
  BY <1>2, <1>3 DEF KeysOpened, RefundOf
<1>5. ASSUME NEW t \in Transfers, row'[t].reason = "matched"
      PROVE  InTime(t, row'[t].height, until'[RefundOf(t)])
  <2>1. RefundOf(t) \in Opened
    BY <1>3, <1>5
  <2>2. CASE row'[t] = row[t]
    <3>1. InTime(t, row[t].height, until[RefundOf(t)])
      BY <1>5, <2>2 DEF Inv, RowsJudged
    <3> QED
      BY <1>2, <2>1, <2>2, <3>1
  <2>3. CASE /\ on[t] # 0
             /\ row'[t].reason = JudgeRefund(t, on[t])
             /\ row'[t].height = on[t]
    <3>1. JudgeRefund(t, on[t]) = "matched"
      BY <1>5, <2>3
    <3>2. /\ Carries[t] \notin {"elsewhere", "short", "over"} /\ Sender(t) = "merchant"
          /\ ~(on[t] >= until[RefundOf(t)])
      BY <3>1 DEF JudgeRefund
    <3>3. Carries[t] \in {"exact", "later"}
      BY <3>2 DEF Terms
    <3>4. until[RefundOf(t)] \in Nat /\ on[t] \in Nat
      BY <1>1, NonceType
    <3>5. InTime(t, on[t], until[RefundOf(t)])
      BY <2>3, <3>2, <3>3, <3>4 DEF InTime
    <3> QED
      BY <1>2, <2>1, <2>3, <3>5
  <2> QED
    BY <1>0, <1>5, <2>2, <2>3 DEF RowMoves
<1> QED
  BY <1>4, <1>5 DEF RowsJudged, InTime, RefundOf, Sender

\* What a task holds was read or judged so, and what it heard final stays.
LEMMA TasksStep ==
  ASSUME Inv, [Next]_vars
  PROVE  TasksRead' /\ TasksJudged' /\ FinalStays'
<1>0. /\ TypeOK /\ TypeOK' /\ RefundsKept /\ ChainKept
      /\ \A w \in Workers : TaskMoves(w)
  BY RefundsStep, ChainKeeps, TaskStep, TypeStep DEF Inv
<1>1. /\ on \in [Transfers -> Nat] /\ final \in Nat /\ final' \in Nat
      /\ version \in [Refunds -> Nat] /\ version' \in [Refunds -> Nat]
      /\ task \in [Workers -> Candidate \cup Due \cup {NoTask}]
  BY <1>0 DEF TypeOK, ChainTypeOK
<1>2. NoTask \notin Candidate /\ NoTask \notin Due /\ Candidate \cap Due = {}
  BY DEF NoTask, Candidate, Due
<1> DEFINE Read(k) == /\ k.refund \in Opened'
                      /\ k.version <= version'[k.refund]
                      /\ k.version = version'[k.refund] => status'[k.refund] = k.status
           Judged(k) == /\ RefundOf(k.transfer) = k.refund
                        /\ InTime(k.transfer, k.height, until'[k.refund])
           Stays(k) == on'[k.transfer] = k.height /\ k.height <= final'
<1>3. ASSUME NEW r \in Refunds, status[r] \in Open PROVE r \in Opened
  BY <1>3 DEF Open, Opened
<1>4. ASSUME NEW w \in Workers, task'[w] = task[w]
      PROVE  /\ task[w] # NoTask => Read(task[w])
             /\ task[w] \in Candidate => Judged(task[w])
             /\ task[w] \in Candidate /\ task[w].phase = "final" => Stays(task[w])
  <2>1. ASSUME task[w] # NoTask PROVE Read(task[w])
    <3>1. /\ task[w].refund \in Opened
          /\ task[w].version <= version[task[w].refund]
          /\ task[w].version = version[task[w].refund] =>
                status[task[w].refund] = task[w].status
      BY <2>1 DEF Inv, TasksRead
    <3>2. task[w].refund \in Refunds /\ task[w].version \in Nat
      <4>1. task[w] \in Candidate \/ task[w] \in Due
        BY <1>1, <2>1
      <4> QED
        BY <4>1 DEF Candidate, Due
    <3>3. task[w].refund \in Opened'
      BY <1>0, <3>1, OpenedStays
    <3>4. status[task[w].refund] # "none"
      BY <3>1 DEF Opened
    <3> QED
      <4> DEFINE r == task[w].refund
                 v == task[w].version
      <4>1. /\ r \in Refunds /\ v \in Nat /\ v <= version[r]
            /\ v = version[r] => status[r] = task[w].status
            /\ status[r] # "none" /\ r \in Opened'
        BY <3>1, <3>2, <3>3, <3>4
      <4> HIDE DEF r, v
      <4>2. /\ version[r] <= version'[r] /\ version[r] \in Nat /\ version'[r] \in Nat
            /\ version'[r] = version[r] => status'[r] = status[r]
        BY <1>0, <1>1, <4>1 DEF RefundsKept
      <4>3. v <= version'[r]
        BY <4>1, <4>2
      <4>4. ASSUME v = version'[r] PROVE status'[r] = task[w].status
        <5> DEFINE before == version[r]
                   after  == version'[r]
        <5>1. v \in Nat /\ before \in Nat /\ after \in Nat
              /\ v <= before /\ before <= after /\ v = after
          BY <4>1, <4>2, <4>4
        <5> HIDE DEF before, after
        <5>2. v = before /\ after = before
          BY <5>1
        <5> QED
          BY <4>1, <4>2, <5>2 DEF before, after
      <4> QED
        BY <4>1, <4>3, <4>4 DEF r, v
  <2>2. ASSUME task[w] \in Candidate PROVE Judged(task[w])
    <3>1. /\ RefundOf(task[w].transfer) = task[w].refund
          /\ InTime(task[w].transfer, task[w].height, until[task[w].refund])
      BY <2>2 DEF Inv, TasksJudged
    <3>2. task[w].refund \in Opened
      BY <1>2, <2>2 DEF Inv, TasksRead
    <3>3. until'[task[w].refund] = until[task[w].refund]
      BY <1>0, <3>2, OpenedStays
    <3> QED
      BY <1>4, <3>1, <3>3
  <2>3. ASSUME task[w] \in Candidate, task[w].phase = "final" PROVE Stays(task[w])
    <3>1. on[task[w].transfer] = task[w].height /\ task[w].height <= final
      BY <2>3 DEF Inv, FinalStays
    <3>2. task[w].transfer \in Transfers /\ task[w].height > 0
      BY <2>3 DEF Inv, TasksJudged, InTime, Candidate
    <3>3. on[task[w].transfer] \in 1 .. final
      BY <1>1, <3>1, <3>2
    <3> QED
      BY <1>0, <1>1, <3>1, <3>2, <3>3 DEF ChainKept
  <2> QED
    BY <2>1, <2>2, <2>3
<1>5. ASSUME NEW w \in Workers, task[w] \in Candidate, UNCHANGED <<chainVars, refundVars>>,
             NEW ph \in {"gone", "final"}, task'[w] = [task[w] EXCEPT !.phase = ph],
             task[w].height <= final,
             ph = "final" => on[task[w].transfer] = task[w].height
      PROVE  /\ Read(task'[w]) /\ Judged(task'[w])
             /\ task'[w].phase = "final" => Stays(task'[w])
  <2>1. /\ task'[w].refund = task[w].refund /\ task'[w].version = task[w].version
        /\ task'[w].status = task[w].status /\ task'[w].transfer = task[w].transfer
        /\ task'[w].height = task[w].height /\ task'[w].phase = ph
    BY <1>5 DEF Candidate
  <2>2. Read(task'[w])
    BY <1>2, <1>5, <2>1 DEF Inv, TasksRead, refundVars, Opened
  <2>3. Judged(task'[w])
    BY <1>5, <2>1 DEF Inv, TasksJudged, refundVars
  <2>4. ph = "final" => Stays(task'[w])
    BY <1>5, <2>1 DEF chainVars
  <2> QED
    BY <2>1, <2>2, <2>3, <2>4
<1>6. ASSUME NEW w \in Workers, NEW t \in Transfers, row[t].reason = "matched",
             status[RefundOf(t)] \in Open, UNCHANGED <<chainVars, refundVars>>,
             task'[w] = [phase |-> "asking", transfer |-> t,
                         height |-> row[t].height, fork |-> row[t].fork,
                         refund |-> RefundOf(t), status |-> status[RefundOf(t)],
                         version |-> version[RefundOf(t)]]
      PROVE  Read(task'[w]) /\ Judged(task'[w]) /\ task'[w].phase # "final"
  <2>1. /\ task'[w].refund = RefundOf(t) /\ task'[w].version = version[RefundOf(t)]
        /\ task'[w].status = status[RefundOf(t)] /\ task'[w].transfer = t
        /\ task'[w].height = row[t].height /\ task'[w].phase = "asking"
    BY <1>6
  <2>2. RefundOf(t) \in Refunds /\ RefundOf(t) \in Opened
    BY <1>3, <1>6, NonceType
  <2>3. Read(task'[w])
    BY <1>1, <1>6, <2>1, <2>2 DEF refundVars, Opened
  <2>4. Judged(task'[w])
    BY <1>6, <2>1 DEF Inv, RowsJudged, refundVars
  <2> QED
    BY <2>1, <2>3, <2>4
<1>7. ASSUME NEW w \in Workers, NEW r \in Refunds, NEW ph \in {"overdue", "unsettled"},
             status[r] \in Open, UNCHANGED <<chainVars, refundVars>>,
             task'[w] = [phase |-> ph, refund |-> r, status |-> status[r],
                         version |-> version[r]]
      PROVE  Read(task'[w]) /\ task'[w] \notin Candidate
  <2>1. /\ task'[w].refund = r /\ task'[w].version = version[r]
        /\ task'[w].status = status[r] /\ task'[w].phase = ph
    BY <1>7
  <2>2. r \in Opened
    BY <1>3, <1>7
  <2> QED
    BY <1>1, <1>7, <2>1, <2>2 DEF refundVars, Opened, Candidate
<1>8. ASSUME NEW w \in Workers
      PROVE  /\ task'[w] # NoTask => Read(task'[w])
             /\ task'[w] \in Candidate => Judged(task'[w])
             /\ task'[w] \in Candidate /\ task'[w].phase = "final" => Stays(task'[w])
  <2>1. CASE task'[w] = task[w]
    BY <1>4, <2>1
  <2>2. CASE task'[w] = NoTask
    BY <1>2, <2>2
  <2>3. CASE task'[w] # task[w] /\ task'[w] # NoTask
    <3> HIDE DEF Read, Judged, Stays
    <3> QED
      BY <1>0, <1>5, <1>6, <1>7, <2>3 DEF TaskMoves
  <2> QED
    BY <2>1, <2>2, <2>3
<1> QED
  BY <1>8 DEF TasksRead, TasksJudged, FinalStays, RefundOf, Opened, InTime, Sender

\* An end is told when it happens.
LEMMA ToldStep ==
  ASSUME Inv, [Next]_vars
  PROVE  Told'
<1>0. RefundsMove /\ RefundsKept /\ status \in [Refunds -> Statuses]
  BY RefundsStep DEF Inv, TypeOK
<1>1. ASSUME NEW r \in Refunds
      PROVE  outbox'[r] = IF status'[r] \in Ended THEN <<status'[r]>> ELSE <<>>
  <2>1. outbox[r] = IF status[r] \in Ended THEN <<status[r]>> ELSE <<>>
    BY DEF Inv, Told
  <2>2. CASE status'[r] = status[r] /\ outbox'[r] = outbox[r]
    BY <2>1, <2>2
  <2>3. CASE status[r] = "none" /\ status'[r] = "created" /\ outbox'[r] = outbox[r]
    BY <2>1, <2>3 DEF Ended
  <2>4. CASE /\ CanBecome(status[r], status'[r])
             /\ outbox'[r] = IF status'[r] \in Ended THEN Append(outbox[r], status'[r])
                                                     ELSE outbox[r]
    <3>1. status[r] \notin Ended
      BY <1>0, <2>4 DEF CanBecome, Moves, Ended, Statuses
    <3>2. outbox[r] = <<>>
      BY <2>1, <3>1
    <3>3. Append(<<>>, status'[r]) = <<status'[r]>>
      OBVIOUS
    <3> QED
      BY <2>4, <3>2, <3>3
  <2> QED
    BY <1>0, <2>2, <2>3, <2>4 DEF RefundsMove, Moved
<1> QED
  BY <1>1 DEF Told

\* A refund is succeeded only by a task that heard its transfer final.
LEMMA SucceededStep ==
  ASSUME Inv, [Next]_vars
  PROVE  SucceededIsSent'
<1>0. /\ TypeOK /\ TypeOK' /\ RefundsKept /\ RefundsMove /\ ChainKept
  BY RefundsStep, ChainKeeps, TypeStep DEF Inv
<1>1. /\ on \in [Transfers -> Nat] /\ final \in Nat /\ final' \in Nat
      /\ task \in [Workers -> Candidate \cup Due \cup {NoTask}]
      /\ until \in [Refunds -> Nat]
  BY <1>0 DEF TypeOK, ChainTypeOK
<1> DEFINE Sends_(t, r) == /\ RefundOf(t) = r
                           /\ Sender(t) = "merchant"
                           /\ Carries[t] \in {"exact", "later"}
                           /\ on[t] \in 1 .. final
                           /\ on[t] < until[r]
<1>2. ASSUME NEW r \in Refunds, status'[r] = "succeeded"
      PROVE  r \in Opened /\ \E t \in Transfers : Sends_(t, r)
  <2>1. CASE status[r] = "succeeded"
    BY <2>1 DEF Inv, SucceededIsSent, RowsOf, Opened
  <2>2. CASE status[r] # "succeeded"
    <3>1. PICK w \in Workers : /\ Settle(w) \/ AwaitFinality(w) \/ Expire(w)
                               /\ task[w].refund = r
      BY <1>0, <1>2, <2>2 DEF RefundsMove, Moved
    <3>2. r \in Opened
      BY <1>0, <3>1, SaveStep DEF Inv
    <3>3. Settle(w)
      <4>1. status \in [Refunds -> Statuses]
        BY <1>0 DEF TypeOK
      <4>2. ASSUME AwaitFinality(w) \/ Expire(w) PROVE FALSE
        <5>1. status'[r] \in {"awaiting_finality", "expired"}
          BY <3>1, <4>1, <4>2 DEF AwaitFinality, Expire, Save
        <5> QED
          BY <1>2, <5>1
      <4> QED
        BY <3>1, <4>2
    <3>4. task[w] \in Candidate /\ task[w].phase = "final"
      BY <1>1, <3>3, TaskPhases DEF Settle
    <3>5. /\ task[w].transfer \in Transfers
          /\ on[task[w].transfer] = task[w].height
          /\ task[w].height <= final
          /\ RefundOf(task[w].transfer) = r
          /\ InTime(task[w].transfer, task[w].height, until[r])
      BY <3>1, <3>4 DEF Inv, FinalStays, TasksJudged, Candidate
    <3>6. Sends_(task[w].transfer, r)
      BY <1>1, <3>5 DEF InTime
    <3> QED
      BY <3>2, <3>5, <3>6
  <2> QED
    BY <2>1, <2>2
<1>3. ASSUME NEW r \in Refunds, NEW t \in Transfers, r \in Opened, Sends_(t, r)
      PROVE  on'[t] \in 1 .. final' /\ on'[t] < until'[r]
  <2>1. on'[t] = on[t] /\ final <= final' /\ until'[r] = until[r]
    BY <1>0, <1>3, OpenedStays DEF ChainKept
  <2> QED
    BY <1>1, <1>3, <2>1
<1> QED
  BY <1>2, <1>3 DEF SucceededIsSent, RowsOf, RefundOf, Sender

\* The strengthening holds at first, and every step keeps it.
LEMMA InvInit == Init => Inv
<1> SUFFICES ASSUME Init PROVE Inv
  OBVIOUS
<1>1. TypeOK
  BY TypeInit
<1>2. KeysOpened /\ RowsJudged
  BY DEF Init, ChainInit, KeysOpened, RowsJudged, NoRow
<1>3. TasksRead /\ TasksJudged /\ FinalStays
  BY DEF Init, TasksRead, TasksJudged, FinalStays, NoTask, Candidate
<1>4. Told /\ SucceededIsSent
  BY DEF Init, Told, SucceededIsSent, Ended
<1> QED
  BY <1>1, <1>2, <1>3, <1>4 DEF Inv

LEMMA InvStep == Inv /\ [Next]_vars => Inv'
<1> SUFFICES ASSUME Inv, [Next]_vars PROVE Inv'
  OBVIOUS
<1>1. TypeOK'
  BY TypeStep DEF Inv
<1> QED
  BY <1>1, JudgedStep, TasksStep, ToldStep, SucceededStep DEF Inv

\* What carries a transfer's judgement from the chain to the refund it settles.
THEOREM Inductive == Spec => []Inv
<1>1. Init => Inv
  BY InvInit
<1>2. Inv /\ [Next]_vars => Inv'
  BY InvStep
<1> QED
  BY <1>1, <1>2, PTL DEF Spec

\* No refund is called succeeded that the final part of the chain does not carry,
\* of its amount, between the right wallets and in time, whatever the provider
\* calls final and however late a worker acts on what it was answered.
THEOREM SucceededIsAlwaysSent == Spec => []SucceededIsSent
<1>1. Inv => SucceededIsSent
  BY DEF Inv
<1> QED
  BY <1>1, Inductive, PTL

\* Both of what is checked of refunds adrift.
THEOREM RefundsAlwaysHold == Spec => []RefundsHold
<1>1. TypeOK /\ SucceededIsSent => RefundsHold
  BY DEF RefundsHold
<1> QED
  BY <1>1, TypeCorrect, SucceededIsAlwaysSent, PTL

\* A refund that ended is never moved again, and its end is told once: of two
\* workers with the same refund in hand, the version lets one through.
THEOREM EndsForGood == Spec => EndsOnce
<1>1. ASSUME Inv, [Next]_vars
      PROVE  [\A r \in Refunds :
                /\ status[r] \in Ended => status'[r] = status[r]
                /\ outbox'[r] = IF status'[r] \in Ended THEN <<status'[r]>> ELSE <<>>]_vars
  <2>1. RefundsMove /\ Told' /\ status \in [Refunds -> Statuses]
    BY <1>1, RefundsStep, ToldStep DEF Inv, TypeOK
  <2>2. ASSUME NEW r \in Refunds, status[r] \in Ended PROVE status'[r] = status[r]
    <3>1. status[r] # "none" /\ \A s \in Statuses : ~CanBecome(status[r], s)
      BY <2>1, <2>2 DEF Ended, CanBecome, Moves, Statuses
    <3>2. ~CanBecome(status[r], status'[r])
      BY <2>1, <2>2 DEF Ended, CanBecome, Moves, Statuses
    <3> QED
      BY <2>1, <3>1, <3>2 DEF RefundsMove, Moved
  <2> QED
    BY <2>1, <2>2 DEF Told
<1> QED
  BY <1>1, Inductive, PTL DEF Spec, EndsOnce

-----------------------------------------------------------------------
(***************************************************************************)
(* Opening: the ceiling, and what a request is answered.                   *)
(***************************************************************************)
\* What the refunds of every payment hold is within what it received.
Ceiling == \A p \in Payments : Held(p) <= Received[p]

\* A refund was opened by a request, for the amount it named, and the request
\* in hand asks for that amount.
OpenedAsAsked ==
    /\ \A r \in Opened : /\ by[r] \in Requests
                         /\ Asks[by[r]] # 0 => amount[r] = Asks[by[r]]
    /\ \A q \in Requests :
          asked[q] # NotAsked /\ Asks[q] # 0 => asked[q].amount = Asks[q]

HeardOpened == \A q \in Requests : heard[q] \ {"refused"} \subseteq Opened

Opening == /\ Inv
           /\ OpenedAsAsked
           /\ HeardOpened
           /\ AnsweredWithItsOwn
           /\ Ceiling

\* The store opens r for q.
Opens(q, r) ==
    /\ asked[q] # NotAsked
    /\ Fits(q)
    /\ ByKey(Under[q]) = {}
    /\ status[r] = "none"
    /\ by' = [by EXCEPT ![r] = q]
    /\ amount' = [amount EXCEPT ![r] = asked[q].amount]
    /\ until' = [until EXCEPT ![r] = asked[q].until]
    /\ status' = [status EXCEPT ![r] = "created"]
    /\ Answer(q, r)
    /\ asked' = [asked EXCEPT ![q] = NotAsked]
    /\ UNCHANGED <<version, outbox>>

\* What a step does of the requests and of what was opened for them.
OpeningMoves ==
    \/ UNCHANGED <<refundVars, asked, heard>>
    \/ /\ UNCHANGED <<by, amount, until, asked, heard>>
       /\ \E w \in Workers : Settle(w) \/ AwaitFinality(w) \/ Expire(w)
    \/ \E q \in Requests :
          \/ Ask(q)
          \/ DropRequest(q)
          \/ /\ UNCHANGED refundVars
             /\ asked' = [asked EXCEPT ![q] = NotAsked]
             /\ \/ Answer(q, "refused")
                \/ \E first \in ByKey(Under[q]) :
                      Answer(q, IF Repeats(q, first) THEN first ELSE "refused")
          \/ \E r \in Refunds : Opens(q, r)

\* A step opens one refund, answers one request, or leaves both alone.
LEMMA OpeningMoveStep == [Next]_vars => OpeningMoves
<1> SUFFICES ASSUME [Next]_vars PROVE OpeningMoves
  OBVIOUS
<1>1. ASSUME NEW q \in Requests, Ask(q) \/ CreateRefund(q) \/ DropRequest(q)
      PROVE  OpeningMoves
  <2>1. CASE CreateRefund(q)
    BY <2>1 DEF CreateRefund, OpeningMoves, Opens
  <2> QED
    BY <1>1, <2>1 DEF OpeningMoves
<1>2. ASSUME NEW w \in Workers, WorkerStep(w) \/ PassOver(w) PROVE OpeningMoves
  <2>1. CASE Settle(w) \/ AwaitFinality(w) \/ Expire(w)
    BY <2>1 DEF Settle, AwaitFinality, Expire, Save, requestVars, OpeningMoves
  <2>2. CASE \/ \E t \in Transfers : TakeCandidate(w, t)
             \/ \E r \in Refunds : TakeOverdue(w, r) \/ TakeUnsettled(w, r)
             \/ Answered(w) \/ GiveUp(w) \/ PassOver(w)
    BY <2>2 DEF TakeCandidate, TakeOverdue, TakeUnsettled, Undertake, Answered,
                GiveUp, PassOver, requestVars, OpeningMoves
  <2> QED
    BY <1>2, <2>1, <2>2 DEF WorkerStep
<1>3. CASE \/ ChainMines \/ ChainForks \/ ChainFinalizes \/ Tick \/ ObserverStep
           \/ UNCHANGED vars
  BY <1>3 DEF ChainMines, ChainForks, ChainFinalizes, Tick, ObserverStep, ReadBehind,
              ReadAhead, vars, requestVars, OpeningMoves
<1> QED
  BY <1>1, <1>2, <1>3 DEF Next

Holding(p) == {r \in RefundsOf(p) : status[r] # "expired"}

\* What a payment's refunds hold, now and after, as sums.
LEMMA HeldIs ==
  ASSUME TypeOK, TypeOK', NEW p \in Payments
  PROVE  /\ Holding(p) \in SUBSET Refunds /\ IsFiniteSet(Holding(p))
         /\ Held(p) = SumOf(amount, Holding(p))
         /\ Held(p)' = SumOf(amount', Holding(p)')
         /\ Held(p) \in Nat /\ Held(p)' \in Nat /\ Received[p] \in Nat
<1>1. Holding(p) \in SUBSET Refunds
  BY DEF Holding, RefundsOf, Opened
<1>2. Held(p) \in Nat
  BY TypeHeld
<1>3. Held(p)' \in Nat
  <2>1. Holding(p)' \in SUBSET Refunds
    BY DEF Holding, RefundsOf, Opened
  <2>2. IsFiniteSet(Holding(p)') /\ amount' \in [Refunds -> Nat]
    BY <2>1, FS_Subset DEF TypeOK
  <2>3. \A x \in Holding(p)' : amount'[x] \in Nat
    BY <2>1, <2>2
  <2>4. SumOf(amount', Holding(p)') \in Nat
    BY <2>2, <2>3, SumAdds
  <2> QED
    BY <2>4 DEF Held, Holding, TotalOf
<1> QED
  BY <1>1, <1>2, <1>3, FS_Subset DEF Held, Holding, TotalOf

\* Nothing is held otherwise while the refunds stay as they are.
LEMMA KeptHeld ==
  ASSUME TypeOK, TypeOK', UNCHANGED refundVars, NEW p \in Payments
  PROVE  Held(p)' = Held(p)
BY HeldIs DEF refundVars, Holding, RefundsOf, PaymentOf, Opened

\* A refund that a worker moves holds what it held, unless it expires.
LEMMA SaveHeld ==
  ASSUME TypeOK, TypeOK', TasksRead, NEW w \in Workers,
         Settle(w) \/ AwaitFinality(w) \/ Expire(w), NEW p \in Payments
  PROVE  IF status'[task[w].refund] = "expired" /\ p = PaymentOf(task[w].refund)
         THEN Held(p) = amount[task[w].refund] + Held(p)'
         ELSE Held(p)' = Held(p)
<1> DEFINE r == task[w].refund
<1>0. amount \in [Refunds -> Nat] /\ status \in [Refunds -> Statuses]
  BY DEF TypeOK
<1>1. /\ r \in Opened /\ r \in Refunds /\ task[w].status = status[r]
  BY SaveStep DEF Opened
<1>2. PICK want \in {"succeeded", "awaiting_finality", "expired"} : Save(w, want)
  BY DEF Settle, AwaitFinality, Expire
<1>3. /\ CanBecome(status[r], want) /\ status' = [status EXCEPT ![r] = want]
      /\ UNCHANGED <<by, amount>>
  BY <1>1, <1>2 DEF Save
<1>4. status[r] # "expired" /\ status[r] # "none" /\ status'[r] = want
  BY <1>0, <1>1, <1>3 DEF CanBecome, Moves, Opened
<1> HIDE DEF r
<1>5. Opened' = Opened
  BY <1>0, <1>1, <1>3, <1>4 DEF Opened
<1>6. RefundsOf(p)' = RefundsOf(p) /\ (r \in RefundsOf(p) <=> p = PaymentOf(r))
  BY <1>1, <1>3, <1>5 DEF RefundsOf, PaymentOf
<1>7. CASE want = "expired" /\ p = PaymentOf(r)
  <2>1. Holding(p)' = Holding(p) \ {r} /\ r \in Holding(p)
    BY <1>0, <1>1, <1>3, <1>4, <1>6, <1>7 DEF Holding, RefundsOf, Opened
  <2>2. \A x \in Holding(p) : amount[x] \in Nat
    BY <1>0, HeldIs
  <2>3. SumOf(amount, Holding(p)) = amount[r] + SumOf(amount, Holding(p) \ {r})
    BY <2>1, <2>2, HeldIs, SumAdds
  <2>4. Held(p)' = SumOf(amount, Holding(p) \ {r})
    BY <1>3, <2>1, HeldIs
  <2>5. Held(p) = amount[r] + Held(p)'
    BY <2>3, <2>4, HeldIs
  <2> QED
    BY <1>4, <1>7, <2>5 DEF r
<1>8. CASE want # "expired" \/ p # PaymentOf(r)
  <2>1. Holding(p)' = Holding(p)
    BY <1>0, <1>1, <1>3, <1>4, <1>6, <1>8 DEF Holding, RefundsOf, Opened
  <2>2. Held(p)' = Held(p)
    BY <1>3, <2>1, HeldIs
  <2> QED
    BY <1>4, <1>8, <2>2 DEF r
<1> QED
  BY <1>7, <1>8

\* What the store opens holds its amount, of the payment that was asked for.
LEMMA OpensHeld ==
  ASSUME TypeOK, TypeOK', NEW q \in Requests, NEW r \in Refunds, Opens(q, r),
         NEW p \in Payments
  PROVE  Held(p)' = IF p = For[q] THEN asked[q].amount + Held(p) ELSE Held(p)
<1>0. /\ amount \in [Refunds -> Nat] /\ amount' \in [Refunds -> Nat]
      /\ by \in [Refunds -> Requests \cup {Nobody}] /\ status \in [Refunds -> Statuses]
  BY DEF TypeOK
<1>1. /\ Opened' = Opened \cup {r} /\ r \notin Opened
      /\ \A x \in Opened : by'[x] = by[x] /\ amount'[x] = amount[x] /\ status'[x] = status[x]
      /\ by'[r] = q /\ amount'[r] = asked[q].amount /\ status'[r] = "created"
  BY <1>0 DEF Opens, Opened
<1>2. r \notin Holding(p) /\ Holding(p) \subseteq Opened
  BY <1>1 DEF Holding, RefundsOf, Opened
<1>3. SumOf(amount, Holding(p)) = SumOf(amount', Holding(p))
  <2>1. \A x \in Holding(p) : amount[x] \in Nat /\ amount'[x] = amount[x]
    BY <1>0, <1>1, <1>2, HeldIs
  <2> QED
    BY <2>1, HeldIs, SumSame
<1>4. CASE p = For[q]
  <2>1. Holding(p)' = Holding(p) \cup {r}
    BY <1>1, <1>4 DEF Holding, RefundsOf, PaymentOf
  <2>2. IsFiniteSet(Holding(p)')
    <3>1. IsFiniteSet(Holding(p))
      BY HeldIs
    <3>2. IsFiniteSet(Holding(p) \cup {r})
      BY <3>1, FS_AddElement
    <3> QED
      BY <2>1, <3>2
  <2>3. Holding(p)' \ {r} = Holding(p) /\ r \in Holding(p)'
    <3>1. \A s : r \notin s => (s \cup {r}) \ {r} = s
      OBVIOUS
    <3> QED
      BY <1>2, <2>1, <3>1, Zenon
  <2>4. \A x \in Holding(p)' : amount'[x] \in Nat
    BY <1>0, <2>1, HeldIs
  <2>5. SumOf(amount', Holding(p)') = amount'[r] + SumOf(amount', Holding(p)' \ {r})
    BY <2>2, <2>3, <2>4, SumAdds
  <2> QED
    BY <1>1, <1>3, <1>4, <2>3, <2>5, HeldIs
<1>5. CASE p # For[q]
  <2>1. Holding(p)' = Holding(p)
    BY <1>1, <1>5 DEF Holding, RefundsOf, PaymentOf
  <2> QED
    BY <1>3, <1>5, <2>1, HeldIs
<1> QED
  BY <1>4, <1>5

\* Opening one refund under the lock leaves the ceiling; no other step holds more.
LEMMA CeilingStep ==
  ASSUME Opening, [Next]_vars
  PROVE  Ceiling'
<1> SUFFICES ASSUME NEW p \in Payments PROVE Held(p)' <= Received[p]
  BY DEF Ceiling
<1>0. /\ TypeOK /\ TypeOK' /\ TasksRead /\ OpeningMoves
      /\ amount \in [Refunds -> Nat]
      /\ asked \in [Requests -> [amount : Nat, until : Nat]]
      /\ Held(p) <= Received[p]
  BY OpeningMoveStep, TypeStep DEF Opening, Inv, TypeOK, Ceiling
<1>1. Held(p) \in Nat /\ Held(p)' \in Nat /\ Received[p] \in Nat
  BY <1>0, HeldIs
<1>2. CASE UNCHANGED refundVars
  BY <1>0, <1>2, KeptHeld
<1>3. ASSUME NEW w \in Workers, Settle(w) \/ AwaitFinality(w) \/ Expire(w)
      PROVE  Held(p)' <= Received[p]
  <2>1. amount[task[w].refund] \in Nat
    BY <1>0, <1>3, SaveStep DEF Opened
  <2>2. Held(p) = amount[task[w].refund] + Held(p)' \/ Held(p)' = Held(p)
    BY <1>0, <1>3, SaveHeld
  <2> QED
    BY <1>0, <1>1, <2>1, <2>2
<1>4. ASSUME NEW q \in Requests, NEW r \in Refunds, Opens(q, r)
      PROVE  Held(p)' <= Received[p]
  <2>1. asked[q].amount \in Nat
    BY <1>0
  <2>2. CASE p = For[q]
    <3>1. Held(p)' = asked[q].amount + Held(p)
      BY <1>0, <1>4, <2>2, OpensHeld
    <3>2. asked[q].amount <= Received[p] - Held(p)
      BY <1>4, <2>2 DEF Opens, Fits
    <3> QED
      BY <1>1, <2>1, <3>1, <3>2
  <2>3. CASE p # For[q]
    BY <1>0, <1>4, <2>3, OpensHeld
  <2> QED
    BY <2>2, <2>3
<1> QED
  BY <1>0, <1>2, <1>3, <1>4 DEF OpeningMoves, Ask, DropRequest

\* A refund answered to q is one q may be answered with.
Fitting(q, r) == /\ PaymentOf(r) = For[q]
                 /\ Under[by[r]] = Under[q]
                 /\ Asks[q] # 0 => amount[r] = Asks[q]

KeysOnce == \A r, s \in Opened : r # s => Under[by[r]] # Under[by[s]] \/ Under[by[r]] = NoKey

\* The property restated: keys open once, and every refund heard fits.
LEMMA AnswersAre ==
  AnsweredWithItsOwn <=>
      /\ KeysOnce
      /\ \A q \in Requests : \A r \in heard[q] \ {"refused"} : Fitting(q, r)
  BY DEF AnsweredWithItsOwn, KeysOnce, Fitting

\* No step opens a key twice or answers with a refund that does not fit.
LEMMA AnswersStep ==
  ASSUME Opening, [Next]_vars
  PROVE  OpenedAsAsked' /\ HeardOpened' /\ AnsweredWithItsOwn'
<1>0. /\ TypeOK /\ TasksRead /\ OpeningMoves
      /\ OpenedAsAsked /\ HeardOpened /\ KeysOnce
      /\ \A q \in Requests : \A r \in heard[q] \ {"refused"} : Fitting(q, r)
  BY OpeningMoveStep, AnswersAre DEF Opening, Inv
<1>1. /\ amount \in [Refunds -> Nat] /\ by \in [Refunds -> Requests \cup {Nobody}]
      /\ status \in [Refunds -> Statuses]
      /\ asked \in [Requests -> [amount : Nat, until : Nat]]
      /\ heard \in [Requests -> SUBSET Answers]
  BY <1>0 DEF TypeOK
<1>2. ASSUME UNCHANGED <<by, amount>>, Opened' = Opened,
             \A q \in Requests :
                /\ asked'[q] = asked[q] \/ asked'[q] = NotAsked
                   \/ (Asks[q] # 0 => asked'[q].amount = Asks[q])
                /\ \A r \in heard'[q] \ {"refused"} :
                      r \in heard[q] \/ (r \in Opened /\ Fitting(q, r))
      PROVE  OpenedAsAsked' /\ HeardOpened' /\ AnsweredWithItsOwn'
  <2>1. OpenedAsAsked'
    BY <1>0, <1>2 DEF OpenedAsAsked
  <2>2. HeardOpened'
    BY <1>0, <1>2 DEF HeardOpened
  <2>3. AnsweredWithItsOwn'
    BY <1>0, <1>2 DEF AnsweredWithItsOwn, KeysOnce, Fitting, PaymentOf
  <2> QED
    BY <2>1, <2>2, <2>3
<1>3. ASSUME UNCHANGED refundVars PROVE UNCHANGED <<by, amount>> /\ Opened' = Opened
  BY <1>3 DEF refundVars, Opened
<1>4. CASE UNCHANGED <<refundVars, asked, heard>>
  BY <1>2, <1>3, <1>4
<1>5. ASSUME UNCHANGED <<by, amount, until, asked, heard>>, NEW w \in Workers,
             Settle(w) \/ AwaitFinality(w) \/ Expire(w)
      PROVE  OpenedAsAsked' /\ HeardOpened' /\ AnsweredWithItsOwn'
  <2> DEFINE r == task[w].refund
  <2>1. r \in Opened
    BY <1>0, <1>5, SaveStep
  <2>2. PICK want \in {"succeeded", "awaiting_finality", "expired"} : Save(w, want)
    BY <1>5 DEF Settle, AwaitFinality, Expire
  <2>3. status' = [status EXCEPT ![r] = want]
    BY <2>2 DEF Save
  <2> HIDE DEF r
  <2>4. Opened' = Opened
    BY <1>1, <2>1, <2>3 DEF Opened
  <2> QED
    BY <1>2, <1>5, <2>4
<1>6. ASSUME NEW q \in Requests, Ask(q)
      PROVE  OpenedAsAsked' /\ HeardOpened' /\ AnsweredWithItsOwn'
  <2>1. UNCHANGED <<by, amount>> /\ Opened' = Opened
    BY <1>3, <1>6 DEF Ask
  <2> DEFINE wants == IF Asks[q] = 0 THEN Left(For[q]) ELSE Asks[q]
  <2>2. \/ UNCHANGED asked /\ heard' = [heard EXCEPT ![q] = heard[q] \cup {"refused"}]
        \/ /\ asked' = [asked EXCEPT ![q] = [amount |-> wants, until |-> now + Life]]
           /\ UNCHANGED heard
    BY <1>6 DEF Ask, Wants, NewRefund
  <2>3. Asks[q] # 0 => wants = Asks[q]
    OBVIOUS
  <2> HIDE DEF wants
  <2>4. ASSUME NEW p \in Requests
        PROVE  /\ asked'[p] = asked[p] \/ (Asks[p] # 0 => asked'[p].amount = Asks[p])
               /\ heard'[p] \ {"refused"} \subseteq heard[p]
    <3>1. CASE UNCHANGED asked /\ heard' = [heard EXCEPT ![q] = heard[q] \cup {"refused"}]
      BY <1>1, <3>1
    <3>2. CASE /\ asked' = [asked EXCEPT ![q] = [amount |-> wants, until |-> now + Life]]
               /\ UNCHANGED heard
      <4>1. asked'[p] = asked[p] \/ (p = q /\ asked'[p].amount = wants)
        BY <1>1, <3>2
      <4> QED
        BY <2>3, <3>2, <4>1
    <3> QED
      BY <2>2, <3>1, <3>2
  <2> QED
    BY <1>2, <2>1, <2>4
<1>7. ASSUME NEW q \in Requests, UNCHANGED refundVars,
             asked' = [asked EXCEPT ![q] = NotAsked], NEW what,
             what = "refused" \/ (what \in Opened /\ Fitting(q, what)),
             Answer(q, what) \/ UNCHANGED heard
      PROVE  OpenedAsAsked' /\ HeardOpened' /\ AnsweredWithItsOwn'
  <2>1. ASSUME NEW p \in Requests
        PROVE  /\ asked'[p] = asked[p] \/ asked'[p] = NotAsked
               /\ \A r \in heard'[p] \ {"refused"} :
                     r \in heard[p] \/ (r \in Opened /\ Fitting(p, r))
    BY <1>1, <1>7 DEF Answer
  <2> QED
    BY <1>2, <1>3, <1>7, <2>1
<1>8. ASSUME NEW q \in Requests, DropRequest(q)
      PROVE  OpenedAsAsked' /\ HeardOpened' /\ AnsweredWithItsOwn'
  BY <1>7, <1>8 DEF DropRequest
<1>9. ASSUME NEW q \in Requests, NEW first \in ByKey(Under[q]), Repeats(q, first)
      PROVE  first \in Opened /\ Fitting(q, first)
  <2>1. /\ first \in Opened /\ Under[by[first]] = Under[q]
        /\ PaymentOf(first) = For[q] /\ Asks[by[first]] = Asks[q]
    BY <1>9 DEF ByKey, Repeats
  <2> QED
    BY <1>0, <2>1 DEF OpenedAsAsked, Fitting
<1>10. ASSUME NEW q \in Requests, NEW r \in Refunds, Opens(q, r)
       PROVE  OpenedAsAsked' /\ HeardOpened' /\ AnsweredWithItsOwn'
  <2>1. /\ Opened' = Opened \cup {r} /\ r \notin Opened
        /\ \A x \in Opened : by'[x] = by[x] /\ amount'[x] = amount[x]
        /\ by'[r] = q /\ amount'[r] = asked[q].amount
    BY <1>1, <1>10 DEF Opens, Opened
  <2>2. asked[q] # NotAsked /\ asked' = [asked EXCEPT ![q] = NotAsked]
        /\ Answer(q, r) /\ ByKey(Under[q]) = {}
    BY <1>10 DEF Opens
  <2>3. Asks[q] # 0 => asked[q].amount = Asks[q]
    BY <1>0, <2>2 DEF OpenedAsAsked
  <2>4. OpenedAsAsked'
    <3>1. \A p \in Requests : asked'[p] = NotAsked \/ asked'[p] = asked[p]
      BY <1>1, <2>2
    <3> QED
      BY <1>0, <2>1, <2>3, <3>1 DEF OpenedAsAsked
  <2>5. \A p \in Requests : heard'[p] = heard[p] \/ (p = q /\ heard'[p] = heard[p] \cup {r})
    BY <1>1, <2>2 DEF Answer
  <2>6. HeardOpened'
    BY <1>0, <2>1, <2>5 DEF HeardOpened
  <2>7. KeysOnce'
    <3>1. \A x \in Opened : Under[by[x]] # Under[q] \/ Under[q] = NoKey
      BY <2>2 DEF ByKey
    <3> QED
      BY <1>0, <2>1, <3>1 DEF KeysOnce
  <2>8. ASSUME NEW p \in Requests, NEW x \in heard'[p] \ {"refused"} PROVE Fitting(p, x)'
    <3>1. CASE x \in heard[p]
      <4>1. x \in Opened /\ Fitting(p, x)
        BY <1>0, <2>8, <3>1 DEF HeardOpened
      <4> QED
        BY <2>1, <4>1 DEF Fitting, PaymentOf
    <3>2. CASE x = r /\ p = q
      BY <2>1, <2>3, <3>2 DEF Fitting, PaymentOf
    <3> QED
      BY <2>5, <2>8, <3>1, <3>2
  <2>9. AnsweredWithItsOwn'
    BY <2>7, <2>8 DEF AnsweredWithItsOwn, KeysOnce, Fitting
  <2> QED
    BY <2>4, <2>6, <2>9
<1>11. ASSUME NEW q \in Requests, UNCHANGED refundVars,
              asked' = [asked EXCEPT ![q] = NotAsked],
              \/ Answer(q, "refused")
              \/ \E first \in ByKey(Under[q]) :
                    Answer(q, IF Repeats(q, first) THEN first ELSE "refused")
       PROVE  OpenedAsAsked' /\ HeardOpened' /\ AnsweredWithItsOwn'
  <2>1. CASE Answer(q, "refused")
    BY <1>7, <1>11, <2>1
  <2>2. ASSUME NEW first \in ByKey(Under[q]),
               Answer(q, IF Repeats(q, first) THEN first ELSE "refused")
        PROVE  OpenedAsAsked' /\ HeardOpened' /\ AnsweredWithItsOwn'
    <3>1. CASE Repeats(q, first)
      <4>1. Answer(q, first)
        BY <2>2, <3>1
      <4> QED
        BY <1>7, <1>9, <1>11, <3>1, <4>1
    <3>2. CASE ~Repeats(q, first)
      <4>1. Answer(q, "refused")
        BY <2>2, <3>2
      <4> QED
        BY <1>7, <1>11, <4>1
    <3> QED
      BY <3>1, <3>2
  <2> QED
    BY <1>11, <2>1, <2>2
<1> QED
  BY <1>0, <1>4, <1>5, <1>6, <1>8, <1>10, <1>11 DEF OpeningMoves

\* At first nothing is opened or heard.
LEMMA OpeningInit == Init => Opening
<1> SUFFICES ASSUME Init PROVE Opening
  OBVIOUS
<1>1. Inv
  BY InvInit
<1>2. Opened = {}
  BY DEF Init, Opened
<1>3. OpenedAsAsked /\ HeardOpened /\ AnsweredWithItsOwn
  BY <1>2 DEF Init, OpenedAsAsked, HeardOpened, AnsweredWithItsOwn
<1>4. ASSUME NEW p \in Payments PROVE Held(p) <= Received[p]
  <2>1. {r \in RefundsOf(p) : status[r] # "expired"} = {}
    BY <1>2 DEF RefundsOf
  <2>2. IsFiniteSet({}) /\ SumOf(amount, {}) = 0
    BY FS_EmptySet, SumAdds
  <2>3. Held(p) = 0
    BY <2>1, <2>2 DEF Held, TotalOf
  <2> QED
    BY <2>3
<1> QED
  BY <1>1, <1>3, <1>4 DEF Opening, Ceiling

\* However requests race, repeat and are lost, what was opened is what was asked
\* for, each request heard of its own refunds only, and the refunds of a payment
\* hold no more than it received.
THEOREM OpeningHolds == Spec => []Opening
<1>1. Init => Opening
  BY OpeningInit
<1>2. ASSUME Opening, [Next]_vars PROVE Opening'
  <2>1. Inv'
    BY <1>2, InvStep DEF Opening
  <2> QED
    BY <1>2, <2>1, AnswersStep, CeilingStep DEF Opening
<1> QED
  BY <1>1, <1>2, PTL DEF Spec

\* An idempotency key opens one refund, and no request is answered with a refund
\* of another payment, another amount or another key, however many are sent,
\* repeated, raced and lost.
THEOREM RequestsGetTheirOwn == Spec => []AnsweredWithItsOwn
<1>1. Opening => AnsweredWithItsOwn
  BY DEF Opening
<1> QED
  BY <1>1, OpeningHolds, PTL

\* What the refunds of a payment hold never exceeds what it received, for any
\* number of requests and refunds: the sum under the payment's lock is enough.
THEOREM HeldWithinReceived == Spec => []Ceiling
<1>1. Opening => Ceiling
  BY DEF Opening
<1> QED
  BY <1>1, OpeningHolds, PTL

-----------------------------------------------------------------------
(***************************************************************************)
(* Refunds implements Returns.                                             *)
(***************************************************************************)
\* What a request in hand asks for is not nothing, and no request is on a refund
\* that is not opened.
AskedIsSome ==
    /\ \A q \in Requests : asked[q] # NotAsked => asked[q].amount > 0
    /\ \A r \in Refunds : status[r] = "none" => by[r] = Nobody

Kept == Opening /\ AskedIsSome

\* Asking for nothing is refused, and opening is what sets by.
LEMMA AskedStep ==
  ASSUME Kept, [Next]_vars
  PROVE  AskedIsSome'
<1>0. /\ TypeOK /\ TasksRead /\ OpeningMoves /\ AskedIsSome
      /\ by \in [Refunds -> Requests \cup {Nobody}] /\ status \in [Refunds -> Statuses]
      /\ asked \in [Requests -> [amount : Nat, until : Nat]]
  BY OpeningMoveStep DEF Kept, Opening, Inv, TypeOK
<1>1. ASSUME \A q \in Requests : \/ asked'[q] = asked[q] \/ asked'[q] = NotAsked
                                 \/ asked'[q].amount > 0
      PROVE  \A q \in Requests : asked'[q] # NotAsked => asked'[q].amount > 0
  BY <1>0, <1>1 DEF AskedIsSome
<1>2. ASSUME UNCHANGED refundVars
      PROVE  \A r \in Refunds : status'[r] = "none" => by'[r] = Nobody
  BY <1>0, <1>2 DEF refundVars, AskedIsSome
<1>3. CASE UNCHANGED <<refundVars, asked, heard>>
  BY <1>1, <1>2, <1>3 DEF AskedIsSome
<1>4. ASSUME UNCHANGED <<by, amount, until, asked, heard>>, NEW w \in Workers,
             Settle(w) \/ AwaitFinality(w) \/ Expire(w)
      PROVE  AskedIsSome'
  <2>1. RefundsKept /\ RefundsMove
    BY <1>0, <1>4, SaveStep
  <2>2. \A r \in Refunds : status'[r] = "none" => status[r] = "none"
    BY <2>1 DEF RefundsKept
  <2> QED
    BY <1>0, <1>1, <1>4, <2>2 DEF AskedIsSome
<1>5. ASSUME NEW q \in Requests, Ask(q) PROVE AskedIsSome'
  <2>1. Wants(q) \in Nat
    <3>1. For[q] \in Payments /\ Asks[q] \in Nat /\ Received[For[q]] \in Nat
      OBVIOUS
    <3>2. Held(For[q]) \in Nat
      BY <1>0, <3>1, TypeHeld
    <3> QED
      BY <3>1, <3>2 DEF Wants, Left
  <2>2. CASE UNCHANGED asked
    BY <1>1, <1>2, <1>5, <2>2 DEF Ask, AskedIsSome
  <2>3. CASE Wants(q) # 0 /\ asked' = [asked EXCEPT ![q] = NewRefund(Wants(q))]
    <3>1. \A x \in Requests : asked'[x] = asked[x] \/ asked'[x] = NewRefund(Wants(q))
      BY <1>0, <2>3
    <3>2. NewRefund(Wants(q)).amount > 0
      BY <2>1, <2>3 DEF NewRefund
    <3> QED
      BY <1>1, <1>2, <1>5, <3>1, <3>2 DEF Ask, AskedIsSome
  <2> QED
    BY <1>5, <2>2, <2>3 DEF Ask
<1>6. ASSUME NEW q \in Requests, asked' = [asked EXCEPT ![q] = NotAsked]
      PROVE  \A x \in Requests : asked'[x] = asked[x] \/ asked'[x] = NotAsked
  BY <1>0, <1>6
<1>7. ASSUME NEW q \in Requests, NEW r \in Refunds, Opens(q, r) PROVE AskedIsSome'
  <2>1. \A x \in Refunds : \/ status'[x] = status[x] /\ by'[x] = by[x]
                           \/ status'[x] = "created"
    BY <1>0, <1>7 DEF Opens
  <2> QED
    BY <1>0, <1>1, <1>6, <1>7, <2>1 DEF Opens, AskedIsSome
<1> QED
  BY <1>0, <1>1, <1>2, <1>3, <1>4, <1>5, <1>6, <1>7 DEF OpeningMoves, DropRequest, AskedIsSome

\* Nothing happened to the account.
LEMMA PromiseKept ==
  ASSUME TypeOK, TypeOK', UNCHANGED refundVars
  PROVE  UNCHANGED Promised!vars
<1>1. \A p \in Payments : Held(p)' = Held(p)
  BY KeptHeld
<1>2. Account' = Account
  BY <1>1 DEF Account
<1>3. OpenedOf' = OpenedOf /\ OpenedUnder' = OpenedUnder
  BY DEF refundVars, OpenedOf, OpenedUnder, PaymentOf
<1> QED
  BY <1>2, <1>3 DEF Promised!vars, refundVars

\* A worker's move is one of the account.
LEMMA PromiseMoved ==
  ASSUME TypeOK, TypeOK', TasksRead, Opening, NEW w \in Workers,
         Settle(w) \/ AwaitFinality(w) \/ Expire(w)
  PROVE  Promised!Next
<1> DEFINE r == task[w].refund
<1>0. /\ amount \in [Refunds -> Nat] /\ status \in [Refunds -> Statuses]
      /\ by \in [Refunds -> Requests \cup {Nobody}] /\ outbox \in [Refunds -> Seq(Ended)]
  BY DEF TypeOK
<1>1. r \in Opened /\ r \in Refunds /\ task[w].status = status[r]
  BY SaveStep DEF Opened
<1>2. PICK want \in {"succeeded", "awaiting_finality", "expired"} : Save(w, want)
  BY DEF Settle, AwaitFinality, Expire
<1>3. /\ CanBecome(status[r], want)
      /\ status' = [status EXCEPT ![r] = want]
      /\ outbox' = [outbox EXCEPT ![r] = IF want \in Ended THEN Append(outbox[r], want)
                                                           ELSE outbox[r]]
      /\ UNCHANGED <<by, amount>>
  BY <1>1, <1>2 DEF Save, Announced
<1>4. /\ status[r] = "created" => want # "expired"
      /\ status[r] = "awaiting_finality" => want # "awaiting_finality"
      /\ status[r] \in {"created", "awaiting_finality"}
      /\ status'[r] = want
  BY <1>0, <1>1, <1>3 DEF CanBecome, Moves, Statuses
<1>5. by[r] \in Requests /\ by[r] # Nobody /\ PaymentOf(r) \in Payments
  BY <1>1 DEF Opening, OpenedAsAsked, PaymentOf
<1>6. \A p \in Payments : IF want = "expired" /\ p = PaymentOf(r)
                          THEN Held(p) = amount[r] + Held(p)'
                          ELSE Held(p)' = Held(p)
  BY <1>4, SaveHeld
<1>7. OpenedOf' = OpenedOf /\ OpenedUnder' = OpenedUnder
  BY <1>3 DEF OpenedOf, OpenedUnder, PaymentOf
<1> HIDE DEF r
<1>8. Promised!Move(r, want)
  BY <1>3, <1>7 DEF Promised!Move
<1>9. CASE want # "expired"
  <2>1. Account' = Account
    BY <1>6, <1>9 DEF Account
  <2>2. CASE want = "awaiting_finality"
    <3>1. outbox' = outbox
      BY <1>0, <1>3, <2>2 DEF Ended
    <3>2. status[r] = "created"
      BY <1>4, <2>2
    <3>3. Promised!Wait(r)
      BY <1>8, <2>1, <2>2, <3>1, <3>2 DEF Promised!Wait
    <3> QED
      BY <1>1, <3>3 DEF Promised!Next
  <2>3. CASE want = "succeeded"
    <3>1. outbox' = [outbox EXCEPT ![r] = Append(@, "succeeded")]
      BY <1>3, <2>3 DEF Ended
    <3>2. Promised!Succeed(r)
      BY <1>4, <1>8, <2>1, <2>3, <3>1 DEF Promised!Succeed
    <3> QED
      BY <1>1, <3>2 DEF Promised!Next
  <2> QED
    BY <1>9, <2>2, <2>3
<1>10. CASE want = "expired"
  <2>1. outbox' = [outbox EXCEPT ![r] = Append(@, "expired")]
    BY <1>3, <1>10 DEF Ended
  <2>2. status[r] = "awaiting_finality"
    BY <1>4, <1>10
  <2>3. OpenedOf[r] = PaymentOf(r)
    BY <1>1, <1>5 DEF OpenedOf
  <2>4. ASSUME NEW p \in Payments
        PROVE  Account'[p] = IF p = PaymentOf(r) THEN Account[p] + amount[r] ELSE Account[p]
    <3>1. Held(p) \in Nat /\ Held(p)' \in Nat /\ Received[p] \in Nat /\ amount[r] \in Nat
      BY <1>0, <1>1, HeldIs
    <3>2. Account[p] = Received[p] - Held(p) /\ Account'[p] = Received[p] - Held(p)'
      BY DEF Account
    <3> QED
      BY <1>6, <1>10, <3>1, <3>2
  <2>5. Account' = [Account EXCEPT ![PaymentOf(r)] = @ + amount[r]]
    BY <1>5, <2>4 DEF Account
  <2>6. Account' = [Account EXCEPT ![OpenedOf[r]] = @ + amount[r]]
    BY <2>3, <2>5
  <2>7. Promised!Expire(r)
    BY <1>8, <1>10, <2>1, <2>2, <2>6 DEF Promised!Expire
  <2> QED
    BY <1>1, <2>7 DEF Promised!Next
<1> QED
  BY <1>9, <1>10

\* A refund the store opens is opened in the account.
LEMMA PromiseOpened ==
  ASSUME TypeOK, TypeOK', Kept, NEW q \in Requests, NEW r \in Refunds, Opens(q, r)
  PROVE  Promised!Next
<1>0. /\ amount \in [Refunds -> Nat] /\ status \in [Refunds -> Statuses]
      /\ by \in [Refunds -> Requests \cup {Nobody}]
      /\ asked[q].amount \in Nat /\ For[q] \in Payments /\ q # Nobody
  BY DEF TypeOK
<1> DEFINE p == For[q]
           k == Under[q]
           n == asked[q].amount
<1>1. /\ status[r] = "none" /\ asked[q] # NotAsked /\ Fits(q) /\ ByKey(k) = {}
      /\ by' = [by EXCEPT ![r] = q]
      /\ amount' = [amount EXCEPT ![r] = n]
      /\ status' = [status EXCEPT ![r] = "created"]
      /\ UNCHANGED outbox
  BY DEF Opens
<1>2. n > 0
  BY <1>1 DEF Kept, AskedIsSome
<1>3. Account[p] = Received[p] - Held(p)
  BY <1>0 DEF Account
<1>4. n \in 1 .. Account[p]
  <2>1. n <= Account[p]
    BY <1>1, <1>3 DEF Fits
  <2>2. Account[p] \in Int
    BY <1>0, <1>3, HeldIs
  <2> QED
    BY <1>0, <1>2, <2>1, <2>2
<1>5. ASSUME NEW x \in Payments
      PROVE  Account'[x] = IF x = p THEN Account[x] - n ELSE Account[x]
  <2>1. Held(x) \in Nat /\ Held(x)' \in Nat /\ Received[x] \in Nat /\ n \in Nat
    BY <1>0, HeldIs
  <2>2. Account[x] = Received[x] - Held(x) /\ Account'[x] = Received[x] - Held(x)'
    BY DEF Account
  <2>3. Held(x)' = IF x = p THEN n + Held(x) ELSE Held(x)
    BY OpensHeld
  <2> QED
    BY <2>1, <2>2, <2>3
<1>6. Account' = [Account EXCEPT ![p] = @ - n]
  BY <1>5 DEF Account
<1>7. OpenedOf' = [OpenedOf EXCEPT ![r] = p] /\ OpenedUnder' = [OpenedUnder EXCEPT ![r] = k]
  <2>1. by'[r] = q /\ \A x \in Refunds : x # r => by'[x] = by[x]
    BY <1>0, <1>1
  <2>2. OpenedOf' = [OpenedOf EXCEPT ![r] = p]
    <3>1. ASSUME NEW x \in Refunds
          PROVE  OpenedOf'[x] = IF x = r THEN p ELSE OpenedOf[x]
      BY <1>0, <2>1 DEF OpenedOf, PaymentOf
    <3> QED
      BY <3>1 DEF OpenedOf
  <2>3. OpenedUnder' = [OpenedUnder EXCEPT ![r] = k]
    <3>1. ASSUME NEW x \in Refunds
          PROVE  OpenedUnder'[x] = IF x = r THEN k ELSE OpenedUnder[x]
      BY <1>0, <2>1 DEF OpenedUnder
    <3> QED
      BY <3>1 DEF OpenedUnder
  <2> QED
    BY <2>2, <2>3
<1>8. ASSUME NEW s \in Refunds, k # NoKey PROVE OpenedUnder[s] # k
  <2>1. CASE by[s] = Nobody
    BY <1>8, <2>1 DEF OpenedUnder
  <2>2. CASE by[s] # Nobody
    <3>1. s \in Opened
      BY <2>2 DEF Kept, AskedIsSome, Opened
    <3>2. Under[by[s]] # k
      BY <1>1, <1>8, <3>1 DEF ByKey
    <3> QED
      BY <2>2, <3>2 DEF OpenedUnder
  <2> QED
    BY <2>1, <2>2
<1>9. k \in {Under[x] : x \in Requests}
  OBVIOUS
<1> HIDE DEF p, k, n
<1>10. Promised!Open(r, p, k, n)
  BY <1>1, <1>6, <1>7, <1>8 DEF Promised!Open
<1> QED
  BY <1>0, <1>4, <1>9, <1>10 DEF Promised!Next, p

\* Every step is a step of the account, or none of its business.
LEMMA PromiseStep ==
  ASSUME Kept, [Next]_vars
  PROVE  [Promised!Next]_(Promised!vars)
<1>0. TypeOK /\ TypeOK' /\ TasksRead /\ Opening /\ RefundsMove /\ OpeningMoves
  BY OpeningMoveStep, RefundsStep, TypeStep DEF Kept, Opening, Inv
<1>1. CASE UNCHANGED refundVars
  BY <1>0, <1>1, PromiseKept
<1>2. ASSUME NEW w \in Workers, Settle(w) \/ AwaitFinality(w) \/ Expire(w)
      PROVE  Promised!Next
  BY <1>0, <1>2, PromiseMoved
<1>3. ASSUME NEW q \in Requests, NEW r \in Refunds, Opens(q, r)
      PROVE  Promised!Next
  BY <1>0, <1>3, PromiseOpened
<1> QED
  BY <1>0, <1>1, <1>2, <1>3 DEF OpeningMoves, Ask, DropRequest

\* At first no payment has sent anything back.
LEMMA PromiseInit == Init => Promised!Init /\ Kept
<1> SUFFICES ASSUME Init PROVE Promised!Init /\ Kept
  OBVIOUS
<1>1. Opening
  BY OpeningInit
<1>2. AskedIsSome
  BY DEF Init, AskedIsSome
<1>3. ASSUME NEW p \in Payments PROVE Account[p] = Received[p]
  <2>1. {r \in RefundsOf(p) : status[r] # "expired"} = {}
    BY DEF Init, RefundsOf, Opened
  <2>2. IsFiniteSet({}) /\ SumOf(amount, {}) = 0
    BY FS_EmptySet, SumAdds
  <2>3. Held(p) = 0
    BY <2>1, <2>2 DEF Held, TotalOf
  <2>4. Received[p] \in Nat
    OBVIOUS
  <2> QED
    BY <2>3, <2>4 DEF Account
<1>4. Account = Received
  BY <1>3 DEF Account
<1>5. /\ OpenedOf = [r \in Refunds |-> Nobody]
      /\ OpenedUnder = [r \in Refunds |-> NoKey]
  BY DEF Init, OpenedOf, OpenedUnder
<1>6. Promised!Init
  BY <1>4, <1>5 DEF Init, Promised!Init
<1> QED
  BY <1>1, <1>2, <1>6 DEF Kept

\* However many requests and workers race, are repeated, lost and late, the
\* refunds keep an account: each takes its amount out of what the payment has
\* left in one step and under a key of its own, gives it back only by expiring,
\* and its end is told once, with the step that makes it.
THEOREM ImplementsReturns == Spec => KeepsAccount
<1>1. Init => Promised!Init /\ Kept
  BY PromiseInit
<1>2. ASSUME Kept, [Next]_vars PROVE Kept'
  <2>1. Inv'
    BY <1>2, InvStep DEF Kept, Opening
  <2> QED
    BY <1>2, <2>1, AnswersStep, AskedStep, CeilingStep DEF Kept, Opening
<1>3. Kept /\ [Next]_vars => [Promised!Next]_(Promised!vars)
  BY PromiseStep
<1> QED
  BY <1>1, <1>2, <1>3, PTL DEF Spec, KeepsAccount, Promised!Spec

-----------------------------------------------------------------------
(***************************************************************************)
(* What holds with a provider whose final block is final, and a worker     *)
(* that acts on an answer before another block becomes final.              *)
(***************************************************************************)
CursorFinal == cursor.height \in 1 .. final

\* Below the cursor, every transfer on the chain is in a row that says so.
ReadBelow ==
    \A t \in Transfers : on[t] \in 1 .. cursor.height =>
        row[t].reason \notin {"none", "vanished"} /\ row[t].height = on[t]

\* A row read as final is of a transfer where it stands in the final part of
\* the chain, whatever the row has been judged since.
FinalRows ==
    \A t \in Transfers : row[t].final =>
        row[t].height \in 1 .. final /\ on[t] = row[t].height

\* So is every candidate: none is ever heard gone.
TasksStand ==
    \A w \in Workers : task[w] \in Candidate =>
        /\ task[w].phase # "gone"
        /\ task[w].height \in 1 .. final
        /\ on[task[w].transfer] = task[w].height

\* Every block before the deadline of r is final, and the merchant's wallet did
\* not spend its key in any: no step can change that.
PastUnspent(r) == until[r] <= final /\ ~SpentInTime(r)

TasksUnspent ==
    \A w \in Workers : task[w] \in Due /\ task[w].phase = "unsettled" =>
        PastUnspent(task[w].refund)

ExpiredUnspent == \A r \in Refunds : status[r] = "expired" => PastUnspent(r)

Honest == /\ Inv
          /\ CursorFinal
          /\ ReadBelow
          /\ FinalRows
          /\ TasksStand
          /\ TasksUnspent
          /\ ExpiredUnspent

\* A refund unspent before a final deadline stays so.
LEMMA PastUnspentStays ==
  ASSUME TypeOK, ChainKept, RefundsKept, NEW r \in Opened, TypeOK', PastUnspent(r)
  PROVE  PastUnspent(r)'
<1>1. /\ final \in Nat /\ final' \in Nat /\ final <= final'
      /\ on \in [Transfers -> Nat] /\ on' \in [Transfers -> Nat]
      /\ r \in Refunds /\ until[r] \in Nat /\ until'[r] = until[r]
  BY OpenedStays DEF TypeOK, ChainTypeOK, ChainKept, Opened
<1>2. ASSUME NEW t \in Transfers, on'[t] \in 1 .. until[r] - 1
      PROVE  on[t] \in 1 .. until[r] - 1
  <2>1. on'[t] # 0 /\ ~(on'[t] > final)
    BY <1>1, <1>2 DEF PastUnspent
  <2>2. on'[t] = on[t]
    BY <2>1 DEF ChainKept
  <2> QED
    BY <1>2, <2>2
<1>3. ~SpentInTime(r)'
  BY <1>1, <1>2 DEF PastUnspent, SpentInTime, RowsOf, RefundOf, Sender
<1> QED
  BY <1>1, <1>3 DEF PastUnspent

\* The observer's writes.
LEMMA ReadBehindStep ==
  ASSUME Honest, ReadBehind, ~Overclaims
  PROVE  CursorFinal' /\ ReadBelow'
<1>0. /\ TypeOK /\ CursorFinal /\ ReadBelow
      /\ row \in [Transfers -> Row]
      /\ cursor.height \in Nat /\ latest \in Nat /\ final \in Nat
      /\ on \in [Transfers -> Nat]
  <2>1. TypeOK /\ CursorFinal /\ ReadBelow
    BY DEF Honest, Inv
  <2>2. row \in [Transfers -> Row] /\ cursor \in Block /\ ChainTypeOK
    BY <2>1 DEF TypeOK
  <2> QED
    BY <2>1, <2>2 DEF ChainTypeOK, Block, Heights
<1> DEFINE first == cursor.height + 1
<1>1. PICK to \in first .. final :
         /\ row' = Vanished(Recorded(Scan(first, to), TRUE), Lost(Scan(first, to), first, to))
         /\ cursor' = BlockAt(to)
  BY DEF ReadBehind
<1>2. UNCHANGED <<on, final>>
  BY DEF ReadBehind, chainVars
<1>3. first \in Nat /\ first > 0 /\ to \in Nat /\ to <= final /\ to > cursor.height
  BY <1>0, <1>1
<1>4. cursor'.height = to
  BY <1>1 DEF BlockAt
<1>5. CursorFinal'
  BY <1>0, <1>2, <1>3, <1>4 DEF CursorFinal
<1> DEFINE s == Scan(first, to)
<1>6. ASSUME NEW t \in Transfers, on[t] \in 1 .. to
      PROVE  row'[t].reason \notin {"none", "vanished"} /\ row'[t].height = on[t]
  <2>0. TRUE \in BOOLEAN
    OBVIOUS
  <2>1. Reread(t, first, to, Recorded(s, TRUE)[t])
    BY <1>0, <1>3, <2>0, RecordedRows
  <2>2. CASE on[t] \in first .. to
    <3>1. s[t].reason \notin {"none", "vanished"}
      BY <1>0, <1>3, <2>2, ScanType
    <3>2. row'[t] = Recorded(s, TRUE)[t]
      BY <1>1, <3>1 DEF Vanished, Lost
    <3>3. s[t].reason = JudgeRefund(t, on[t])
      BY <2>2 DEF Scan
    <3> HIDE DEF s
    <3> QED
      BY <2>1, <2>2, <3>1, <3>2, <3>3 DEF Reread
  <2>3. CASE on[t] \notin first .. to
    <3>1. on[t] \in 1 .. cursor.height
      BY <1>0, <1>3, <1>6, <2>3
    <3>2. row[t].reason \notin {"none", "vanished"} /\ row[t].height = on[t]
      BY <1>0, <3>1 DEF ReadBelow
    <3>3. t \notin Lost(s, first, to)
      BY <2>3, <3>2 DEF Lost
    <3>4. row'[t] = Recorded(s, TRUE)[t]
      BY <1>1, <3>3 DEF Vanished
    <3> HIDE DEF s
    <3> QED
      BY <2>1, <2>3, <3>2, <3>4 DEF Reread
  <2> QED
    BY <2>2, <2>3
<1>7. ReadBelow'
  BY <1>2, <1>4, <1>6 DEF ReadBelow
<1> QED
  BY <1>5, <1>7

\* What is written ahead of the cursor leaves what lies behind it.
LEMMA ReadAheadStep ==
  ASSUME Honest, ReadAhead
  PROVE  CursorFinal' /\ ReadBelow'
<1>0. /\ TypeOK /\ CursorFinal /\ ReadBelow
      /\ cursor.height \in Nat /\ latest \in Nat /\ final \in Nat
      /\ on \in [Transfers -> Nat]
  <2>1. TypeOK /\ CursorFinal /\ ReadBelow
    BY DEF Honest, Inv
  <2>2. ChainTypeOK /\ cursor \in Block
    BY <2>1 DEF TypeOK
  <2>3. cursor.height \in Nat
    BY <2>2 DEF Block, Heights
  <2>4. latest \in Nat /\ final \in Nat /\ on \in [Transfers -> Nat]
    BY <2>2 DEF ChainTypeOK, Heights
  <2> QED
    BY <2>1, <2>3, <2>4
<1> DEFINE first == IF latest - cursor.height > Width THEN latest - Width + 1
                                                      ELSE cursor.height + 1
<1>1. /\ row' = Recorded(Scan(first, latest), FALSE)
      /\ UNCHANGED <<on, final, cursor>>
  BY DEF ReadAhead, chainVars
<1>2. first \in Nat /\ first > cursor.height /\ first > 0
  BY <1>0
<1> HIDE DEF first
<1>3. ASSUME NEW t \in Transfers, on[t] \in 1 .. cursor.height
      PROVE  row'[t] = row[t]
  <2>0. FALSE \in BOOLEAN
    OBVIOUS
  <2>1. Reread(t, first, latest, row'[t])
    BY <1>0, <1>1, <1>2, <2>0, RecordedRows
  <2>2. on[t] \notin first .. latest
    BY <1>0, <1>2, <1>3
  <2> QED
    BY <2>1, <2>2 DEF Reread
<1> QED
  BY <1>0, <1>1, <1>3 DEF CursorFinal, ReadBelow

\* The cursor stays final and the rows below it true.
LEMMA ReadBelowStep ==
  ASSUME Honest, [Next]_vars, ~Overclaims
  PROVE  CursorFinal' /\ ReadBelow'
<1>a. TypeOK /\ TypeOK' /\ CursorFinal /\ ReadBelow /\ ChainKept
  BY ChainKeeps, TypeStep DEF Honest, Inv
<1>b. /\ row \in [Transfers -> Row]
      /\ cursor.height \in Nat /\ final \in Nat /\ final' \in Nat
      /\ on \in [Transfers -> Nat] /\ on' \in [Transfers -> Nat]
  <2>1. final \in Nat /\ on \in [Transfers -> 0 .. latest] /\ latest \in Nat
    BY <1>a DEF TypeOK, ChainTypeOK
  <2>2. final' \in Nat /\ on' \in [Transfers -> 0 .. latest'] /\ latest' \in Nat
    BY <1>a DEF TypeOK, ChainTypeOK
  <2>3. on \in [Transfers -> Nat] /\ on' \in [Transfers -> Nat]
    BY <2>1, <2>2
  <2>4. cursor.height \in Nat
    <3>1. cursor \in Block
      BY <1>a DEF TypeOK
    <3>2. cursor.height \in Heights
      BY <3>1 DEF Block
    <3> QED
      BY <3>2 DEF Heights
  <2>5. row \in [Transfers -> Row]
    BY <1>a DEF TypeOK
  <2> QED
    BY <2>1, <2>2, <2>3, <2>4, <2>5
<1>0. /\ TypeOK /\ TypeOK' /\ CursorFinal /\ ReadBelow /\ ChainKept
      /\ row \in [Transfers -> Row]
      /\ cursor.height \in Nat /\ final \in Nat /\ final' \in Nat
      /\ on \in [Transfers -> Nat] /\ on' \in [Transfers -> Nat]
  BY <1>a, <1>b
<1>1. ASSUME UNCHANGED <<row, cursor>> PROVE CursorFinal' /\ ReadBelow'
  <2>1. CursorFinal'
    BY <1>0, <1>1 DEF CursorFinal, ChainKept
  <2>2. ASSUME NEW t \in Transfers, on'[t] \in 1 .. cursor.height PROVE on'[t] = on[t]
    <3>1. on'[t] # 0 /\ ~(on'[t] > final)
      BY <1>0, <2>2 DEF CursorFinal
    <3> QED
      BY <1>0, <3>1 DEF ChainKept
  <2>3. ReadBelow'
    BY <1>0, <1>1, <2>2 DEF ReadBelow
  <2> QED
    BY <2>1, <2>3
<1>2. ASSUME NEW w \in Workers, GiveUp(w) PROVE FALSE
  <2>1. task[w] \in Candidate /\ task[w].phase = "gone"
    BY <1>0, <1>2, TaskPhases DEF GiveUp, TypeOK
  <2> QED
    BY <2>1 DEF Honest, TasksStand
<1>3. ASSUME NEW w \in Workers, WorkerStep(w) \/ PassOver(w), ~GiveUp(w)
      PROVE  UNCHANGED <<row, cursor>>
  BY <1>3 DEF WorkerStep, PassOver, TakeCandidate, TakeOverdue, TakeUnsettled, Undertake,
              Answered, Settle, AwaitFinality, Expire, Save
<1>4. CASE \/ ChainMines \/ ChainForks \/ ChainFinalizes \/ Tick \/ UNCHANGED vars
           \/ \E q \in Requests : Ask(q) \/ CreateRefund(q) \/ DropRequest(q)
  BY <1>1, <1>4 DEF ChainMines, ChainForks, ChainFinalizes, Tick, vars, Ask, CreateRefund,
                    DropRequest
<1> QED
  BY <1>1, <1>2, <1>3, <1>4, ReadBehindStep, ReadAheadStep DEF Next, ObserverStep

\* A row left as it is, or rewritten where its transfer stands; only a stamp
\* makes it final.
Rewritten(t, first, last, stamp, it) ==
    \/ it = row[t]
    \/ /\ on[t] \in first .. last
       /\ it.height = on[t]
       /\ it.final => row[t].final \/ stamp

\* That is what a recording does.
LEMMA RecordedFinal ==
  ASSUME TypeOK, NEW first \in Nat, NEW last \in Nat, first > 0, NEW stamp \in BOOLEAN,
         NEW t \in Transfers
  PROVE  Rewritten(t, first, last, stamp, Recorded(Scan(first, last), stamp)[t])
<1> DEFINE s == Scan(first, last)
           its == row[t].final \/ stamp
<1>1. CASE on[t] \in first .. last
  <2>1. s[t].height = on[t] /\ s[t].reason # "none"
    BY <1>1, ScanType DEF Scan
  <2>2. s[t] \in Row
    BY ScanType
  <2> HIDE DEF s
  <2>3. Recorded(s, stamp)[t] = [s[t] EXCEPT !.final = its]
    BY <2>1 DEF Recorded
  <2> HIDE DEF its
  <2>4. Recorded(s, stamp)[t].height = s[t].height /\ Recorded(s, stamp)[t].final = its
    BY <2>2, <2>3 DEF Row
  <2> QED
    BY <1>1, <2>1, <2>4 DEF s, its, Rewritten
<1>2. CASE on[t] \notin first .. last
  <2>1. s[t].reason = "none"
    BY <1>2, ScanType DEF NoRow
  <2> QED
    BY <1>2, <2>1 DEF Recorded, Rewritten
<1> QED
  BY <1>1, <1>2

\* A row read as final stays where its transfer stands.
LEMMA FinalRowsStep ==
  ASSUME Honest, [Next]_vars, ~Overclaims
  PROVE  FinalRows'
<1>0. /\ TypeOK /\ FinalRows /\ ChainKept
      /\ row \in [Transfers -> Row]
      /\ cursor.height \in Nat /\ latest \in Nat /\ final \in Nat /\ final' \in Nat
      /\ on \in [Transfers -> Nat]
  <2>1. TypeOK /\ TypeOK' /\ FinalRows /\ ChainKept
    BY ChainKeeps, TypeStep DEF Honest, Inv
  <2>2. cursor \in Block /\ row \in [Transfers -> Row] /\ final' \in Nat
    BY <2>1 DEF TypeOK, ChainTypeOK
  <2>3. latest \in Nat /\ final \in Nat /\ on \in [Transfers -> Nat]
    BY <2>1 DEF TypeOK, ChainTypeOK
  <2> QED
    BY <2>1, <2>2, <2>3 DEF Block, Heights
<1> DEFINE Where(t) == row'[t].final = row[t].final /\ row'[t].height = row[t].height
           Read(t) == row'[t].height = on[t] /\ on[t] \in 1 .. final /\ UNCHANGED <<on, final>>
<1>1. ASSUME NEW t \in Transfers, Where(t) \/ Read(t), row'[t].final
      PROVE  row'[t].height \in 1 .. final' /\ on'[t] = row'[t].height
  <2>1. CASE Where(t)
    <3>1. row[t].height \in 1 .. final /\ on[t] = row[t].height
      BY <1>0, <1>1, <2>1 DEF FinalRows
    <3> QED
      BY <1>0, <2>1, <3>1 DEF ChainKept
  <2>2. CASE Read(t)
    BY <2>2
  <2> QED
    BY <1>1, <2>1, <2>2
<1>2. ASSUME NEW rows \in [Transfers -> Row], NEW lost, NEW t \in Transfers
      PROVE  /\ Vanished(rows, lost)[t].final = rows[t].final
             /\ Vanished(rows, lost)[t].height = rows[t].height
  BY <1>2 DEF Vanished, Row
<1>3. CASE ReadBehind
  <2>1. PICK to \in cursor.height + 1 .. final :
           row' = Vanished(Recorded(Scan(cursor.height + 1, to), TRUE),
                           Lost(Scan(cursor.height + 1, to), cursor.height + 1, to))
    BY <1>3 DEF ReadBehind
  <2>2. UNCHANGED <<on, final>> /\ to \in Nat /\ to <= final
    BY <1>0, <1>3, <2>1 DEF ReadBehind, chainVars
  <2>3. ASSUME NEW t \in Transfers PROVE Where(t) \/ Read(t)
    <3> DEFINE scan == Scan(cursor.height + 1, to)
    <3>1. TRUE \in BOOLEAN /\ cursor.height + 1 \in Nat /\ cursor.height + 1 > 0
      BY <1>0
    <3>2. Rewritten(t, cursor.height + 1, to, TRUE, Recorded(scan, TRUE)[t])
      BY <1>0, <2>2, <3>1, RecordedFinal
    <3>3. scan \in [Transfers -> Row]
      BY <1>0, <2>2, <3>1, ScanType
    <3>4. row' = Vanished(Recorded(scan, TRUE), Lost(scan, cursor.height + 1, to))
      BY <2>1
    <3> HIDE DEF scan
    <3> DEFINE read == Recorded(scan, TRUE)
               gone == Lost(scan, cursor.height + 1, to)
    <3>5. read \in [Transfers -> Row] /\ row' = Vanished(read, gone)
      BY <1>0, <3>1, <3>3, <3>4, RecordedType
    <3>9. Rewritten(t, cursor.height + 1, to, TRUE, read[t])
      BY <3>2
    <3> HIDE DEF read, gone
    <3>6. row'[t].final = read[t].final /\ row'[t].height = read[t].height
      BY <1>2, <3>5
    <3>7. CASE read[t] = row[t]
      BY <3>6, <3>7
    <3>8. CASE on[t] \in cursor.height + 1 .. to /\ read[t].height = on[t]
      BY <1>0, <2>2, <3>6, <3>8
    <3> QED
      BY <3>7, <3>8, <3>9 DEF Rewritten
  <2> QED
    BY <1>1, <2>3 DEF FinalRows
<1>4. CASE ReadAhead
  <2> DEFINE first == IF latest - cursor.height > Width THEN latest - Width + 1
                                                        ELSE cursor.height + 1
  <2>1. /\ row' = Recorded(Scan(first, latest), FALSE)
        /\ UNCHANGED <<on, final>>
    BY <1>4 DEF ReadAhead, chainVars
  <2>2. first \in Nat /\ first > 0 /\ FALSE \in BOOLEAN
    BY <1>0
  <2> HIDE DEF first
  <2>3. ASSUME NEW t \in Transfers, row'[t].final PROVE Where(t) \/ Read(t)
    <3>1. Rewritten(t, first, latest, FALSE, row'[t])
      BY <1>0, <2>1, <2>2, RecordedFinal
    <3>2. CASE row'[t].height = on[t] /\ (row'[t].final => row[t].final \/ FALSE)
      <4>1. row[t].final
        BY <2>3, <3>2
      <4>2. on[t] \in 1 .. final
        BY <1>0, <4>1 DEF FinalRows
      <4> QED
        BY <2>1, <3>2, <4>2
    <3> QED
      BY <3>1, <3>2 DEF Rewritten
  <2> QED
    BY <1>1, <2>3 DEF FinalRows
<1>5. ASSUME NEW w \in Workers, GiveUp(w) PROVE FinalRows'
  <2>1. ASSUME NEW t \in Transfers PROVE Where(t)
    BY <1>0, <1>2, <1>5, <2>1 DEF GiveUp
  <2> QED
    BY <1>1, <2>1 DEF FinalRows
<1>6. CASE UNCHANGED row
  BY <1>1, <1>6 DEF FinalRows
<1>7. ASSUME NEW w \in Workers, WorkerStep(w) \/ PassOver(w), ~GiveUp(w)
      PROVE  UNCHANGED row
  BY <1>7 DEF WorkerStep, PassOver, TakeCandidate, TakeOverdue, TakeUnsettled, Undertake,
              Answered, Settle, AwaitFinality, Expire, Save
<1>8. CASE \/ ChainMines \/ ChainForks \/ ChainFinalizes \/ Tick \/ UNCHANGED vars
           \/ \E q \in Requests : Ask(q) \/ CreateRefund(q) \/ DropRequest(q)
  BY <1>6, <1>8 DEF ChainMines, ChainForks, ChainFinalizes, Tick, vars, Ask, CreateRefund,
                    DropRequest
<1> QED
  BY <1>3, <1>4, <1>5, <1>6, <1>7, <1>8 DEF Next, ObserverStep

\* A candidate is taken from a final row, and stands where the row says.
LEMMA TasksStandStep ==
  ASSUME Honest, [Next]_vars
  PROVE  TasksStand'
<1>0. /\ TypeOK /\ TasksStand /\ FinalRows /\ ChainKept
      /\ \A w \in Workers : TaskMoves(w)
      /\ final \in Nat /\ final' \in Nat /\ on \in [Transfers -> Nat]
  <2>1. TypeOK /\ TypeOK' /\ TasksStand /\ FinalRows /\ ChainKept
    BY ChainKeeps, TypeStep DEF Honest, Inv
  <2>2. final \in Nat /\ on \in [Transfers -> Nat]
    BY <2>1 DEF TypeOK, ChainTypeOK
  <2>3. final' \in Nat
    BY <2>1 DEF TypeOK, ChainTypeOK
  <2> QED
    BY <2>1, <2>2, <2>3, TaskStep
<1> DEFINE Stands(it) == /\ it.phase # "gone"
                         /\ it.height \in 1 .. final
                         /\ on[it.transfer] = it.height
<1>1. ASSUME NEW it \in Candidate, Stands(it)
      PROVE  it.height \in 1 .. final' /\ on'[it.transfer] = it.height
  <2>1. it.transfer \in Transfers
    BY DEF Candidate
  <2> QED
    BY <1>0, <1>1, <2>1 DEF ChainKept
<1>2. ASSUME NEW w \in Workers, task'[w] \in Candidate
      PROVE  Stands(task'[w])
  <2>1. CASE task'[w] = task[w]
    BY <1>0, <1>2, <2>1 DEF TasksStand
  <2>2. CASE task'[w] = NoTask
    BY <1>2, <2>2 DEF NoTask, Candidate
  <2>3. ASSUME task[w] \in Candidate, on[task[w].transfer] = 0
        PROVE  FALSE
    BY <1>0, <2>3 DEF TasksStand
  <2>4. CASE task[w] \in Candidate /\ task'[w] = [task[w] EXCEPT !.phase = "final"]
    <3>1. /\ task'[w].phase = "final"
          /\ task'[w].height = task[w].height /\ task'[w].transfer = task[w].transfer
      BY <2>4 DEF Candidate
    <3> QED
      BY <1>0, <2>4, <3>1 DEF TasksStand
  <2>5. ASSUME NEW t \in Transfers, row[t].final,
               task'[w] = [phase |-> "asking", transfer |-> t,
                           height |-> row[t].height, fork |-> row[t].fork,
                           refund |-> RefundOf(t), status |-> status[RefundOf(t)],
                           version |-> version[RefundOf(t)]]
        PROVE  Stands(task'[w])
    <3>1. row[t].height \in 1 .. final /\ on[t] = row[t].height
      BY <1>0, <2>5 DEF FinalRows
    <3> QED
      BY <2>5, <3>1
  <2>6. ASSUME NEW r \in Refunds, NEW ph \in {"overdue", "unsettled"},
               task'[w] = [phase |-> ph, refund |-> r, status |-> status[r],
                           version |-> version[r]]
        PROVE  FALSE
    <3>1. task'[w].phase \notin {"asking", "final", "gone"}
      BY <2>6
    <3> QED
      BY <1>2, <3>1 DEF Candidate
  <2> QED
    BY <1>0, <2>1, <2>2, <2>3, <2>4, <2>5, <2>6 DEF TaskMoves
<1> QED
  BY <1>1, <1>2 DEF TasksStand

\* A worker expires only what the cursor has passed and no row spends.
LEMMA UnspentStep ==
  ASSUME Honest, [Next]_vars
  PROVE  TasksUnspent' /\ ExpiredUnspent'
<1>a. /\ TypeOK /\ TypeOK' /\ TasksRead /\ ChainKept /\ RefundsKept /\ RefundsMove
      /\ CursorFinal /\ ReadBelow
      /\ \A w \in Workers : TaskMoves(w)
  BY ChainKeeps, TaskStep, RefundsStep, TypeStep DEF Honest, Inv
<1>b. /\ final \in Nat /\ on \in [Transfers -> Nat] /\ cursor.height \in Nat
      /\ until \in [Refunds -> Nat] /\ status \in [Refunds -> Statuses]
      /\ task \in [Workers -> Candidate \cup Due \cup {NoTask}]
  <2>1. final \in Nat /\ on \in [Transfers -> 0 .. latest] /\ latest \in Nat
    BY <1>a DEF TypeOK, ChainTypeOK
  <2>2. on \in [Transfers -> Nat]
    BY <2>1
  <2>3. cursor.height \in Nat
    <3>1. cursor \in Block
      BY <1>a DEF TypeOK
    <3>2. cursor.height \in Heights
      BY <3>1 DEF Block
    <3> QED
      BY <3>2 DEF Heights
  <2>4. /\ until \in [Refunds -> Nat] /\ status \in [Refunds -> Statuses]
        /\ task \in [Workers -> Candidate \cup Due \cup {NoTask}]
    BY <1>a DEF TypeOK
  <2> QED
    BY <2>1, <2>2, <2>3, <2>4
<1>0. /\ TypeOK /\ TypeOK' /\ TasksRead /\ ChainKept /\ RefundsKept /\ RefundsMove
      /\ CursorFinal /\ ReadBelow
      /\ \A w \in Workers : TaskMoves(w)
      /\ final \in Nat /\ on \in [Transfers -> Nat] /\ cursor.height \in Nat
      /\ until \in [Refunds -> Nat] /\ status \in [Refunds -> Statuses]
      /\ task \in [Workers -> Candidate \cup Due \cup {NoTask}]
  BY <1>a, <1>b
<1>1. ASSUME NEW r \in Opened, PastUnspent(r) PROVE PastUnspent(r)'
  BY <1>0, <1>1, PastUnspentStays
<1>2. ASSUME NEW r \in Refunds, ReadPast(r), Unspent(r) PROVE PastUnspent(r)
  <2>1. until[r] <= cursor.height /\ until[r] \in Nat
    BY <1>0, <1>2 DEF ReadPast
  <2>2. until[r] <= final
    BY <1>0, <2>1 DEF CursorFinal
  <2>3. ASSUME NEW t \in RowsOf(r), Sender(t) = "merchant", on[t] \in 1 .. until[r] - 1
        PROVE  FALSE
    <3>1. t \in Transfers /\ on[t] \in 1 .. cursor.height
      BY <1>0, <2>1, <2>3 DEF RowsOf
    <3>2. row[t].reason \notin {"none", "vanished"}
      BY <1>0, <3>1 DEF ReadBelow
    <3> QED
      BY <1>2, <2>3, <3>2 DEF Unspent
  <2> QED
    BY <2>2, <2>3 DEF PastUnspent, SpentInTime
<1>3. ASSUME NEW w \in Workers, task'[w] \in Due, task'[w].phase = "unsettled"
      PROVE  task'[w].refund \in Opened /\ PastUnspent(task'[w].refund)
  <2>1. CASE task'[w] = task[w]
    <3>1. task[w] # NoTask
      BY <1>3, <2>1 DEF NoTask
    <3> QED
      BY <1>0, <1>3, <2>1, <3>1 DEF Honest, TasksUnspent, TasksRead
  <2>2. CASE task'[w] = NoTask
    BY <1>3, <2>2 DEF NoTask
  <2>3. ASSUME task[w] \in Candidate, NEW ph \in {"gone", "final"},
               task'[w] = [task[w] EXCEPT !.phase = ph]
        PROVE  FALSE
    <3>1. task'[w].phase = ph
      BY <2>3 DEF Candidate
    <3> QED
      BY <1>3, <3>1
  <2>4. ASSUME NEW t \in Transfers,
               task'[w] = [phase |-> "asking", transfer |-> t,
                           height |-> row[t].height, fork |-> row[t].fork,
                           refund |-> RefundOf(t), status |-> status[RefundOf(t)],
                           version |-> version[RefundOf(t)]]
        PROVE  FALSE
    BY <1>3, <2>4
  <2>5. ASSUME NEW r \in Refunds, NEW ph \in {"overdue", "unsettled"}, status[r] \in Open,
               ph = "unsettled" => ReadPast(r) /\ Unspent(r),
               task'[w] = [phase |-> ph, refund |-> r, status |-> status[r],
                           version |-> version[r]]
        PROVE  task'[w].refund \in Opened /\ PastUnspent(task'[w].refund)
    <3>1. task'[w].refund = r /\ ph = "unsettled"
      BY <1>3, <2>5
    <3>2. r \in Opened
      BY <2>5 DEF Open, Opened
    <3> QED
      BY <1>2, <2>5, <3>1, <3>2
  <2> QED
    BY <1>0, <2>1, <2>2, <2>3, <2>4, <2>5 DEF TaskMoves
<1>4. TasksUnspent'
  <2>1. ASSUME NEW w \in Workers, task'[w] \in Due, task'[w].phase = "unsettled",
               NEW r \in Opened, r = task'[w].refund, PastUnspent(r)
        PROVE  PastUnspent(r)'
    BY <1>1, <2>1
  <2> QED
    BY <1>3, <2>1 DEF TasksUnspent, PastUnspent, SpentInTime, RowsOf, RefundOf, Sender
<1>5. ASSUME NEW r \in Refunds, status'[r] = "expired"
      PROVE  r \in Opened /\ PastUnspent(r)
  <2>1. CASE status[r] = "expired"
    BY <2>1 DEF Honest, ExpiredUnspent, Opened
  <2>2. CASE status[r] # "expired"
    <3>1. PICK w \in Workers : /\ Settle(w) \/ AwaitFinality(w) \/ Expire(w)
                               /\ task[w].refund = r
      BY <1>0, <1>5, <2>2 DEF RefundsMove, Moved
    <3>2. r \in Opened
      BY <1>0, <3>1, SaveStep
    <3>3. Expire(w)
      <4>1. ASSUME Settle(w) \/ AwaitFinality(w) PROVE FALSE
        <5>1. status'[r] \in {"awaiting_finality", "succeeded"}
          BY <1>0, <3>1, <4>1 DEF AwaitFinality, Settle, Save
        <5> QED
          BY <1>5, <5>1
      <4> QED
        BY <3>1, <4>1
    <3>4. task[w] \in Due /\ task[w].phase = "unsettled"
      BY <1>0, <3>3, TaskPhases DEF Expire
    <3> QED
      BY <3>1, <3>2, <3>4 DEF Honest, TasksUnspent
  <2> QED
    BY <2>1, <2>2
<1>6. ExpiredUnspent'
  BY <1>1, <1>5 DEF ExpiredUnspent
<1> QED
  BY <1>4, <1>6

\* At first nothing is read, asked for or expired.
LEMMA HonestInit == Init => Honest
<1> SUFFICES ASSUME Init PROVE Honest
  OBVIOUS
<1>1. Inv
  BY InvInit
<1>2. CursorFinal /\ ReadBelow
  BY DEF Init, ChainInit, CursorFinal, ReadBelow, BlockAt
<1>3. TasksStand /\ TasksUnspent
  BY DEF Init, TasksStand, TasksUnspent, NoTask, Candidate
<1>4. ExpiredUnspent
  BY DEF Init, ExpiredUnspent
<1>5. FinalRows
  BY DEF Init, FinalRows, NoRow
<1> QED
  BY <1>1, <1>2, <1>3, <1>4, <1>5 DEF Honest

\* With an honest provider: the cursor is final, what lies
\* below it is what the rows say, and a refund in the hands of the expiry, or
\* expired, is unspent for good.
THEOREM HonestHolds ==
  ASSUME ~Overclaims
  PROVE  Spec => []Honest
<1>1. Init => Honest
  BY HonestInit
<1>2. Honest /\ [Next]_vars => Honest'
  <2> SUFFICES ASSUME Honest, [Next]_vars PROVE Honest'
    OBVIOUS
  <2>1. Inv'
    BY InvStep DEF Honest
  <2> QED
    BY <2>1, ReadBelowStep, FinalRowsStep, TasksStandStep, UnspentStep DEF Honest
<1> QED
  BY <1>1, <1>2, PTL DEF Spec

\* The cursor's block is the chain's.
Anchored == made[cursor.height] = cursor.fork

LEMMA AnchoredStep ==
  ASSUME Honest, Anchored, [Next]_vars
  PROVE  Anchored'
<1>0. /\ made \in [Heights -> 0 .. MaxForks] /\ cursor.height \in Heights
      /\ cursor.height \in Nat /\ latest \in Nat /\ final \in Nat
      /\ cursor.height <= final /\ final <= latest
  BY DEF Honest, CursorFinal, Inv, TypeOK, ChainTypeOK, Block, Heights
<1>1. ASSUME UNCHANGED cursor, made'[cursor.height] = made[cursor.height] PROVE Anchored'
  BY <1>1 DEF Anchored
<1>2. CASE ChainMines
  <2>1. UNCHANGED cursor /\ made' = [made EXCEPT ![latest + 1] = forks]
    BY <1>2 DEF ChainMines, Mine
  <2>2. cursor.height # latest + 1
    BY <1>0
  <2> QED
    BY <1>0, <1>1, <2>1, <2>2
<1>3. CASE ChainForks
  <2>1. UNCHANGED cursor
    BY <1>3 DEF ChainForks
  <2>2. PICK h \in Heights : Reorg(h)
    BY <1>3 DEF ChainForks
  <2>3. ~(cursor.height > h)
    BY <1>0, <2>2 DEF Reorg, Heights
  <2>4. made'[cursor.height] = made[cursor.height]
    BY <1>0, <2>2, <2>3 DEF Reorg
  <2> QED
    BY <1>1, <2>1, <2>4
<1>4. CASE ReadBehind
  <2>1. UNCHANGED made /\ \E to : cursor' = BlockAt(to)
    BY <1>4 DEF ReadBehind, chainVars
  <2> QED
    BY <2>1 DEF Anchored, BlockAt
<1>5. ASSUME UNCHANGED <<made, cursor>> PROVE Anchored'
  BY <1>1, <1>5
<1>6. CASE ChainFinalizes \/ Tick \/ ReadAhead
  BY <1>5, <1>6 DEF ChainFinalizes, Finalize, Tick, ReadAhead, chainVars
<1>7. ASSUME NEW q \in Requests, Ask(q) \/ CreateRefund(q) \/ DropRequest(q)
      PROVE  Anchored'
  BY <1>5, <1>7 DEF Ask, CreateRefund, DropRequest, chainVars
<1>8. ASSUME NEW w \in Workers, WorkerStep(w) \/ PassOver(w)
      PROVE  Anchored'
  BY <1>5, <1>8 DEF WorkerStep, PassOver, TakeCandidate, TakeOverdue, TakeUnsettled, Undertake,
                    Answered, Settle, AwaitFinality, Expire, Save, GiveUp, chainVars
<1>9. CASE UNCHANGED vars
  BY <1>5, <1>9 DEF vars, chainVars
<1> QED
  BY <1>2, <1>3, <1>4, <1>6, <1>7, <1>8, <1>9 DEF Next, ObserverStep

\* A provider that does not overclaim has nothing it called final replaced, so that what
\* is said as long as nothing is holds for good.
THEOREM GroundedAlways ==
  ASSUME ~Overclaims
  PROVE  Spec => []Grounded
<1>1. Init => Anchored
  BY DEF Init, Anchored, BlockAt
<1>2. Honest /\ Anchored /\ [Next]_vars => Anchored'
  BY AnchoredStep
<1>3. Honest /\ Anchored => Grounded
  <2> SUFFICES ASSUME Honest, Anchored PROVE Grounded
    OBVIOUS
  <2>1. /\ cursor.height \in 1 .. final /\ final \in Nat /\ latest \in Nat /\ final <= latest
    BY DEF Honest, CursorFinal, Inv, TypeOK, ChainTypeOK, Heights
  <2> QED
    BY <2>1 DEF Anchored, Grounded, Holds
<1> QED
  BY <1>1, <1>2, <1>3, HonestHolds, PTL DEF Spec

\* With a provider whose final block is final, a refund that expired is one whose
\* key the merchant's wallet did not spend before the deadline, and cannot have.
THEOREM ExpiredUnspentAlways ==
  ASSUME ~Overclaims
  PROVE  Spec => []ExpiredIsUnspent
<1>1. Honest => ExpiredIsUnspent
  BY DEF Honest, ExpiredUnspent, PastUnspent, ExpiredIsUnspent
<1> QED
  BY <1>1, HonestHolds, PTL

\* Money out stays within money in: what refunds hold, and what expired ones have
\* sent after all, is never more than the payment received, for any number of
\* refunds, requests and amounts.
THEOREM WithinCeilingAlways ==
  ASSUME ~Overclaims
  PROVE  Spec => []WithinCeiling
<1>1. ASSUME Honest, Opening PROVE WithinCeiling
  <2>1. ASSUME NEW p \in Payments
        PROVE  {r \in RefundsOf(p) : status[r] # "expired" \/ SpentInTime(r)}
                 = {r \in RefundsOf(p) : status[r] # "expired"}
    BY <1>1 DEF Honest, ExpiredUnspent, PastUnspent, RefundsOf, Opened
  <2> QED
    BY <1>1, <2>1 DEF Opening, Ceiling, Held, WithinCeiling
<1> QED
  BY <1>1, HonestHolds, OpeningHolds, PTL

=======================================================================
