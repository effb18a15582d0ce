------------------------ MODULE FinalityProofs ------------------------
(***************************************************************************)
(* What the endpoints' agreement is worth, for any transfers, networks,    *)
(* instances, leases and failures.                                         *)
(***************************************************************************)
EXTENDS Finality, FiniteSetTheorems, TLAPS

\* Round r has every part a round has.
Shaped(r) ==
    r \in [phase : {r.phase}, todo : {r.todo}, asking : {r.asking}, left : {r.left},
           said : {r.said}, verdict : {r.verdict}, shown : {r.shown},
           onwards : {r.onwards}, onwardsBack : {r.onwardsBack}]

\* What an endpoint that does not lie said is final is where it was recorded; and a verdict
\* of final is what agreement takes.
RoundSo(r) ==
    r.verdict = "final" =>
        /\ \A e \in r.said \ network.liars : truth[InHand(r).transfer] = "recorded"
        /\ r.phase \in {"heard", "decide"} => Cardinality(r.said) = network.agreements

\* The inductive invariant.
Inv ==
    /\ network \in Networks
    /\ DOMAIN round = Workers /\ DOMAIN settled = Transfers
    /\ \A w \in Workers : round[w] = NoRound \/ (Shaped(round[w]) /\ RoundSo(round[w]))
    /\ SettledIsFinal

LEMMA InitInv == Init => Inv
  BY DEF Init, Inv, SettledIsFinal

\* A round that is under way is a round.
LEMMA UnderWay ==
    ASSUME Inv, NEW w \in Workers, round[w].phase # "idle"
    PROVE  Shaped(round[w]) /\ RoundSo(round[w])
  BY DEF Inv, NoRound

\* A step of a round that settles nothing.
LEMMA RoundStep ==
    ASSUME Inv, NEW w \in Workers, NEW r, Shaped(r), RoundSo(r), GoOn(w, r), UNCHANGED settled
    PROVE  Inv'
  <1>1. network' = network /\ truth' = truth /\ round' = [round EXCEPT ![w] = r]
    BY DEF GoOn, chainVars
  <1>2. \A v \in Workers : round'[v] = NoRound \/ (Shaped(round'[v]) /\ RoundSo(round'[v]))
    BY <1>1 DEF Inv
  <1>3. DOMAIN round' = Workers
    BY <1>1 DEF Inv
  <1>. QED BY <1>1, <1>2, <1>3 DEF Inv, RoundSo, SettledIsFinal

\* A round goes past the candidate it has in hand.
LEMMA PastSo ==
    ASSUME NEW r, Shaped(r)
    PROVE  Shaped(Past(r)) /\ RoundSo(Past(r))
  <1>1. Shaped(Past(r))
    BY DEF Shaped, Past
  <1>2. Past(r).verdict = "none"
    BY DEF Shaped, Past
  <1>. QED BY <1>1, <1>2 DEF RoundSo

\* What a round has heard of the candidate in hand, when the candidate stays.
LEMMA HeardSo ==
    ASSUME NEW r, NEW s, RoundSo(r), s.todo = r.todo, s.said = r.said, s.verdict = r.verdict,
           s.phase \in {"heard", "decide"} => r.phase \in {"heard", "decide"}
    PROVE  RoundSo(s)
  BY DEF RoundSo, InHand

\* An endpoint's answer is counted.
LEMMA CountedSo ==
    ASSUME NEW r, Shaped(r), RoundSo(r), NEW e, NEW v \in Verdicts,
           v = "final" /\ e \notin network.liars => truth[InHand(r).transfer] = "recorded"
    PROVE  Shaped(Counted(r, e, v)) /\ RoundSo(Counted(r, e, v))
  <1>. DEFINE s == Counted(r, e, v)
  <1>1. CASE r.said # {} /\ v # r.verdict
    <2>1. s = [r EXCEPT !.phase = "heard", !.verdict = "disagreed", !.shown = "none"]
      BY <1>1 DEF Counted
    <2>. HIDE DEF s
    <2>2. Shaped(s) /\ s.verdict = "disagreed"
      BY <2>1 DEF Shaped
    <2>. QED BY <2>2 DEF RoundSo, s
  <1>2. CASE ~(r.said # {} /\ v # r.verdict)
    <2>. DEFINE phase == IF Cardinality(r.said \cup {e}) = network.agreements
                         THEN "heard" ELSE "asking"
    <2>1. s = [r EXCEPT !.phase = phase, !.verdict = v, !.said = @ \cup {e},
                        !.left = @ \ {e}, !.shown = "none"]
      BY <1>2 DEF Counted
    <2>2. phase \in {"heard", "decide"} => Cardinality(r.said \cup {e}) = network.agreements
      OBVIOUS
    <2>. HIDE DEF s, phase
    <2>3. /\ Shaped(s) /\ s.verdict = v /\ s.said = r.said \cup {e} /\ s.phase = phase
          /\ s.todo = r.todo
      BY <2>1 DEF Shaped
    <2>4. RoundSo(s)
      <3>. SUFFICES ASSUME v = "final"
                    PROVE  /\ \A d \in s.said \ network.liars :
                                  truth[InHand(s).transfer] = "recorded"
                           /\ s.phase \in {"heard", "decide"} =>
                                  Cardinality(s.said) = network.agreements
        BY <2>3 DEF RoundSo
      <3>1. InHand(s) = InHand(r)
        BY <2>3 DEF InHand
      <3>2. ASSUME NEW d \in s.said \ network.liars
            PROVE  truth[InHand(r).transfer] = "recorded"
        <4>1. CASE d = e
          BY <4>1, <3>2
        <4>2. CASE d # e
          BY <1>2, <2>3, <3>2, <4>2 DEF RoundSo
        <4>. QED BY <4>1, <4>2
      <3>. QED BY <2>2, <2>3, <3>1, <3>2
    <2>. QED BY <2>3, <2>4 DEF s
  <1>. QED BY <1>1, <1>2

\* An endpoint is silent.
LEMMA SilentStep ==
    ASSUME Inv, NEW w \in Workers, NEW e, round[w].phase # "idle",
           Silent(w, round[w], e), UNCHANGED settled
    PROVE  Inv'
  <1>. DEFINE r == round[w]
              s == [r EXCEPT !.phase = "asking", !.shown = "none",
                             !.left = @ \ {e}, !.asking = @ \ {e}]
  <1>1. Shaped(r) /\ RoundSo(r)
    BY UnderWay
  <1>2. /\ Shaped(s) /\ s.todo = r.todo /\ s.said = r.said /\ s.verdict = r.verdict
        /\ s.phase = "asking"
    BY <1>1 DEF Shaped
  <1>3. RoundSo(s)
    BY <1>1, <1>2, HeardSo
  <1>4. GoOn(w, s)
    BY DEF Silent
  <1>. HIDE DEF s
  <1>. QED BY <1>2, <1>3, <1>4, RoundStep

LEMMA AskStep ==
    ASSUME Inv, NEW w \in Workers, Ask(w)
    PROVE  Inv'
  <1>. DEFINE r == round[w]
              s == [r EXCEPT !.phase = "asking", !.left = r.asking]
  <1>1. Shaped(r) /\ RoundSo(r) /\ GoOn(w, s) /\ UNCHANGED settled
    BY UnderWay DEF Ask, rowVars
  <1>2. /\ Shaped(s) /\ s.todo = r.todo /\ s.said = r.said /\ s.verdict = r.verdict
        /\ s.phase = "asking"
    BY <1>1 DEF Shaped
  <1>3. RoundSo(s)
    BY <1>1, <1>2, HeardSo
  <1>. HIDE DEF s
  <1>. QED BY <1>1, <1>2, <1>3, RoundStep

LEMMA ReceiptStep ==
    ASSUME Inv, NEW w \in Workers, Receipt(w)
    PROVE  Inv'
  <1>. DEFINE r == round[w]
              e == Min(r.left)
  <1>1. Shaped(r) /\ RoundSo(r) /\ r.phase = "asking" /\ UNCHANGED settled
    BY UnderWay DEF Receipt, rowVars
  <1>2. CASE Silent(w, r, e)
    BY <1>1, <1>2, SilentStep
  <1>3. ASSUME GoOn(w, Counted(r, e, "elsewhere"))
        PROVE  Inv'
    <2>1. "elsewhere" \in Verdicts
      BY DEF Verdicts
    <2>2. Shaped(Counted(r, e, "elsewhere")) /\ RoundSo(Counted(r, e, "elsewhere"))
      BY <1>1, <2>1, CountedSo
    <2>. QED BY <1>1, <1>3, <2>2, RoundStep
  <1>4. ASSUME NEW at, GoOn(w, [r EXCEPT !.phase = "shown", !.shown = at])
        PROVE  Inv'
    <2>. DEFINE s == [r EXCEPT !.phase = "shown", !.shown = at]
    <2>1. /\ Shaped(s) /\ s.todo = r.todo /\ s.said = r.said /\ s.verdict = r.verdict
          /\ s.phase = "shown"
      BY <1>1 DEF Shaped
    <2>2. RoundSo(s)
      BY <1>1, <2>1, HeardSo
    <2>3. GoOn(w, s)
      BY <1>4
    <2>. HIDE DEF s
    <2>. QED BY <1>1, <2>1, <2>2, <2>3, RoundStep
  <1>. QED BY <1>2, <1>3, <1>4 DEF Receipt

LEMMA HeadStep ==
    ASSUME "recorded" \notin Lags, Inv, NEW w \in Workers, Head(w)
    PROVE  Inv'
  <1>. DEFINE r == round[w]
              e == Min(r.left)
              t == InHand(r).transfer
  <1>1. Shaped(r) /\ RoundSo(r) /\ r.phase = "shown" /\ UNCHANGED settled
    BY UnderWay DEF Head, rowVars
  <1>2. CASE Silent(w, r, e)
    BY <1>1, <1>2, SilentStep
  <1>3. ASSUME NEW past \in IsPast(e, t, r.shown),
               GoOn(w, Counted(r, e, IF ~past THEN "waiting"
                                     ELSE IF r.shown = "recorded" THEN "final" ELSE "gone"))
        PROVE  Inv'
    <2>. DEFINE v == IF ~past THEN "waiting"
                     ELSE IF r.shown = "recorded" THEN "final" ELSE "gone"
    <2>1. v \in Verdicts
      BY DEF Verdicts
    <2>2. v = "final" => past /\ r.shown = "recorded"
      OBVIOUS
    <2>3. v = "final" /\ e \notin network.liars => truth[t] = "recorded"
      BY <1>3, <2>2 DEF IsPast
    <2>4. GoOn(w, Counted(r, e, v))
      BY <1>3
    <2>. HIDE DEF v
    <2>5. Shaped(Counted(r, e, v)) /\ RoundSo(Counted(r, e, v))
      BY <1>1, <2>1, <2>3, CountedSo
    <2>. QED BY <1>1, <2>4, <2>5, RoundStep
  <1>. QED BY <1>2, <1>3 DEF Head

LEMMA NoteStep ==
    ASSUME Inv, NEW w \in Workers, Note(w)
    PROVE  Inv'
  <1>. DEFINE r == round[w]
              s == [r EXCEPT !.phase = "decide"]
  <1>1. Shaped(r) /\ RoundSo(r) /\ r.phase = "heard" /\ GoOn(w, s) /\ UNCHANGED settled
    BY UnderWay DEF Note
  <1>2. /\ Shaped(s) /\ s.todo = r.todo /\ s.said = r.said /\ s.verdict = r.verdict
    BY <1>1 DEF Shaped
  <1>3. RoundSo(s)
    BY <1>1, <1>2, HeardSo
  <1>. HIDE DEF s
  <1>. QED BY <1>1, <1>2, <1>3, RoundStep

\* Skip, Unanswered, GiveUp and LeaveIt are done with the candidate and settle nothing.
LEMMA PastStep ==
    ASSUME Inv, NEW w \in Workers, round[w].phase # "idle", GoOn(w, Past(round[w])),
           UNCHANGED settled
    PROVE  Inv'
  <1>1. Shaped(Past(round[w])) /\ RoundSo(Past(round[w]))
    BY UnderWay, PastSo
  <1>. QED BY <1>1, RoundStep

\* Of as many as agreement takes, one does not lie.
LEMMA OneIsHonest ==
    ASSUME Inv, NEW said, Cardinality(said) = network.agreements
    PROVE  \E e \in said : e \notin network.liars
  <1>1. /\ IsFiniteSet(network.liars) /\ network.agreements \in Nat
        /\ network.agreements > Cardinality(network.liars)
    BY NetworkAssumptions, FS_Subset DEF Inv
  <1>2. ASSUME said \subseteq network.liars PROVE FALSE
    <2>1. Cardinality(said) <= Cardinality(network.liars)
      BY <1>1, <1>2, FS_Subset
    <2>2. Cardinality(network.liars) \in Nat
      BY <1>1, FS_CardinalityType
    <2>. QED BY <1>1, <2>1, <2>2
  <1>. QED BY <1>2

LEMMA SettleStep ==
    ASSUME Inv, NEW w \in Workers, Settle(w)
    PROVE  Inv'
  <1>. DEFINE r == round[w]
              c == InHand(r)
              now == Unmoved(c)
  <1>1. /\ Shaped(r) /\ RoundSo(r) /\ r.phase = "decide" /\ r.verdict = "final"
        /\ GoOn(w, Past(r))
        /\ settled' = [settled EXCEPT ![c.transfer] = @ \/ now]
    BY UnderWay DEF Settle
  <1>2. truth[c.transfer] = "recorded"
    <2>1. Cardinality(r.said) = network.agreements
      BY <1>1 DEF RoundSo
    <2>2. PICK e \in r.said : e \notin network.liars
      BY <2>1, OneIsHonest
    <2>. QED BY <1>1, <2>2 DEF RoundSo
  <1>3. network' = network /\ truth' = truth /\ round' = [round EXCEPT ![w] = Past(r)]
    BY <1>1 DEF GoOn, chainVars
  <1>4. SettledIsFinal' /\ DOMAIN settled' = Transfers
    <2>. HIDE DEF c, now
    <2>1. DOMAIN settled' = Transfers
      BY <1>1 DEF Inv
    <2>2. ASSUME NEW t \in Transfers, settled'[t] PROVE truth[t] = "recorded"
      <3>1. CASE t = c.transfer
        BY <3>1, <1>2
      <3>2. CASE t # c.transfer
        <4>1. settled'[t] = settled[t]
          BY <3>2, <1>1 DEF Inv
        <4>. QED BY <4>1, <2>2 DEF Inv, SettledIsFinal
      <3>. QED BY <3>1, <3>2
    <2>. QED BY <2>1, <2>2, <1>3 DEF SettledIsFinal
  <1>5. \A v \in Workers : round'[v] = NoRound \/ (Shaped(round'[v]) /\ RoundSo(round'[v]))
    BY <1>1, <1>3, PastSo DEF Inv
  <1>. QED BY <1>3, <1>4, <1>5 DEF Inv, RoundSo

\* Worker w begins a round or is in none, and nothing is settled.
LEMMA NewRoundStep ==
    ASSUME Inv, NEW w \in Workers, NEW r, round' = [round EXCEPT ![w] = r],
           r = NoRound \/ (Shaped(r) /\ r.verdict = "none"),
           UNCHANGED <<network, truth, settled>>
    PROVE  Inv'
  <1>1. \A v \in Workers : round'[v] = NoRound \/ (Shaped(round'[v]) /\ RoundSo(round'[v]))
    BY DEF Inv, RoundSo
  <1>. QED BY <1>1 DEF Inv, RoundSo, SettledIsFinal

LEMMA BeginStep ==
    ASSUME Inv, NEW w \in Workers, Begin(w)
    PROVE  Inv'
  <1>. PICK todo, onwards, onwardsBack :
            round' = [round EXCEPT ![w] =
               [phase |-> "next", todo |-> todo,
                asking |-> network.endpoints, left |-> {}, said |-> {},
                verdict |-> "none", shown |-> "none",
                onwards |-> onwards, onwardsBack |-> onwardsBack]]
    BY DEF Begin
  <1>. DEFINE r == [phase |-> "next", todo |-> todo,
                    asking |-> network.endpoints, left |-> {}, said |-> {},
                    verdict |-> "none", shown |-> "none",
                    onwards |-> onwards, onwardsBack |-> onwardsBack]
  <1>1. Shaped(r) /\ r.verdict = "none"
    BY DEF Shaped
  <1>2. UNCHANGED <<network, truth, settled>>
    BY DEF Begin, chainVars, rowVars
  <1>. QED BY <1>1, <1>2, NewRoundStep

\* A step in which no round moves.
LEMMA OtherStep ==
    ASSUME Inv, UNCHANGED <<network, truth, settled, round>>
    PROVE  Inv'
  BY DEF Inv, RoundSo, SettledIsFinal

LEMMA NextInv ==
    ASSUME "recorded" \notin Lags, Inv, [Next]_vars
    PROVE  Inv'
  <1>1. ASSUME NEW w \in Workers, WorkerStep(w)
        PROVE  Inv'
    <2>1. CASE Ask(w) BY <2>1, AskStep
    <2>2. CASE Receipt(w) BY <2>2, ReceiptStep
    <2>3. CASE Head(w) BY <2>3, HeadStep
    <2>4. CASE Note(w) BY <2>4, NoteStep
    <2>5. CASE Settle(w) BY <2>5, SettleStep
    <2>6. CASE Skip(w) \/ Unanswered(w) \/ GiveUp(w) \/ LeaveIt(w)
      <3>1. round[w].phase # "idle" /\ GoOn(w, Past(round[w])) /\ UNCHANGED settled
        BY <2>6 DEF Skip, Unanswered, GiveUp, LeaveIt, rowVars
      <3>. QED BY <3>1, PastStep
    <2>7. CASE End(w)
      <3>1. round' = [round EXCEPT ![w] = NoRound] /\ UNCHANGED <<network, truth, settled>>
        BY <2>7 DEF End, chainVars, rowVars
      <3>. QED BY <3>1, NewRoundStep
    <2>. QED BY <1>1, <2>1, <2>2, <2>3, <2>4, <2>5, <2>6, <2>7 DEF WorkerStep
  <1>2. ASSUME NEW w \in Workers, Begin(w) PROVE Inv'
    BY <1>2, BeginStep
  <1>3. ASSUME NEW w \in Workers, Fail(w) \/ Restart(w) PROVE Inv'
    <2>1. round' = [round EXCEPT ![w] = NoRound] /\ UNCHANGED <<network, truth, settled>>
      BY <1>3 DEF Fail, Restart, chainVars, rowVars
    <2>. QED BY <2>1, NewRoundStep
  <1>4. CASE \/ \E e \in network.endpoints : Finalizes(e)
             \/ \E t \in Transfers : Recorded(t)
             \/ Lapse \/ CalmsDown
    <2>1. UNCHANGED <<network, truth, settled, round>>
      BY <1>4 DEF Finalizes, Recorded, Lapse, CalmsDown, chainVars, rowVars
    <2>. QED BY <2>1, OtherStep
  <1>5. CASE UNCHANGED vars
    BY <1>5, OtherStep DEF vars, chainVars, rowVars
  <1>. QED BY <1>1, <1>2, <1>3, <1>4, <1>5 DEF Next

\* Whatever endpoints lie, lag or are silent, however rounds overlap, end early and are taken
\* up, a payment or refund is settled only by a transfer that is where it was recorded for
\* good: as long as fewer lie than agreement takes, and an endpoint that has shown a transfer
\* where it was recorded has not lost it by the time its final block is past (Ask, pay, settle).
THEOREM SettledIsFinalAlways ==
    ASSUME "recorded" \notin Lags
    PROVE  Spec => []SettledIsFinal
  <1>1. Inv /\ [Next]_vars => Inv'
    BY NextInv
  <1>2. Inv => SettledIsFinal
    BY DEF Inv
  <1>. QED BY <1>1, <1>2, InitInv, PTL DEF Spec


-----------------------------------------------------------------------
(***************************************************************************)
(* Type correctness: that the least and the greatest of what is in hand    *)
(* are among it, and that counts of rounds stay where they are cut off.    *)
(***************************************************************************)
\* Of a finite set of numbers one has nothing below it: the one with the fewest there.
LEMMA LeastIs ==
  ASSUME NEW S \in SUBSET Int, IsFiniteSet(S), S # {}
  PROVE  Min(S) \in S /\ \A y \in S : Min(S) <= y
  <1>. DEFINE T == {U \in SUBSET S : \E x \in S : U = {y \in S : y < x}}
  <1>1. T \subseteq FiniteSubsetsOf(S)
    BY FS_FiniteSubsetsOfFinite
  <1>2. T # {}
    <2>1. PICK x \in S : TRUE
      OBVIOUS
    <2>2. {y \in S : y < x} \in T
      OBVIOUS
    <2>. QED BY <2>2
  <1>3. IsWellFoundedOn(StrictSubsetOrdering(S), FiniteSubsetsOf(S))
    BY FS_StrictSubsetOrderingWellFounded
  <1>4. PICK U \in T : \A V \in T : ~(<<V, U>> \in StrictSubsetOrdering(S))
    <2>. HIDE DEF T
    <2>. QED BY <1>1, <1>2, <1>3, WFMin
  <1>5. PICK x \in S : U = {y \in S : y < x}
    OBVIOUS
  <1>6. ASSUME NEW y \in S, y < x
        PROVE  FALSE
    <2>. DEFINE V == {z \in S : z < y}
    <2>1. V \in T /\ y \in U /\ y \notin V
      BY <1>5, <1>6
    <2>2. V \subseteq U
      <3>1. x \in Int /\ y \in Int /\ S \subseteq Int
        OBVIOUS
      <3>2. ASSUME NEW z \in V PROVE z \in S /\ z < x
        BY <1>6, <3>1, <3>2
      <3>. QED BY <1>5, <3>2
    <2>3. <<V, U>> \in StrictSubsetOrdering(S)
      BY <2>1, <2>2 DEF StrictSubsetOrdering
    <2>. QED BY <1>4, <2>1, <2>3
  <1>7. \A y \in S : x <= y
    BY <1>6
  <1>. QED BY <1>7 DEF Min

LEMMA GreatestIs ==
  ASSUME NEW S \in SUBSET Nat, IsFiniteSet(S), S # {}
  PROVE  Max(S) \in S
  <1>. DEFINE less == [x \in S |-> -x]
              R == {less[x] : x \in S}
  <1>1. less \in Surjection(S, R)
    BY DEF Surjection
  <1>2. R \in SUBSET Int /\ R # {}
    <2>1. \A x \in S : x \in Int /\ less[x] = -x
      OBVIOUS
    <2>2. \A x \in S : less[x] \in Int
      BY <2>1
    <2>. HIDE DEF less
    <2>. QED BY <2>2
  <1>. HIDE DEF R
  <1>5. IsFiniteSet(R)
    BY <1>1, FS_Surjection
  <1>. USE DEF R
  <1>3. PICK x \in S : \A y \in R : -x <= y
    <2>1. Min(R) \in R /\ \A y \in R : Min(R) <= y
      <3>. HIDE DEF R
      <3>. QED BY <1>2, <1>5, LeastIs
    <2>. QED BY <2>1
  <1>4. \A y \in S : x >= y
    <2>1. x \in Int /\ S \subseteq Int /\ \A y \in S : -x <= less[y] /\ less[y] = -y
      BY <1>3
    <2>. QED BY <2>1
  <1>. QED BY <1>4 DEF Max

LEMMA PairIsFinite == \A x, y : IsFiniteSet({x, y})
  <1>. SUFFICES ASSUME NEW x, NEW y PROVE IsFiniteSet({x, y})
    OBVIOUS
  <1>1. IsFiniteSet({x})
    BY FS_Singleton
  <1>2. {x, y} = {x} \cup {y}
    OBVIOUS
  <1>. QED BY <1>1, <1>2, FS_AddElement

\* The candidate in hand is one of those to do.
LEMMA InHandIs ==
  ASSUME NEW r, r.todo \in SUBSET Candidate, r.todo # {}
  PROVE  InHand(r) \in r.todo /\ InHand(r).transfer \in Transfers
  <1>. DEFINE payments == {c \in r.todo : c.transfer \in Paying}
              side == IF payments # {} THEN payments ELSE r.todo
              S == {c.transfer : c \in side}
  <1>1. side \subseteq r.todo /\ side # {}
    OBVIOUS
  <1>2. \A c \in r.todo : c.transfer \in Transfers
    BY DEF Candidate
  <1>3. S \in SUBSET Transfers /\ S # {}
    BY <1>1, <1>2
  <1>4. S \in SUBSET Int /\ IsFiniteSet(S)
    <2>1. Transfers \subseteq Int /\ IsFiniteSet(Transfers)
      BY FinalityAssumptions
    <2>. HIDE DEF S
    <2>. QED BY <1>3, <2>1, FS_Subset
  <1>5. Min(S) \in S /\ \A y \in S : Min(S) <= y
    <2>. HIDE DEF S
    <2>. QED BY <1>3, <1>4, LeastIs
  <1>6. \E c \in side : \A d \in side : c.transfer <= d.transfer
    <2>1. PICK c \in side : Min(S) = c.transfer
      BY <1>5
    <2>2. \A d \in side : d.transfer \in S
      OBVIOUS
    <2>. HIDE DEF side, S
    <2>. QED BY <1>5, <2>1, <2>2
  <1>7. InHand(r) = CHOOSE k \in side : \A d \in side : k.transfer <= d.transfer
    BY DEF InHand, NextOf
  <1>8. InHand(r) \in side
    <2>. HIDE DEF side
    <2>. QED BY <1>6, <1>7
  <1>. QED BY <1>1, <1>2, <1>8

\* What a setup says, and where counts of rounds are cut off.
LEMMA Setup ==
  ASSUME TypeOK
  PROVE  /\ network.endpoints \in SUBSET Nat /\ IsFiniteSet(network.endpoints)
         /\ network.liars \subseteq network.endpoints
         /\ network.agreements \in Nat /\ network.agreements > Cardinality(network.liars)
         /\ network.misses \in Nat \ {0}
         /\ network.running \subseteq Workers
         /\ network.failures \in Nat
         /\ network.records \in [Transfers -> Nat]
         /\ Enough \in Nat /\ Enough >= 2
  <1>1. /\ network.endpoints \in SUBSET Nat /\ IsFiniteSet(network.endpoints)
        /\ network.liars \subseteq network.endpoints
        /\ network.agreements \in Nat /\ network.agreements > Cardinality(network.liars)
        /\ network.misses \in Nat \ {0}
        /\ network.running \subseteq Workers
        /\ network.failures \in Nat
        /\ network.records \in [Transfers -> Nat]
    BY NetworkAssumptions DEF TypeOK
  <1>2. \E m \in {2, network.misses, MaxSkip} : \A y \in {2, network.misses, MaxSkip} : m >= y
    BY <1>1, FinalityAssumptions
  <1>3. Enough \in {2, network.misses, MaxSkip} /\ Enough >= 2
    BY <1>2 DEF Enough, Max
  <1>. QED BY <1>1, <1>3, FinalityAssumptions

\* What an answer is remembered as is an answer, of at most one round more.
LEMMA FollowingIs ==
  ASSUME TypeOK, NEW before \in Answer \cup {Untold}, NEW v \in Verdicts
  PROVE  /\ Following(before, v) \in Answer
         /\ Following(before, v).verdict = v
         /\ \/ Following(before, v).rounds = 1
            \/ before.verdict = v /\ Following(before, v).rounds <= before.rounds + 1
  <1>. DEFINE more == Min({before.rounds + 1, Enough})
              rounds == IF before.verdict = v /\ v \in {"gone", "disagreed"} THEN more ELSE 1
              skip == IF v = "disagreed" THEN Min({rounds, MaxSkip}) ELSE 0
  <1>1. Enough \in Nat /\ Enough >= 2 /\ MaxSkip \in Nat \ {0}
    BY Setup, FinalityAssumptions
  <1>2. before.rounds \in Nat
    BY <1>1 DEF Answer, Untold
  <1>3. more \in 1 .. Enough /\ more <= before.rounds + 1
    <2>. DEFINE S == {before.rounds + 1, Enough}
    <2>0. IsFiniteSet(S)
      BY PairIsFinite, Zenon
    <2>1. S \in SUBSET Int /\ S # {}
      BY <1>1, <1>2
    <2>2. Min(S) \in S /\ \A y \in S : Min(S) <= y
      <3>. HIDE DEF S
      <3>. QED BY <2>0, <2>1, LeastIs
    <2>. QED BY <1>1, <1>2, <2>2
  <1>. HIDE DEF more
  <1>4. /\ rounds \in 1 .. Enough
        /\ rounds = 1 \/ (before.verdict = v /\ rounds <= before.rounds + 1)
    <2>1. 1 \in 1 .. Enough
      BY <1>1
    <2>. QED BY <1>3, <2>1
  <1>5. skip \in 0 .. MaxSkip
    <2>. DEFINE S == {rounds, MaxSkip}
    <2>0. IsFiniteSet(S)
      BY PairIsFinite, Zenon
    <2>1. S \in SUBSET Int /\ S # {} /\ S \subseteq Nat
      BY <1>1, <1>4
    <2>2. Min(S) \in S /\ \A y \in S : Min(S) <= y
      <3>. HIDE DEF S
      <3>. QED BY <2>0, <2>1, LeastIs
    <2>3. Min(S) \in Nat /\ Min(S) <= MaxSkip
      BY <2>1, <2>2
    <2>. HIDE DEF S
    <2>4. Min(S) \in 0 .. MaxSkip /\ 0 \in 0 .. MaxSkip
      BY <1>1, <2>3
    <2>. QED BY <2>4 DEF S
  <1>6. Following(before, v) = [verdict |-> v, rounds |-> rounds, skip |-> skip]
    BY DEF Following, more
  <1>. HIDE DEF rounds, skip
  <1>. QED BY <1>4, <1>5, <1>6 DEF Answer

\* A candidate is in hand while it is asked about, and an endpoint while it is; and before
\* the first is asked none has said anything, and once they are heard they have.
Held(r) == /\ r.phase # "next" => r.todo # {}
           /\ r.phase = "next" => r.said = {}
           /\ r.phase = "shown" => r.left # {}
           /\ r.phase = "heard" => r.verdict \in Verdicts

Typed == /\ TypeOK
         /\ \A w \in Workers : round[w] = NoRound \/ Held(round[w])

Memory == [Workers -> [Transfers -> Answer \cup {Untold}]]
RowsTyped == /\ row \in [Transfers -> {"none", "matched", "vanished"}]
             /\ times \in [Transfers -> Nat]
             /\ settled \in [Transfers -> BOOLEAN]
             /\ contested \in [Transfers -> BOOLEAN]

LEMMA TypedInit == Init => Typed
  <1>. SUFFICES ASSUME Init PROVE Typed
    OBVIOUS
  <1>1. network.failures \in Nat
    BY NetworkAssumptions DEF Init
  <1>2. failures \in 0 .. network.failures
    BY <1>1 DEF Init
  <1>. QED BY <1>2 DEF Init, Typed, TypeOK

\* A round that is under way is one, and the candidate in hand is among its own.
LEMMA InRound ==
  ASSUME Typed, NEW w \in Workers, round[w].phase # "idle"
  PROVE  /\ round[w] \in Round /\ Held(round[w])
         /\ round[w].todo # {} => InHand(round[w]) \in Candidate
         /\ round[w].left # {} => Min(round[w].left) \in round[w].left
  <1>1. round[w] # NoRound
    BY DEF NoRound
  <1>2. round[w] \in Round /\ Held(round[w])
    BY <1>1 DEF Typed, TypeOK
  <1>3. round[w].todo \in SUBSET Candidate /\ round[w].left \in SUBSET network.endpoints
    BY <1>2 DEF Round
  <1>4. ASSUME round[w].todo # {} PROVE InHand(round[w]) \in Candidate
    BY <1>3, <1>4, InHandIs
  <1>5. ASSUME round[w].left # {} PROVE Min(round[w].left) \in round[w].left
    <2>1. network.endpoints \in SUBSET Int /\ IsFiniteSet(network.endpoints)
      BY Setup DEF Typed
    <2>2. round[w].left \in SUBSET Int /\ IsFiniteSet(round[w].left)
      BY <1>3, <2>1, FS_Subset
    <2>. QED BY <1>5, <2>2, LeastIs
  <1>. QED BY <1>2, <1>4, <1>5

\* A step after which the round of w is r.
LEMMA GoOnTyped ==
  ASSUME Typed, NEW w \in Workers, NEW r \in Round, Held(r), GoOn(w, r), RowsTyped',
         answers' \in Memory, pass' \in Memory
  PROVE  Typed'
  <1>1. /\ UNCHANGED <<network, truth, reached, calm, lease, failures, from, back>>
        /\ round' = [round EXCEPT ![w] = r]
    BY DEF GoOn, chainVars
  <1>2. round \in [Workers -> Round \cup {NoRound}]
    BY DEF Typed, TypeOK
  <1>3. round' \in [Workers -> Round \cup {NoRound}]
    BY <1>1, <1>2
  <1>4. \A v \in Workers : round'[v] = NoRound \/ Held(round'[v])
    BY <1>1, <1>2 DEF Typed
  <1>5. Round' = Round /\ Answer' = Answer
    BY <1>1 DEF Round, Answer, Enough
  <1>6. TypeOK'
    BY <1>1, <1>3, <1>5 DEF Typed, TypeOK, RowsTyped, Memory
  <1>. QED BY <1>4, <1>6 DEF Typed, Held

\* Going past the candidate in hand.
LEMMA PastTyped ==
  ASSUME NEW r \in Round
  PROVE  Past(r) \in Round /\ Held(Past(r))
  <1>1. Past(r) = [r EXCEPT !.phase = "next", !.todo = r.todo \ {InHand(r)}, !.left = {},
                            !.said = {}, !.verdict = "none", !.shown = "none"]
    BY DEF Past
  <1>. DEFINE rest == r.todo \ {InHand(r)}
  <1>3. rest \in SUBSET Candidate /\ "next" \in {"next", "asking", "shown", "heard", "decide"}
    BY DEF Round
  <1>. HIDE DEF rest
  <1>4. Past(r) = [r EXCEPT !.phase = "next", !.todo = rest, !.left = {},
                            !.said = {}, !.verdict = "none", !.shown = "none"]
    BY <1>1 DEF rest
  <1>2. Past(r) \in Round /\ Past(r).phase = "next" /\ Past(r).said = {}
    <2>. DEFINE p == [r EXCEPT !.phase = "next", !.todo = rest, !.left = {},
                               !.said = {}, !.verdict = "none", !.shown = "none"]
    <2>1. p \in Round /\ p.phase = "next" /\ p.said = {}
      BY <1>3 DEF Round
    <2>. HIDE DEF p
    <2>. QED BY <1>4, <2>1 DEF p
  <1>. QED BY <1>2 DEF Held

\* An endpoint's answer, counted.
LEMMA CountedTyped ==
  ASSUME NEW r \in Round, r.todo # {}, NEW e \in network.endpoints, NEW v \in Verdicts
  PROVE  Counted(r, e, v) \in Round /\ Held(Counted(r, e, v))
  <1>1. CASE r.said # {} /\ v # r.verdict
    <2>. DEFINE s == [r EXCEPT !.phase = "heard", !.verdict = "disagreed", !.shown = "none"]
    <2>1. s \in Round /\ s.phase = "heard" /\ s.todo = r.todo /\ s.verdict \in Verdicts
      BY DEF Round, Verdicts
    <2>2. Held(s)
      BY <2>1 DEF Held
    <2>. QED BY <1>1, <2>1, <2>2 DEF Counted
  <1>2. CASE ~(r.said # {} /\ v # r.verdict)
    <2>. DEFINE phase == IF Cardinality(r.said \cup {e}) = network.agreements
                         THEN "heard" ELSE "asking"
                s == [r EXCEPT !.phase = phase, !.verdict = v, !.said = r.said \cup {e},
                               !.left = r.left \ {e}, !.shown = "none"]
    <2>1. phase \in {"heard", "asking"}
      OBVIOUS
    <2>. HIDE DEF phase
    <2>2. s \in Round /\ s.phase = phase /\ s.todo = r.todo /\ s.verdict = v
      BY <2>1 DEF Round
    <2>3. Held(s)
      BY <2>1, <2>2 DEF Held
    <2>4. Counted(r, e, v) = s
      BY <1>2 DEF Counted, phase
    <2>. QED BY <2>2, <2>3, <2>4
  <1>. QED BY <1>1, <1>2

\* What is remembered of one transfer is written over.
LEMMA MemoryWritten ==
  ASSUME NEW m \in Memory, NEW w \in Workers, NEW t, NEW a \in Answer \cup {Untold}
  PROVE  [m EXCEPT ![w][t] = a] \in Memory
  <1>1. [m EXCEPT ![w][t] = a] = [m EXCEPT ![w] = [m[w] EXCEPT ![t] = a]]
    OBVIOUS
  <1>2. [m[w] EXCEPT ![t] = a] \in [Transfers -> Answer \cup {Untold}]
    BY DEF Memory
  <1>. QED BY <1>1, <1>2 DEF Memory

LEMMA OnwardsIs ==
  ASSUME NEW page \in SUBSET Transfers
  PROVE  Onwards(page) \in Transfers \cup {0}
  <1>1. Transfers \in SUBSET Nat /\ IsFiniteSet(Transfers)
    BY FinalityAssumptions
  <1>2. CASE page = {}
    <2>1. Cardinality(page) = 0
      BY <1>2, FS_EmptySet
    <2>2. Cardinality(page) < PerRound
      BY <2>1, FinalityAssumptions
    <2>. QED BY <2>2 DEF Onwards
  <1>3. CASE page # {}
    <2>1. page \in SUBSET Nat /\ IsFiniteSet(page)
      BY <1>1, FS_Subset
    <2>2. Max(page) \in page
      BY <1>3, <2>1, GreatestIs
    <2>. QED BY <2>2 DEF Onwards
  <1>. QED BY <1>2, <1>3

\* Between two steps the rows and what is remembered are of their types.
LEMMA Kept ==
  ASSUME Typed
  PROVE  RowsTyped /\ answers \in Memory /\ pass \in Memory
  BY DEF Typed, TypeOK, RowsTyped, Memory

LEMMA BeginTyped ==
  ASSUME Typed, NEW w \in Workers, Begin(w)
  PROVE  Typed'
  <1>. DEFINE payments == Page(Paying, from[w])
              refunds == Page(Backing, back[w])
              todo == {[transfer |-> t, times |-> times[t]] : t \in payments \cup refunds}
              r == [phase |-> "next", todo |-> todo,
                    asking |-> network.endpoints, left |-> {}, said |-> {},
                    verdict |-> "none", shown |-> "none",
                    onwards |-> Onwards(payments), onwardsBack |-> Onwards(refunds)]
  <1>1. /\ round' = [round EXCEPT ![w] = r] /\ lease' = w
        /\ UNCHANGED <<network, truth, reached, calm, row, times, settled, contested, failures,
                       answers, pass, from, back>>
    BY DEF Begin, Acquire, chainVars, rowVars, memory
  <1>2. payments \in SUBSET Transfers /\ refunds \in SUBSET Transfers
    BY DEF Page, Waiting, Undecided, Transfers
  <1>3. todo \in SUBSET Candidate
    <2>1. times \in [Transfers -> Nat]
      BY DEF Typed, TypeOK
    <2>. HIDE DEF payments, refunds
    <2>. QED BY <1>2, <2>1 DEF Candidate
  <1>4. /\ Onwards(payments) \in Transfers \cup {0}
        /\ Onwards(refunds) \in Transfers \cup {0}
    <2>. HIDE DEF payments, refunds
    <2>. QED BY <1>2, OnwardsIs
  <1>. HIDE DEF payments, refunds, todo
  <1>5. r \in Round /\ Held(r)
    BY <1>3, <1>4 DEF Round, Held
  <1>. HIDE DEF r
  <1>6. round \in [Workers -> Round \cup {NoRound}]
    BY DEF Typed, TypeOK
  <1>7. round' \in [Workers -> Round \cup {NoRound}]
    BY <1>1, <1>5, <1>6
  <1>8. \A v \in Workers : round'[v] = NoRound \/ Held(round'[v])
    BY <1>1, <1>5, <1>6 DEF Typed
  <1>9. Round' = Round /\ Answer' = Answer
    BY <1>1 DEF Round, Answer, Enough
  <1>10. TypeOK'
    BY <1>1, <1>7, <1>9 DEF Typed, TypeOK
  <1>. QED BY <1>8, <1>10 DEF Typed, Held

\* A step of a round that writes nothing anywhere else.
LEMMA QuietTyped ==
  ASSUME Typed, NEW w \in Workers, NEW r \in Round, Held(r), GoOn(w, r),
         UNCHANGED <<rowVars, answers, pass>>
  PROVE  Typed'
  <1>1. RowsTyped' /\ answers' \in Memory /\ pass' \in Memory
    BY Kept DEF RowsTyped, rowVars
  <1>. QED BY <1>1, GoOnTyped

\* A step of a round that writes what this pass remembers of a transfer and goes past it, or
\* stays with it.
LEMMA RememberTyped ==
  ASSUME Typed, NEW w \in Workers, NEW r \in Round, Held(r), GoOn(w, r),
         NEW t, NEW a \in Answer \cup {Untold}, pass' = [pass EXCEPT ![w][t] = a],
         RowsTyped', UNCHANGED answers
  PROVE  Typed'
  <1>1. answers' \in Memory /\ pass' \in Memory
    BY Kept, MemoryWritten
  <1>. QED BY <1>1, GoOnTyped

LEMMA SkipTyped ==
  ASSUME Typed, NEW w \in Workers, Skip(w)
  PROVE  Typed'
  <1>. DEFINE r == round[w]
              t == InHand(r).transfer
              a == answers[w][t]
              b == [a EXCEPT !.skip = a.skip - 1]
  <1>1. /\ r.phase = "next" /\ r.todo # {} /\ InDoubt(w, t)
        /\ pass' = [pass EXCEPT ![w][t] = b]
        /\ GoOn(w, Past(r)) /\ UNCHANGED <<rowVars, answers>>
    BY DEF Skip
  <1>2. r \in Round /\ t \in Transfers
    BY <1>1, InRound DEF Candidate
  <1>3. a \in Answer \cup {Untold}
    BY <1>2, Kept DEF Memory
  <1>4. b \in Answer
    <2>1. a.verdict = "disagreed" /\ a.skip > 0
      BY <1>1 DEF InDoubt
    <2>2. a \in Answer
      BY <1>3, <2>1 DEF Untold
    <2>. HIDE DEF a
    <2>3. MaxSkip \in Nat
      BY FinalityAssumptions
    <2>4. a.skip - 1 \in 0 .. MaxSkip
      BY <2>1, <2>2, <2>3 DEF Answer
    <2>. QED BY <2>2, <2>4 DEF Answer
  <1>5. Past(r) \in Round /\ Held(Past(r))
    BY <1>2, PastTyped
  <1>6. RowsTyped'
    BY <1>1, Kept DEF RowsTyped, rowVars
  <1>. HIDE DEF b
  <1>. QED BY <1>1, <1>4, <1>5, <1>6, RememberTyped

LEMMA AskTyped ==
  ASSUME Typed, NEW w \in Workers, Ask(w)
  PROVE  Typed'
  <1>. DEFINE r == round[w]
              s == [r EXCEPT !.phase = "asking", !.left = r.asking]
  <1>1. r.phase = "next" /\ r.todo # {} /\ GoOn(w, s) /\ UNCHANGED <<rowVars, answers, pass>>
    BY DEF Ask
  <1>2. r \in Round
    BY <1>1, InRound
  <1>3. s \in Round /\ s.phase = "asking" /\ s.todo = r.todo
    BY <1>2 DEF Round
  <1>4. Held(s)
    BY <1>1, <1>3 DEF Held
  <1>. HIDE DEF s
  <1>. QED BY <1>1, <1>3, <1>4, QuietTyped

LEMMA SilentTyped ==
  ASSUME Typed, NEW w \in Workers, NEW e, round[w].phase \in {"asking", "shown"},
         Silent(w, round[w], e), UNCHANGED <<rowVars, answers, pass>>
  PROVE  Typed'
  <1>. DEFINE r == round[w]
              s == [r EXCEPT !.phase = "asking", !.shown = "none",
                             !.left = r.left \ {e}, !.asking = r.asking \ {e}]
  <1>1. GoOn(w, s)
    BY DEF Silent
  <1>2. r \in Round /\ r.todo # {}
    BY InRound DEF Held
  <1>3. s \in Round /\ s.phase = "asking" /\ s.todo = r.todo
    BY <1>2 DEF Round
  <1>4. Held(s)
    BY <1>2, <1>3 DEF Held
  <1>. HIDE DEF s
  <1>. QED BY <1>1, <1>3, <1>4, QuietTyped

LEMMA ReceiptTyped ==
  ASSUME Typed, NEW w \in Workers, Receipt(w)
  PROVE  Typed'
  <1>. DEFINE r == round[w]
              e == Min(r.left)
              t == InHand(r).transfer
  <1>1. r.phase = "asking" /\ r.left # {} /\ UNCHANGED <<rowVars, answers, pass>>
    BY DEF Receipt
  <1>2. r \in Round /\ r.todo # {} /\ e \in r.left /\ t \in Transfers
    BY <1>1, InRound DEF Held, Candidate
  <1>3. CASE Silent(w, r, e)
    BY <1>1, <1>3, SilentTyped
  <1>4. ASSUME GoOn(w, Counted(r, e, "elsewhere"))
        PROVE  Typed'
    <2>1. "elsewhere" \in Verdicts /\ e \in network.endpoints
      BY <1>2 DEF Verdicts, Round
    <2>. HIDE DEF r, e
    <2>2. Counted(r, e, "elsewhere") \in Round /\ Held(Counted(r, e, "elsewhere"))
      BY <1>2, <2>1, CountedTyped
    <2>. QED BY <1>1, <1>4, <2>2, QuietTyped
  <1>5. ASSUME NEW at \in Shows(e, t), GoOn(w, [r EXCEPT !.phase = "shown", !.shown = at])
        PROVE  Typed'
    <2>. DEFINE s == [r EXCEPT !.phase = "shown", !.shown = at]
    <2>1. at \in Places
      BY <1>2, <1>5 DEF Shows, Typed, TypeOK
    <2>2. s \in Round /\ s.phase = "shown" /\ s.todo = r.todo /\ s.left = r.left
      BY <1>2, <2>1 DEF Round
    <2>3. Held(s)
      BY <1>1, <1>2, <2>2 DEF Held
    <2>4. GoOn(w, s)
      BY <1>5
    <2>. HIDE DEF s
    <2>. QED BY <1>1, <2>2, <2>3, <2>4, QuietTyped
  <1>. QED BY <1>3, <1>4, <1>5 DEF Receipt

LEMMA HeadTyped ==
  ASSUME Typed, NEW w \in Workers, Head(w)
  PROVE  Typed'
  <1>. DEFINE r == round[w]
              e == Min(r.left)
              t == InHand(r).transfer
  <1>1. r.phase = "shown" /\ UNCHANGED <<rowVars, answers, pass>>
    BY DEF Head
  <1>2. r \in Round /\ r.todo # {} /\ r.left # {} /\ e \in r.left
    BY <1>1, InRound DEF Held
  <1>3. CASE Silent(w, r, e)
    BY <1>1, <1>3, SilentTyped
  <1>4. ASSUME NEW v \in Verdicts, GoOn(w, Counted(r, e, v))
        PROVE  Typed'
    <2>1. e \in network.endpoints
      BY <1>2 DEF Round
    <2>. HIDE DEF r, e
    <2>2. Counted(r, e, v) \in Round /\ Held(Counted(r, e, v))
      BY <1>2, <2>1, CountedTyped
    <2>. QED BY <1>1, <1>4, <2>2, QuietTyped
  <1>5. \A past : (IF ~past THEN "waiting"
                   ELSE IF r.shown = "recorded" THEN "final" ELSE "gone") \in Verdicts
    BY DEF Verdicts
  <1>. QED BY <1>3, <1>4, <1>5 DEF Head

LEMMA UnansweredTyped ==
  ASSUME Typed, NEW w \in Workers, Unanswered(w)
  PROVE  Typed'
  <1>. DEFINE r == round[w]
              t == InHand(r).transfer
              a == answers[w][t]
  <1>1. /\ r.phase = "asking" /\ UNCHANGED <<rowVars, answers>> /\ GoOn(w, Past(r))
        /\ \/ pass' = [pass EXCEPT ![w][t] = a]
           \/ pass' = pass
    BY DEF Unanswered
  <1>2. r \in Round /\ t \in Transfers
    BY <1>1, InRound DEF Held, Candidate
  <1>3. a \in Answer \cup {Untold}
    BY <1>2, Kept DEF Memory
  <1>4. Past(r) \in Round /\ Held(Past(r))
    BY <1>2, PastTyped
  <1>5. RowsTyped'
    BY <1>1, Kept DEF RowsTyped, rowVars
  <1>6. CASE pass' = [pass EXCEPT ![w][t] = a]
    BY <1>1, <1>3, <1>4, <1>5, <1>6, RememberTyped
  <1>7. CASE pass' = pass
    BY <1>1, <1>4, <1>7, QuietTyped
  <1>. QED BY <1>1, <1>6, <1>7

LEMMA NoteTyped ==
  ASSUME Typed, NEW w \in Workers, Note(w)
  PROVE  Typed'
  <1>. DEFINE r == round[w]
              t == InHand(r).transfer
              now == Following(answers[w][t], r.verdict)
              s == [r EXCEPT !.phase = "decide"]
  <1>1. /\ r.phase = "heard" /\ UNCHANGED <<row, times, settled, answers>>
        /\ pass' = [pass EXCEPT ![w][t] = now] /\ GoOn(w, s)
        /\ Disagree(t) \/ Agree(t) \/ UNCHANGED contested
    BY DEF Note
  <1>2. r \in Round /\ r.todo # {} /\ t \in Transfers /\ r.verdict \in Verdicts
    BY <1>1, InRound DEF Held, Candidate
  <1>3. now \in Answer
    <2>. DEFINE before == answers[w][t]
                v == r.verdict
    <2>1. TypeOK /\ before \in Answer \cup {Untold} /\ v \in Verdicts
      BY <1>2, Kept DEF Memory, Typed
    <2>. HIDE DEF before, v
    <2>2. Following(before, v) \in Answer
      BY <2>1, FollowingIs
    <2>. QED BY <2>2 DEF before, v
  <1>4. s \in Round /\ s.phase = "decide" /\ s.todo = r.todo
    BY <1>2 DEF Round
  <1>5. Held(s)
    BY <1>2, <1>4 DEF Held
  <1>6. contested' \in [Transfers -> BOOLEAN]
    <2>1. contested \in [Transfers -> BOOLEAN]
      BY DEF Typed, TypeOK
    <2>. QED BY <1>1, <2>1 DEF Disagree, Agree
  <1>7. RowsTyped'
    BY <1>1, <1>6, Kept DEF RowsTyped
  <1>. HIDE DEF now, s
  <1>. QED BY <1>1, <1>3, <1>4, <1>5, <1>7, RememberTyped

LEMMA DecidedTyped ==
  ASSUME Typed, NEW w \in Workers, Settle(w) \/ GiveUp(w) \/ LeaveIt(w)
  PROVE  Typed'
  <1>. DEFINE r == round[w]
              c == InHand(r)
              now == settled[c.transfer] \/ Unmoved(c)
  <1>1. r.phase = "decide" /\ GoOn(w, Past(r)) /\ UNCHANGED <<times, contested, answers, pass>>
    BY DEF Settle, GiveUp, LeaveIt, rowVars
  <1>2. r \in Round /\ c.transfer \in Transfers
    BY <1>1, InRound DEF Held, Candidate
  <1>3. row' \in [Transfers -> {"none", "matched", "vanished"}]
    <2>1. row \in [Transfers -> {"none", "matched", "vanished"}]
      BY DEF Typed, TypeOK
    <2>2. row' = row \/ row' = [row EXCEPT ![c.transfer] = "vanished"]
      BY DEF Settle, GiveUp, LeaveIt, rowVars
    <2>. QED BY <2>1, <2>2
  <1>4. settled' \in [Transfers -> BOOLEAN]
    <2>1. settled \in [Transfers -> BOOLEAN]
      BY DEF Typed, TypeOK
    <2>2. settled' = settled \/ settled' = [settled EXCEPT ![c.transfer] = now]
      BY DEF Settle, GiveUp, LeaveIt, rowVars
    <2>3. now \in BOOLEAN
      BY Zenon
    <2>. HIDE DEF now, c
    <2>. QED BY <2>1, <2>2, <2>3
  <1>5. RowsTyped' /\ answers' \in Memory /\ pass' \in Memory
    BY <1>1, <1>3, <1>4, Kept DEF RowsTyped
  <1>6. Past(r) \in Round /\ Held(Past(r))
    BY <1>2, PastTyped
  <1>. QED BY <1>1, <1>5, <1>6, GoOnTyped

LEMMA EndTyped ==
  ASSUME Typed, NEW w \in Workers, End(w)
  PROVE  Typed'
  <1>. DEFINE r == round[w]
  <1>1. /\ r.phase = "next" /\ round' = [round EXCEPT ![w] = NoRound]
        /\ from' = [from EXCEPT ![w] = r.onwards]
        /\ back' = [back EXCEPT ![w] = r.onwardsBack]
        /\ UNCHANGED <<network, truth, reached, calm, row, times, settled, contested, lease, failures>>
    BY DEF End, chainVars, rowVars
  <1>2. r \in Round
    BY <1>1, InRound
  <1>3. r.onwards \in Transfers \cup {0} /\ r.onwardsBack \in Transfers \cup {0}
    BY <1>2 DEF Round
  <1>4. answers' \in Memory /\ pass' \in Memory
    <2>1. answers \in Memory /\ pass \in Memory
      BY Kept
    <2>2. /\ [answers EXCEPT ![w] = pass[w]] \in Memory
          /\ [pass EXCEPT ![w] = [t \in Transfers |-> Untold]] \in Memory
      BY <2>1 DEF Memory
    <2>. QED BY <2>1, <2>2 DEF End
  <1>. HIDE DEF r
  <1>5. from' \in [Workers -> Transfers \cup {0}] /\ back' \in [Workers -> Transfers \cup {0}]
    BY <1>1, <1>3 DEF Typed, TypeOK
  <1>6. round \in [Workers -> Round \cup {NoRound}]
    BY DEF Typed, TypeOK
  <1>7. /\ round' \in [Workers -> Round \cup {NoRound}]
        /\ \A v \in Workers : round'[v] = NoRound \/ Held(round'[v])
    BY <1>1, <1>6 DEF Typed
  <1>8. Round' = Round /\ Answer' = Answer
    BY <1>1 DEF Round, Answer, Enough
  <1>9. TypeOK'
    BY <1>1, <1>4, <1>5, <1>7, <1>8 DEF Typed, TypeOK, Memory
  <1>. QED BY <1>7, <1>9 DEF Typed, Held

\* A round ends early, or an instance is started anew.
LEMMA BrokenTyped ==
  ASSUME Typed, NEW w \in Workers, Fail(w) \/ Restart(w)
  PROVE  Typed'
  <1>1. /\ round' = [round EXCEPT ![w] = NoRound] /\ failures' = failures + 1
        /\ failures < network.failures
        /\ UNCHANGED <<network, truth, reached, calm, row, times, settled, contested>>
    BY DEF Fail, Restart, chainVars, rowVars
  <1>2. failures' \in 0 .. network.failures
    <2>1. failures \in 0 .. network.failures /\ network.failures \in Nat
      BY Setup DEF Typed, TypeOK
    <2>. QED BY <1>1, <2>1
  <1>3. lease' \in Workers \cup {Nobody}
    <2>1. lease \in Workers \cup {Nobody}
      BY DEF Typed, TypeOK
    <2>. QED BY <2>1 DEF Fail, Restart, Release
  <1>4. answers' \in Memory /\ pass' \in Memory
    <2>1. answers \in Memory /\ pass \in Memory
      BY Kept
    <2>. DEFINE none == [t \in Transfers |-> Untold]
    <2>2. /\ [answers EXCEPT ![w] = none] \in Memory
          /\ [pass EXCEPT ![w] = none] \in Memory
      BY <2>1 DEF Memory
    <2>. QED BY <2>1, <2>2 DEF Fail, Restart, memory
  <1>5. from' \in [Workers -> Transfers \cup {0}] /\ back' \in [Workers -> Transfers \cup {0}]
    BY DEF Fail, Restart, memory, Typed, TypeOK
  <1>6. round \in [Workers -> Round \cup {NoRound}]
    BY DEF Typed, TypeOK
  <1>7. /\ round' \in [Workers -> Round \cup {NoRound}]
        /\ \A v \in Workers : round'[v] = NoRound \/ Held(round'[v])
    BY <1>1, <1>6 DEF Typed
  <1>8. Round' = Round /\ Answer' = Answer
    BY <1>1 DEF Round, Answer, Enough
  <1>9. TypeOK'
    BY <1>1, <1>2, <1>3, <1>4, <1>5, <1>7, <1>8 DEF Typed, TypeOK, Memory
  <1>. QED BY <1>7, <1>9 DEF Typed, Held

\* No round moves, and nothing is remembered or forgotten.
LEMMA StandingTyped ==
  ASSUME Typed,
         UNCHANGED <<network, truth, settled, contested, failures, answers, pass, from, back, round>>,
         reached' \in [network.endpoints -> Transfers \cup {0}], calm' \in BOOLEAN,
         row' \in [Transfers -> {"none", "matched", "vanished"}], times' \in [Transfers -> Nat],
         lease' \in Workers \cup {Nobody}
  PROVE  Typed'
  <1>1. Round' = Round /\ Answer' = Answer
    BY DEF Round, Answer, Enough
  <1>2. TypeOK'
    BY <1>1 DEF Typed, TypeOK
  <1>. QED BY <1>2 DEF Typed, Held

LEMMA OutsideTyped ==
  ASSUME Typed,
         \/ \E e \in network.endpoints : Finalizes(e)
         \/ \E t \in Transfers : Recorded(t)
         \/ Lapse \/ CalmsDown
         \/ UNCHANGED vars
  PROVE  Typed'
  <1>1. /\ UNCHANGED <<network, truth, settled, contested, failures, answers, pass, from, back, round>>
        /\ \/ reached' = reached
           \/ \E e \in network.endpoints, t \in Transfers : reached' = [reached EXCEPT ![e] = t]
        /\ \/ UNCHANGED <<row, times>>
           \/ \E t \in Transfers : /\ row' = [row EXCEPT ![t] = "matched"]
                                   /\ times' = [times EXCEPT ![t] = @ + 1]
        /\ calm' = calm \/ calm' = TRUE
        /\ lease' = lease \/ lease' = Nobody
    BY Zenon DEF Finalizes, Recorded, Lapse, CalmsDown, vars, chainVars, rowVars, memory
  <1>2. /\ reached \in [network.endpoints -> Transfers \cup {0}] /\ calm \in BOOLEAN
        /\ row \in [Transfers -> {"none", "matched", "vanished"}] /\ times \in [Transfers -> Nat]
        /\ lease \in Workers \cup {Nobody}
    BY DEF Typed, TypeOK
  <1>3. reached' \in [network.endpoints -> Transfers \cup {0}]
    BY <1>1, <1>2
  <1>4. row' \in [Transfers -> {"none", "matched", "vanished"}] /\ times' \in [Transfers -> Nat]
    BY <1>1, <1>2
  <1>5. calm' \in BOOLEAN /\ lease' \in Workers \cup {Nobody}
    BY <1>1, <1>2
  <1>. QED BY <1>1, <1>3, <1>4, <1>5, StandingTyped

LEMMA TypedStep == Typed /\ [Next]_vars => Typed'
  <1>. SUFFICES ASSUME Typed, [Next]_vars PROVE Typed'
    OBVIOUS
  <1>1. ASSUME NEW w \in Workers, WorkerStep(w)
        PROVE  Typed'
    BY <1>1, SkipTyped, AskTyped, ReceiptTyped, HeadTyped, UnansweredTyped, NoteTyped,
       DecidedTyped, EndTyped DEF WorkerStep
  <1>2. ASSUME NEW w \in Workers, Begin(w) \/ Fail(w) \/ Restart(w)
        PROVE  Typed'
    BY <1>2, BeginTyped, BrokenTyped
  <1>. QED BY <1>1, <1>2, OutsideTyped DEF Next

\* Every variable keeps its type: what the endpoints are asked and what is remembered of their
\* answers is what the code's types allow, and the counts of rounds stay within what they are
\* compared with (decided, round).
THEOREM TypeAlwaysCorrect == Spec => []TypeOK
  <1>1. Typed => TypeOK
    BY DEF Typed
  <1>. QED BY <1>1, TypedInit, TypedStep, PTL DEF Spec

-----------------------------------------------------------------------
(***************************************************************************)
(* Giving up.  An endpoint that does not lie can say that a transfer the   *)
(* chain holds is gone only once in a worker's rounds: it showed nothing   *)
(* while it was behind, and its final block got past the transfer between  *)
(* the two questions.  From then on it shows where the transfer is.  So    *)
(* the rounds a worker counts are paid for by the endpoints that cannot    *)
(* say it again, and there are not enough of those to give up.             *)
(***************************************************************************)
Honest == network.endpoints \ network.liars

\* Of as many as agreement takes, so many do not lie at the least.
Slack == network.agreements - Cardinality(network.liars)

\* As many honest endpoints as there are do not pay for as many rounds as giving up takes.  An
\* operator's own node does with the least a document may set, two; third parties with the
\* default of ten do up to nineteen, or up to ten of which one lies.
EnoughMisses ==
    \A n \in Networks :
        n.misses * (n.agreements - Cardinality(n.liars))
            > Cardinality(n.endpoints \ n.liars)

\* Endpoint e has said in round r that t is gone, or is about to.
Flying(r, t, e) ==
    /\ r.phase \in {"asking", "shown", "heard"}
    /\ InHand(r).transfer = t
    /\ \/ r.verdict = "gone" /\ e \in r.said
       \/ r.phase = "shown" /\ r.shown # "recorded" /\ e = Min(r.left)

\* The honest endpoints that cannot say of t again that it is gone, r being the round.
Clear(at, r, t) == {e \in Honest : at[e] >= t /\ ~Flying(r, t, e)}

\* What is remembered is paid for by the endpoints in C.
Paid(m, C) == m.verdict = "gone" => m.rounds * Slack <= Cardinality(C)

Tallied ==
    \A w \in Workers, t \in Transfers :
        truth[t] # "nowhere" =>
            LET C == Clear(reached, round[w], t)
            IN Paid(answers[w][t], C) /\ Paid(pass[w][t], C)

\* A verdict of gone is what agreement takes; and those that said so of a transfer the chain
\* holds are past it.
GoneSo(r) ==
    r.verdict = "gone" =>
        /\ r.phase \in {"heard", "decide"} => Cardinality(r.said) = network.agreements
        /\ truth[InHand(r).transfer] # "nowhere" =>
               \A e \in r.said \ network.liars : reached[e] >= InHand(r).transfer

\* What is decided on is what was last remembered.
DecidesSo(w) ==
    round[w].phase = "decide" =>
        pass[w][InHand(round[w]).transfer].verdict = round[w].verdict

RoundsSo == \A w \in Workers : round[w] = NoRound \/ (GoneSo(round[w]) /\ DecidesSo(w))

Counting ==
    /\ Typed
    /\ RoundsSo
    /\ Tallied
    /\ GivenUpIsGone

LEMMA CountingInit == Init => Counting
  <1>. SUFFICES ASSUME Init PROVE Counting
    OBVIOUS
  <1>1. \A w \in Workers, t \in Transfers : /\ answers[w][t].verdict = "none"
                                            /\ pass[w][t].verdict = "none"
    BY DEF Init, Untold
  <1>2. Tallied
    BY <1>1 DEF Tallied, Paid
  <1>. QED BY <1>2, TypedInit DEF Init, Counting, RoundsSo, GivenUpIsGone

\* More endpoints pay for as much.
LEMMA PaidByMore ==
  ASSUME Typed, NEW a \in Answer \cup {Untold}, NEW C, NEW D \in SUBSET Honest, C \subseteq D,
         Paid(a, C)
  PROVE  Paid(a, D)
  <1>1. IsFiniteSet(D)
    <2>1. IsFiniteSet(network.endpoints) /\ D \subseteq network.endpoints
      BY Setup DEF Typed, Honest
    <2>. QED BY <2>1, FS_Subset
  <1>2. Cardinality(C) <= Cardinality(D) /\ Cardinality(C) \in Nat /\ Cardinality(D) \in Nat
    BY <1>1, FS_Subset, FS_CardinalityType
  <1>3. Slack \in Int
    BY Setup, FS_Subset, FS_CardinalityType DEF Slack, Typed
  <1>4. a.verdict = "gone" => a.rounds \in Int
    BY Setup DEF Answer, Untold, Typed
  <1>5. a.verdict = "gone" => a.rounds * Slack \in Int
    BY <1>3, <1>4
  <1>. QED BY <1>2, <1>5 DEF Paid

\* The endpoints an honest majority has over the liars.
LEMMA HonestSaid ==
  ASSUME Typed, NEW S \in SUBSET network.endpoints, Cardinality(S) = network.agreements
  PROVE  IsFiniteSet(S \ network.liars) /\ Cardinality(S \ network.liars) >= Slack
  <1>1. /\ IsFiniteSet(network.endpoints) /\ network.liars \subseteq network.endpoints
        /\ network.agreements \in Nat
    BY Setup DEF Typed
  <1>2. IsFiniteSet(S) /\ IsFiniteSet(network.liars)
    BY <1>1, FS_Subset
  <1>3. /\ Cardinality(S \ network.liars) = Cardinality(S) - Cardinality(S \cap network.liars)
        /\ IsFiniteSet(S \ network.liars)
    BY <1>2, FS_Difference
  <1>4. Cardinality(S \cap network.liars) <= Cardinality(network.liars)
    <2>1. S \cap network.liars \subseteq network.liars
      OBVIOUS
    <2>. QED BY <1>2, <2>1, FS_Subset
  <1>5. Cardinality(S \cap network.liars) \in Nat /\ Cardinality(network.liars) \in Nat
    <2>1. IsFiniteSet(S \cap network.liars)
      BY <1>2, FS_Subset
    <2>. QED BY <1>2, <2>1, FS_CardinalityType
  <1>. QED BY <1>1, <1>3, <1>4, <1>5 DEF Slack

\* Two sets of honest endpoints with nothing in common.
LEMMA BothPay ==
  ASSUME Typed, NEW C \in SUBSET Honest, NEW H \in SUBSET Honest, C \cap H = {}
  PROVE  Cardinality(C \cup H) = Cardinality(C) + Cardinality(H)
  <1>1. IsFiniteSet(network.endpoints) /\ Honest \subseteq network.endpoints
    BY Setup DEF Typed, Honest
  <1>2. IsFiniteSet(C) /\ IsFiniteSet(H)
    <2>1. C \subseteq network.endpoints /\ H \subseteq network.endpoints
      BY <1>1
    <2>. QED BY <1>1, <2>1, FS_Subset
  <1>3. Cardinality(C \cup H) = Cardinality(C) + Cardinality(H) - Cardinality(C \cap H)
    BY <1>2, FS_Union
  <1>4. Cardinality(C \cap H) = 0
    BY FS_EmptySet
  <1>5. Cardinality(C) \in Nat /\ Cardinality(H) \in Nat
    BY <1>2, FS_CardinalityType
  <1>. QED BY <1>3, <1>4, <1>5

\* The endpoints that pay for a worker's rounds get no fewer, and what is remembered is what
\* was, was thrown away, or is paid for.
LEMMA TalliedStep ==
  ASSUME Typed, Tallied, UNCHANGED <<network, truth>>,
         \A w \in Workers, t \in Transfers :
             truth[t] # "nowhere" =>
                 Clear(reached, round[w], t) \subseteq Clear(reached', round'[w], t),
         \A w \in Workers, t \in Transfers :
             \/ answers'[w][t] \in {answers[w][t], pass[w][t]}
             \/ answers'[w][t].verdict # "gone",
         \A w \in Workers, t \in Transfers :
             \/ pass'[w][t] \in {answers[w][t], pass[w][t]}
             \/ pass'[w][t].verdict # "gone"
             \/ truth[t] # "nowhere" => Paid(pass'[w][t], Clear(reached', round'[w], t))
  PROVE  Tallied'
  <1>1. ASSUME NEW w \in Workers, NEW t \in Transfers, truth[t] # "nowhere"
        PROVE  /\ Paid(answers'[w][t], Clear(reached', round'[w], t))
               /\ Paid(pass'[w][t], Clear(reached', round'[w], t))
    <2>. DEFINE C == Clear(reached, round[w], t)
                D == Clear(reached', round'[w], t)
    <2>1. C \subseteq D /\ D \in SUBSET Honest
      BY <1>1 DEF Clear
    <2>2. answers[w][t] \in Answer \cup {Untold} /\ pass[w][t] \in Answer \cup {Untold}
      BY Kept DEF Memory
    <2>3. Paid(answers[w][t], C) /\ Paid(pass[w][t], C)
      BY <1>1 DEF Tallied
    <2>. HIDE DEF C, D
    <2>4. Paid(answers[w][t], D) /\ Paid(pass[w][t], D)
      BY <2>1, <2>2, <2>3, PaidByMore
    <2>5. \A m : m.verdict # "gone" => Paid(m, D)
      BY DEF Paid
    <2>. QED BY <1>1, <2>4, <2>5 DEF D
  <1>2. Slack' = Slack /\ Honest' = Honest
    BY DEF Slack, Honest
  <1>. QED BY <1>1, <1>2 DEF Tallied, Paid, Clear, Flying

\* When only the round of w moves, to r, and no endpoint that is past a transfer the chain
\* holds begins to say that it is gone, the endpoints that pay get no fewer.
LEMMA ClearStays ==
  ASSUME NEW w \in Workers, DOMAIN round = Workers, NEW r, round' = [round EXCEPT ![w] = r],
         reached' = reached,
         \A t \in Transfers : truth[t] # "nowhere" =>
             \A e \in Honest : reached[e] >= t /\ Flying(r, t, e) => Flying(round[w], t, e)
  PROVE  \A v \in Workers, t \in Transfers :
             truth[t] # "nowhere" =>
                 Clear(reached, round[v], t) \subseteq Clear(reached', round'[v], t)
  <1>. SUFFICES ASSUME NEW v \in Workers, NEW t \in Transfers, truth[t] # "nowhere",
                       NEW e \in Honest, reached[e] >= t, ~Flying(round[v], t, e)
                PROVE  ~Flying(round'[v], t, e)
    BY DEF Clear
  <1>1. CASE v = w
    BY <1>1
  <1>2. CASE v # w
    BY <1>2
  <1>. QED BY <1>1, <1>2

\* A step of the round of w, to r, that remembers nothing of what was said now.
LEMMA CountingRound ==
  ASSUME Counting, Typed', NEW w \in Workers, NEW r, GoOn(w, r), GoneSo(r),
         r.phase # "decide",
         UNCHANGED answers,
         pass' = pass \/ \E t \in Transfers : \E a : /\ pass' = [pass EXCEPT ![w][t] = a]
                                                     /\ a = answers[w][t] \/ a.verdict # "gone",
         \A t \in Transfers : truth[t] # "nowhere" =>
             \A e \in Honest : reached[e] >= t /\ Flying(r, t, e) => Flying(round[w], t, e),
         GivenUpIsGone'
  PROVE  Counting'
  <1>1. /\ UNCHANGED <<network, truth, reached>> /\ round' = [round EXCEPT ![w] = r]
        /\ DOMAIN round = Workers
    BY DEF GoOn, chainVars, Counting, Typed, TypeOK
  <1>2. \A v \in Workers, t \in Transfers :
            truth[t] # "nowhere" =>
                Clear(reached, round[v], t) \subseteq Clear(reached', round'[v], t)
    BY <1>1, ClearStays
  <1>3. pass \in Memory
    BY Kept DEF Counting
  <1>4. \A v \in Workers, t \in Transfers :
            \/ pass'[v][t] \in {answers[v][t], pass[v][t]}
            \/ pass'[v][t].verdict # "gone"
    BY <1>3 DEF Memory
  <1>5. Tallied'
    BY <1>1, <1>2, <1>4, TalliedStep DEF Counting
  <1>6. \A v \in Workers :
            \/ round'[v] = NoRound
            \/ /\ GoneSo(round'[v])
               /\ round'[v].phase = "decide" =>
                      pass'[v][InHand(round'[v]).transfer].verdict = round'[v].verdict
    <2>. SUFFICES ASSUME NEW v \in Workers, round'[v] # NoRound
                  PROVE  /\ GoneSo(round'[v])
                         /\ round'[v].phase = "decide" =>
                                pass'[v][InHand(round'[v]).transfer].verdict = round'[v].verdict
      OBVIOUS
    <2>1. CASE v = w
      BY <1>1, <2>1
    <2>2. CASE v # w
      <3>1. round'[v] = round[v] /\ pass'[v] = pass[v]
        BY <1>1, <1>3, <2>2 DEF Memory
      <3>. QED BY <3>1 DEF DecidesSo, Counting, RoundsSo
    <2>. QED BY <2>1, <2>2
  <1>7. RoundsSo'
    BY <1>1, <1>6 DEF RoundsSo, GoneSo, DecidesSo
  <1>. QED BY <1>5, <1>7 DEF Counting

\* Past the candidate in hand nothing has been said.
LEMMA PastCounts ==
  ASSUME NEW r \in Round
  PROVE  Past(r).phase = "next" /\ GoneSo(Past(r)) /\ \A t, e : ~Flying(Past(r), t, e)
  <1>1. Past(r).phase = "next" /\ Past(r).verdict = "none"
    BY DEF Past, Round
  <1>. QED BY <1>1 DEF GoneSo, Flying

\* Of the worker's round that is under way.
LEMMA RoundCounts ==
  ASSUME Counting, NEW w \in Workers, round[w].phase # "idle"
  PROVE  /\ round[w] \in Round /\ Held(round[w]) /\ GoneSo(round[w]) /\ DecidesSo(w)
         /\ round[w].todo # {} => InHand(round[w]).transfer \in Transfers
         /\ round[w].left # {} => Min(round[w].left) \in network.endpoints
  <1>1. round[w] \in Round /\ Held(round[w])
    BY InRound DEF Counting
  <1>2. round[w] # NoRound
    BY DEF NoRound
  <1>3. GoneSo(round[w]) /\ DecidesSo(w)
    BY <1>2 DEF Counting, RoundsSo
  <1>4. round[w].todo # {} => InHand(round[w]).transfer \in Transfers
    BY InRound DEF Counting, Candidate
  <1>5. round[w].left # {} => Min(round[w].left) \in network.endpoints
    BY <1>1, InRound DEF Counting, Round
  <1>. QED BY <1>1, <1>3, <1>4, <1>5

\* A step of a round that remembers nothing and leaves the rows alone.
LEMMA QuietCounts ==
  ASSUME Counting, Typed', NEW w \in Workers, NEW r, GoOn(w, r), GoneSo(r), r.phase # "decide",
         UNCHANGED <<rowVars, answers, pass>>,
         \A t \in Transfers : truth[t] # "nowhere" =>
             \A e \in Honest : reached[e] >= t /\ Flying(r, t, e) => Flying(round[w], t, e)
  PROVE  Counting'
  <1>1. GivenUpIsGone'
    BY DEF Counting, GivenUpIsGone, rowVars, GoOn, chainVars
  <1>. QED BY <1>1, CountingRound

LEMMA SkipCounts ==
  ASSUME Counting, Typed', NEW w \in Workers, Skip(w)
  PROVE  Counting'
  <1>. DEFINE r == round[w]
              t == InHand(r).transfer
              b == [answers[w][t] EXCEPT !.skip = answers[w][t].skip - 1]
  <1>1. /\ r.phase = "next" /\ r.todo # {} /\ InDoubt(w, t)
        /\ pass' = [pass EXCEPT ![w][t] = b]
        /\ GoOn(w, Past(r)) /\ UNCHANGED <<rowVars, answers>>
    BY DEF Skip
  <1>2. r \in Round /\ t \in Transfers
    BY <1>1, RoundCounts
  <1>3. b.verdict # "gone"
    <2>1. answers[w][t] \in Answer \cup {Untold} /\ answers[w][t].verdict = "disagreed"
      BY <1>1, <1>2, Kept DEF Memory, Counting, InDoubt
    <2>. QED BY <2>1 DEF Answer, Untold
  <1>4. GivenUpIsGone'
    BY <1>1 DEF Counting, GivenUpIsGone, rowVars, GoOn, chainVars
  <1>. HIDE DEF b, t, r
  <1>. QED BY <1>1, <1>2, <1>3, <1>4, PastCounts, CountingRound

LEMMA AskCounts ==
  ASSUME Counting, Typed', NEW w \in Workers, Ask(w)
  PROVE  Counting'
  <1>. DEFINE r == round[w]
              s == [r EXCEPT !.phase = "asking", !.left = r.asking]
  <1>1. r.phase = "next" /\ r.todo # {} /\ GoOn(w, s) /\ UNCHANGED <<rowVars, answers, pass>>
    BY DEF Ask
  <1>2. r \in Round /\ r.said = {}
    BY <1>1, RoundCounts DEF Held
  <1>3. s.phase = "asking" /\ s.said = {}
    BY <1>2 DEF Round
  <1>. HIDE DEF s
  <1>4. GoneSo(s) /\ \A t, e : ~Flying(s, t, e)
    BY <1>3 DEF GoneSo, Flying
  <1>. QED BY <1>1, <1>3, <1>4, QuietCounts

\* What has been said stays said, of the candidate in hand.
LEMMA SameSaid ==
  ASSUME NEW r, NEW s, GoneSo(r), r.phase \in {"asking", "shown"}, s.phase \in {"asking", "shown"},
         s.todo = r.todo, s.said = r.said, s.verdict = r.verdict
  PROVE  /\ GoneSo(s)
         /\ \A t, e : Flying(s, t, e) =>
                \/ Flying(r, t, e)
                \/ /\ s.phase = "shown" /\ s.shown # "recorded"
                   /\ e = Min(s.left) /\ t = InHand(r).transfer
  <1>1. InHand(s) = InHand(r)
    BY DEF InHand
  <1>. QED BY <1>1 DEF GoneSo, Flying

LEMMA SilentCounts ==
  ASSUME Counting, Typed', NEW w \in Workers, NEW e, round[w].phase \in {"asking", "shown"},
         Silent(w, round[w], e), UNCHANGED <<rowVars, answers, pass>>
  PROVE  Counting'
  <1>. DEFINE r == round[w]
              s == [r EXCEPT !.phase = "asking", !.shown = "none",
                             !.left = r.left \ {e}, !.asking = r.asking \ {e}]
  <1>1. GoOn(w, s)
    BY DEF Silent
  <1>2. r \in Round /\ GoneSo(r)
    BY RoundCounts
  <1>3. s.phase = "asking" /\ s.todo = r.todo /\ s.said = r.said /\ s.verdict = r.verdict
    BY <1>2 DEF Round
  <1>. HIDE DEF s, r
  <1>4. GoneSo(s) /\ \A t, d : Flying(s, t, d) => Flying(r, t, d)
    BY <1>2, <1>3, SameSaid DEF r
  <1>. QED BY <1>1, <1>3, <1>4, QuietCounts DEF r

\* An endpoint's answer is counted: one that says gone had shown nothing, and its final block
\* is past what the chain holds.
LEMMA CountedCounts ==
  ASSUME Counting, Typed', NEW w \in Workers, NEW e \in network.endpoints, NEW v \in Verdicts,
         round[w].phase \in {"asking", "shown"}, e = Min(round[w].left),
         GoOn(w, Counted(round[w], e, v)), UNCHANGED <<rowVars, answers, pass>>,
         v = "gone" => /\ round[w].phase = "shown" /\ round[w].shown # "recorded"
                       /\ e \notin network.liars => reached[e] >= InHand(round[w]).transfer
  PROVE  Counting'
  <1>. DEFINE r == round[w]
              s == Counted(r, e, v)
  <1>1. r \in Round /\ GoneSo(r)
    BY RoundCounts
  <1>2. CASE r.said # {} /\ v # r.verdict
    <2>1. s = [r EXCEPT !.phase = "heard", !.verdict = "disagreed", !.shown = "none"]
      BY <1>2 DEF Counted
    <2>. HIDE DEF s
    <2>2. s.phase = "heard" /\ s.verdict = "disagreed"
      BY <1>1, <2>1 DEF Round
    <2>3. GoneSo(s) /\ \A t, d : ~Flying(s, t, d)
      BY <2>2 DEF GoneSo, Flying
    <2>4. GoOn(w, s)
      BY DEF s
    <2>. QED BY <2>2, <2>3, <2>4, QuietCounts
  <1>3. CASE ~(r.said # {} /\ v # r.verdict)
    <2>. DEFINE phase == IF Cardinality(r.said \cup {e}) = network.agreements
                         THEN "heard" ELSE "asking"
    <2>1. s = [r EXCEPT !.phase = phase, !.verdict = v, !.said = r.said \cup {e},
                        !.left = r.left \ {e}, !.shown = "none"]
      BY <1>3 DEF Counted
    <2>2. /\ phase \in {"heard", "asking"}
          /\ phase = "heard" => Cardinality(r.said \cup {e}) = network.agreements
      OBVIOUS
    <2>. HIDE DEF s, phase
    <2>3. /\ s.phase = phase /\ s.verdict = v /\ s.said = r.said \cup {e} /\ s.todo = r.todo
      BY <1>1, <2>1 DEF Round
    <2>4. InHand(s) = InHand(r)
      BY <2>3 DEF InHand
    <2>5. ASSUME NEW d \in r.said, v = "gone"
          PROVE  r.verdict = "gone"
      BY <1>3, <2>5
    <2>6. GoneSo(s)
      <3>. SUFFICES ASSUME v = "gone"
                    PROVE  /\ s.phase \in {"heard", "decide"} =>
                                  Cardinality(s.said) = network.agreements
                           /\ truth[InHand(r).transfer] # "nowhere" =>
                                  \A d \in s.said \ network.liars :
                                      reached[d] >= InHand(r).transfer
        BY <2>3, <2>4 DEF GoneSo
      <3>1. \A d \in r.said \ network.liars :
                truth[InHand(r).transfer] # "nowhere" => reached[d] >= InHand(r).transfer
        BY <1>1, <2>5 DEF GoneSo
      <3>. QED BY <2>2, <2>3, <3>1
    <2>7. ASSUME NEW t, NEW d, Flying(s, t, d)
          PROVE  Flying(r, t, d)
      <3>1. InHand(r).transfer = t /\ v = "gone" /\ (d \in r.said \/ d = e)
        BY <2>2, <2>3, <2>4, <2>7 DEF Flying
      <3>2. CASE d \in r.said
        BY <2>5, <3>1, <3>2 DEF Flying
      <3>3. CASE d = e
        BY <3>1, <3>3 DEF Flying
      <3>. QED BY <3>1, <3>2, <3>3
    <2>8. GoOn(w, s) /\ s.phase # "decide"
      BY <2>2, <2>3 DEF s
    <2>. QED BY <2>6, <2>7, <2>8, QuietCounts
  <1>. QED BY <1>2, <1>3

LEMMA ReceiptCounts ==
  ASSUME Counting, Typed', NEW w \in Workers, Receipt(w)
  PROVE  Counting'
  <1>. DEFINE r == round[w]
              e == Min(r.left)
              t == InHand(r).transfer
  <1>1. r.phase = "asking" /\ r.left # {} /\ UNCHANGED <<rowVars, answers, pass>>
    BY DEF Receipt
  <1>2. r \in Round /\ GoneSo(r) /\ r.todo # {} /\ t \in Transfers /\ e \in network.endpoints
    BY <1>1, RoundCounts DEF Held
  <1>3. CASE Silent(w, r, e)
    BY <1>1, <1>3, SilentCounts
  <1>4. ASSUME GoOn(w, Counted(r, e, "elsewhere"))
        PROVE  Counting'
    <2>1. "elsewhere" \in Verdicts
      BY DEF Verdicts
    <2>. QED BY <1>1, <1>2, <1>4, <2>1, CountedCounts
  <1>5. ASSUME NEW at \in Shows(e, t), at # "elsewhere",
               GoOn(w, [r EXCEPT !.phase = "shown", !.shown = at])
        PROVE  Counting'
    <2>. DEFINE s == [r EXCEPT !.phase = "shown", !.shown = at]
    <2>1. /\ s.phase = "shown" /\ s.shown = at /\ s.left = r.left /\ s.todo = r.todo
          /\ s.said = r.said /\ s.verdict = r.verdict
      BY <1>2 DEF Round
    <2>2. GoOn(w, s)
      BY <1>5
    <2>. HIDE DEF s
    <2>3. /\ GoneSo(s)
          /\ \A u, d : Flying(s, u, d) =>
                 \/ Flying(r, u, d)
                 \/ at # "recorded" /\ d = e /\ u = t
      BY <1>1, <1>2, <2>1, SameSaid
    <2>4. e \in Honest /\ reached[e] >= t /\ truth[t] # "nowhere" => at = "recorded"
      <3>1. t \in Int /\ reached[e] \in Int
        <4>1. t \in Transfers /\ reached[e] \in Transfers \cup {0}
          BY <1>2 DEF Counting, Typed, TypeOK
        <4>2. Transfers \subseteq Int
          BY FinalityAssumptions
        <4>3. \A i \in Transfers \cup {0} : i \in Int
          BY <4>2
        <4>. QED BY <4>1, <4>3
      <3>2. truth[t] \in Places
        BY <1>2 DEF Counting, Typed, TypeOK
      <3>. HIDE DEF e, t
      <3>. QED BY <1>5, <3>1, <3>2 DEF Shows, Honest, Places
    <2>. QED BY <1>1, <2>1, <2>2, <2>3, <2>4, QuietCounts
  <1>. QED BY <1>3, <1>4, <1>5 DEF Receipt

LEMMA HeadCounts ==
  ASSUME Counting, Typed', NEW w \in Workers, Head(w)
  PROVE  Counting'
  <1>. DEFINE r == round[w]
              e == Min(r.left)
              t == InHand(r).transfer
              V(past) == IF ~past THEN "waiting"
                         ELSE IF r.shown = "recorded" THEN "final" ELSE "gone"
  <1>1. r.phase = "shown" /\ UNCHANGED <<rowVars, answers, pass>>
    BY DEF Head
  <1>2. e \in network.endpoints
    BY <1>1, RoundCounts DEF Held
  <1>3. CASE Silent(w, r, e)
    BY <1>1, <1>3, SilentCounts
  <1>4. ASSUME NEW past \in IsPast(e, t, r.shown), GoOn(w, Counted(r, e, V(past)))
        PROVE  Counting'
    <2>. DEFINE v == V(past)
    <2>1. v \in Verdicts /\ (v = "gone" => past /\ r.shown # "recorded")
      BY DEF Verdicts
    <2>2. e \notin network.liars /\ past => reached[e] >= t
      BY <1>4 DEF IsPast
    <2>3. GoOn(w, Counted(r, e, v))
      BY <1>4
    <2>. HIDE DEF v, V
    <2>. QED BY <1>1, <1>2, <2>1, <2>2, <2>3, CountedCounts
  <1>. QED BY <1>3, <1>4 DEF Head

LEMMA UnansweredCounts ==
  ASSUME Counting, Typed', NEW w \in Workers, Unanswered(w)
  PROVE  Counting'
  <1>. DEFINE r == round[w]
              t == InHand(r).transfer
  <1>1. /\ r.phase = "asking" /\ UNCHANGED <<rowVars, answers>> /\ GoOn(w, Past(r))
        /\ \/ pass' = [pass EXCEPT ![w][t] = answers[w][t]]
           \/ pass' = pass
    BY DEF Unanswered
  <1>2. r \in Round /\ t \in Transfers
    BY <1>1, RoundCounts DEF Held
  <1>3. GivenUpIsGone'
    BY <1>1 DEF Counting, GivenUpIsGone, rowVars, GoOn, chainVars
  <1>. HIDE DEF t, r
  <1>. QED BY <1>1, <1>2, <1>3, PastCounts, CountingRound

\* An answer is remembered.  Those that said so can say it again, or pay for this round.
LEMMA NoteCounts ==
  ASSUME Counting, Typed', NEW w \in Workers, Note(w)
  PROVE  Counting'
  <1>. DEFINE r == round[w]
              t == InHand(r).transfer
              before == answers[w][t]
              now == Following(before, r.verdict)
              s == [r EXCEPT !.phase = "decide"]
              C == Clear(reached, r, t)
              D == Clear(reached, s, t)
              H == r.said \ network.liars
  <1>1. /\ r.phase = "heard" /\ UNCHANGED <<row, times, settled, answers>>
        /\ pass' = [pass EXCEPT ![w][t] = now] /\ GoOn(w, s)
    BY DEF Note
  <1>2. /\ UNCHANGED <<network, truth, reached>> /\ round' = [round EXCEPT ![w] = s]
        /\ DOMAIN round = Workers
    BY <1>1 DEF GoOn, chainVars, Counting, Typed, TypeOK
  <1>3. r \in Round /\ GoneSo(r) /\ t \in Transfers /\ r.verdict \in Verdicts
    BY <1>1, RoundCounts DEF Held
  <1>4. /\ s.phase = "decide" /\ s.todo = r.todo /\ s.said = r.said /\ s.verdict = r.verdict
    BY <1>3 DEF Round
  <1>5. InHand(s) = InHand(r) /\ GoneSo(s) /\ \A u, e : ~Flying(s, u, e)
    BY <1>1, <1>3, <1>4 DEF GoneSo, InHand, Flying
  <1>6. before \in Answer \cup {Untold} /\ answers \in Memory /\ pass \in Memory
    BY <1>3, Kept DEF Memory, Counting
  <1>7. /\ now \in Answer /\ now.verdict = r.verdict
        /\ now.rounds = 1 \/ (before.verdict = r.verdict /\ now.rounds <= before.rounds + 1)
    <2>. DEFINE v == r.verdict
    <2>1. TypeOK /\ v \in Verdicts
      BY <1>3 DEF Counting, Typed
    <2>. HIDE DEF before, v
    <2>2. /\ Following(before, v) \in Answer /\ Following(before, v).verdict = v
          /\ \/ Following(before, v).rounds = 1
             \/ before.verdict = v /\ Following(before, v).rounds <= before.rounds + 1
      BY <1>6, <2>1, FollowingIs
    <2>. QED BY <2>2 DEF v
  <1>8. truth[t] # "nowhere" => Paid(now, D)
    <2>. SUFFICES ASSUME truth[t] # "nowhere", r.verdict = "gone"
                  PROVE  now.rounds * Slack <= Cardinality(D)
      BY <1>7 DEF Paid
    <2>1. Cardinality(r.said) = network.agreements /\ r.said \in SUBSET network.endpoints
      BY <1>1, <1>3 DEF GoneSo, Round
    <2>2. IsFiniteSet(H) /\ Cardinality(H) >= Slack
      BY <2>1, HonestSaid DEF Counting
    <2>3. C \in SUBSET Honest /\ D \in SUBSET Honest /\ H \in SUBSET Honest
      BY <2>1 DEF Clear, Honest
    <2>4. C \cap H = {}
      BY <1>1 DEF Clear, Flying
    <2>5. C \cup H \subseteq D
      <3>1. \A e \in H : reached[e] >= t
        BY <1>3 DEF GoneSo
      <3>2. H \subseteq D
        BY <1>5, <2>3, <3>1 DEF Clear
      <3>3. C \subseteq D
        BY <1>5 DEF Clear
      <3>. QED BY <3>2, <3>3
    <2>6. Paid(before, C)
      BY <1>3 DEF Counting, Tallied
    <2>7. /\ IsFiniteSet(C) /\ IsFiniteSet(D)
          /\ Cardinality(C \cup H) <= Cardinality(D)
      <3>1. IsFiniteSet(Honest)
        <4>1. IsFiniteSet(network.endpoints) /\ Honest \subseteq network.endpoints
          BY Setup DEF Counting, Typed, Honest
        <4>. QED BY <4>1, FS_Subset
      <3>2. IsFiniteSet(C) /\ IsFiniteSet(D)
        <4>. HIDE DEF C, D
        <4>. QED BY <2>3, <3>1, FS_Subset
      <3>. HIDE DEF C, D, H
      <3>. QED BY <2>5, <3>2, FS_Subset
    <2>8. Cardinality(C \cup H) = Cardinality(C) + Cardinality(H)
      <3>. HIDE DEF C, H
      <3>. QED BY <2>3, <2>4, BothPay DEF Counting
    <2>9. Cardinality(C) \in Nat /\ Cardinality(D) \in Nat /\ Cardinality(H) \in Nat
      <3>. HIDE DEF C, D, H
      <3>. QED BY <2>2, <2>7, FS_CardinalityType
    <2>10. Slack \in Nat
      BY Setup, FS_Subset, FS_CardinalityType DEF Slack, Counting, Typed
    <2>11. now.rounds \in Nat
      BY <1>7, Setup DEF Answer, Counting, Typed
    <2>. HIDE DEF C, D, H, now
    <2>12. CASE now.rounds = 1
      <3>1. now.rounds * Slack = Slack
        BY <2>10, <2>12
      <3>. QED BY <2>2, <2>7, <2>8, <2>9, <2>10, <3>1
    <2>13. CASE before.verdict = r.verdict /\ now.rounds <= before.rounds + 1
      <3>. DEFINE n == now.rounds
                  b == before.rounds
                  k == Slack
      <3>1. b * k <= Cardinality(C)
        BY <2>6, <2>13 DEF Paid
      <3>2. b \in Nat /\ n \in Nat /\ k \in Nat /\ n <= b + 1
        <4>1. b \in Nat
          BY <1>6, Setup DEF Answer, Untold, Counting, Typed
        <4>. QED BY <2>10, <2>11, <2>13, <4>1
      <3>. HIDE DEF n, b, k
      <3>3. n * k <= (b + 1) * k
        BY <3>2
      <3>4. (b + 1) * k = b * k + k /\ b * k \in Nat /\ n * k \in Nat
        BY <3>2
      <3>5. k <= Cardinality(H)
        BY <2>2 DEF k
      <3>6. n * k <= Cardinality(D)
        BY <2>7, <2>8, <2>9, <3>1, <3>2, <3>3, <3>4, <3>5
      <3>. QED BY <3>6 DEF n, k
    <2>. QED BY <1>7, <2>12, <2>13
  <1>9. Tallied'
    <2>1. \A v \in Workers, u \in Transfers :
              truth[u] # "nowhere" =>
                  Clear(reached, round[v], u) \subseteq Clear(reached', round'[v], u)
      <3>. HIDE DEF s
      <3>. QED BY <1>2, <1>5, ClearStays
    <2>2. \A v \in Workers, u \in Transfers :
              \/ pass'[v][u] = pass[v][u]
              \/ v = w /\ u = t /\ pass'[v][u] = now
      <3>. HIDE DEF now, t
      <3>. QED BY <1>1, <1>6 DEF Memory
    <2>3. round'[w] = s
      BY <1>2
    <2>4. \A v \in Workers, u \in Transfers :
              \/ pass'[v][u] \in {answers[v][u], pass[v][u]}
              \/ pass'[v][u].verdict # "gone"
              \/ truth[u] # "nowhere" => Paid(pass'[v][u], Clear(reached', round'[v], u))
      <3>. HIDE DEF now, t, s
      <3>. QED BY <1>2, <1>8, <2>2, <2>3
    <2>. QED BY <1>1, <1>2, <2>1, <2>4, TalliedStep DEF Counting
  <1>10. RoundsSo'
    <2>1. ASSUME NEW v \in Workers, round'[v] # NoRound
          PROVE  /\ GoneSo(round'[v])
                 /\ round'[v].phase = "decide" =>
                        pass'[v][InHand(round'[v]).transfer].verdict = round'[v].verdict
      <3>1. CASE v = w
        <4>1. round'[v] = s /\ pass'[v][t] = now
          <5>. HIDE DEF now, t, s
          <5>. QED BY <1>1, <1>2, <1>3, <1>6, <3>1 DEF Memory
        <4>. QED BY <1>4, <1>5, <1>7, <4>1
      <3>2. CASE v # w
        <4>1. round'[v] = round[v] /\ pass'[v] = pass[v]
          <5>. HIDE DEF now, t, s
          <5>. QED BY <1>1, <1>2, <1>6, <3>2 DEF Memory
        <4>. QED BY <2>1, <4>1 DEF DecidesSo, Counting, RoundsSo
      <3>. QED BY <3>1, <3>2
    <2>. QED BY <1>2, <2>1 DEF RoundsSo, GoneSo, DecidesSo
  <1>11. GivenUpIsGone'
    BY <1>1, <1>2 DEF Counting, GivenUpIsGone
  <1>. QED BY <1>9, <1>10, <1>11 DEF Counting

\* There are not enough honest endpoints to pay for as many rounds as giving up takes.
LEMMA GiveUpIsPaid ==
  ASSUME EnoughMisses, Counting, NEW w \in Workers, GiveUp(w)
  PROVE  truth[InHand(round[w]).transfer] = "nowhere"
  <1>. DEFINE r == round[w]
              t == InHand(r).transfer
              m == pass[w][t]
              C == Clear(reached, r, t)
  <1>1. r.phase = "decide" /\ r.verdict = "gone" /\ m.rounds >= network.misses
    BY DEF GiveUp, Missed
  <1>2. t \in Transfers /\ m.verdict = "gone"
    BY <1>1, RoundCounts DEF Held, DecidesSo
  <1>. SUFFICES ASSUME truth[t] # "nowhere" PROVE FALSE
    OBVIOUS
  <1>3. m.rounds * Slack <= Cardinality(C)
    BY <1>2 DEF Counting, Tallied, Paid
  <1>4. IsFiniteSet(Honest) /\ C \subseteq Honest
    <2>1. IsFiniteSet(network.endpoints) /\ Honest \subseteq network.endpoints
      BY Setup DEF Counting, Typed, Honest
    <2>. QED BY <2>1, FS_Subset DEF Clear
  <1>5. Cardinality(C) <= Cardinality(Honest) /\ Cardinality(C) \in Nat /\ Cardinality(Honest) \in Nat
    <2>. HIDE DEF C
    <2>. QED BY <1>4, FS_Subset, FS_CardinalityType
  <1>6. network.misses * Slack > Cardinality(Honest)
    BY DEF EnoughMisses, Counting, Typed, TypeOK, Slack, Honest
  <1>7. Slack \in Nat /\ network.misses \in Nat /\ m.rounds \in Nat
    <2>1. Slack \in Nat /\ network.misses \in Nat
      BY Setup, FS_Subset, FS_CardinalityType DEF Slack, Counting, Typed
    <2>2. m \in Answer
      BY <1>2, Kept DEF Memory, Counting, Untold
    <2>3. m.rounds \in Nat
      BY <2>2, Setup DEF Answer, Counting, Typed
    <2>. QED BY <2>1, <2>3
  <1>. DEFINE a == network.misses
              b == m.rounds
              k == Slack
  <1>8. a * k <= b * k /\ a * k \in Nat /\ b * k \in Nat
    <2>1. a \in Nat /\ b \in Nat /\ k \in Nat /\ a <= b
      BY <1>1, <1>7
    <2>. HIDE DEF a, b, k
    <2>. QED BY <2>1
  <1>. HIDE DEF m, C
  <1>. QED BY <1>3, <1>5, <1>6, <1>8

LEMMA DecidedCounts ==
  ASSUME EnoughMisses, Counting, Typed', NEW w \in Workers, Settle(w) \/ GiveUp(w) \/ LeaveIt(w)
  PROVE  Counting'
  <1>. DEFINE r == round[w]
              t == InHand(r).transfer
  <1>1. r.phase = "decide" /\ GoOn(w, Past(r)) /\ UNCHANGED <<answers, pass>>
    BY DEF Settle, GiveUp, LeaveIt, rowVars
  <1>2. r \in Round
    BY <1>1, RoundCounts
  <1>3. GivenUpIsGone'
    <2>1. truth' = truth
      BY <1>1 DEF GoOn, chainVars
    <2>2. CASE GiveUp(w)
      <3>1. truth[t] = "nowhere"
        BY <2>2, GiveUpIsPaid
      <3>2. row' = [row EXCEPT ![t] = "vanished"]
        BY <2>2 DEF GiveUp
      <3>3. \A u \in Transfers : row'[u] = row[u] \/ u = t
        BY <3>2 DEF Counting, Typed, TypeOK
      <3>. QED BY <2>1, <3>1, <3>3 DEF Counting, GivenUpIsGone
    <2>3. CASE row' = row
      BY <2>1, <2>3 DEF Counting, GivenUpIsGone
    <2>. QED BY <2>2, <2>3 DEF Settle, LeaveIt, rowVars
  <1>. HIDE DEF t, r
  <1>. QED BY <1>1, <1>2, <1>3, PastCounts, CountingRound DEF r

\* A worker begins a round, or is in none, and remembers what it heard, or nothing.
LEMMA NewRoundCounts ==
  ASSUME Counting, Typed', NEW w \in Workers, NEW r, round' = [round EXCEPT ![w] = r],
         r = NoRound \/ (r.phase = "next" /\ r.verdict = "none"),
         UNCHANGED <<network, truth, reached, row>>,
         \A v \in Workers, t \in Transfers :
             \/ answers'[v][t] \in {answers[v][t], pass[v][t]}
             \/ answers'[v][t].verdict # "gone",
         \A v \in Workers, t \in Transfers :
             pass'[v][t] = pass[v][t] \/ pass'[v][t].verdict # "gone",
         \A v \in Workers \ {w} : pass'[v] = pass[v]
  PROVE  Counting'
  <1>1. DOMAIN round = Workers
    BY DEF Counting, Typed, TypeOK
  <1>2. r.phase \in {"idle", "next"} /\ (r # NoRound => GoneSo(r)) /\ \A t, e : ~Flying(r, t, e)
    BY DEF NoRound, Flying, GoneSo
  <1>3. \A v \in Workers, t \in Transfers :
            truth[t] # "nowhere" =>
                Clear(reached, round[v], t) \subseteq Clear(reached', round'[v], t)
    BY <1>1, <1>2, ClearStays
  <1>4. Tallied'
    BY <1>3, TalliedStep DEF Counting
  <1>5. RoundsSo'
    <2>1. ASSUME NEW v \in Workers, round'[v] # NoRound
          PROVE  /\ GoneSo(round'[v])
                 /\ round'[v].phase = "decide" =>
                        pass'[v][InHand(round'[v]).transfer].verdict = round'[v].verdict
      <3>1. CASE v = w
        BY <1>1, <1>2, <2>1, <3>1
      <3>2. CASE v # w
        <4>1. round'[v] = round[v] /\ pass'[v] = pass[v]
          BY <1>1, <3>2
        <4>. QED BY <2>1, <4>1 DEF DecidesSo, Counting, RoundsSo
      <3>. QED BY <3>1, <3>2
    <2>. QED BY <2>1 DEF RoundsSo, GoneSo, DecidesSo
  <1>6. GivenUpIsGone'
    BY DEF Counting, GivenUpIsGone
  <1>. QED BY <1>4, <1>5, <1>6 DEF Counting

LEMMA AroundCounts ==
  ASSUME Counting, Typed', NEW w \in Workers, Begin(w) \/ End(w) \/ Fail(w) \/ Restart(w)
  PROVE  Counting'
  <1>. DEFINE none == [t \in Transfers |-> Untold]
  <1>1. PICK r : /\ round' = [round EXCEPT ![w] = r]
                 /\ r = NoRound \/ (r.phase = "next" /\ r.verdict = "none")
    BY DEF Begin, End, Fail, Restart
  <1>2. UNCHANGED <<network, truth, reached, row>>
    BY DEF Begin, End, Fail, Restart, chainVars, rowVars
  <1>3. /\ answers' \in {answers, [answers EXCEPT ![w] = pass[w]], [answers EXCEPT ![w] = none]}
        /\ pass' \in {pass, [pass EXCEPT ![w] = none]}
    BY DEF Begin, End, Fail, Restart, memory
  <1>4. answers \in Memory /\ pass \in Memory
    BY Kept DEF Counting
  <1>5. \A t \in Transfers : none[t].verdict # "gone"
    BY DEF Untold
  <1>. HIDE DEF none
  <1>6. \A v \in Workers, t \in Transfers :
            \/ answers'[v][t] \in {answers[v][t], pass[v][t]}
            \/ answers'[v][t].verdict # "gone"
    BY <1>3, <1>4, <1>5 DEF Memory
  <1>7. /\ \A v \in Workers, t \in Transfers :
               pass'[v][t] = pass[v][t] \/ pass'[v][t].verdict # "gone"
        /\ \A v \in Workers \ {w} : pass'[v] = pass[v]
    BY <1>3, <1>4, <1>5 DEF Memory
  <1>. QED BY <1>1, <1>2, <1>6, <1>7, NewRoundCounts

LEMMA OutsideCounts ==
  ASSUME Counting, Typed',
         \/ \E e \in network.endpoints : Finalizes(e)
         \/ \E t \in Transfers : Recorded(t)
         \/ Lapse \/ CalmsDown
         \/ UNCHANGED vars
  PROVE  Counting'
  <1>1. /\ UNCHANGED <<network, truth, answers, pass, round>>
        /\ \/ reached' = reached
           \/ \E e \in network.endpoints, t \in Transfers :
                  t > reached[e] /\ reached' = [reached EXCEPT ![e] = t]
        /\ \/ row' = row
           \/ \E t \in Transfers : row' = [row EXCEPT ![t] = "matched"]
    BY Zenon DEF Finalizes, Recorded, Lapse, CalmsDown, vars, chainVars, rowVars, memory
  <1>2. /\ reached \in [network.endpoints -> Transfers \cup {0}]
        /\ row \in [Transfers -> {"none", "matched", "vanished"}]
        /\ Transfers \subseteq Int
    BY FinalityAssumptions DEF Counting, Typed, TypeOK
  <1>3. \A e \in network.endpoints : reached'[e] >= reached[e] /\ reached'[e] \in Int /\ reached[e] \in Int
    <2>1. \A i \in Transfers \cup {0} : i \in Int
      BY <1>2
    <2>2. ASSUME NEW e \in network.endpoints
          PROVE  reached[e] \in Int /\ (reached'[e] = reached[e] \/ (reached'[e] \in Int /\ reached'[e] > reached[e]))
      <3>1. reached[e] \in Int
        BY <1>2, <2>1
      <3>2. CASE reached' = reached
        BY <3>1, <3>2
      <3>3. ASSUME NEW d \in network.endpoints, NEW t \in Transfers, t > reached[d],
                   reached' = [reached EXCEPT ![d] = t]
            PROVE  reached'[e] = reached[e] \/ (reached'[e] \in Int /\ reached'[e] > reached[e])
        BY <1>2, <2>1, <3>3
      <3>. QED BY <1>1, <3>1, <3>2, <3>3
    <2>. QED BY <2>2
  <1>4. \A w \in Workers, t \in Transfers :
            Clear(reached, round[w], t) \subseteq Clear(reached', round'[w], t)
    BY <1>1, <1>2, <1>3 DEF Clear, Honest
  <1>5. Tallied'
    BY <1>1, <1>4, TalliedStep DEF Counting
  <1>6. RoundsSo'
    <2>1. ASSUME NEW v \in Workers, round[v] # NoRound
          PROVE  /\ round[v].verdict = "gone" =>
                        /\ round[v].phase \in {"heard", "decide"} =>
                               Cardinality(round[v].said) = network.agreements
                        /\ truth[InHand(round[v]).transfer] # "nowhere" =>
                               \A e \in round[v].said \ network.liars :
                                   reached'[e] >= InHand(round[v]).transfer
                 /\ round[v].phase = "decide" =>
                        pass[v][InHand(round[v]).transfer].verdict = round[v].verdict
      <3>1. GoneSo(round[v]) /\ DecidesSo(v)
        BY <2>1 DEF Counting, RoundsSo
      <3>2. round[v] \in Round
        BY <2>1 DEF Counting, Typed, TypeOK
      <3>3. round[v].said \subseteq network.endpoints
        BY <3>2 DEF Round
      <3>4. ASSUME round[v].verdict = "gone", truth[InHand(round[v]).transfer] # "nowhere",
                   NEW e \in round[v].said \ network.liars
            PROVE  reached'[e] >= InHand(round[v]).transfer
        <4>. DEFINE t == InHand(round[v]).transfer
        <4>1. reached[e] >= t /\ reached'[e] >= reached[e] /\ reached'[e] \in Int /\ reached[e] \in Int
          BY <1>3, <3>1, <3>3, <3>4 DEF GoneSo
        <4>2. t \in Int
          <5>1. round[v].todo # {}
            BY <2>1, <3>4 DEF Counting, Typed, Held
          <5>2. t \in Transfers
            BY <3>2, <5>1, InHandIs DEF Round
          <5>. QED BY <1>2, <5>2
        <4>. HIDE DEF t
        <4>3. reached'[e] >= t
          BY <4>1, <4>2
        <4>. QED BY <4>3 DEF t
      <3>. QED BY <3>1, <3>4 DEF GoneSo, DecidesSo
    <2>. QED BY <1>1, <2>1 DEF RoundsSo, GoneSo, DecidesSo
  <1>7. GivenUpIsGone'
    BY <1>1, <1>2 DEF Counting, GivenUpIsGone
  <1>. QED BY <1>5, <1>6, <1>7 DEF Counting

LEMMA CountingStep ==
  ASSUME EnoughMisses, Counting, [Next]_vars
  PROVE  Counting'
  <1>1. Typed'
    BY TypedStep DEF Counting
  <1>2. ASSUME NEW w \in Workers, WorkerStep(w)
        PROVE  Counting'
    BY <1>1, <1>2, SkipCounts, AskCounts, ReceiptCounts, HeadCounts, UnansweredCounts,
       NoteCounts, DecidedCounts, AroundCounts DEF WorkerStep
  <1>3. ASSUME NEW w \in Workers, Begin(w) \/ Fail(w) \/ Restart(w)
        PROVE  Counting'
    BY <1>1, <1>3, AroundCounts
  <1>. QED BY <1>1, <1>2, <1>3, OutsideCounts DEF Next

\* However rounds are paged, skipped, cut short, forgotten and taken up by two instances, and
\* whatever endpoints lie, lag or are silent, a transfer is given up only when the chain will
\* not hold it: as long as a document asks for as many rounds as the honest endpoints cannot
\* pay for, each of them having one wrong "gone" to say (decided, Vanish).
THEOREM GivenUpAlwaysGone ==
    ASSUME EnoughMisses
    PROVE  Spec => []GivenUpIsGone
  <1>1. Counting /\ [Next]_vars => Counting'
    BY CountingStep
  <1>2. Counting => GivenUpIsGone
    BY DEF Counting
  <1>. QED BY <1>1, <1>2, CountingInit, PTL DEF Spec

\* So what rounds remember stays in bounds, and what they give up is gone.
THEOREM RoundsAlwaysHold ==
    ASSUME EnoughMisses
    PROVE  Spec => []RoundsHold
  <1>1. Counting /\ [Next]_vars => Counting'
    BY CountingStep
  <1>2. Counting => RoundsHold
    BY DEF Counting, Typed, RoundsHold
  <1>. QED BY <1>1, <1>2, CountingInit, PTL DEF Spec

=======================================================================
