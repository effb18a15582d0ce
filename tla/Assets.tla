---------------------------- MODULE Assets ----------------------------
(***************************************************************************)
(* What an instance says of the assets of a network: whether the code       *)
(* behind one is the code that was there when it started, and whether its    *)
(* issuer has stopped it (observe/observer.go, answered by /readyz).         *)
(*                                                                         *)
(* It learns of an upgrade from an event in a block it scans, or by looking  *)
(* at the code once in a while, and of a stop only by looking.  Contracts    *)
(* are upgraded and stopped between any two calls, and any call may fail.    *)
(* A call is short against the part of the interval that Tick stands for.    *)
(* How rounds come to finish, and who holds the lease, is Rounds'.           *)
(***************************************************************************)
EXTENDS Integers

CONSTANTS Assets,      \* numbered in the order of their names
          Codes,       \* what may be behind one
          Unread,      \* not a code
          Sealed,      \* assets whose code can only be read at start
          Mute,        \* assets that never say whether they are stopped
          Every,       \* how often they are looked at
          HoldFor,     \* how long a reading is answered with
          MaxChanges, MaxRestarts   \* bounds of a run

ConstantsFit ==
    /\ Assets \subseteq Int /\ {Sealed, Mute} \subseteq SUBSET Assets
    /\ Codes # {} /\ Unread \notin Codes
    /\ Every \in Nat \ {0} /\ {HoldFor, MaxChanges, MaxRestarts} \subseteq Nat

ASSUME AssetsAssumptions == ConstantsFit

VARIABLES code,       \* the code behind an asset
          stopped,    \* whether its issuer has stopped it
          announced,  \* assets with an upgrade in blocks not read yet
          obs,        \* the instance
          changes, restarts,
          replaced,   \* history: assets whose code ever changed
          since       \* history: how long ago an asset was in each state

vars == <<code, stopped, announced, obs, changes, restarts, replaced, since>>

NoFlag == [value |-> FALSE, age |-> HoldFor + 1]

\* A process that has looked at nothing.
New == [at |-> "off", looked |-> Every, left |-> {},
        started |-> [a \in Assets |-> Unread],
        word |-> [a \in Assets |-> "unchanged"],
        flag |-> [a \in Assets |-> NoFlag]]

Observer == [at : {"off", "round", "upgraded", "stopped"}, looked : 0 .. Every,
             left : SUBSET Assets,
             started : [Assets -> Codes \cup {Unread}],
             word : [Assets -> {"unchanged", "changed"}],
             flag : [Assets -> [value : BOOLEAN, age : 0 .. HoldFor + 1]]]

TypeOK ==
    /\ code \in [Assets -> Codes]
    /\ stopped \in [Assets -> BOOLEAN]
    /\ announced \subseteq Assets /\ replaced \subseteq Assets
    /\ obs \in Observer
    /\ changes \in 0 .. MaxChanges /\ restarts \in 0 .. MaxRestarts
    /\ since \in [Assets -> [BOOLEAN -> 0 .. HoldFor + 1]]

Init ==
    /\ code = [a \in Assets |-> CHOOSE c \in Codes : TRUE]  \* which it is is all one
    /\ stopped \in [Assets -> BOOLEAN]
    /\ announced = {} /\ replaced = {}
    /\ obs = New
    /\ changes = 0 /\ restarts = 0
    /\ since = [a \in Assets |-> [v \in BOOLEAN |-> IF v = stopped[a] THEN 0 ELSE HoldFor + 1]]

(***************************************************************************)
(* The contracts.                                                          *)
(***************************************************************************)
Changes == changes < MaxChanges /\ changes' = changes + 1

\* An upgrade may say so in a block, and may not; one the chain drops is another.
Upgrade(a) ==
    /\ Changes
    /\ \E c \in Codes \ {code[a]} : code' = [code EXCEPT ![a] = c]
    /\ replaced' = replaced \cup {a}
    /\ announced' \in {announced, announced \cup {a}}
    /\ UNCHANGED <<stopped, obs, restarts, since>>

Stop(a) ==
    /\ Changes
    /\ stopped' = [stopped EXCEPT ![a] = ~@]
    /\ since' = [since EXCEPT ![a][~stopped[a]] = 0]
    /\ UNCHANGED <<code, announced, obs, restarts, replaced>>

(***************************************************************************)
(* The instance.                                                           *)
(***************************************************************************)
At(step) == obs.at = step
Flag(a) == [value |-> stopped[a], age |-> 0]

\* The probe of a process that starts: every code is read or nothing is kept, and
\* whether assets are stopped of those that say so.
Start ==
    /\ At("off")
    /\ \/ obs' = [obs EXCEPT !.at = "round"]
       \/ \E told \in SUBSET (Assets \ Mute) :
             obs' = [obs EXCEPT !.at = "round", !.looked = 0, !.started = code,
                                !.flag = [a \in Assets |-> IF a \in told THEN Flag(a) ELSE @[a]]]
    /\ UNCHANGED <<code, stopped, announced, changes, restarts, replaced, since>>

\* replaced: what the blocks of a round say was upgraded.
Said(s, those) == [s EXCEPT !.word = [a \in Assets |-> IF a \in those THEN "changed" ELSE @[a]]]

\* looking: once in a while, and whatever then fails it is not looked again before.
Looking(s) == IF s.looked < Every THEN s
              ELSE [s EXCEPT !.looked = 0, !.at = "upgraded", !.left = Assets]

\* A round reads some of the blocks, final or not, and finishes or does not; what it read
\* is read again unless it was final and written.
Round ==
    /\ At("round")
    /\ \E read \in SUBSET announced :
          LET s == Said(obs, read) IN
          \/ obs' = s /\ UNCHANGED announced
          \/ obs' = Looking(s) /\ announced' \in {announced, announced \ read}
    /\ UNCHANGED <<code, stopped, changes, restarts, replaced, since>>

\* Whether the code of a is known not to be the code it had.
Differs(a) == obs.started[a] \notin {Unread, code[a]}

Goes(s, step) == [s EXCEPT !.at = step, !.left = IF step = "stopped" THEN Assets ELSE {}]
Visited(s, a, step) == IF s.left = {a} THEN Goes(s, step) ELSE [s EXCEPT !.left = @ \ {a}]

Looks(s) == /\ obs' = s
            /\ UNCHANGED <<code, stopped, announced, changes, restarts, replaced, since>>

\* upgraded: the codes in whatever order the map of assets comes in, as far as the first
\* that cannot be read, or to the loss of the lease.
TurnInOrder(a) == \A b \in obs.left : a <= b  \* a mutant: in the order of the names
Turn(a) == a \in obs.left

ReadCode(a) ==
    /\ At("upgraded") /\ Turn(a) /\ a \notin Sealed
    /\ Looks(Visited(IF Differs(a) THEN Said(obs, {a}) ELSE obs, a, "stopped"))

ReadNoCode(a) == At("upgraded") /\ Turn(a) /\ Looks(Goes(obs, "stopped"))

\* stopped: each asset in the order of the names, whether or not the one before answered;
\* of one that does not answer nothing is said.
First(a) == a \in obs.left /\ \A b \in obs.left : a <= b

ReadFlag(a) ==
    /\ At("stopped") /\ First(a) /\ a \notin Mute
    /\ Looks(Visited([obs EXCEPT !.flag[a] = Flag(a)], a, "round"))

AfterNoFlag(a) == Visited([obs EXCEPT !.flag[a] = NoFlag], a, "round")
ReadNoFlag(a) == At("stopped") /\ First(a) /\ Looks(AfterNoFlag(a))

\* The lease is found lost: what is under way ends, and the next part asks for it again.
Lose == \/ At("upgraded") /\ Looks(Goes(obs, "stopped"))
        \/ At("stopped") /\ Looks(Goes(obs, "round"))

\* Paused: what is answered, of what was read not too long ago.
AnsweredEver(a) == obs.flag[a] # NoFlag  \* a mutant: however long ago
Answered(a) == obs.flag[a].age <= HoldFor

Restart ==
    /\ restarts < MaxRestarts /\ restarts' = restarts + 1
    /\ ~At("off") /\ obs' = New
    /\ UNCHANGED <<code, stopped, announced, changes, replaced, since>>

Older(age, bound) == IF age < bound THEN age + 1 ELSE bound
Aged(reading) == [reading EXCEPT !.age = Older(@, HoldFor + 1)]

Tick ==
    /\ obs' = [obs EXCEPT !.looked = Older(@, Every),
                          !.flag = [a \in Assets |-> Aged(@[a])]]
    /\ since' = [a \in Assets |-> [v \in BOOLEAN |->
                    IF v = stopped[a] THEN 0 ELSE Older(since[a][v], HoldFor + 1)]]
    /\ UNCHANGED <<code, stopped, announced, changes, restarts, replaced>>

Step == Start \/ Round \/ Lose
        \/ \E a \in Assets : ReadCode(a) \/ ReadNoCode(a) \/ ReadFlag(a) \/ ReadNoFlag(a)

Next == Step \/ Tick \/ Restart \/ \E a \in Assets : Upgrade(a) \/ Stop(a)

Spec == Init /\ [][Next]_vars

\* Rounds finish, all that is announced is read by one of them, a lease is kept, a contract
\* that answers does not always fail to, and the map of assets does not always come in the
\* same order.
Finishes == Round /\ (At("round") /\ obs.looked >= Every => obs'.at = "upgraded")
Scans(a) == a \in announced /\ Round /\ obs'.word[a] = "changed"

Fairness ==
    /\ WF_vars(Step) /\ WF_vars(Tick)
    /\ SF_vars(Finishes)
    /\ \A a \in Assets : SF_vars(Scans(a))
    /\ \A a \in Assets \ Sealed : SF_vars(ReadCode(a))
    /\ \A a \in Assets \ Mute : SF_vars(ReadFlag(a))
    /\ SF_vars(\E a \in Mute : ReadNoFlag(a))

LiveSpec == Spec /\ Fairness

(***************************************************************************)
(* What holds.                                                             *)
(***************************************************************************)
\* Only an asset whose code was replaced is said to have changed: not one whose code was
\* not read when the instance started (upgraded, replaced).
ChangedIsSo == \A a \in Assets : obs.word[a] = "changed" => a \in replaced

\* What is answered of an asset was so not longer ago than a reading is good for
\* (observer.go:83-86, Paused).
AnswersAreRecent ==
    \A a \in Assets : Answered(a) => since[a][obs.flag[a].value] <= HoldFor

\* What an instance says of an asset was true of it.
AnswersHold == TypeOK /\ ChangedIsSo /\ AnswersAreRecent

\* A code that stays replaced is told, though another asset's can never be read; and one
\* whose upgrade a block announces, though it can never be read itself.
UpgradeIsTold ==
    \A a \in Assets :
        /\ a \notin Sealed => (<>[](Differs(a)) => <>[](obs.word[a] = "changed"))
        /\ [](a \in announced => <>(obs.word[a] = "changed" \/ At("off")))

\* An asset that stays stopped is answered to be, though another never answers.
StopIsTold ==
    \A a \in Assets \ Mute :
        <>[](stopped[a]) => []<>(Answered(a) /\ obs.flag[a].value)

\* One asset that does not answer does not hide another (looking, upgraded, stopped).
EachIsTold == UpgradeIsTold /\ StopIsTold

=======================================================================
