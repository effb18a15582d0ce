---------------------------- MODULE Chain ----------------------------
(***************************************************************************)
(* The chain a network's payments settle on, as internal/chain presents it *)
(* to the rest of the program: blocks at heights, transfers carried in     *)
(* them, a final block below which nothing is replaced, and reorganisations *)
(* above it.  The chain is not part of the program, so everything here is  *)
(* external; what it may do is what the observer and the finality worker   *)
(* are written to meet.                                                    *)
(*                                                                         *)
(* A block is named by its height and by the number of the fork that made  *)
(* it, which stands for its hash: two blocks of one height have different  *)
(* hashes exactly when different forks made them.  A block's timestamp is  *)
(* its height.                                                             *)
(***************************************************************************)
EXTENDS Naturals, FiniteSets

CONSTANTS Attempts,     \* what a payer can be handed a key for
          Transfers,    \* the transactions payers may get onto the chain
          KeyOf,        \* the attempt whose key a transfer spends
          MaxHeight,    \* the last block that is mined
          MaxForks      \* how many reorganisations there are

ASSUME KeyOfAssumption == KeyOf \in [Transfers -> Attempts]
ASSUME ChainBounds == MaxHeight \in Nat \ {0} /\ MaxForks \in Nat
ASSUME TransfersFinite == IsFiniteSet(Transfers)

VARIABLES latest,       \* height of the newest block
          final,        \* height of the newest final block
          forks,        \* reorganisations so far
          made,         \* the fork that made the block at each height
          on            \* the height each transfer is carried at, 0 for none

chainVars == <<latest, final, forks, made, on>>

Heights == 0 .. MaxHeight
Block == [height : Heights, fork : 0 .. MaxForks]

\* Not a block: the position of a network that has none.
Nowhere == [height |-> 0, fork |-> 0]

BlockAt(h) == [height |-> h, fork |-> made[h]]

\* The chain holds block b.
Holds(b) == b.height \in 1 .. latest /\ made[b.height] = b.fork

ChainTypeOK ==
    /\ latest \in 1 .. MaxHeight
    /\ final \in 1 .. latest
    /\ forks \in 0 .. MaxForks
    /\ made \in [Heights -> 0 .. MaxForks]
    /\ on \in [Transfers -> 0 .. latest]

ChainInit ==
    /\ latest = 1
    /\ final = 1
    /\ forks = 0
    /\ made = [h \in Heights |-> 0]
    /\ on = [t \in Transfers |-> 0]

\* The key a transfer spends was spent by another one.
Spent(a) == \E t \in Transfers : KeyOf[t] = a /\ on[t] > 0

\* A block carrying the transfers ts, whose keys have been handed out.  The
\* asset's contract honours each key once.
Mine(ts, handed) ==
    /\ latest < MaxHeight
    /\ \A t \in ts : KeyOf[t] \in handed /\ ~Spent(KeyOf[t])
    /\ \A t, u \in ts : t # u => KeyOf[t] # KeyOf[u]
    /\ latest' = latest + 1
    /\ made' = [made EXCEPT ![latest + 1] = forks]
    /\ on' = [t \in Transfers |-> IF t \in ts THEN latest + 1 ELSE on[t]]
    /\ UNCHANGED <<final, forks>>

\* Every block above h is dropped, with what it carried.
Reorg(h) ==
    /\ forks < MaxForks
    /\ h \in final .. latest - 1
    /\ latest' = h
    /\ forks' = forks + 1
    /\ made' = [k \in Heights |-> IF k > h THEN 0 ELSE made[k]]
    /\ on' = [t \in Transfers |-> IF on[t] > h THEN 0 ELSE on[t]]
    /\ UNCHANGED final

Finalize ==
    /\ final < latest
    /\ final' = final + 1
    /\ UNCHANGED <<latest, forks, made, on>>

=======================================================================
