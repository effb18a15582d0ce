------------------------- MODULE MCFinality -------------------------
(***************************************************************************)
(* Finality on small instances.  The networks a run starts from are: third *)
(* parties of which one may lie, and of which none does; two instances     *)
(* with two third parties; a node of the operator's own with two instances *)
(* of which one may fail; and with two transfers of one payment page each. *)
(***************************************************************************)
EXTENDS Finality, TLC

CONSTANTS w1, w2

Two == {1, 2}
None == {}
Absent == {"nowhere"}

Recorded1(n) == [t \in Transfers |-> IF t = 1 THEN n ELSE 0]
Once == [t \in Transfers |-> 1]

OwnNode == [endpoints |-> {1}, liars |-> {}, agreements |-> 1, misses |-> 2,
            running |-> {w1}, failures |-> 1, records |-> Recorded1(2)]
TwoInstances == [OwnNode EXCEPT !.running = {w1, w2}, !.failures = 0,
                                !.records = Recorded1(1)]
TwoTransfers == [OwnNode EXCEPT !.failures = 0, !.records = Once]
ThirdParties == [OwnNode EXCEPT !.endpoints = 1 .. 3, !.agreements = 2,
                                !.failures = 0, !.records = Recorded1(1)]
OneLies == [ThirdParties EXCEPT !.liars = {1}, !.misses = 3]

Setups == {OwnNode, TwoInstances, TwoTransfers, ThirdParties, OneLies}

=======================================================================
