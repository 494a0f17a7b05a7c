---------------------------- MODULE MCFlowRegistry ----------------------------
(* Instances of FlowRegistry: connections c1, c2 and c3 on one thread or   *)
(* two, with flows of their own or a shared one.                           *)
EXTENDS FlowRegistry, TLC

CONSTANTS c1, c2, c3

(* c3 is on thread 2.                                                      *)
TwoThreads == c1 :> 1 @@ c2 :> 1 @@ c3 :> 2
OwnFlows == c1 :> 11 @@ c2 :> 12 @@ c3 :> 13

(* All on thread 1.                                                        *)
OneThread == [c \in Conns |-> 1]
SharedFlow == [c \in Conns |-> 11]
PairFlows == c1 :> 11 @@ c2 :> 12

BestEffort == [lat |-> 0, iops |-> 0, rw |-> 100]
Small == [lat |-> 10, iops |-> 2, rw |-> 100]
Large == [lat |-> 10, iops |-> 5, rw |-> 50]
Middle == [lat |-> 7, iops |-> 2, rw |-> 100]

AllSlos == {BestEffort, Small, Large}
BeAndSmall == {BestEffort, Small}
JustSmall == {Small}
MixedSlos == {BestEffort, Middle, Large}
SmallAndLarge == {Small, Large}

(* One rate for all SLOs, and one that depends on latency and read ratio.  *)
Flat == <<[lat |-> 10, rate |-> 8, rdonly |-> 8]>>
Graded == <<[lat |-> 5, rate |-> 2, rdonly |-> 2],
            [lat |-> 10, rate |-> 6, rdonly |-> 12]>>
=============================================================================
