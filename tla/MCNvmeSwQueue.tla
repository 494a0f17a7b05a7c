---------------------------- MODULE MCNvmeSwQueue ----------------------------
(* A ring of three slots and requests of cost 0, 1 and 3.  Indices wrap    *)
(* after three pushes, so every position of head and tail with every       *)
(* element count is reached.                                               *)
EXTENDS NvmeSwQueue, TLC

CONSTANTS c0, c1, c3

MCCtx == {c0, c1, c3}
MCCost == c0 :> 0 @@ c1 :> 1 @@ c3 :> 3
MCOffers == {0, 2, 4}
=============================================================================
