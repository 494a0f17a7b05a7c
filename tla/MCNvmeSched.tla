------------------------------ MODULE MCNvmeSched ------------------------------
(* MCNvmeSched.cfg: two threads, thread 1 with one LC and one BE tenant,   *)
(* thread 2 with one BE tenant.  MCNvmeSchedChurn.cfg: one thread whose LC *)
(* tenant and two BE tenants come and go.  MCNvmeSchedLive.cfg: an LC      *)
(* tenant on one thread, a BE tenant on another.  MCNvmeSchedTurns.cfg:    *)
(* one thread with three tenants.  Requests cost 1 or 2 tokens.            *)
EXTENDS NvmeSched, TLC

CONSTANTS l1, b1, b2

MCTenants == {l1, b1, b2}
MCHome == l1 :> 1 @@ b1 :> 1 @@ b2 :> 2
MCLC == {l1}
MCList == <<<<l1, b1>>, <<b2>>>>
MCRate2 == l1 :> 2 @@ b1 :> 0 @@ b2 :> 0

ChurnHome == l1 :> 1 @@ b1 :> 1 @@ b2 :> 1
LiveTenants == {l1, b2}
LiveHome == l1 :> 1 @@ b2 :> 2
LiveRate2 == l1 :> 2 @@ b2 :> 0
LiveList == <<<<l1>>, <<b2>>>>
TurnList == <<<<b1, l1, b2>>>>
ChurnList == <<<<>>>>
=============================================================================
