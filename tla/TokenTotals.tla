----------------------------- MODULE TokenTotals -----------------------------
(***************************************************************************)
(* Sums of the token costs of queued requests.  nvme_sw_queue keeps such a *)
(* sum incrementally in total_token_demand; Total is the reference         *)
(* definition that the incremental counter is compared with.               *)
(***************************************************************************)
EXTENDS Integers, Sequences

Total(s) ==
  LET f[i \in 0..Len(s)] == IF i = 0 THEN 0 ELSE f[i-1] + s[i]
  IN  f[Len(s)]

Least(a, b) == IF a <= b THEN a ELSE b

=============================================================================
