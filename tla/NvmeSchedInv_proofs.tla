-------------------------- MODULE NvmeSchedInv_proofs --------------------------
(***************************************************************************)
(* The inductive invariant of the scheduler.  It says, thread by thread,   *)
(* what holds at each point of nvme_sched (ThreadInv), tenant by tenant,   *)
(* how savings, demand and credit are related (TenantInv), and that lists  *)
(* are disjoint (ListInv), so that a step of one thread cannot disturb     *)
(* what holds of another.  This module has the initial states and the      *)
(* steps that touch no tenant; NvmeSched_proofs has the other steps and    *)
(* the theorems.                                                           *)
(***************************************************************************)
EXTENDS NvmeSched, TokenTotals_proofs

ThreadType == [pc : Labels, pos : Nat, delta : Nat, leftover : Nat,
               demand : Nat, tokens : Nat, avail : Nat]
SwqType == [queue : Seq(Costs), saved : Nat, credit : Int]

InSubround1 == {"lc", "lcserve"}
Waiting == {"gate", "read", "cas"}
Serving == {"be", "beserve"}

TenantInv(q) ==
  /\ Summable(swq[q].queue)
  /\ swq[q].saved <= Total(swq[q].queue)
  /\ q \in LC => swq[q].saved = 0
  /\ swq[q].queue # <<>> => swq[q].saved < Head(swq[q].queue) \/ swq[q].saved = 0
  /\ swq[q].credit > -Limit \/ \E c \in Costs : swq[q].credit + c > -Limit

ListInv(t) ==
  \A i, j \in 1..Len(list[t]) :
    Home[list[t][i]] = t /\ (list[t][i] = list[t][j] => i = j)

(* Nothing is left that the LC tenant q could issue.                       *)
Exhausted(q) == swq[q].queue = <<>> \/ swq[q].credit <= -Limit

(* The LC tenants that thread t has served in this round.                  *)
Passed(t, i) ==
  th[t].pc \in Waiting \cup Serving \/ (th[t].pc \in InSubround1 /\ i < th[t].pos)

ThreadInv(t) ==
  /\ th[t].pc \in {"lc", "be"} => th[t].pos >= 1
  /\ th[t].pc \in {"lcserve", "beserve"} => th[t].pos \in 1..Len(list[t])
  /\ th[t].pc = "lcserve" => LcTenant(t) \in LC
  /\ th[t].pc = "beserve" => BeTenant(t) \in BE /\ swq[BeTenant(t)].saved = 0
  /\ th[t].pc \in {"read", "cas"} => th[t].leftover < th[t].demand
  /\ th[t].pc \notin InSubround1 \cup Waiting => th[t].leftover = 0
  /\ th[t].pc \notin Serving \cup {"return"} => th[t].tokens = 0
  /\ \A i \in 1..Len(list[t]) :
       list[t][i] \in LC /\ Passed(t, i) => Exhausted(list[t][i])

IInv ==
  /\ TypeOK
  /\ \A q \in Tenants : TenantInv(q)
  /\ \A t \in Threads : ListInv(t) /\ ThreadInv(t)

-----------------------------------------------------------------------------
(* A rounded share and the credit limit are natural numbers.               *)
LEMMA RoundedNat ==
  ASSUME NEW x \in Nat
  PROVE  Rounded(x) \in Nat /\ PosLimit(x) \in Nat
  BY DEF Rounded, PosLimit

(* Donation and remainder together are at most the credit that is split.   *)
LEMMA DonationSplit ==
  ASSUME NEW c \in Nat
  PROVE  /\ Donation(c) \in Nat /\ Remainder(c) \in Nat
         /\ Donation(c) + Remainder(c) <= c
  BY DEF Donation, Remainder

(* A rate times an interval is a natural number.                           *)
LEMMA ProductNat ==
  ASSUME NEW a \in Nat, NEW b \in Nat
  PROVE  a * b \in Nat
  OBVIOUS

(* The cost of queued requests is a sequence of natural numbers.           *)
LEMMA QueueNat ==
  ASSUME NEW s \in Seq(Costs)
  PROVE  /\ s \in Seq(Nat)
         /\ s # <<>> => Head(s) \in Costs /\ Head(s) \in Nat /\ Tail(s) \in Seq(Costs)
<1>0. \A c \in Costs : c \in Nat
  BY CostsAssumption, Zenon
<1>1. \A i \in 1..Len(s) : s[i] \in Nat
  BY <1>0
<1>2. s \in Seq(Nat)
  BY <1>1
<1>3. ASSUME s # <<>> PROVE Head(s) \in Costs /\ Tail(s) \in Seq(Costs)
  BY <1>3
<1> QED
  BY <1>0, <1>2, <1>3

(* A round visits positions of the list only.                              *)
LEMMA InOrderRange ==
  ASSUME NEW s \in Seq(Tenants), NEW r \in Nat, NEW k \in 1..Len(s)
  PROVE  \E i \in 1..Len(s) : InOrder(s, r, k) = s[i]
  BY DEF InOrder

(* A round visits each position of the list.                               *)
LEMMA InOrderOnto ==
  ASSUME NEW s \in Seq(Tenants), NEW r \in Nat, NEW i \in 1..Len(s)
  PROVE  \E k \in 1..Len(s) : InOrder(s, r, k) = s[i]
<1> DEFINE n == Len(s)
<1>1. CASE r >= n
  BY <1>1 DEF InOrder
<1>2. CASE r < n /\ i > r
  <2>1. i - r \in 1..n /\ InOrder(s, r, i - r) = s[i]
    BY <1>2 DEF InOrder
  <2> QED
    BY <2>1
<1>3. CASE r < n /\ i <= r
  <2>1. i + n - r \in 1..n /\ InOrder(s, r, i + n - r) = s[i]
    BY <1>3 DEF InOrder
  <2> QED
    BY <2>1
<1> QED
  BY <1>1, <1>2, <1>3

(* The tenants that a thread serves are on its list.                       *)
LEMMA ServedTenant ==
  ASSUME IInv, NEW t \in Threads, th[t].pos \in 1..Len(list[t])
  PROVE  /\ LcTenant(t) \in Tenants /\ Home[LcTenant(t)] = t
         /\ BeTenant(t) \in Tenants /\ Home[BeTenant(t)] = t
<1>1. list[t] \in Seq(Tenants) /\ start[t] \in Nat
  BY DEF IInv, TypeOK
<1>2. PICK i \in 1..Len(list[t]) : BeTenant(t) = list[t][i]
  BY <1>1, InOrderRange, Zenon DEF BeTenant
<1> QED
  BY <1>1, <1>2 DEF IInv, ListInv, LcTenant

-----------------------------------------------------------------------------
(* A step of thread t leaves alone what belongs to other threads, so what  *)
(* has to be shown is about t and its tenants only.                        *)
LEMMA ThreadStep ==
  ASSUME IInv, NEW t \in Threads, TypeOK',
         \A u \in Threads \ {t} : th'[u] = th[u] /\ list'[u] = list[u] /\ start'[u] = start[u],
         \A q \in Tenants : swq'[q] = swq[q] \/ (Home[q] = t /\ TenantInv(q)'),
         ListInv(t)', ThreadInv(t)'
  PROVE  IInv'
<1>1. ASSUME NEW q \in Tenants PROVE TenantInv(q)'
  <2>1. CASE swq'[q] = swq[q]
    BY <2>1 DEF IInv, TenantInv
  <2> QED
    BY <2>1
<1>2. ASSUME NEW u \in Threads \ {t} PROVE ListInv(u)' /\ ThreadInv(u)'
  <2>1. th'[u] = th[u] /\ list'[u] = list[u] /\ start'[u] = start[u]
    OBVIOUS
  <2>2. ListInv(u) /\ ThreadInv(u) /\ list[u] \in Seq(Tenants)
    BY DEF IInv, TypeOK
  <2>3. ListInv(u)'
    BY <2>1, <2>2 DEF ListInv
  <2>4. \A i \in 1..Len(list[u]) : swq'[list[u][i]] = swq[list[u][i]]
    BY <2>2 DEF ListInv
  <2>5. LcTenant(u)' = LcTenant(u) /\ BeTenant(u)' = BeTenant(u)
    BY <2>1 DEF LcTenant, BeTenant, InOrder
  <2>6. th[u].pc = "beserve" => swq'[BeTenant(u)] = swq[BeTenant(u)]
    <3> SUFFICES ASSUME th[u].pc = "beserve" PROVE swq'[BeTenant(u)] = swq[BeTenant(u)]
      OBVIOUS
    <3>1. th[u].pos \in 1..Len(list[u])
      BY <2>2 DEF ThreadInv
    <3>2. BeTenant(u) \in Tenants /\ Home[BeTenant(u)] = u
      BY <3>1, ServedTenant
    <3> QED
      BY <3>2
  <2>7. \A i \in 1..Len(list[u]) : /\ Passed(u, i)' = Passed(u, i)
                                   /\ Exhausted(list[u][i])' = Exhausted(list[u][i])
    BY <2>1, <2>4 DEF Passed, Exhausted
  <2>8. ThreadInv(u)'
    BY <2>1, <2>2, <2>5, <2>6, <2>7 DEF ThreadInv
  <2> QED
    BY <2>3, <2>8
<1> QED
  BY <1>1, <1>2 DEF IInv

(* Steps that change nothing but the thread's own local state, the bucket  *)
(* and the marks.                                                          *)
LEMMA LocalStep ==
  ASSUME IInv, NEW t \in Threads, UNCHANGED <<list, start, swq>>,
         th' \in [Threads -> ThreadType], bucket' \in Nat, marked' \in [Threads -> BOOLEAN],
         \A u \in Threads \ {t} : th'[u] = th[u],
         ThreadInv(t)'
  PROVE  IInv'
<1>1. TypeOK'
  BY Zenon DEF IInv, TypeOK, ThreadType
<1>2. ListInv(t)'
  BY DEF IInv, ListInv
<1> QED
  BY <1>1, <1>2, ThreadStep

(* The same for a step that gives the thread the local state r.            *)
LEMMA MoveStep ==
  ASSUME IInv, NEW t \in Threads, NEW r \in ThreadType,
         th' = [th EXCEPT ![t] = r], UNCHANGED <<list, start, swq>>,
         bucket' \in Nat, marked' \in [Threads -> BOOLEAN],
         th'[t] = r => ThreadInv(t)'
  PROVE  IInv'
<1>1. th \in [Threads -> ThreadType]
  BY DEF IInv, TypeOK, ThreadType
<1>2. th' \in [Threads -> ThreadType] /\ th'[t] = r /\ \A u \in Threads \ {t} : th'[u] = th[u]
  BY <1>1
<1> QED
  BY <1>2, LocalStep

(* Initially no tenant has work and every thread is about to poll.         *)
LEMMA InitInv == Init => IInv
<1> SUFFICES ASSUME Init PROVE IInv
  OBVIOUS
<1>1. EmptySwq \in SwqType
  BY DEF EmptySwq, SwqType
<1>2. TypeOK
  <2>1. swq \in [Tenants -> SwqType]
    BY <1>1 DEF Init
  <2>2. th \in [Threads -> ThreadType]
    BY DEF Init, ThreadType, Labels
  <2> QED
    BY <2>1, <2>2, InitListAssumption DEF Init, TypeOK, SwqType, ThreadType
<1>3. ASSUME NEW q \in Tenants PROVE TenantInv(q)
  BY TotalEmpty, LimitAssumption DEF Init, TenantInv, EmptySwq
<1>4. ASSUME NEW t \in Threads PROVE ListInv(t) /\ ThreadInv(t)
  <2>1. ListInv(t)
    BY InitListAssumption DEF Init, ListInv
  <2>2. th[t].pc = "poll" /\ th[t].leftover = 0 /\ th[t].tokens = 0
    BY DEF Init
  <2> QED
    BY <2>1, <2>2 DEF ThreadInv, Passed, InSubround1, Waiting, Serving
<1> QED
  BY <1>2, <1>3, <1>4 DEF IInv

-----------------------------------------------------------------------------
(* Outside of the rounds, and at the start of one, no LC tenant counts as  *)
(* served.                                                                 *)
LEMMA Outside ==
  ASSUME IInv, NEW t \in Threads,
         NoTenants(t) \/ StartRound(t) \/ Mark(t) \/ Scan(t) \/ Reset(t) \/ Clear(t)
  PROVE  IInv'
<1>1. th[t] \in ThreadType /\ bucket \in Nat /\ marked \in [Threads -> BOOLEAN]
  BY DEF IInv, TypeOK, ThreadType
<1>2. ThreadInv(t)
  BY DEF IInv
<1> DEFINE Out == {"poll", "mark", "scan", "reset", "clear"}
<1>3. ASSUME th[t].pc \in Out, NEW r \in ThreadType,
             r.pc \in Out \/ (r.pc = "lc" /\ r.pos = 1),
             r.leftover = th[t].leftover, r.tokens = th[t].tokens,
             th' = [th EXCEPT ![t] = r], UNCHANGED <<list, start, swq>>,
             bucket' \in {bucket, 0}, marked' \in [Threads -> BOOLEAN]
      PROVE  IInv'
  <2>1. th'[t] = r => ThreadInv(t)'
    BY <1>2, <1>3 DEF ThreadInv, Passed, InSubround1, Waiting, Serving
  <2>2. bucket' \in Nat
    BY <1>1, <1>3
  <2> QED
    BY <1>3, <2>1, <2>2, MoveStep, Zenon
<1>4. CASE NoTenants(t)
  <2>1. PICK r : r = [th[t] EXCEPT !.pc = "mark"]
    BY Zenon
  <2>2. r \in ThreadType /\ r.pc = "mark" /\ r.leftover = th[t].leftover /\ r.tokens = th[t].tokens
    BY <1>1, <2>1 DEF ThreadType, Labels
  <2>3. th' = [th EXCEPT ![t] = r]
    BY <1>4, <2>1, Zenon DEF NoTenants
  <2> QED
    BY <1>1, <1>3, <1>4, <2>2, <2>3, Zenon DEF NoTenants
<1>5. CASE StartRound(t)
  <2>1. PICK d \in Elapsed(t) :
          th' = [th EXCEPT ![t] = [@ EXCEPT !.pc = "lc", !.pos = 1, !.delta = d]]
    BY <1>5, Zenon DEF StartRound
  <2>2. d \in Nat
    BY DeltasAssumption DEF Elapsed
  <2>3. PICK r : r = [th[t] EXCEPT !.pc = "lc", !.pos = 1, !.delta = d]
    BY Zenon
  <2>4. /\ r \in ThreadType /\ r.pc = "lc" /\ r.pos = 1
        /\ r.leftover = th[t].leftover /\ r.tokens = th[t].tokens
    BY <1>1, <2>2, <2>3, Zenon DEF ThreadType, Labels
  <2> QED
    BY <1>1, <1>3, <1>5, <2>1, <2>3, <2>4, Zenon DEF StartRound
<1>6. CASE Mark(t)
  <2>1. PICK r : r = [th[t] EXCEPT !.pc = "scan", !.pos = 1]
    BY Zenon
  <2>2. r \in ThreadType /\ r.pc = "scan" /\ r.leftover = th[t].leftover /\ r.tokens = th[t].tokens
    BY <1>1, <2>1, Zenon DEF ThreadType, Labels
  <2>3. marked' \in [Threads -> BOOLEAN]
    BY <1>1, <1>6 DEF Mark
  <2> QED
    BY <1>1, <1>3, <1>6, <2>1, <2>2, <2>3, Zenon DEF Mark
<1>7. CASE Reset(t)
  <2>1. PICK r : r = [th[t] EXCEPT !.pc = "clear", !.pos = 1]
    BY Zenon
  <2>2. r \in ThreadType /\ r.pc = "clear" /\ r.leftover = th[t].leftover /\ r.tokens = th[t].tokens
    BY <1>1, <2>1, Zenon DEF ThreadType, Labels
  <2> QED
    BY <1>1, <1>3, <1>7, <2>1, <2>2, Zenon DEF Reset
<1>8. CASE Scan(t)
  <2> DEFINE i == th[t].pos
  <2>1. PICK r : r = IF i > NumThreads THEN [th[t] EXCEPT !.pc = "reset", !.pos = 0]
                     ELSE IF marked[i] THEN [th[t] EXCEPT !.pos = i + 1]
                     ELSE [th[t] EXCEPT !.pc = "poll", !.pos = 0]
    BY Zenon
  <2>2. th' = [th EXCEPT ![t] = r] /\ th[t].pc = "scan"
    BY <1>8, <2>1, Zenon DEF Scan
  <2>3. /\ r \in ThreadType /\ r.pc \in {"scan", "reset", "poll"}
        /\ r.leftover = th[t].leftover /\ r.tokens = th[t].tokens
    <3>1. CASE i > NumThreads
      BY <1>1, <2>1, <3>1, Zenon DEF ThreadType, Labels
    <3>2. CASE ~(i > NumThreads) /\ marked[i]
      BY <1>1, <2>1, <2>2, <3>2 DEF ThreadType, Labels
    <3>3. CASE ~(i > NumThreads) /\ ~marked[i]
      BY <1>1, <2>1, <3>3, Zenon DEF ThreadType, Labels
    <3> QED
      BY <3>1, <3>2, <3>3
  <2> QED
    BY <1>1, <1>3, <1>8, <2>2, <2>3, Zenon DEF Scan
<1>9. CASE Clear(t)
  <2> DEFINE i == th[t].pos
  <2>1. PICK r : r = IF i = NumThreads THEN [th[t] EXCEPT !.pc = "poll", !.pos = 0]
                                       ELSE [th[t] EXCEPT !.pos = i + 1]
    BY Zenon
  <2>2. th' = [th EXCEPT ![t] = r] /\ th[t].pc = "clear"
    BY <1>9, <2>1, Zenon DEF Clear
  <2>3. /\ r \in ThreadType /\ r.pc \in {"clear", "poll"}
        /\ r.leftover = th[t].leftover /\ r.tokens = th[t].tokens
    <3>1. CASE i = NumThreads
      BY <1>1, <2>1, <3>1, Zenon DEF ThreadType, Labels
    <3>2. CASE i # NumThreads
      BY <1>1, <2>1, <2>2, <3>2 DEF ThreadType, Labels
    <3> QED
      BY <3>1, <3>2
  <2>4. marked' \in [Threads -> BOOLEAN]
    BY <1>1, <1>9, Zenon DEF Clear
  <2> QED
    BY <1>1, <1>3, <1>9, <2>2, <2>3, <2>4, Zenon DEF Clear
<1> QED
  BY <1>4, <1>5, <1>6, <1>7, <1>8, <1>9
-----------------------------------------------------------------------------
(* The end of subround 1: the demand of BE tenants is added up, which is   *)
(* where total_token_demand - saved_tokens must not wrap around.           *)
LEMMA Tallying ==
  ASSUME IInv, NEW t \in Threads, BeTally(t) \/ LcEnd(t)
  PROVE  IInv'
<1>1. /\ th[t] \in ThreadType /\ bucket \in Nat /\ marked \in [Threads -> BOOLEAN]
      /\ list[t] \in Seq(Tenants)
  BY DEF IInv, TypeOK, ThreadType
<1>2. ThreadInv(t)
  BY DEF IInv
<1>3. CASE BeTally(t)
  <2> DEFINE q == LcTenant(t)
             more == Total(swq[q].queue) - swq[q].saved
  <2>1. th[t].pos \in 1..Len(list[t]) /\ q \in Tenants /\ q \notin LC
    BY <1>1, <1>2, <1>3 DEF BeTally, ThreadInv, BE, ThreadType, LcTenant
  <2>2. more \in Nat
    <3>1. swq[q].queue \in Seq(Costs) /\ swq[q].saved \in Nat
      BY <2>1, Zenon DEF IInv, TypeOK
    <3>2. Total(swq[q].queue) \in Nat
      BY <2>1, <3>1, QueueNat, TotalNat DEF IInv, TenantInv
    <3> QED
      BY <2>1, <3>1, <3>2 DEF IInv, TenantInv
  <2>3. PICK n, d, r : n = th[t].pos + 1 /\ d = th[t].demand + more
                       /\ r = [th[t] EXCEPT !.pos = n, !.demand = d]
    BY Zenon
  <2>4. th' = [th EXCEPT ![t] = r] /\ th[t].pc = "lc"
    BY <1>3, <2>3, Zenon DEF BeTally
  <2>5. n \in Nat /\ d \in Nat
    BY <1>1, <2>2, <2>3 DEF ThreadType
  <2>6. /\ r \in ThreadType /\ r.pc = "lc" /\ r.pos = th[t].pos + 1
        /\ r.leftover = th[t].leftover /\ r.tokens = th[t].tokens
    BY <1>1, <2>3, <2>4, <2>5, Zenon DEF ThreadType, Labels
  <2>7. ASSUME th'[t] = r PROVE ThreadInv(t)'
    <3>1. UNCHANGED <<list, swq>>
      BY <1>3 DEF BeTally
    <3>2. \A i \in 1..Len(list[t]) : list[t][i] \in LC /\ i < r.pos => i < th[t].pos
      BY <1>1, <2>1, <2>6 DEF LcTenant
    <3> QED
      BY <1>2, <2>1, <2>4, <2>6, <2>7, <3>1, <3>2
      DEF ThreadInv, Passed, Exhausted, InSubround1, Waiting, Serving
  <2> QED
    BY <1>1, <1>3, <2>4, <2>6, <2>7, MoveStep, Zenon DEF BeTally
<1>4. CASE LcEnd(t)
  <2>1. PICK r : r = [th[t] EXCEPT !.pc = "gate", !.pos = 0, !.delta = 0]
    BY Zenon
  <2>2. r \in ThreadType /\ r.pc = "gate" /\ r.tokens = th[t].tokens
    BY <1>1, <2>1, Zenon DEF ThreadType, Labels
  <2>3. ASSUME th'[t] = r PROVE ThreadInv(t)'
    <3>1. UNCHANGED <<list, swq>> /\ th[t].pc = "lc"
      BY <1>4 DEF LcEnd
    <3>2. \A i \in 1..Len(list[t]) : i < th[t].pos
      BY <1>1, <1>4 DEF LcEnd, ThreadType
    <3> QED
      BY <1>2, <2>2, <2>3, <3>1, <3>2
      DEF ThreadInv, Passed, Exhausted, InSubround1, Waiting, Serving
  <2> QED
    BY <1>1, <1>4, <2>1, <2>2, <2>3, MoveStep, Zenon DEF LcEnd
<1> QED
  BY <1>3, <1>4

(* Entering the BE loop with tokens in hand.                               *)
LEMMA Entering ==
  ASSUME IInv, NEW t \in Threads, NEW n \in Nat, th[t].pc \in Waiting, EnterBe(t, n),
         bucket' \in Nat, UNCHANGED <<list, start, swq, marked>>
  PROVE  IInv'
<1>1. th[t] \in ThreadType /\ marked \in [Threads -> BOOLEAN] /\ ThreadInv(t)
  BY DEF IInv, TypeOK, ThreadType
<1>2. PICK d \in Elapsed(t) :
        th' = [th EXCEPT ![t] = [@ EXCEPT !.pc = "be", !.pos = 1, !.delta = d,
                                          !.leftover = 0, !.demand = 0, !.avail = 0,
                                          !.tokens = n]]
  BY Zenon DEF EnterBe
<1>3. d \in Nat
  BY DeltasAssumption DEF Elapsed
<1>4. PICK r : r = [th[t] EXCEPT !.pc = "be", !.pos = 1, !.delta = d, !.leftover = 0,
                                 !.demand = 0, !.avail = 0, !.tokens = n]
  BY Zenon
<1>5. r \in ThreadType /\ r.pc = "be" /\ r.pos = 1 /\ r.leftover = 0
  BY <1>1, <1>3, <1>4, Zenon DEF ThreadType, Labels
<1>6. th'[t] = r => ThreadInv(t)'
  BY <1>1, <1>5 DEF ThreadInv, Passed, Exhausted, InSubround1, Waiting, Serving
<1> QED
  BY <1>1, <1>2, <1>4, <1>5, <1>6, MoveStep, Zenon
(* The dealings with the shared bucket, and the steps over LC tenants.     *)
LEMMA Settling ==
  ASSUME IInv, NEW t \in Threads,
         \/ GiveAway(t) \/ Enough(t) \/ ReadBucket(t) \/ CasBucket(t)
         \/ CasFails(t) \/ BeSkip(t) \/ ReturnTokens(t)
  PROVE  IInv'
<1>1. th[t] \in ThreadType /\ bucket \in Nat /\ marked \in [Threads -> BOOLEAN]
  BY DEF IInv, TypeOK, ThreadType
<1>2. ThreadInv(t)
  BY DEF IInv
<1>3. CASE GiveAway(t)
  <2>1. PICK r : r = [th[t] EXCEPT !.pc = "mark", !.leftover = 0]
    BY Zenon
  <2>2. r \in ThreadType /\ r.pc = "mark" /\ r.leftover = 0 /\ r.tokens = th[t].tokens
    BY <1>1, <2>1, Zenon DEF ThreadType, Labels
  <2>3. bucket' \in Nat /\ th[t].pc = "gate"
    BY <1>1, <1>3 DEF GiveAway, ThreadType
  <2>4. th'[t] = r => ThreadInv(t)'
    BY <1>2, <2>2, <2>3 DEF ThreadInv, Passed, InSubround1, Waiting, Serving
  <2> QED
    BY <1>1, <1>3, <2>1, <2>2, <2>3, <2>4, MoveStep, Zenon DEF GiveAway
<1>4. CASE Enough(t)
  BY <1>1, <1>4, Entering DEF Enough, ThreadType, Waiting
<1>5. CASE CasBucket(t)
  <2> DEFINE taken == Least(th[t].demand - th[t].leftover, th[t].avail)
  <2>1. th[t].pc = "cas" /\ th[t].leftover < th[t].demand
    BY <1>2, <1>5 DEF CasBucket, ThreadInv
  <2>2. taken \in Nat /\ th[t].avail - taken \in Nat /\ th[t].leftover + taken \in Nat
    BY <1>1, <2>1 DEF ThreadType, Least
  <2>3. bucket' \in Nat /\ EnterBe(t, th[t].leftover + taken)
    BY <1>5, <2>2 DEF CasBucket
  <2> HIDE DEF taken
  <2> QED
    BY <1>5, <2>1, <2>2, <2>3, Entering DEF CasBucket, Waiting
<1>6. CASE ReadBucket(t)
  <2>1. PICK r : r = [th[t] EXCEPT !.pc = "cas", !.avail = bucket]
    BY Zenon
  <2>2. /\ r \in ThreadType /\ r.pc = "cas" /\ r.leftover = th[t].leftover
        /\ r.tokens = th[t].tokens /\ r.demand = th[t].demand
    BY <1>1, <2>1, Zenon DEF ThreadType, Labels
  <2>3. th[t].pc \in {"gate", "read"} /\ th[t].leftover < th[t].demand
    BY <1>2, <1>6 DEF ReadBucket, ThreadInv
  <2>4. UNCHANGED <<list, swq>>
    BY <1>6 DEF ReadBucket
  <2>5. th'[t] = r => ThreadInv(t)'
    BY <1>2, <2>2, <2>3, <2>4 DEF ThreadInv, Passed, Exhausted, InSubround1, Waiting, Serving
  <2> QED
    BY <1>1, <1>6, <2>1, <2>2, <2>5, MoveStep, Zenon DEF ReadBucket
<1>7. CASE CasFails(t)
  <2>1. PICK r : r = [th[t] EXCEPT !.pc = "read", !.avail = 0]
    BY Zenon
  <2>2. /\ r \in ThreadType /\ r.pc = "read" /\ r.leftover = th[t].leftover
        /\ r.tokens = th[t].tokens /\ r.demand = th[t].demand
    BY <1>1, <2>1, Zenon DEF ThreadType, Labels
  <2>3. th[t].pc = "cas" /\ UNCHANGED <<list, swq>>
    BY <1>7 DEF CasFails
  <2>4. th'[t] = r => ThreadInv(t)'
    BY <1>2, <2>2, <2>3 DEF ThreadInv, Passed, Exhausted, InSubround1, Waiting, Serving
  <2> QED
    BY <1>1, <1>7, <2>1, <2>2, <2>4, MoveStep, Zenon DEF CasFails
<1>8. CASE BeSkip(t)
  <2>1. PICK n, r : n = th[t].pos + 1 /\ r = [th[t] EXCEPT !.pos = n]
    BY Zenon
  <2>2. th' = [th EXCEPT ![t] = r] /\ th[t].pc = "be" /\ UNCHANGED <<list, swq>>
    BY <1>8, <2>1, Zenon DEF BeSkip
  <2>3. n \in Nat /\ n >= 1
    BY <1>1, <2>1 DEF ThreadType
  <2>4. r \in ThreadType /\ r.pc = "be" /\ r.pos = n /\ r.leftover = th[t].leftover
    BY <1>1, <2>1, <2>2, <2>3 DEF ThreadType, Labels
  <2>5. th'[t] = r => ThreadInv(t)'
    BY <1>2, <2>2, <2>3, <2>4 DEF ThreadInv, Passed, Exhausted, InSubround1, Waiting, Serving
  <2> QED
    BY <1>1, <1>8, <2>2, <2>4, <2>5, MoveStep, Zenon DEF BeSkip
<1>9. CASE ReturnTokens(t)
  <2>1. PICK r : r = [th[t] EXCEPT !.pc = "mark", !.tokens = 0]
    BY Zenon
  <2>2. r \in ThreadType /\ r.pc = "mark" /\ r.tokens = 0 /\ r.leftover = th[t].leftover
    BY <1>1, <2>1, Zenon DEF ThreadType, Labels
  <2>3. bucket' \in Nat /\ th[t].pc = "return"
    BY <1>1, <1>9 DEF ReturnTokens, ThreadType
  <2>4. th'[t] = r => ThreadInv(t)'
    BY <1>2, <2>2, <2>3 DEF ThreadInv, Passed, InSubround1, Waiting, Serving
  <2> QED
    BY <1>1, <1>9, <2>1, <2>2, <2>3, <2>4, MoveStep, Zenon DEF ReturnTokens
<1> QED
  BY <1>3, <1>4, <1>5, <1>6, <1>7, <1>8, <1>9
=============================================================================
