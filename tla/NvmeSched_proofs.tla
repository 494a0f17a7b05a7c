--------------------------- MODULE NvmeSched_proofs ---------------------------
(***************************************************************************)
(* The safety properties of the scheduler, for any number of threads and   *)
(* tenants, any costs, rates and intervals, and with tenants coming and    *)
(* going: the steps that serve, add and remove tenants preserve the        *)
(* invariant of NvmeSchedInv_proofs, and the properties follow from it.    *)
(***************************************************************************)
EXTENDS NvmeSchedInv_proofs

(* A step of thread t that gives its tenant q the queue state e and itself *)
(* the local state r.                                                      *)
LEMMA ServeStep ==
  ASSUME IInv, NEW t \in Threads, NEW q \in Tenants, Home[q] = t,
         NEW e \in SwqType, NEW r \in ThreadType,
         swq' = [swq EXCEPT ![q] = e], th' = [th EXCEPT ![t] = r],
         UNCHANGED <<list, start, bucket, marked>>,
         swq'[q] = e => TenantInv(q)',
         /\ swq'[q] = e /\ \A p \in Tenants \ {q} : swq'[p] = swq[p]
         /\ th'[t] = r
         => ThreadInv(t)'
  PROVE  IInv'
<1>1. /\ th \in [Threads -> ThreadType] /\ swq \in [Tenants -> SwqType]
      /\ list \in [Threads -> Seq(Tenants)] /\ start \in [Threads -> Nat]
      /\ bucket \in Nat /\ marked \in [Threads -> BOOLEAN]
  BY Zenon DEF IInv, TypeOK, ThreadType, SwqType
<1>2. /\ th' \in [Threads -> ThreadType] /\ th'[t] = r
      /\ \A u \in Threads \ {t} : th'[u] = th[u]
  BY <1>1
<1>3. /\ swq' \in [Tenants -> SwqType] /\ swq'[q] = e
      /\ \A p \in Tenants \ {q} : swq'[p] = swq[p]
  BY <1>1
<1>4. TypeOK'
  BY <1>1, <1>2, <1>3, Zenon DEF TypeOK, ThreadType, SwqType
<1>5. ListInv(t)'
  BY DEF IInv, ListInv
<1>6. \A p \in Tenants : swq'[p] = swq[p] \/ (Home[p] = t /\ TenantInv(p)')
  BY <1>3
<1> QED
  BY <1>2, <1>3, <1>4, <1>5, <1>6, ThreadStep

(* Subround 1 serves an LC tenant: its credit grows, pays for requests     *)
(* down to the deficit limit, and is cut when it is too large.  The        *)
(* tenants before it on the list have been served already.                 *)
LEMMA ServingLc ==
  ASSUME IInv, NEW t \in Threads, LcCredit(t) \/ LcIssue(t) \/ LcDone(t)
  PROVE  IInv'
<1>1. th[t] \in ThreadType /\ list[t] \in Seq(Tenants) /\ ThreadInv(t) /\ ListInv(t)
  BY DEF IInv, TypeOK, ThreadType
<1>0. PICK q, k : q = LcTenant(t) /\ k = th[t].pos
  BY Zenon
<1>2. k \in 1..Len(list[t]) /\ q \in LC
  BY <1>1, <1>0 DEF LcCredit, LcIssue, LcDone, ThreadInv, ThreadType
<1>3. q \in Tenants /\ Home[q] = t /\ q = list[t][k]
  BY <1>2, <1>0, ServedTenant DEF LcTenant
<1>4. swq[q] \in SwqType /\ TenantInv(q)
  BY <1>3 DEF IInv, TypeOK, SwqType
<1>5. \A i \in 1..Len(list[t]) : i # k => list[t][i] \in Tenants \ {q}
  BY <1>1, <1>2, <1>3 DEF ListInv
<1>6. Limit \in Nat /\ Limit > 0 /\ Rate2[q] \in Nat
  BY <1>3, LimitAssumption, RatesAssumption
<1>7. Rate2[q] * th[t].delta \in Nat
  BY <1>1, <1>6, ProductNat DEF ThreadType
<1>8. CASE LcCredit(t)
  <2>1. PICK x, e, r : /\ x = swq[q].credit + Rounded(Rate2[q] * th[t].delta)
                       /\ e = [swq[q] EXCEPT !.credit = x]
                       /\ r = [th[t] EXCEPT !.pc = "lcserve"]
    BY Zenon
  <2>2. /\ swq' = [swq EXCEPT ![q] = e] /\ th' = [th EXCEPT ![t] = r]
        /\ th[t].pc = "lc" /\ UNCHANGED <<list, start, bucket, marked>>
    BY <1>8, <2>1, <1>0, Zenon DEF LcCredit
  <2>3. x \in Int /\ x >= swq[q].credit
    BY <1>4, <1>7, <2>1, RoundedNat DEF SwqType
  <2>4. /\ e \in SwqType /\ e.queue = swq[q].queue /\ e.saved = swq[q].saved
        /\ e.credit = x
    BY <1>4, <2>1, <2>3 DEF SwqType
  <2>5. /\ r \in ThreadType /\ r.pc = "lcserve" /\ r.pos = k
        /\ r.tokens = th[t].tokens
    BY <1>1, <1>0, <2>1 DEF ThreadType, Labels
  <2>6. swq'[q] = e => TenantInv(q)'
    <3>1. ASSUME NEW c \in Costs, swq[q].credit + c > -Limit PROVE x + c > -Limit
      <4>1. c \in Nat
        BY CostsAssumption, Zenon
      <4> QED
        BY <1>4, <1>6, <2>3, <3>1, <4>1 DEF SwqType
    <3>2. swq[q].credit > -Limit => x > -Limit
      BY <1>4, <1>6, <2>3 DEF SwqType
    <3> QED
      BY <1>4, <2>4, <3>1, <3>2 DEF TenantInv
  <2>7. ASSUME swq'[q] = e, \A p \in Tenants \ {q} : swq'[p] = swq[p], th'[t] = r
        PROVE  ThreadInv(t)'
    <3>1. LcTenant(t)' = q
      BY <1>3, <1>0, <2>2, <2>5, <2>7 DEF LcTenant
    <3>2. \A i \in 1..Len(list[t]) : i < k => Exhausted(list[t][i])' = Exhausted(list[t][i])
      BY <1>2, <1>5, <2>2, <2>7 DEF Exhausted
    <3> QED
      BY <1>1, <1>2, <1>0, <2>2, <2>5, <2>7, <3>1, <3>2
      DEF ThreadInv, Passed, InSubround1, Waiting, Serving
  <2> QED
    BY <1>3, <2>2, <2>4, <2>5, <2>6, <2>7, ServeStep, Zenon
<1>9. CASE LcIssue(t)
  <2> DEFINE s == swq[q].queue
  <2>1. PICK x, e, r : /\ x = swq[q].credit - Head(s)
                       /\ e = [swq[q] EXCEPT !.queue = Tail(s), !.credit = x]
                       /\ r = th[t]
    BY Zenon
  <2>2. /\ swq' = [swq EXCEPT ![q] = e] /\ s # <<>> /\ swq[q].credit > -Limit
        /\ th[t].pc = "lcserve" /\ UNCHANGED <<list, start, th, bucket, marked>>
    BY <1>9, <2>1, <1>0, Zenon DEF LcIssue
  <2>3. th' = [th EXCEPT ![t] = r]
    BY <2>1, <2>2 DEF IInv, TypeOK
  <2>4. /\ s \in Seq(Costs) /\ s \in Seq(Nat) /\ Head(s) \in Costs /\ Head(s) \in Nat
        /\ Tail(s) \in Seq(Costs)
    BY <1>4, <2>2, QueueNat DEF SwqType
  <2>5. Summable(Tail(s)) /\ Total(Tail(s)) \in Nat
    BY <1>4, <2>2, <2>4, TotalTail DEF TenantInv
  <2>6. x \in Int /\ x + Head(s) > -Limit
    BY <1>4, <1>6, <2>1, <2>2, <2>4 DEF SwqType
  <2> HIDE DEF s
  <2>7. e \in SwqType /\ e.queue = Tail(s) /\ e.saved = swq[q].saved /\ e.credit = x
    BY <1>4, <2>1, <2>4, <2>6, Zenon DEF SwqType
  <2>8. swq'[q] = e => TenantInv(q)'
    <3>1. e.saved = 0
      BY <1>2, <1>4, <2>7 DEF TenantInv
    <3>2. Summable(e.queue) /\ e.saved <= Total(e.queue)
      BY <2>5, <2>7, <3>1
    <3>3. \E c \in Costs : e.credit + c > -Limit
      BY <2>4, <2>6, <2>7
    <3> QED
      BY <3>1, <3>2, <3>3 DEF TenantInv
  <2>9. ASSUME swq'[q] = e, \A p \in Tenants \ {q} : swq'[p] = swq[p]
        PROVE  ThreadInv(t)'
    <3>1. LcTenant(t)' = q
      BY <1>3, <1>0, <2>2 DEF LcTenant
    <3>2. \A i \in 1..Len(list[t]) : i < k => Exhausted(list[t][i])' = Exhausted(list[t][i])
      BY <1>2, <1>5, <2>2, <2>9 DEF Exhausted
    <3> QED
      BY <1>1, <1>2, <1>0, <2>2, <3>1, <3>2 DEF ThreadInv, Passed, InSubround1, Waiting, Serving
  <2>10. r \in ThreadType
    BY <1>1, <2>1
  <2> QED
    BY <1>3, <2>2, <2>3, <2>7, <2>8, <2>9, <2>10, ServeStep, Zenon
<1>10. CASE LcDone(t)
  <2> DEFINE c == swq[q].credit
             rich == c > PosLimit(Rate2[q] * th[t].delta)
             given == IF rich THEN Donation(c) ELSE 0
  <2>1. PICK x, n, l, e, r : /\ x = IF rich THEN Remainder(c) ELSE c
                             /\ n = th[t].pos + 1 /\ l = th[t].leftover + given
                             /\ e = [swq[q] EXCEPT !.credit = x]
                             /\ r = [th[t] EXCEPT !.pc = "lc", !.pos = n, !.leftover = l]
    BY Zenon
  <2>2. /\ swq' = [swq EXCEPT ![q] = e] /\ th' = [th EXCEPT ![t] = r]
        /\ swq[q].queue # <<>> => c <= -Limit
        /\ th[t].pc = "lcserve" /\ UNCHANGED <<list, start, bucket, marked>>
    BY <1>10, <2>1, <1>0, Zenon DEF LcDone
  <2>3. c \in Int
    BY <1>4 DEF SwqType
  <2>4. rich => c \in Nat /\ c > 0
    BY <1>7, <2>3, RoundedNat
  <2>5. given \in Nat /\ x \in Int /\ (rich => x \in Nat) /\ (~rich => x = c)
    BY <2>1, <2>3, <2>4, DonationSplit
  <2>6. n \in Nat /\ l \in Nat
    BY <1>1, <2>1, <2>5 DEF ThreadType
  <2>7. swq[q].queue = <<>> \/ x <= -Limit
    BY <1>6, <2>2, <2>3, <2>4, <2>5
  <2>8. x > -Limit \/ x = c
    BY <1>6, <2>5
  <2> HIDE DEF c, rich, given
  <2>9. /\ e \in SwqType /\ e.queue = swq[q].queue /\ e.saved = swq[q].saved
        /\ e.credit = x
    BY <1>4, <2>1, <2>5 DEF SwqType
  <2>10. r \in ThreadType /\ r.pc = "lc" /\ r.pos = k + 1 /\ r.tokens = th[t].tokens
    BY <1>1, <1>0, <2>1, <2>6, Zenon DEF ThreadType, Labels
  <2>11. swq'[q] = e => TenantInv(q)'
    BY <1>4, <2>8, <2>9 DEF TenantInv, c
  <2>12. ASSUME swq'[q] = e, \A p \in Tenants \ {q} : swq'[p] = swq[p], th'[t] = r
         PROVE  ThreadInv(t)'
    <3>1. \A i \in 1..Len(list[t]) : i < k => Exhausted(list[t][i])' = Exhausted(list[t][i])
      BY <1>2, <1>5, <2>2, <2>12 DEF Exhausted
    <3>2. Exhausted(list[t][k])'
      BY <1>3, <2>2, <2>7, <2>9, <2>12 DEF Exhausted
    <3>3. \A i \in 1..Len(list[t]) : i < r.pos => i < k \/ i = k
      BY <1>2, <2>10
    <3> QED
      BY <1>1, <1>2, <1>0, <2>2, <2>10, <2>12, <3>1, <3>2, <3>3
      DEF ThreadInv, Passed, InSubround1, Waiting, Serving
  <2> QED
    BY <1>3, <2>2, <2>9, <2>10, <2>11, <2>12, ServeStep, Zenon
<1> QED
  BY <1>8, <1>9, <1>10
(* Subround 2 serves a BE tenant: its savings are taken in hand, pay for   *)
(* requests, and what does not pay for the next one is saved again.  LC    *)
(* tenants are not touched.                                                *)
LEMMA ServingBe ==
  ASSUME IInv, NEW t \in Threads, BeTake(t) \/ BeIssue(t) \/ BeSave(t)
  PROVE  IInv'
<1>0. PICK q, k : q = BeTenant(t) /\ k = th[t].pos
  BY Zenon
<1>1. th[t] \in ThreadType /\ list[t] \in Seq(Tenants) /\ ThreadInv(t)
  BY DEF IInv, TypeOK, ThreadType
<1>2. k \in 1..Len(list[t]) /\ q \in BE
  BY <1>0, <1>1 DEF BeTake, BeIssue, BeSave, ThreadInv, ThreadType
<1>3. q \in Tenants /\ Home[q] = t /\ q \notin LC
  BY <1>0, <1>2, ServedTenant DEF BE
<1>4. swq[q] \in SwqType /\ TenantInv(q)
  BY <1>3 DEF IInv, TypeOK, SwqType
<1>5. swq[q].queue \in Seq(Costs) /\ swq[q].queue \in Seq(Nat)
  BY <1>4, QueueNat DEF SwqType
<1>6. Summable(swq[q].queue) /\ Total(swq[q].queue) \in Nat
  BY <1>4, <1>5, TotalNat DEF TenantInv
<1>7. ASSUME NEW r \in ThreadType, th'[t] = r, UNCHANGED <<list, start>>,
             \A p \in Tenants \ {q} : swq'[p] = swq[p],
             th[t].pc \in Serving, r.leftover = th[t].leftover,
             \/ r.pc = "be" /\ r.pos >= 1
             \/ r.pc = "beserve" /\ r.pos = k /\ swq'[q].saved = 0
      PROVE  ThreadInv(t)'
  <2>1. \A i \in 1..Len(list[t]) :
          list[t][i] \in LC => Exhausted(list[t][i])' = Exhausted(list[t][i])
    BY <1>1, <1>3, <1>7, TenantsAssumption DEF Exhausted
  <2>2. r.pc = "beserve" => BeTenant(t)' = q
    BY <1>0, <1>7 DEF BeTenant
  <2> QED
    BY <1>1, <1>2, <1>7, <2>1, <2>2 DEF ThreadInv, Passed, InSubround1, Waiting, Serving
<1>8. CASE BeTake(t)
  <2>1. PICK g, n, e, r : /\ g = swq[q].saved + Rounded(BeRate2 * th[t].delta)
                          /\ n = th[t].tokens + g
                          /\ e = [swq[q] EXCEPT !.saved = 0]
                          /\ r = [th[t] EXCEPT !.pc = "beserve", !.tokens = n]
    BY Zenon
  <2>2. /\ swq' = [swq EXCEPT ![q] = e] /\ th' = [th EXCEPT ![t] = r]
        /\ th[t].pc = "be" /\ UNCHANGED <<list, start, bucket, marked>>
    BY <1>0, <1>8, <2>1, Zenon DEF BeTake
  <2>3. BeRate2 * th[t].delta \in Nat
    BY <1>1, RatesAssumption, ProductNat DEF ThreadType
  <2>4. g \in Nat /\ n \in Nat
    <3>1. PICK z : z = Rounded(BeRate2 * th[t].delta)
      BY Zenon
    <3>2. z \in Nat
      BY <2>3, <3>1, RoundedNat
    <3>3. g = swq[q].saved + z /\ n = th[t].tokens + g
      BY <2>1, <3>1
    <3>4. swq[q].saved \in Nat /\ th[t].tokens \in Nat
      BY <1>1, <1>4 DEF ThreadType, SwqType
    <3> QED
      BY <3>2, <3>3, <3>4
  <2>5. /\ e \in SwqType /\ e.queue = swq[q].queue /\ e.saved = 0
        /\ e.credit = swq[q].credit
    BY <1>4, <2>1 DEF SwqType
  <2>6. /\ r \in ThreadType /\ r.pc = "beserve" /\ r.pos = k /\ r.leftover = th[t].leftover
    BY <1>0, <1>1, <2>1, <2>4, Zenon DEF ThreadType, Labels
  <2>7. swq'[q] = e => TenantInv(q)'
    BY <1>4, <1>6, <2>5 DEF TenantInv
  <2> QED
    BY <1>3, <1>7, <2>2, <2>5, <2>6, <2>7, ServeStep, Zenon DEF Serving
<1>9. CASE BeIssue(t)
  <2>1. PICK u, n, e, r : /\ u = Tail(swq[q].queue)
                          /\ n = th[t].tokens - Head(swq[q].queue)
                          /\ e = [swq[q] EXCEPT !.queue = u]
                          /\ r = [th[t] EXCEPT !.tokens = n]
    BY Zenon
  <2>2. /\ swq' = [swq EXCEPT ![q] = e] /\ th' = [th EXCEPT ![t] = r]
        /\ swq[q].queue # <<>> /\ Head(swq[q].queue) <= th[t].tokens
        /\ th[t].pc = "beserve" /\ UNCHANGED <<list, start, bucket, marked>>
    BY <1>0, <1>9, <2>1, Zenon DEF BeIssue
  <2>3. Head(swq[q].queue) \in Nat /\ u \in Seq(Costs)
    BY <1>5, <2>1, <2>2, QueueNat
  <2>4. n \in Nat
    <3>1. th[t].tokens \in Nat
      BY <1>1 DEF ThreadType
    <3>2. PICK h \in Nat : n = th[t].tokens - h /\ h <= th[t].tokens
      BY <2>1, <2>2, <2>3, Zenon
    <3> QED
      BY <3>1, <3>2
  <2>5. Summable(u) /\ Total(u) \in Nat
    BY <1>5, <1>6, <2>1, <2>2, TotalTail
  <2>6. e \in SwqType /\ e.queue = u /\ e.saved = swq[q].saved /\ e.credit = swq[q].credit
    BY <1>4, <2>1, <2>3, Zenon DEF SwqType
  <2>7. /\ r \in ThreadType /\ r.pc = "beserve" /\ r.pos = k /\ r.leftover = th[t].leftover
    BY <1>0, <1>1, <2>1, <2>2, <2>4, Zenon DEF ThreadType, Labels
  <2>8. e.saved = 0
    BY <1>0, <1>1, <2>2, <2>6 DEF ThreadInv
  <2>9. swq'[q] = e => TenantInv(q)'
    BY <1>4, <2>5, <2>6, <2>8 DEF TenantInv
  <2> QED
    BY <1>3, <1>7, <2>2, <2>6, <2>7, <2>8, <2>9, ServeStep, Zenon DEF Serving
<1>10. CASE BeSave(t)
  <2> DEFINE want == Total(swq[q].queue)
             kept == Least(th[t].tokens, want)
  <2>1. PICK x, n, m, e, r : /\ x = IF want = 0 THEN 0 ELSE swq[q].saved + kept
                             /\ n = th[t].pos + 1 /\ m = th[t].tokens - kept
                             /\ e = [swq[q] EXCEPT !.saved = x]
                             /\ r = [th[t] EXCEPT !.pc = "be", !.pos = n, !.tokens = m]
    BY Zenon
  <2>2. /\ swq' = [swq EXCEPT ![q] = e] /\ th' = [th EXCEPT ![t] = r]
        /\ swq[q].queue # <<>> => Head(swq[q].queue) > th[t].tokens
        /\ th[t].pc = "beserve" /\ UNCHANGED <<list, start, bucket, marked>>
    BY <1>0, <1>10, <2>1, Zenon DEF BeSave
  <2>3. kept \in Nat /\ kept <= want /\ kept <= th[t].tokens /\ th[t].tokens \in Nat
    BY <1>1, <1>6 DEF Least, ThreadType
  <2>4. swq[q].saved = 0
    BY <1>0, <1>1, <2>2 DEF ThreadInv
  <2>5. x \in Nat /\ x <= want /\ x <= th[t].tokens
    BY <1>6, <2>1, <2>3, <2>4
  <2>6. n \in Nat /\ n >= 1 /\ m \in Nat
    BY <1>1, <2>1, <2>3 DEF ThreadType
  <2> HIDE DEF kept
  <2>7. /\ e \in SwqType /\ e.queue = swq[q].queue /\ e.saved = x
        /\ e.credit = swq[q].credit
    BY <1>4, <2>1, <2>5 DEF SwqType
  <2>8. r \in ThreadType /\ r.pc = "be" /\ r.pos = n /\ r.leftover = th[t].leftover
    BY <1>1, <2>1, <2>6, Zenon DEF ThreadType, Labels
  <2>9. swq'[q] = e => TenantInv(q)'
    <3>1. swq[q].queue # <<>> => x < Head(swq[q].queue)
      <4> SUFFICES ASSUME swq[q].queue # <<>> PROVE x < Head(swq[q].queue)
        BY Zenon
      <4>1. PICK h \in Nat : h = Head(swq[q].queue) /\ h > th[t].tokens
        BY <1>5, <2>2, QueueNat, Zenon
      <4>2. x \in Nat /\ x <= th[t].tokens /\ th[t].tokens \in Nat
        BY <2>3, <2>5, Zenon
      <4> QED
        BY <4>1, <4>2
    <3> QED
      BY <1>3, <1>4, <2>5, <2>7, <3>1 DEF TenantInv
  <2> QED
    BY <1>3, <1>7, <2>2, <2>6, <2>7, <2>8, <2>9, ServeStep, Zenon DEF Serving
<1> QED
  BY <1>8, <1>9, <1>10
-----------------------------------------------------------------------------
(* The choice of the next start, and the system calls before a round: the  *)
(* steps that change a thread's list or its starting point.                *)
LEMMA Restarting ==
  ASSUME IInv, NEW t \in Threads, NextStart(t)
  PROVE  IInv'
<1>1. /\ th \in [Threads -> ThreadType] /\ start \in [Threads -> Nat]
      /\ th[t] \in ThreadType /\ ThreadInv(t) /\ TypeOK
  BY Zenon DEF IInv, TypeOK, ThreadType
<1>2. PICK r : r = [th[t] EXCEPT !.pc = "return", !.pos = 0, !.delta = 0]
  BY Zenon
<1>3. r \in ThreadType /\ r.pc = "return" /\ r.leftover = th[t].leftover
  BY <1>1, <1>2, Zenon DEF ThreadType, Labels
<1>4. /\ th' = [th EXCEPT ![t] = r] /\ th[t].pc = "be"
      /\ UNCHANGED <<list, swq, bucket, marked>>
  BY <1>2, Zenon DEF NextStart
<1>5. /\ th' \in [Threads -> ThreadType] /\ th'[t] = r
      /\ \A u \in Threads \ {t} : th'[u] = th[u]
  BY <1>1, <1>3, <1>4
<1>6. start' \in [Threads -> Nat] /\ \A u \in Threads \ {t} : start'[u] = start[u]
  <2>1. CASE UNCHANGED start
    BY <1>1, <2>1
  <2>2. CASE \E i \in BeIndices(t) : start' = [start EXCEPT ![t] = i]
    <3>1. PICK i \in BeIndices(t) : start' = [start EXCEPT ![t] = i]
      BY <2>2, Zenon
    <3>2. i \in Nat
      BY <1>1 DEF BeIndices, TypeOK
    <3> QED
      BY <1>1, <3>1, <3>2
  <2> QED
    BY <2>1, <2>2 DEF NextStart
<1>7. TypeOK'
  BY <1>1, <1>4, <1>5, <1>6, Zenon DEF TypeOK, ThreadType
<1>8. ListInv(t)'
  BY <1>4 DEF IInv, ListInv
<1>9. ThreadInv(t)'
  BY <1>1, <1>3, <1>4, <1>5 DEF ThreadInv, Passed, InSubround1, Waiting, Serving
<1> QED
  BY <1>4, <1>5, <1>6, <1>7, <1>8, <1>9, ThreadStep
(* A thread that polls is not in a round: nothing is claimed of its        *)
(* position or of the tenants it has served.                               *)
LEMMA Polling ==
  ASSUME NEW t \in Threads, ThreadInv(t), th[t].pc = "poll", th'[t] = th[t]
  PROVE  ThreadInv(t)'
  BY Zenon DEF ThreadInv, Passed, InSubround1, Waiting, Serving

(* A request is queued behind the others.                                  *)
LEMMA Enqueuing ==
  ASSUME IInv, NEW t \in Threads, NEW q \in Tenants, NEW c \in Costs, Enqueue(t, q, c)
  PROVE  IInv'
<1>1. /\ th \in [Threads -> ThreadType] /\ th[t] \in ThreadType /\ ThreadInv(t)
      /\ swq[q] \in SwqType /\ TenantInv(q)
  BY Zenon DEF IInv, TypeOK, ThreadType, SwqType
<1>2. c \in Nat
  BY CostsAssumption, Zenon
<1>3. swq[q].queue \in Seq(Costs) /\ swq[q].queue \in Seq(Nat) /\ swq[q].saved \in Nat
  BY <1>1, QueueNat DEF SwqType
<1>4. PICK u, e : u = Append(swq[q].queue, c) /\ e = [swq[q] EXCEPT !.queue = u]
  BY Zenon
<1>5. /\ swq' = [swq EXCEPT ![q] = e] /\ th[t].pc = "poll" /\ Home[q] = t
      /\ UNCHANGED <<list, start, th, bucket, marked>>
  BY <1>4, Zenon DEF Enqueue
<1>6. /\ u \in Seq(Costs) /\ u # <<>>
      /\ (swq[q].queue # <<>> => Head(u) = Head(swq[q].queue))
  BY <1>3, <1>4
<1>7. /\ Summable(u) /\ Total(u) = Total(swq[q].queue) + c
      /\ Total(swq[q].queue) \in Nat
  BY <1>1, <1>2, <1>3, <1>4, TotalAppend, TotalNat DEF TenantInv
<1>8. e \in SwqType /\ e.queue = u /\ e.saved = swq[q].saved /\ e.credit = swq[q].credit
  BY <1>1, <1>4, <1>6, Zenon DEF SwqType
<1>9. swq'[q] = e => TenantInv(q)'
  <2>1. e.saved <= Total(e.queue)
    <3>1. swq[q].saved <= Total(swq[q].queue)
      BY <1>1 DEF TenantInv
    <3> QED
      BY <1>2, <1>3, <1>7, <1>8, <3>1
  <2>2. e.saved < Head(e.queue) \/ e.saved = 0
    <3>1. CASE swq[q].queue = <<>>
      BY <1>1, <1>3, <1>8, <3>1, TotalEmpty DEF TenantInv
    <3>2. CASE swq[q].queue # <<>>
      BY <1>1, <1>6, <1>8, <3>2 DEF TenantInv
    <3> QED
      BY <3>1, <3>2
  <2> QED
    BY <1>1, <1>7, <1>8, <2>1, <2>2 DEF TenantInv
<1>10. th' = [th EXCEPT ![t] = th[t]]
  BY <1>1, <1>5
<1>11. th'[t] = th[t] => ThreadInv(t)'
  BY <1>1, <1>5, Polling
<1> QED
  BY <1>1, <1>5, <1>8, <1>9, <1>10, <1>11, ServeStep, Zenon
(* A tenant that comes is not on the list yet, one that leaves takes its   *)
(* queue along.                                                            *)
LEMMA Registering ==
  ASSUME IInv, NEW t \in Threads, NEW q \in Tenants, AddTenant(t, q) \/ DropTenant(t, q)
  PROVE  IInv'
<1>1. /\ list \in [Threads -> Seq(Tenants)] /\ swq \in [Tenants -> SwqType]
      /\ start \in [Threads -> Nat] /\ th[t].pc = "poll"
      /\ ThreadInv(t) /\ ListInv(t) /\ TypeOK
  BY Zenon DEF IInv, TypeOK, SwqType, AddTenant, DropTenant
<1>2. PICK s : s = list[t]
  BY Zenon
<1>3. s \in Seq(Tenants) /\ Len(s) \in Nat
      /\ \A i, j \in 1..Len(s) : Home[s[i]] = t /\ (s[i] = s[j] => i = j)
  BY <1>1, <1>2 DEF ListInv
<1>4. swq' = [swq EXCEPT ![q] = EmptySwq] /\ UNCHANGED <<th, bucket, marked>>
  BY Zenon DEF AddTenant, DropTenant
<1>5. EmptySwq \in SwqType
  BY DEF EmptySwq, SwqType
<1>6. /\ swq' \in [Tenants -> SwqType] /\ swq'[q] = EmptySwq
      /\ \A p \in Tenants \ {q} : swq'[p] = swq[p]
  BY <1>1, <1>4, <1>5
<1>7. TenantInv(q)'
  BY <1>6, TotalEmpty, LimitAssumption DEF TenantInv, EmptySwq
<1>8. ThreadInv(t)'
  BY <1>1, <1>4, Polling
<1>9. ASSUME NEW l \in Seq(Tenants), list' = [list EXCEPT ![t] = l], Home[q] = t,
             start' \in [Threads -> Nat], \A u \in Threads \ {t} : start'[u] = start[u],
             \A i, j \in 1..Len(l) : Home[l[i]] = t /\ (l[i] = l[j] => i = j)
      PROVE  IInv'
  <2>1. /\ list' \in [Threads -> Seq(Tenants)] /\ list'[t] = l
        /\ \A u \in Threads \ {t} : list'[u] = list[u]
    BY <1>1, <1>9
  <2>2. TypeOK'
    BY <1>1, <1>4, <1>6, <1>9, <2>1, Zenon DEF TypeOK, SwqType
  <2>3. ListInv(t)'
    BY <1>9, <2>1 DEF ListInv
  <2>4. \A p \in Tenants : swq'[p] = swq[p] \/ (Home[p] = t /\ TenantInv(p)')
    BY <1>6, <1>7, <1>9
  <2> QED
    BY <1>4, <1>8, <1>9, <2>1, <2>2, <2>3, <2>4, ThreadStep
<1>10. CASE AddTenant(t, q)
  <2>1. PICK l : l = <<q>> \o s
    BY Zenon
  <2>2. /\ list' = [list EXCEPT ![t] = l] /\ start' = [start EXCEPT ![t] = 0]
        /\ Home[q] = t
    BY <1>2, <1>10, <2>1, Zenon DEF AddTenant
  <2>3. \A i \in 1..Len(s) : s[i] # q
    BY <1>2, <1>10 DEF AddTenant, Registered
  <2>4. /\ l \in Seq(Tenants) /\ Len(l) = Len(s) + 1 /\ l[1] = q
        /\ \A i \in 2..Len(l) : l[i] = s[i-1] /\ i-1 \in 1..Len(s)
    BY <1>3, <2>1
  <2>5. \A i, j \in 1..Len(l) : Home[l[i]] = t /\ (l[i] = l[j] => i = j)
    <3> SUFFICES ASSUME NEW i \in 1..Len(l), NEW j \in 1..Len(l)
                 PROVE  Home[l[i]] = t /\ (l[i] = l[j] => i = j)
      OBVIOUS
    <3>1. (i = 1 \/ i \in 2..Len(l)) /\ (j = 1 \/ j \in 2..Len(l))
      BY <1>3, <2>4
    <3>2. CASE i = 1
      BY <2>2, <2>3, <2>4, <3>1, <3>2
    <3>3. CASE i \in 2..Len(l) /\ j = 1
      <4>1. PICK m \in 1..Len(s) : l[i] = s[m]
        BY <2>4, <3>3
      <4> QED
        BY <1>3, <2>3, <2>4, <3>3, <4>1
    <3>4. CASE i \in 2..Len(l) /\ j \in 2..Len(l)
      <4>1. PICK m, n : m = i - 1 /\ n = j - 1
        BY Zenon
      <4>2. /\ m \in 1..Len(s) /\ n \in 1..Len(s) /\ l[i] = s[m] /\ l[j] = s[n]
            /\ (m = n => i = j)
        BY <2>4, <3>4, <4>1
      <4> QED
        BY <1>3, <4>2
    <3> QED
      BY <3>1, <3>2, <3>3, <3>4
  <2> QED
    BY <1>1, <1>9, <2>2, <2>4, <2>5, Zenon
<1>11. CASE DropTenant(t, q)
  <2>1. PICK k \in 1..Len(s) : s[k] = q /\ list' = [list EXCEPT ![t] = Without(@, k)]
    BY <1>2, <1>11, Zenon DEF DropTenant
  <2>2. PICK l : l = Without(s, k)
    BY Zenon
  <2>3. list' = [list EXCEPT ![t] = l] /\ start' = start
    BY <1>2, <1>11, <2>1, <2>2, Zenon DEF DropTenant
  <2>4. /\ l \in Seq(Tenants) /\ Len(l) = Len(s) - 1
        /\ \A i \in 1..Len(l) : /\ i \in 1..Len(s) /\ i + 1 \in 1..Len(s)
                                /\ l[i] = IF i < k THEN s[i] ELSE s[i+1]
    BY <1>3, <2>1, <2>2 DEF Without
  <2>5. \A i, j \in 1..Len(l) : Home[l[i]] = t /\ (l[i] = l[j] => i = j)
    <3> SUFFICES ASSUME NEW i \in 1..Len(l), NEW j \in 1..Len(l)
                 PROVE  Home[l[i]] = t /\ (l[i] = l[j] => i = j)
      OBVIOUS
    <3>1. PICK m \in 1..Len(s), n \in 1..Len(s) :
            /\ m = (IF i < k THEN i ELSE i + 1) /\ n = (IF j < k THEN j ELSE j + 1)
            /\ l[i] = s[m] /\ l[j] = s[n]
      BY <2>4, Zenon
    <3>2. m = n => i = j
      BY <2>1, <3>1
    <3> QED
      BY <1>3, <3>1, <3>2
  <2>6. Home[q] = t
    BY <1>3, <2>1
  <2> QED
    BY <1>1, <1>9, <2>3, <2>4, <2>5, <2>6, Zenon
<1> QED
  BY <1>10, <1>11

(* Every step preserves the invariant.                                     *)
LEMMA NextInv == IInv /\ [Next]_vars => IInv'
<1> SUFFICES ASSUME IInv, [Next]_vars PROVE IInv'
  OBVIOUS
<1>1. CASE UNCHANGED vars
  <2>1. TypeOK' /\ \A q \in Tenants : TenantInv(q)'
    BY <1>1 DEF vars, IInv, TypeOK, TenantInv
  <2>2. ASSUME NEW t \in Threads PROVE ListInv(t)' /\ ThreadInv(t)'
    BY <1>1 DEF vars, IInv, ListInv, ThreadInv, Passed, Exhausted, LcTenant, BeTenant
  <2> QED
    BY <2>1, <2>2 DEF IInv
<1>2. CASE Next
  <2>1. PICK t \in Threads : SysCall(t) \/ nvme_sched(t)
    BY <1>2 DEF Next
  <2>2. CASE SysCall(t)
    BY <2>2, Registering, Enqueuing DEF SysCall
  <2>3. CASE nvme_sched(t)
    BY <2>3, Outside, Tallying, Settling, ServingLc, ServingBe, Restarting
    DEF nvme_sched, Subround1, Subround2, UpdateVector
  <2> QED
    BY <2>1, <2>2, <2>3
<1> QED
  BY <1>1, <1>2
-----------------------------------------------------------------------------
(* The invariant holds in every reachable state.                           *)
THEOREM InvariantHolds == Spec => []IInv
  BY InitInv, NextInv, PTL DEF Spec

(* Every variable keeps its type; the unsigned amounts of nvme_sched never *)
(* go below zero.                                                          *)
THEOREM TypeCorrect == Spec => []TypeOK
<1>1. IInv => TypeOK
  BY DEF IInv
<1> QED
  BY <1>1, InvariantHolds, PTL

(* total_token_demand - saved_tokens, which nvme_sched_subround1 computes  *)
(* for every BE tenant, never wraps around.                                *)
THEOREM DemandCoversSavings == Spec => []SavedWithinDemand
<1>1. IInv => SavedWithinDemand
  BY DEF IInv, TenantInv, SavedWithinDemand
<1> QED
  BY <1>1, InvariantHolds, PTL

(* What nvme_sw_queue_save_tokens keeps for a tenant is never enough to    *)
(* pay for the request at the head of its queue.                           *)
THEOREM SavingsAreStuck == Spec => []SavedIsUnaffordable
<1>1. IInv => SavedIsUnaffordable
  BY DEF IInv, TenantInv, SavedIsUnaffordable
<1> QED
  BY <1>1, InvariantHolds, PTL

(* The token credit of an LC tenant is below -TOKEN_DEFICIT_LIMIT by less  *)
(* than the cost of one request.                                           *)
THEOREM DebtIsBounded == Spec => []DeficitBounded
<1>1. IInv => DeficitBounded
  BY DEF IInv, TenantInv, DeficitBounded
<1> QED
  BY <1>1, InvariantHolds, PTL

(* In subround 2 of nvme_sched no LC tenant of the thread has anything     *)
(* left that it could issue.                                               *)
THEOREM LcComesFirst == Spec => []LcBeforeBe
<1>1. IInv => LcBeforeBe
  BY DEF IInv, ThreadInv, LcBeforeBe, Passed, Exhausted, Waiting, Serving
<1> QED
  BY <1>1, InvariantHolds, PTL

(* The two loops of nvme_sched_subround2 together visit every tenant on    *)
(* the list, wherever roundrobin_start was left.                           *)
THEOREM AllAreVisited == Spec => []RoundServesAll
<1>1. IInv => RoundServesAll
  <2> SUFFICES ASSUME IInv, NEW t \in Threads, NEW i \in 1..Len(list[t])
               PROVE  \E k \in 1..Len(list[t]) : InOrder(list[t], start[t], k) = list[t][i]
    BY DEF RoundServesAll
  <2>1. list[t] \in Seq(Tenants) /\ start[t] \in Nat
    BY DEF IInv, TypeOK
  <2> QED
    BY <2>1, InOrderOnto, Zenon
<1> QED
  BY <1>1, InvariantHolds, PTL
=============================================================================
