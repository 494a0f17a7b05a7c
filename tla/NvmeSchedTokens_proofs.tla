------------------------ MODULE NvmeSchedTokens_proofs ------------------------
(***************************************************************************)
(* No interleaving of the scheduler's steps duplicates or loses tokens, by *)
(* the invariant of NvmeSched_proofs.  A step changes what its thread, the *)
(* bucket and one tenant hold; the invariant says which local variables    *)
(* are zero and which savings are in hand when they are added up.          *)
(***************************************************************************)
EXTENDS NvmeSched_proofs

(* Conservation, for steps that do not touch a tenant: what the thread and *)
(* the bucket hold together stays the same, unless the bucket is reset.    *)
LEMMA LocalConserves ==
  ASSUME IInv, IInv', NEW t \in Threads, \A u \in Threads \ {t} : th'[u] = th[u],
         UNCHANGED <<swq, list>>, th[t].pc # "lcserve",
         ~(th[t].pc = "be" /\ th'[t].pc = "beserve"),
         bucket' + th'[t].leftover + th'[t].tokens
           = (IF th[t].pc = "reset" THEN 0 ELSE bucket) + th[t].leftover + th[t].tokens
  PROVE  Conserving
<1>1. PICK q : q \in Tenants
  BY TenantsAssumption
<1>2. /\ th[t].leftover \in Nat /\ th[t].tokens \in Nat /\ bucket \in Nat
      /\ th'[t].leftover \in Nat /\ th'[t].tokens \in Nat /\ bucket' \in Nat
      /\ swq[q].saved \in Nat
  BY <1>1, Zenon DEF IInv, TypeOK
<1>3. Created(t, q) = 0
  BY DEF Created
<1>4. Used(t, q) = IF th[t].pc = "reset" THEN bucket ELSE 0
  BY DEF Used
<1>5. Purse(t, q)' = Purse(t, q) + Created(t, q) - Used(t, q)
  BY <1>2, <1>3, <1>4 DEF Purse
<1> QED
  BY <1>1, <1>5, Zenon DEF Conserving

(* Those steps, one by one.                                                *)
LEMMA LocalStepsConserve ==
  ASSUME IInv, IInv', NEW t \in Threads,
         \/ NoTenants(t) \/ StartRound(t) \/ BeTally(t) \/ LcEnd(t)
         \/ GiveAway(t) \/ Enough(t) \/ ReadBucket(t) \/ CasBucket(t) \/ CasFails(t)
         \/ BeSkip(t) \/ NextStart(t) \/ ReturnTokens(t)
         \/ Mark(t) \/ Scan(t) \/ Reset(t) \/ Clear(t)
  PROVE  Conserving
<1>1. th \in [Threads -> ThreadType] /\ bucket \in Nat /\ ThreadInv(t)
  BY DEF IInv, TypeOK, ThreadType
<1>2. /\ th[t].leftover \in Nat /\ th[t].tokens \in Nat /\ th[t].demand \in Nat
      /\ th[t].avail \in Nat /\ bucket \in Nat
  BY <1>1 DEF ThreadType
<1>3. CASE NoTenants(t)
  <2>1. th'[t].leftover = th[t].leftover /\ th'[t].tokens = th[t].tokens
    BY <1>1, <1>3 DEF NoTenants, ThreadType
  <2> QED
    BY <1>1, <1>3, <2>1, LocalConserves DEF NoTenants
<1>4. CASE StartRound(t)
  <2>1. /\ th'[t].leftover = th[t].leftover /\ th'[t].tokens = th[t].tokens
        /\ \A u \in Threads \ {t} : th'[u] = th[u]
    BY <1>1, <1>4, Zenon DEF StartRound, ThreadType
  <2> QED
    BY <1>4, <2>1, LocalConserves, Zenon DEF StartRound
<1>5. CASE BeTally(t)
  <2>1. /\ th'[t].leftover = th[t].leftover /\ th'[t].tokens = th[t].tokens
        /\ \A u \in Threads \ {t} : th'[u] = th[u]
    BY <1>1, <1>5 DEF BeTally, ThreadType
  <2> QED
    BY <1>5, <2>1, LocalConserves DEF BeTally
<1>6. CASE LcEnd(t)
  <2>1. /\ th'[t].leftover = th[t].leftover /\ th'[t].tokens = th[t].tokens
        /\ \A u \in Threads \ {t} : th'[u] = th[u]
    BY <1>1, <1>6 DEF LcEnd, ThreadType
  <2> QED
    BY <1>6, <2>1, LocalConserves DEF LcEnd
<1>7. CASE GiveAway(t)
  <2>1. /\ th'[t].leftover = 0 /\ th'[t].tokens = th[t].tokens
        /\ \A u \in Threads \ {t} : th'[u] = th[u]
    BY <1>1, <1>7 DEF GiveAway, ThreadType
  <2>2. bucket' + th'[t].leftover + th'[t].tokens = bucket + th[t].leftover + th[t].tokens
    BY <1>2, <1>7, <2>1 DEF GiveAway
  <2> QED
    BY <1>7, <2>1, <2>2, LocalConserves DEF GiveAway
<1>8. ASSUME NEW n \in Nat, EnterBe(t, n)
      PROVE  /\ th'[t].leftover = 0 /\ th'[t].tokens = n /\ th'[t].pc = "be"
             /\ \A u \in Threads \ {t} : th'[u] = th[u]
  BY <1>1, <1>8 DEF EnterBe, ThreadType
<1>9. CASE Enough(t)
  <2>1. th[t].pc = "gate" /\ EnterBe(t, th[t].leftover) /\ UNCHANGED <<list, swq, bucket>>
    BY <1>9, Zenon DEF Enough
  <2>2. th[t].tokens = 0
    BY <1>1, <2>1, Zenon DEF ThreadInv, Serving
  <2>3. /\ th'[t].leftover = 0 /\ th'[t].tokens = th[t].leftover
        /\ \A u \in Threads \ {t} : th'[u] = th[u]
    BY <1>2, <1>8, <2>1, Zenon
  <2>4. bucket' + th'[t].leftover + th'[t].tokens = bucket + th[t].leftover + th[t].tokens
    BY <1>2, <2>1, <2>2, <2>3
  <2> QED
    BY <2>1, <2>3, <2>4, LocalConserves, Zenon
<1>10. CASE CasBucket(t)
  <2>1. PICK k : k = Least(th[t].demand - th[t].leftover, th[t].avail)
    BY Zenon
  <2>2. /\ th[t].pc = "cas" /\ bucket = th[t].avail /\ bucket' = bucket - k
        /\ EnterBe(t, th[t].leftover + k) /\ UNCHANGED <<list, swq>>
    BY <1>10, <2>1, Zenon DEF CasBucket
  <2>3. th[t].tokens = 0 /\ th[t].leftover < th[t].demand
    BY <1>1, <2>2, Zenon DEF ThreadInv, Serving
  <2>4. k \in Nat /\ k <= bucket
    BY <1>2, <2>1, <2>2, <2>3 DEF Least
  <2>5. PICK n : n = th[t].leftover + k
    BY Zenon
  <2>6. n \in Nat
    BY <1>2, <2>4, <2>5
  <2>7. /\ th'[t].leftover = 0 /\ th'[t].tokens = n
        /\ \A u \in Threads \ {t} : th'[u] = th[u]
    BY <1>8, <2>2, <2>5, <2>6, Zenon
  <2>8. bucket' + th'[t].leftover + th'[t].tokens = bucket + th[t].leftover + th[t].tokens
    BY <1>2, <2>2, <2>3, <2>4, <2>5, <2>7
  <2> QED
    BY <2>2, <2>7, <2>8, LocalConserves
<1>11. CASE ReadBucket(t)
  <2>1. /\ th'[t].leftover = th[t].leftover /\ th'[t].tokens = th[t].tokens
        /\ \A u \in Threads \ {t} : th'[u] = th[u]
    BY <1>1, <1>11 DEF ReadBucket, ThreadType
  <2> QED
    BY <1>11, <2>1, LocalConserves DEF ReadBucket
<1>12. CASE CasFails(t)
  <2>1. /\ th'[t].leftover = th[t].leftover /\ th'[t].tokens = th[t].tokens
        /\ \A u \in Threads \ {t} : th'[u] = th[u]
    BY <1>1, <1>12 DEF CasFails, ThreadType
  <2> QED
    BY <1>12, <2>1, LocalConserves DEF CasFails
<1>13. CASE BeSkip(t)
  <2>1. /\ th'[t].leftover = th[t].leftover /\ th'[t].tokens = th[t].tokens
        /\ th'[t].pc = "be" /\ \A u \in Threads \ {t} : th'[u] = th[u]
    BY <1>1, <1>13 DEF BeSkip, ThreadType
  <2> QED
    BY <1>13, <2>1, LocalConserves DEF BeSkip
<1>14. CASE NextStart(t)
  <2>1. /\ th'[t].leftover = th[t].leftover /\ th'[t].tokens = th[t].tokens
        /\ th'[t].pc = "return" /\ \A u \in Threads \ {t} : th'[u] = th[u]
    BY <1>1, <1>14 DEF NextStart, ThreadType
  <2> QED
    BY <1>14, <2>1, LocalConserves DEF NextStart
<1>15. CASE ReturnTokens(t)
  <2>1. /\ th'[t].leftover = th[t].leftover /\ th'[t].tokens = 0
        /\ \A u \in Threads \ {t} : th'[u] = th[u]
    BY <1>1, <1>15 DEF ReturnTokens, ThreadType
  <2>2. bucket' + th'[t].leftover + th'[t].tokens = bucket + th[t].leftover + th[t].tokens
    BY <1>2, <1>15, <2>1 DEF ReturnTokens
  <2> QED
    BY <1>15, <2>1, <2>2, LocalConserves DEF ReturnTokens
<1>16. CASE Mark(t)
  <2>1. /\ th'[t].leftover = th[t].leftover /\ th'[t].tokens = th[t].tokens
        /\ \A u \in Threads \ {t} : th'[u] = th[u]
    BY <1>1, <1>16 DEF Mark, ThreadType
  <2> QED
    BY <1>16, <2>1, LocalConserves DEF Mark
<1>17. CASE Scan(t)
  <2>1. /\ th'[t].leftover = th[t].leftover /\ th'[t].tokens = th[t].tokens
        /\ \A u \in Threads \ {t} : th'[u] = th[u]
    BY <1>1, <1>17 DEF Scan, ThreadType
  <2> QED
    BY <1>17, <2>1, LocalConserves DEF Scan
<1>18. CASE Reset(t)
  <2>1. /\ th'[t].leftover = th[t].leftover /\ th'[t].tokens = th[t].tokens
        /\ \A u \in Threads \ {t} : th'[u] = th[u]
    BY <1>1, <1>18 DEF Reset, ThreadType
  <2> QED
    BY <1>18, <2>1, LocalConserves DEF Reset
<1>19. CASE Clear(t)
  <2>1. /\ th'[t].leftover = th[t].leftover /\ th'[t].tokens = th[t].tokens
        /\ \A u \in Threads \ {t} : th'[u] = th[u]
    BY <1>1, <1>19 DEF Clear, ThreadType
  <2> QED
    BY <1>19, <2>1, LocalConserves DEF Clear
<1> QED
  BY <1>3, <1>4, <1>5, <1>6, <1>7, <1>9, <1>10, <1>11, <1>12, <1>13, <1>14, <1>15,
     <1>16, <1>17, <1>18, <1>19
(* Conservation, for steps that serve a tenant.                            *)
LEMMA ServiceConserves ==
  ASSUME IInv, IInv', NEW t \in Threads,
         \/ LcCredit(t) \/ LcIssue(t) \/ LcDone(t) \/ BeTake(t) \/ BeIssue(t) \/ BeSave(t)
  PROVE  Conserving
<1>1. th \in [Threads -> ThreadType] /\ bucket \in Nat /\ ThreadInv(t)
  BY DEF IInv, TypeOK, ThreadType
<1>2. th[t].pos \in 1..Len(list[t])
  BY <1>1 DEF LcCredit, LcIssue, LcDone, BeTake, BeIssue, BeSave, ThreadInv, ThreadType
<1>3. bucket \in Nat /\ th[t].leftover \in Nat /\ th[t].tokens \in Nat
  BY <1>1 DEF ThreadType
<1>4. LcTenant(t) \in Tenants /\ BeTenant(t) \in Tenants
  BY <1>2, ServedTenant
<1>5. swq \in [Tenants -> SwqType] /\ \A q \in Tenants : TenantInv(q)
  BY DEF IInv, TypeOK, SwqType
<1>6. CASE LcCredit(t) \/ LcIssue(t) \/ LcDone(t)
  <2>1. PICK q \in Tenants : q = LcTenant(t)
    BY <1>4
  <2>2. swq[q] \in SwqType
    BY <1>5
  <2>3. swq[q].queue \in Seq(Costs) /\ swq[q].saved \in Nat /\ swq[q].credit \in Int
    BY <2>2 DEF SwqType
  <2>4. Rate2[q] * th[t].delta \in Nat
    BY <1>1, RatesAssumption, ProductNat DEF ThreadType
  <2>5. CASE LcCredit(t)
    <3>1. /\ \A u \in Threads \ {t} : th'[u] = th[u]
          /\ th'[t].leftover = th[t].leftover /\ th'[t].tokens = th[t].tokens
          /\ th[t].pc = "lc" /\ UNCHANGED <<bucket, list>>
      BY <1>1, <2>5 DEF LcCredit, ThreadType
    <3>2. \A p \in Tenants : swq'[p].saved = swq[p].saved
      BY <1>5, <2>1, <2>5 DEF LcCredit, SwqType
    <3>3. Created(t, q) = 0 /\ Used(t, q) = 0 /\ Purse(t, q)' = Purse(t, q)
      BY <3>1, <3>2 DEF Created, Used, Purse
    <3>4. Purse(t, q)' = Purse(t, q) + Created(t, q) - Used(t, q)
      <4>1. swq[q].saved \in Nat
        BY <2>3, Zenon
      <4>2. Purse(t, q) \in Nat
        BY <1>3, <4>1 DEF Purse
      <4> QED
        BY <3>3, <4>2
    <3> QED
      BY <3>1, <3>2, <3>4 DEF Conserving
  <2>6. CASE LcIssue(t)
    <3>1. /\ UNCHANGED <<th, bucket, list>> /\ swq[q].queue # <<>> /\ th[t].pc = "lcserve"
          /\ swq'[q].credit = swq[q].credit - Head(swq[q].queue)
      BY <1>5, <2>1, <2>6 DEF LcIssue, SwqType
    <3>2. \A p \in Tenants : swq'[p].saved = swq[p].saved
      BY <1>5, <2>1, <2>6 DEF LcIssue, SwqType
    <3>3. Created(t, q) = 0 /\ Used(t, q) = 0 /\ Purse(t, q)' = Purse(t, q)
      BY <3>1, <3>2 DEF Created, Used, Purse
    <3>4. Purse(t, q)' = Purse(t, q) + Created(t, q) - Used(t, q)
      <4>1. swq[q].saved \in Nat
        BY <2>3, Zenon
      <4>2. Purse(t, q) \in Nat
        BY <1>3, <4>1 DEF Purse
      <4> QED
        BY <3>3, <4>2
    <3>5. Head(swq[q].queue) \in Nat
      BY <2>3, <3>1, QueueNat
    <3>6. Created(t, q) + swq'[q].credit <= swq[q].credit
      BY <2>3, <3>1, <3>3, <3>5
    <3> QED
      BY <3>1, <3>2, <3>4, <3>6, Zenon DEF Conserving
  <2>7. CASE LcDone(t)
    <3> DEFINE c == swq[q].credit
               rich == c > PosLimit(Rate2[q] * th[t].delta)
    <3>1. PICK g, x : /\ g = (IF rich THEN Donation(c) ELSE 0)
                      /\ x = (IF rich THEN Remainder(c) ELSE c)
      BY Zenon
    <3>2. g \in Nat /\ x \in Int /\ g + x <= c
      <4>1. PosLimit(Rate2[q] * th[t].delta) \in Nat /\ c \in Int
        BY <2>3, <2>4, RoundedNat
      <4>2. CASE rich
        <5>1. c \in Nat
          BY <4>1, <4>2
        <5>2. Donation(c) \in Nat /\ Remainder(c) \in Nat /\ Donation(c) + Remainder(c) <= c
          BY <5>1, DonationSplit
        <5> QED
          BY <3>1, <4>2, <5>2
      <4>3. CASE ~rich
        BY <3>1, <4>1, <4>3
      <4> QED
        BY <4>2, <4>3
    <3> HIDE DEF rich
    <3>3. /\ \A u \in Threads \ {t} : th'[u] = th[u]
          /\ th'[t].leftover = th[t].leftover + g /\ th'[t].tokens = th[t].tokens
          /\ th[t].pc = "lcserve" /\ th'[t].pc = "lc" /\ UNCHANGED <<bucket, list>>
      BY <1>1, <2>1, <2>7, <3>1 DEF LcDone, ThreadType, rich
    <3>4. swq'[q].credit = x /\ \A p \in Tenants : swq'[p].saved = swq[p].saved
      BY <1>5, <2>1, <2>7, <3>1 DEF LcDone, SwqType, rich
    <3>5. Created(t, q) = g /\ Used(t, q) = 0
      BY <1>3, <3>2, <3>3 DEF Created, Used
    <3>6. Purse(t, q)' = Purse(t, q) + Created(t, q) - Used(t, q)
      <4>1. /\ bucket' = bucket /\ th'[t].leftover = th[t].leftover + g
            /\ th'[t].tokens = th[t].tokens /\ swq'[q].saved = swq[q].saved
        BY <3>3, <3>4, Zenon
      <4>2. swq[q].saved \in Nat /\ g \in Nat
        BY <2>3, <3>2, Zenon
      <4> QED
        BY <1>3, <3>5, <4>1, <4>2 DEF Purse
    <3> QED
      BY <3>2, <3>3, <3>4, <3>5, <3>6 DEF Conserving
  <2> QED
    BY <1>6, <2>5, <2>6, <2>7
<1>7. CASE BeTake(t) \/ BeIssue(t) \/ BeSave(t)
  <2>1. PICK q \in Tenants : q = BeTenant(t)
    BY <1>4
  <2>2. swq[q] \in SwqType /\ TenantInv(q)
    BY <1>5
  <2>3. swq[q].queue \in Seq(Costs) /\ swq[q].saved \in Nat
    BY <2>2 DEF SwqType
  <2>4. CASE BeTake(t)
    <3>1. PICK z : z = Rounded(BeRate2 * th[t].delta)
      BY Zenon
    <3>2. z \in Nat
      <4>1. BeRate2 * th[t].delta \in Nat
        BY <1>1, RatesAssumption, ProductNat DEF ThreadType
      <4> QED
        BY <3>1, <4>1, RoundedNat
    <3>3. /\ \A u \in Threads \ {t} : th'[u] = th[u]
          /\ th'[t].leftover = th[t].leftover
          /\ th'[t].tokens = th[t].tokens + (swq[q].saved + z)
          /\ th[t].pc = "be" /\ th'[t].pc = "beserve" /\ UNCHANGED <<bucket, list>>
      BY <1>1, <2>1, <2>4, <3>1 DEF BeTake, ThreadType
    <3>4. swq'[q].saved = 0 /\ \A p \in Tenants \ {q} : swq'[p].saved = swq[p].saved
      BY <1>5, <2>1, <2>4 DEF BeTake, SwqType
    <3>5. Created(t, q) = z /\ Used(t, q) = 0
      BY <3>1, <3>3, Zenon DEF Created, Used
    <3>6. Purse(t, q)' = Purse(t, q) + Created(t, q) - Used(t, q)
      <4>1. /\ bucket' = bucket /\ th'[t].leftover = th[t].leftover
            /\ th'[t].tokens = th[t].tokens + (swq[q].saved + z) /\ swq'[q].saved = 0
        BY <3>3, <3>4, Zenon
      <4>2. swq[q].saved \in Nat
        BY <2>3, Zenon
      <4> QED
        BY <1>3, <3>2, <3>5, <4>1, <4>2 DEF Purse
    <3> QED
      BY <3>3, <3>4, <3>6 DEF Conserving
  <2>5. CASE BeIssue(t)
    <3>1. PICK h : h = Head(swq[q].queue)
      BY Zenon
    <3>2. /\ \A u \in Threads \ {t} : th'[u] = th[u]
          /\ th'[t].leftover = th[t].leftover /\ th'[t].tokens = th[t].tokens - h
          /\ th[t].pc = "beserve" /\ UNCHANGED <<bucket, list>>
      BY <1>1, <2>1, <2>5, <3>1 DEF BeIssue, ThreadType
    <3>3. /\ swq'[q].queue = Tail(swq[q].queue)
          /\ \A p \in Tenants : swq'[p].saved = swq[p].saved
      BY <1>5, <2>1, <2>5 DEF BeIssue, SwqType
    <3>4. swq[q].queue # <<>> /\ h <= th[t].tokens
      BY <2>1, <2>5, <3>1 DEF BeIssue
    <3>5. h \in Nat /\ Tail(swq[q].queue) # swq[q].queue
      <4>1. h \in Nat
        BY <2>3, <3>1, <3>4, QueueNat
      <4>2. Len(Tail(swq[q].queue)) # Len(swq[q].queue)
        BY <2>3, <3>4
      <4> QED
        BY <4>1, <4>2, Zenon
    <3>6. Created(t, q) = 0 /\ Used(t, q) = h
      BY <3>1, <3>2, <3>3, <3>5 DEF Created, Used
    <3>7. Purse(t, q)' = Purse(t, q) + Created(t, q) - Used(t, q)
      <4>1. /\ bucket' = bucket /\ th'[t].leftover = th[t].leftover
            /\ th'[t].tokens = th[t].tokens - h /\ swq'[q].saved = swq[q].saved
        BY <3>2, <3>3, Zenon
      <4>2. swq[q].saved \in Nat /\ h \in Nat
        BY <2>3, <3>5, Zenon
      <4> QED
        BY <1>3, <3>6, <4>1, <4>2 DEF Purse
    <3> QED
      BY <3>2, <3>3, <3>7, Zenon DEF Conserving
  <2>6. CASE BeSave(t)
    <3> DEFINE want == Total(swq[q].queue)
    <3>1. PICK k, x : /\ k = Least(th[t].tokens, want)
                      /\ x = (IF want = 0 THEN 0 ELSE swq[q].saved + k)
      BY Zenon
    <3>2. want \in Nat
      BY <2>2, <2>3, QueueNat, TotalNat DEF TenantInv
    <3>3. /\ \A u \in Threads \ {t} : th'[u] = th[u]
          /\ th'[t].leftover = th[t].leftover /\ th'[t].tokens = th[t].tokens - k
          /\ th[t].pc = "beserve" /\ th'[t].pc = "be" /\ UNCHANGED <<bucket, list>>
      BY <1>1, <2>1, <2>6, <3>1 DEF BeSave, ThreadType
    <3>4. /\ swq'[q].queue = swq[q].queue /\ swq'[q].saved = x
          /\ \A p \in Tenants \ {q} : swq'[p].saved = swq[p].saved
      BY <1>5, <2>1, <2>6, <3>1 DEF BeSave, SwqType
    <3>5. swq[q].saved = 0
      BY <1>1, <2>1, <3>3, Zenon DEF ThreadInv
    <3> HIDE DEF want
    <3>6. k \in Nat /\ k <= th[t].tokens /\ x = swq[q].saved + k
      BY <1>3, <3>1, <3>2, <3>5 DEF Least
    <3>7. Created(t, q) = 0 /\ Used(t, q) = 0
      BY <3>3, <3>4, Zenon DEF Created, Used
    <3>8. Purse(t, q)' = Purse(t, q) + Created(t, q) - Used(t, q)
      <4>1. /\ bucket' = bucket /\ th'[t].leftover = th[t].leftover
            /\ th'[t].tokens = th[t].tokens - k /\ swq'[q].saved = swq[q].saved + k
        BY <3>3, <3>4, <3>6, Zenon
      <4>2. bucket \in Nat /\ k \in Nat /\ swq[q].saved \in Nat
        BY <1>1, <2>3, <3>6, Zenon
      <4> QED
        BY <1>3, <3>7, <4>1, <4>2 DEF Purse
    <3> QED
      BY <3>3, <3>4, <3>8 DEF Conserving
  <2> QED
    BY <1>7, <2>4, <2>5, <2>6
<1> QED
  BY <1>6, <1>7
(* Conservation, for the system calls: a tenant that leaves takes its      *)
(* savings out of the system, a request that is queued brings none in.     *)
LEMMA CallsConserve ==
  ASSUME IInv, IInv', NEW t \in Threads, SysCall(t)
  PROVE  Conserving
<1>1. /\ swq \in [Tenants -> SwqType] /\ list \in [Threads -> Seq(Tenants)]
      /\ bucket \in Nat /\ th[t].leftover \in Nat /\ th[t].tokens \in Nat
  BY Zenon DEF IInv, TypeOK, SwqType
<1>2. ASSUME NEW q \in Tenants, AddTenant(t, q) \/ DropTenant(t, q)
      PROVE  Conserving
  <2>1. th[t].pc = "poll" /\ UNCHANGED <<th, bucket, marked>>
    BY <1>2 DEF AddTenant, DropTenant
  <2>2. swq'[q].saved = 0 /\ \A p \in Tenants \ {q} : swq'[p].saved = swq[p].saved
    BY <1>1, <1>2 DEF AddTenant, DropTenant, EmptySwq
  <2>3. list'[t] # list[t]
    <3>1. CASE AddTenant(t, q)
      <4>1. list'[t] = <<q>> \o list[t] /\ list[t] \in Seq(Tenants)
        BY <1>1, <3>1 DEF AddTenant
      <4>2. Len(<<q>> \o list[t]) # Len(list[t])
        BY <4>1
      <4> QED
        BY <4>1, <4>2
    <3>2. CASE DropTenant(t, q)
      <4>1. PICK i \in 1..Len(list[t]) : list' = [list EXCEPT ![t] = Without(@, i)]
        BY <3>2, Zenon DEF DropTenant
      <4>2. list'[t] = Without(list[t], i) /\ list[t] \in Seq(Tenants)
        BY <1>1, <4>1
      <4>3. Len(Without(list[t], i)) # Len(list[t])
        BY <4>1, <4>2 DEF Without
      <4> QED
        BY <4>2, <4>3
    <3> QED
      BY <1>2, <3>1, <3>2
  <2>4. Created(t, q) = 0 /\ Used(t, q) = swq[q].saved
    BY <2>1, <2>3 DEF Created, Used
  <2>5. swq[q].saved \in Nat
    BY <1>1 DEF SwqType
  <2>6. Purse(t, q)' = Purse(t, q) + Created(t, q) - Used(t, q)
    BY <1>1, <2>1, <2>2, <2>4, <2>5 DEF Purse
  <2> QED
    BY <2>1, <2>2, <2>6 DEF Conserving
<1>3. ASSUME NEW q \in Tenants, NEW c \in Costs, Enqueue(t, q, c)
      PROVE  Conserving
  <2>1. th[t].pc = "poll" /\ UNCHANGED <<list, th, bucket>>
    BY <1>3 DEF Enqueue
  <2>2. \A p \in Tenants : swq'[p].saved = swq[p].saved
    BY <1>1, <1>3 DEF Enqueue, SwqType
  <2>3. Created(t, q) = 0 /\ Used(t, q) = 0 /\ swq[q].saved \in Nat
    BY <1>1, <2>1 DEF Created, Used, SwqType
  <2>4. Purse(t, q)' = Purse(t, q) + Created(t, q) - Used(t, q)
    BY <1>1, <2>1, <2>2, <2>3 DEF Purse
  <2> QED
    BY <2>1, <2>2, <2>4 DEF Conserving
<1> QED
  BY <1>2, <1>3 DEF SysCall

(* No interleaving of the threads' steps duplicates or loses tokens: what  *)
(* try_acquire_global_tokens takes out of global_leftover_tokens is what   *)
(* the thread gets, and what a thread gives up arrives in it.              *)
THEOREM TokensAreConserved == Spec => TokensConserved
<1>1. IInv /\ IInv' /\ [Next]_vars => [Conserving]_vars
  <2> SUFFICES ASSUME IInv, IInv', Next PROVE Conserving
    OBVIOUS
  <2>1. PICK t \in Threads : SysCall(t) \/ nvme_sched(t)
    BY DEF Next
  <2>2. CASE SysCall(t)
    BY <2>2, CallsConserve
  <2>3. CASE nvme_sched(t)
    BY <2>3, LocalStepsConserve, ServiceConserves
    DEF nvme_sched, Subround1, Subround2, UpdateVector
  <2> QED
    BY <2>1, <2>2, <2>3
<1> QED
  BY <1>1, InvariantHolds, PTL DEF Spec, TokensConserved
=============================================================================
