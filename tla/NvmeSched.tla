------------------------------ MODULE NvmeSched ------------------------------
(***************************************************************************)
(* The token scheduler of nvme/nvmedev.c.  Every dataplane thread runs     *)
(* nvme_sched once per poll: subround 1 serves its latency-critical (LC)   *)
(* tenants on credit and collects what they do not use, subround 2 serves  *)
(* its best-effort (BE) tenants round robin with tokens of this thread and *)
(* of the bucket that all threads share (global_leftover_tokens), and      *)
(* update_scheduled_bitvector empties the bucket once every thread has had *)
(* a turn.                                                                 *)
(*                                                                         *)
(* A thread's own data is touched by that thread only, so its loops are    *)
(* one step per iteration; every access to the bucket and to the shared    *)
(* vector is a step of its own.  A request is represented by its token     *)
(* cost, a software queue by the FIFO that NvmeSwQueue implements, whose   *)
(* total_token_demand is the sum of the costs in it.  Token amounts that   *)
(* the code computes as rate * time + 0.5 in floating point are counted in *)
(* half tokens before rounding.  A local variable is 0 out of its scope.   *)
(***************************************************************************)
EXTENDS TokenTotals

CONSTANTS NumThreads,   \* cpus_active
          Tenants,      \* flow groups
          Home,         \* the thread a tenant registers on
          LC,           \* the tenants with latency_critical_flag set
          Costs,        \* costs of a request (ctx->req_cost)
          Size,         \* NVME_SW_QUEUE_SIZE
          Deltas,       \* time between two rounds of a thread
          Rate2,        \* scaled_IOPuS_limit per tenant, half tokens per time
          BeRate2,      \* global_be_token_rate_per_tenant, likewise
          Limit,        \* TOKEN_DEFICIT_LIMIT
          InitList,     \* the tenants registered at first, per thread
          Churn,        \* whether tenants register and unregister later on
          MaxBucket     \* bound on the bucket for TLC, see Elapsed

Threads == 1..NumThreads
BE == Tenants \ LC

ASSUME ThreadsAssumption == NumThreads \in Nat \ {0}
ASSUME TenantsAssumption == Tenants # {} /\ LC \subseteq Tenants /\ Home \in [Tenants -> Threads]
ASSUME CostsAssumption == Costs \subseteq Nat
ASSUME SizeAssumption == Size \in Nat \ {0}
ASSUME DeltasAssumption == Deltas \subseteq Nat /\ 0 \in Deltas
ASSUME RatesAssumption == Rate2 \in [Tenants -> Nat] /\ BeRate2 \in Nat
ASSUME LimitAssumption == Limit \in Nat \ {0}
ASSUME InitListAssumption ==
  /\ InitList \in [Threads -> Seq(Tenants)]
  /\ \A t \in Threads : \A i, j \in 1..Len(InitList[t]) :
       /\ Home[InitList[t][i]] = t
       /\ InitList[t][i] = InitList[t][j] => i = j

VARIABLES
  list,      \* list[t]: tenant_swq, the thread's tenants in list order
  start,     \* start[t]: roundrobin_start, an index into list[t] from 0
  swq,       \* swq[q]: queue (costs, oldest first), saved_tokens, token_credit
  th,        \* th[t]: where thread t is in nvme_sched, and its local variables
  bucket,    \* global_leftover_tokens
  marked     \* marked[t]: scheduled_bit_vector[t] # 0

vars == <<list, start, swq, th, bucket, marked>>

Labels == {"poll", "lc", "lcserve", "gate", "read", "cas", "be", "beserve",
           "return", "mark", "scan", "reset", "clear"}

(* (long)(x + 0.5) and (long)(3 * (x + 0.5)), for x half tokens.           *)
Rounded(x) == (x + 1) \div 2
PosLimit(x) == (3 * (x + 1)) \div 2

(* TOKEN_FRAC_GIVEAWAY: nine tenths are donated, one tenth is kept, both   *)
(* rounded down.                                                           *)
Donation(c) == (9 * c) \div 10
Remainder(c) == c \div 10

(* Mutant: the loop over the tenants before the start is missing.          *)
InOrderNoSecond(s, r, k) == s[IF r + k > Len(s) THEN Len(s) ELSE r + k]

(* The tenant at position k of the round that starts at index r of s.      *)
InOrder(s, r, k) ==
  s[IF r < Len(s) /\ r + k > Len(s) THEN r + k - Len(s)
    ELSE IF r < Len(s) THEN r + k ELSE k]

LcTenant(t) == list[t][th[t].pos]
BeTenant(t) == InOrder(list[t], start[t], th[t].pos)

EmptySwq == [queue |-> <<>>, saved |-> 0, credit |-> 0]

Init ==
  /\ list = InitList
  /\ start = [t \in Threads |-> 0]
  /\ swq = [q \in Tenants |-> EmptySwq]
  /\ th = [t \in Threads |-> [pc |-> "poll", pos |-> 0, delta |-> 0, leftover |-> 0,
                              demand |-> 0, tokens |-> 0, avail |-> 0]]
  /\ bucket = 0
  /\ marked = [t \in Threads |-> FALSE]

-----------------------------------------------------------------------------
(* System calls of a poll: they run before nvme_sched on the same thread.  *)

Registered(q) == \E i \in 1..Len(list[Home[q]]) : list[Home[q]][i] = q

(* End of bsys_nvme_register_flow: a fresh software queue enters at the    *)
(* front of the list, and the round robin starts over.                     *)
AddTenant(t, q) ==
  /\ Churn /\ th[t].pc = "poll"
  /\ Home[q] = t /\ ~Registered(q)
  /\ list' = [list EXCEPT ![t] = <<q>> \o @]
  /\ start' = [start EXCEPT ![t] = 0]
  /\ swq' = [swq EXCEPT ![q] = EmptySwq]
  /\ UNCHANGED <<th, bucket, marked>>

(* list_del of the element at position i.                                  *)
Without(s, i) == [j \in 1..(Len(s)-1) |-> IF j < i THEN s[j] ELSE s[j+1]]


(* bsys_nvme_unregister_flow of the last connection: the software queue is *)
(* taken off the list and freed, with the requests and tokens still in it; *)
(* roundrobin_start stays.                                                 *)
DropTenant(t, q) ==
  /\ Churn /\ th[t].pc = "poll"
  /\ \E i \in 1..Len(list[t]) :
       list[t][i] = q /\ list' = [list EXCEPT ![t] = Without(@, i)]
  /\ swq' = [swq EXCEPT ![q] = EmptySwq]
  /\ UNCHANGED <<start, th, bucket, marked>>

(* bsys_nvme_read, write, readv, writev queue the request; a full queue    *)
(* makes them fail with -RET_NOMEM and changes nothing.                    *)
Enqueue(t, q, c) ==
  /\ th[t].pc = "poll"
  /\ Home[q] = t /\ Registered(q)
  /\ Len(swq[q].queue) < Size
  /\ swq' = [swq EXCEPT ![q].queue = Append(@, c)]
  /\ UNCHANGED <<list, start, th, bucket, marked>>

-----------------------------------------------------------------------------
(* nvme_sched and subround 1.                                              *)

Idle(t) == \A i \in 1..Len(list[t]) : swq[list[t][i]].queue = <<>>

(* The time since the last round.  For TLC, no time passes for an idle     *)
(* thread while the bucket is at its bound, nor for any at twice that.     *)
Elapsed(t) ==
  {d \in Deltas : bucket >= (IF Idle(t) THEN MaxBucket ELSE 2 * MaxBucket) => d = 0}

NoTenants(t) ==
  /\ th[t].pc = "poll" /\ list[t] = <<>>
  /\ th' = [th EXCEPT ![t].pc = "mark"]
  /\ UNCHANGED <<list, start, swq, bucket, marked>>

StartRound(t) ==
  /\ th[t].pc = "poll" /\ list[t] # <<>>
  /\ \E d \in Elapsed(t) :
       th' = [th EXCEPT ![t] = [@ EXCEPT !.pc = "lc", !.pos = 1, !.delta = d]]
  /\ UNCHANGED <<list, start, swq, bucket, marked>>

LcCredit(t) ==
  LET q == LcTenant(t)
  IN  /\ th[t].pc = "lc" /\ th[t].pos <= Len(list[t]) /\ q \in LC
      /\ swq' = [swq EXCEPT ![q].credit = @ + Rounded(Rate2[q] * th[t].delta)]
      /\ th' = [th EXCEPT ![t].pc = "lcserve"]
      /\ UNCHANGED <<list, start, bucket, marked>>

(* Mutant: no deficit limit.                                               *)
LcIssueUnlimited(t) ==
  LET q == LcTenant(t)
      c == swq[q].credit
  IN  /\ th[t].pc = "lcserve" /\ swq[q].queue # <<>>
      /\ swq' = [swq EXCEPT ![q] = [@ EXCEPT !.queue = Tail(swq[q].queue),
                                             !.credit = c - Head(swq[q].queue)]]
      /\ UNCHANGED <<list, start, th, bucket, marked>>

(* A request is issued as long as the deficit is below the limit.          *)
LcIssue(t) ==
  LET q == LcTenant(t)
      c == swq[q].credit
  IN  /\ th[t].pc = "lcserve"
      /\ swq[q].queue # <<>> /\ c > -Limit
      /\ swq' = [swq EXCEPT ![q] = [@ EXCEPT !.queue = Tail(swq[q].queue),
                                             !.credit = c - Head(swq[q].queue)]]
      /\ UNCHANGED <<list, start, th, bucket, marked>>

(* Mutant: one request per round, as if the loop were an if.               *)
LcDoneEarly(t) ==
  /\ th[t].pc = "lcserve"
  /\ th' = [th EXCEPT ![t] = [@ EXCEPT !.pc = "lc", !.pos = th[t].pos + 1]]
  /\ UNCHANGED <<list, start, swq, bucket, marked>>

(* Credit beyond about three rounds' worth is donated.                     *)
LcDone(t) ==
  LET q == LcTenant(t)
      c == swq[q].credit
      rich == c > PosLimit(Rate2[q] * th[t].delta)
      given == IF rich THEN Donation(c) ELSE 0
  IN  /\ th[t].pc = "lcserve"
      /\ swq[q].queue # <<>> => c <= -Limit
      /\ swq' = [swq EXCEPT ![q].credit = IF rich THEN Remainder(c) ELSE c]
      /\ th' = [th EXCEPT ![t] = [@ EXCEPT !.pc = "lc", !.pos = th[t].pos + 1,
                                           !.leftover = th[t].leftover + given]]
      /\ UNCHANGED <<list, start, bucket, marked>>

BeTally(t) ==
  LET q == LcTenant(t)
      want == Total(swq[q].queue) - swq[q].saved
  IN  /\ th[t].pc = "lc" /\ th[t].pos <= Len(list[t]) /\ q \in BE
      /\ th' = [th EXCEPT ![t] = [@ EXCEPT !.pos = th[t].pos + 1, !.demand = th[t].demand + want]]
      /\ UNCHANGED <<list, start, swq, bucket, marked>>

LcEnd(t) ==
  /\ th[t].pc = "lc" /\ th[t].pos > Len(list[t])
  /\ th' = [th EXCEPT ![t] = [@ EXCEPT !.pc = "gate", !.pos = 0, !.delta = 0]]
  /\ UNCHANGED <<list, start, swq, bucket, marked>>

-----------------------------------------------------------------------------
(* Subround 2: settle with the shared bucket, then serve the BE tenants.   *)

(* Read the clock and start the BE loop with n tokens in hand.             *)
EnterBe(t, n) ==
  \E d \in Elapsed(t) :
    th' = [th EXCEPT ![t] = [@ EXCEPT !.pc = "be", !.pos = 1, !.delta = d,
                                      !.leftover = 0, !.demand = 0, !.avail = 0,
                                      !.tokens = n]]

(* Nobody here wants tokens: they go to the bucket and the round ends.     *)
GiveAway(t) ==
  /\ th[t].pc = "gate" /\ th[t].leftover > 0 /\ th[t].demand = 0
  /\ bucket' = bucket + th[t].leftover
  /\ th' = [th EXCEPT ![t] = [@ EXCEPT !.pc = "mark", !.leftover = 0]]
  /\ UNCHANGED <<list, start, swq, marked>>

Enough(t) ==
  /\ th[t].pc = "gate"
  /\ th[t].leftover = 0 \/ th[t].demand > 0
  /\ th[t].leftover >= th[t].demand
  /\ EnterBe(t, th[t].leftover)
  /\ UNCHANGED <<list, start, swq, bucket, marked>>

(* try_acquire_global_tokens: read the level ...                           *)
ReadBucket(t) ==
  /\ \/ th[t].pc = "gate" /\ th[t].leftover < th[t].demand
     \/ th[t].pc = "read"
  /\ th' = [th EXCEPT ![t] = [@ EXCEPT !.pc = "cas", !.avail = bucket]]
  /\ UNCHANGED <<list, start, swq, bucket, marked>>

(* Mutant: the demand is taken although there is less than that.           *)
CasBucketOverdraw(t) ==
  LET taken == th[t].demand - th[t].leftover
  IN  /\ th[t].pc = "cas" /\ bucket = th[t].avail
      /\ bucket' = th[t].avail - taken
      /\ EnterBe(t, th[t].leftover + taken)
      /\ UNCHANGED <<list, start, swq, marked>>

(* Mutant: a plain store in place of the compare-and-swap.                 *)
CasBucketBlind(t) ==
  LET taken == Least(th[t].demand - th[t].leftover, th[t].avail)
  IN  /\ th[t].pc = "cas"
      /\ bucket' = th[t].avail - taken
      /\ EnterBe(t, th[t].leftover + taken)
      /\ UNCHANGED <<list, start, swq, marked>>

(* ... and take the demand, or all there is, if the level is still that.   *)
CasBucket(t) ==
  LET taken == Least(th[t].demand - th[t].leftover, th[t].avail)
  IN  /\ th[t].pc = "cas" /\ bucket = th[t].avail
      /\ bucket' = th[t].avail - taken
      /\ EnterBe(t, th[t].leftover + taken)
      /\ UNCHANGED <<list, start, swq, marked>>

CasFails(t) ==
  /\ th[t].pc = "cas" /\ bucket # th[t].avail
  /\ th' = [th EXCEPT ![t] = [@ EXCEPT !.pc = "read", !.avail = 0]]
  /\ UNCHANGED <<list, start, swq, bucket, marked>>

BeSkip(t) ==
  /\ th[t].pc = "be" /\ th[t].pos <= Len(list[t]) /\ BeTenant(t) \in LC
  /\ th' = [th EXCEPT ![t].pos = @ + 1]
  /\ UNCHANGED <<list, start, swq, bucket, marked>>

(* Mutant: the saved tokens are read but not taken.                        *)
BeTakeTwice(t) ==
  LET q == BeTenant(t)
      got == swq[q].saved + Rounded(BeRate2 * th[t].delta)
  IN  /\ th[t].pc = "be" /\ th[t].pos <= Len(list[t]) /\ q \in BE
      /\ th' = [th EXCEPT ![t] = [@ EXCEPT !.pc = "beserve", !.tokens = th[t].tokens + got]]
      /\ UNCHANGED <<list, start, swq, bucket, marked>>

(* The tenant's saved tokens and its share of the BE rate.                 *)
BeTake(t) ==
  LET q == BeTenant(t)
      got == swq[q].saved + Rounded(BeRate2 * th[t].delta)
  IN  /\ th[t].pc = "be" /\ th[t].pos <= Len(list[t]) /\ q \in BE
      /\ swq' = [swq EXCEPT ![q].saved = 0]
      /\ th' = [th EXCEPT ![t] = [@ EXCEPT !.pc = "beserve", !.tokens = th[t].tokens + got]]
      /\ UNCHANGED <<list, start, bucket, marked>>

BeIssue(t) ==
  LET q == BeTenant(t)
  IN  /\ th[t].pc = "beserve"
      /\ swq[q].queue # <<>> /\ Head(swq[q].queue) <= th[t].tokens
      /\ swq' = [swq EXCEPT ![q].queue = Tail(@)]
      /\ th' = [th EXCEPT ![t].tokens = @ - Head(swq[q].queue)]
      /\ UNCHANGED <<list, start, bucket, marked>>

(* Mutants: everything in hand is saved; the loop is left while a request  *)
(* can still be paid; nothing is saved.                                    *)
BeSaveAll(t) ==
  LET q == BeTenant(t)
  IN  /\ th[t].pc = "beserve"
      /\ swq[q].queue # <<>> => Head(swq[q].queue) > th[t].tokens
      /\ swq' = [swq EXCEPT ![q].saved = @ + th[t].tokens]
      /\ th' = [th EXCEPT ![t] = [@ EXCEPT !.pc = "be", !.pos = th[t].pos + 1,
                                           !.tokens = 0]]
      /\ UNCHANGED <<list, start, bucket, marked>>

BeSaveEarly(t) ==
  LET q == BeTenant(t)
      kept == Least(th[t].tokens, Total(swq[q].queue))
  IN  /\ th[t].pc = "beserve"
      /\ swq' = [swq EXCEPT ![q].saved = @ + kept]
      /\ th' = [th EXCEPT ![t] = [@ EXCEPT !.pc = "be", !.pos = th[t].pos + 1,
                                           !.tokens = th[t].tokens - kept]]
      /\ UNCHANGED <<list, start, bucket, marked>>


(* nvme_sw_queue_save_tokens: keep what the tenant still has demand for.   *)
BeSave(t) ==
  LET q == BeTenant(t)
      want == Total(swq[q].queue)
      kept == Least(th[t].tokens, want)
  IN  /\ th[t].pc = "beserve"
      /\ swq[q].queue # <<>> => Head(swq[q].queue) > th[t].tokens
      /\ swq' = [swq EXCEPT ![q].saved = IF want = 0 THEN 0 ELSE @ + kept]
      /\ th' = [th EXCEPT ![t] = [@ EXCEPT !.pc = "be", !.pos = th[t].pos + 1,
                                           !.tokens = th[t].tokens - kept]]
      /\ UNCHANGED <<list, start, bucket, marked>>

(* Indices, from 0, of the BE tenants of a thread, and how many increments *)
(* modulo num_tenants lead from index r to index i.                        *)
BeIndices(t) == {i \in 0..(Len(list[t]) - 1) : list[t][i+1] \in BE}
Ahead(n, r, i) == LET s == r % n IN IF i > s THEN i - s ELSE i + n - s

(* Mutant: the search for the next start begins at the head of the list.   *)
NextStartFirst(t) ==
  /\ th[t].pc = "be" /\ th[t].pos > Len(list[t])
  /\ \/ BeIndices(t) = {} /\ UNCHANGED start
     \/ \E i \in BeIndices(t) :
          /\ \A j \in BeIndices(t) : i <= j
          /\ start' = [start EXCEPT ![t] = i]
  /\ th' = [th EXCEPT ![t] = [@ EXCEPT !.pc = "return", !.pos = 0, !.delta = 0]]
  /\ UNCHANGED <<list, swq, bucket, marked>>

(* The next round starts at the next BE tenant in list order.  (A thread   *)
(* with num_best_effort_tenants > 0 and no BE tenant on its list would     *)
(* search forever; see FlowRegistry.)                                      *)
NextStart(t) ==
  LET n == Len(list[t])
  IN  /\ th[t].pc = "be" /\ th[t].pos > n
      /\ \/ BeIndices(t) = {} /\ UNCHANGED start
         \/ \E i \in BeIndices(t) :
              /\ \A j \in BeIndices(t) : Ahead(n, start[t], i) <= Ahead(n, start[t], j)
              /\ start' = [start EXCEPT ![t] = i]
      /\ th' = [th EXCEPT ![t] = [@ EXCEPT !.pc = "return", !.pos = 0, !.delta = 0]]
      /\ UNCHANGED <<list, swq, bucket, marked>>

ReturnTokens(t) ==
  /\ th[t].pc = "return"
  /\ bucket' = bucket + th[t].tokens
  /\ th' = [th EXCEPT ![t] = [@ EXCEPT !.pc = "mark", !.tokens = 0]]
  /\ UNCHANGED <<list, start, swq, marked>>

-----------------------------------------------------------------------------
(* update_scheduled_bitvector, without atomicity: other threads may mark,  *)
(* scan and clear between any two of these steps.                          *)

(* Mutant: the mark is flipped rather than set.                            *)
MarkFlip(t) ==
  /\ th[t].pc = "mark"
  /\ marked' = [marked EXCEPT ![t] = ~@]
  /\ th' = [th EXCEPT ![t] = [@ EXCEPT !.pc = "scan", !.pos = 1]]
  /\ UNCHANGED <<list, start, swq, bucket>>

Mark(t) ==
  /\ th[t].pc = "mark"
  /\ marked' = [marked EXCEPT ![t] = TRUE]
  /\ th' = [th EXCEPT ![t] = [@ EXCEPT !.pc = "scan", !.pos = 1]]
  /\ UNCHANGED <<list, start, swq, bucket>>

Scan(t) ==
  LET i == th[t].pos
  IN  /\ th[t].pc = "scan"
      /\ th' = IF i > NumThreads THEN [th EXCEPT ![t] = [@ EXCEPT !.pc = "reset",
                                                                  !.pos = 0]]
               ELSE IF marked[i] THEN [th EXCEPT ![t].pos = i + 1]
               ELSE [th EXCEPT ![t] = [@ EXCEPT !.pc = "poll", !.pos = 0]]
      /\ UNCHANGED <<list, start, swq, bucket, marked>>

Reset(t) ==
  /\ th[t].pc = "reset"
  /\ bucket' = 0
  /\ th' = [th EXCEPT ![t] = [@ EXCEPT !.pc = "clear", !.pos = 1]]
  /\ UNCHANGED <<list, start, swq, marked>>

Clear(t) ==
  LET i == th[t].pos
  IN  /\ th[t].pc = "clear"
      /\ marked' = [marked EXCEPT ![i] = FALSE]
      /\ th' = IF i = NumThreads THEN [th EXCEPT ![t] = [@ EXCEPT !.pc = "poll",
                                                                  !.pos = 0]]
                                 ELSE [th EXCEPT ![t].pos = i + 1]
      /\ UNCHANGED <<list, start, swq, bucket>>

-----------------------------------------------------------------------------
SysCall(t) ==
  \/ \E q \in Tenants : AddTenant(t, q) \/ DropTenant(t, q)
  \/ \E q \in Tenants, c \in Costs : Enqueue(t, q, c)

Subround1(t) ==
  \/ LcCredit(t) \/ LcIssue(t) \/ LcDone(t) \/ BeTally(t) \/ LcEnd(t)

Subround2(t) ==
  \/ GiveAway(t) \/ Enough(t) \/ ReadBucket(t) \/ CasBucket(t) \/ CasFails(t)
  \/ BeSkip(t) \/ BeTake(t) \/ BeIssue(t) \/ BeSave(t)
  \/ NextStart(t) \/ ReturnTokens(t)

UpdateVector(t) == Mark(t) \/ Scan(t) \/ Reset(t) \/ Clear(t)

nvme_sched(t) ==
  NoTenants(t) \/ StartRound(t) \/ Subround1(t) \/ Subround2(t) \/ UpdateVector(t)

Next == \E t \in Threads : SysCall(t) \/ nvme_sched(t)

Spec == Init /\ [][Next]_vars

-----------------------------------------------------------------------------
(* Every variable has its type.  In particular the unsigned amounts of the *)
(* code (the demand, the tokens in hand, the bucket) never go below zero.  *)
TypeOK ==
  /\ list \in [Threads -> Seq(Tenants)]
  /\ start \in [Threads -> Nat]
  /\ swq \in [Tenants -> [queue : Seq(Costs), saved : Nat, credit : Int]]
  /\ th \in [Threads -> [pc : Labels, pos : Nat, delta : Nat, leftover : Nat,
                         demand : Nat, tokens : Nat, avail : Nat]]
  /\ bucket \in Nat
  /\ marked \in [Threads -> BOOLEAN]

(* A tenant never has more tokens saved than its queued requests cost, so  *)
(* total_token_demand - saved_tokens, an unsigned subtraction that every   *)
(* round makes, cannot wrap around.                                        *)
SavedWithinDemand == \A q \in Tenants : swq[q].saved <= Total(swq[q].queue)

(* A tenant sits on saved tokens only because they do not pay for its next *)
(* request: nothing it could spend is left unspent at the end of a round.  *)
SavedIsUnaffordable ==
  \A q \in Tenants :
    swq[q].queue # <<>> => swq[q].saved < Head(swq[q].queue) \/ swq[q].saved = 0

(* An LC tenant may run into debt, but only by the last request that was   *)
(* issued above the deficit limit.                                         *)
DeficitBounded ==
  \A q \in Tenants : swq[q].credit > -Limit \/ \E c \in Costs : swq[q].credit + c > -Limit

(* While a thread serves BE tenants, its LC tenants have nothing left that *)
(* they could issue: BE traffic never overtakes LC traffic of the thread.  *)
LcBeforeBe ==
  \A t \in Threads : th[t].pc \in {"gate", "read", "cas", "be", "beserve"} =>
    \A i \in 1..Len(list[t]) : list[t][i] \in LC =>
      swq[list[t][i]].queue = <<>> \/ swq[list[t][i]].credit <= -Limit

(* What the tenant q, the thread t and the bucket hold together.           *)
Purse(t, q) == bucket + th[t].leftover + th[t].tokens + swq[q].saved

(* What a step of thread t creates: a BE share when a BE tenant is taken   *)
(* up, a donation when an LC tenant is done (never more than its credit).  *)
Created(t, q) ==
  IF th[t].pc = "be" /\ th'[t].pc = "beserve" THEN Rounded(BeRate2 * th[t].delta)
  ELSE IF th[t].pc = "lcserve" /\ th'[t].pc = "lc"
  THEN th'[t].leftover - th[t].leftover ELSE 0

(* What it uses up: the cost of a BE request, a bucket reset, a tenant     *)
(* that leaves with its savings.                                           *)
Used(t, q) ==
  IF th[t].pc = "beserve" /\ swq'[q].queue # swq[q].queue THEN Head(swq[q].queue)
  ELSE IF th[t].pc = "reset" THEN bucket
  ELSE IF list'[t] # list[t] THEN swq[q].saved ELSE 0

(* Tokens move between tenants, threads and the bucket but are neither     *)
(* duplicated nor lost, however the steps of the threads interleave: every *)
(* step is of one thread and at most one tenant, and changes what they and *)
(* the bucket hold by what it creates and uses.                            *)
Conserving ==
  \E t \in Threads, q \in Tenants :
    /\ \A u \in Threads \ {t} : th'[u] = th[u]
    /\ \A p \in Tenants \ {q} : swq'[p].saved = swq[p].saved
    /\ Purse(t, q)' = Purse(t, q) + Created(t, q) - Used(t, q)
    /\ th[t].pc = "lcserve" => Created(t, q) + swq'[q].credit <= swq[q].credit

TokensConserved == [][Conserving]_vars

(* A round takes up every tenant on the list, also when roundrobin_start   *)
(* was left beyond the end of a list that has become shorter.              *)
RoundServesAll ==
  \A t \in Threads :
    LET n == Len(list[t])
    IN  \A i \in 1..n : \E k \in 1..n : InOrder(list[t], start[t], k) = list[t][i]

-----------------------------------------------------------------------------
(***************************************************************************)
(* Liveness.  A dataplane thread polls for ever, so each thread keeps      *)
(* taking steps of nvme_sched.  Two more assumptions are not guaranteed by *)
(* the code but by the pace at which it runs: the compare-and-swap of a    *)
(* thread does not fail for ever, and the time between rounds is, again    *)
(* and again, long enough for a share to be rounded to at least one token. *)
(***************************************************************************)
Timely(t) ==
  /\ StartRound(t) \/ Enough(t) \/ CasBucket(t)
  /\ th'[t].delta # 0

Fairness ==
  \A t \in Threads :
    /\ WF_vars(nvme_sched(t))
    /\ SF_vars(StartRound(t) /\ Timely(t))
    /\ SF_vars((Enough(t) \/ CasBucket(t)) /\ Timely(t))

LiveSpec == Spec /\ Fairness


(* The unsynchronised vector does not lose so many marks that the bucket   *)
(* is never emptied: accumulation of BE tokens stays limited.              *)
BucketEmptiedAgain == []<>(\E t \in Threads : th[t].pc = "clear")

(* Every BE tenant of a thread is first in line again and again.           *)
EveryoneFirst ==
  \A q \in BE : []<>(Registered(q) => InOrder(list[Home[q]], start[Home[q]], 1) = q)
=============================================================================
