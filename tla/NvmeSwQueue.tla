----------------------------- MODULE NvmeSwQueue -----------------------------
(***************************************************************************)
(* The per-tenant software queue of NVMe requests (nvme/nvme_sw_queue.c):  *)
(* a ring of Size pointers with separate head, tail and element count, a   *)
(* running total of the token cost of the queued requests, and the tokens  *)
(* a best-effort tenant keeps from one scheduling round to the next.  All  *)
(* calls are made by the thread that owns the tenant, one at a time.       *)
(***************************************************************************)
EXTENDS TokenTotals

CONSTANTS Ctx,        \* request contexts (struct nvme_ctx)
          Cost,       \* ctx->req_cost
          Size,       \* NVME_SW_QUEUE_SIZE
          Offers,     \* arguments of nvme_sw_queue_save_tokens
          MaxSaved    \* bound on saved_tokens, for model checking

ASSUME SizeAssumption == Size \in Nat \ {0}
ASSUME CostAssumption == Cost \in [Ctx -> Nat]
ASSUME OffersAssumption == Offers \subseteq Nat

VARIABLES buf, count, head, tail, total_token_demand, saved_tokens,
          ret         \* result of the last call

vars == <<buf, count, head, tail, total_token_demand, saved_tokens, ret>>

EAGAIN == 11

Slots == 0..(Size-1)

(* nvme_sw_queue_init; the memory comes from a pool, so the slots hold     *)
(* whatever an earlier owner left there.                                   *)
Init ==
  /\ buf \in [Slots -> Ctx]
  /\ count = 0
  /\ head = 0
  /\ tail = 0
  /\ total_token_demand = 0
  /\ saved_tokens = 0
  /\ ret = [op |-> "init", err |-> 0]

PushBackFull ==
  /\ count = Size
  /\ ret' = [op |-> "push", err |-> -EAGAIN]
  /\ UNCHANGED <<buf, count, head, tail, total_token_demand, saved_tokens>>

(* Mutant: head runs off the end of the ring.                              *)
PushBackNoWrap(c) ==
  /\ count # Size
  /\ buf' = [buf EXCEPT ![head] = c]
  /\ head' = head + 1
  /\ count' = count + 1
  /\ total_token_demand' = total_token_demand + Cost[c]
  /\ ret' = [op |-> "push", err |-> 0]
  /\ UNCHANGED <<tail, saved_tokens>>

(* Mutant: head is advanced before the store.                              *)
PushBackLateStore(c) ==
  /\ count # Size
  /\ head' = (head + 1) % Size
  /\ buf' = [buf EXCEPT ![head'] = c]
  /\ count' = count + 1
  /\ total_token_demand' = total_token_demand + Cost[c]
  /\ ret' = [op |-> "push", err |-> 0]
  /\ UNCHANGED <<tail, saved_tokens>>

(* The store precedes the advance of head, modulo the size.                *)
PushBack(c) ==
  /\ count # Size
  /\ buf' = [buf EXCEPT ![head] = c]
  /\ head' = (head + 1) % Size
  /\ count' = count + 1
  /\ total_token_demand' = total_token_demand + Cost[c]
  /\ ret' = [op |-> "push", err |-> 0]
  /\ UNCHANGED <<tail, saved_tokens>>

PopFrontEmpty ==
  /\ count = 0
  /\ ret' = [op |-> "pop", err |-> -EAGAIN]
  /\ UNCHANGED <<buf, count, head, tail, total_token_demand, saved_tokens>>

(* Mutant: the demand is not reduced.                                      *)
PopFrontKeepDemand ==
  /\ count # 0
  /\ ret' = [op |-> "pop", err |-> 0, ctx |-> buf[tail]]
  /\ tail' = (tail + 1) % Size
  /\ count' = count - 1
  /\ UNCHANGED <<buf, head, total_token_demand, saved_tokens>>

(* Mutant: tail is not advanced.                                           *)
PopFrontKeepTail ==
  /\ count # 0
  /\ ret' = [op |-> "pop", err |-> 0, ctx |-> buf[tail]]
  /\ total_token_demand' = total_token_demand - Cost[buf[tail]]
  /\ count' = count - 1
  /\ UNCHANGED <<buf, head, tail, saved_tokens>>

PopFront ==
  /\ count # 0
  /\ ret' = [op |-> "pop", err |-> 0, ctx |-> buf[tail]]
  /\ total_token_demand' = total_token_demand - Cost[buf[tail]]
  /\ tail' = (tail + 1) % Size
  /\ count' = count - 1
  /\ UNCHANGED <<buf, head, saved_tokens>>

PeakHeadCost ==
  /\ ret' = [op |-> "peak", err |-> 0,
             cost |-> IF count = 0 THEN -1 ELSE Cost[buf[tail]]]
  /\ UNCHANGED <<buf, count, head, tail, total_token_demand, saved_tokens>>

(* The three branches of nvme_sw_queue_save_tokens.                        *)
Kept(tokens) ==
  CASE total_token_demand = 0      -> 0
    [] total_token_demand > tokens -> tokens
    [] OTHER                       -> total_token_demand

SaveTokens(tokens) ==
  /\ saved_tokens + Kept(tokens) <= MaxSaved
  /\ saved_tokens' = IF total_token_demand = 0
                     THEN 0 ELSE saved_tokens + Kept(tokens)
  /\ ret' = [op |-> "save", err |-> 0, tokens |-> Kept(tokens)]
  /\ UNCHANGED <<buf, count, head, tail, total_token_demand>>

TakeSavedTokens ==
  /\ ret' = [op |-> "take", err |-> 0, tokens |-> saved_tokens]
  /\ saved_tokens' = 0
  /\ UNCHANGED <<buf, count, head, tail, total_token_demand>>

Next ==
  \/ PushBackFull
  \/ \E c \in Ctx : PushBack(c)
  \/ PopFrontEmpty
  \/ PopFront
  \/ PeakHeadCost
  \/ \E n \in Offers : SaveTokens(n)
  \/ TakeSavedTokens

Spec == Init /\ [][Next]_vars

-----------------------------------------------------------------------------
(* The queued requests, oldest first.                                      *)
Contents == [i \in 1..count |-> buf[(tail + i - 1) % Size]]

CostsOf(q) == [i \in 1..Len(q) |-> Cost[q[i]]]

(* Every field has its type: the indices stay inside the ring and the      *)
(* unsigned counters stay natural numbers (nothing is subtracted below 0). *)
TypeOK ==
  /\ buf \in [Slots -> Ctx]
  /\ count \in 0..Size
  /\ head \in Slots
  /\ tail \in Slots
  /\ total_token_demand \in Nat
  /\ saved_tokens \in Nat

(* head, tail and count, which push and pop update independently, always   *)
(* describe one and the same window of the ring.                           *)
RingShape == head = (tail + count) % Size

(* The running total is the sum of the costs of the requests that are      *)
(* queued, whatever calls led here: what the scheduler reads as a tenant's *)
(* demand is neither stale nor drifting.                                   *)
DemandIsBacklog == total_token_demand = Total(CostsOf(Contents))

(* The ring with its running total implements the bounded FIFO of          *)
(* TokenQueue: same order, same results, same saved tokens.                *)
TQ == INSTANCE TokenQueue WITH queue <- Contents, saved <- saved_tokens

ImplementsTokenQueue == TQ!Spec
=============================================================================
