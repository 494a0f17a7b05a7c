------------------------------ MODULE TokenQueue ------------------------------
(***************************************************************************)
(* What a software queue of NVMe requests promises to the scheduler: a     *)
(* bounded FIFO of requests, whose token demand is the sum of the costs of *)
(* the requests in it, next to a purse of saved tokens.  ret is the result *)
(* of the last call.  NvmeSwQueue implements this with a ring buffer and a *)
(* running total.                                                          *)
(***************************************************************************)
EXTENDS TokenTotals

CONSTANTS Ctx,        \* request contexts
          Cost,       \* the token cost of each context
          Size,       \* capacity of the queue
          Offers,     \* numbers of tokens the scheduler may offer to save
          MaxSaved    \* bound on the purse, for model checking

VARIABLES queue, saved, ret

tqvars == <<queue, saved, ret>>

EAGAIN == 11

CostsOf(q) == [i \in 1..Len(q) |-> Cost[q[i]]]

Demand == Total(CostsOf(queue))

Init ==
  /\ queue = <<>>
  /\ saved = 0
  /\ ret = [op |-> "init", err |-> 0]

Push(c) ==
  /\ \/ /\ Len(queue) < Size
        /\ queue' = Append(queue, c)
        /\ ret' = [op |-> "push", err |-> 0]
     \/ /\ Len(queue) = Size
        /\ ret' = [op |-> "push", err |-> -EAGAIN]
        /\ UNCHANGED queue
  /\ UNCHANGED saved

Pop ==
  /\ \/ /\ queue # <<>>
        /\ ret' = [op |-> "pop", err |-> 0, ctx |-> Head(queue)]
        /\ queue' = Tail(queue)
     \/ /\ queue = <<>>
        /\ ret' = [op |-> "pop", err |-> -EAGAIN]
        /\ UNCHANGED queue
  /\ UNCHANGED saved

PeakCost ==
  /\ ret' = [op |-> "peak", err |-> 0,
             cost |-> IF queue = <<>> THEN -1 ELSE Cost[Head(queue)]]
  /\ UNCHANGED <<queue, saved>>

(* Never more than the demand is taken out of an offer.                    *)
Save(n) ==
  /\ saved + Least(n, Demand) <= MaxSaved
  /\ saved' = IF Demand = 0 THEN 0 ELSE saved + Least(n, Demand)
  /\ ret' = [op |-> "save", err |-> 0, tokens |-> Least(n, Demand)]
  /\ UNCHANGED queue

TakeSaved ==
  /\ ret' = [op |-> "take", err |-> 0, tokens |-> saved]
  /\ saved' = 0
  /\ UNCHANGED queue

Next ==
  \/ \E c \in Ctx : Push(c)
  \/ Pop
  \/ PeakCost
  \/ \E n \in Offers : Save(n)
  \/ TakeSaved

Spec == Init /\ [][Next]_tqvars
=============================================================================
