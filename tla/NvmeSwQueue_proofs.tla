-------------------------- MODULE NvmeSwQueue_proofs --------------------------
(***************************************************************************)
(* Proofs about the ring of NvmeSwQueue, for every capacity, every set of  *)
(* requests and every cost assignment.                                     *)
(***************************************************************************)
EXTENDS NvmeSwQueue, TokenTotals_proofs, TLAPS

(* The inductive invariant: the fields are in range, they describe one     *)
(* window, and the running total is the sum over that window (which is     *)
(* well defined, see TokenTotals_proofs).                                  *)
IInv ==
  /\ TypeOK
  /\ RingShape
  /\ Summable(CostsOf(Contents))
  /\ DemandIsBacklog

-----------------------------------------------------------------------------
(* Modulo the capacity, an index less than twice the capacity wraps at     *)
(* most once.                                                              *)
LEMMA WrapOnce ==
  ASSUME NEW a \in 0..(2*Size - 1)
  PROVE  a % Size = IF a < Size THEN a ELSE a - Size
<1>1. Size \in Nat \ {0}
  BY SizeAssumption
<1>2. CASE a < Size
  BY <1>1, <1>2
<1>3. CASE a >= Size
  BY <1>1, <1>3
<1> QED
  BY <1>1, <1>2, <1>3

(* The contents are a sequence of requests of length count.                *)
LEMMA ContentsType ==
  ASSUME TypeOK
  PROVE  /\ Contents \in Seq(Ctx)
         /\ Len(Contents) = count
         /\ DOMAIN Contents = 1..count
         /\ \A i \in 1..count :
              /\ tail + i - 1 \in 0..(2*Size - 1)
              /\ (tail + i - 1) % Size \in Slots
              /\ Contents[i] = buf[(tail + i - 1) % Size]
<1> USE SizeAssumption DEF TypeOK, Slots
<1>1. ASSUME NEW i \in 1..count
      PROVE  tail + i - 1 \in 0..(2*Size - 1) /\ (tail + i - 1) % Size \in Slots
  <2>1. tail + i - 1 \in 0..(2*Size - 1)
    OBVIOUS
  <2> QED
    BY <2>1, WrapOnce
<1>2. \A i \in 1..count : buf[(tail + i - 1) % Size] \in Ctx
  BY <1>1
<1>3. count \in Nat
  OBVIOUS
<1> QED
  BY <1>1, <1>2, <1>3 DEF Contents

(* Costs of a sequence of requests: a sequence of natural numbers, built   *)
(* and taken apart together with the sequence.                             *)
LEMMA CostsOfSeq ==
  ASSUME NEW q \in Seq(Ctx)
  PROVE  /\ CostsOf(q) \in Seq(Nat)
         /\ Len(CostsOf(q)) = Len(q)
         /\ \A i \in 1..Len(q) : CostsOf(q)[i] = Cost[q[i]]
  BY CostAssumption DEF CostsOf

(* The costs after nvme_sw_queue_push_back: one more cost at the end.      *)
LEMMA CostsOfAppend ==
  ASSUME NEW q \in Seq(Ctx), NEW c \in Ctx
  PROVE  CostsOf(Append(q, c)) = Append(CostsOf(q), Cost[c])
<1> DEFINE qc == Append(q, c)
           z == CostsOf(q)
           x == CostsOf(qc)
           y == Append(z, Cost[c])
           n == Len(q)
<1>1. /\ n \in Nat /\ qc \in Seq(Ctx) /\ Len(qc) = n + 1
      /\ qc[n+1] = c /\ \A i \in 1..n : qc[i] = q[i]
  OBVIOUS
<1>2. z \in Seq(Nat) /\ Len(z) = n /\ \A i \in 1..n : z[i] = Cost[q[i]]
  BY CostsOfSeq
<1> HIDE DEF qc, z
<1>3. x \in Seq(Nat) /\ Len(x) = n + 1 /\ \A i \in 1..(n+1) : x[i] = Cost[qc[i]]
  BY <1>1, CostsOfSeq
<1>4. Cost[c] \in Nat
  BY CostAssumption
<1>5. /\ y \in Seq(Nat) /\ Len(y) = n + 1
      /\ y[n+1] = Cost[c] /\ \A i \in 1..n : y[i] = z[i]
  BY <1>1, <1>2, <1>4
<1> HIDE DEF x, y
<1>6. ASSUME NEW i \in 1..(n+1)
      PROVE  x[i] = y[i]
  <2> HIDE DEF n
  <2>1. CASE i = n + 1
    BY <2>1, <1>1, <1>3, <1>5
  <2>2. CASE i \in 1..n
    <3>1. x[i] = Cost[qc[i]] /\ qc[i] = q[i] /\ y[i] = z[i]
      BY <2>2, <1>1, <1>3, <1>5
    <3>2. z[i] = Cost[q[i]]
      BY <2>2, <1>2
    <3> QED
      BY <3>1, <3>2
  <2> QED
    BY <2>1, <2>2, <1>1
<1>7. x = y
  BY <1>3, <1>5, <1>6, SeqEqual
<1> QED
  BY <1>7 DEF x, y, z, qc

(* The costs after nvme_sw_queue_pop_front: all but the first.             *)
LEMMA CostsOfTail ==
  ASSUME NEW q \in Seq(Ctx), q # <<>>
  PROVE  /\ CostsOf(Tail(q)) = Tail(CostsOf(q))
         /\ CostsOf(q) # <<>>
         /\ Head(CostsOf(q)) = Cost[Head(q)]
<1> DEFINE tq == Tail(q)
           z == CostsOf(q)
           x == CostsOf(tq)
           y == Tail(z)
           n == Len(q)
<1>1. /\ n \in Nat \ {0} /\ tq \in Seq(Ctx) /\ Len(tq) = n - 1
      /\ Head(q) = q[1] /\ \A i \in 1..(n-1) : tq[i] = q[i+1]
  OBVIOUS
<1>2. z \in Seq(Nat) /\ Len(z) = n /\ \A i \in 1..n : z[i] = Cost[q[i]]
  BY CostsOfSeq
<1> HIDE DEF tq, z
<1>3. z # <<>> /\ Head(z) = Cost[Head(q)]
  BY <1>1, <1>2
<1>4. x \in Seq(Nat) /\ Len(x) = n - 1 /\ \A i \in 1..(n-1) : x[i] = Cost[tq[i]]
  BY <1>1, CostsOfSeq
<1>5. y \in Seq(Nat) /\ Len(y) = n - 1 /\ \A i \in 1..(n-1) : y[i] = z[i+1]
  BY <1>1, <1>2, <1>3
<1> HIDE DEF x, y
<1>6. ASSUME NEW i \in 1..(n-1)
      PROVE  x[i] = y[i]
  <2> HIDE DEF n
  <2>1. i+1 \in 1..n
    BY <1>1
  <2>2. x[i] = Cost[tq[i]] /\ tq[i] = q[i+1] /\ y[i] = z[i+1]
    BY <1>1, <1>4, <1>5
  <2>3. z[i+1] = Cost[q[i+1]]
    BY <2>1, <1>2
  <2> QED
    BY <2>2, <2>3
<1>7. x = y
  BY <1>4, <1>5, <1>6, SeqEqual
<1> QED
  BY <1>3, <1>7 DEF x, y, z, tq

-----------------------------------------------------------------------------
(* nvme_sw_queue_push_back appends to the contents.                        *)
LEMMA PushContents ==
  ASSUME TypeOK, RingShape, NEW c \in Ctx, PushBack(c)
  PROVE  /\ TypeOK'
         /\ RingShape'
         /\ Contents' = Append(Contents, c)
<1> DEFINE slot(i) == (tail + i - 1) % Size
<1>1. /\ Size \in Nat \ {0} /\ count \in 0..(Size-1) /\ tail \in 0..(Size-1)
      /\ head \in 0..(Size-1) /\ count' = count + 1 /\ tail' = tail
  BY SizeAssumption DEF TypeOK, PushBack, Slots
<1>2. head = IF tail + count < Size THEN tail + count ELSE tail + count - Size
  <2>1. tail + count \in 0..(2*Size - 1)
    BY <1>1
  <2> QED
    BY <2>1, WrapOnce, <1>1, SMT DEF RingShape
<1>3. head' = IF head + 1 < Size THEN head + 1 ELSE 0
  <2>1. head + 1 \in 0..(2*Size - 1)
    BY <1>1
  <2>2. head' = IF head + 1 < Size THEN head + 1 ELSE head + 1 - Size
    BY <2>1, WrapOnce, <1>1, SMT DEF PushBack
  <2> QED
    BY <2>2, <1>1
<1>4. TypeOK'
  <2>1. buf' \in [Slots -> Ctx] /\ saved_tokens' \in Nat
    BY DEF TypeOK, PushBack
  <2>2. total_token_demand' \in Nat
    BY CostAssumption DEF TypeOK, PushBack
  <2> QED
    BY <2>1, <2>2, <1>1, <1>3 DEF TypeOK, Slots
<1>5. RingShape'
  <2>1. tail + (count + 1) \in 0..(2*Size - 1)
    BY <1>1
  <2>2. (tail + (count + 1)) % Size = IF tail + (count + 1) < Size
            THEN tail + (count + 1) ELSE tail + (count + 1) - Size
    BY <2>1, WrapOnce, <1>1, SMT
  <2> QED
    BY <2>2, <1>1, <1>2, <1>3 DEF RingShape
<1>6. Contents' = Append(Contents, c)
  <2>1. ASSUME NEW i \in 1..count
        PROVE  slot(i) # head /\ slot(i) \in Slots
    <3>1. tail + i - 1 \in 0..(2*Size - 1)
      BY <1>1
    <3>2. slot(i) = IF tail + i - 1 < Size THEN tail + i - 1 ELSE tail + i - 1 - Size
      BY <3>1, WrapOnce, <1>1, SMT
    <3> QED
      BY <3>2, <1>1, <1>2 DEF Slots
  <2>2. slot(count + 1) = head
    BY <1>1 DEF RingShape
  <2>3. buf' = [buf EXCEPT ![head] = c] /\ buf \in [Slots -> Ctx] /\ head \in Slots
    BY DEF PushBack, TypeOK
  <2> HIDE DEF slot
  <2>4. buf'[slot(count+1)] = c /\ \A i \in 1..count : buf'[slot(i)] = buf[slot(i)]
    BY <2>1, <2>2, <2>3
  <2>5. Contents' = [i \in 1..(count+1) |-> buf'[slot(i)]]
    BY <1>1 DEF Contents, slot
  <2>6. Contents = [i \in 1..count |-> buf[slot(i)]]
    BY DEF Contents, slot
  <2>7. \A i \in 1..count : buf[slot(i)] \in Ctx
    BY <2>1, <2>3
  <2>8. count \in Nat
    BY <1>1
  <2> DEFINE x == [i \in 1..(count+1) |-> buf'[slot(i)]]
             y == Append([i \in 1..count |-> buf[slot(i)]], c)
  <2>9. x \in Seq(Ctx) /\ Len(x) = count + 1
    BY <2>4, <2>7, <2>8
  <2>10. y \in Seq(Ctx) /\ Len(y) = count + 1
    BY <2>7, <2>8
  <2>11. ASSUME NEW i \in 1..(count+1)
         PROVE  x[i] = y[i]
    BY <2>4, <2>7, <2>8
  <2> HIDE DEF x, y
  <2>12. x = y
    BY <2>9, <2>10, <2>11, SeqEqual
  <2> QED
    BY <2>5, <2>6, <2>12 DEF x, y
<1> QED
  BY <1>4, <1>5, <1>6

(* nvme_sw_queue_pop_front removes the oldest request.                     *)
LEMMA PopContents ==
  ASSUME TypeOK, RingShape, PopFront
  PROVE  /\ count' \in 0..Size /\ tail' \in Slots
         /\ RingShape'
         /\ Contents # <<>>
         /\ Head(Contents) = buf[tail]
         /\ Contents' = Tail(Contents)
<1> DEFINE slot(i) == (tail + i - 1) % Size
<1>1. /\ Size \in Nat \ {0} /\ count \in 1..Size /\ tail \in 0..(Size-1)
      /\ head \in 0..(Size-1) /\ count' = count - 1 /\ head' = head
      /\ buf' = buf /\ tail' = (tail + 1) % Size
  BY SizeAssumption DEF TypeOK, PopFront, Slots
<1>2. tail' = IF tail + 1 < Size THEN tail + 1 ELSE 0
  <2>1. tail + 1 \in 0..(2*Size - 1)
    BY <1>1
  <2>2. tail' = IF tail + 1 < Size THEN tail + 1 ELSE tail + 1 - Size
    BY <2>1, WrapOnce, <1>1, SMT
  <2> QED
    BY <2>2, <1>1
<1>3. count' \in 0..Size /\ tail' \in Slots
  BY <1>1, <1>2 DEF Slots
<1>4. ASSUME NEW i \in 1..count
      PROVE  (tail' + i - 1) % Size = (tail + i) % Size
  <2>1. tail + i \in 0..(2*Size - 1) /\ tail \in Nat /\ i \in Nat
    BY <1>1
  <2>2. (tail + i) % Size = IF tail + i < Size THEN tail + i ELSE tail + i - Size
    BY <2>1, WrapOnce, SizeAssumption, SMT
  <2>3. CASE tail + 1 < Size
    <3>1. tail' + i - 1 = tail + i
      BY <2>3, <1>1, <1>2
    <3> QED
      BY <3>1
  <2>4. CASE tail + 1 >= Size
    <3>1. tail = Size - 1 /\ tail' = 0 /\ tail' + i - 1 = i - 1
      BY <2>4, <1>1, <1>2
    <3>2. i - 1 \in 0..(2*Size - 1) /\ i - 1 < Size
      BY <1>1
    <3>3. (i - 1) % Size = i - 1
      BY <3>2, WrapOnce, <1>1, SMT
    <3> QED
      BY <3>1, <3>3, <2>2, <1>1
  <2> QED
    BY <2>3, <2>4, <1>1
<1>5. RingShape'
  <2>1. head' = (tail + count) % Size
    BY <1>1 DEF RingShape
  <2>2. (tail' + count - 1) % Size = (tail + count) % Size
    BY <1>1, <1>4
  <2>3. tail' + count - 1 = tail' + count'
    BY <1>1, <1>2
  <2> QED
    BY <2>1, <2>2, <2>3 DEF RingShape
<1>6. Contents \in Seq(Ctx) /\ Len(Contents) = count
  BY ContentsType
<1>7. Contents # <<>> /\ Head(Contents) = buf[tail]
  <2>1. Contents[1] = buf[(tail + 1 - 1) % Size]
    BY <1>1, ContentsType
  <2>2. (tail + 1 - 1) = tail /\ tail \in 0..(2*Size - 1) /\ tail < Size
    BY <1>1
  <2>3. tail % Size = tail
    BY <2>2, WrapOnce, <1>1, SMT
  <2>4. Contents # <<>>
    BY <1>6, <1>1
  <2> QED
    BY <2>1, <2>2, <2>3, <2>4, <1>6
<1>8. Contents' = Tail(Contents)
  <2> DEFINE x == [i \in 1..(count-1) |-> buf[(tail + i) % Size]]
             z == Contents
             y == Tail(z)
  <2>1. Contents' = x
    <3>1. Contents' = [i \in 1..count' |-> buf'[(tail' + i - 1) % Size]]
      BY DEF Contents
    <3>2. \A i \in 1..(count-1) : (tail' + i - 1) % Size = (tail + i) % Size
      BY <1>1, <1>4
    <3> QED
      BY <3>1, <3>2, <1>1
  <2>2. ASSUME NEW i \in 1..(count-1)
        PROVE  z[i+1] = buf[(tail + i) % Size] /\ z[i+1] \in Ctx
    <3>1. i+1 \in 1..count /\ tail + (i+1) - 1 = tail + i
      BY <1>1
    <3>2. z[i+1] = buf[(tail + (i+1) - 1) % Size]
      BY <3>1, ContentsType
    <3>3. z[i+1] \in Ctx
      BY <3>1, <1>6
    <3> QED
      BY <3>1, <3>2, <3>3
  <2>3. count - 1 \in Nat
    BY <1>1
  <2>4. x \in Seq(Ctx) /\ Len(x) = count - 1 /\ \A i \in 1..(count-1) : x[i] = z[i+1]
    BY <2>2, <2>3
  <2> HIDE DEF z
  <2>5. y \in Seq(Ctx) /\ Len(y) = count - 1 /\ \A i \in 1..(count-1) : y[i] = z[i+1]
    BY <1>6, <1>7 DEF z
  <2> HIDE DEF x, y
  <2>6. x = y
    BY <2>4, <2>5, SeqEqual
  <2> QED
    BY <2>1, <2>6 DEF y, z
<1> QED
  BY <1>3, <1>5, <1>7, <1>8

-----------------------------------------------------------------------------
(* nvme_sw_queue_init establishes the inductive invariant.                 *)
LEMMA InitInv == Init => IInv
<1> SUFFICES ASSUME Init PROVE IInv
  OBVIOUS
<1>1. Size \in Nat \ {0} /\ 0 \in Slots
  BY SizeAssumption DEF Slots
<1>2. TypeOK
  BY <1>1 DEF Init, TypeOK
<1>3. RingShape
  <2>1. 0 \in 0..(2*Size - 1) /\ 0 < Size
    BY <1>1
  <2>2. 0 % Size = 0
    BY <2>1, WrapOnce, <1>1, SMT
  <2> QED
    BY <2>2 DEF RingShape, Init
<1>4. Contents = <<>>
  BY ContentsType, <1>2 DEF Init
<1>5. CostsOf(Contents) = <<>>
  BY <1>4 DEF CostsOf
<1> QED
  BY <1>2, <1>3, <1>5, TotalEmpty DEF IInv, DemandIsBacklog, Init

(* Steps that leave the ring alone.                                        *)
LEMMA SameRing ==
  ASSUME IInv, UNCHANGED <<buf, count, head, tail, total_token_demand>>,
         saved_tokens' \in Nat
  PROVE  IInv'
<1>1. TypeOK' /\ RingShape'
  BY DEF IInv, TypeOK, RingShape
<1>2. Contents' = Contents
  BY DEF Contents
<1>3. CostsOf(Contents)' = CostsOf(Contents)
  BY <1>2 DEF CostsOf
<1> QED
  BY <1>1, <1>3 DEF IInv, DemandIsBacklog

(* nvme_sw_queue_save_tokens keeps the lesser of the offer and the demand. *)
LEMMA KeptNat ==
  ASSUME TypeOK, NEW n \in Nat
  PROVE  Kept(n) \in Nat /\ Kept(n) = Least(n, total_token_demand)
  BY DEF TypeOK, Kept, Least

(* Every call of nvme_sw_queue.c preserves the inductive invariant.        *)
LEMMA NextInv == IInv /\ [Next]_vars => IInv'
<1> SUFFICES ASSUME IInv, [Next]_vars PROVE IInv'
  OBVIOUS
<1> USE DEF IInv
<1>0. TypeOK /\ RingShape /\ Contents \in Seq(Ctx)
  BY ContentsType
<1>1. ASSUME NEW c \in Ctx, PushBack(c)
      PROVE  IInv'
  <2>1. TypeOK' /\ RingShape' /\ Contents' = Append(Contents, c)
    BY <1>0, <1>1, PushContents
  <2>2. CostsOf(Contents)' = Append(CostsOf(Contents), Cost[c])
    <3>1. CostsOf(Contents)' = CostsOf(Append(Contents, c))
      BY <2>1 DEF CostsOf
    <3> QED
      BY <3>1, <1>0, CostsOfAppend
  <2>3. CostsOf(Contents) \in Seq(Nat) /\ Cost[c] \in Nat
    BY <1>0, CostsOfSeq, CostAssumption
  <2>4. /\ Summable(Append(CostsOf(Contents), Cost[c]))
        /\ Total(Append(CostsOf(Contents), Cost[c])) = Total(CostsOf(Contents)) + Cost[c]
    BY <2>3, TotalAppend
  <2>5. DemandIsBacklog'
    BY <2>2, <2>4, <1>1 DEF DemandIsBacklog, PushBack
  <2> QED
    BY <2>1, <2>2, <2>4, <2>5
<1>2. ASSUME PopFront
      PROVE  IInv'
  <2>1. /\ count' \in 0..Size /\ tail' \in Slots /\ RingShape'
        /\ Contents # <<>> /\ Head(Contents) = buf[tail]
        /\ Contents' = Tail(Contents)
    BY <1>0, <1>2, PopContents
  <2>2. CostsOf(Contents)' = Tail(CostsOf(Contents))
    <3>1. CostsOf(Contents)' = CostsOf(Tail(Contents))
      BY <2>1 DEF CostsOf
    <3> QED
      BY <3>1, <2>1, <1>0, CostsOfTail
  <2>3. /\ CostsOf(Contents) \in Seq(Nat) /\ CostsOf(Contents) # <<>>
        /\ Head(CostsOf(Contents)) = Cost[buf[tail]]
    BY <1>0, <2>1, CostsOfSeq, CostsOfTail
  <2>4. /\ Summable(Tail(CostsOf(Contents)))
        /\ Total(CostsOf(Contents)) = Cost[buf[tail]] + Total(Tail(CostsOf(Contents)))
        /\ Total(Tail(CostsOf(Contents))) \in Nat
    BY <2>3, TotalTail
  <2>5. Cost[buf[tail]] \in Nat
    BY <1>0, CostAssumption DEF TypeOK
  <2>6. total_token_demand' = Total(Tail(CostsOf(Contents)))
    BY <2>4, <2>5, <1>2 DEF PopFront, DemandIsBacklog
  <2>7. TypeOK'
    BY <2>1, <2>4, <2>6, <1>2 DEF TypeOK, PopFront
  <2> QED
    BY <2>1, <2>2, <2>4, <2>6, <2>7 DEF DemandIsBacklog
<1>3. CASE PushBackFull \/ PopFrontEmpty \/ PeakHeadCost
  <2>1. /\ UNCHANGED <<buf, count, head, tail, total_token_demand>>
        /\ saved_tokens' \in Nat
    BY <1>0, <1>3 DEF PushBackFull, PopFrontEmpty, PeakHeadCost, TypeOK
  <2> QED
    BY <2>1, SameRing
<1>4. ASSUME NEW n \in Offers, SaveTokens(n)
      PROVE  IInv'
  <2>1. Kept(n) \in Nat
    BY <1>0, KeptNat, OffersAssumption
  <2>2. /\ UNCHANGED <<buf, count, head, tail, total_token_demand>>
        /\ saved_tokens' \in Nat
    BY <1>0, <1>4, <2>1 DEF SaveTokens, TypeOK
  <2> QED
    BY <2>2, SameRing
<1>5. CASE TakeSavedTokens
  <2>1. /\ UNCHANGED <<buf, count, head, tail, total_token_demand>>
        /\ saved_tokens' \in Nat
    BY <1>5 DEF TakeSavedTokens
  <2> QED
    BY <2>1, SameRing
<1>6. CASE UNCHANGED vars
  <2>1. /\ UNCHANGED <<buf, count, head, tail, total_token_demand>>
        /\ saved_tokens' \in Nat
    BY <1>0, <1>6 DEF vars, TypeOK
  <2> QED
    BY <2>1, SameRing
<1> QED
  BY <1>1, <1>2, <1>3, <1>4, <1>5, <1>6 DEF Next

(* The fields of every software queue stay in range in every reachable     *)
(* state, for any capacity.                                                *)
THEOREM TypeCorrect == Spec => []TypeOK
<1>1. IInv => TypeOK
  BY DEF IInv
<1> QED
  BY InitInv, NextInv, <1>1, PTL DEF Spec

(* total_token_demand is always the sum of the costs of the queued         *)
(* requests, for any capacity and any costs.                               *)
THEOREM DemandCorrect == Spec => []DemandIsBacklog
<1>1. IInv => DemandIsBacklog
  BY DEF IInv
<1> QED
  BY InitInv, NextInv, <1>1, PTL DEF Spec

-----------------------------------------------------------------------------
(* Under the refinement mapping, the demand of the abstract queue is the   *)
(* running total of the ring.                                              *)
LEMMA DemandMapped ==
  ASSUME IInv
  PROVE  TQ!Demand = total_token_demand
<1>1. TQ!CostsOf(Contents) = CostsOf(Contents)
  BY DEF TQ!CostsOf, CostsOf
<1>2. TQ!Total(CostsOf(Contents)) = Total(CostsOf(Contents))
  BY Zenon DEF TQ!Total, Total
<1> QED
  BY <1>1, <1>2 DEF IInv, DemandIsBacklog, TQ!Demand

(* Every call on the ring is the call of the same name on the abstract     *)
(* queue, or changes nothing a caller can see.                             *)
LEMMA StepMapped == IInv /\ [Next]_vars => [TQ!Next]_(TQ!tqvars)
<1> SUFFICES ASSUME IInv, [Next]_vars PROVE [TQ!Next]_(TQ!tqvars)
  OBVIOUS
<1>0. /\ TypeOK /\ RingShape /\ Contents \in Seq(Ctx)
      /\ Len(Contents) = count /\ count \in 0..Size /\ Size \in Nat
  BY ContentsType, SizeAssumption DEF IInv, TypeOK
<1>s. UNCHANGED <<buf, count, tail>> => Contents' = Contents
  BY DEF Contents
<1> USE DEF TQ!EAGAIN, EAGAIN
<1>1. ASSUME NEW c \in Ctx, PushBack(c)
      PROVE  TQ!Push(c)
  <2>1. Contents' = Append(Contents, c)
    BY <1>0, <1>1, PushContents
  <2>2. Len(Contents) < Size
    BY <1>0, <1>1 DEF PushBack
  <2> QED
    BY <2>1, <2>2, <1>1 DEF PushBack, TQ!Push
<1>2. ASSUME PushBackFull, NEW c \in Ctx
      PROVE  TQ!Push(c)
  BY <1>0, <1>2, <1>s DEF PushBackFull, TQ!Push
<1>3. CASE PopFront
  <2>1. Contents # <<>> /\ Head(Contents) = buf[tail] /\ Contents' = Tail(Contents)
    BY <1>0, <1>3, PopContents
  <2> QED
    BY <2>1, <1>3 DEF PopFront, TQ!Pop, TQ!Next
<1>4. CASE PopFrontEmpty
  <2>1. Contents = <<>>
    BY <1>0, <1>4 DEF PopFrontEmpty
  <2> QED
    BY <2>1, <1>4, <1>s DEF PopFrontEmpty, TQ!Pop, TQ!Next
<1>5. CASE PeakHeadCost
  <2>1. CASE count = 0
    <3>1. Contents = <<>>
      BY <1>0, <2>1
    <3> QED
      BY <3>1, <2>1, <1>5, <1>s DEF PeakHeadCost, TQ!PeakCost, TQ!Next
  <2>2. CASE count # 0
    <3>1. Contents # <<>> /\ Head(Contents) = Contents[1] /\ 1 \in 1..count
      BY <1>0, <2>2
    <3>2. Contents[1] = buf[(tail + 1 - 1) % Size]
      BY <3>1, <1>0, ContentsType
    <3>3. tail + 1 - 1 = tail /\ tail \in 0..(2*Size - 1) /\ tail < Size
      BY <1>0 DEF TypeOK, Slots
    <3>4. tail % Size = tail
      BY <3>3, WrapOnce, SizeAssumption, SMT
    <3>5. Head(Contents) = buf[tail]
      BY <3>1, <3>2, <3>3, <3>4
    <3> QED
      BY <3>1, <3>5, <2>2, <1>5, <1>s DEF PeakHeadCost, TQ!PeakCost, TQ!Next
  <2> QED
    BY <2>1, <2>2
<1>6. ASSUME NEW n \in Offers, SaveTokens(n)
      PROVE  TQ!Save(n)
  <2>1. Kept(n) = Least(n, total_token_demand)
    BY <1>0, KeptNat, OffersAssumption
  <2>2. TQ!Demand = total_token_demand
    BY DemandMapped
  <2>3. TQ!Least(n, TQ!Demand) = Kept(n)
    BY <2>1, <2>2 DEF TQ!Least, Least
  <2> QED
    BY <2>2, <2>3, <1>6, <1>s DEF SaveTokens, TQ!Save
<1>7. CASE TakeSavedTokens
  BY <1>7, <1>s DEF TakeSavedTokens, TQ!TakeSaved, TQ!Next
<1>8. CASE UNCHANGED vars
  BY <1>8, <1>s DEF vars, TQ!tqvars
<1>9. CASE PushBackFull
  <2>1. PICK c \in Ctx : TRUE
    <3>1. buf[0] \in Ctx
      BY <1>0, SizeAssumption DEF TypeOK, Slots
    <3> QED
      BY <3>1
  <2> QED
    BY <2>1, <1>9, <1>2 DEF TQ!Next
<1>10. ASSUME NEW c \in Ctx, PushBack(c) PROVE TQ!Next
  BY <1>10, <1>1 DEF TQ!Next
<1>11. ASSUME NEW n \in Offers, SaveTokens(n) PROVE TQ!Next
  BY <1>11, <1>6 DEF TQ!Next
<1> QED
  BY <1>3, <1>4, <1>5, <1>7, <1>8, <1>9, <1>10, <1>11 DEF Next

(* The ring with its running total implements the bounded FIFO with a      *)
(* token demand: a caller of nvme_sw_queue.c cannot tell the two apart.    *)
THEOREM Implements == Spec => ImplementsTokenQueue
<1>1. Init => TQ!Init
  <2> SUFFICES ASSUME Init PROVE TQ!Init
    OBVIOUS
  <2>1. TypeOK
    BY InitInv DEF IInv
  <2>2. Contents = <<>>
    BY <2>1, ContentsType DEF Init
  <2> QED
    BY <2>2 DEF Init, TQ!Init
<1> QED
  BY <1>1, InitInv, NextInv, StepMapped, PTL DEF Spec, ImplementsTokenQueue, TQ!Spec

=============================================================================
