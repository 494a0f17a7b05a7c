-------------------------- MODULE TokenTotals_proofs --------------------------
(***************************************************************************)
(* What appending and removing a request do to the total token cost of a   *)
(* queue.                                                                  *)
(***************************************************************************)
EXTENDS TokenTotals, SequenceTheorems, TLAPS

(***************************************************************************)
(* The provers cannot derive, for an arbitrary sequence, that the          *)
(* recursion above has a solution (that takes induction).  The proofs      *)
(* carry it along the behaviour instead: Determined(s) says the recursion  *)
(* has exactly one solution, Summable(s) says so of s and all its          *)
(* suffixes; it holds of the empty queue, and appending a request or       *)
(* removing the oldest one preserves it.                                   *)
(***************************************************************************)
IsPrefixSums(s, g) ==
  g = [i \in 0..Len(s) |-> IF i = 0 THEN 0 ELSE g[i-1] + s[i]]

Determined(s) ==
  /\ \E g \in [0..Len(s) -> Nat] : IsPrefixSums(s, g)
  /\ \A g, h : IsPrefixSums(s, g) /\ IsPrefixSums(s, h) => g = h

Summable(s) ==
  \A m \in 0..Len(s) : Determined(SubSeq(s, m+1, Len(s)))

(* A summable sequence is its own longest suffix.                          *)
LEMMA SummableDetermined ==
  ASSUME NEW s \in Seq(Nat), Summable(s)
  PROVE  Determined(s)
<1>1. SubSeq(s, 1, Len(s)) = s
  OBVIOUS
<1>2. 0 \in 0..Len(s) /\ 0+1 = 1
  OBVIOUS
<1> QED
  BY <1>1, <1>2 DEF Summable

(* Any solution of the recursion gives the total.                          *)
LEMMA TotalIsLastPrefix ==
  ASSUME NEW s \in Seq(Nat), Determined(s), NEW g, IsPrefixSums(s, g)
  PROVE  Total(s) = g[Len(s)]
<1> DEFINE f == CHOOSE f : f = [i \in 0..Len(s) |->
                                  IF i = 0 THEN 0 ELSE f[i-1] + s[i]]
<1>1. IsPrefixSums(s, f)
  BY Zenon DEF IsPrefixSums
<1>2. f = g
  BY <1>1 DEF Determined
<1>3. Total(s) = f[Len(s)]
  BY Zenon DEF Total
<1> QED
  BY <1>2, <1>3

(* The total of a summable sequence of costs is a natural number.          *)
LEMMA TotalNat ==
  ASSUME NEW s \in Seq(Nat), Summable(s)
  PROVE  Total(s) \in Nat
<1>1. Determined(s)
  BY SummableDetermined
<1>2. PICK g \in [0..Len(s) -> Nat] : IsPrefixSums(s, g)
  BY <1>1 DEF Determined
<1> QED
  BY <1>1, <1>2, TotalIsLastPrefix

(* nvme_sw_queue_init: an empty queue has no token demand.                 *)
LEMMA TotalEmpty == Summable(<<>>) /\ Total(<<>>) = 0
<1> DEFINE g == [i \in 0..0 |-> 0]
<1>1. IsPrefixSums(<<>>, g) /\ g \in [0..0 -> Nat]
  BY DEF IsPrefixSums
<1>2. ASSUME NEW h, NEW k, IsPrefixSums(<<>>, h), IsPrefixSums(<<>>, k)
      PROVE  h = k
  <2>1. h = [i \in 0..0 |-> 0] /\ k = [i \in 0..0 |-> 0]
    BY <1>2 DEF IsPrefixSums
  <2> QED
    BY <2>1
<1>3. Determined(<<>>)
  BY <1>1, <1>2 DEF Determined
<1>4. ASSUME NEW m \in 0..Len(<<>>)
      PROVE  SubSeq(<<>>, m+1, Len(<<>>)) = <<>>
  OBVIOUS
<1> QED
  BY <1>1, <1>3, <1>4, TotalIsLastPrefix DEF Summable

(* One more request: a determined sum stays determined.                     *)
LEMMA DeterminedAppend ==
  ASSUME NEW s \in Seq(Nat), NEW c \in Nat, Determined(s)
  PROVE  /\ Determined(Append(s, c))
         /\ Total(Append(s, c)) = Total(s) + c
<1> DEFINE t == Append(s, c)
           n == Len(s)
<1>0. /\ t \in Seq(Nat) /\ Len(t) = n+1 /\ n \in Nat
      /\ t[n+1] = c /\ \A i \in 1..n : t[i] = s[i]
  OBVIOUS
<1>1. PICK g \in [0..n -> Nat] : IsPrefixSums(s, g)
  BY DEF Determined
<1> DEFINE h == [i \in 0..(n+1) |-> IF i = n+1 THEN g[n] + c ELSE g[i]]
<1> HIDE DEF t
<1>2. \A i \in 0..n : g[i] = IF i = 0 THEN 0 ELSE g[i-1] + s[i]
  BY <1>1 DEF IsPrefixSums
<1>3. IsPrefixSums(t, h) /\ h \in [0..(n+1) -> Nat]
  <2>1. ASSUME NEW i \in 0..(n+1)
        PROVE  h[i] = IF i = 0 THEN 0 ELSE h[i-1] + t[i]
    BY <1>0, <1>2
  <2>2. n \in Nat
    OBVIOUS
  <2> HIDE DEF n
  <2>3. h \in [0..(n+1) -> Nat]
    BY <2>2
  <2> QED
    BY <2>1, <2>3, <1>0 DEF IsPrefixSums
<1>4. ASSUME NEW a, NEW b, IsPrefixSums(t, a), IsPrefixSums(t, b)
      PROVE  a = b
  <2> DEFINE ra == [i \in 0..n |-> a[i]]
             rb == [i \in 0..n |-> b[i]]
  <2>1. /\ a = [i \in 0..(n+1) |-> IF i = 0 THEN 0 ELSE a[i-1] + t[i]]
        /\ b = [i \in 0..(n+1) |-> IF i = 0 THEN 0 ELSE b[i-1] + t[i]]
    BY <1>4, <1>0 DEF IsPrefixSums
  <2>2. \A i \in 0..(n+1) : a[i] = IF i = 0 THEN 0 ELSE a[i-1] + t[i]
    BY <2>1
  <2>3. \A i \in 0..(n+1) : b[i] = IF i = 0 THEN 0 ELSE b[i-1] + t[i]
    BY <2>1
  <2>4. IsPrefixSums(s, ra)
    BY <2>2, <1>0 DEF IsPrefixSums
  <2>5. IsPrefixSums(s, rb)
    BY <2>3, <1>0 DEF IsPrefixSums
  <2>6. ra = rb
    BY <2>4, <2>5 DEF Determined
  <2>7. \A i \in 0..n : a[i] = b[i]
    BY <2>6
  <2>8. \A i \in 0..(n+1) : a[i] = b[i]
    BY <2>7, <2>2, <2>3, <1>0
  <2> QED
    BY <2>8, <2>1
<1>5. Determined(t)
  BY <1>0, <1>3, <1>4 DEF Determined
<1>6. Total(t) = h[n+1] /\ Total(s) = g[n]
  BY TotalIsLastPrefix, <1>0, <1>1, <1>3, <1>5
<1> QED
  BY <1>0, <1>1, <1>5, <1>6 DEF t

(* Pushing a request raises the total by its cost.                         *)
LEMMA TotalAppend ==
  ASSUME NEW s \in Seq(Nat), NEW c \in Nat, Summable(s)
  PROVE  /\ Summable(Append(s, c))
         /\ Total(Append(s, c)) = Total(s) + c
<1> DEFINE t == Append(s, c)
           n == Len(s)
<1>0. t \in Seq(Nat) /\ Len(t) = n+1 /\ n \in Nat
  OBVIOUS
<1>1. ASSUME NEW m \in 0..(n+1)
      PROVE  Determined(SubSeq(t, m+1, n+1))
  <2>1. CASE m = n+1
    <3>1. SubSeq(t, m+1, n+1) = <<>>
      BY <2>1, <1>0
    <3>2. <<>> \in Seq(Nat)
      OBVIOUS
    <3>3. Determined(<<>>)
      BY <3>2, TotalEmpty, SummableDetermined
    <3> QED
      BY <3>1, <3>3
  <2>2. CASE m \in 0..n
    <3> DEFINE u == SubSeq(s, m+1, n)
    <3>1. u \in Seq(Nat) /\ Determined(u)
      BY <2>2 DEF Summable
    <3>2. SubSeq(t, m+1, n+1) = Append(u, c)
      <4>1. /\ Len(SubSeq(t, m+1, n+1)) = n+1-m
            /\ SubSeq(t, m+1, n+1) \in Seq(Nat)
        BY <2>2, <1>0
      <4>2. Len(Append(u, c)) = n+1-m /\ Append(u, c) \in Seq(Nat)
        BY <2>2, <1>0
      <4>3. ASSUME NEW i \in 1..(n+1-m)
            PROVE  SubSeq(t, m+1, n+1)[i] = Append(u, c)[i]
        BY <2>2, <1>0
      <4> DEFINE x == SubSeq(t, m+1, n+1)
                 y == Append(u, c)
      <4> HIDE DEF x, y
      <4>4. x \in Seq(Nat) /\ y \in Seq(Nat) /\ Len(x) = Len(y)
        BY <4>1, <4>2 DEF x, y
      <4>5. \A i \in 1..Len(x) : x[i] = y[i]
        BY <4>1, <4>3 DEF x, y
      <4>6. x = y
        BY <4>4, <4>5, SeqEqual
      <4> QED
        BY <4>6 DEF x, y
    <3> QED
      BY <3>1, <3>2, DeterminedAppend
  <2> QED
    BY <2>1, <2>2, <1>0
<1> QED
  BY <1>0, <1>1, DeterminedAppend, SummableDetermined DEF Summable

(* Popping the oldest request lowers the total by its cost.                *)
LEMMA TotalTail ==
  ASSUME NEW s \in Seq(Nat), s # <<>>, Summable(s)
  PROVE  /\ Summable(Tail(s))
         /\ Total(s) = Head(s) + Total(Tail(s))
         /\ Total(Tail(s)) \in Nat
<1> DEFINE t == Tail(s)
           n == Len(s)
           c == Head(s)
<1>0. /\ t \in Seq(Nat) /\ n \in Nat \ {0} /\ Len(t) = n-1 /\ c \in Nat
      /\ c = s[1] /\ \A i \in 1..(n-1) : t[i] = s[i+1]
  OBVIOUS
<1>1. Summable(t)
  <2>1. ASSUME NEW m \in 0..(n-1)
        PROVE  SubSeq(t, m+1, n-1) = SubSeq(s, (m+1)+1, n)
    BY <1>0
  <2>2. ASSUME NEW m \in 0..(n-1)
        PROVE  Determined(SubSeq(s, (m+1)+1, n))
    BY <1>0 DEF Summable
  <2> QED
    BY <2>1, <2>2, <1>0 DEF Summable
<1> HIDE DEF t, c
<1>2. Determined(t) /\ Determined(s)
  BY <1>0, <1>1, SummableDetermined
<1>3. PICK k \in [0..(n-1) -> Nat] : IsPrefixSums(t, k)
  BY <1>2, <1>0 DEF Determined
<1>4. \A i \in 0..(n-1) : k[i] = IF i = 0 THEN 0 ELSE k[i-1] + t[i]
  BY <1>3, <1>0 DEF IsPrefixSums
<1> DEFINE g == [i \in 0..n |-> IF i = 0 THEN 0 ELSE k[i-1] + c]
<1>5. IsPrefixSums(s, g)
  <2>1. n \in Nat \ {0} /\ c \in Nat /\ \A i \in 1..n : s[i] \in Nat
    BY <1>0
  <2>2. s[1] = c /\ \A i \in 2..n : s[i] = t[i-1]
    <3>1. ASSUME NEW i \in 2..n
          PROVE  s[i] = t[i-1]
      <4>1. i-1 \in 1..(n-1) /\ (i-1)+1 = i
        BY <2>1
      <4> QED
        BY <4>1, <1>0
    <3> QED
      BY <3>1, <1>0
  <2>3. DOMAIN g = 0..n /\ g = [i \in 0..n |-> g[i]]
    OBVIOUS
  <2>4. ASSUME NEW i \in 0..n
        PROVE  g[i] = IF i = 0 THEN 0 ELSE g[i-1] + s[i]
    <3> HIDE DEF n
    <3>1. CASE i = 0
      BY <3>1
    <3>2. CASE i = 1
      BY <3>2, <1>4, <2>1, <2>2
    <3>3. CASE i \in 2..n
      <4>1. k[i-1] = k[i-2] + t[i-1]
        BY <3>3, <1>4, <2>1
      <4>2. k[i-2] \in Nat
        BY <3>3, <2>1
      <4>3. g[i-1] = k[i-2] + c /\ g[i] = k[i-1] + c
        BY <3>3, <2>1
      <4>4. t[i-1] = s[i] /\ s[i] \in Nat
        BY <3>3, <2>1, <2>2
      <4> HIDE DEF g
      <4>5. (k[i-2] + s[i]) + c = (k[i-2] + c) + s[i]
        BY <4>2, <4>4, <2>1
      <4>6. g[i] = g[i-1] + s[i]
        BY <4>1, <4>3, <4>4, <4>5
      <4> QED
        BY <4>6, <3>3
    <3> QED
      BY <3>1, <3>2, <3>3, <2>1
  <2> HIDE DEF g
  <2> QED
    BY <2>3, <2>4 DEF IsPrefixSums
<1>6. Total(s) = g[n] /\ Total(t) = k[n-1]
  BY <1>0, <1>2, <1>3, <1>5, TotalIsLastPrefix
<1>7. g[n] = k[n-1] + c /\ k[n-1] \in Nat
  <2>1. n \in Nat \ {0}
    BY <1>0
  <2> HIDE DEF n
  <2> QED
    BY <2>1
<1> QED
  BY <1>0, <1>1, <1>6, <1>7 DEF t, c
=============================================================================
