----------------------------- MODULE TotalsProofs -----------------------------
(***************************************************************************)
(* What the proofs about the queue and the session link need to know of the *)
(* total weight of a sequence.  The total is a recursive function of the    *)
(* length, so these are inductions; each is by the least number that is a   *)
(* counterexample.                                                          *)
(***************************************************************************)
EXTENDS Totals, WellFoundedInduction, TLAPS

\* g holds the totals of the first n weights of s, for every n.
RunningTotals(s, g) == g = [n \in 0 .. Len(s) |-> IF n = 0 THEN 0 ELSE g[n - 1] + s[n]]

-----------------------------------------------------------------------------

\* The least-number principle, by which the inductions below are made.
LEMMA LeastNatural ==
    ASSUME NEW T \in SUBSET Nat, T # {}
    PROVE  \E x \in T : \A y \in T : x <= y
<1> DEFINE R == OpToRel(<, Nat)
<1>1. IsWellFoundedOn(R, Nat)
  BY NatLessThanWellFounded, Zenon
<1>2. PICK x \in T : \A y \in T : <<y, x>> \notin R
  BY <1>1, WFMin, Zenon
<1>3. \A y \in T : ~(y < x)
  BY <1>2 DEF OpToRel
<1> QED
  BY <1>3

\* A bounded, non-empty set of naturals has a greatest member.
LEMMA GreatestNatural ==
    ASSUME NEW n \in Nat, NEW T \in SUBSET (0 .. n), T # {}
    PROVE  \E x \in T : \A y \in T : y <= x
<1> DEFINE D == {d \in 0 .. n : n - d \in T}
<1>1. D \in SUBSET Nat
  OBVIOUS
<1>2. D # {}
  <2>1. PICK x \in T : TRUE
    OBVIOUS
  <2>2. n - x \in D
    OBVIOUS
  <2> QED
    BY <2>2
<1>3. PICK d \in D : \A y \in D : d <= y
  BY <1>1, <1>2, LeastNatural
<1>4. ASSUME NEW y \in T
      PROVE  y <= n - d
  <2>1. n - y \in D
    OBVIOUS
  <2>2. d <= n - y
    BY <1>3, <2>1
  <2> QED
    BY <2>2
<1>5. n - d \in T
  OBVIOUS
<1> QED
  BY <1>4, <1>5

\* Induction up to a bound, over a set rather than a predicate.
LEMMA InductionUpTo ==
    ASSUME NEW m \in Nat, NEW S, 0 \in S,
           \A n \in 0 .. (m - 1) : n \in S => n + 1 \in S
    PROVE  \A n \in 0 .. m : n \in S
<1> DEFINE T == {n \in 0 .. m : n \notin S}
<1> SUFFICES ASSUME T # {}
             PROVE  FALSE
  OBVIOUS
<1>1. T \in SUBSET Nat
  OBVIOUS
<1>2. PICK x \in T : \A y \in T : x <= y
  BY <1>1, LeastNatural
<1>3. x # 0 /\ x \in Nat /\ x <= m
  OBVIOUS
<1>4. x - 1 \in 0 .. (m - 1) /\ x - 1 \notin T
  BY <1>2, <1>3
<1>5. (x - 1) + 1 \in S
  BY <1>4
<1> QED
  BY <1>3, <1>5

\* The running totals exist.
LEMMA TotalsExist ==
    ASSUME NEW s \in Seq(Nat)
    PROVE  \E g : RunningTotals(s, g)
<1> DEFINE Upto(n, g) == g = [i \in 0 .. n |-> IF i = 0 THEN 0 ELSE g[i - 1] + s[i]]
           S == {n \in 0 .. Len(s) : \E g : Upto(n, g)}
<1>1. 0 \in S
  <2> DEFINE zero == [i \in 0 .. 0 |-> 0]
  <2>1. Upto(0, zero)
    OBVIOUS
  <2>2. 0 \in 0 .. Len(s)
    OBVIOUS
  <2> HIDE DEF zero
  <2> QED
    BY <2>1, <2>2, Zenon
<1>2. ASSUME NEW n \in 0 .. (Len(s) - 1), n \in S
      PROVE  n + 1 \in S
  <2>1. PICK g : Upto(n, g)
    BY <1>2, Zenon
  <2> DEFINE h == [i \in 0 .. (n + 1) |-> IF i = n + 1 THEN g[n] + s[n + 1] ELSE g[i]]
  <2>2. ASSUME NEW i \in 0 .. (n + 1)
        PROVE  h[i] = IF i = 0 THEN 0 ELSE h[i - 1] + s[i]
    <3>1. CASE i = n + 1
      BY <3>1
    <3>2. CASE i # n + 1
      <4>1. i \in 0 .. n /\ h[i] = g[i] /\ (i # 0 => h[i - 1] = g[i - 1])
        BY <3>2
      <4>2. g[i] = IF i = 0 THEN 0 ELSE g[i - 1] + s[i]
        BY <2>1, <4>1
      <4> QED
        BY <4>1, <4>2
    <3> QED
      BY <3>1, <3>2
  <2> HIDE DEF h
  <2>3. h = [i \in 0 .. (n + 1) |-> h[i]]
    BY DEF h
  <2>4. Upto(n + 1, h)
    BY <2>2, <2>3
  <2> QED
    BY <2>4
<1>3. Len(s) \in Nat
  OBVIOUS
<1> HIDE DEF S
<1>4. \A n \in 0 .. Len(s) : n \in S
  BY <1>1, <1>2, <1>3, InductionUpTo
<1>5. Len(s) \in S
  BY <1>3, <1>4
<1> QED
  BY <1>5, Zenon DEF S, RunningTotals

\* They are unique, and the last one is the total.
LEMMA TotalsUnique ==
    ASSUME NEW s \in Seq(Nat), NEW g, RunningTotals(s, g)
    PROVE  TotalWeight(s) = g[Len(s)]
<1> DEFINE up == CHOOSE h : RunningTotals(s, h)
           S == {n \in 0 .. Len(s) : g[n] = up[n]}
<1>1. TotalWeight(s) = up[Len(s)]
  BY DEF TotalWeight, RunningTotals
<1>2. RunningTotals(s, up)
  BY Zenon
<1>3. Len(s) \in Nat
  OBVIOUS
<1> HIDE DEF up
<1>4. 0 \in S
  <2>1. 0 \in 0 .. Len(s)
    BY <1>3
  <2>2. g[0] = 0 /\ up[0] = 0
    BY <1>2, <2>1 DEF RunningTotals
  <2> QED
    BY <2>1, <2>2
<1>5. ASSUME NEW n \in 0 .. (Len(s) - 1), n \in S
      PROVE  n + 1 \in S
  <2>1. n + 1 \in 0 .. Len(s) /\ n + 1 # 0 /\ (n + 1) - 1 = n
    BY <1>3
  <2>2. g[n + 1] = g[n] + s[n + 1] /\ up[n + 1] = up[n] + s[n + 1]
    BY <1>2, <2>1 DEF RunningTotals
  <2> QED
    BY <1>5, <2>1, <2>2
<1> HIDE DEF S
<1>6. \A n \in 0 .. Len(s) : n \in S
  BY <1>3, <1>4, <1>5, InductionUpTo
<1>7. Len(s) \in S
  BY <1>3, <1>6
<1> QED
  BY <1>1, <1>7 DEF S

\* A running total is a natural number, no less than any weight it covers.
LEMMA TotalsType ==
    ASSUME NEW s \in Seq(Nat), NEW g, RunningTotals(s, g)
    PROVE  \A n \in 0 .. Len(s) : g[n] \in Nat /\ \A i \in 1 .. n : s[i] <= g[n]
<1> DEFINE S == {n \in 0 .. Len(s) : g[n] \in Nat /\ \A i \in 1 .. n : s[i] <= g[n]}
<1>1. Len(s) \in Nat
  OBVIOUS
<1>2. 0 \in S
  <2>1. 0 \in 0 .. Len(s)
    BY <1>1
  <2>2. g[0] = 0
    BY <2>1 DEF RunningTotals
  <2> QED
    BY <2>1, <2>2
<1>3. ASSUME NEW n \in 0 .. (Len(s) - 1), n \in S
      PROVE  n + 1 \in S
  <2>1. n + 1 \in 0 .. Len(s) /\ n + 1 # 0 /\ (n + 1) - 1 = n /\ s[n + 1] \in Nat
    BY <1>1
  <2>2. g[n + 1] = g[n] + s[n + 1]
    BY <2>1 DEF RunningTotals
  <2>3. \A i \in 1 .. n : s[i] \in Nat
    BY <1>1
  <2> QED
    BY <1>3, <2>1, <2>2, <2>3
<1> HIDE DEF S
<1>4. \A n \in 0 .. Len(s) : n \in S
  BY <1>1, <1>2, <1>3, InductionUpTo
<1> QED
  BY <1>4 DEF S

\* The total is a natural number, of the empty sequence 0, and no less than
\* any weight in it.
LEMMA TotalType ==
    ASSUME NEW s \in Seq(Nat)
    PROVE  /\ TotalWeight(s) \in Nat
           /\ s = <<>> => TotalWeight(s) = 0
           /\ \A i \in 1 .. Len(s) : s[i] <= TotalWeight(s)
<1>1. PICK g : RunningTotals(s, g)
  BY TotalsExist
<1>2. TotalWeight(s) = g[Len(s)]
  BY <1>1, TotalsUnique
<1>3. Len(s) \in 0 .. Len(s)
  OBVIOUS
<1>4. s = <<>> => g[Len(s)] = 0
  BY <1>1, <1>3 DEF RunningTotals
<1> QED
  BY <1>1, <1>2, <1>3, <1>4, TotalsType

\* One more weight at the end (State::load on an accepted event).
LEMMA TotalAppend ==
    ASSUME NEW s \in Seq(Nat), NEW w \in Nat
    PROVE  TotalWeight(Append(s, w)) = TotalWeight(s) + w
<1>1. PICK g : RunningTotals(s, g)
  BY TotalsExist
<1> DEFINE t == Append(s, w)
           h == [n \in 0 .. Len(t) |-> IF n = Len(t) THEN g[Len(s)] + w ELSE g[n]]
<1>2. t \in Seq(Nat) /\ Len(t) = Len(s) + 1 /\ t[Len(t)] = w
  OBVIOUS
<1>3. \A i \in 1 .. Len(s) : t[i] = s[i]
  OBVIOUS
<1> HIDE DEF t
<1>4. ASSUME NEW n \in 0 .. Len(t)
      PROVE  h[n] = IF n = 0 THEN 0 ELSE h[n - 1] + t[n]
  <2>1. CASE n = Len(t)
    BY <1>2, <2>1
  <2>2. CASE n # Len(t)
    <3>1. n \in 0 .. Len(s) /\ h[n] = g[n] /\ (n # 0 => h[n - 1] = g[n - 1])
      BY <1>2, <2>2
    <3>2. g[n] = IF n = 0 THEN 0 ELSE g[n - 1] + s[n]
      BY <1>1, <3>1 DEF RunningTotals
    <3> QED
      BY <1>3, <3>1, <3>2
  <2> QED
    BY <2>1, <2>2
<1>5. RunningTotals(t, h) /\ h[Len(t)] = g[Len(s)] + w
  <2> HIDE DEF h
  <2>1. h = [n \in 0 .. Len(t) |-> h[n]]
    BY DEF h
  <2>2. h[Len(t)] = g[Len(s)] + w
    BY <1>2 DEF h
  <2> QED
    BY <1>4, <2>1, <2>2 DEF RunningTotals
<1>6. TotalWeight(t) = h[Len(t)] /\ TotalWeight(s) = g[Len(s)]
  BY <1>1, <1>2, <1>5, TotalsUnique
<1> QED
  BY <1>5, <1>6 DEF t

\* The first weight taken away (State::load on a pop in push order).
LEMMA TotalTail ==
    ASSUME NEW s \in Seq(Nat), s # <<>>
    PROVE  TotalWeight(Tail(s)) = TotalWeight(s) - Head(s)
<1>1. PICK g : RunningTotals(s, g)
  BY TotalsExist
<1> DEFINE t == Tail(s)
           h == [n \in 0 .. Len(t) |-> g[n + 1] - s[1]]
<1>2. /\ t \in Seq(Nat) /\ Len(s) \in Nat /\ Len(t) = Len(s) - 1 /\ Len(t) \in Nat
      /\ Head(s) = s[1] /\ s[1] \in Nat
  OBVIOUS
<1>3. \A i \in 1 .. Len(t) : t[i] = s[i + 1]
  OBVIOUS
<1> HIDE DEF t
<1>4. \A n \in 0 .. Len(s) : g[n] \in Nat
  BY <1>1, TotalsType
<1>5. ASSUME NEW n \in 0 .. Len(t)
      PROVE  h[n] = IF n = 0 THEN 0 ELSE h[n - 1] + t[n]
  <2>1. g[1] = s[1]
    BY <1>1, <1>2 DEF RunningTotals
  <2>2. CASE n = 0
    BY <1>2, <2>1, <2>2
  <2>3. CASE n # 0
    <3>1. h[n] = g[n + 1] - s[1] /\ h[n - 1] = g[n] - s[1]
      BY <2>3, <1>2
    <3>2. g[n + 1] = g[n] + s[n + 1]
      BY <1>1, <1>2 DEF RunningTotals
    <3>3. t[n] = s[n + 1] /\ s[n + 1] \in Nat
      BY <1>2, <1>3, <2>3
    <3>4. g[n] \in Nat
      BY <1>2, <1>4
    <3> HIDE DEF h
    <3>5. s[1] \in Nat
      BY <1>2
    <3>6. (g[n] + s[n + 1]) - s[1] = (g[n] - s[1]) + s[n + 1]
      BY <3>3, <3>4, <3>5
    <3>7. h[n] = h[n - 1] + t[n]
      BY <3>1, <3>2, <3>3, <3>6, Zenon
    <3> QED
      BY <2>3, <3>7
  <2> QED
    BY <2>2, <2>3
<1>6. RunningTotals(t, h) /\ h[Len(t)] = g[Len(s)] - s[1]
  <2> HIDE DEF h
  <2>1. h = [n \in 0 .. Len(t) |-> h[n]]
    BY DEF h
  <2>2. h[Len(t)] = g[Len(s)] - s[1]
    BY <1>2 DEF h
  <2> QED
    BY <1>5, <2>1, <2>2 DEF RunningTotals
<1>7. TotalWeight(t) = h[Len(t)] /\ TotalWeight(s) = g[Len(s)]
  BY <1>1, <1>2, <1>6, TotalsUnique
<1> QED
  BY <1>2, <1>6, <1>7 DEF t

\* The last weight taken away (State::load on a pop in degraded mode).
LEMMA TotalFront ==
    ASSUME NEW s \in Seq(Nat), s # <<>>
    PROVE  TotalWeight(SubSeq(s, 1, Len(s) - 1)) = TotalWeight(s) - s[Len(s)]
<1> DEFINE t == SubSeq(s, 1, Len(s) - 1)
<1>1. t \in Seq(Nat) /\ s[Len(s)] \in Nat /\ s = Append(t, s[Len(s)])
  OBVIOUS
<1>2. TotalWeight(s) = TotalWeight(t) + s[Len(s)]
  BY <1>1, TotalAppend
<1>3. TotalWeight(t) \in Nat
  BY <1>1, TotalType
<1> HIDE DEF t
<1>4. TotalWeight(t) = TotalWeight(s) - s[Len(s)]
  BY <1>1, <1>2, <1>3
<1> QED
  BY <1>4 DEF t

\* A prefix weighs no more than the whole (a link torn down loses what is last
\* on the wire).
LEMMA TotalPrefix ==
    ASSUME NEW s \in Seq(Nat), NEW t \in Seq(Nat), Len(t) <= Len(s),
           \A i \in 1 .. Len(t) : t[i] = s[i]
    PROVE  TotalWeight(t) <= TotalWeight(s)
<1>1. PICK g : RunningTotals(s, g)
  BY TotalsExist
<1>2. Len(s) \in Nat /\ Len(t) \in Nat
  OBVIOUS
<1> DEFINE h == [n \in 0 .. Len(t) |-> g[n]]
<1>3. ASSUME NEW n \in 0 .. Len(t)
      PROVE  h[n] = IF n = 0 THEN 0 ELSE h[n - 1] + t[n]
  <2>1. n \in 0 .. Len(s) /\ h[n] = g[n] /\ (n # 0 => h[n - 1] = g[n - 1] /\ t[n] = s[n])
    BY <1>2
  <2>2. g[n] = IF n = 0 THEN 0 ELSE g[n - 1] + s[n]
    BY <1>1, <2>1 DEF RunningTotals
  <2> QED
    BY <2>1, <2>2
<1>4. h[Len(t)] = g[Len(t)]
  BY <1>2
<1>5. h = [n \in 0 .. Len(t) |-> h[n]]
  OBVIOUS
<1> HIDE DEF h
<1>6. RunningTotals(t, h)
  BY <1>3, <1>5 DEF RunningTotals
<1>7. TotalWeight(t) = g[Len(t)] /\ TotalWeight(s) = g[Len(s)]
  BY <1>1, <1>4, <1>6, TotalsUnique
<1> DEFINE S == {d \in 0 .. (Len(s) - Len(t)) : g[Len(t)] <= g[Len(t) + d]}
<1>8. \A n \in 0 .. Len(s) : g[n] \in Nat
  BY <1>1, TotalsType
<1>9. 0 \in S
  BY <1>2, <1>8
<1>10. ASSUME NEW d \in 0 .. ((Len(s) - Len(t)) - 1), d \in S
       PROVE  d + 1 \in S
  <2>1. PICK k : k = Len(t) + d + 1
    OBVIOUS
  <2>2. k \in 0 .. Len(s) /\ k # 0 /\ k - 1 = Len(t) + d /\ s[k] \in Nat /\ k - 1 \in 0 .. Len(s)
    BY <1>2, <2>1
  <2>3. g[k] = g[k - 1] + s[k]
    BY <1>1, <2>2 DEF RunningTotals
  <2>4. g[Len(t)] <= g[k - 1] /\ g[Len(t)] \in Nat /\ g[k - 1] \in Nat
    BY <1>2, <1>8, <1>10, <2>2
  <2>5. g[Len(t)] <= g[k]
    BY <2>2, <2>3, <2>4
  <2>6. d + 1 \in 0 .. (Len(s) - Len(t)) /\ Len(t) + (d + 1) = k
    BY <1>2, <2>1
  <2> QED
    BY <2>5, <2>6
<1> HIDE DEF S
<1>11. Len(s) - Len(t) \in Nat
  BY <1>2
<1>12. Len(s) - Len(t) \in S
  <2>1. \A n \in 0 .. (Len(s) - Len(t)) : n \in S
    BY <1>9, <1>10, <1>11, InductionUpTo
  <2> QED
    BY <1>11, <2>1
<1>13. g[Len(t)] <= g[Len(t) + (Len(s) - Len(t))]
  BY <1>12 DEF S
<1>14. Len(t) + (Len(s) - Len(t)) = Len(s)
  BY <1>2
<1> QED
  BY <1>7, <1>13, <1>14
=============================================================================
