---------------------------- MODULE IngressProofs ----------------------------
(***************************************************************************)
(* What comes into a shard.  The work queue, for any number of producers,   *)
(* any event sizes, every capacity and both policies: its account is exact  *)
(* and bounded, no wake is lost, and every event is delivered once, in      *)
(* order, or returned.  The session stream of an edge: the shard hears a    *)
(* session in order, no session is left behind, and the credits add up.     *)
(***************************************************************************)
EXTENDS WorkQueueHistory, CoreLink, TotalsProofs, FiniteSetTheorems, SequenceTheorems, TLAPS

-----------------------------------------------------------------------------
(* The work queue. *)

Weight == Nat \ {0}

Future == [op : {"none", "push", "room", "offer"}, weight : Nat, waiter : BOOLEAN]

QueueTypeOK ==
    /\ buf \in Seq(Weight) /\ load \in Nat /\ mode \in {"fifo", "lifo"}
    /\ senders \subseteq Producers
    /\ recv \in {"run", "wait", "ended", "dropped"}
    /\ gone \in {"idle", "wait", "run", "resolved"}
    /\ line \in Seq(Producers) /\ awake \subseteq Producers
    /\ fut \in [Producers -> Future]
    /\ \A p \in Producers : fut[p].op # "none" => fut[p].weight \in Weight

\* No producer is in line twice.
Distinct(s) == \A i, j \in 1 .. Len(s) : s[i] = s[j] => i = j

\* Who is in line waits there, and is in line once.
LineOK ==
    /\ Distinct(line)
    /\ \A p \in ToSet(line) : fut[p].op \in {"push", "room"} /\ fut[p].waiter

\* The producer that holds the room of an empty queue: it was woken out of the
\* line, or has been told of room and is about to push.
OnItsWay(p) ==
    /\ p \notin ToSet(line)
    /\ \/ fut[p].op \in {"push", "room"} /\ fut[p].waiter /\ p \in awake
       \/ fut[p].op = "offer"

RoomIsUsed ==
    (receiverAlive /\ load = 0 /\ line # <<>>) => \E p \in Producers : OnItsWay(p)

ReceiverSleeps == recv = "wait" => buf = <<>> /\ senders # {}

QueueInv == QueueTypeOK /\ BoundedByWeight /\ LineOK /\ RoomIsUsed /\ ReceiverSleeps

-----------------------------------------------------------------------------
\* The line, less some of its front.
LEMMA LineSuffix ==
    ASSUME NEW s \in Seq(Producers), Distinct(s), NEW n \in 0 .. Len(s)
    PROVE  /\ SubSeq(s, n + 1, Len(s)) \in Seq(Producers)
           /\ Distinct(SubSeq(s, n + 1, Len(s)))
           /\ ToSet(SubSeq(s, n + 1, Len(s))) \subseteq ToSet(s)
           /\ n > 0 /\ s # <<>> => s[1] \notin ToSet(SubSeq(s, n + 1, Len(s)))
<1> DEFINE t == SubSeq(s, n + 1, Len(s))
<1>1. Len(s) \in Nat /\ \A i \in 1 .. Len(s) : s[i] \in Producers
  OBVIOUS
<1>2. /\ t \in Seq(Producers)
      /\ Len(t) = IF n + 1 <= Len(s) THEN Len(s) - n ELSE 0
      /\ \A i \in 1 .. (Len(s) - n) : t[i] = s[n + i]
  <2>1. \A i \in (n + 1) .. Len(s) : s[i] \in Producers
    BY <1>1
  <2>2. n + 1 \in Int /\ Len(s) \in Int
    BY <1>1
  <2>3. /\ t \in Seq(Producers)
        /\ Len(t) = IF n + 1 <= Len(s) THEN Len(s) - (n + 1) + 1 ELSE 0
        /\ \A i \in 1 .. (Len(s) - (n + 1) + 1) : t[i] = s[(n + 1) + i - 1]
    BY <2>1, <2>2, SubSeqProperties
  <2> QED
    BY <1>1, <2>3
<1> HIDE DEF t
<1>3. Len(t) = Len(s) - n /\ \A i \in 1 .. Len(t) : t[i] = s[n + i] /\ n + i \in 1 .. Len(s)
  BY <1>1, <1>2
<1>4. DOMAIN t = 1 .. Len(t) /\ DOMAIN s = 1 .. Len(s)
  BY <1>2
<1>5. Distinct(t)
  <2> SUFFICES ASSUME NEW i \in 1 .. Len(t), NEW j \in 1 .. Len(t), t[i] = t[j]
               PROVE  i = j
    BY DEF Distinct
  <2>1. n + i = n + j
    BY <1>3 DEF Distinct
  <2> QED
    BY <1>1, <1>3, <2>1
<1>6. ToSet(t) \subseteq ToSet(s)
  BY <1>3, <1>4 DEF ToSet
<1>7. ASSUME n > 0, s # <<>>, s[1] \in ToSet(t)
      PROVE  FALSE
  <2>1. PICK i \in 1 .. Len(t) : t[i] = s[1]
    BY <1>4, <1>7 DEF ToSet
  <2>2. s[n + i] = s[1] /\ n + i \in 1 .. Len(s) /\ 1 \in 1 .. Len(s)
    BY <1>1, <1>3, <1>7, <2>1
  <2>3. n + i = 1
    BY <2>2 DEF Distinct
  <2> QED
    BY <1>1, <1>7, <2>3
<1> QED
  BY <1>2, <1>5, <1>6, <1>7 DEF t

\* The line, less one producer that leaves it.
LEMMA LineWithout ==
    ASSUME NEW s \in Seq(Producers), Distinct(s), NEW p \in Producers
    PROVE  /\ Without(s, p) \in Seq(Producers)
           /\ Distinct(Without(s, p))
           /\ ToSet(Without(s, p)) = ToSet(s) \ {p}
<1>1. Len(s) \in Nat /\ DOMAIN s = 1 .. Len(s) /\ \A i \in 1 .. Len(s) : s[i] \in Producers
  OBVIOUS
<1>2. CASE ~Contains(s, p)
  BY <1>1, <1>2 DEF Without, Contains, ToSet
<1>3. CASE Contains(s, p)
  <2> DEFINE k == CHOOSE i \in 1 .. Len(s) : s[i] = p
             a == SubSeq(s, 1, k - 1)
             b == SubSeq(s, k + 1, Len(s))
             t == a \o b
  <2>1. k \in 1 .. Len(s) /\ s[k] = p
    BY <1>3 DEF Contains
  <2>2. Without(s, p) = t
    BY <1>3 DEF Without, RemoveAt
  <2> HIDE DEF k
  <2>3. /\ a \in Seq(Producers) /\ Len(a) = k - 1
        /\ \A i \in 1 .. (k - 1) : a[i] = s[i]
    <3>1. \A i \in 1 .. (k - 1) : s[i] \in Producers
      BY <1>1, <2>1
    <3>2. 1 \in Int /\ k - 1 \in Int
      BY <2>1
    <3>3. /\ a \in Seq(Producers) /\ Len(a) = IF 1 <= k - 1 THEN (k - 1) - 1 + 1 ELSE 0
          /\ \A i \in 1 .. ((k - 1) - 1 + 1) : a[i] = s[1 + i - 1]
      BY <3>1, <3>2, SubSeqProperties
    <3> QED
      BY <2>1, <3>3
  <2>4. /\ b \in Seq(Producers) /\ Len(b) = Len(s) - k
        /\ \A i \in 1 .. (Len(s) - k) : b[i] = s[k + i]
    <3>1. \A i \in (k + 1) .. Len(s) : s[i] \in Producers
      BY <1>1, <2>1
    <3>2. k + 1 \in Int /\ Len(s) \in Int
      BY <1>1, <2>1
    <3>3. /\ b \in Seq(Producers)
          /\ Len(b) = IF k + 1 <= Len(s) THEN Len(s) - (k + 1) + 1 ELSE 0
          /\ \A i \in 1 .. (Len(s) - (k + 1) + 1) : b[i] = s[(k + 1) + i - 1]
      BY <3>1, <3>2, SubSeqProperties
    <3> HIDE DEF b
    <3>4. CASE k + 1 <= Len(s)
      <4>1. k \in Int /\ Len(s) \in Int
        BY <1>1, <2>1
      <4>2. Len(s) - (k + 1) + 1 = Len(s) - k /\ \A i \in Int : (k + 1) + i - 1 = k + i
        BY <4>1
      <4>3. \A i \in 1 .. (Len(s) - k) : i \in Int
        BY <4>1
      <4>4. Len(b) = Len(s) - k
        BY <3>3, <3>4, <4>2, Zenon
      <4>5. \A i \in 1 .. (Len(s) - k) : b[i] = s[k + i]
        BY <3>3, <4>2, <4>3, Zenon
      <4> QED
        BY <3>3, <4>4, <4>5, Zenon
    <3>5. CASE ~(k + 1 <= Len(s))
      <4>1. k = Len(s) /\ Len(s) - k = 0
        <5>1. \A m \in Nat : \A n \in 1 .. m : ~(n + 1 <= m) => n = m /\ m - n = 0
          OBVIOUS
        <5> QED
          BY <1>1, <2>1, <3>5, <5>1, Zenon
      <4>2. Len(b) = 0 /\ b \in Seq(Producers)
        BY <3>3, <3>5
      <4>3. \A i \in 1 .. (Len(s) - k) : FALSE
        BY <4>1
      <4> QED
        BY <4>1, <4>2, <4>3
    <3> QED
      BY <3>4, <3>5
  <2> HIDE DEF a, b
  <2>5. /\ t \in Seq(Producers) /\ Len(t) = Len(s) - 1
        /\ \A i \in 1 .. (Len(s) - 1) : t[i] = IF i <= k - 1 THEN a[i] ELSE b[i - (k - 1)]
    <3>1. /\ t \in Seq(Producers) /\ Len(t) = Len(a) + Len(b)
          /\ \A i \in 1 .. (Len(a) + Len(b)) : t[i] = IF i <= Len(a) THEN a[i] ELSE b[i - Len(a)]
      BY <2>3, <2>4, ConcatProperties
    <3> QED
      BY <1>1, <2>1, <2>3, <2>4, <3>1
  <2> HIDE DEF t
  <2>6. \A i \in 1 .. Len(t) : t[i] = s[IF i < k THEN i ELSE i + 1]
    <3> SUFFICES ASSUME NEW i \in 1 .. Len(t)
                 PROVE  t[i] = s[IF i < k THEN i ELSE i + 1]
      OBVIOUS
    <3>1. CASE i < k
      BY <1>1, <2>1, <2>3, <2>5, <3>1
    <3>2. CASE ~(i < k)
      <4>1. i - (k - 1) \in 1 .. (Len(s) - k) /\ k + (i - (k - 1)) = i + 1
        BY <1>1, <2>1, <2>5, <3>2
      <4>2. t[i] = b[i - (k - 1)]
        <5>1. i \in 1 .. (Len(s) - 1) /\ ~(i <= k - 1)
          BY <1>1, <2>1, <2>5, <3>2
        <5> QED
          BY <2>5, <5>1, Zenon
      <4> QED
        BY <2>4, <3>2, <4>1, <4>2
    <3> QED
      BY <3>1, <3>2
  <2>7. Distinct(t)
    <3> SUFFICES ASSUME NEW i \in 1 .. Len(t), NEW j \in 1 .. Len(t), t[i] = t[j]
                 PROVE  i = j
      BY DEF Distinct
    <3> DEFINE x == IF i < k THEN i ELSE i + 1
               y == IF j < k THEN j ELSE j + 1
    <3>1. x \in 1 .. Len(s) /\ y \in 1 .. Len(s)
      BY <1>1, <2>1, <2>5
    <3>2. s[x] = s[y]
      BY <2>6
    <3>3. x = y
      BY <3>1, <3>2 DEF Distinct
    <3> QED
      BY <1>1, <2>1, <2>5, <3>3
  <2>8. DOMAIN t = 1 .. Len(t)
    BY <2>5
  <2>9. ToSet(t) \subseteq ToSet(s) \ {p}
    <3> SUFFICES ASSUME NEW i \in 1 .. Len(t)
                 PROVE  t[i] \in ToSet(s) /\ t[i] # p
      BY <2>8 DEF ToSet
    <3> DEFINE x == IF i < k THEN i ELSE i + 1
    <3>1. x \in 1 .. Len(s) /\ x # k
      BY <1>1, <2>1, <2>5
    <3>2. t[i] = s[x] /\ s[x] # s[k]
      BY <2>1, <2>6, <3>1 DEF Distinct
    <3> QED
      BY <1>1, <2>1, <3>1, <3>2 DEF ToSet
  <2>10. ASSUME NEW q \in ToSet(s) \ {p}
         PROVE  q \in ToSet(t)
    <3>1. PICK i \in 1 .. Len(s) : s[i] = q
      BY <1>1 DEF ToSet
    <3>2. i # k
      BY <2>1, <3>1
    <3> DEFINE x == IF i < k THEN i ELSE i - 1
    <3>3. x \in 1 .. Len(t) /\ (IF x < k THEN x ELSE x + 1) = i
      BY <1>1, <2>1, <2>5, <3>2
    <3>4. t[x] = q
      BY <2>6, <3>1, <3>3
    <3> QED
      BY <2>8, <3>3, <3>4 DEF ToSet
  <2> QED
    BY <2>2, <2>5, <2>7, <2>9, <2>10
<1> QED
  BY <1>2, <1>3

\* A producer that joins the back of the line.
LEMMA LineAppend ==
    ASSUME NEW s \in Seq(Producers), Distinct(s), NEW p \in Producers, ~Contains(s, p)
    PROVE  /\ Append(s, p) \in Seq(Producers)
           /\ Distinct(Append(s, p))
           /\ ToSet(Append(s, p)) = ToSet(s) \cup {p}
<1> DEFINE t == Append(s, p)
<1>1. /\ t \in Seq(Producers) /\ Len(t) = Len(s) + 1 /\ Len(s) \in Nat
      /\ \A i \in 1 .. Len(s) : t[i] = s[i]
      /\ t[Len(s) + 1] = p
      /\ DOMAIN t = 1 .. Len(t) /\ DOMAIN s = 1 .. Len(s)
  OBVIOUS
<1> HIDE DEF t
<1>2. Distinct(t)
  BY <1>1 DEF Distinct, Contains
<1>3. ToSet(t) = ToSet(s) \cup {p}
  <2>1. \A i \in 1 .. Len(t) : i \in 1 .. Len(s) \/ i = Len(s) + 1
    BY <1>1
  <2>2. Len(s) + 1 \in 1 .. Len(t) /\ \A i \in 1 .. Len(s) : i \in 1 .. Len(t)
    BY <1>1
  <2> QED
    BY <1>1, <2>1, <2>2 DEF ToSet
<1> QED
  BY <1>1, <1>2, <1>3 DEF t

\* take_admitted_waiters wakes a front part of the line; out of a line at an
\* empty queue it wakes somebody.
LEMMA AdmittedPart ==
    ASSUME QueueTypeOK, NEW l \in Nat
    PROVE  /\ Admitted(l, line) \in 0 .. Len(line)
           /\ l = 0 /\ line # <<>> => Admitted(l, line) > 0
<1> DEFINE weights == [i \in 1 .. Len(line) |-> fut[line[i]].weight]
           fits(n) == \A i \in 1 .. n : Fits(l + TotalWeight(SubSeq(weights, 1, i - 1)), weights[i])
           T == {n \in 0 .. Len(line) : fits(n)}
<1>1. Admitted(l, line) = Max(T)
  BY DEF Admitted
<1>2. Len(line) \in Nat /\ (line # <<>> => Len(line) >= 1)
  BY DEF QueueTypeOK
<1>3. 0 \in T
  BY <1>2
<1>4. PICK m \in T : \A y \in T : y <= m
  <2>1. T \in SUBSET (0 .. Len(line)) /\ T # {}
    BY <1>3
  <2> HIDE DEF T
  <2> QED
    BY <1>2, <2>1, GreatestNatural
<1>5. l = 0 /\ line # <<>> => 1 \in T
  <2> SUFFICES ASSUME l = 0, line # <<>>
               PROVE  1 \in T
    OBVIOUS
  <2>1. SubSeq(weights, 1, 0) = <<>>
    BY SubSeqEmpty
  <2>2. TotalWeight(<<>>) = 0
    BY EmptySeq, TotalType
  <2>3. \A i \in 1 .. 1 : i = 1 /\ i - 1 = 0
    OBVIOUS
  <2> HIDE DEF weights
  <2>4. l + TotalWeight(SubSeq(weights, 1, 0)) = 0
    <3>1. l + TotalWeight(SubSeq(weights, 1, 0)) = 0 + 0
      BY <2>1, <2>2, Zenon
    <3> QED
      BY <3>1
  <2>5. Fits(0, weights[1])
    BY DEF Fits
  <2>6. fits(1)
    BY <2>3, <2>4, <2>5
  <2> QED
    BY <1>2, <2>6
<1>6. T \subseteq 0 .. Len(line)
  OBVIOUS
<1> HIDE DEF T
<1>7. \A y \in T : m >= y
  BY <1>2, <1>4, <1>6
<1>8. Max(T) \in T /\ \A y \in T : Max(T) >= y
  BY <1>7, Zenon DEF Max
<1> DEFINE m1 == Max(T)
<1>9. m1 \in 0 .. Len(line) /\ (l = 0 /\ line # <<>> => m1 >= 1)
  BY <1>5, <1>6, <1>8, Zenon
<1> HIDE DEF m1
<1>10. l = 0 /\ line # <<>> => m1 > 0
  BY <1>2, <1>9
<1> QED
  BY <1>1, <1>9, <1>10, Zenon DEF m1

\* What take_admitted_waiters leaves: a shorter line, the others awake.
LEMMA WaitersTaken ==
    ASSUME QueueTypeOK, LineOK, NEW l \in Nat, NEW stillAwake \in SUBSET Producers,
           TakeAdmittedWaiters(l, line, stillAwake)
    PROVE  /\ line' \in Seq(Producers) /\ Distinct(line') /\ ToSet(line') \subseteq ToSet(line)
           /\ awake' \subseteq Producers /\ stillAwake \subseteq awake'
           /\ l = 0 /\ line # <<>> =>
                /\ line[1] \in ToSet(line) /\ line[1] \in Producers
                /\ line[1] \in awake' /\ line[1] \notin ToSet(line')
<1> DEFINE n == Admitted(l, line)
           front == SubSeq(line, 1, n)
<1>1. n \in 0 .. Len(line) /\ (l = 0 /\ line # <<>> => n > 0)
  BY AdmittedPart
<1>2. line' = SubSeq(line, n + 1, Len(line)) /\ awake' = stillAwake \cup ToSet(front)
  BY DEF TakeAdmittedWaiters
<1> HIDE DEF n
<1>3. /\ line \in Seq(Producers) /\ Distinct(line) /\ Len(line) \in Nat
      /\ DOMAIN line = 1 .. Len(line)
      /\ \A i \in 1 .. Len(line) : line[i] \in Producers
  BY DEF QueueTypeOK, LineOK
<1>4. /\ line' \in Seq(Producers) /\ Distinct(line') /\ ToSet(line') \subseteq ToSet(line)
      /\ n > 0 /\ line # <<>> => line[1] \notin ToSet(line')
  BY <1>1, <1>2, <1>3, LineSuffix
<1>5. /\ front \in Seq(Producers) /\ Len(front) = n
      /\ \A i \in 1 .. n : front[i] = line[i]
  <2>1. \A i \in 1 .. n : line[i] \in Producers
    BY <1>1, <1>3
  <2>2. n \in Int /\ 1 \in Int
    BY <1>1
  <2>3. /\ front \in Seq(Producers) /\ Len(front) = IF 1 <= n THEN n - 1 + 1 ELSE 0
        /\ \A i \in 1 .. (n - 1 + 1) : front[i] = line[1 + i - 1]
    BY <2>1, <2>2, SubSeqProperties
  <2> HIDE DEF front
  <2>4. n - 1 + 1 = n /\ (~(1 <= n) => n = 0) /\ \A i \in 1 .. n : 1 + i - 1 = i
    BY <1>1
  <2> QED
    BY <2>3, <2>4
<1> HIDE DEF front
<1>6. ToSet(front) \subseteq Producers /\ (n > 0 => line[1] \in ToSet(front))
  <2>1. DOMAIN front = 1 .. n
    BY <1>5
  <2> QED
    BY <1>1, <1>5, <2>1 DEF ToSet
<1>7. line # <<>> => line[1] \in ToSet(line) /\ line[1] \in Producers
  BY <1>3 DEF ToSet
<1> QED
  BY <1>1, <1>2, <1>4, <1>6, <1>7

\* An accepted event: the total grows with the account.
LEMMA BufferAppend ==
    ASSUME buf \in Seq(Weight), NEW w \in Weight
    PROVE  /\ Append(buf, w) \in Seq(Weight) /\ Len(Append(buf, w)) = Len(buf) + 1
           /\ Append(buf, w) # <<>>
           /\ TotalWeight(Append(buf, w)) = TotalWeight(buf) + w
           /\ TotalWeight(buf) \in Nat /\ (TotalWeight(buf) = 0 <=> buf = <<>>)
<1>1. Weight \subseteq Nat
  BY DEF Weight
<1>2. buf \in Seq(Nat) /\ w \in Nat
  BY <1>1, SeqMonotonic
<1>3. Append(buf, w) \in Seq(Weight) /\ Len(Append(buf, w)) = Len(buf) + 1 /\ Append(buf, w) # <<>>
  BY AppendProperties
<1>4. TotalWeight(Append(buf, w)) = TotalWeight(buf) + w
  BY <1>2, TotalAppend
<1>5. TotalWeight(buf) \in Nat /\ (buf = <<>> => TotalWeight(buf) = 0)
  BY <1>2, TotalType
<1>6. ASSUME buf # <<>>
      PROVE  TotalWeight(buf) # 0
  <2>1. 1 \in 1 .. Len(buf) /\ buf[1] \in Weight
    BY <1>6, ElementOfSeq, EmptySeq
  <2>2. buf[1] <= TotalWeight(buf)
    BY <1>2, <2>1, TotalType
  <2> QED
    BY <1>5, <2>1, <2>2 DEF Weight
<1> QED
  BY <1>3, <1>4, <1>5, <1>6

\* A dequeued event, from either end: the total shrinks with the account.
LEMMA BufferPop ==
    ASSUME QueueTypeOK, buf # <<>>
    PROVE  LET rest == IF mode = "fifo" THEN Tail(buf) ELSE Front(buf)
           IN  /\ rest \in Seq(Weight) /\ Len(rest) = Len(buf) - 1
               /\ Dequeued \in Weight
               /\ TotalWeight(rest) = TotalWeight(buf) - Dequeued
               /\ TotalWeight(rest) \in Nat /\ TotalWeight(buf) \in Nat
               /\ Len(rest) = 0 => TotalWeight(rest) = 0
<1>0. buf \in Seq(Weight)
  BY DEF QueueTypeOK
<1>1. Weight \subseteq Nat
  BY DEF Weight
<1>2. buf \in Seq(Nat)
  BY <1>0, <1>1, SeqMonotonic
<1>3. Len(buf) \in Nat /\ Len(buf) >= 1 /\ \A i \in 1 .. Len(buf) : buf[i] \in Weight
  BY <1>0, EmptySeq, ElementOfSeq
<1>4. /\ Tail(buf) \in Seq(Weight) /\ Head(buf) \in Weight /\ Len(Tail(buf)) = Len(buf) - 1
      /\ TotalWeight(Tail(buf)) = TotalWeight(buf) - Head(buf)
  BY <1>0, <1>2, HeadTailProperties, TotalTail
<1>5. /\ Front(buf) \in Seq(Weight) /\ Last(buf) \in Weight /\ Len(Front(buf)) = Len(buf) - 1
      /\ TotalWeight(Front(buf)) = TotalWeight(buf) - Last(buf)
  <2>1. \A i \in 1 .. (Len(buf) - 1) : buf[i] \in Weight
    BY <1>3
  <2>2. 1 \in Int /\ Len(buf) - 1 \in Int
    BY <1>3
  <2>3. /\ Front(buf) \in Seq(Weight)
        /\ Len(Front(buf)) = IF 1 <= Len(buf) - 1 THEN (Len(buf) - 1) - 1 + 1 ELSE 0
    BY <2>1, <2>2, SubSeqProperties DEF Front
  <2>4. TotalWeight(Front(buf)) = TotalWeight(buf) - Last(buf)
    BY <1>2, TotalFront DEF Front, Last
  <2>5. Last(buf) \in Weight
    BY <1>3 DEF Last
  <2> QED
    <3>1. \A n \in Nat : n >= 1 => (IF 1 <= n - 1 THEN (n - 1) - 1 + 1 ELSE 0) = n - 1
      OBVIOUS
    <3>2. Len(Front(buf)) = Len(buf) - 1
      BY <1>3, <2>3, <3>1, Zenon
    <3> QED
      BY <2>3, <2>4, <2>5, <3>2
<1>6. TotalWeight(buf) \in Nat
  BY <1>2, TotalType
<1>7. ASSUME NEW rest \in Seq(Weight)
      PROVE  TotalWeight(rest) \in Nat /\ (Len(rest) = 0 => TotalWeight(rest) = 0)
  <2>1. rest \in Seq(Nat)
    BY <1>1, SeqMonotonic
  <2>2. Len(rest) = 0 => rest = <<>>
    BY EmptySeq
  <2> QED
    BY <2>1, <2>2, TotalType
<1> QED
  BY <1>4, <1>5, <1>6, <1>7 DEF Dequeued

-----------------------------------------------------------------------------
\* The parts of the invariant that a step disturbs together: the buffer with
\* its account, and the line with the futures.

BufferPart ==
    /\ buf \in Seq(Weight) /\ load \in Nat /\ mode \in {"fifo", "lifo"}
    /\ BoundedByWeight

FuturePart ==
    /\ fut \in [Producers -> Future]
    /\ \A p \in Producers : fut[p].op # "none" => fut[p].weight \in Weight

LinePart ==
    /\ line \in Seq(Producers) /\ awake \subseteq Producers
    /\ LineOK

EndsPart ==
    /\ senders \subseteq Producers
    /\ recv \in {"run", "wait", "ended", "dropped"}
    /\ gone \in {"idle", "wait", "run", "resolved"}

LEMMA Parts ==
    QueueInv <=> BufferPart /\ FuturePart /\ LinePart /\ EndsPart /\ RoomIsUsed /\ ReceiverSleeps
  BY DEF QueueInv, QueueTypeOK, BufferPart, FuturePart, LinePart, EndsPart

LEMMA PartsNext ==
    BufferPart' /\ FuturePart' /\ LinePart' /\ EndsPart' /\ RoomIsUsed' /\ ReceiverSleeps' => QueueInv'
  BY DEF QueueInv, QueueTypeOK, BufferPart, FuturePart, LinePart, EndsPart

LEMMA QueueInvInit == QueueInit => QueueInv
<1> SUFFICES ASSUME QueueInit
             PROVE  QueueInv
  OBVIOUS
<1>1. <<>> \in Seq(Weight) /\ <<>> \in Seq(Producers) /\ <<>> \in Seq(Nat) /\ Len(<<>>) = 0
  BY EmptySeq
<1>2. TotalWeight(<<>>) = 0
  BY <1>1, TotalType
<1>3. BufferPart
  BY <1>1, <1>2, QueueAssumption DEF QueueInit, BufferPart, BoundedByWeight
<1>4. FuturePart
  BY DEF QueueInit, FuturePart, NoFuture, Future
<1>5. LinePart
  BY <1>1 DEF QueueInit, LinePart, LineOK, Distinct, ToSet
<1>6. EndsPart /\ RoomIsUsed /\ ReceiverSleeps
  BY DEF QueueInit, EndsPart, RoomIsUsed, ReceiverSleeps
<1> QED
  BY <1>3, <1>4, <1>5, <1>6, Parts

\* The accepted half of a push, whoever makes it.
LEMMA EnqueueKeeps ==
    ASSUME QueueInv, NEW w \in Weight, Fits(load, w), Enqueue(w)
    PROVE  BufferPart' /\ RoomIsUsed' /\ ReceiverSleeps' /\ recv' \in {"run", "ended", "dropped"}
<1>1. /\ buf \in Seq(Weight) /\ load \in Nat /\ load = TotalWeight(buf) /\ w \in Nat /\ w > 0
      /\ Len(buf) \in Nat
  BY DEF QueueInv, QueueTypeOK, BoundedByWeight, Weight
<1>2. /\ Append(buf, w) \in Seq(Weight) /\ Len(Append(buf, w)) = Len(buf) + 1
      /\ TotalWeight(Append(buf, w)) = TotalWeight(buf) + w
      /\ (TotalWeight(buf) = 0 <=> buf = <<>>)
  BY <1>1, BufferAppend
<1>3. buf' = Append(buf, w) /\ load' = load + w /\ mode' = ModeAt(load + w)
  BY DEF Enqueue
<1>4. load' \in Nat /\ load' > 0
  BY <1>1, <1>3
<1>5. load' > Capacity => Len(buf') = 1
  <2>1. Capacity \in Nat
    BY QueueAssumption
  <2>2. CASE load = 0
    <3>1. Len(buf) = 0
      BY <1>1, <1>2, <2>2, EmptySeq
    <3> QED
      BY <1>2, <1>3, <3>1
  <2>3. CASE load + w <= Capacity
    BY <1>1, <1>3, <2>1, <2>3
  <2> QED
    BY <2>2, <2>3 DEF Fits
<1>6. mode' \in {"fifo", "lifo"}
  BY <1>3 DEF ModeAt, QueueInv, QueueTypeOK
<1>7. load' = TotalWeight(buf')
  BY <1>1, <1>2, <1>3
<1>8. BufferPart'
  BY <1>2, <1>3, <1>4, <1>5, <1>6, <1>7 DEF BufferPart, BoundedByWeight
<1>9. recv' \in {"run", "ended", "dropped"}
  BY DEF Enqueue, QueueInv, QueueTypeOK
<1> QED
  BY <1>4, <1>8, <1>9 DEF RoomIsUsed, ReceiverSleeps

\* A future is replaced.
LEMMA FutureSet ==
    ASSUME FuturePart, NEW p \in Producers, NEW r \in Future,
           r.op # "none" => r.weight \in Weight,
           fut' = [fut EXCEPT ![p] = r]
    PROVE  /\ FuturePart'
           /\ fut'[p] = r /\ \A q \in Producers \ {p} : fut'[q] = fut[q]
  BY DEF FuturePart

\* A producer's future resolves or is dropped, and it leaves the line.
LEMMA LeavesLine ==
    ASSUME QueueInv, NEW p \in Producers, line' = Without(line, p), awake' = awake \ {p},
           \A q \in Producers \ {p} : fut'[q] = fut[q]
    PROVE  LinePart' /\ ToSet(line') = ToSet(line) \ {p}
<1>1. line \in Seq(Producers) /\ Distinct(line)
  BY DEF QueueInv, QueueTypeOK, LineOK
<1>2. line' \in Seq(Producers) /\ Distinct(line') /\ ToSet(line') = ToSet(line) \ {p}
  BY <1>1, LineWithout
<1>3. ToSet(line) \subseteq Producers
  BY <1>1 DEF ToSet
<1>4. \A q \in ToSet(line') : fut'[q].op \in {"push", "room"} /\ fut'[q].waiter
  BY <1>2, <1>3 DEF QueueInv, LineOK
<1>5. awake' \subseteq Producers
  BY DEF QueueInv, QueueTypeOK
<1> QED
  BY <1>2, <1>4, <1>5 DEF LinePart, LineOK

\* Nobody but p is disturbed, and p, if it held the room, still does or has
\* handed it on.
LEMMA RoomKept ==
    ASSUME QueueInv, NEW p \in Producers, load' = load, receiverAlive' => receiverAlive,
           line \in Seq(Producers), line' \in Seq(Producers), ToSet(line') \subseteq ToSet(line),
           \A q \in Producers \ {p} : fut'[q] = fut[q], awake \ {p} \subseteq awake',
           load = 0 /\ line # <<>> /\ OnItsWay(p) => \E q \in Producers : OnItsWay(q)'
    PROVE  RoomIsUsed'
<1> SUFFICES ASSUME receiverAlive', load' = 0, line' # <<>>
             PROVE  \E q \in Producers : OnItsWay(q)'
  BY Zenon DEF RoomIsUsed
<1>1. line # <<>>
  <2>1. line'[1] \in ToSet(line')
    BY DEF ToSet
  <2>2. line'[1] \in ToSet(line)
    BY <2>1
  <2> QED
    BY <2>2 DEF ToSet
<1>2. PICK q \in Producers : OnItsWay(q)
  BY <1>1 DEF QueueInv, RoomIsUsed
<1>3. CASE q = p
  BY <1>1, <1>2, <1>3
<1>4. CASE q # p
  <2>1. OnItsWay(q)'
    BY <1>2, <1>4 DEF OnItsWay
  <2> QED
    BY <2>1
<1> QED
  BY <1>3, <1>4

\* The room of an empty queue goes to the front of its line.
LEMMA RoomHandedOn ==
    ASSUME QueueInv, NEW stillAwake \in SUBSET Producers,
           TakeAdmittedWaiters(0, line, stillAwake), line # <<>>,
           \A q \in ToSet(line) : fut'[q] = fut[q]
    PROVE  \E q \in Producers : OnItsWay(q)'
<1>0. PICK q : q = line[1]
  OBVIOUS
<1>1. /\ q \in ToSet(line) /\ q \in Producers
      /\ q \in awake' /\ q \notin ToSet(line')
  BY <1>0, WaitersTaken DEF QueueInv
<1>2. fut'[q].op \in {"push", "room"} /\ fut'[q].waiter
  BY <1>1 DEF QueueInv, LineOK
<1>3. OnItsWay(q)'
  BY <1>1, <1>2 DEF OnItsWay
<1> QED
  BY <1>1, <1>3

\* A producer that has not been polled, or has left the line, joins no line.
LEMMA Typed ==
    ASSUME QueueInv
    PROVE  /\ buf \in Seq(Weight) /\ load \in Nat /\ line \in Seq(Producers)
           /\ awake \subseteq Producers /\ senders \subseteq Producers
           /\ ToSet(line) \subseteq Producers
           /\ \A p \in Producers : fut[p] \in Future
           /\ \A p \in Producers : fut[p].op # "none" => fut[p].weight \in Weight
           /\ \A p \in Producers : fut[p].op \in {"none", "offer"} => p \notin ToSet(line)
<1>1. line \in Seq(Producers)
  BY DEF QueueInv, QueueTypeOK
<1>2. ToSet(line) \subseteq Producers
  BY <1>1 DEF ToSet
<1> QED
  BY <1>1, <1>2 DEF QueueInv, QueueTypeOK, LineOK

LEMMA WeightOfType == \A size \in Sizes : WeightOf(size) \in Weight
  BY QueueAssumption DEF WeightOf, Weight

LEMMA TryPushKeeps ==
    ASSUME QueueInv, NEW p \in Producers, NEW size \in Sizes, TryPush(p, size)
    PROVE  QueueInv'
<1>1. BufferPart' /\ RoomIsUsed' /\ ReceiverSleeps' /\ recv' \in {"run", "ended", "dropped"}
  BY EnqueueKeeps, WeightOfType DEF TryPush
<1>2. UNCHANGED <<senders, gone, line, fut, awake>>
  BY DEF TryPush
<1>3. FuturePart' /\ LinePart' /\ EndsPart'
  BY <1>1, <1>2, Parts DEF FuturePart, LinePart, LineOK, EndsPart
<1> QED
  BY <1>1, <1>3, PartsNext

LEMMA TakeQueuedKeeps ==
    ASSUME QueueInv, NEW p \in Producers, TakeQueued(p)
    PROVE  QueueInv'
<1>1. /\ buf # <<>> /\ buf' = <<>> /\ load' = 0 /\ mode' = ModeAt(0)
      /\ UNCHANGED <<senders, recv, gone, fut>>
  BY DEF TakeQueued
<1>2. TakeAdmittedWaiters(0, line, awake)
  BY DEF TakeQueued
<1>3. BufferPart'
  <2>1. <<>> \in Seq(Weight) /\ <<>> \in Seq(Nat)
    BY EmptySeq
  <2>2. TotalWeight(<<>>) = 0
    BY <2>1, TotalType
  <2>3. mode' \in {"fifo", "lifo"}
    BY <1>1 DEF ModeAt, QueueInv, QueueTypeOK
  <2>4. ~(0 > Capacity)
    BY QueueAssumption
  <2> QED
    BY <1>1, <2>1, <2>2, <2>3, <2>4 DEF BufferPart, BoundedByWeight
<1>4. /\ line' \in Seq(Producers) /\ Distinct(line') /\ ToSet(line') \subseteq ToSet(line)
      /\ awake' \subseteq Producers
  BY <1>2, WaitersTaken, Typed DEF QueueInv
<1>5. LinePart'
  BY <1>1, <1>4 DEF LinePart, LineOK, QueueInv
<1>6. FuturePart' /\ EndsPart'
  BY <1>1, Parts DEF FuturePart, EndsPart
<1>7. ReceiverSleeps'
  BY <1>1 DEF ReceiverSleeps, QueueInv
<1>8. RoomIsUsed'
  <2>1. line # <<>> => \E q \in Producers : OnItsWay(q)'
    BY <1>1, <1>2, RoomHandedOn, Typed
  <2>2. line' # <<>> => line # <<>>
    <3>1. line' # <<>> => line'[1] \in ToSet(line')
      BY <1>4 DEF ToSet
    <3> QED
      BY <1>4, <3>1 DEF ToSet
  <2> QED
    BY <2>1, <2>2 DEF RoomIsUsed
<1> QED
  BY <1>3, <1>5, <1>6, <1>7, <1>8, PartsNext

LEMMA PopKeeps ==
    ASSUME QueueInv, Pop
    PROVE  QueueInv'
<1> DEFINE rest == IF mode = "fifo" THEN Tail(buf) ELSE Front(buf)
<1>1. /\ buf # <<>> /\ buf' = rest /\ load' = load - Dequeued /\ mode' = ModeAt(load - Dequeued)
      /\ recv = "run" /\ UNCHANGED <<senders, recv, gone, fut>>
  BY DEF Pop
<1>2. TakeAdmittedWaiters(load', line, awake)
  BY <1>1 DEF Pop
<1>3. /\ rest \in Seq(Weight) /\ Len(rest) = Len(buf) - 1 /\ Dequeued \in Weight
      /\ TotalWeight(rest) = TotalWeight(buf) - Dequeued
      /\ TotalWeight(rest) \in Nat /\ TotalWeight(buf) \in Nat
      /\ Len(rest) = 0 => TotalWeight(rest) = 0
  BY <1>1, BufferPop DEF QueueInv
<1> HIDE DEF rest
<1>4. load = TotalWeight(buf) /\ (load > Capacity => Len(buf) = 1) /\ Len(buf) \in Nat
  BY Typed DEF QueueInv, BoundedByWeight
<1>5. load' = TotalWeight(buf') /\ load' \in Nat
  BY <1>1, <1>3, <1>4
<1>6. load' > Capacity => Len(buf') = 1
  <2>1. Capacity \in Nat /\ Dequeued \in Nat
    BY <1>3, QueueAssumption DEF Weight
  <2>2. ASSUME load' > Capacity
        PROVE  FALSE
    <3>1. load > Capacity
      <4>1. load' = load - Dequeued /\ load \in Nat
        BY <1>1, Typed
      <4> QED
        BY <2>1, <2>2, <4>1
    <3>2. Len(rest) = 0
      <4>1. Len(rest) = 1 - 1
        BY <1>3, <1>4, <3>1, Zenon
      <4> QED
        BY <4>1
    <3> QED
      <4>1. load' = 0
        BY <1>1, <1>3, <1>5, <3>2, Zenon
      <4> QED
        BY <2>1, <2>2, <4>1
  <2> QED
    BY <2>2
<1>7. BufferPart'
  <2>1. mode' \in {"fifo", "lifo"}
    BY <1>1 DEF ModeAt, QueueInv, QueueTypeOK
  <2> QED
    BY <1>1, <1>3, <1>5, <1>6, <2>1 DEF BufferPart, BoundedByWeight
<1>8. /\ line' \in Seq(Producers) /\ Distinct(line') /\ ToSet(line') \subseteq ToSet(line)
      /\ awake' \subseteq Producers
  BY <1>2, <1>5, WaitersTaken, Typed DEF QueueInv
<1>9. LinePart'
  BY <1>1, <1>8 DEF LinePart, LineOK, QueueInv
<1>10. FuturePart' /\ EndsPart'
  BY <1>1, Parts DEF FuturePart, EndsPart
<1>11. ReceiverSleeps'
  BY <1>1 DEF ReceiverSleeps
<1>12. RoomIsUsed'
  <2>1. load' = 0 /\ line # <<>> => \E q \in Producers : OnItsWay(q)'
    BY <1>1, <1>2, RoomHandedOn, Typed
  <2>2. line' # <<>> => line # <<>>
    <3>1. line' # <<>> => line'[1] \in ToSet(line')
      BY <1>8 DEF ToSet
    <3> QED
      BY <1>8, <3>1 DEF ToSet
  <2> QED
    BY <2>1, <2>2 DEF RoomIsUsed
<1> QED
  BY <1>7, <1>9, <1>10, <1>11, <1>12, PartsNext

LEMMA StartKeeps ==
    ASSUME QueueInv, NEW p \in Producers, NEW op \in {"push", "room"}, NEW size \in Sizes,
           Start(p, op, size)
    PROVE  QueueInv'
<1> DEFINE r == [op |-> op, weight |-> WeightOf(size), waiter |-> FALSE]
<1>1. /\ fut[p].op = "none" /\ fut' = [fut EXCEPT ![p] = r] /\ awake' = awake \cup {p}
      /\ UNCHANGED <<buf, load, mode, senders, recv, gone, line>>
  BY DEF Start
<1>2. r \in Future /\ r.weight \in Weight /\ r.op # "none"
  BY WeightOfType DEF Future, Weight
<1> HIDE DEF r
<1>3. FuturePart' /\ \A q \in Producers \ {p} : fut'[q] = fut[q]
  BY <1>1, <1>2, FutureSet, Parts
<1>4. p \notin ToSet(line) /\ ToSet(line) \subseteq Producers
  BY <1>1, Typed
<1>5. LinePart'
  BY <1>1, <1>3, <1>4 DEF LinePart, LineOK, QueueInv, QueueTypeOK
<1>6. BufferPart' /\ EndsPart'
  BY <1>1, Parts DEF BufferPart, BoundedByWeight, EndsPart
<1>7. ReceiverSleeps'
  BY <1>1 DEF ReceiverSleeps, QueueInv
<1>8. RoomIsUsed'
  <2>1. ~OnItsWay(p)
    BY <1>1 DEF OnItsWay
  <2>2. line \in Seq(Producers) /\ line' \in Seq(Producers) /\ ToSet(line') \subseteq ToSet(line)
    BY <1>1, Typed
  <2>3. load' = load /\ (receiverAlive' => receiverAlive) /\ awake \ {p} \subseteq awake'
    BY <1>1 DEF receiverAlive
  <2> QED
    BY <1>3, <2>1, <2>2, <2>3, RoomKept
<1> QED
  BY <1>3, <1>5, <1>6, <1>7, <1>8, PartsNext

\* The pieces of a poll.
LEMMA ServedKeeps ==
    ASSUME QueueInv, NEW p \in Producers, NEW r \in Future,
           r.op # "none" => r.weight \in Weight, Served(p, r)
    PROVE  /\ FuturePart' /\ LinePart' /\ ToSet(line') = ToSet(line) \ {p}
           /\ fut'[p] = r /\ \A q \in Producers \ {p} : fut'[q] = fut[q]
           /\ awake' = awake \ {p}
<1>1. fut' = [fut EXCEPT ![p] = r] /\ line' = Without(line, p) /\ awake' = awake \ {p}
  BY DEF Served
<1>2. FuturePart' /\ fut'[p] = r /\ \A q \in Producers \ {p} : fut'[q] = fut[q]
  BY <1>1, FutureSet, Parts
<1> QED
  BY <1>1, <1>2, LeavesLine

LEMMA NoFutureType == NoFuture \in Future /\ NoFuture.op = "none"
  BY DEF NoFuture, Future

\* A producer parks only where its event does not fit, so not at an empty queue.
LEMMA ParkKeeps ==
    ASSUME QueueInv, NEW p \in Producers, fut[p].op \in {"push", "room"},
           ~Fits(load, fut[p].weight), Park(p), UNCHANGED <<senders, gone>>
    PROVE  QueueInv'
<1> DEFINE r == [fut[p] EXCEPT !.waiter = TRUE]
<1>1. /\ fut' = [fut EXCEPT ![p] = r] /\ awake' = awake \ {p}
      /\ line' = IF Contains(line, p) THEN line ELSE Append(line, p)
      /\ UNCHANGED <<buf, load, mode, recv, senders, gone>>
  BY DEF Park
<1>2. /\ r \in Future /\ r.op = fut[p].op /\ r.weight = fut[p].weight /\ r.waiter
      /\ r.weight \in Weight
  BY Typed DEF Future
<1> HIDE DEF r
<1>3. FuturePart' /\ fut'[p] = r /\ \A q \in Producers \ {p} : fut'[q] = fut[q]
  BY <1>1, <1>2, FutureSet, Parts
<1>4. /\ line \in Seq(Producers) /\ Distinct(line) /\ ToSet(line) \subseteq Producers
      /\ \A q \in ToSet(line) : fut[q].op \in {"push", "room"} /\ fut[q].waiter
  BY Typed DEF QueueInv, LineOK
<1>5. /\ line' \in Seq(Producers) /\ Distinct(line')
      /\ ToSet(line') \subseteq ToSet(line) \cup {p}
  <2>1. CASE Contains(line, p)
    BY <1>1, <1>4, <2>1
  <2>2. CASE ~Contains(line, p)
    BY <1>1, <1>4, <2>2, LineAppend
  <2> QED
    BY <2>1, <2>2
<1>6. LinePart'
  <2>1. \A q \in ToSet(line') : fut'[q].op \in {"push", "room"} /\ fut'[q].waiter
    <3> SUFFICES ASSUME NEW q \in ToSet(line')
                 PROVE  fut'[q].op \in {"push", "room"} /\ fut'[q].waiter
      OBVIOUS
    <3>1. CASE q = p
      BY <1>2, <1>3, <3>1
    <3>2. CASE q # p
      BY <1>3, <1>4, <1>5, <3>2
    <3> QED
      BY <3>1, <3>2
  <2>2. awake' \subseteq Producers
    BY <1>1, Typed
  <2> QED
    BY <1>5, <2>1, <2>2 DEF LinePart, LineOK
<1>7. BufferPart' /\ EndsPart'
  BY <1>1, Parts DEF BufferPart, BoundedByWeight, EndsPart
<1>8. ReceiverSleeps'
  BY <1>1 DEF ReceiverSleeps, QueueInv
<1>9. RoomIsUsed'
  <2>1. load # 0
    BY DEF Fits
  <2> QED
    BY <1>1, <2>1 DEF RoomIsUsed
<1> QED
  BY <1>3, <1>6, <1>7, <1>8, <1>9, PartsNext

LEMMA PollPushKeeps ==
    ASSUME QueueInv, NEW p \in Producers, PollPush(p)
    PROVE  QueueInv'
<1>0. fut[p].op = "push" /\ UNCHANGED <<senders, gone>> /\ fut[p].weight \in Weight
  BY Typed DEF PollPush
<1>1. CASE ~receiverAlive /\ Served(p, NoFuture) /\ UNCHANGED <<buf, load, mode, recv>>
  <2>1. FuturePart' /\ LinePart'
    BY <1>1, ServedKeeps, NoFutureType
  <2>2. BufferPart' /\ EndsPart'
    BY <1>0, <1>1, Parts DEF BufferPart, BoundedByWeight, EndsPart
  <2>3. ReceiverSleeps'
    BY <1>0, <1>1 DEF ReceiverSleeps, QueueInv
  <2>4. RoomIsUsed'
    BY <1>1 DEF RoomIsUsed, receiverAlive
  <2> QED
    BY <2>1, <2>2, <2>3, <2>4, PartsNext
<1>2. CASE Fits(load, fut[p].weight) /\ Served(p, NoFuture) /\ Enqueue(fut[p].weight)
  <2>1. FuturePart' /\ LinePart'
    BY <1>2, ServedKeeps, NoFutureType
  <2>2. BufferPart' /\ RoomIsUsed' /\ ReceiverSleeps' /\ recv' \in {"run", "ended", "dropped"}
    BY <1>0, <1>2, EnqueueKeeps
  <2>3. EndsPart'
    BY <1>0, <2>2, Parts DEF EndsPart
  <2> QED
    BY <2>1, <2>2, <2>3, PartsNext
<1>3. CASE ~Fits(load, fut[p].weight) /\ Park(p)
  BY <1>0, <1>3, ParkKeeps
<1> QED
  BY <1>1, <1>2, <1>3 DEF PollPush

LEMMA PollRoomKeeps ==
    ASSUME QueueInv, NEW p \in Producers, PollRoom(p)
    PROVE  QueueInv'
<1>0. fut[p].op = "room" /\ UNCHANGED <<senders, gone>> /\ fut[p].weight \in Weight
  BY Typed DEF PollRoom
<1> DEFINE r == [op |-> "offer", weight |-> fut[p].weight, waiter |-> FALSE]
<1>1. CASE Served(p, r) /\ UNCHANGED <<buf, load, mode, recv>>
  <2>1. r \in Future /\ r.weight \in Weight /\ r.op = "offer"
    BY <1>0 DEF Future, Weight
  <2>2. /\ FuturePart' /\ LinePart' /\ ToSet(line') = ToSet(line) \ {p} /\ fut'[p] = r
        /\ \A q \in Producers \ {p} : fut'[q] = fut[q]
        /\ awake' = awake \ {p}
    BY <1>1, <2>1, ServedKeeps
  <2>3. BufferPart' /\ EndsPart'
    BY <1>0, <1>1, Parts DEF BufferPart, BoundedByWeight, EndsPart
  <2>4. ReceiverSleeps'
    BY <1>0, <1>1 DEF ReceiverSleeps, QueueInv
  <2>5. OnItsWay(p)'
    BY <2>1, <2>2 DEF OnItsWay
  <2>6. line \in Seq(Producers) /\ line' \in Seq(Producers)
    BY <2>2, Typed DEF LinePart
  <2>7. load' = load /\ (receiverAlive' => receiverAlive)
    BY <1>1 DEF receiverAlive
  <2>8. RoomIsUsed'
    BY <2>2, <2>5, <2>6, <2>7, RoomKept
  <2> QED
    BY <2>2, <2>3, <2>4, <2>8, PartsNext
<1>2. CASE ~Fits(load, fut[p].weight) /\ Park(p)
  BY <1>0, <1>2, ParkKeeps
<1> QED
  BY <1>1, <1>2 DEF PollRoom

LEMMA OfferKeeps ==
    ASSUME QueueInv, NEW p \in Producers, Offer(p)
    PROVE  QueueInv'
<1>0. /\ fut[p].op = "offer" /\ UNCHANGED <<senders, gone, line>> /\ fut[p].weight \in Weight
      /\ p \notin ToSet(line) /\ line \in Seq(Producers) /\ ToSet(line) \subseteq Producers
      /\ fut[p] \in Future
  BY Typed DEF Offer
<1>1. ASSUME NEW r \in Future, r.op # "none" => r.weight \in Weight,
             fut' = [fut EXCEPT ![p] = r], awake' \subseteq awake \cup {p}
      PROVE  FuturePart' /\ LinePart' /\ \A q \in Producers \ {p} : fut'[q] = fut[q]
  <2>1. FuturePart' /\ \A q \in Producers \ {p} : fut'[q] = fut[q]
    BY <1>1, FutureSet, Parts
  <2> QED
    BY <1>0, <1>1, <2>1 DEF LinePart, LineOK, QueueInv, QueueTypeOK
<1>2. CASE /\ ~receiverAlive /\ fut' = [fut EXCEPT ![p] = NoFuture]
           /\ UNCHANGED <<buf, load, mode, recv, awake>>
  <2>1. FuturePart' /\ LinePart'
    BY <1>1, <1>2, NoFutureType
  <2>2. BufferPart' /\ EndsPart'
    BY <1>0, <1>2, Parts DEF BufferPart, BoundedByWeight, EndsPart
  <2>3. ReceiverSleeps'
    BY <1>0, <1>2 DEF ReceiverSleeps, QueueInv
  <2>4. RoomIsUsed'
    BY <1>2 DEF RoomIsUsed, receiverAlive
  <2> QED
    BY <2>1, <2>2, <2>3, <2>4, PartsNext
<1>3. CASE /\ Fits(load, fut[p].weight) /\ Enqueue(fut[p].weight)
           /\ fut' = [fut EXCEPT ![p] = NoFuture] /\ UNCHANGED awake
  <2>1. FuturePart' /\ LinePart'
    BY <1>1, <1>3, NoFutureType
  <2>2. BufferPart' /\ RoomIsUsed' /\ ReceiverSleeps' /\ recv' \in {"run", "ended", "dropped"}
    BY <1>0, <1>3, EnqueueKeeps
  <2>3. EndsPart'
    BY <1>0, <2>2, Parts DEF EndsPart
  <2> QED
    BY <2>1, <2>2, <2>3, PartsNext
<1>4. CASE /\ ~Fits(load, fut[p].weight) /\ fut' = [fut EXCEPT ![p].op = "room"]
           /\ awake' = awake \cup {p} /\ UNCHANGED <<buf, load, mode, recv>>
  <2> DEFINE r == [fut[p] EXCEPT !.op = "room"]
  <2>1. r \in Future /\ r.weight \in Weight /\ fut' = [fut EXCEPT ![p] = r]
    BY <1>0, <1>4 DEF Future
  <2>2. FuturePart' /\ LinePart'
    BY <1>1, <1>4, <2>1
  <2>3. BufferPart' /\ EndsPart'
    BY <1>0, <1>4, Parts DEF BufferPart, BoundedByWeight, EndsPart
  <2>4. ReceiverSleeps'
    BY <1>0, <1>4 DEF ReceiverSleeps, QueueInv
  <2>5. RoomIsUsed'
    BY <1>4 DEF RoomIsUsed, Fits
  <2> QED
    BY <2>2, <2>3, <2>4, <2>5, PartsNext
<1> QED
  BY <1>2, <1>3, <1>4 DEF Offer

LEMMA CancelKeeps ==
    ASSUME QueueInv, NEW p \in Producers, Cancel(p)
    PROVE  QueueInv'
<1>0. /\ fut[p].op \in {"push", "room"} /\ fut' = [fut EXCEPT ![p] = NoFuture]
      /\ UNCHANGED <<buf, load, mode, senders, recv, gone>>
  BY DEF Cancel
<1>1. FuturePart' /\ \A q \in Producers \ {p} : fut'[q] = fut[q]
  BY <1>0, FutureSet, NoFutureType, Parts
<1>2. BufferPart' /\ EndsPart'
  BY <1>0, Parts DEF BufferPart, BoundedByWeight, EndsPart
<1>3. ReceiverSleeps'
  BY <1>0 DEF ReceiverSleeps, QueueInv
<1>4. load' = load /\ (receiverAlive' => receiverAlive) /\ line \in Seq(Producers) /\ load \in Nat
  BY <1>0, Typed DEF receiverAlive
<1>5. Contains(line, p) <=> p \in ToSet(line)
  BY <1>4 DEF Contains, ToSet
<1>6. CASE fut[p].waiter /\ ~Contains(line, p)
  <2>1. TakeAdmittedWaiters(load, line, awake \ {p})
    BY <1>6 DEF Cancel
  <2>2. awake \ {p} \in SUBSET Producers
    BY Typed
  <2>3. /\ line' \in Seq(Producers) /\ Distinct(line') /\ ToSet(line') \subseteq ToSet(line)
        /\ awake' \subseteq Producers /\ awake \ {p} \subseteq awake'
    BY <1>4, <2>1, <2>2, WaitersTaken DEF QueueInv
  <2>4. \A q \in ToSet(line) : fut'[q] = fut[q]
    BY <1>1, <1>5, <1>6, Typed
  <2>5. LinePart'
    BY <2>3, <2>4 DEF LinePart, LineOK, QueueInv
  <2>6. load = 0 /\ line # <<>> => \E q \in Producers : OnItsWay(q)'
    BY <2>1, <2>2, <2>4, RoomHandedOn
  <2>7. RoomIsUsed'
    BY <1>1, <1>4, <2>3, <2>6, RoomKept
  <2> QED
    BY <1>1, <1>2, <1>3, <2>5, <2>7, PartsNext
<1>7. CASE ~(fut[p].waiter /\ ~Contains(line, p))
  <2>1. line' = Without(line, p) /\ awake' = awake \ {p}
    BY <1>7 DEF Cancel
  <2>2. LinePart' /\ ToSet(line') = ToSet(line) \ {p}
    BY <1>1, <2>1, LeavesLine
  <2>3. ~OnItsWay(p)
    BY <1>0, <1>5, <1>7 DEF OnItsWay
  <2>4. line' \in Seq(Producers)
    BY <2>2 DEF LinePart
  <2>5. RoomIsUsed'
    BY <1>1, <1>4, <2>1, <2>2, <2>3, <2>4, RoomKept
  <2> QED
    BY <1>1, <1>2, <1>3, <2>2, <2>5, PartsNext
<1> QED
  BY <1>6, <1>7

\* The steps that leave the buffer, the line and the futures alone.
LEMMA EndsKeep ==
    ASSUME QueueInv, UNCHANGED <<buf, load, mode, line, fut, awake>>, EndsPart', ReceiverSleeps',
           receiverAlive' => receiverAlive
    PROVE  QueueInv'
<1>1. BufferPart' /\ FuturePart' /\ LinePart'
  BY Parts DEF BufferPart, BoundedByWeight, FuturePart, LinePart, LineOK
<1>2. RoomIsUsed'
  BY DEF QueueInv, RoomIsUsed, OnItsWay
<1> QED
  BY <1>1, <1>2, PartsNext

LEMMA OtherKeeps ==
    ASSUME QueueInv,
           \/ \E p, q \in Producers : CloneSender(p, q)
           \/ \E p \in Producers : DropSender(p)
           \/ PopEmpty \/ PollAgain \/ AwaitSendersGone
    PROVE  QueueInv'
<1>0. EndsPart /\ ReceiverSleeps
  BY Parts
<1>1. CASE \E p, q \in Producers : CloneSender(p, q)
  <2>1. /\ UNCHANGED <<buf, load, mode, recv, gone, line, fut, awake>>
        /\ senders \subseteq senders' /\ senders' \subseteq Producers
    BY <1>0, <1>1 DEF CloneSender, EndsPart
  <2>2. EndsPart' /\ ReceiverSleeps' /\ (receiverAlive' => receiverAlive)
    BY <1>0, <2>1 DEF EndsPart, ReceiverSleeps, receiverAlive
  <2> QED
    BY <2>1, <2>2, EndsKeep
<1>2. CASE \E p \in Producers : DropSender(p)
  <2>1. /\ UNCHANGED <<buf, load, mode, line, fut, awake>>
        /\ senders' \subseteq senders
        /\ recv' = IF senders' = {} /\ recv = "wait" THEN "run" ELSE recv
        /\ gone' = IF senders' = {} /\ gone = "wait" THEN "run" ELSE gone
    BY <1>2 DEF DropSender
  <2>2. EndsPart' /\ ReceiverSleeps' /\ (receiverAlive' => receiverAlive)
    BY <1>0, <2>1 DEF EndsPart, ReceiverSleeps, receiverAlive
  <2> QED
    BY <2>1, <2>2, EndsKeep
<1>3. CASE PopEmpty
  <2>1. EndsPart' /\ ReceiverSleeps' /\ (receiverAlive' => receiverAlive)
    BY <1>0, <1>3 DEF PopEmpty, EndsPart, ReceiverSleeps, receiverAlive
  <2> QED
    BY <1>3, <2>1, EndsKeep DEF PopEmpty
<1>4. CASE PollAgain
  <2>1. EndsPart' /\ ReceiverSleeps' /\ (receiverAlive' => receiverAlive)
    BY <1>0, <1>4 DEF PollAgain, EndsPart, ReceiverSleeps, receiverAlive
  <2> QED
    BY <1>4, <2>1, EndsKeep DEF PollAgain
<1>5. CASE AwaitSendersGone
  <2>1. EndsPart' /\ ReceiverSleeps' /\ (receiverAlive' => receiverAlive)
    BY <1>0, <1>5 DEF AwaitSendersGone, EndsPart, ReceiverSleeps, receiverAlive
  <2> QED
    BY <1>5, <2>1, EndsKeep DEF AwaitSendersGone
<1> QED
  BY <1>1, <1>2, <1>3, <1>4, <1>5

LEMMA DropReceiverKeeps ==
    ASSUME QueueInv, DropReceiver
    PROVE  QueueInv'
<1>1. /\ recv' = "dropped" /\ line' = <<>> /\ awake' = awake \cup ToSet(line)
      /\ UNCHANGED <<buf, load, mode, senders, gone, fut>>
  BY DEF DropReceiver
<1>2. <<>> \in Seq(Producers) /\ ToSet(<<>>) = {} /\ Len(<<>>) = 0
  BY EmptySeq DEF ToSet
<1>3. LinePart'
  BY <1>1, <1>2, Typed DEF LinePart, LineOK, Distinct
<1>4. BufferPart' /\ FuturePart' /\ EndsPart'
  BY <1>1, Parts DEF BufferPart, BoundedByWeight, FuturePart, EndsPart
<1>5. RoomIsUsed' /\ ReceiverSleeps'
  BY <1>1 DEF RoomIsUsed, ReceiverSleeps
<1> QED
  BY <1>3, <1>4, <1>5, PartsNext

\* The queue keeps its invariant, whatever producers, sizes and watermarks it
\* is given.
THEOREM QueueInvariant == QueueSpec => []QueueInv
<1>1. QueueInv /\ [QueueNext]_queueVars => QueueInv'
  <2> SUFFICES ASSUME QueueInv, [QueueNext]_queueVars
               PROVE  QueueInv'
    OBVIOUS
  <2>1. CASE UNCHANGED queueVars
    BY <2>1 DEF queueVars, QueueInv, QueueTypeOK, BoundedByWeight, LineOK, RoomIsUsed, OnItsWay,
                ReceiverSleeps, receiverAlive
  <2>2. ASSUME NEW p \in Producers,
               \/ \E size \in Sizes : TryPush(p, size)
               \/ \E size \in Sizes, op \in {"push", "room"} : Start(p, op, size)
               \/ TakeQueued(p) \/ Poll(p) \/ Offer(p) \/ Cancel(p)
        PROVE  QueueInv'
    BY <2>2, TryPushKeeps, StartKeeps, TakeQueuedKeeps, PollPushKeeps, PollRoomKeeps, OfferKeeps,
       CancelKeeps DEF Poll
  <2> QED
    BY <2>1, <2>2, PopKeeps, OtherKeeps, DropReceiverKeeps DEF QueueNext
<1> QED
  BY <1>1, QueueInvInit, PTL DEF QueueSpec

\* The account equals the buffered weight and stays within the capacity, but
\* for one event admitted into an empty queue (State::load, fits).
THEOREM QueueBounded == QueueSpec => []BoundedByWeight
<1>1. QueueInv => BoundedByWeight
  BY DEF QueueInv
<1> QED
  BY <1>1, QueueInvariant, PTL

\* No wake is lost: not the receiver's, and not the producers' at an empty
\* queue, through cancellation, retraction and barging (take_admitted_waiters,
\* Drop for ParkedProducer).
THEOREM QueueLosesNoWake == QueueSpec => []NoLostWakeup
<1>1. QueueInv => NoLostWakeup
  <2> SUFFICES ASSUME QueueInv
               PROVE  NoLostWakeup
    OBVIOUS
  <2>1. recv = "wait" => buf = <<>> /\ senders # {}
    BY DEF QueueInv, ReceiverSleeps
  <2>2. ASSUME receiverAlive, load = 0, line # <<>>
        PROVE  \E p \in Producers \ ToSet(line) :
                   \/ fut[p].op \in {"push", "room"} /\ p \in awake
                   \/ fut[p].op = "offer"
    <3>1. PICK p \in Producers : OnItsWay(p)
      BY <2>2 DEF QueueInv, RoomIsUsed
    <3> QED
      BY <3>1 DEF OnItsWay
  <2> QED
    BY <2>1, <2>2 DEF NoLostWakeup
<1> QED
  BY <1>1, QueueInvariant, PTL

-----------------------------------------------------------------------------
\* The history: where each accepted event is.

Ordered(s) == \A i, j \in 1 .. Len(s) : i < j => s[i] < s[j]

\* Degraded mode is entered at the high watermark only, and only adaptively.
ModeInv ==
    /\ mode = "lifo" => Adaptive
    /\ Adaptive /\ mode = "fifo" => load < High
    /\ ~degraded => mode = "fifo"

\* Every number given out is in one place, and there once.
Placed ==
    /\ ToSet(tags) \cup ToSet(delivered) \cup retracted = 0 .. nextSeq - 1
    /\ Ordered(tags) /\ Distinct(delivered)
    /\ ToSet(tags) \cap ToSet(delivered) = {}
    /\ (ToSet(tags) \cup ToSet(delivered)) \cap retracted = {}

HistoryTypeOK ==
    /\ nextSeq \in Nat /\ tags \in Seq(Nat) /\ delivered \in Seq(Nat)
    /\ degraded \in BOOLEAN
    /\ Len(tags) = Len(buf)

\* A queue that was never degraded has delivered in order what precedes the
\* rest.
TagsInOrder ==
    ~degraded =>
        /\ Ordered(delivered)
        /\ \A s \in ToSet(tags), d \in ToSet(delivered) : d < s

HistoryInv == HistoryTypeOK /\ ModeInv /\ Placed /\ TagsInOrder

\* A sequence that grows by a new element, or by a greater one.
LEMMA NumberAppend ==
    ASSUME NEW s \in Seq(Nat), NEW d \in Nat
    PROVE  /\ Append(s, d) \in Seq(Nat) /\ Len(Append(s, d)) = Len(s) + 1
           /\ ToSet(Append(s, d)) = ToSet(s) \cup {d}
           /\ Distinct(s) /\ d \notin ToSet(s) => Distinct(Append(s, d))
           /\ Ordered(s) /\ (\A x \in ToSet(s) : x < d) => Ordered(Append(s, d))
<1> DEFINE t == Append(s, d)
<1>1. /\ t \in Seq(Nat) /\ Len(t) = Len(s) + 1 /\ Len(s) \in Nat
      /\ \A i \in 1 .. Len(s) : t[i] = s[i]
      /\ t[Len(s) + 1] = d
      /\ DOMAIN t = 1 .. Len(t) /\ DOMAIN s = 1 .. Len(s)
  OBVIOUS
<1> HIDE DEF t
<1>2. \A i \in 1 .. Len(t) : i \in 1 .. Len(s) \/ i = Len(s) + 1
  BY <1>1
<1>3. Len(s) + 1 \in 1 .. Len(t) /\ \A i \in 1 .. Len(s) : i \in 1 .. Len(t) /\ i < Len(s) + 1
  BY <1>1
<1>4. ToSet(t) = ToSet(s) \cup {d}
  BY <1>1, <1>2, <1>3 DEF ToSet
<1>5. \A i \in 1 .. Len(s) : s[i] \in ToSet(s)
  BY <1>1 DEF ToSet
<1>6. ASSUME Distinct(s), d \notin ToSet(s)
      PROVE  Distinct(t)
  BY <1>1, <1>2, <1>5, <1>6 DEF Distinct
<1>7. ASSUME Ordered(s), \A x \in ToSet(s) : x < d
      PROVE  Ordered(t)
  <2> SUFFICES ASSUME NEW i \in 1 .. Len(t), NEW j \in 1 .. Len(t), i < j
               PROVE  t[i] < t[j]
    BY DEF Ordered
  <2>1. i \in 1 .. Len(s)
    BY <1>1
  <2>2. CASE j \in 1 .. Len(s)
    BY <1>1, <1>7, <2>1, <2>2 DEF Ordered
  <2>3. CASE j = Len(s) + 1
    BY <1>1, <1>5, <1>7, <2>1, <2>3
  <2> QED
    BY <1>2, <2>2, <2>3
<1> QED
  BY <1>1, <1>4, <1>6, <1>7 DEF t

\* An increasing sequence, less its first element.
LEMMA NumberTail ==
    ASSUME NEW s \in Seq(Nat), s # <<>>, Ordered(s)
    PROVE  /\ Tail(s) \in Seq(Nat) /\ Len(Tail(s)) = Len(s) - 1 /\ Ordered(Tail(s))
           /\ Head(s) \in Nat /\ ToSet(s) = ToSet(Tail(s)) \cup {Head(s)}
           /\ \A x \in ToSet(Tail(s)) : Head(s) < x
<1> DEFINE t == Tail(s)
<1>1. /\ t \in Seq(Nat) /\ Len(t) = Len(s) - 1 /\ Len(s) \in Nat /\ Len(s) >= 1
      /\ \A i \in 1 .. Len(t) : t[i] = s[i + 1]
      /\ Head(s) = s[1] /\ s[1] \in Nat
      /\ DOMAIN t = 1 .. Len(t) /\ DOMAIN s = 1 .. Len(s)
  OBVIOUS
<1> HIDE DEF t
<1>2. \A i \in 1 .. Len(t) : i + 1 \in 1 .. Len(s) /\ 1 < i + 1
  BY <1>1
<1>3. \A i \in 1 .. Len(s) : i = 1 \/ (i - 1 \in 1 .. Len(t) /\ (i - 1) + 1 = i)
  BY <1>1
<1>4. 1 \in 1 .. Len(s)
  BY <1>1
<1>5. Ordered(t)
  <2> SUFFICES ASSUME NEW i \in 1 .. Len(t), NEW j \in 1 .. Len(t), i < j
               PROVE  t[i] < t[j]
    BY DEF Ordered
  <2>1. i + 1 < j + 1
    BY <1>1
  <2> QED
    BY <1>1, <1>2, <2>1 DEF Ordered
<1>6. ToSet(s) = ToSet(t) \cup {s[1]}
  <2>1. \A x \in ToSet(t) : x \in ToSet(s)
    <3>1. \A i \in 1 .. Len(s) : s[i] \in ToSet(s)
      BY <1>1 DEF ToSet
    <3>2. \A i \in 1 .. Len(t) : t[i] \in ToSet(s)
      BY <1>1, <1>2, <3>1
    <3>3. \A x \in ToSet(t) : \E i \in 1 .. Len(t) : x = t[i]
      BY <1>1 DEF ToSet
    <3> QED
      BY <3>2, <3>3
  <2>2. ASSUME NEW i \in 1 .. Len(s)
        PROVE  s[i] \in ToSet(t) \cup {s[1]}
    <3>1. \A j \in 1 .. Len(t) : t[j] \in ToSet(t)
      BY <1>1 DEF ToSet
    <3>2. CASE i = 1
      BY <3>2
    <3>3. CASE i # 1
      <4>1. i - 1 \in 1 .. Len(t) /\ t[i - 1] = s[(i - 1) + 1] /\ (i - 1) + 1 = i
        BY <1>1, <1>3, <3>3
      <4> QED
        BY <3>1, <4>1
    <3> QED
      BY <3>2, <3>3
  <2>3. s[1] \in ToSet(s) /\ \A x \in ToSet(s) : \E i \in 1 .. Len(s) : x = s[i]
    BY <1>1, <1>4 DEF ToSet
  <2> QED
    BY <2>1, <2>2, <2>3
<1>7. \A x \in ToSet(t) : s[1] < x
  BY <1>1, <1>2, <1>4 DEF ToSet, Ordered
<1> QED
  BY <1>1, <1>5, <1>6, <1>7 DEF t

\* An increasing sequence, less its last element.
LEMMA NumberFront ==
    ASSUME NEW s \in Seq(Nat), s # <<>>, Ordered(s)
    PROVE  /\ Front(s) \in Seq(Nat) /\ Len(Front(s)) = Len(s) - 1 /\ Ordered(Front(s))
           /\ Last(s) \in Nat /\ ToSet(s) = ToSet(Front(s)) \cup {Last(s)}
           /\ \A x \in ToSet(Front(s)) : x < Last(s)
<1> DEFINE t == Front(s)
<1>1. /\ Len(s) \in Nat /\ Len(s) >= 1 /\ DOMAIN s = 1 .. Len(s)
      /\ \A i \in 1 .. Len(s) : s[i] \in Nat
  OBVIOUS
<1>2. /\ t \in Seq(Nat) /\ Len(t) = Len(s) - 1
      /\ \A i \in 1 .. (Len(s) - 1) : t[i] = s[i]
  <2>1. \A i \in 1 .. (Len(s) - 1) : s[i] \in Nat
    BY <1>1
  <2>2. 1 \in Int /\ Len(s) - 1 \in Int
    BY <1>1
  <2>3. /\ t \in Seq(Nat)
        /\ Len(t) = IF 1 <= Len(s) - 1 THEN (Len(s) - 1) - 1 + 1 ELSE 0
        /\ \A i \in 1 .. ((Len(s) - 1) - 1 + 1) : t[i] = s[1 + i - 1]
    BY <2>1, <2>2, SubSeqProperties DEF Front
  <2> HIDE DEF t
  <2>4. \A n \in Nat : n >= 1 => /\ (IF 1 <= n - 1 THEN (n - 1) - 1 + 1 ELSE 0) = n - 1
                                 /\ (n - 1) - 1 + 1 = n - 1
    OBVIOUS
  <2>5. Len(t) = Len(s) - 1 /\ (Len(s) - 1) - 1 + 1 = Len(s) - 1
    BY <1>1, <2>3, <2>4, Zenon
  <2>6. \A i \in 1 .. (Len(s) - 1) : 1 + i - 1 = i
    BY <1>1
  <2> QED
    BY <2>3, <2>5, <2>6
<1> HIDE DEF t
<1>3. Last(s) = s[Len(s)] /\ DOMAIN t = 1 .. Len(t) /\ Len(s) \in 1 .. Len(s)
  BY <1>1, <1>2 DEF Last
<1>4. \A i \in 1 .. Len(t) : i \in 1 .. Len(s) /\ i < Len(s)
  BY <1>1, <1>2
<1>5. \A i \in 1 .. Len(s) : i \in 1 .. Len(t) \/ i = Len(s)
  <2>1. \A n \in Nat : \A i \in 1 .. n : i \in 1 .. (n - 1) \/ i = n
    OBVIOUS
  <2> QED
    BY <1>1, <1>2, <2>1, Zenon
<1>6. Ordered(t)
  BY <1>2, <1>4 DEF Ordered
<1>7. ToSet(s) = ToSet(t) \cup {s[Len(s)]}
  BY <1>1, <1>2, <1>3, <1>4, <1>5 DEF ToSet
<1>8. \A x \in ToSet(t) : x < s[Len(s)]
  BY <1>2, <1>3, <1>4 DEF ToSet, Ordered
<1> QED
  BY <1>1, <1>2, <1>3, <1>6, <1>7, <1>8 DEF t

\* How many numbers a sequence without repetition holds.
LEMMA CountDistinct ==
    ASSUME NEW s \in Seq(Nat), Distinct(s)
    PROVE  IsFiniteSet(ToSet(s)) /\ Cardinality(ToSet(s)) = Len(s) /\ Len(s) \in Nat
<1>1. Len(s) \in Nat /\ DOMAIN s = 1 .. Len(s) /\ s \in [1 .. Len(s) -> Nat]
  OBVIOUS
<1>2. s \in [1 .. Len(s) -> ToSet(s)] /\ \A x \in ToSet(s) : \E i \in 1 .. Len(s) : s[i] = x
  BY <1>1 DEF ToSet
<1>3. s \in Bijection(1 .. Len(s), ToSet(s))
  BY <1>2 DEF Bijection, Injection, Surjection, IsInjective, Distinct
<1>4. ExistsBijection(1 .. Len(s), ToSet(s))
  BY <1>3 DEF ExistsBijection
<1>5. IsFiniteSet(1 .. Len(s)) /\ Cardinality(1 .. Len(s)) = Len(s)
  <2>1. /\ IsFiniteSet(1 .. Len(s))
        /\ Cardinality(1 .. Len(s)) = IF 1 > Len(s) THEN 0 ELSE Len(s) - 1 + 1
    BY <1>1, FS_Interval
  <2> QED
    BY <1>1, <2>1
<1> QED
  BY <1>1, <1>4, <1>5, FS_Bijection

LEMMA OrderedIsDistinct ==
    ASSUME NEW s \in Seq(Nat), Ordered(s)
    PROVE  Distinct(s)
<1> SUFFICES ASSUME NEW i \in 1 .. Len(s), NEW j \in 1 .. Len(s), s[i] = s[j]
             PROVE  i = j
  BY DEF Distinct
<1>1. Len(s) \in Nat /\ s[i] \in Nat /\ s[j] \in Nat
  OBVIOUS
<1>2. i < j => s[i] < s[j]
  BY DEF Ordered
<1>3. j < i => s[j] < s[i]
  BY DEF Ordered
<1> QED
  BY <1>1, <1>2, <1>3

LEMMA HistoryInit == HInit => HistoryInv
<1> SUFFICES ASSUME HInit
             PROVE  HistoryInv
  OBVIOUS
<1>1. /\ buf = <<>> /\ load = 0 /\ mode = "fifo" /\ nextSeq = 0 /\ tags = <<>>
      /\ delivered = <<>> /\ retracted = {} /\ degraded = FALSE
  BY DEF HInit, QueueInit
<1>2. <<>> \in Seq(Nat) /\ Len(<<>>) = 0 /\ ToSet(<<>>) = {} /\ Ordered(<<>>) /\ Distinct(<<>>)
  BY EmptySeq DEF ToSet, Ordered, Distinct
<1>3. HistoryTypeOK
  BY <1>1, <1>2 DEF HistoryTypeOK
<1>4. ModeInv
  BY <1>1, QueueAssumption DEF ModeInv
<1>5. Placed
  <2>1. 0 .. nextSeq - 1 = {}
    BY <1>1
  <2> QED
    BY <1>1, <1>2, <2>1 DEF Placed
<1> QED
  BY <1>1, <1>2, <1>3, <1>4, <1>5 DEF HistoryInv, TagsInOrder

\* An accepted event takes the next number, behind all the others.
LEMMA AcceptedKeeps ==
    ASSUME QueueInv, HistoryInv, NEW w \in Weight, Enqueue(w), NextSequence
    PROVE  HistoryInv'
<1>1. /\ nextSeq \in Nat /\ tags \in Seq(Nat) /\ delivered \in Seq(Nat) /\ degraded \in BOOLEAN
      /\ Len(tags) = Len(buf)
  BY DEF HistoryInv, HistoryTypeOK
<1>2. /\ nextSeq' = nextSeq + 1 /\ tags' = Append(tags, nextSeq)
      /\ degraded' = (degraded \/ mode' = "lifo")
      /\ delivered' = delivered /\ retracted' = retracted
      /\ Len(buf') = Len(buf) + 1
  BY DEF NextSequence
<1>3. Placed /\ TagsInOrder /\ ModeInv
  BY DEF HistoryInv
<1>4. \A x \in ToSet(tags) \cup ToSet(delivered) \cup retracted : x \in Nat /\ x < nextSeq
  BY <1>1, <1>3 DEF Placed
<1>5. /\ tags' \in Seq(Nat) /\ Len(tags') = Len(tags) + 1
      /\ ToSet(tags') = ToSet(tags) \cup {nextSeq} /\ Ordered(tags')
  BY <1>1, <1>2, <1>3, <1>4, NumberAppend DEF Placed
<1>6. HistoryTypeOK'
  BY <1>1, <1>2, <1>5 DEF HistoryTypeOK
<1>7. ModeInv'
  <2>1. load' = load + w /\ mode' = ModeAt(load + w) /\ load \in Nat /\ mode \in {"fifo", "lifo"}
    BY DEF Enqueue, QueueInv, QueueTypeOK
  <2>2. w \in Nat
    BY DEF Weight
  <2> QED
    BY <1>2, <1>3, <2>1, <2>2, QueueAssumption DEF ModeInv, ModeAt
<1>8. Placed'
  <2>1. 0 .. nextSeq' - 1 = (0 .. nextSeq - 1) \cup {nextSeq}
    BY <1>1, <1>2
  <2>2. nextSeq \notin ToSet(tags) \cup ToSet(delivered) \cup retracted
    BY <1>1, <1>4
  <2> QED
    BY <1>2, <1>3, <1>5, <2>1, <2>2 DEF Placed
<1>9. TagsInOrder'
  BY <1>2, <1>3, <1>4, <1>5 DEF TagsInOrder
<1> QED
  BY <1>6, <1>7, <1>8, <1>9 DEF HistoryInv

\* A delivered event leaves one end of the buffer, the front unless degraded.
LEMMA DeliveryKeeps ==
    ASSUME QueueInv, HistoryInv, HPop
    PROVE  HistoryInv'
<1>1. /\ nextSeq \in Nat /\ tags \in Seq(Nat) /\ delivered \in Seq(Nat) /\ degraded \in BOOLEAN
      /\ Len(tags) = Len(buf)
  BY DEF HistoryInv, HistoryTypeOK
<1>2. Placed /\ TagsInOrder /\ ModeInv
  BY DEF HistoryInv
<1>3. PICK d, rest : /\ d = IF mode = "fifo" THEN Head(tags) ELSE Last(tags)
                     /\ rest = IF mode = "fifo" THEN Tail(tags) ELSE Front(tags)
  OBVIOUS
<1>4. /\ delivered' = Append(delivered, d) /\ tags' = rest
      /\ UNCHANGED <<nextSeq, retracted, degraded>>
  BY <1>3 DEF HPop
<1>5. /\ buf # <<>> /\ buf' = (IF mode = "fifo" THEN Tail(buf) ELSE Front(buf))
      /\ load' = load - Dequeued /\ mode' = ModeAt(load - Dequeued)
  BY DEF HPop, Pop
<1>6. buf \in Seq(Weight) /\ load \in Nat /\ mode \in {"fifo", "lifo"} /\ load = TotalWeight(buf)
  BY DEF QueueInv, QueueTypeOK, BoundedByWeight
<1>7. /\ Len(buf') = Len(buf) - 1 /\ Dequeued \in Nat /\ load - Dequeued \in Nat
  <2>1. /\ Len(buf') = Len(buf) - 1 /\ Dequeued \in Weight
        /\ TotalWeight(buf') = TotalWeight(buf) - Dequeued /\ TotalWeight(buf') \in Nat
    BY <1>5, BufferPop DEF QueueInv
  <2> QED
    BY <1>6, <2>1 DEF Weight
<1>8. tags # <<>>
  BY <1>1, <1>5, <1>6, EmptySeq
<1>9. /\ rest \in Seq(Nat) /\ Len(rest) = Len(tags) - 1 /\ Ordered(rest) /\ d \in Nat
      /\ ToSet(tags) = ToSet(rest) \cup {d} /\ d \notin ToSet(rest)
      /\ mode = "fifo" => \A x \in ToSet(rest) : d < x
  <2>1. Ordered(tags)
    BY <1>2 DEF Placed
  <2>2. CASE mode = "fifo"
    <3>1. /\ rest \in Seq(Nat) /\ Len(rest) = Len(tags) - 1 /\ Ordered(rest) /\ d \in Nat
          /\ ToSet(tags) = ToSet(rest) \cup {d} /\ \A x \in ToSet(rest) : d < x
      BY <1>1, <1>3, <1>8, <2>1, <2>2, NumberTail
    <3> QED
      BY <3>1
  <2>3. CASE mode # "fifo"
    <3>1. /\ rest \in Seq(Nat) /\ Len(rest) = Len(tags) - 1 /\ Ordered(rest) /\ d \in Nat
          /\ ToSet(tags) = ToSet(rest) \cup {d} /\ \A x \in ToSet(rest) : x < d
      BY <1>1, <1>3, <1>8, <2>1, <2>3, NumberFront
    <3> QED
      BY <2>3, <3>1
  <2> QED
    BY <2>2, <2>3
<1>10. d \in ToSet(tags) /\ d \notin ToSet(delivered) /\ d \notin retracted
  BY <1>2, <1>9 DEF Placed
<1>11. /\ delivered' \in Seq(Nat) /\ ToSet(delivered') = ToSet(delivered) \cup {d}
       /\ Distinct(delivered')
       /\ Ordered(delivered) /\ (\A x \in ToSet(delivered) : x < d) => Ordered(delivered')
  BY <1>1, <1>2, <1>4, <1>9, <1>10, NumberAppend DEF Placed
<1>12. HistoryTypeOK'
  BY <1>1, <1>4, <1>7, <1>9, <1>11 DEF HistoryTypeOK
<1>13. ModeInv'
  BY <1>2, <1>4, <1>5, <1>6, <1>7, QueueAssumption DEF ModeInv, ModeAt
<1>14. Placed'
  <2>1. ToSet(tags') \cup ToSet(delivered') = ToSet(tags) \cup ToSet(delivered)
    BY <1>4, <1>9, <1>11
  <2>2. ToSet(tags') \cap ToSet(delivered') = {}
    BY <1>2, <1>4, <1>9, <1>11 DEF Placed
  <2> QED
    BY <1>2, <1>4, <1>9, <1>11, <2>1, <2>2 DEF Placed
<1>15. TagsInOrder'
  <2> SUFFICES ASSUME ~degraded
               PROVE  /\ Ordered(delivered')
                      /\ \A s \in ToSet(tags'), x \in ToSet(delivered') : x < s
    BY <1>4 DEF TagsInOrder
  <2>1. mode = "fifo"
    BY <1>2 DEF ModeInv
  <2> QED
    BY <1>2, <1>4, <1>9, <1>10, <1>11, <2>1 DEF TagsInOrder
<1> QED
  BY <1>12, <1>13, <1>14, <1>15 DEF HistoryInv

\* A retraction moves every waiting event to the producer.
LEMMA RetractionKeeps ==
    ASSUME QueueInv, HistoryInv, NEW p \in Producers, HTakeQueued(p)
    PROVE  HistoryInv'
<1>1. /\ nextSeq \in Nat /\ tags \in Seq(Nat) /\ delivered \in Seq(Nat) /\ degraded \in BOOLEAN
      /\ Placed /\ TagsInOrder /\ ModeInv
  BY DEF HistoryInv, HistoryTypeOK
<1>2. /\ retracted' = retracted \cup ToSet(tags) /\ tags' = <<>> /\ buf' = <<>> /\ load' = 0
      /\ mode' = ModeAt(0) /\ UNCHANGED <<nextSeq, delivered, degraded>>
  BY DEF HTakeQueued, TakeQueued
<1>3. <<>> \in Seq(Nat) /\ Len(<<>>) = 0 /\ ToSet(<<>>) = {} /\ Ordered(<<>>)
  BY EmptySeq DEF ToSet, Ordered
<1>4. mode \in {"fifo", "lifo"} /\ load \in Nat
  BY DEF QueueInv, QueueTypeOK
<1>5. HistoryTypeOK'
  BY <1>1, <1>2, <1>3 DEF HistoryTypeOK
<1>6. ModeInv'
  BY <1>1, <1>2, <1>4, QueueAssumption DEF ModeInv, ModeAt
<1>7. Placed'
  BY <1>1, <1>2, <1>3 DEF Placed
<1>8. TagsInOrder'
  BY <1>1, <1>2, <1>3 DEF TagsInOrder
<1> QED
  BY <1>5, <1>6, <1>7, <1>8 DEF HistoryInv

LEMMA QuietKeeps ==
    ASSUME HistoryInv, UNCHANGED <<buf, load, mode, history>>
    PROVE  HistoryInv'
  BY DEF HistoryInv, HistoryTypeOK, ModeInv, Placed, TagsInOrder, history

\* A poll or an offer either leaves the buffer alone or puts its event there.
LEMMA PushShape ==
    ASSUME QueueInv, NEW p \in Producers, Poll(p) \/ Offer(p)
    PROVE  \/ UNCHANGED <<buf, load, mode>>
           \/ fut[p].weight \in Weight /\ Enqueue(fut[p].weight)
<1>1. fut[p].op # "none" => fut[p].weight \in Weight
  BY DEF QueueInv, QueueTypeOK
<1> QED
  BY <1>1 DEF Poll, PollPush, PollRoom, Offer, Park

LEMMA EnqueueGrows ==
    ASSUME QueueInv, NEW w \in Weight, Enqueue(w)
    PROVE  Len(buf') = Len(buf) + 1 /\ Len(buf) \in Nat
<1>1. buf \in Seq(Weight) /\ buf' = Append(buf, w)
  BY DEF QueueInv, QueueTypeOK, Enqueue
<1> QED
  BY <1>1, AppendProperties

LEMMA PushKeeps ==
    ASSUME QueueInv, HistoryInv, NEW p \in Producers, HPush(p)
    PROVE  HistoryInv'
<1>1. CASE UNCHANGED <<buf, load, mode>>
  <2>1. Len(buf) \in Nat
    BY DEF QueueInv, QueueTypeOK
  <2>2. NotAccepted
    BY <1>1, <2>1 DEF HPush, NextSequence
  <2> QED
    BY <1>1, <2>2, QuietKeeps DEF NotAccepted
<1>2. CASE fut[p].weight \in Weight /\ Enqueue(fut[p].weight)
  <2>1. Len(buf') = Len(buf) + 1 /\ Len(buf) \in Nat
    BY <1>2, EnqueueGrows
  <2>2. NextSequence
    BY <2>1 DEF HPush, NotAccepted
  <2> QED
    BY <1>2, <2>2, AcceptedKeeps
<1>3. Poll(p) \/ Offer(p)
  BY DEF HPush
<1> QED
  BY <1>1, <1>2, <1>3, PushShape

LEMMA TryPushTagged ==
    ASSUME QueueInv, HistoryInv, NEW p \in Producers, HTryPush(p)
    PROVE  HistoryInv'
<1>1. PICK size \in Sizes : TryPush(p, size)
  BY DEF HTryPush
<1>2. WeightOf(size) \in Weight /\ Enqueue(WeightOf(size))
  BY <1>1, QueueAssumption DEF TryPush, WeightOf, Weight
<1> QED
  BY <1>2, AcceptedKeeps DEF HTryPush

LEMMA HistoryStep ==
    ASSUME QueueInv, HistoryInv, [HNext]_hvars
    PROVE  HistoryInv'
<1>1. CASE UNCHANGED hvars
  BY <1>1, QuietKeeps DEF hvars, queueVars
<1>2. ASSUME NEW p \in Producers, HStart(p)
      PROVE  HistoryInv'
  BY <1>2, QuietKeeps DEF HStart, Start
<1>3. CASE HOther
  <2>1. UNCHANGED <<buf, load, mode>>
    BY <1>3 DEF HOther, CloneSender, Cancel, DropSender, PopEmpty, PollAgain, AwaitSendersGone,
                DropReceiver
  <2> QED
    BY <1>3, <2>1, QuietKeeps DEF HOther
<1> QED
  BY <1>1, <1>2, <1>3, PushKeeps, TryPushTagged, RetractionKeeps, DeliveryKeeps DEF HNext

\* Every step of the queue with its history is a step of the queue.
LEMMA HistoryImplementsQueue == HSpec => QueueSpec
<1>1. HInit => QueueInit
  BY DEF HInit
<1>2. [HNext]_hvars => [QueueNext]_queueVars
  <2> SUFFICES ASSUME [HNext]_hvars
               PROVE  [QueueNext]_queueVars
    OBVIOUS
  <2>1. CASE UNCHANGED hvars
    BY <2>1 DEF hvars
  <2>2. ASSUME NEW p \in Producers, HPush(p) \/ HTryPush(p) \/ HTakeQueued(p) \/ HStart(p)
        PROVE  QueueNext
    BY <2>2 DEF HPush, HTryPush, HTakeQueued, HStart, QueueNext
  <2>3. HPop \/ HOther => QueueNext
    BY DEF HPop, HOther, QueueNext
  <2> QED
    BY <2>1, <2>2, <2>3 DEF HNext
<1> QED
  BY <1>1, <1>2, PTL DEF HSpec, QueueSpec

\* The history keeps its invariant: the numbers next_sequence gives out are
\* where the queue says they are, and a queue in order stays so.
THEOREM HistoryInvariant == HSpec => []HistoryInv
<1>1. HistoryInv /\ QueueInv /\ [HNext]_hvars => HistoryInv'
  BY HistoryStep
<1> QED
  BY <1>1, HistoryInit, HistoryImplementsQueue, QueueInvariant, PTL DEF HSpec, HInit

\* A queue that was never degraded delivers in push order, whatever was
\* retracted or cancelled in between (dequeue, take_queued).
THEOREM DeliversInOrder == HSpec => []FifoDelivery
<1>1. HistoryInv => FifoDelivery
  <2> SUFFICES ASSUME HistoryInv, ~degraded
               PROVE  /\ \A i, j \in DOMAIN delivered : i < j => delivered[i] < delivered[j]
                      /\ \A s \in ToSet(tags), d \in ToSet(delivered) : d < s
    BY DEF FifoDelivery
  <2>1. delivered \in Seq(Nat) /\ DOMAIN delivered = 1 .. Len(delivered)
    BY DEF HistoryInv, HistoryTypeOK
  <2> QED
    BY <2>1 DEF HistoryInv, TagsInOrder, Ordered
<1> QED
  BY <1>1, HistoryInvariant, PTL

\* Every accepted event is in one place, once: buffered, delivered or back
\* with its producer.  The count follows from the places being disjoint.
THEOREM EventsAccounted == HSpec => []DeliveredOrReturned
<1>1. HistoryInv => DeliveredOrReturned
  <2> SUFFICES ASSUME HistoryInv
               PROVE  DeliveredOrReturned
    OBVIOUS
  <2>1. nextSeq \in Nat /\ tags \in Seq(Nat) /\ delivered \in Seq(Nat) /\ Placed
    BY DEF HistoryInv, HistoryTypeOK
  <2> DEFINE A == ToSet(tags)
             B == ToSet(delivered)
             C == retracted
             N == 0 .. nextSeq - 1
  <2>2. A \cup B \cup C = N /\ A \cap B = {} /\ (A \cup B) \cap C = {}
    BY <2>1 DEF Placed
  <2>3. IsFiniteSet(A) /\ Cardinality(A) = Len(tags) /\ Len(tags) \in Nat
    BY <2>1, CountDistinct, OrderedIsDistinct DEF Placed
  <2>4. IsFiniteSet(B) /\ Cardinality(B) = Len(delivered) /\ Len(delivered) \in Nat
    BY <2>1, CountDistinct DEF Placed
  <2>5. IsFiniteSet(N) /\ Cardinality(N) = nextSeq
    <3>1. 0 \in Int /\ nextSeq - 1 \in Int
      BY <2>1
    <3>2. /\ IsFiniteSet(N)
          /\ Cardinality(N) = IF 0 > nextSeq - 1 THEN 0 ELSE (nextSeq - 1) - 0 + 1
      BY <3>1, FS_Interval
    <3> HIDE DEF N
    <3> QED
      BY <2>1, <3>2
  <2> HIDE DEF A, B, C, N
  <2>6. C \in SUBSET N
    BY <2>2
  <2>7. IsFiniteSet(C) /\ Cardinality(C) \in Nat
    BY <2>5, <2>6, FS_Subset, FS_CardinalityType
  <2>8. /\ IsFiniteSet(A \cup B)
        /\ Cardinality(A \cup B) = Cardinality(A) + Cardinality(B) - Cardinality({})
    BY <2>2, <2>3, <2>4, FS_Union
  <2>9. Cardinality(A \cup B \cup C) = Cardinality(A \cup B) + Cardinality(C) - Cardinality({})
    BY <2>2, <2>7, <2>8, FS_Union
  <2>10. Cardinality({}) = 0
    BY FS_EmptySet
  <2>11. Len(tags) + Len(delivered) + Cardinality(C) = nextSeq
    <3>1. nextSeq = (Len(tags) + Len(delivered) - 0) + Cardinality(C) - 0
      BY <2>2, <2>3, <2>4, <2>5, <2>8, <2>9, <2>10, Zenon
    <3>2. \A a, b, c \in Nat : a + b + c = (a + b - 0) + c - 0
      OBVIOUS
    <3> QED
      BY <2>3, <2>4, <2>7, <3>1, <3>2, Zenon
  <2> QED
    BY <2>1, <2>11 DEF C, DeliveredOrReturned, Placed
<1> QED
  BY <1>1, HistoryInvariant, PTL

-----------------------------------------------------------------------------
(* The session stream of an edge. *)

Talking == {"reading", "waiting", "spent"}

Frame ==
    [type : {"Open"}, session : Sessions, n : {0}]
    \cup [type : {"Line"}, session : Sessions, n : Nat \ {0}]
    \cup [type : {"Closed", "WriteFailed"}, session : Sessions, n : {0}]

Answer ==
    [type : {"Credit"}, n : Nat] \cup [type : {"Kill", "End"}, session : Sessions, n : {0}]

Word == {"Open", "Line", "Closed"} \X Nat

LinkTypes ==
    /\ conn \in [Sessions -> Talking \cup {"none", "draining", "failed", "done"}]
    /\ live \subseteq Sessions /\ held \subseteq Sessions /\ ended \subseteq Sessions
    /\ credit \in Nat /\ returned \in Nat /\ lost \in Nat /\ inFlight \in Int
    /\ said \in [Sessions -> Nat]
    /\ linked \in BOOLEAN /\ reading \in BOOLEAN /\ fault \in BOOLEAN
    /\ up \in Seq(Frame) /\ inputs \in Seq(Frame) /\ down \in Seq(Answer)
    /\ \A i \in DOMAIN inputs : inputs[i].type # "WriteFailed"
    /\ pump \in [Sessions -> {"none", "running", "removing", "done"}]
    /\ shard \in [Sessions -> Seq(Word)]

-----------------------------------------------------------------------------
\* What a queue of frames holds of a session: the numbers of its Open (0) and
\* lines, and whether it says that the session is over.

Data(frame, s) == frame.session = s /\ frame.type \in {"Open", "Line"}
Over(frame, s) == frame.session = s /\ frame.type \notin {"Open", "Line"}

Nums(frames, s) == {frames[i].n : i \in {j \in DOMAIN frames : Data(frames[j], s)}}
Ends(frames, s) == \E i \in DOMAIN frames : Over(frames[i], s)

InOrder(frames, s) ==
    \A i, j \in DOMAIN frames : i < j /\ Data(frames[j], s) =>
        /\ Data(frames[i], s) => frames[i].n < frames[j].n
        /\ ~Over(frames[i], s)

\* The shard has been told, or a frame on its way will tell it.
OpenTold(s) == shard[s] # <<>> \/ 0 \in Nums(inputs, s)
ClosedTold(s) == Heard(s, "Closed") \/ Ends(inputs, s)

\* The session's lines that are still on the wire will be taken.
Expecting(s) == (s \in held /\ ~ClosedTold(s)) \/ 0 \in Nums(up, s)

HeardInOrder(s) ==
    \A i \in DOMAIN shard[s] :
        /\ shard[s][i][1] = "Open" <=> i = 1
        /\ shard[s][i][1] = "Line" => shard[s][i][2] = i - 1
        /\ i > 1 /\ shard[s][i - 1][1] = "Closed" => shard[s][i][1] = "Closed"

\* What the core holds of a session: the next number the shard is owed, and no
\* number missing behind it.
CoreOrder(s) ==
    /\ HeardInOrder(s) /\ InOrder(inputs, s)
    /\ \A n \in Nums(inputs, s) :
           n >= Len(shard[s]) /\ (n = Len(shard[s]) \/ n - 1 \in Nums(inputs, s))
    /\ Heard(s, "Closed") => Nums(inputs, s) = {}
    /\ Ends(inputs, s) \/ s \in held => OpenTold(s)

\* What is on the wire of it.
WireOrder(s) ==
    /\ InOrder(up, s)
    /\ 0 \in Nums(up, s) =>
           s \notin held /\ shard[s] = <<>> /\ Nums(inputs, s) = {} /\ ~Ends(inputs, s)
    /\ Expecting(s) => \A n \in Nums(up, s) :
           /\ n >= Len(shard[s]) /\ \A m \in Nums(inputs, s) : m < n
           /\ n = Len(shard[s]) \/ n - 1 \in Nums(inputs, s) \/ n - 1 \in Nums(up, s)
    /\ s \in held /\ ClosedTold(s) => Nums(up, s) = {}

\* What its connection may still send.
ConnOrder(s) ==
    /\ \A n \in Nums(inputs, s) \cup Nums(up, s) : n <= said[s]
    /\ linked /\ reading /\ conn[s] \in Talking /\ Expecting(s) =>
           Len(shard[s]) = said[s] + 1 \/ said[s] \in Nums(inputs, s) \/ said[s] \in Nums(up, s)
    /\ reading /\ conn[s] \in Talking => ~ClosedTold(s) /\ ~Ends(up, s)
    /\ conn[s] = "none" =>
           /\ said[s] = 0 /\ shard[s] = <<>> /\ s \notin held
           /\ Nums(inputs, s) = {} /\ Nums(up, s) = {} /\ ~Ends(up, s)

SessionOrder(s) == CoreOrder(s) /\ WireOrder(s) /\ ConnOrder(s)
OrderInv == \A s \in Sessions : SessionOrder(s)

-----------------------------------------------------------------------------
\* No session is left behind.

\* The core has never taken the session, and never will.
Never(s) == 0 \notin Nums(up, s) /\ ~OpenTold(s)

Remembered(s) ==
    /\ OpenTold(s) => s \in held \/ ClosedTold(s) \/ s \in ended
    /\ pump[s] = "removing" => s \in ended
    /\ linked /\ reading /\ conn[s] \in {"draining", "done"} =>
           Ends(up, s) \/ ClosedTold(s) \/ s \in ended \/ Never(s)
    /\ linked /\ reading /\ conn[s] \in Talking /\ s \notin live => s \in ended \/ Never(s)

AnswerTrue(answer) ==
    /\ answer.type = "Kill" => Never(answer.session) /\ conn[answer.session] # "none"
    /\ answer.type = "End" => answer.session \in ended

AnswersTrue == \A i \in DOMAIN down : AnswerTrue(down[i])

EndInv == (\A s \in Sessions : Remembered(s)) /\ AnswersTrue /\ (~reading => held = {})

-----------------------------------------------------------------------------
\* The credits.

Spent == {s \in Sessions : conn[s] = "spent"}

CreditInv ==
    /\ ~fault
    /\ reading => LinesIn(up) + inFlight <= Window
    /\ linked /\ reading =>
          credit + Cardinality(Spent) + LinesIn(up) + inFlight + returned + CreditsIn(down) + lost
          = Window

-----------------------------------------------------------------------------
\* Queues of frames.

LEMMA AppendAt ==
    ASSUME NEW S, NEW q \in Seq(S), NEW f \in S
    PROVE  /\ Append(q, f) \in Seq(S) /\ Len(q) \in Nat
           /\ DOMAIN q = 1 .. Len(q) /\ DOMAIN Append(q, f) = 1 .. (Len(q) + 1)
           /\ \A i \in 1 .. Len(q) : Append(q, f)[i] = q[i]
           /\ Append(q, f)[Len(q) + 1] = f
BY AppendProperties, LenProperties

LEMMA TailAt ==
    ASSUME NEW S, NEW q \in Seq(S), q # <<>>
    PROVE  /\ Tail(q) \in Seq(S) /\ Head(q) \in S /\ Len(q) \in Nat /\ Len(q) >= 1
           /\ DOMAIN q = 1 .. Len(q) /\ DOMAIN Tail(q) = 1 .. (Len(q) - 1)
           /\ Head(q) = q[1] /\ \A i \in 1 .. (Len(q) - 1) : Tail(q)[i] = q[i + 1]
<1>1. Len(q) \in Nat /\ DOMAIN q = 1 .. Len(q) /\ Len(q) # 0
  BY LenProperties, EmptySeq
<1>2. Tail(q) \in Seq(S) /\ Head(q) \in S /\ Len(Tail(q)) = Len(q) - 1
  BY HeadTailProperties
<1>3. DOMAIN Tail(q) = 1 .. (Len(q) - 1)
  BY <1>2, LenProperties
<1>4. Head(q) = q[1] /\ \A i \in 1 .. (Len(q) - 1) : Tail(q)[i] = q[i + 1]
  BY <1>1, HeadTailProperties
<1> QED
  BY <1>1, <1>2, <1>3, <1>4

LEMMA PrefixAt ==
    ASSUME NEW S, NEW q \in Seq(S), NEW k \in 0 .. Len(q)
    PROVE  /\ SubSeq(q, 1, k) \in Seq(S) /\ Len(q) \in Nat
           /\ DOMAIN q = 1 .. Len(q) /\ DOMAIN SubSeq(q, 1, k) = 1 .. k
           /\ \A i \in 1 .. k : SubSeq(q, 1, k)[i] = q[i]
<1>1. Len(q) \in Nat /\ DOMAIN q = 1 .. Len(q)
  BY LenProperties
<1>2. \A i \in 1 .. k : q[i] \in S
  BY <1>1, ElementOfSeq
<1> QED
  BY <1>1, <1>2, SubSeqProperties

\* A frame of a session is one that carries it on or one that ends it.
LEMMA FrameFacts ==
    ASSUME NEW f \in Frame
    PROVE  /\ f.session \in Sessions /\ f.n \in Nat
           /\ f.type \in {"Open", "Line", "Closed", "WriteFailed"}
           /\ f.type = "Line" <=> f.n # 0
           /\ \A s : Data(f, s) => (f.n = 0 <=> f.type = "Open") /\ ~Over(f, s)
BY DEF Frame, Data, Over

LEMMA NumsNat ==
    ASSUME NEW q \in Seq(Frame), NEW s
    PROVE  /\ Nums(q, s) \subseteq Nat
           /\ \A n : n \in Nums(q, s) <=> \E i \in DOMAIN q : Data(q[i], s) /\ q[i].n = n
<1>1. \A i \in DOMAIN q : q[i] \in Frame
  BY ElementOfSeq, LenProperties
<1> QED
  BY <1>1, FrameFacts DEF Nums

LEMMA NothingQueued ==
    ASSUME NEW s
    PROVE  Nums(<<>>, s) = {} /\ ~Ends(<<>>, s) /\ InOrder(<<>>, s)
BY DEF Nums, Ends, InOrder

\* A frame is put behind the others: what the queue now holds of a session, and
\* when it is still in order.
LEMMA AppendNums ==
    ASSUME NEW q \in Seq(Frame), NEW f \in Frame, NEW s
    PROVE  /\ Data(f, s) => Nums(Append(q, f), s) = Nums(q, s) \cup {f.n}
           /\ ~Data(f, s) => Nums(Append(q, f), s) = Nums(q, s)
           /\ Ends(Append(q, f), s) <=> Ends(q, s) \/ Over(f, s)
<1> PICK p : p = Append(q, f)
  OBVIOUS
<1>1. /\ p \in Seq(Frame) /\ Len(q) \in Nat /\ DOMAIN q = 1 .. Len(q) /\ DOMAIN p = 1 .. (Len(q) + 1)
      /\ \A i \in 1 .. Len(q) : p[i] = q[i]
      /\ p[Len(q) + 1] = f
  BY AppendAt
<1>2. \A i \in DOMAIN p : i = Len(q) + 1 \/ (i \in DOMAIN q /\ p[i] = q[i])
  BY <1>1
<1>3. \A i \in DOMAIN q : i \in DOMAIN p /\ p[i] = q[i]
  BY <1>1
<1>4. Len(q) + 1 \in DOMAIN p
  BY <1>1
<1>s. p \in Seq(Frame)
  BY <1>1
<1>n. /\ \A n : n \in Nums(q, s) <=> \E i \in DOMAIN q : Data(q[i], s) /\ q[i].n = n
      /\ \A n : n \in Nums(p, s) <=> \E i \in DOMAIN p : Data(p[i], s) /\ p[i].n = n
  BY <1>s, NumsNat, Zenon
<1>m. \A n : n \in Nums(p, s) <=> (n \in Nums(q, s) \/ (Data(f, s) /\ n = f.n))
  <2> TAKE n
  <2>1. ASSUME n \in Nums(p, s) PROVE n \in Nums(q, s) \/ (Data(f, s) /\ n = f.n)
    BY <1>n, <1>1, <1>2, <2>1
  <2>2. ASSUME n \in Nums(q, s) PROVE n \in Nums(p, s)
    BY <1>n, <1>3, <2>2
  <2>3. ASSUME Data(f, s), n = f.n PROVE n \in Nums(p, s)
    BY <1>n, <1>1, <1>4, <2>3
  <2> QED
    BY <2>1, <2>2, <2>3
<1>5. Data(f, s) => Nums(p, s) = Nums(q, s) \cup {f.n}
  BY <1>m
<1>6. ~Data(f, s) => Nums(p, s) = Nums(q, s)
  BY <1>m
<1>7. Ends(p, s) <=> Ends(q, s) \/ Over(f, s)
  BY <1>1, <1>2, <1>3, <1>4 DEF Ends
<1> QED
  BY <1>5, <1>6, <1>7

LEMMA AppendInOrder ==
    ASSUME NEW q \in Seq(Frame), NEW f \in Frame, NEW s, InOrder(q, s),
           Data(f, s) => ~Ends(q, s) /\ \A n \in Nums(q, s) : n < f.n
    PROVE  InOrder(Append(q, f), s)
<1> PICK p : p = Append(q, f)
  OBVIOUS
<1>1. /\ p \in Seq(Frame) /\ Len(q) \in Nat /\ DOMAIN q = 1 .. Len(q) /\ DOMAIN p = 1 .. (Len(q) + 1)
      /\ \A i \in 1 .. Len(q) : p[i] = q[i]
      /\ p[Len(q) + 1] = f
  BY AppendAt
<1>2. \A i \in DOMAIN p : i = Len(q) + 1 \/ (i \in DOMAIN q /\ p[i] = q[i])
  BY <1>1
<1>3. \A i \in DOMAIN q : i \in DOMAIN p /\ p[i] = q[i]
  BY <1>1
<1>4. Len(q) + 1 \in DOMAIN p
  BY <1>1
<1> SUFFICES ASSUME NEW i \in DOMAIN p, NEW j \in DOMAIN p, i < j, Data(p[j], s)
             PROVE  (Data(p[i], s) => p[i].n < p[j].n) /\ ~Over(p[i], s)
  BY DEF InOrder
<1>5. i \in DOMAIN q /\ p[i] = q[i]
  BY <1>1
<1>6. CASE j \in DOMAIN q
  BY <1>3, <1>5, <1>6 DEF InOrder
<1>7. CASE j = Len(q) + 1
  BY <1>1, <1>5, <1>7, NumsNat DEF Ends
<1> QED
  BY <1>2, <1>6, <1>7

LEMMA TailFrame ==
    ASSUME NEW q \in Seq(Frame), q # <<>>, NEW s, InOrder(q, s), NEW p, p = Tail(q),
           NEW f, f = Head(q)
    PROVE  /\ InOrder(p, s)
           /\ Data(f, s) => /\ f.n \in Nums(q, s) /\ Nums(p, s) = Nums(q, s) \ {f.n}
                            /\ \A n \in Nums(q, s) : f.n <= n
           /\ ~Data(f, s) => Nums(p, s) = Nums(q, s)
           /\ Over(f, s) => Nums(p, s) = {}
           /\ Ends(q, s) <=> Over(f, s) \/ Ends(p, s)
<1>1. /\ p \in Seq(Frame) /\ f \in Frame /\ Len(q) \in Nat /\ Len(q) >= 1
      /\ DOMAIN q = 1 .. Len(q) /\ DOMAIN p = 1 .. (Len(q) - 1)
      /\ f = q[1] /\ \A i \in 1 .. (Len(q) - 1) : p[i] = q[i + 1]
  BY TailAt
<1>2. \A i \in DOMAIN p : i + 1 \in DOMAIN q /\ 1 < i + 1 /\ p[i] = q[i + 1]
  BY <1>1
<1>3. \A i \in DOMAIN q : i = 1 \/ (i - 1 \in DOMAIN p /\ p[i - 1] = q[i])
  BY <1>1
<1>4. 1 \in DOMAIN q
  BY <1>1
<1>5. InOrder(p, s)
  <2> SUFFICES ASSUME NEW i \in DOMAIN p, NEW j \in DOMAIN p, i < j, Data(p[j], s)
               PROVE  (Data(p[i], s) => p[i].n < p[j].n) /\ ~Over(p[i], s)
    BY DEF InOrder
  <2>1. i + 1 \in DOMAIN q /\ j + 1 \in DOMAIN q /\ i + 1 < j + 1
    BY <1>1
  <2> QED
    BY <1>2, <2>1 DEF InOrder
<1>6. \A i \in DOMAIN p : Data(p[i], s) => (Data(f, s) => f.n < p[i].n) /\ ~Over(f, s)
  BY <1>1, <1>2, <1>4 DEF InOrder
<1>7. f.n \in Nat /\ \A i \in DOMAIN p : p[i].n \in Nat
  BY <1>1, FrameFacts, ElementOfSeq, LenProperties
<1>s. p \in Seq(Frame)
  BY <1>1
<1>n. /\ \A n : n \in Nums(q, s) <=> \E i \in DOMAIN q : Data(q[i], s) /\ q[i].n = n
      /\ \A n : n \in Nums(p, s) <=> \E i \in DOMAIN p : Data(p[i], s) /\ p[i].n = n
  BY <1>s, NumsNat, Zenon
<1>8. \A n : n \in Nums(q, s) <=> (n \in Nums(p, s) \/ (Data(f, s) /\ n = f.n))
  <2> TAKE n
  <2>1. ASSUME n \in Nums(q, s) PROVE n \in Nums(p, s) \/ (Data(f, s) /\ n = f.n)
    <3>1. PICK i \in DOMAIN q : Data(q[i], s) /\ q[i].n = n
      BY <1>n, <2>1
    <3>2. CASE i = 1
      BY <1>1, <3>1, <3>2
    <3>3. CASE i - 1 \in DOMAIN p /\ p[i - 1] = q[i]
      BY <1>n, <3>1, <3>3
    <3> QED
      BY <1>3, <3>2, <3>3
  <2>2. ASSUME n \in Nums(p, s) PROVE n \in Nums(q, s)
    BY <1>n, <1>2, <2>2
  <2>3. ASSUME Data(f, s), n = f.n PROVE n \in Nums(q, s)
    BY <1>n, <1>1, <1>4, <2>3
  <2> QED
    BY <2>1, <2>2, <2>3
<1>9. \A n \in Nums(p, s) : (Data(f, s) => f.n < n) /\ ~Over(f, s) /\ n \in Nat
  BY <1>n, <1>6, <1>7
<1>10. Ends(q, s) <=> Over(f, s) \/ Ends(p, s)
  BY <1>1, <1>2, <1>3, <1>4 DEF Ends
<1>11. Data(f, s) => /\ f.n \in Nums(q, s) /\ Nums(p, s) = Nums(q, s) \ {f.n}
                     /\ \A n \in Nums(q, s) : f.n <= n
  BY <1>7, <1>8, <1>9
<1>12. ~Data(f, s) => Nums(p, s) = Nums(q, s)
  BY <1>8
<1>13. Over(f, s) => Nums(p, s) = {}
  BY <1>9
<1> QED
  BY <1>5, <1>10, <1>11, <1>12, <1>13

LEMMA PrefixFrames ==
    ASSUME NEW q \in Seq(Frame), NEW k \in 0 .. Len(q), NEW s, InOrder(q, s),
           NEW p, p = SubSeq(q, 1, k)
    PROVE  /\ InOrder(p, s) /\ (Ends(p, s) => Ends(q, s))
           /\ Nums(p, s) \subseteq Nums(q, s)
           /\ \A n \in Nums(p, s), m \in Nums(q, s) : m < n => m \in Nums(p, s)
<1>1. /\ p \in Seq(Frame) /\ Len(q) \in Nat /\ DOMAIN q = 1 .. Len(q) /\ DOMAIN p = 1 .. k
      /\ \A i \in 1 .. k : p[i] = q[i]
  BY PrefixAt
<1>2. \A i \in DOMAIN p : i \in DOMAIN q /\ p[i] = q[i]
  BY <1>1
<1>3. InOrder(p, s) /\ (Ends(p, s) => Ends(q, s))
  BY <1>2 DEF InOrder, Ends
<1>s. p \in Seq(Frame)
  BY <1>1
<1>n. /\ \A n : n \in Nums(q, s) <=> \E i \in DOMAIN q : Data(q[i], s) /\ q[i].n = n
      /\ \A n : n \in Nums(p, s) <=> \E i \in DOMAIN p : Data(p[i], s) /\ p[i].n = n
      /\ Nums(q, s) \subseteq Nat /\ Nums(p, s) \subseteq Nat
  BY <1>s, NumsNat, Zenon
<1>4. Nums(p, s) \subseteq Nums(q, s)
  BY <1>2, <1>n
<1>5. ASSUME NEW n \in Nums(p, s), NEW m \in Nums(q, s), m < n
      PROVE  m \in Nums(p, s)
  <2>1. PICK i \in DOMAIN p : Data(p[i], s) /\ p[i].n = n
    BY <1>n
  <2>2. PICK j \in DOMAIN q : Data(q[j], s) /\ q[j].n = m
    BY <1>n
  <2>3. n \in Nat /\ m \in Nat /\ i \in DOMAIN q /\ p[i] = q[i]
    BY <1>2, <1>n
  <2>4. ~(i < j) /\ i # j
    BY <1>5, <2>1, <2>2, <2>3 DEF InOrder
  <2>5. j \in DOMAIN p /\ p[j] = q[j]
    BY <1>1, <2>4
  <2> QED
    BY <1>n, <2>2, <2>5
<1> QED
  BY <1>3, <1>4, <1>5

\* A frame is put behind the others on the wire.
LEMMA UpAppended ==
    ASSUME NEW s, up \in Seq(Frame), NEW f \in Frame, up' = Append(up, f)
    PROVE  /\ Data(f, s) => Nums(up', s) = Nums(up, s) \cup {f.n}
           /\ ~Data(f, s) => Nums(up', s) = Nums(up, s)
           /\ Ends(up', s) <=> Ends(up, s) \/ Over(f, s)
           /\ InOrder(up, s) /\ (Data(f, s) => ~Ends(up, s) /\ \A n \in Nums(up, s) : n < f.n)
                  => InOrder(up', s)
<1>1. up \in Seq(Frame)
  OBVIOUS
<1>2. /\ Data(f, s) => Nums(up', s) = Nums(up, s) \cup {f.n}
      /\ ~Data(f, s) => Nums(up', s) = Nums(up, s)
      /\ Ends(up', s) <=> Ends(up, s) \/ Over(f, s)
  BY <1>1, AppendNums
<1>3. ASSUME InOrder(up, s), Data(f, s) => ~Ends(up, s) /\ \A n \in Nums(up, s) : n < f.n
      PROVE  InOrder(up', s)
  BY <1>1, <1>3, AppendInOrder
<1> QED
  BY <1>2, <1>3

-----------------------------------------------------------------------------
\* The types.

LEMMA MsgTyped ==
    ASSUME NEW s \in Sessions
    PROVE  /\ Msg("Open", s, 0) \in Frame /\ Msg("Closed", s, 0) \in Frame
           /\ Msg("WriteFailed", s, 0) \in Frame
           /\ \A n \in Nat \ {0} : Msg("Line", s, n) \in Frame
           /\ Msg("Kill", s, 0) \in Answer /\ Msg("End", s, 0) \in Answer
           /\ \A n \in Nat : Credit(n) \in Answer
           /\ \A n \in Nat : /\ <<"Open", n>> \in Word /\ <<"Line", n>> \in Word
                             /\ <<"Closed", n>> \in Word
BY DEF Msg, Credit, Frame, Answer, Word

\* A send on the stream.
LEMMA SendUpTyped ==
    ASSUME up \in Seq(Frame), NEW f \in Frame, SendUp(f)
    PROVE  /\ up' \in Seq(Frame)
           /\ linked /\ reading => up' = Append(up, f)
           /\ ~(linked /\ reading) => up' = up
BY AppendAt DEF SendUp

LEMMA InputTyped ==
    ASSUME LinkTypes, NEW f \in Frame, f.type # "WriteFailed", inputs' = Append(inputs, f)
    PROVE  inputs' \in Seq(Frame) /\ \A i \in DOMAIN inputs' : inputs'[i].type # "WriteFailed"
<1>1. inputs \in Seq(Frame) /\ \A i \in DOMAIN inputs : inputs[i].type # "WriteFailed"
  BY DEF LinkTypes
<1>2. /\ Append(inputs, f) \in Seq(Frame) /\ Len(inputs) \in Nat
      /\ DOMAIN inputs = 1 .. Len(inputs) /\ DOMAIN Append(inputs, f) = 1 .. (Len(inputs) + 1)
      /\ \A i \in 1 .. Len(inputs) : Append(inputs, f)[i] = inputs[i]
      /\ Append(inputs, f)[Len(inputs) + 1] = f
  BY <1>1, AppendAt
<1> QED
  BY <1>1, <1>2

LEMMA DownTyped ==
    ASSUME LinkTypes, NEW f \in Answer
    PROVE  Append(down, f) \in Seq(Answer)
BY AppendAt DEF LinkTypes

-----------------------------------------------------------------------------
\* What the core does with a frame.

PumpStands ==
    /\ pump' \in [Sessions -> {"none", "running", "removing", "done"}]
    /\ \A s \in Sessions : pump'[s] = "removing" => pump[s] = "removing"

Breaks(f) ==
    /\ f.session \in held
    /\ f.type = "Open" \/ (f.type = "Line" /\ inFlight + 1 > Window)
    /\ UNCHANGED <<held, inFlight, inputs, pump, down>> /\ fault' = TRUE

Drops(f) ==
    /\ f.session \notin held /\ f.type # "Open"
    /\ UNCHANGED <<held, inFlight, inputs, pump, down, fault>>

Refuses(f) ==
    /\ f.session \notin held /\ f.type = "Open"
    /\ down' = down \/ down' = Append(down, Msg("Kill", f.session, 0))
    /\ UNCHANGED <<held, inFlight, inputs, pump, fault>>

Opens(f) ==
    /\ f.session \notin held /\ f.type = "Open"
    /\ inputs' = Append(inputs, f) /\ held' = held \cup {f.session} /\ PumpStands
    /\ UNCHANGED <<inFlight, down, fault>>

Takes(f) ==
    /\ f.session \in held /\ f.type = "Line" /\ inFlight' = inFlight + 1
    /\ inputs' = Append(inputs, f)
    /\ UNCHANGED <<held, pump, down, fault>>

Closes(f) ==
    /\ f.session \in held /\ f.type \in {"Closed", "WriteFailed"}
    /\ inputs' = Append(inputs, Msg("Closed", f.session, 0))
    /\ held' = held \/ held' = held \ {f.session}
    /\ PumpStands
    /\ UNCHANGED <<inFlight, down, fault>>

LEMMA EdgeGoneStands ==
    ASSUME LinkTypes, NEW leavers, EdgeGone(leavers)
    PROVE  PumpStands
BY DEF EdgeGone, LinkTypes, PumpStands

LEMMA ReadUpCases ==
    ASSUME LinkTypes, ReadUp, NEW f, f = Head(up)
    PROVE  /\ reading /\ up # <<>> /\ f \in Frame /\ f.session \in Sessions /\ up' = Tail(up)
           /\ UNCHANGED <<edgeVars, reading, pusher, returned, shard, ended>>
           /\ lost' = IF f.type = "Line" /\ f.session \notin held THEN lost + 1 ELSE lost
           /\ Breaks(f) \/ Drops(f) \/ Refuses(f) \/ Opens(f) \/ Takes(f) \/ Closes(f)
<1>1. /\ reading /\ up # <<>> /\ up' = Tail(up)
      /\ UNCHANGED <<edgeVars, reading, pusher, returned, shard, ended>>
      /\ lost' = IF f.type = "Line" /\ f.session \notin held THEN lost + 1 ELSE lost
  BY DEF ReadUp
<1>2. f \in Frame /\ f.session \in Sessions
  BY <1>1, TailAt, FrameFacts DEF LinkTypes
<1>3. (f.type = "Open" => f = Msg("Open", f.session, 0)) /\ (f.type = "Line" => f = Msg("Line", f.session, f.n))
  BY <1>2 DEF Frame, Msg
<1> SUFFICES Breaks(f) \/ Drops(f) \/ Refuses(f) \/ Opens(f) \/ Takes(f) \/ Closes(f)
  BY <1>1, <1>2
<1>4. CASE f.type = "Open" /\ OnOpen(f.session)
  <2>1. CASE f.session \in held /\ Broken
    BY <1>4, <2>1 DEF Broken, Breaks
  <2>2. CASE /\ f.session \notin held
             /\ down' = IF linked THEN Append(down, Msg("Kill", f.session, 0)) ELSE down
             /\ UNCHANGED <<held, inFlight, inputs, pump, fault>>
    BY <1>4, <2>2 DEF Refuses
  <2>3. CASE /\ f.session \notin held
             /\ inputs' = Append(inputs, Msg("Open", f.session, 0))
             /\ held' = held \cup {f.session}
             /\ pump' = [pump EXCEPT ![f.session] = "running"]
             /\ UNCHANGED <<inFlight, down, fault>>
    <3>1. PumpStands
      BY <1>2, <2>3 DEF LinkTypes, PumpStands
    <3> QED
      BY <1>3, <1>4, <2>3, <3>1 DEF Opens
  <2> QED
    BY <1>4, <2>1, <2>2, <2>3 DEF OnOpen
<1>5. CASE f.type = "Line" /\ OnLine(f.session, f.n)
  <2>1. CASE f.session \notin held /\ UNCHANGED <<held, inFlight, inputs, pump, down, fault>>
    BY <1>5, <2>1 DEF Drops
  <2>2. CASE f.session \in held /\ inFlight + 1 > Window /\ Broken
    BY <1>5, <2>2 DEF Broken, Breaks
  <2>3. CASE /\ f.session \in held /\ inFlight' = inFlight + 1
             /\ inputs' = Append(inputs, Msg("Line", f.session, f.n))
             /\ UNCHANGED <<held, pump, down, fault>>
    BY <1>3, <1>5, <2>3 DEF Takes
  <2> QED
    BY <1>5, <2>1, <2>2, <2>3 DEF OnLine
<1>6. ASSUME NEW writerGone \in BOOLEAN, f.type \in {"Closed", "WriteFailed"}, OnClosed(f.session, writerGone)
      PROVE  Drops(f) \/ Closes(f)
  <2>1. CASE f.session \notin held /\ UNCHANGED <<held, inFlight, inputs, pump, down, fault>>
    BY <1>6, <2>1 DEF Drops
  <2>2. CASE /\ f.session \in held
             /\ inputs' = Append(inputs, Msg("Closed", f.session, 0))
             /\ IF writerGone THEN held' = held \ {f.session} /\ EdgeGone({f.session})
                        ELSE UNCHANGED <<held, pump>>
             /\ UNCHANGED <<inFlight, down, fault>>
    <3>1. PumpStands
      <4>1. CASE writerGone
        BY <2>2, <4>1, EdgeGoneStands
      <4>2. CASE ~writerGone
        BY <2>2, <4>2 DEF LinkTypes, PumpStands
      <4> QED
        BY <4>1, <4>2
    <3> QED
      BY <1>6, <2>2, <3>1 DEF Closes
  <2> QED
    BY <1>6, <2>1, <2>2 DEF OnClosed
<1>7. \/ f.type = "Open" /\ OnOpen(f.session)
      \/ f.type = "Line" /\ OnLine(f.session, f.n)
      \/ f.type = "Closed" /\ OnClosed(f.session, FALSE)
      \/ f.type = "WriteFailed" /\ OnClosed(f.session, TRUE)
  BY DEF ReadUp
<1> QED
  BY <1>4, <1>5, <1>6, <1>7

\* The end of the stream says of each session it carried that it is over.
LEMMA StreamEndsTells ==
    ASSUME LinkTypes, StreamEnds
    PROVE  \E last \in Seq(Frame) :
              /\ inputs' = inputs \o last
              /\ \A s : Ends(last, s) <=> s \in held
              /\ \A i \in DOMAIN last : last[i].type = "Closed" /\ last[i].session \in held
<1>1. PICK order \in SetToSeqs(held) :
          inputs' = inputs \o [i \in DOMAIN order |-> Msg("Closed", order[i], 0)]
  BY DEF StreamEnds
<1>2. IsFiniteSet(held) /\ Cardinality(held) \in Nat
  BY FS_Subset, FS_CardinalityType, CoreLinkAssumption DEF LinkTypes
<1> DEFINE D == 1 .. Cardinality(held)
           last == [i \in D |-> Msg("Closed", order[i], 0)]
<1>3. order \in [D -> held] /\ \A i, j \in D : i # j => order[i] # order[j]
  BY <1>1 DEF SetToSeqs
<1>4. inputs' = inputs \o last
  BY <1>1, <1>3
<1>5. last \in Seq(Frame)
  <2>1. \A i \in D : order[i] \in Sessions
    BY <1>3 DEF LinkTypes
  <2>2. \A i \in D : Msg("Closed", order[i], 0) \in Frame
    BY <2>1, MsgTyped
  <2> QED
    BY <1>2, <2>2
<1>6. \A s \in held : \E i \in D : order[i] = s
  <2>1. IsFiniteSet(D) /\ Cardinality(D) = Cardinality(held)
    BY <1>2, FS_Interval
  <2>2. order \in Injection(D, held)
    BY <1>3 DEF Injection, IsInjective
  <2>3. order \in Surjection(D, held)
    BY <1>2, <2>1, <2>2, FS_Injection
  <2> QED
    BY <2>3 DEF Surjection
<1>7. \A i \in DOMAIN last : last[i].type = "Closed" /\ last[i].session = order[i] /\ i \in D
  BY DEF Msg
<1>8. ASSUME NEW s
      PROVE  Ends(last, s) <=> s \in held
  <2>1. ASSUME s \in held PROVE Ends(last, s)
    BY <1>6, <1>7, <2>1 DEF Ends, Over
  <2>2. ASSUME Ends(last, s) PROVE s \in held
    BY <1>3, <1>7, <2>2 DEF Ends, Over
  <2> QED
    BY <2>1, <2>2
<1>9. \A i \in DOMAIN last : last[i].type = "Closed" /\ last[i].session \in held
  BY <1>3, <1>7
<1> HIDE DEF last
<1> QED
  BY <1>4, <1>5, <1>8, <1>9

\* An input reaches its shard.
LEMMA RecvFacts ==
    ASSUME LinkTypes, Recv, NEW f, f = Head(inputs)
    PROVE  /\ inputs # <<>> /\ f \in Frame /\ f.session \in Sessions /\ f.type # "WriteFailed"
           /\ inputs' = Tail(inputs) /\ inputs' \in Seq(Frame)
           /\ \A i \in DOMAIN inputs' : inputs'[i].type # "WriteFailed"
           /\ <<f.type, f.n>> \in Word
           /\ shard' \in [Sessions -> Seq(Word)]
           /\ shard'[f.session] = Append(shard[f.session], <<f.type, f.n>>)
           /\ \A s \in Sessions : s # f.session => shard'[s] = shard[s]
<1>1. /\ inputs # <<>> /\ inputs' = Tail(inputs)
      /\ shard' = [shard EXCEPT ![f.session] = Append(@, <<f.type, f.n>>)]
  BY DEF Recv
<1>2. /\ inputs \in Seq(Frame) /\ \A i \in DOMAIN inputs : inputs[i].type # "WriteFailed"
  BY DEF LinkTypes
<1>3. /\ Tail(inputs) \in Seq(Frame) /\ f \in Frame /\ Len(inputs) \in Nat /\ Len(inputs) >= 1
      /\ DOMAIN inputs = 1 .. Len(inputs) /\ DOMAIN Tail(inputs) = 1 .. (Len(inputs) - 1)
      /\ f = inputs[1] /\ \A i \in 1 .. (Len(inputs) - 1) : Tail(inputs)[i] = inputs[i + 1]
  BY <1>1, <1>2, TailAt
<1>4. f.session \in Sessions /\ f.n \in Nat /\ f.type \in {"Open", "Line", "Closed"}
  BY <1>2, <1>3, FrameFacts
<1>5. \A i \in DOMAIN inputs' : inputs'[i].type # "WriteFailed"
  BY <1>1, <1>2, <1>3
<1>6. <<f.type, f.n>> \in Word
  BY <1>4 DEF Word
<1>7. shard[f.session] \in Seq(Word) /\ shard \in [Sessions -> Seq(Word)]
  BY <1>4 DEF LinkTypes
<1>8. Append(shard[f.session], <<f.type, f.n>>) \in Seq(Word)
  BY <1>6, <1>7, AppendAt
<1>9. /\ shard' \in [Sessions -> Seq(Word)]
      /\ shard'[f.session] = Append(shard[f.session], <<f.type, f.n>>)
      /\ \A s \in Sessions : s # f.session => shard'[s] = shard[s]
  BY <1>1, <1>4, <1>7, <1>8
<1> QED
  BY <1>1, <1>3, <1>4, <1>5, <1>6, <1>9

\* The inputs behind which every session's Closed is put.
LEMMA StreamEndsInputs ==
    ASSUME LinkTypes, StreamEnds
    PROVE  /\ inputs' \in Seq(Frame) /\ \A i \in DOMAIN inputs' : inputs'[i].type # "WriteFailed"
           /\ \A s : /\ Nums(inputs', s) = Nums(inputs, s)
                     /\ Ends(inputs', s) <=> Ends(inputs, s) \/ s \in held
                     /\ InOrder(inputs, s) => InOrder(inputs', s)
<1>1. PICK last \in Seq(Frame) :
          /\ inputs' = inputs \o last
          /\ \A s : Ends(last, s) <=> s \in held
          /\ \A i \in DOMAIN last : last[i].type = "Closed" /\ last[i].session \in held
  BY StreamEndsTells
<1> DEFINE q == inputs
           a == Len(q)
           b == Len(last)
<1>2. PICK p : p = inputs'
  OBVIOUS
<1>3. q \in Seq(Frame) /\ a \in Nat /\ b \in Nat /\ DOMAIN q = 1 .. a /\ DOMAIN last = 1 .. b
  BY LenProperties DEF LinkTypes
<1>4. /\ p \in Seq(Frame) /\ Len(p) = a + b
      /\ \A i \in 1 .. (a + b) : p[i] = IF i <= a THEN q[i] ELSE last[i - a]
  BY <1>1, <1>2, <1>3, ConcatProperties
<1>5. DOMAIN p = 1 .. (a + b)
  BY <1>4, LenProperties
<1>6. /\ \A i \in DOMAIN q : i \in DOMAIN p /\ p[i] = q[i]
      /\ \A i \in DOMAIN last : i + a \in DOMAIN p /\ p[i + a] = last[i]
      /\ \A i \in DOMAIN p : (i \in DOMAIN q /\ p[i] = q[i])
                             \/ (i > a /\ i - a \in DOMAIN last /\ p[i] = last[i - a])
  BY <1>3, <1>4, <1>5
<1>7. \A i \in DOMAIN p : p[i].type # "WriteFailed"
  BY <1>1, <1>6 DEF LinkTypes
<1>8. ASSUME NEW s
      PROVE  /\ Nums(p, s) = Nums(q, s)
             /\ Ends(p, s) <=> Ends(q, s) \/ s \in held
             /\ InOrder(q, s) => InOrder(p, s)
  <2>1. \A i \in DOMAIN last : ~Data(last[i], s)
    BY <1>1 DEF Data
  <2>2. \A i \in DOMAIN p : Data(p[i], s) => i \in DOMAIN q /\ p[i] = q[i]
    BY <1>6, <2>1
  <2>3. \A n : n \in Nums(p, s) <=> n \in Nums(q, s)
    <3>1. /\ \A n : n \in Nums(q, s) <=> \E i \in DOMAIN q : Data(q[i], s) /\ q[i].n = n
          /\ \A n : n \in Nums(p, s) <=> \E i \in DOMAIN p : Data(p[i], s) /\ p[i].n = n
      <4>1. q \in Seq(Frame) /\ p \in Seq(Frame)
        BY <1>3, <1>4
      <4> HIDE DEF q
      <4> QED
        BY <4>1, NumsNat, Zenon
    <3> QED
      BY <1>6, <2>2, <3>1
  <2>4. Ends(p, s) <=> Ends(q, s) \/ Ends(last, s)
    <3>1. ASSUME Ends(p, s) PROVE Ends(q, s) \/ Ends(last, s)
      BY <1>6, <3>1 DEF Ends
    <3>2. ASSUME Ends(q, s) PROVE Ends(p, s)
      BY <1>6, <3>2 DEF Ends
    <3>3. ASSUME Ends(last, s) PROVE Ends(p, s)
      BY <1>6, <3>3 DEF Ends
    <3> QED
      BY <3>1, <3>2, <3>3
  <2>5. ASSUME InOrder(q, s) PROVE InOrder(p, s)
    <3> SUFFICES ASSUME NEW i \in DOMAIN p, NEW j \in DOMAIN p, i < j, Data(p[j], s)
                 PROVE  (Data(p[i], s) => p[i].n < p[j].n) /\ ~Over(p[i], s)
      BY DEF InOrder
    <3>1. j \in DOMAIN q /\ p[j] = q[j]
      BY <2>2
    <3>2. i \in DOMAIN q /\ p[i] = q[i]
      BY <1>3, <1>5, <1>6, <3>1
    <3> QED
      BY <2>5, <3>1, <3>2 DEF InOrder
  <2> QED
    BY <1>1, <2>3, <2>4, <2>5
<1> QED
  BY <1>2, <1>4, <1>7, <1>8

\* A step of a connection task touches the task, its session and the wire only.
LEMMA TypesStep ==
    ASSUME LinkTypes, [Next]_vars
    PROVE  LinkTypes'
<1> DEFINE C == Talking \cup {"none", "draining", "failed", "done"}
<1> USE DEF Talking
<1>1. ASSUME NEW s \in Sessions, Open(s)
      PROVE  LinkTypes'
  <2>1. up' \in Seq(Frame)
    BY <1>1, MsgTyped, SendUpTyped DEF Open, LinkTypes
  <2> QED
    BY <1>1, <2>1 DEF Open, LinkTypes, coreVars
<1>2. ASSUME NEW s \in Sessions, LookUp(s)
      PROVE  LinkTypes'
  BY <1>2 DEF LookUp, LinkTypes, coreVars
<1>3. ASSUME NEW s \in Sessions, Acquire(s)
      PROVE  LinkTypes'
  <2>1. credit' \in Nat /\ conn' \in [Sessions -> C]
    <3>1. credit \in Nat /\ conn \in [Sessions -> C]
      BY DEF LinkTypes
    <3>2. credit' = credit \/ (credit > 0 /\ credit' = credit - 1)
      BY <1>3 DEF Acquire
    <3>3. conn' = [conn EXCEPT ![s] = "spent"] \/ conn' = [conn EXCEPT ![s] = "draining"]
      BY <1>3 DEF Acquire
    <3>4. credit' \in Nat
      BY <3>1, <3>2
    <3> QED
      BY <3>1, <3>3, <3>4
  <2> QED
    BY <1>3, <2>1 DEF Acquire, LinkTypes, coreVars
<1>4. ASSUME NEW s \in Sessions, SendLine(s)
      PROVE  LinkTypes'
  <2>1. said[s] + 1 \in Nat \ {0}
    BY DEF LinkTypes
  <2>2. up' \in Seq(Frame)
    BY <1>4, <2>1, MsgTyped, SendUpTyped DEF SendLine, LinkTypes
  <2>3. said' \in [Sessions -> Nat]
    BY <1>4, <2>1 DEF SendLine, LinkTypes
  <2> QED
    BY <1>4, <2>2, <2>3 DEF SendLine, LinkTypes, coreVars
<1>5. ASSUME NEW s \in Sessions, ClientCloses(s)
      PROVE  LinkTypes'
  <2>1. up' \in Seq(Frame)
    BY <1>5, MsgTyped, SendUpTyped DEF ClientCloses, LinkTypes
  <2> QED
    BY <1>5, <2>1 DEF ClientCloses, LinkTypes, coreVars
<1>6. ASSUME NEW s \in Sessions, TellFailure(s)
      PROVE  LinkTypes'
  <2>1. up' \in Seq(Frame)
    BY <1>6, MsgTyped, SendUpTyped DEF TellFailure, LinkTypes
  <2> QED
    BY <1>6, <2>1 DEF TellFailure, LinkTypes, coreVars
<1>7. ASSUME NEW s \in Sessions, SessionOver(s) \/ WriterFails(s)
      PROVE  LinkTypes'
  <2>1. lost' \in Nat /\ conn' \in [Sessions -> C]
    <3>1. Forgone(s) \in Nat /\ lost \in Nat /\ conn \in [Sessions -> C]
      BY DEF LinkTypes, Forgone
    <3>2. lost' = lost + Forgone(s)
      BY <1>7 DEF SessionOver, WriterFails
    <3>3. conn' = [conn EXCEPT ![s] = "draining"] \/ conn' = [conn EXCEPT ![s] = "failed"]
      BY <1>7 DEF SessionOver, WriterFails
    <3>4. lost' \in Nat
      BY <3>1, <3>2
    <3> QED
      BY <3>1, <3>3, <3>4
  <2> QED
    BY <1>7, <2>1 DEF SessionOver, WriterFails, LinkTypes, coreVars
<1>8. ASSUME NEW s \in Sessions, DrainEnds(s) \/ Forget(s)
      PROVE  LinkTypes'
  BY <1>8 DEF DrainEnds, Forget, LinkTypes, coreVars
<1>9. ASSUME NEW s \in Sessions, ShardEnds(s)
      PROVE  LinkTypes'
  BY <1>9 DEF ShardEnds, LinkTypes, edgeVars
<1>10. ASSUME NEW s \in Sessions, Pump(s)
      PROVE  LinkTypes'
  <2>1. down' \in Seq(Answer)
    BY <1>10, MsgTyped, DownTyped DEF Pump, PumpEnds, PumpRemoves, LinkTypes
  <2>2. held' \subseteq Sessions
    BY <1>10 DEF Pump, PumpEnds, PumpRemoves, LinkTypes
  <2> QED
    BY <1>10, <2>1, <2>2 DEF Pump, PumpEnds, PumpRemoves, LinkTypes, edgeVars
<1>11. CASE ReadDown
  <2>1. down \in Seq(Answer) /\ down # <<>>
    BY <1>11 DEF ReadDown, LinkTypes
  <2>2. Tail(down) \in Seq(Answer) /\ Head(down) \in Answer
    BY <2>1, TailAt
  <2>3. credit' \in Nat /\ live' \subseteq Sessions
    BY <1>11, <2>2 DEF ReadDown, LinkTypes, Answer
  <2> QED
    BY <1>11, <2>2, <2>3 DEF ReadDown, LinkTypes, coreVars
<1>12. CASE TearDown
  <2>1. PICK k \in 0 .. Len(up) : up' = SubSeq(up, 1, k)
    BY <1>12 DEF TearDown
  <2>2. up' \in Seq(Frame)
    BY <2>1, PrefixAt DEF LinkTypes
  <2>3. <<>> \in Seq(Answer)
    OBVIOUS
  <2> QED
    BY <1>12, <2>2, <2>3 DEF TearDown, LinkTypes, coreVars
<1>13. CASE ReadUp
  <2> DEFINE f == Head(up)
  <2>1. /\ up # <<>> /\ f \in Frame /\ f.session \in Sessions /\ up' = Tail(up)
        /\ UNCHANGED <<edgeVars, reading, pusher, returned, shard, ended>>
        /\ lost' = IF f.type = "Line" /\ f.session \notin held THEN lost + 1 ELSE lost
        /\ Breaks(f) \/ Drops(f) \/ Refuses(f) \/ Opens(f) \/ Takes(f) \/ Closes(f)
    BY <1>13, ReadUpCases
  <2>2. up' \in Seq(Frame)
    BY <2>1, TailAt DEF LinkTypes
  <2>3. lost' \in Nat
    BY <2>1 DEF LinkTypes
  <2>4. /\ inputs' \in Seq(Frame) /\ \A i \in DOMAIN inputs' : inputs'[i].type # "WriteFailed"
    <3>1. CASE UNCHANGED inputs
      BY <3>1 DEF LinkTypes
    <3>2. CASE inputs' = Append(inputs, f) /\ f.type # "WriteFailed"
      BY <2>1, <3>2, InputTyped
    <3>3. CASE inputs' = Append(inputs, Msg("Closed", f.session, 0))
      <4>1. Msg("Closed", f.session, 0) \in Frame /\ Msg("Closed", f.session, 0).type # "WriteFailed"
        BY <2>1, MsgTyped DEF Msg
      <4> QED
        BY <3>3, <4>1, InputTyped
    <3> QED
      BY <2>1, <3>1, <3>2, <3>3 DEF Breaks, Drops, Refuses, Opens, Takes, Closes
  <2>5. down' \in Seq(Answer)
    BY <2>1, MsgTyped, DownTyped DEF Breaks, Drops, Refuses, Opens, Takes, Closes, LinkTypes
  <2>6. held' \subseteq Sessions /\ pump' \in [Sessions -> {"none", "running", "removing", "done"}]
    BY <2>1 DEF Breaks, Drops, Refuses, Opens, Takes, Closes, PumpStands, LinkTypes
  <2>7. inFlight' \in Int /\ fault' \in BOOLEAN
    <3>1. inFlight \in Int /\ fault \in BOOLEAN
      BY DEF LinkTypes
    <3>2. (inFlight' = inFlight \/ inFlight' = inFlight + 1) /\ (fault' = fault \/ fault' = TRUE)
      BY <2>1 DEF Breaks, Drops, Refuses, Opens, Takes, Closes
    <3>3. inFlight' \in Int
      BY <3>1, <3>2
    <3> QED
      BY <3>1, <3>2, <3>3, Zenon
  <2> HIDE DEF f
  <2> QED
    BY <2>1, <2>2, <2>3, <2>4, <2>5, <2>6, <2>7 DEF LinkTypes, edgeVars
<1>14. CASE StreamEnds
  <2>1. /\ inputs' \in Seq(Frame) /\ \A i \in DOMAIN inputs' : inputs'[i].type # "WriteFailed"
    BY <1>14, StreamEndsInputs
  <2>2. PumpStands
    BY <1>14, EdgeGoneStands DEF StreamEnds
  <2>3. <<>> \in Seq(Frame)
    OBVIOUS
  <2> QED
    BY <1>14, <2>1, <2>2, <2>3 DEF StreamEnds, LinkTypes, edgeVars, PumpStands
<1>15. CASE Recv
  <2> DEFINE f == Head(inputs)
  <2>1. /\ inputs' \in Seq(Frame) /\ \A i \in DOMAIN inputs' : inputs'[i].type # "WriteFailed"
        /\ shard' \in [Sessions -> Seq(Word)]
    BY <1>15, RecvFacts
  <2>2. inFlight' \in Int /\ returned' \in Nat
    BY <1>15 DEF Recv, LinkTypes
  <2>3. UNCHANGED <<edgeVars, up, down, reading, held, pump, ended, fault, lost>>
    BY <1>15 DEF Recv
  <2> QED
    BY <2>1, <2>2, <2>3 DEF LinkTypes, edgeVars
<1>16. CASE Flush
  <2>1. down' \in Seq(Answer)
    <3>1. \A s \in Sessions : \A n \in Nat : Credit(n) \in Answer
      BY MsgTyped
    <3>2. \A n \in Nat : Credit(n) \in Answer
      BY DEF Credit, Answer
    <3> QED
      BY <1>16, <3>2, DownTyped DEF Flush, LinkTypes
  <2> QED
    BY <1>16, <2>1 DEF Flush, LinkTypes, edgeVars
<1>17. CASE UNCHANGED vars
  BY <1>17 DEF vars, LinkTypes, edgeVars, coreVars
<1> QED
  BY <1>1, <1>2, <1>3, <1>4, <1>5, <1>6, <1>7, <1>8, <1>9, <1>10, <1>11, <1>12, <1>13, <1>14,
     <1>15, <1>16, <1>17 DEF Next, Connection

-----------------------------------------------------------------------------
\* The order: what each kind of step does to a session.

LEMMA SessionNums ==
    ASSUME LinkTypes, NEW s \in Sessions
    PROVE  /\ Nums(inputs, s) \subseteq Nat /\ Nums(up, s) \subseteq Nat
           /\ shard[s] \in Seq(Word) /\ Len(shard[s]) \in Nat /\ said[s] \in Nat
           /\ shard[s] = <<>> <=> Len(shard[s]) = 0
<1>1. Nums(inputs, s) \subseteq Nat /\ Nums(up, s) \subseteq Nat
  <2>1. inputs \in Seq(Frame) /\ up \in Seq(Frame)
    BY DEF LinkTypes
  <2> QED
    BY <2>1, NumsNat, Zenon
<1>2. shard[s] \in Seq(Word) /\ said[s] \in Nat
  BY DEF LinkTypes
<1> QED
  BY <1>1, <1>2, LenProperties, EmptySeq

\* The inputs and what the shard has heard stand.
CoreStands(s) ==
    /\ shard'[s] = shard[s] /\ InOrder(inputs', s)
    /\ Nums(inputs', s) = Nums(inputs, s) /\ (Ends(inputs', s) <=> Ends(inputs, s))

LEMMA CoreStandsTold ==
    ASSUME NEW s, CoreStands(s)
    PROVE  /\ (OpenTold(s)' <=> OpenTold(s)) /\ (ClosedTold(s)' <=> ClosedTold(s))
           /\ Heard(s, "Closed")' <=> Heard(s, "Closed")
BY DEF CoreStands, OpenTold, ClosedTold, Heard

LEMMA CoreStandsOrder ==
    ASSUME NEW s, CoreStands(s), CoreOrder(s), s \in held' => s \in held
    PROVE  CoreOrder(s)'
<1>1. HeardInOrder(s)'
  BY DEF CoreStands, CoreOrder, HeardInOrder
<1> QED
  BY <1>1, CoreStandsTold DEF CoreStands, CoreOrder

\* The connection does not begin to talk.
ConnStands(s) ==
    /\ said'[s] = said[s] /\ (linked' => linked) /\ (reading' => reading)
    /\ conn'[s] = "none" => conn[s] = "none"
    /\ conn'[s] \in Talking => conn[s] \in Talking

\* A step that leaves the session alone, forgets it, or cuts off what is last
\* on the wire as the link goes down.
LEMMA WireShrinks ==
    ASSUME LinkTypes, NEW s \in Sessions, SessionOrder(s),
           CoreStands(s), ConnStands(s), s \in held' => s \in held,
           InOrder(up', s), Ends(up', s) => Ends(up, s), Nums(up', s) \subseteq Nums(up, s),
           \A n \in Nums(up', s), m \in Nums(up, s) : m < n => m \in Nums(up', s),
           linked' /\ reading' => Nums(up', s) = Nums(up, s)
    PROVE  SessionOrder(s)'
<1>1. CoreOrder(s)'
  BY CoreStandsOrder DEF SessionOrder
<1>2. /\ (OpenTold(s)' <=> OpenTold(s)) /\ (ClosedTold(s)' <=> ClosedTold(s))
      /\ (Expecting(s)' => Expecting(s))
  BY CoreStandsTold DEF Expecting
<1>3. WireOrder(s)'
  <2>1. 0 \in Nums(up', s) =>
           s \notin held' /\ shard'[s] = <<>> /\ Nums(inputs', s) = {} /\ ~Ends(inputs', s)
    BY DEF SessionOrder, WireOrder, CoreStands
  <2>2. ASSUME Expecting(s)', NEW n \in Nums(up', s)
        PROVE  /\ n >= Len(shard'[s]) /\ \A m \in Nums(inputs', s) : m < n
               /\ n = Len(shard'[s]) \/ n - 1 \in Nums(inputs', s) \/ n - 1 \in Nums(up', s)
    <3>1. /\ n >= Len(shard[s]) /\ \A m \in Nums(inputs, s) : m < n
          /\ n = Len(shard[s]) \/ n - 1 \in Nums(inputs, s) \/ n - 1 \in Nums(up, s)
      BY <1>2, <2>2 DEF SessionOrder, WireOrder
    <3>2. n - 1 \in Nums(up, s) => n - 1 \in Nums(up', s)
      <4>1. n \in Nat
        BY <2>2, SessionNums
      <4>2. n - 1 < n
        BY <4>1
      <4> QED
        BY <2>2, <4>2
    <3> QED
      BY <3>1, <3>2 DEF CoreStands
  <2>3. s \in held' /\ ClosedTold(s)' => Nums(up', s) = {}
    BY <1>2 DEF SessionOrder, WireOrder
  <2> QED
    BY <2>1, <2>2, <2>3 DEF WireOrder
<1>4. ConnOrder(s)'
  BY <1>2 DEF SessionOrder, ConnOrder, ConnStands, CoreStands
<1> QED
  BY <1>1, <1>3, <1>4 DEF SessionOrder

\* A frame of a session that the core does not hold is dropped, or refused.
LEMMA WireDrops ==
    ASSUME NEW s \in Sessions, SessionOrder(s), CoreStands(s), ConnStands(s),
           s \notin held, s \notin held',
           InOrder(up', s), Ends(up', s) => Ends(up, s), Nums(up', s) \subseteq Nums(up, s),
           0 \notin Nums(up', s)
    PROVE  SessionOrder(s)'
<1>1. CoreOrder(s)'
  BY CoreStandsOrder DEF SessionOrder
<1>2. (ClosedTold(s)' <=> ClosedTold(s)) /\ ~Expecting(s)'
  BY CoreStandsTold DEF Expecting
<1>3. WireOrder(s)'
  BY <1>2 DEF WireOrder
<1>4. ConnOrder(s)'
  BY <1>2 DEF SessionOrder, ConnOrder, ConnStands, CoreStands
<1> QED
  BY <1>1, <1>3, <1>4 DEF SessionOrder

\* The core takes the session's Open.
LEMMA OpenTaken ==
    ASSUME LinkTypes, LinkTypes', NEW s \in Sessions, SessionOrder(s), ConnStands(s),
           0 \in Nums(up, s), InOrder(up', s), Nums(up', s) = Nums(up, s) \ {0},
           Ends(up', s) => Ends(up, s),
           shard'[s] = shard[s], InOrder(inputs', s), Nums(inputs', s) = Nums(inputs, s) \cup {0},
           Ends(inputs', s) <=> Ends(inputs, s)
    PROVE  SessionOrder(s)'
<1>1. /\ shard[s] = <<>> /\ Nums(inputs, s) = {} /\ ~Ends(inputs, s) /\ Expecting(s)
      /\ conn[s] # "none"
  BY DEF SessionOrder, WireOrder, ConnOrder, Expecting
<1>2. Len(shard[s]) = 0 /\ Nums(inputs', s) = {0} /\ Nums(up, s) \subseteq Nat /\ said[s] \in Nat
  BY <1>1, SessionNums
<1>3. ~Heard(s, "Closed")' /\ OpenTold(s)' /\ ~ClosedTold(s)'
  BY <1>1, <1>2 DEF Heard, OpenTold, ClosedTold
<1>4. CoreOrder(s)'
  <2>1. HeardInOrder(s)'
    BY <1>1 DEF HeardInOrder
  <2> QED
    BY <1>2, <1>3, <2>1 DEF CoreOrder
<1>5. WireOrder(s)'
  <2>1. ASSUME NEW n \in Nums(up', s)
        PROVE  /\ n >= Len(shard'[s]) /\ \A m \in Nums(inputs', s) : m < n
               /\ n = Len(shard'[s]) \/ n - 1 \in Nums(inputs', s) \/ n - 1 \in Nums(up', s)
    <3>1. n \in Nat /\ n # 0 /\ n \in Nums(up, s)
      BY <1>2, <2>1
    <3>2. n - 1 \in Nums(up, s)
      BY <1>1, <1>2, <3>1 DEF SessionOrder, WireOrder
    <3> QED
      BY <1>2, <3>1, <3>2
  <2> QED
    BY <1>3, <2>1 DEF WireOrder
<1>6. ConnOrder(s)'
  <2>1. \A n \in Nums(inputs', s) \cup Nums(up', s) : n <= said'[s]
    BY <1>2 DEF SessionOrder, ConnOrder, ConnStands
  <2>2. ASSUME linked', reading', conn'[s] \in Talking
        PROVE  said'[s] \in Nums(inputs', s) \/ said'[s] \in Nums(up', s)
    BY <1>1, <1>2, <2>2 DEF SessionOrder, ConnOrder, ConnStands
  <2>3. reading' /\ conn'[s] \in Talking => ~ClosedTold(s)' /\ ~Ends(up', s)
    BY <1>3 DEF SessionOrder, ConnOrder, ConnStands
  <2> QED
    BY <1>1, <2>1, <2>2, <2>3 DEF ConnOrder, ConnStands
<1> QED
  BY <1>4, <1>5, <1>6 DEF SessionOrder

\* The core takes a line: it is the next one.
LEMMA LineTaken ==
    ASSUME LinkTypes, LinkTypes', NEW s \in Sessions, SessionOrder(s), ConnStands(s),
           s \in held, s \in held',
           NEW n \in Nums(up, s), \A m \in Nums(up, s) : n <= m,
           InOrder(up', s), Nums(up', s) = Nums(up, s) \ {n}, Ends(up', s) => Ends(up, s),
           shard'[s] = shard[s], Nums(inputs', s) = Nums(inputs, s) \cup {n},
           Ends(inputs', s) <=> Ends(inputs, s),
           (~Ends(inputs, s) /\ \A m \in Nums(inputs, s) : m < n) => InOrder(inputs', s)
    PROVE  SessionOrder(s)'
<1>1. ~ClosedTold(s) /\ Expecting(s) /\ 0 \notin Nums(up, s) /\ conn[s] # "none"
  BY DEF SessionOrder, WireOrder, ConnOrder, Expecting
<1>2. /\ Nums(inputs, s) \subseteq Nat /\ Nums(up, s) \subseteq Nat /\ Len(shard[s]) \in Nat
      /\ said[s] \in Nat /\ n \in Nat
  BY SessionNums
<1>3. /\ n >= Len(shard[s]) /\ \A m \in Nums(inputs, s) : m < n
      /\ n = Len(shard[s]) \/ n - 1 \in Nums(inputs, s)
  <2>1. /\ n >= Len(shard[s]) /\ \A m \in Nums(inputs, s) : m < n
        /\ n = Len(shard[s]) \/ n - 1 \in Nums(inputs, s) \/ n - 1 \in Nums(up, s)
    BY <1>1 DEF SessionOrder, WireOrder
  <2>2. n - 1 \notin Nums(up, s)
    BY <1>2
  <2> QED
    BY <2>1, <2>2
<1>4. ~Heard(s, "Closed")' /\ ~ClosedTold(s)' /\ (OpenTold(s) => OpenTold(s)')
  BY <1>1 DEF Heard, OpenTold, ClosedTold
<1>5. CoreOrder(s)'
  <2>1. HeardInOrder(s)' /\ InOrder(inputs', s)
    BY <1>1, <1>3 DEF SessionOrder, CoreOrder, HeardInOrder, ClosedTold
  <2>2. \A m \in Nums(inputs', s) :
           m >= Len(shard'[s]) /\ (m = Len(shard'[s]) \/ m - 1 \in Nums(inputs', s))
    BY <1>3 DEF SessionOrder, CoreOrder
  <2>3. OpenTold(s)'
    BY <1>4 DEF SessionOrder, CoreOrder
  <2> QED
    BY <1>4, <2>1, <2>2, <2>3 DEF CoreOrder
<1>6. WireOrder(s)'
  <2>1. ASSUME NEW k \in Nums(up', s)
        PROVE  /\ k >= Len(shard'[s]) /\ \A m \in Nums(inputs', s) : m < k
               /\ k = Len(shard'[s]) \/ k - 1 \in Nums(inputs', s) \/ k - 1 \in Nums(up', s)
    <3>1. k \in Nums(up, s) /\ k \in Nat /\ n < k
      BY <1>2, <2>1
    <3>2. /\ k >= Len(shard[s]) /\ \A m \in Nums(inputs, s) : m < k
          /\ k = Len(shard[s]) \/ k - 1 \in Nums(inputs, s) \/ k - 1 \in Nums(up, s)
      BY <1>1, <3>1 DEF SessionOrder, WireOrder
    <3> QED
      BY <3>1, <3>2
  <2> QED
    BY <1>1, <1>4, <2>1 DEF WireOrder
<1>7. ConnOrder(s)'
  <2>1. \A m \in Nums(inputs', s) \cup Nums(up', s) : m <= said'[s]
    BY DEF SessionOrder, ConnOrder, ConnStands
  <2>2. ASSUME linked', reading', conn'[s] \in Talking
        PROVE  \/ Len(shard'[s]) = said'[s] + 1
               \/ said'[s] \in Nums(inputs', s) \/ said'[s] \in Nums(up', s)
    BY <1>1, <2>2 DEF SessionOrder, ConnOrder, ConnStands
  <2>3. reading' /\ conn'[s] \in Talking => ~ClosedTold(s)' /\ ~Ends(up', s)
    BY <1>4 DEF SessionOrder, ConnOrder, ConnStands
  <2> QED
    BY <1>1, <2>1, <2>2, <2>3 DEF ConnOrder, ConnStands
<1> QED
  BY <1>5, <1>6, <1>7 DEF SessionOrder

\* The core takes the news that the session is over.
LEMMA OverTaken ==
    ASSUME NEW s \in Sessions, SessionOrder(s), ConnStands(s),
           s \in held, Ends(up, s), reading, Nums(up', s) = {}, InOrder(up', s),
           shard'[s] = shard[s], Nums(inputs', s) = Nums(inputs, s), Ends(inputs', s),
           InOrder(inputs', s)
    PROVE  SessionOrder(s)'
<1>1. conn[s] # "none" /\ conn[s] \notin Talking /\ OpenTold(s)
  BY DEF SessionOrder, ConnOrder, CoreOrder
<1>2. (Heard(s, "Closed")' <=> Heard(s, "Closed")) /\ ClosedTold(s)' /\ OpenTold(s)'
  BY <1>1 DEF Heard, OpenTold, ClosedTold
<1>3. CoreOrder(s)'
  <2>1. HeardInOrder(s)'
    BY DEF SessionOrder, CoreOrder, HeardInOrder
  <2> QED
    BY <1>2, <2>1 DEF SessionOrder, CoreOrder
<1>4. WireOrder(s)'
  BY DEF WireOrder
<1>5. ConnOrder(s)'
  BY <1>1 DEF SessionOrder, ConnOrder, ConnStands
<1> QED
  BY <1>3, <1>4, <1>5 DEF SessionOrder

\* What a shard has heard, once it hears one more word.
LEMMA ShardHears ==
    ASSUME NEW s, NEW w \in Word, shard[s] \in Seq(Word), shard'[s] = Append(shard[s], w)
    PROVE  /\ Len(shard'[s]) = Len(shard[s]) + 1 /\ Len(shard[s]) \in Nat /\ shard'[s] # <<>>
           /\ \A type : Heard(s, type)' <=> Heard(s, type) \/ w[1] = type
           /\ (/\ HeardInOrder(s)
               /\ w[1] = "Open" <=> Len(shard[s]) = 0
               /\ w[1] = "Line" => w[2] = Len(shard[s])
               /\ Heard(s, "Closed") => w[1] = "Closed") => HeardInOrder(s)'
<1>1. PICK q \in Seq(Word) : q = shard[s]
  OBVIOUS
<1>2. PICK p : p = shard'[s]
  OBVIOUS
<1>3. /\ p \in Seq(Word) /\ Len(q) \in Nat /\ DOMAIN q = 1 .. Len(q) /\ DOMAIN p = 1 .. (Len(q) + 1)
      /\ \A i \in 1 .. Len(q) : p[i] = q[i]
      /\ p[Len(q) + 1] = w
  BY <1>1, <1>2, AppendAt
<1>4. Len(p) = Len(q) + 1 /\ p # <<>>
  BY <1>1, <1>2, AppendProperties
<1>5. ASSUME NEW type
      PROVE  Heard(s, type)' <=> Heard(s, type) \/ w[1] = type
  <2>1. Heard(s, type)' <=> \E i \in DOMAIN p : p[i][1] = type
    BY <1>2 DEF Heard
  <2>2. Heard(s, type) <=> \E i \in DOMAIN q : q[i][1] = type
    BY <1>1 DEF Heard
  <2> QED
    BY <1>3, <2>1, <2>2
<1>6. ASSUME HeardInOrder(s), w[1] = "Open" <=> Len(q) = 0, w[1] = "Line" => w[2] = Len(q),
             Heard(s, "Closed") => w[1] = "Closed"
      PROVE  HeardInOrder(s)'
  <2>1. \A i \in DOMAIN q :
            /\ q[i][1] = "Open" <=> i = 1
            /\ q[i][1] = "Line" => q[i][2] = i - 1
            /\ i > 1 /\ q[i - 1][1] = "Closed" => q[i][1] = "Closed"
    BY <1>1, <1>6 DEF HeardInOrder
  <2>2. ASSUME NEW i \in DOMAIN p
        PROVE  /\ p[i][1] = "Open" <=> i = 1
               /\ p[i][1] = "Line" => p[i][2] = i - 1
               /\ i > 1 /\ p[i - 1][1] = "Closed" => p[i][1] = "Closed"
    <3>1. CASE i \in DOMAIN q
      <4>1. p[i] = q[i] /\ (i > 1 => i - 1 \in DOMAIN q /\ p[i - 1] = q[i - 1])
        BY <1>3, <3>1
      <4> QED
        BY <2>1, <3>1, <4>1
    <3>2. CASE i = Len(q) + 1
      <4>1. p[i] = w /\ i - 1 = Len(q) /\ (i = 1 <=> Len(q) = 0)
        BY <1>3, <3>2
      <4>2. ASSUME i > 1, p[i - 1][1] = "Closed"
            PROVE  w[1] = "Closed"
        <5>1. i - 1 \in DOMAIN q /\ p[i - 1] = q[i - 1]
          BY <1>3, <3>2, <4>2
        <5>2. Heard(s, "Closed")
          BY <1>1, <4>2, <5>1 DEF Heard
        <5> QED
          BY <1>6, <5>2
      <4> QED
        BY <1>6, <4>1, <4>2
    <3> QED
      BY <1>3, <3>1, <3>2
  <2> QED
    BY <1>2, <2>2 DEF HeardInOrder
<1> QED
  BY <1>1, <1>2, <1>3, <1>4, <1>5, <1>6

\* The wire and the connection stand while push_lines hands over an input.
WireStands(s) ==
    /\ UNCHANGED <<up, held, linked, reading>>
    /\ said'[s] = said[s] /\ conn'[s] = conn[s]

\* The next input is the Open or line that the shard is owed.
LEMMA DataHeard ==
    ASSUME LinkTypes, LinkTypes', NEW s \in Sessions, SessionOrder(s), WireStands(s),
           NEW w \in Word, w[1] \in {"Open", "Line"}, w[1] = "Open" <=> w[2] = 0,
           shard'[s] = Append(shard[s], w),
           w[2] \in Nums(inputs, s), \A m \in Nums(inputs, s) : w[2] <= m,
           InOrder(inputs', s), Nums(inputs', s) = Nums(inputs, s) \ {w[2]},
           Ends(inputs', s) <=> Ends(inputs, s)
    PROVE  SessionOrder(s)'
<1>1. PICK n : n = w[2]
  OBVIOUS
<1>2. /\ Nums(inputs, s) \subseteq Nat /\ Nums(up, s) \subseteq Nat /\ said[s] \in Nat /\ n \in Nat
      /\ shard[s] \in Seq(Word) /\ Len(shard[s]) \in Nat
  BY <1>1, SessionNums
<1>3. n = Len(shard[s])
  <2>1. n >= Len(shard[s]) /\ (n = Len(shard[s]) \/ n - 1 \in Nums(inputs, s))
    BY <1>1 DEF SessionOrder, CoreOrder
  <2>2. n - 1 \notin Nums(inputs, s)
    BY <1>1, <1>2
  <2> QED
    BY <2>1, <2>2
<1>4. ~Heard(s, "Closed") /\ 0 \notin Nums(up, s) /\ conn[s] # "none" /\ n <= said[s]
  BY <1>1 DEF SessionOrder, CoreOrder, WireOrder, ConnOrder
<1>5. /\ Len(shard'[s]) = n + 1 /\ shard'[s] # <<>>
      /\ ~Heard(s, "Closed")' /\ HeardInOrder(s)'
  <2>1. /\ Len(shard'[s]) = Len(shard[s]) + 1 /\ shard'[s] # <<>>
        /\ Heard(s, "Closed")' <=> Heard(s, "Closed") \/ w[1] = "Closed"
        /\ (/\ HeardInOrder(s)
            /\ w[1] = "Open" <=> Len(shard[s]) = 0
            /\ w[1] = "Line" => w[2] = Len(shard[s])
            /\ Heard(s, "Closed") => w[1] = "Closed") => HeardInOrder(s)'
    BY <1>2, ShardHears
  <2>2. HeardInOrder(s)
    BY DEF SessionOrder, CoreOrder
  <2> QED
    BY <1>1, <1>3, <1>4, <2>1, <2>2
<1>6. (ClosedTold(s)' <=> ClosedTold(s)) /\ OpenTold(s)' /\ (Expecting(s)' <=> Expecting(s))
  BY <1>4, <1>5 DEF ClosedTold, OpenTold, Expecting, WireStands
<1>7. CoreOrder(s)'
  <2>1. ASSUME NEW k \in Nums(inputs', s)
        PROVE  k >= Len(shard'[s]) /\ (k = Len(shard'[s]) \/ k - 1 \in Nums(inputs', s))
    <3>1. k \in Nums(inputs, s) /\ k \in Nat /\ n < k
      BY <1>1, <1>2, <2>1
    <3>2. k = Len(shard[s]) \/ k - 1 \in Nums(inputs, s)
      BY <3>1 DEF SessionOrder, CoreOrder
    <3> QED
      BY <1>1, <1>2, <1>3, <1>5, <3>1, <3>2
  <2> QED
    BY <1>5, <1>6, <2>1 DEF CoreOrder
<1>8. WireOrder(s)'
  <2>1. ASSUME Expecting(s), NEW k \in Nums(up, s)
        PROVE  /\ k >= Len(shard'[s]) /\ \A m \in Nums(inputs', s) : m < k
               /\ k = Len(shard'[s]) \/ k - 1 \in Nums(inputs', s) \/ k - 1 \in Nums(up, s)
    <3>1. /\ \A m \in Nums(inputs, s) : m < k
          /\ k = Len(shard[s]) \/ k - 1 \in Nums(inputs, s) \/ k - 1 \in Nums(up, s)
      BY <2>1 DEF SessionOrder, WireOrder
    <3>2. n < k /\ k \in Nat
      BY <1>1, <1>2, <2>1, <3>1
    <3> QED
      BY <1>1, <1>2, <1>3, <1>5, <3>1, <3>2
  <2> QED
    BY <1>4, <1>6, <2>1 DEF WireOrder, SessionOrder, WireStands
<1>9. ConnOrder(s)'
  <2>1. \A m \in Nums(inputs', s) \cup Nums(up', s) : m <= said'[s]
    BY DEF SessionOrder, ConnOrder, WireStands
  <2>2. ASSUME linked', reading', conn'[s] \in Talking, Expecting(s)'
        PROVE  \/ Len(shard'[s]) = said'[s] + 1
               \/ said'[s] \in Nums(inputs', s) \/ said'[s] \in Nums(up', s)
    <3>1. \/ Len(shard[s]) = said[s] + 1
          \/ said[s] \in Nums(inputs, s) \/ said[s] \in Nums(up, s)
      BY <1>6, <2>2 DEF SessionOrder, ConnOrder, WireStands
    <3>2. Len(shard[s]) # said[s] + 1
      BY <1>2, <1>3, <1>4
    <3> QED
      BY <1>1, <1>5, <3>1, <3>2 DEF WireStands
  <2>3. reading' /\ conn'[s] \in Talking => ~ClosedTold(s)' /\ ~Ends(up', s)
    BY <1>6 DEF SessionOrder, ConnOrder, WireStands
  <2> QED
    BY <1>4, <2>1, <2>2, <2>3 DEF ConnOrder, WireStands
<1> QED
  BY <1>7, <1>8, <1>9 DEF SessionOrder

\* The next input says that the session is over.
LEMMA OverHeard ==
    ASSUME LinkTypes, NEW s \in Sessions, SessionOrder(s), WireStands(s),
           NEW w \in Word, w[1] = "Closed", shard'[s] = Append(shard[s], w),
           Ends(inputs, s), Nums(inputs, s) = {}, Nums(inputs', s) = {}, InOrder(inputs', s)
    PROVE  SessionOrder(s)'
<1>1. shard[s] # <<>> /\ 0 \notin Nums(up, s) /\ ClosedTold(s) /\ conn[s] # "none"
  BY DEF SessionOrder, CoreOrder, WireOrder, ConnOrder, OpenTold, ClosedTold
<1>2. shard[s] \in Seq(Word) /\ Len(shard[s]) # 0
  BY <1>1, SessionNums
<1>3. shard'[s] # <<>> /\ Heard(s, "Closed")' /\ HeardInOrder(s)'
  <2>1. /\ shard'[s] # <<>>
        /\ Heard(s, "Closed")' <=> Heard(s, "Closed") \/ w[1] = "Closed"
        /\ (/\ HeardInOrder(s)
            /\ w[1] = "Open" <=> Len(shard[s]) = 0
            /\ w[1] = "Line" => w[2] = Len(shard[s])
            /\ Heard(s, "Closed") => w[1] = "Closed") => HeardInOrder(s)'
    BY <1>2, ShardHears
  <2>2. HeardInOrder(s)
    BY DEF SessionOrder, CoreOrder
  <2> QED
    BY <1>2, <2>1, <2>2
<1>4. ClosedTold(s)' /\ OpenTold(s)' /\ ~Expecting(s)'
  BY <1>1, <1>3 DEF ClosedTold, OpenTold, Expecting, WireStands
<1>5. CoreOrder(s)'
  BY <1>3, <1>4 DEF CoreOrder
<1>6. WireOrder(s)'
  BY <1>1, <1>4 DEF WireOrder, SessionOrder, WireStands
<1>7. ConnOrder(s)'
  BY <1>1, <1>4 DEF ConnOrder, SessionOrder, WireStands
<1> QED
  BY <1>5, <1>6, <1>7 DEF SessionOrder

\* The stream is over: the core reads no more of it.
LEMMA StreamOver ==
    ASSUME NEW s \in Sessions, SessionOrder(s),
           ~reading', held' = {}, up' = <<>>,
           said'[s] = said[s], conn'[s] = conn[s], shard'[s] = shard[s],
           InOrder(inputs', s), Nums(inputs', s) = Nums(inputs, s),
           Ends(inputs', s) <=> Ends(inputs, s) \/ s \in held
    PROVE  SessionOrder(s)'
<1>1. Nums(up', s) = {} /\ ~Ends(up', s) /\ InOrder(up', s)
  BY NothingQueued
<1>2. /\ (Heard(s, "Closed")' <=> Heard(s, "Closed")) /\ (OpenTold(s)' <=> OpenTold(s))
  BY DEF Heard, OpenTold
<1>3. CoreOrder(s)'
  <2>1. HeardInOrder(s)'
    BY DEF SessionOrder, CoreOrder, HeardInOrder
  <2> QED
    BY <1>2, <2>1 DEF SessionOrder, CoreOrder
<1>4. WireOrder(s)'
  BY <1>1 DEF WireOrder
<1>5. ConnOrder(s)'
  BY <1>1 DEF SessionOrder, ConnOrder
<1> QED
  BY <1>3, <1>4, <1>5 DEF SessionOrder

-----------------------------------------------------------------------------
\* The order: what a connection sends.

\* The core does not move while a connection sends.
CoreWaits(s) == UNCHANGED <<shard, inputs, held, linked, reading>>

LEMMA OpenSent ==
    ASSUME LinkTypes, NEW s \in Sessions, SessionOrder(s), CoreWaits(s),
           conn[s] = "none", conn'[s] \in Talking, said'[s] = said[s],
           linked /\ reading => up' = Append(up, Msg("Open", s, 0)),
           ~(linked /\ reading) => up' = up
    PROVE  SessionOrder(s)'
<1>1. /\ shard[s] = <<>> /\ Nums(inputs, s) = {} /\ s \notin held /\ said[s] = 0
      /\ Nums(up, s) = {} /\ ~Ends(up, s) /\ ~Ends(inputs, s)
  BY DEF SessionOrder, ConnOrder, CoreOrder, OpenTold
<1>2. Len(shard[s]) = 0 /\ ~ClosedTold(s) /\ ~ClosedTold(s)'
  BY <1>1 DEF ClosedTold, Heard, CoreWaits
<1>3. CoreOrder(s)'
  BY DEF SessionOrder, CoreOrder, HeardInOrder, Heard, OpenTold, CoreWaits
<1>4. /\ linked /\ reading => Nums(up', s) = {0}
      /\ ~(linked /\ reading) => Nums(up', s) = {}
      /\ InOrder(up', s) /\ ~Ends(up', s)
  <2>1. CASE linked /\ reading
    <3> DEFINE f == Msg("Open", s, 0)
    <3>1. f \in Frame /\ Data(f, s) /\ f.n = 0 /\ ~Over(f, s)
      BY MsgTyped DEF Msg, Data, Over
    <3>2. up \in Seq(Frame) /\ up' = Append(up, f) /\ InOrder(up, s)
      BY <2>1 DEF LinkTypes, SessionOrder, WireOrder
    <3> HIDE DEF f
    <3>3. /\ Data(f, s) => Nums(up', s) = Nums(up, s) \cup {f.n}
          /\ Ends(up', s) <=> Ends(up, s) \/ Over(f, s)
          /\ InOrder(up, s) /\ (Data(f, s) => ~Ends(up, s) /\ \A n \in Nums(up, s) : n < f.n)
                 => InOrder(up', s)
      BY <3>1, <3>2, UpAppended
    <3> QED
      BY <1>1, <2>1, <3>1, <3>2, <3>3
  <2>2. CASE ~(linked /\ reading)
    BY <1>1, <2>2 DEF SessionOrder, WireOrder
  <2> QED
    BY <2>1, <2>2
<1>5. WireOrder(s)'
  BY <1>1, <1>2, <1>4 DEF WireOrder, CoreWaits
<1>6. ConnOrder(s)'
  BY <1>1, <1>2, <1>4 DEF ConnOrder, CoreWaits, Talking
<1> QED
  BY <1>3, <1>5, <1>6 DEF SessionOrder

LEMMA LineSent ==
    ASSUME LinkTypes, NEW s \in Sessions, SessionOrder(s), CoreWaits(s),
           conn[s] \in Talking, conn'[s] # "none", said'[s] = said[s] + 1,
           linked /\ reading => up' = Append(up, Msg("Line", s, said[s] + 1)),
           ~(linked /\ reading) => up' = up
    PROVE  SessionOrder(s)'
<1>1. /\ (Heard(s, "Closed")' <=> Heard(s, "Closed")) /\ (OpenTold(s)' <=> OpenTold(s))
      /\ (ClosedTold(s)' <=> ClosedTold(s))
  BY DEF ClosedTold, Heard, OpenTold, CoreWaits
<1>2. CoreOrder(s)'
  BY <1>1 DEF SessionOrder, CoreOrder, HeardInOrder, CoreWaits
<1>3. /\ Nums(inputs, s) \subseteq Nat /\ Nums(up, s) \subseteq Nat /\ said[s] \in Nat
      /\ Len(shard[s]) \in Nat
  BY SessionNums
<1>4. CASE linked /\ reading
  <2>1. ~ClosedTold(s) /\ ~Ends(up, s) /\ \A n \in Nums(inputs, s) \cup Nums(up, s) : n <= said[s]
    BY <1>4 DEF SessionOrder, ConnOrder
  <2>2. Nums(up', s) = Nums(up, s) \cup {said[s] + 1} /\ ~Ends(up', s) /\ InOrder(up', s)
    <3> DEFINE f == Msg("Line", s, said[s] + 1)
    <3>1. f \in Frame /\ Data(f, s) /\ f.n = said[s] + 1 /\ ~Over(f, s)
      <4>1. said[s] + 1 \in Nat \ {0}
        BY <1>3
      <4> QED
        BY <4>1, MsgTyped DEF Msg, Data, Over
    <3>2. up \in Seq(Frame) /\ up' = Append(up, f) /\ InOrder(up, s)
      BY <1>4 DEF LinkTypes, SessionOrder, WireOrder
    <3> HIDE DEF f
    <3>3. /\ Data(f, s) => Nums(up', s) = Nums(up, s) \cup {f.n}
          /\ Ends(up', s) <=> Ends(up, s) \/ Over(f, s)
          /\ InOrder(up, s) /\ (Data(f, s) => ~Ends(up, s) /\ \A n \in Nums(up, s) : n < f.n)
                 => InOrder(up', s)
      BY <3>1, <3>2, UpAppended
    <3>4. \A n \in Nums(up, s) : n < f.n
      BY <1>3, <2>1, <3>1
    <3> QED
      BY <2>1, <3>1, <3>2, <3>3, <3>4
  <2>3. Expecting(s)' <=> Expecting(s)
    <3>1. 0 \in Nums(up', s) <=> 0 \in Nums(up, s)
      BY <1>3, <2>2
    <3> QED
      BY <1>1, <3>1 DEF Expecting, CoreWaits
  <2>4. WireOrder(s)'
    <3>1. 0 \in Nums(up', s) =>
             s \notin held' /\ shard'[s] = <<>> /\ Nums(inputs', s) = {} /\ ~Ends(inputs', s)
      BY <1>3, <2>2 DEF SessionOrder, WireOrder, CoreWaits
    <3>2. ASSUME Expecting(s)', NEW n \in Nums(up', s)
          PROVE  /\ n >= Len(shard'[s]) /\ \A m \in Nums(inputs', s) : m < n
                 /\ n = Len(shard'[s]) \/ n - 1 \in Nums(inputs', s) \/ n - 1 \in Nums(up', s)
      <4>1. CASE n \in Nums(up, s)
        BY <2>2, <2>3, <3>2, <4>1 DEF SessionOrder, WireOrder, CoreWaits
      <4>2. CASE n = said[s] + 1
        <5>1. \/ Len(shard[s]) = said[s] + 1
              \/ said[s] \in Nums(inputs, s) \/ said[s] \in Nums(up, s)
          BY <1>4, <2>3, <3>2 DEF SessionOrder, ConnOrder
        <5>2. \A m \in Nums(inputs, s) : m < n
          BY <1>3, <2>1, <4>2
        <5>3. n - 1 = said[s]
          BY <1>3, <4>2
        <5>4. /\ said[s] \in Nums(inputs, s) => said[s] >= Len(shard[s])
              /\ said[s] \in Nums(up, s) => said[s] >= Len(shard[s])
          BY <2>3, <3>2 DEF SessionOrder, CoreOrder, WireOrder
        <5>5. n >= Len(shard[s])
          BY <1>3, <4>2, <5>1, <5>4
        <5> QED
          BY <2>2, <4>2, <5>1, <5>2, <5>3, <5>5 DEF CoreWaits
      <4> QED
        BY <2>2, <3>2, <4>1, <4>2
    <3>3. s \in held' /\ ClosedTold(s)' => Nums(up', s) = {}
      BY <1>1, <2>1
    <3> QED
      BY <2>2, <3>1, <3>2, <3>3 DEF WireOrder
  <2>5. ConnOrder(s)'
    <3>1. \A n \in Nums(inputs', s) \cup Nums(up', s) : n <= said'[s]
      BY <1>3, <2>1, <2>2 DEF CoreWaits
    <3>2. said'[s] \in Nums(up', s)
      BY <2>2
    <3> QED
      BY <1>1, <2>1, <2>2, <3>1, <3>2 DEF ConnOrder
  <2> QED
    BY <1>2, <2>4, <2>5 DEF SessionOrder
<1>5. CASE ~(linked /\ reading)
  <2>1. up' = up
    BY <1>5
  <2>2. WireOrder(s)'
    BY <1>1, <2>1 DEF SessionOrder, WireOrder, Expecting, CoreWaits
  <2>3. ConnOrder(s)'
    <3>1. \A n \in Nums(inputs', s) \cup Nums(up', s) : n <= said'[s]
      BY <1>3, <2>1 DEF SessionOrder, ConnOrder, CoreWaits
    <3> QED
      BY <1>1, <1>5, <2>1, <3>1 DEF SessionOrder, ConnOrder, CoreWaits
  <2> QED
    BY <1>2, <2>2, <2>3 DEF SessionOrder
<1> QED
  BY <1>4, <1>5

LEMMA OverSent ==
    ASSUME LinkTypes, NEW s \in Sessions, SessionOrder(s), CoreWaits(s),
           conn'[s] \notin Talking, conn'[s] # "none", said'[s] = said[s],
           NEW f \in Frame, Over(f, s), up' = Append(up, f) \/ up' = up
    PROVE  SessionOrder(s)'
<1>1. /\ (Heard(s, "Closed")' <=> Heard(s, "Closed")) /\ (OpenTold(s)' <=> OpenTold(s))
      /\ (ClosedTold(s)' <=> ClosedTold(s))
  BY DEF ClosedTold, Heard, OpenTold, CoreWaits
<1>2. CoreOrder(s)'
  BY <1>1 DEF SessionOrder, CoreOrder, HeardInOrder, CoreWaits
<1>3. Nums(up', s) = Nums(up, s) /\ InOrder(up', s)
  <2>1. ~Data(f, s) /\ up \in Seq(Frame) /\ InOrder(up, s)
    BY DEF Data, Over, LinkTypes, SessionOrder, WireOrder
  <2>2. CASE up' = Append(up, f)
    BY <2>1, <2>2, UpAppended
  <2> QED
    BY <2>1, <2>2
<1>4. WireOrder(s)'
  BY <1>1, <1>3 DEF SessionOrder, WireOrder, Expecting, CoreWaits
<1>5. ConnOrder(s)'
  BY <1>3 DEF SessionOrder, ConnOrder, CoreWaits
<1> QED
  BY <1>2, <1>4, <1>5 DEF SessionOrder

-----------------------------------------------------------------------------
\* What the frames on the wire weigh in lines and in credits.

\* One weight more at the end, and one weight fewer at the front.
LEMMA WeightAdded ==
    ASSUME NEW u \in Seq(Nat), NEW v \in Seq(Nat), NEW w \in Nat, Len(v) = Len(u) + 1,
           \A i \in 1 .. Len(u) : v[i] = u[i], v[Len(v)] = w
    PROVE  TotalWeight(v) = TotalWeight(u) + w
<1>1. Len(u) \in Nat /\ DOMAIN v = 1 .. Len(v)
  BY LenProperties
<1>2. /\ Append(u, w) \in Seq(Nat) /\ DOMAIN Append(u, w) = 1 .. (Len(u) + 1)
      /\ \A i \in 1 .. Len(u) : Append(u, w)[i] = u[i]
      /\ Append(u, w)[Len(u) + 1] = w
  BY AppendAt
<1>3. Len(Append(u, w)) = Len(v) /\ \A i \in 1 .. Len(v) : Append(u, w)[i] = v[i]
  BY <1>1, <1>2, LenProperties
<1>4. v = Append(u, w)
  BY <1>2, <1>3, SeqEqual
<1> QED
  BY <1>4, TotalAppend

LEMMA WeightTaken ==
    ASSUME NEW u \in Seq(Nat), NEW v \in Seq(Nat), Len(u) = Len(v) + 1,
           \A i \in 1 .. Len(v) : v[i] = u[i + 1]
    PROVE  TotalWeight(v) = TotalWeight(u) - u[1]
<1>1. Len(v) \in Nat /\ u # <<>>
  BY LenProperties, EmptySeq
<1>2. /\ Tail(u) \in Seq(Nat) /\ DOMAIN Tail(u) = 1 .. (Len(u) - 1)
      /\ Head(u) = u[1] /\ \A i \in 1 .. (Len(u) - 1) : Tail(u)[i] = u[i + 1]
  BY <1>1, TailAt
<1>3. Len(Tail(u)) = Len(v) /\ \A i \in 1 .. Len(v) : Tail(u)[i] = v[i]
  BY <1>1, <1>2, HeadTailProperties
<1>4. v = Tail(u)
  BY <1>2, <1>3, SeqEqual
<1> QED
  BY <1>1, <1>2, <1>4, TotalTail

LineWeight(f) == IF f.type = "Line" THEN 1 ELSE 0
CreditWeight(f) == IF f.type = "Credit" THEN f.n ELSE 0

LEMMA LineWeights ==
    ASSUME NEW q \in Seq(Frame), NEW u, u = [i \in DOMAIN q |-> LineWeight(q[i])]
    PROVE  u \in Seq(Nat) /\ Len(u) = Len(q) /\ LinesIn(q) = TotalWeight(u) /\ LinesIn(q) \in Nat
<1>1. Len(q) \in Nat /\ DOMAIN q = 1 .. Len(q)
  BY LenProperties
<1>2. u \in [1 .. Len(q) -> Nat]
  BY <1>1 DEF LineWeight
<1>3. u \in Seq(Nat) /\ Len(u) = Len(q)
  BY <1>1, <1>2
<1>4. LinesIn(q) = TotalWeight(u)
  BY DEF LinesIn, LineWeight
<1> QED
  BY <1>3, <1>4, TotalType

LEMMA LinesChange ==
    ASSUME NEW q \in Seq(Frame)
    PROVE  /\ LinesIn(q) \in Nat
           /\ \A f \in Frame : LinesIn(Append(q, f)) = LinesIn(q) + LineWeight(f)
           /\ q # <<>> => LinesIn(Tail(q)) = LinesIn(q) - LineWeight(Head(q))
           /\ q # <<>> => LineWeight(Head(q)) <= LinesIn(q)
           /\ \A k \in 0 .. Len(q) : LinesIn(SubSeq(q, 1, k)) <= LinesIn(q)
<1> DEFINE W(p) == [i \in DOMAIN p |-> LineWeight(p[i])]
<1>1. PICK u : u = W(q)
  OBVIOUS
<1>2. /\ u \in Seq(Nat) /\ Len(u) = Len(q) /\ LinesIn(q) = TotalWeight(u) /\ LinesIn(q) \in Nat
      /\ Len(q) \in Nat /\ DOMAIN q = 1 .. Len(q)
  BY <1>1, LineWeights, LenProperties
<1>3. \A f : LineWeight(f) \in Nat
  BY DEF LineWeight
<1>4. ASSUME NEW f \in Frame
      PROVE  LinesIn(Append(q, f)) = LinesIn(q) + LineWeight(f)
  <2>1. PICK p : p = Append(q, f)
    OBVIOUS
  <2>2. PICK v : v = W(p)
    OBVIOUS
  <2>3. /\ p \in Seq(Frame) /\ DOMAIN p = 1 .. (Len(q) + 1) /\ p[Len(q) + 1] = f
        /\ \A i \in 1 .. Len(q) : p[i] = q[i]
    BY <2>1, AppendAt
  <2>4. v \in Seq(Nat) /\ Len(v) = Len(p) /\ LinesIn(p) = TotalWeight(v) /\ Len(p) = Len(q) + 1
    <3>1. v \in Seq(Nat) /\ Len(v) = Len(p) /\ LinesIn(p) = TotalWeight(v)
      BY <2>2, <2>3, LineWeights
    <3>2. Len(p) = Len(q) + 1
      BY <2>1, AppendProperties
    <3> QED
      BY <3>1, <3>2
  <2>5. /\ \A i \in 1 .. Len(u) : v[i] = u[i]
        /\ v[Len(v)] = LineWeight(f)
    BY <1>1, <1>2, <2>2, <2>3, <2>4
  <2>6. PICK w \in Nat : w = LineWeight(f)
    BY <1>3
  <2>7. Len(v) = Len(u) + 1 /\ v[Len(v)] = w
    BY <1>2, <2>4, <2>5, <2>6
  <2>8. TotalWeight(v) = TotalWeight(u) + w
    BY <1>2, <2>4, <2>5, <2>7, WeightAdded
  <2> QED
    BY <1>2, <2>1, <2>4, <2>6, <2>8
<1>5. ASSUME q # <<>>
      PROVE  LinesIn(Tail(q)) = LinesIn(q) - LineWeight(Head(q)) /\ LineWeight(Head(q)) <= LinesIn(q)
  <2>1. PICK p : p = Tail(q)
    OBVIOUS
  <2>2. PICK v : v = W(p)
    OBVIOUS
  <2>3. /\ p \in Seq(Frame) /\ DOMAIN p = 1 .. (Len(q) - 1) /\ Head(q) = q[1] /\ Len(q) >= 1
        /\ \A i \in 1 .. (Len(q) - 1) : p[i] = q[i + 1]
    BY <1>5, <2>1, TailAt
  <2>4. v \in Seq(Nat) /\ Len(v) = Len(p) /\ LinesIn(p) = TotalWeight(v) /\ Len(p) = Len(q) - 1
    BY <1>2, <1>5, <2>1, <2>2, <2>3, LineWeights, HeadTailProperties
  <2>5. /\ \A i \in 1 .. Len(v) : v[i] = u[i + 1]
        /\ u[1] = LineWeight(Head(q))
    BY <1>1, <1>2, <2>2, <2>3, <2>4
  <2>6. TotalWeight(v) = TotalWeight(u) - u[1]
    BY <1>2, <2>4, <2>5, WeightTaken
  <2>7. u[1] <= TotalWeight(u)
    BY <1>2, <2>3, TotalType
  <2> QED
    BY <1>2, <2>1, <2>4, <2>5, <2>6, <2>7
<1>6. ASSUME NEW k \in 0 .. Len(q)
      PROVE  LinesIn(SubSeq(q, 1, k)) <= LinesIn(q)
  <2>1. PICK p : p = SubSeq(q, 1, k)
    OBVIOUS
  <2>2. PICK v : v = W(p)
    OBVIOUS
  <2>3. /\ p \in Seq(Frame) /\ DOMAIN p = 1 .. k /\ \A i \in 1 .. k : p[i] = q[i]
    BY <2>1, PrefixAt
  <2>4. v \in Seq(Nat) /\ Len(v) = Len(p) /\ LinesIn(p) = TotalWeight(v) /\ Len(p) = k
    <3>1. v \in Seq(Nat) /\ Len(v) = Len(p) /\ LinesIn(p) = TotalWeight(v)
      BY <2>2, <2>3, LineWeights
    <3>2. Len(p) = k
      BY <1>2, <2>3, LenProperties
    <3> QED
      BY <3>1, <3>2
  <2>5. Len(v) <= Len(u) /\ \A i \in 1 .. Len(v) : v[i] = u[i]
    BY <1>1, <1>2, <2>2, <2>3, <2>4
  <2> QED
    BY <1>2, <2>1, <2>4, <2>5, TotalPrefix
<1> QED
  BY <1>2, <1>4, <1>5, <1>6

LEMMA CreditWeights ==
    ASSUME NEW q \in Seq(Answer), NEW u, u = [i \in DOMAIN q |-> CreditWeight(q[i])]
    PROVE  u \in Seq(Nat) /\ Len(u) = Len(q) /\ CreditsIn(q) = TotalWeight(u) /\ CreditsIn(q) \in Nat
<1>1. Len(q) \in Nat /\ DOMAIN q = 1 .. Len(q) /\ \A i \in 1 .. Len(q) : q[i] \in Answer
  BY LenProperties, ElementOfSeq
<1>2. \A f \in Answer : CreditWeight(f) \in Nat
  BY DEF CreditWeight, Answer
<1>3. u \in [1 .. Len(q) -> Nat]
  BY <1>1, <1>2
<1>4. u \in Seq(Nat) /\ Len(u) = Len(q)
  BY <1>1, <1>3
<1>5. CreditsIn(q) = TotalWeight(u)
  BY DEF CreditsIn, CreditWeight
<1> QED
  BY <1>4, <1>5, TotalType

LEMMA CreditsChange ==
    ASSUME NEW q \in Seq(Answer)
    PROVE  /\ CreditsIn(q) \in Nat
           /\ \A f \in Answer : CreditsIn(Append(q, f)) = CreditsIn(q) + CreditWeight(f)
           /\ q # <<>> => CreditsIn(Tail(q)) = CreditsIn(q) - CreditWeight(Head(q))
<1> DEFINE W(p) == [i \in DOMAIN p |-> CreditWeight(p[i])]
<1>1. PICK u : u = W(q)
  OBVIOUS
<1>2. /\ u \in Seq(Nat) /\ Len(u) = Len(q) /\ CreditsIn(q) = TotalWeight(u) /\ CreditsIn(q) \in Nat
      /\ Len(q) \in Nat /\ DOMAIN q = 1 .. Len(q)
  BY <1>1, CreditWeights, LenProperties
<1>3. \A f \in Answer : CreditWeight(f) \in Nat
  BY DEF CreditWeight, Answer
<1>4. ASSUME NEW f \in Answer
      PROVE  CreditsIn(Append(q, f)) = CreditsIn(q) + CreditWeight(f)
  <2>1. PICK p : p = Append(q, f)
    OBVIOUS
  <2>2. PICK v : v = W(p)
    OBVIOUS
  <2>3. /\ p \in Seq(Answer) /\ DOMAIN p = 1 .. (Len(q) + 1) /\ p[Len(q) + 1] = f
        /\ \A i \in 1 .. Len(q) : p[i] = q[i]
    BY <2>1, AppendAt
  <2>4. v \in Seq(Nat) /\ Len(v) = Len(p) /\ CreditsIn(p) = TotalWeight(v) /\ Len(p) = Len(q) + 1
    <3>1. v \in Seq(Nat) /\ Len(v) = Len(p) /\ CreditsIn(p) = TotalWeight(v)
      BY <2>2, <2>3, CreditWeights
    <3>2. Len(p) = Len(q) + 1
      BY <2>1, AppendProperties
    <3> QED
      BY <3>1, <3>2
  <2>5. /\ \A i \in 1 .. Len(u) : v[i] = u[i]
        /\ v[Len(v)] = CreditWeight(f)
    BY <1>1, <1>2, <2>2, <2>3, <2>4
  <2>6. PICK w \in Nat : w = CreditWeight(f)
    BY <1>3
  <2>7. Len(v) = Len(u) + 1 /\ v[Len(v)] = w
    BY <1>2, <2>4, <2>5, <2>6
  <2>8. TotalWeight(v) = TotalWeight(u) + w
    BY <1>2, <2>4, <2>5, <2>7, WeightAdded
  <2> QED
    BY <1>2, <2>1, <2>4, <2>6, <2>8
<1>5. ASSUME q # <<>>
      PROVE  CreditsIn(Tail(q)) = CreditsIn(q) - CreditWeight(Head(q))
  <2>1. PICK p : p = Tail(q)
    OBVIOUS
  <2>2. PICK v : v = W(p)
    OBVIOUS
  <2>3. /\ p \in Seq(Answer) /\ DOMAIN p = 1 .. (Len(q) - 1) /\ Head(q) = q[1] /\ Len(q) >= 1
        /\ \A i \in 1 .. (Len(q) - 1) : p[i] = q[i + 1]
    BY <1>5, <2>1, TailAt
  <2>4. v \in Seq(Nat) /\ Len(v) = Len(p) /\ CreditsIn(p) = TotalWeight(v) /\ Len(p) = Len(q) - 1
    BY <1>2, <1>5, <2>1, <2>2, <2>3, CreditWeights, HeadTailProperties
  <2>5. /\ \A i \in 1 .. Len(v) : v[i] = u[i + 1]
        /\ u[1] = CreditWeight(Head(q))
    BY <1>1, <1>2, <2>2, <2>3, <2>4
  <2>6. Len(u) = Len(v) + 1
    BY <1>2, <2>4
  <2>7. TotalWeight(v) = TotalWeight(u) - u[1]
    BY <1>2, <2>4, <2>5, <2>6, WeightTaken
  <2> QED
    BY <1>2, <2>1, <2>4, <2>5, <2>7
<1> QED
  BY <1>2, <1>4, <1>5

-----------------------------------------------------------------------------
\* The order: one step.

LEMMA Untouched ==
    ASSUME LinkTypes, NEW s \in Sessions, SessionOrder(s), CoreStands(s), ConnStands(s),
           s \in held' => s \in held,
           InOrder(up', s), Nums(up', s) = Nums(up, s), Ends(up', s) <=> Ends(up, s)
    PROVE  SessionOrder(s)'
BY WireShrinks

\* A step that moves no frame of any session.
LEMMA NoFrameMoves ==
    ASSUME LinkTypes, NEW s \in Sessions, SessionOrder(s), ConnStands(s),
           UNCHANGED <<shard, inputs, up>>, s \in held' => s \in held
    PROVE  SessionOrder(s)'
<1>1. CoreStands(s) /\ InOrder(up', s)
  BY DEF CoreStands, SessionOrder, CoreOrder, WireOrder
<1> QED
  BY <1>1, Untouched

\* A frame of another session is sent.
LEMMA OtherSends ==
    ASSUME LinkTypes, NEW s \in Sessions, SessionOrder(s), UNCHANGED <<shard, inputs, held, linked, reading>>,
           conn'[s] = conn[s], said'[s] = said[s],
           NEW f \in Frame, f.session # s, up' = Append(up, f) \/ up' = up
    PROVE  SessionOrder(s)'
<1>1. CoreStands(s) /\ ConnStands(s) /\ InOrder(up, s) /\ up \in Seq(Frame)
  BY DEF CoreStands, ConnStands, SessionOrder, CoreOrder, WireOrder, LinkTypes
<1>2. ~Data(f, s) /\ ~Over(f, s)
  BY DEF Data, Over
<1>3. InOrder(up', s) /\ Nums(up', s) = Nums(up, s) /\ (Ends(up', s) <=> Ends(up, s))
  <2>1. CASE up' = Append(up, f)
    BY <1>1, <1>2, <2>1, UpAppended
  <2>2. CASE up' = up
    BY <1>1, <2>2
  <2> QED
    BY <2>1, <2>2
<1> QED
  BY <1>1, <1>3, Untouched

\* A connection that keeps to its credit never has the core call it broken.
LEMMA NeverBroken ==
    ASSUME LinkTypes, OrderInv, CreditInv, ReadUp, NEW f, f = Head(up)
    PROVE  ~Breaks(f)
<1>1. reading /\ up # <<>> /\ f \in Frame /\ f.session \in Sessions /\ up \in Seq(Frame)
  BY ReadUpCases DEF LinkTypes
<1>2. ASSUME f.session \in held, f.type = "Open"
      PROVE  FALSE
  <2>1. Data(f, f.session) /\ f.n = 0
    BY <1>1, <1>2 DEF Data, Frame
  <2>2. SessionOrder(f.session) /\ InOrder(up, f.session)
    BY <1>1 DEF OrderInv, SessionOrder, WireOrder
  <2>3. 0 \in Nums(up, f.session)
    BY <1>1, <2>1, <2>2, TailFrame
  <2> QED
    BY <1>2, <2>2, <2>3 DEF SessionOrder, WireOrder
<1>3. ASSUME f.type = "Line"
      PROVE  inFlight + 1 <= Window
  <2>1. LinesIn(up) \in Nat /\ LineWeight(f) <= LinesIn(up)
    BY <1>1, LinesChange
  <2>2. LineWeight(f) = 1
    BY <1>3 DEF LineWeight
  <2>3. LinesIn(up) + inFlight <= Window /\ inFlight \in Int /\ Window \in Nat
    BY <1>1, CoreLinkAssumption DEF CreditInv, LinkTypes
  <2> QED
    BY <2>1, <2>2, <2>3
<1>4. inFlight \in Int /\ Window \in Nat
  BY CoreLinkAssumption DEF LinkTypes
<1>5. f.type = "Line" => ~(inFlight + 1 > Window)
  BY <1>3, <1>4
<1> QED
  BY <1>2, <1>5 DEF Breaks

\* An input is put behind the others.
LEMMA InputAppended ==
    ASSUME LinkTypes, NEW f \in Frame, inputs' = Append(inputs, f), NEW s
    PROVE  /\ Data(f, s) => Nums(inputs', s) = Nums(inputs, s) \cup {f.n}
           /\ ~Data(f, s) => Nums(inputs', s) = Nums(inputs, s)
           /\ Ends(inputs', s) <=> Ends(inputs, s) \/ Over(f, s)
           /\ InOrder(inputs, s)
              /\ (Data(f, s) => ~Ends(inputs, s) /\ \A n \in Nums(inputs, s) : n < f.n)
                  => InOrder(inputs', s)
<1>1. inputs \in Seq(Frame)
  BY DEF LinkTypes
<1>2. /\ Data(f, s) => Nums(inputs', s) = Nums(inputs, s) \cup {f.n}
      /\ ~Data(f, s) => Nums(inputs', s) = Nums(inputs, s)
      /\ Ends(inputs', s) <=> Ends(inputs, s) \/ Over(f, s)
  BY <1>1, AppendNums
<1>3. ASSUME InOrder(inputs, s), Data(f, s) => ~Ends(inputs, s) /\ \A n \in Nums(inputs, s) : n < f.n
      PROVE  InOrder(inputs', s)
  BY <1>1, <1>3, AppendInOrder
<1> QED
  BY <1>2, <1>3

\* The core reads a frame: the session it is of.
LEMMA ReadUpOwn ==
    ASSUME LinkTypes, LinkTypes', OrderInv, CreditInv, ReadUp,
           NEW f, f = Head(up), NEW s \in Sessions, f.session = s
    PROVE  SessionOrder(s)'
<1>1. /\ reading /\ up # <<>> /\ f \in Frame /\ up' = Tail(up)
      /\ UNCHANGED <<edgeVars, reading, pusher, returned, shard, ended>>
      /\ Drops(f) \/ Refuses(f) \/ Opens(f) \/ Takes(f) \/ Closes(f)
  BY ReadUpCases, NeverBroken
<1>2. SessionOrder(s) /\ InOrder(up, s) /\ InOrder(inputs, s) /\ up \in Seq(Frame) /\ inputs \in Seq(Frame)
  BY DEF OrderInv, SessionOrder, WireOrder, CoreOrder, LinkTypes
<1>3. /\ InOrder(up', s)
      /\ Data(f, s) => /\ f.n \in Nums(up, s) /\ Nums(up', s) = Nums(up, s) \ {f.n}
                       /\ \A n \in Nums(up, s) : f.n <= n
      /\ Over(f, s) => Nums(up', s) = {}
      /\ Ends(up, s) <=> Over(f, s) \/ Ends(up', s)
  BY <1>1, <1>2, TailFrame
<1>4. ConnStands(s) /\ shard'[s] = shard[s]
  BY <1>1 DEF ConnStands, edgeVars
<1>5. /\ f.type \in {"Open", "Line"} <=> Data(f, s)
      /\ ~Data(f, s) <=> Over(f, s)
      /\ f.n \in Nat /\ (Data(f, s) => (f.n = 0 <=> f.type = "Open"))
  BY <1>1, FrameFacts DEF Data, Over
<1>6. CASE Drops(f) \/ Refuses(f)
  <2>1. CoreStands(s) /\ s \notin held /\ s \notin held'
    BY <1>2, <1>4, <1>6 DEF CoreStands, Drops, Refuses
  <2>2. Nums(up', s) \subseteq Nums(up, s)
    BY <1>3, <1>5
  <2>3. 0 \notin Nums(up', s)
    <3>1. CASE Over(f, s)
      BY <1>3, <3>1
    <3>2. CASE Data(f, s) /\ f.n = 0
      BY <1>3, <3>2
    <3>3. CASE Data(f, s) /\ f.n # 0
      <4>1. 0 \notin Nums(up, s)
        BY <1>3, <1>5, <3>3
      <4> QED
        BY <2>2, <4>1
    <3> QED
      BY <1>5, <3>1, <3>2, <3>3
  <2> QED
    BY <1>2, <1>3, <1>4, <2>1, <2>2, <2>3, WireDrops
<1>7. CASE Opens(f)
  <2>1. Data(f, s) /\ f.n = 0 /\ ~Over(f, s) /\ inputs' = Append(inputs, f)
    BY <1>5, <1>7 DEF Opens
  <2>2. 0 \in Nums(up, s) /\ Nums(up', s) = Nums(up, s) \ {0}
    BY <1>3, <2>1
  <2>3. Nums(inputs, s) = {} /\ ~Ends(inputs, s)
    BY <1>2, <2>2 DEF SessionOrder, WireOrder
  <2>4. /\ Nums(inputs', s) = Nums(inputs, s) \cup {0} /\ InOrder(inputs', s)
        /\ Ends(inputs', s) <=> Ends(inputs, s)
    <3>1. /\ Data(f, s) => Nums(inputs', s) = Nums(inputs, s) \cup {f.n}
          /\ Ends(inputs', s) <=> Ends(inputs, s) \/ Over(f, s)
          /\ InOrder(inputs, s)
             /\ (Data(f, s) => ~Ends(inputs, s) /\ \A n \in Nums(inputs, s) : n < f.n)
                 => InOrder(inputs', s)
      BY <1>1, <2>1, InputAppended
    <3> QED
      BY <1>2, <2>1, <2>3, <3>1
  <2> QED
    BY <1>2, <1>3, <1>4, <2>2, <2>4, OpenTaken
<1>8. CASE Takes(f)
  <2>1. /\ Data(f, s) /\ ~Over(f, s) /\ inputs' = Append(inputs, f)
        /\ s \in held /\ s \in held'
    BY <1>5, <1>8 DEF Takes
  <2>2. PICK n : n = f.n
    OBVIOUS
  <2>3. /\ n \in Nums(up, s) /\ Nums(up', s) = Nums(up, s) \ {n} /\ \A m \in Nums(up, s) : n <= m
    BY <1>3, <2>1, <2>2
  <2>4. /\ Nums(inputs', s) = Nums(inputs, s) \cup {n} /\ (Ends(inputs', s) <=> Ends(inputs, s))
        /\ (~Ends(inputs, s) /\ \A m \in Nums(inputs, s) : m < n) => InOrder(inputs', s)
    <3>1. /\ Data(f, s) => Nums(inputs', s) = Nums(inputs, s) \cup {f.n}
          /\ Ends(inputs', s) <=> Ends(inputs, s) \/ Over(f, s)
          /\ InOrder(inputs, s)
             /\ (Data(f, s) => ~Ends(inputs, s) /\ \A m \in Nums(inputs, s) : m < f.n)
                 => InOrder(inputs', s)
      BY <1>1, <2>1, InputAppended
    <3> QED
      BY <1>2, <2>1, <2>2, <3>1
  <2>5. Ends(up', s) => Ends(up, s)
    BY <1>3
  <2> QED
    BY <1>2, <1>3, <1>4, <2>1, <2>3, <2>4, <2>5, LineTaken
<1>9. CASE Closes(f)
  <2>0. PICK g : g = Msg("Closed", f.session, 0)
    OBVIOUS
  <2>1. Over(f, s) /\ inputs' = Append(inputs, g) /\ s \in held
    BY <1>5, <1>9, <2>0 DEF Closes
  <2>2. g \in Frame /\ ~Data(g, s) /\ Over(g, s)
    BY <2>0, MsgTyped DEF Msg, Data, Over
  <2>3. Nums(inputs', s) = Nums(inputs, s) /\ InOrder(inputs', s) /\ Ends(inputs', s)
    <3>1. /\ ~Data(g, s) => Nums(inputs', s) = Nums(inputs, s)
          /\ Ends(inputs', s) <=> Ends(inputs, s) \/ Over(g, s)
          /\ InOrder(inputs, s)
             /\ (Data(g, s) => ~Ends(inputs, s) /\ \A n \in Nums(inputs, s) : n < g.n)
                 => InOrder(inputs', s)
      BY <2>1, <2>2, InputAppended
    <3> QED
      BY <1>2, <2>2, <3>1
  <2>4. Ends(up, s) /\ Nums(up', s) = {}
    BY <1>3, <2>1
  <2> QED
    BY <1>1, <1>2, <1>3, <1>4, <2>1, <2>3, <2>4, OverTaken
<1> QED
  BY <1>1, <1>6, <1>7, <1>8, <1>9

\* ... and every other session.
LEMMA ReadUpOther ==
    ASSUME LinkTypes, OrderInv, CreditInv, ReadUp,
           NEW f, f = Head(up), NEW s \in Sessions, f.session # s
    PROVE  SessionOrder(s)' /\ CoreStands(s) /\ Nums(up', s) = Nums(up, s) /\ (Ends(up', s) <=> Ends(up, s))
<1>1. /\ reading /\ up # <<>> /\ f \in Frame /\ f.session \in Sessions /\ up' = Tail(up)
      /\ UNCHANGED <<edgeVars, reading, pusher, returned, shard, ended>>
      /\ Drops(f) \/ Refuses(f) \/ Opens(f) \/ Takes(f) \/ Closes(f)
  BY ReadUpCases, NeverBroken
<1>2. SessionOrder(s) /\ InOrder(up, s) /\ InOrder(inputs, s) /\ up \in Seq(Frame) /\ inputs \in Seq(Frame)
  BY DEF OrderInv, SessionOrder, WireOrder, CoreOrder, LinkTypes
<1>3. ~Data(f, s) /\ ~Over(f, s)
  BY DEF Data, Over
<1>4. /\ InOrder(up', s) /\ Nums(up', s) = Nums(up, s) /\ (Ends(up', s) <=> Ends(up, s))
  BY <1>1, <1>2, <1>3, TailFrame
<1>5. s \in held' => s \in held
  BY <1>1 DEF Drops, Refuses, Opens, Takes, Closes
<1>6. PICK g \in Frame : ~Data(g, s) /\ ~Over(g, s) /\ (inputs' = inputs \/ inputs' = Append(inputs, g))
  <2> DEFINE h == Msg("Closed", f.session, 0)
  <2>1. h \in Frame /\ ~Data(h, s) /\ ~Over(h, s)
    BY <1>1, MsgTyped DEF Msg, Data, Over
  <2>2. inputs' = inputs \/ inputs' = Append(inputs, f) \/ inputs' = Append(inputs, h)
    BY <1>1 DEF Drops, Refuses, Opens, Takes, Closes
  <2> HIDE DEF h
  <2> QED
    BY <1>1, <1>3, <2>1, <2>2
<1>7. CoreStands(s)
  <2>1. InOrder(inputs', s) /\ Nums(inputs', s) = Nums(inputs, s) /\ (Ends(inputs', s) <=> Ends(inputs, s))
    <3>1. CASE inputs' = Append(inputs, g)
      BY <1>2, <1>6, <3>1, InputAppended
    <3>2. CASE inputs' = inputs
      BY <1>2, <3>2
    <3> QED
      BY <1>6, <3>1, <3>2
  <2> QED
    BY <1>1, <2>1 DEF CoreStands
<1>8. ConnStands(s)
  BY <1>1 DEF ConnStands, edgeVars
<1> QED
  BY <1>2, <1>4, <1>5, <1>7, <1>8, Untouched

LEMMA RecvOrder ==
    ASSUME LinkTypes, LinkTypes', OrderInv, Recv, NEW s \in Sessions
    PROVE  SessionOrder(s)'
<1>1. PICK f : f = Head(inputs)
  OBVIOUS
<1>2. /\ inputs # <<>> /\ f \in Frame /\ f.session \in Sessions /\ f.type # "WriteFailed"
      /\ inputs' = Tail(inputs) /\ <<f.type, f.n>> \in Word
      /\ shard'[f.session] = Append(shard[f.session], <<f.type, f.n>>)
      /\ \A t \in Sessions : t # f.session => shard'[t] = shard[t]
  BY <1>1, RecvFacts
<1>3. WireStands(s) /\ UNCHANGED <<edgeVars, up, reading, held>>
  BY DEF Recv, WireStands, edgeVars
<1>4. SessionOrder(s) /\ InOrder(inputs, s) /\ inputs \in Seq(Frame) /\ InOrder(up, s)
  BY DEF OrderInv, SessionOrder, CoreOrder, WireOrder, LinkTypes
<1>5. /\ InOrder(inputs', s)
      /\ Data(f, s) => /\ f.n \in Nums(inputs, s) /\ Nums(inputs', s) = Nums(inputs, s) \ {f.n}
                       /\ \A n \in Nums(inputs, s) : f.n <= n
      /\ ~Data(f, s) => Nums(inputs', s) = Nums(inputs, s)
      /\ Over(f, s) => Nums(inputs', s) = {}
      /\ Ends(inputs, s) <=> Over(f, s) \/ Ends(inputs', s)
  BY <1>1, <1>2, <1>4, TailFrame
<1>6. CASE f.session # s
  <2>1. ~Data(f, s) /\ ~Over(f, s)
    BY <1>6 DEF Data, Over
  <2>2. CoreStands(s) /\ ConnStands(s)
    BY <1>2, <1>3, <1>5, <1>6, <2>1 DEF CoreStands, ConnStands, edgeVars
  <2> QED
    BY <1>3, <1>4, <2>2, Untouched
<1>7. CASE Data(f, s)
  <2>1. PICK w \in Word : w = <<f.type, f.n>>
    BY <1>2
  <2>2. /\ w[1] \in {"Open", "Line"} /\ (w[1] = "Open" <=> w[2] = 0) /\ w[2] = f.n
        /\ shard'[s] = Append(shard[s], w) /\ ~Over(f, s)
    BY <1>2, <1>7, <2>1, FrameFacts DEF Data
  <2> QED
    BY <1>3, <1>4, <1>5, <1>7, <2>2, DataHeard
<1>8. CASE Over(f, s)
  <2>1. PICK w \in Word : w = <<f.type, f.n>>
    BY <1>2
  <2>2. w[1] = "Closed" /\ shard'[s] = Append(shard[s], w) /\ ~Data(f, s)
    BY <1>2, <1>8, <2>1, FrameFacts DEF Over, Data
  <2> QED
    BY <1>3, <1>4, <1>5, <1>8, <2>2, OverHeard
<1> QED
  BY <1>6, <1>7, <1>8 DEF Data, Over

LEMMA OrderStep ==
    ASSUME LinkTypes, LinkTypes', OrderInv, CreditInv, [Next]_vars, NEW s \in Sessions
    PROVE  SessionOrder(s)'
<1>1. SessionOrder(s) /\ conn \in [Sessions -> Talking \cup {"none", "draining", "failed", "done"}]
      /\ said \in [Sessions -> Nat] /\ up \in Seq(Frame)
  BY DEF OrderInv, LinkTypes
<1>2. ASSUME NEW t \in Sessions, Open(t)
      PROVE  SessionOrder(s)'
  <2>1. UNCHANGED <<shard, inputs, held, linked, reading, said>> /\ conn[t] = "none"
    BY <1>2 DEF Open, coreVars
  <2>2. conn' = [conn EXCEPT ![t] = "reading"]
    BY <1>2 DEF Open
  <2>3. PICK f \in Frame : f = Msg("Open", t, 0)
    BY MsgTyped
  <2>4. (linked /\ reading => up' = Append(up, f)) /\ (~(linked /\ reading) => up' = up)
    BY <1>1, <1>2, <2>3, SendUpTyped DEF Open
  <2>5. CASE s = t
    BY <1>1, <2>1, <2>2, <2>3, <2>4, <2>5, OpenSent DEF CoreWaits, Talking
  <2>6. CASE s # t
    <3>1. f.session # s /\ conn'[s] = conn[s] /\ said'[s] = said[s]
      BY <1>1, <2>1, <2>2, <2>3, <2>6 DEF Msg
    <3> QED
      BY <1>1, <2>1, <2>4, <3>1, OtherSends
  <2> QED
    BY <2>5, <2>6
<1>3. ASSUME NEW t \in Sessions, SendLine(t)
      PROVE  SessionOrder(s)'
  <2>1. UNCHANGED <<shard, inputs, held, linked, reading>> /\ conn[t] = "spent"
    BY <1>3 DEF SendLine, coreVars
  <2>2. /\ conn' = [conn EXCEPT ![t] = IF linked THEN "reading" ELSE "draining"]
        /\ said' = [said EXCEPT ![t] = @ + 1]
    BY <1>3 DEF SendLine
  <2>3. PICK f \in Frame : f = Msg("Line", t, said[t] + 1)
    <3>1. said[t] + 1 \in Nat \ {0}
      BY <1>1
    <3> QED
      BY <3>1, MsgTyped
  <2>4. (linked /\ reading => up' = Append(up, f)) /\ (~(linked /\ reading) => up' = up)
    BY <1>1, <1>3, <2>3, SendUpTyped DEF SendLine
  <2>5. CASE s = t
    <3>1. conn[s] \in Talking /\ conn'[s] # "none" /\ said'[s] = said[s] + 1
      BY <1>1, <2>1, <2>2, <2>5 DEF Talking
    <3> QED
      BY <1>1, <2>1, <2>3, <2>4, <2>5, <3>1, LineSent DEF CoreWaits
  <2>6. CASE s # t
    <3>1. f.session # s /\ conn'[s] = conn[s] /\ said'[s] = said[s]
      BY <1>1, <2>1, <2>2, <2>3, <2>6 DEF Msg
    <3> QED
      BY <1>1, <2>1, <2>4, <3>1, OtherSends
  <2> QED
    BY <2>5, <2>6
<1>4. ASSUME NEW t \in Sessions, ClientCloses(t) \/ TellFailure(t)
      PROVE  SessionOrder(s)'
  <2>1. UNCHANGED <<shard, inputs, held, linked, reading, said>>
    BY <1>4 DEF ClientCloses, TellFailure, coreVars
  <2>2. PICK x \in {"draining", "done"} : conn' = [conn EXCEPT ![t] = x]
    BY <1>4 DEF ClientCloses, TellFailure
  <2>3. PICK f \in Frame : f.session = t /\ Over(f, t) /\ SendUp(f)
    <3>1. /\ Msg("Closed", t, 0) \in Frame /\ Msg("WriteFailed", t, 0) \in Frame
          /\ Msg("Closed", t, 0).session = t /\ Over(Msg("Closed", t, 0), t)
          /\ Msg("WriteFailed", t, 0).session = t /\ Over(Msg("WriteFailed", t, 0), t)
      BY MsgTyped DEF Msg, Over
    <3> QED
      BY <1>4, <3>1 DEF ClientCloses, TellFailure
  <2>4. up' = Append(up, f) \/ up' = up
    BY <1>1, <2>3, SendUpTyped
  <2>5. CASE s = t
    <3>1. conn'[s] \notin Talking /\ conn'[s] # "none" /\ said'[s] = said[s]
      BY <1>1, <2>1, <2>2, <2>5 DEF Talking
    <3> QED
      BY <1>1, <2>1, <2>3, <2>4, <2>5, <3>1, OverSent DEF CoreWaits
  <2>6. CASE s # t
    <3>1. f.session # s /\ conn'[s] = conn[s] /\ said'[s] = said[s]
      BY <1>1, <2>1, <2>2, <2>3, <2>6
    <3> QED
      BY <1>1, <2>1, <2>4, <3>1, OtherSends
  <2> QED
    BY <2>5, <2>6
<1>5. ASSUME NEW t \in Sessions,
             LookUp(t) \/ Acquire(t) \/ SessionOver(t) \/ WriterFails(t) \/ DrainEnds(t)
      PROVE  SessionOrder(s)'
  <2>1. UNCHANGED <<shard, inputs, up, held, linked, reading, said>>
    BY <1>5 DEF LookUp, Acquire, SessionOver, WriterFails, DrainEnds, coreVars
  <2>2. PICK x \in {"waiting", "spent", "draining", "failed", "done"} :
            conn' = [conn EXCEPT ![t] = x]
    BY <1>5 DEF LookUp, Acquire, SessionOver, WriterFails, DrainEnds
  <2>3. x \in Talking => conn[t] \in Talking
    <3>1. \/ conn[t] \in Talking
          \/ conn' = [conn EXCEPT ![t] = "draining"] \/ conn' = [conn EXCEPT ![t] = "failed"]
          \/ conn' = [conn EXCEPT ![t] = "done"]
      BY <1>5 DEF LookUp, Acquire, SessionOver, WriterFails, DrainEnds, Talking
    <3>2. conn'[t] = x /\ \A y : conn' = [conn EXCEPT ![t] = y] => conn'[t] = y
      BY <1>1, <2>2
    <3> QED
      BY <3>1, <3>2 DEF Talking
  <2>4. ConnStands(s)
    BY <1>1, <2>1, <2>2, <2>3 DEF ConnStands
  <2> QED
    BY <1>1, <2>1, <2>4, NoFrameMoves
<1>6. ASSUME NEW t \in Sessions, Forget(t) \/ ShardEnds(t) \/ Pump(t)
      PROVE  SessionOrder(s)'
  <2>1. /\ UNCHANGED <<shard, inputs, up, linked, reading, said, conn>>
        /\ held' = held \/ held' = held \ {t}
    BY <1>6 DEF Forget, ShardEnds, Pump, PumpEnds, PumpRemoves, coreVars, edgeVars
  <2> QED
    BY <1>1, <2>1, NoFrameMoves DEF ConnStands
<1>7. CASE ReadDown \/ Flush \/ UNCHANGED vars
  <2>1. UNCHANGED <<shard, inputs, up, held, linked, reading, said, conn>>
    BY <1>7 DEF ReadDown, Flush, vars, coreVars, edgeVars
  <2> QED
    BY <1>1, <2>1, NoFrameMoves DEF ConnStands
<1>8. CASE TearDown
  <2>1. PICK k \in 0 .. Len(up) : up' = SubSeq(up, 1, k)
    BY <1>8 DEF TearDown
  <2>2. linked' = FALSE /\ UNCHANGED <<shard, inputs, held, reading, said, conn>>
    BY <1>8 DEF TearDown, coreVars
  <2>3. InOrder(up, s)
    BY <1>1 DEF SessionOrder, WireOrder
  <2>4. /\ InOrder(up', s) /\ (Ends(up', s) => Ends(up, s))
        /\ Nums(up', s) \subseteq Nums(up, s)
        /\ \A n \in Nums(up', s), m \in Nums(up, s) : m < n => m \in Nums(up', s)
    BY <1>1, <2>1, <2>3, PrefixFrames
  <2>5. CoreStands(s) /\ ConnStands(s)
    BY <1>1, <1>8, <2>2 DEF CoreStands, ConnStands, SessionOrder, CoreOrder, TearDown
  <2> QED
    BY <1>1, <2>2, <2>4, <2>5, WireShrinks
<1>9. CASE ReadUp
  <2>1. PICK f : f = Head(up)
    OBVIOUS
  <2>2. CASE f.session = s
    BY <1>9, <2>1, <2>2, ReadUpOwn
  <2>3. CASE f.session # s
    BY <1>9, <2>1, <2>3, ReadUpOther
  <2> QED
    BY <2>2, <2>3
<1>10. CASE StreamEnds
  <2>1. /\ Nums(inputs', s) = Nums(inputs, s)
        /\ Ends(inputs', s) <=> Ends(inputs, s) \/ s \in held
        /\ InOrder(inputs, s) => InOrder(inputs', s)
    BY <1>10, StreamEndsInputs
  <2>2. /\ ~reading' /\ held' = {} /\ up' = <<>>
        /\ UNCHANGED <<said, conn, shard>>
    BY <1>10 DEF StreamEnds, edgeVars
  <2>3. InOrder(inputs, s)
    BY <1>1 DEF SessionOrder, CoreOrder
  <2> QED
    BY <1>1, <2>1, <2>2, <2>3, StreamOver
<1>11. CASE Recv
  BY <1>11, RecvOrder
<1> QED
  BY <1>2, <1>3, <1>4, <1>5, <1>6, <1>7, <1>8, <1>9, <1>10, <1>11 DEF Next, Connection

-----------------------------------------------------------------------------
\* The credits: one step.

One(condition) == IF condition THEN 1 ELSE 0

LEMMA SpentChange ==
    ASSUME LinkTypes, NEW t \in Sessions, NEW x, conn' = [conn EXCEPT ![t] = x]
    PROVE  /\ Cardinality(Spent) \in Nat /\ Cardinality(Spent') \in Nat
           /\ Cardinality(Spent') = (Cardinality(Spent) - One(conn[t] = "spent")) + One(x = "spent")
<1>1. IsFiniteSet(Spent) /\ Spent \subseteq Sessions /\ Cardinality(Spent) \in Nat
  <2>1. Spent \subseteq Sessions
    BY DEF Spent
  <2> QED
    BY <2>1, FS_Subset, FS_CardinalityType, CoreLinkAssumption
<1>2. conn'[t] = x /\ \A s \in Sessions : s # t => conn'[s] = conn[s]
  BY DEF LinkTypes
<1>3. (t \in Spent <=> conn[t] = "spent") /\ (t \in Spent' <=> x = "spent")
      /\ \A s : s # t => (s \in Spent' <=> s \in Spent)
  BY <1>2 DEF Spent
<1>4. CASE x = "spent" /\ conn[t] = "spent"
  <2>1. Spent' = Spent
    BY <1>3, <1>4
  <2> QED
    BY <1>1, <1>4, <2>1 DEF One
<1>5. CASE x = "spent" /\ conn[t] # "spent"
  <2>1. Spent' = Spent \cup {t} /\ t \notin Spent
    BY <1>3, <1>5
  <2>2. Cardinality(Spent') = Cardinality(Spent) + 1
    BY <1>1, <2>1, FS_AddElement
  <2> QED
    BY <1>1, <1>5, <2>2 DEF One
<1>6. CASE x # "spent" /\ conn[t] = "spent"
  <2>1. Spent' = Spent \ {t} /\ t \in Spent
    BY <1>3, <1>6
  <2>2. IsFiniteSet(Spent') /\ Cardinality(Spent') = Cardinality(Spent) - 1
    BY <1>1, <2>1, FS_RemoveElement
  <2>3. Cardinality(Spent') \in Nat
    BY <2>2, FS_CardinalityType
  <2> QED
    BY <1>1, <1>6, <2>2, <2>3 DEF One
<1>7. CASE x # "spent" /\ conn[t] # "spent"
  <2>1. Spent' = Spent
    BY <1>3, <1>7
  <2> QED
    BY <1>1, <1>7, <2>1 DEF One
<1> QED
  BY <1>4, <1>5, <1>6, <1>7

LEMMA CreditNumbers ==
    ASSUME LinkTypes
    PROVE  /\ credit \in Nat /\ returned \in Nat /\ lost \in Nat /\ inFlight \in Int
           /\ Cardinality(Spent) \in Nat /\ LinesIn(up) \in Nat /\ CreditsIn(down) \in Nat
           /\ Window \in Nat
<1>1. Cardinality(Spent) \in Nat
  <2>1. Spent \subseteq Sessions
    BY DEF Spent
  <2> QED
    BY <2>1, FS_Subset, FS_CardinalityType, CoreLinkAssumption
<1>2. LinesIn(up) \in Nat /\ CreditsIn(down) \in Nat
  BY LinesChange, CreditsChange DEF LinkTypes
<1> QED
  BY <1>1, <1>2, CoreLinkAssumption DEF LinkTypes

LEMMA CreditNumbersNext ==
    ASSUME LinkTypes'
    PROVE  /\ credit' \in Nat /\ returned' \in Nat /\ lost' \in Nat /\ inFlight' \in Int
           /\ Cardinality(Spent') \in Nat /\ LinesIn(up') \in Nat /\ CreditsIn(down') \in Nat
<1>1. Cardinality(Spent') \in Nat
  <2>1. Spent' \subseteq Sessions
    BY DEF Spent
  <2> QED
    BY <2>1, FS_Subset, FS_CardinalityType, CoreLinkAssumption
<1>2. LinesIn(up') \in Nat /\ CreditsIn(down') \in Nat
  BY LinesChange, CreditsChange DEF LinkTypes
<1> QED
  BY <1>1, <1>2 DEF LinkTypes

\* The credits that are anywhere on the stream.
Credits == credit + Cardinality(Spent) + LinesIn(up) + inFlight + returned + CreditsIn(down) + lost

\* A step of the edge: it moves credits about, or the link is down and the core
\* hears nothing of it.
LEMMA EdgeCredits ==
    ASSUME LinkTypes, LinkTypes', CreditInv, UNCHANGED <<fault, inFlight, reading>>, linked' => linked,
           linked /\ reading => Credits' = Credits,
           ~(linked /\ reading) => up' = up
    PROVE  CreditInv'
<1>1. /\ credit' \in Nat /\ returned' \in Nat /\ lost' \in Nat /\ inFlight' \in Int
      /\ Cardinality(Spent') \in Nat /\ LinesIn(up') \in Nat /\ CreditsIn(down') \in Nat
      /\ Window \in Nat
  BY CreditNumbers, CreditNumbersNext
<1>2. ~fault'
  BY DEF CreditInv
<1>3. linked' /\ reading' => Credits' = Window
  BY DEF CreditInv, Credits
<1>4. reading' => LinesIn(up') + inFlight' <= Window
  <2>1. CASE linked /\ reading
    <3>1. credit' + Cardinality(Spent') + LinesIn(up') + inFlight' + returned' + CreditsIn(down') + lost'
          = Window
      BY <2>1 DEF CreditInv, Credits
    <3> QED
      BY <1>1, <3>1
  <2>2. CASE ~(linked /\ reading)
    BY <2>2 DEF CreditInv
  <2> QED
    BY <2>1, <2>2
<1> QED
  BY <1>2, <1>3, <1>4 DEF CreditInv, Credits

\* A send on the stream, and what the task was and becomes.
LEMMA SendCredits ==
    ASSUME LinkTypes, LinkTypes', CreditInv, UNCHANGED <<fault, inFlight, reading, linked, credit, returned, down, lost>>,
           NEW f \in Frame, SendUp(f),
           NEW t \in Sessions, NEW x, x # "spent", conn' = [conn EXCEPT ![t] = x],
           f.type = "Line" <=> conn[t] = "spent"
    PROVE  CreditInv'
<1>1. (linked /\ reading => up' = Append(up, f)) /\ (~(linked /\ reading) => up' = up)
  BY SendUpTyped DEF LinkTypes
<1>2. ASSUME linked, reading
      PROVE  Credits' = Credits
  <2>1. LinesIn(up') = LinesIn(up) + LineWeight(f)
    BY <1>1, <1>2, LinesChange DEF LinkTypes
  <2>2. Cardinality(Spent') = (Cardinality(Spent) - One(conn[t] = "spent")) + One(x = "spent")
    BY SpentChange
  <2>3. LineWeight(f) = One(conn[t] = "spent") /\ One(x = "spent") = 0 /\ LineWeight(f) \in Nat
    BY DEF LineWeight, One
  <2>4. /\ credit \in Nat /\ returned \in Nat /\ lost \in Nat /\ inFlight \in Int
        /\ Cardinality(Spent) \in Nat /\ LinesIn(up) \in Nat /\ CreditsIn(down) \in Nat
    BY CreditNumbers
  <2>5. Cardinality(Spent') + LinesIn(up') = Cardinality(Spent) + LinesIn(up)
    BY <2>1, <2>2, <2>3, <2>4
  <2>6. CreditsIn(down') = CreditsIn(down) /\ Cardinality(Spent') \in Nat /\ LinesIn(up') \in Nat
    BY CreditNumbersNext
  <2> QED
    BY <2>4, <2>5, <2>6 DEF Credits
<1> QED
  BY <1>1, <1>2, EdgeCredits

LEMMA CreditStep ==
    ASSUME LinkTypes, LinkTypes', OrderInv, CreditInv, [Next]_vars
    PROVE  CreditInv'
<1>1. /\ credit \in Nat /\ returned \in Nat /\ lost \in Nat /\ inFlight \in Int
      /\ Cardinality(Spent) \in Nat /\ LinesIn(up) \in Nat /\ CreditsIn(down) \in Nat
      /\ Window \in Nat
  BY CreditNumbers
<1>2. /\ credit' \in Nat /\ returned' \in Nat /\ lost' \in Nat /\ inFlight' \in Int
      /\ Cardinality(Spent') \in Nat /\ LinesIn(up') \in Nat /\ CreditsIn(down') \in Nat
  BY CreditNumbersNext
<1>3. ASSUME NEW t \in Sessions, Open(t)
      PROVE  CreditInv'
  <2>1. /\ UNCHANGED <<fault, inFlight, reading, linked, credit, returned, down, lost>>
        /\ conn[t] = "none" /\ conn' = [conn EXCEPT ![t] = "reading"]
    BY <1>3 DEF Open, coreVars
  <2>2. PICK f \in Frame : SendUp(f) /\ f.type = "Open"
    BY <1>3, MsgTyped DEF Open, Msg
  <2> QED
    BY <2>1, <2>2, SendCredits
<1>4. ASSUME NEW t \in Sessions, SendLine(t)
      PROVE  CreditInv'
  <2>1. /\ UNCHANGED <<fault, inFlight, reading, linked, credit, returned, down, lost>>
        /\ conn[t] = "spent"
    BY <1>4 DEF SendLine, coreVars
  <2>2. PICK x : x # "spent" /\ conn' = [conn EXCEPT ![t] = x]
    <3>1. PICK x : x = IF linked THEN "reading" ELSE "draining"
      OBVIOUS
    <3>2. x # "spent" /\ conn' = [conn EXCEPT ![t] = x]
      BY <1>4, <3>1 DEF SendLine
    <3> QED
      BY <3>2
  <2>3. PICK f \in Frame : SendUp(f) /\ f.type = "Line"
    <3>1. said[t] + 1 \in Nat \ {0}
      BY DEF LinkTypes
    <3> QED
      BY <1>4, <3>1, MsgTyped DEF SendLine, Msg
  <2> QED
    BY <2>1, <2>2, <2>3, SendCredits
<1>5. ASSUME NEW t \in Sessions, ClientCloses(t) \/ TellFailure(t)
      PROVE  CreditInv'
  <2>1. /\ UNCHANGED <<fault, inFlight, reading, linked, credit, returned, down, lost>>
        /\ conn[t] # "spent"
    BY <1>5 DEF ClientCloses, TellFailure, coreVars
  <2>2. PICK x : x # "spent" /\ conn' = [conn EXCEPT ![t] = x]
    BY <1>5 DEF ClientCloses, TellFailure
  <2>3. PICK f \in Frame : SendUp(f) /\ f.type # "Line"
    BY <1>5, MsgTyped DEF ClientCloses, TellFailure, Msg
  <2> QED
    BY <2>1, <2>2, <2>3, SendCredits
<1>6. ASSUME NEW t \in Sessions, LookUp(t) \/ DrainEnds(t)
      PROVE  CreditInv'
  <2>1. /\ UNCHANGED <<fault, inFlight, reading, linked, credit, returned, up, down, lost>>
        /\ conn[t] # "spent"
    BY <1>6 DEF LookUp, DrainEnds, coreVars
  <2>2. PICK x : x # "spent" /\ conn' = [conn EXCEPT ![t] = x]
    BY <1>6 DEF LookUp, DrainEnds
  <2>3. Cardinality(Spent') = Cardinality(Spent)
    <3>1. Cardinality(Spent') = (Cardinality(Spent) - One(conn[t] = "spent")) + One(x = "spent")
      BY <2>2, SpentChange
    <3> QED
      BY <1>1, <2>1, <2>2, <3>1 DEF One
  <2>4. Credits' = Credits
    BY <2>1, <2>3 DEF Credits
  <2> QED
    BY <2>1, <2>4, EdgeCredits
<1>7. ASSUME NEW t \in Sessions, Acquire(t)
      PROVE  CreditInv'
  <2>1. UNCHANGED <<fault, inFlight, reading, linked, returned, up, down, lost>> /\ conn[t] = "waiting"
    BY <1>7 DEF Acquire, coreVars
  <2>2. ASSUME linked, reading
        PROVE  Credits' = Credits
    <3>1. credit' = credit - 1 /\ conn' = [conn EXCEPT ![t] = "spent"]
      BY <1>7, <2>2 DEF Acquire
    <3>2. Cardinality(Spent') = Cardinality(Spent) + 1
      <4>1. Cardinality(Spent') = (Cardinality(Spent) - One(conn[t] = "spent")) + One("spent" = "spent")
        BY <3>1, SpentChange
      <4> QED
        BY <1>1, <2>1, <4>1 DEF One
    <3>3. credit' + Cardinality(Spent') = credit + Cardinality(Spent)
      BY <1>1, <3>1, <3>2
    <3> QED
      BY <2>1, <3>3 DEF Credits
  <2> QED
    BY <2>1, <2>2, EdgeCredits
<1>8. ASSUME NEW t \in Sessions, SessionOver(t) \/ WriterFails(t)
      PROVE  CreditInv'
  <2>1. UNCHANGED <<fault, inFlight, reading, linked, credit, returned, up, down>>
    BY <1>8 DEF SessionOver, WriterFails, coreVars
  <2>2. lost' = lost + Forgone(t)
    BY <1>8 DEF SessionOver, WriterFails
  <2>3. PICK x : x # "spent" /\ conn' = [conn EXCEPT ![t] = x]
    BY <1>8 DEF SessionOver, WriterFails
  <2>4. ASSUME linked, reading
        PROVE  Credits' = Credits
    <3>1. Forgone(t) = One(conn[t] = "spent") /\ One(x = "spent") = 0 /\ Forgone(t) \in Nat
      BY <2>3, <2>4 DEF Forgone, One
    <3>2. Cardinality(Spent') = (Cardinality(Spent) - One(conn[t] = "spent")) + One(x = "spent")
      BY <2>3, SpentChange
    <3>3. Cardinality(Spent') + lost' = Cardinality(Spent) + lost
      BY <1>1, <2>2, <3>1, <3>2
    <3> QED
      BY <1>1, <1>2, <2>1, <3>3 DEF Credits
  <2> QED
    BY <2>1, <2>4, EdgeCredits
<1>9. ASSUME NEW t \in Sessions, Forget(t) \/ ShardEnds(t)
      PROVE  CreditInv'
  <2>1. UNCHANGED <<fault, inFlight, reading, linked, credit, returned, up, down, lost, conn>>
    BY <1>9 DEF Forget, ShardEnds, coreVars, edgeVars
  <2> QED
    BY <2>1, EdgeCredits DEF Credits, Spent
<1>10. ASSUME NEW t \in Sessions, Pump(t)
      PROVE  CreditInv'
  <2>1. UNCHANGED <<fault, inFlight, reading, linked, credit, returned, up, lost, conn>>
    BY <1>10 DEF Pump, PumpEnds, PumpRemoves, edgeVars
  <2>2. down' = down \/ down' = Append(down, Msg("End", t, 0))
    BY <1>10 DEF Pump, PumpEnds, PumpRemoves
  <2>3. CreditsIn(down') = CreditsIn(down)
    <3>1. PICK f \in Answer : f = Msg("End", t, 0) /\ CreditWeight(f) = 0
      BY MsgTyped DEF CreditWeight, Msg
    <3>2. CreditsIn(Append(down, f)) = CreditsIn(down) + CreditWeight(f)
      BY CreditsChange DEF LinkTypes
    <3>3. CreditsIn(Append(down, f)) = CreditsIn(down)
      BY <1>1, <3>1, <3>2
    <3> QED
      BY <2>2, <3>1, <3>3
  <2> QED
    BY <2>1, <2>3, EdgeCredits DEF Credits, Spent
<1>11. CASE ReadDown
  <2>1. UNCHANGED <<fault, inFlight, reading, linked, returned, up, lost, conn>> /\ down # <<>> /\ down' = Tail(down)
    BY <1>11 DEF ReadDown, coreVars
  <2>2. credit' = credit + CreditWeight(Head(down))
    <3>1. CASE Head(down).type = "Credit"
      BY <1>11, <3>1 DEF ReadDown, CreditWeight
    <3>2. CASE Head(down).type # "Credit"
      BY <1>1, <1>11, <3>2 DEF ReadDown, CreditWeight
    <3> QED
      BY <3>1, <3>2
  <2>3. CreditsIn(down') = CreditsIn(down) - CreditWeight(Head(down))
    BY <2>1, CreditsChange DEF LinkTypes
  <2>4. CreditWeight(Head(down)) \in Nat
    BY <2>1, TailAt DEF CreditWeight, LinkTypes, Answer
  <2>5. credit' + CreditsIn(down') = credit + CreditsIn(down)
    BY <1>1, <2>2, <2>3, <2>4
  <2>6. Credits' = Credits
    <3>1. Cardinality(Spent') = Cardinality(Spent)
      BY <2>1 DEF Spent
    <3>2. Credits' = credit' + Cardinality(Spent) + LinesIn(up) + inFlight + returned
                     + CreditsIn(down') + lost
      BY <2>1, <3>1 DEF Credits
    <3>3. Credits' = credit + Cardinality(Spent) + LinesIn(up) + inFlight + returned
                     + CreditsIn(down) + lost
      BY <1>1, <1>2, <2>5, <3>2
    <3> QED
      BY <3>3 DEF Credits
  <2> QED
    BY <2>1, <2>6, EdgeCredits
<1>12. CASE TearDown
  <2>1. UNCHANGED <<fault, inFlight, reading>> /\ ~linked'
    BY <1>12 DEF TearDown, coreVars
  <2>2. PICK k \in 0 .. Len(up) : up' = SubSeq(up, 1, k)
    BY <1>12 DEF TearDown
  <2>3. LinesIn(up') <= LinesIn(up)
    BY <2>2, LinesChange DEF LinkTypes
  <2>4. reading => LinesIn(up) + inFlight <= Window
    BY DEF CreditInv
  <2>5. reading' => LinesIn(up') + inFlight' <= Window
    BY <1>1, <1>2, <2>1, <2>3, <2>4
  <2> QED
    BY <2>1, <2>5 DEF CreditInv
<1>13. CASE ReadUp
  <2>1. PICK f : f = Head(up)
    OBVIOUS
  <2>2. /\ reading /\ up # <<>> /\ f \in Frame /\ up' = Tail(up)
        /\ UNCHANGED <<edgeVars, reading, pusher, returned, shard, ended>>
        /\ lost' = IF f.type = "Line" /\ f.session \notin held THEN lost + 1 ELSE lost
        /\ Drops(f) \/ Refuses(f) \/ Opens(f) \/ Takes(f) \/ Closes(f)
    BY <1>13, <2>1, ReadUpCases, NeverBroken
  <2>3. UNCHANGED <<credit, conn, linked, reading, returned, fault>>
    BY <2>2 DEF edgeVars, Drops, Refuses, Opens, Takes, Closes
  <2>4. LinesIn(up') = LinesIn(up) - LineWeight(f) /\ LineWeight(f) <= LinesIn(up)
    BY <2>1, <2>2, LinesChange DEF LinkTypes
  <2>5. \/ f.type = "Line" /\ inFlight' = inFlight + 1 /\ lost' = lost
        \/ f.type = "Line" /\ inFlight' = inFlight /\ lost' = lost + 1
        \/ f.type # "Line" /\ inFlight' = inFlight /\ lost' = lost
    BY <2>2 DEF Drops, Refuses, Opens, Takes, Closes
  <2>6. LinesIn(up') + inFlight' + lost' = LinesIn(up) + inFlight + lost /\ lost' >= lost
    BY <1>1, <2>4, <2>5 DEF LineWeight
  <2>7. CreditsIn(down') = CreditsIn(down)
    <3>1. down' = down \/ down' = Append(down, Msg("Kill", f.session, 0))
      BY <2>2 DEF Drops, Refuses, Opens, Takes, Closes
    <3>2. PICK g \in Answer : g = Msg("Kill", f.session, 0) /\ CreditWeight(g) = 0
      BY <2>2, FrameFacts, MsgTyped DEF CreditWeight, Msg
    <3>3. CreditsIn(Append(down, g)) = CreditsIn(down) + CreditWeight(g)
      BY CreditsChange DEF LinkTypes
    <3>4. CreditsIn(Append(down, g)) = CreditsIn(down)
      BY <1>1, <3>2, <3>3
    <3> QED
      BY <3>1, <3>2, <3>4
  <2>8. LinesIn(up') + inFlight' <= Window
    <3>1. LinesIn(up) + inFlight <= Window
      BY <2>2 DEF CreditInv
    <3> QED
      BY <1>1, <1>2, <2>6, <3>1
  <2>9. Cardinality(Spent') = Cardinality(Spent)
    BY <2>3 DEF Spent
  <2>10. Credits' = Credits
    BY <1>1, <1>2, <2>3, <2>6, <2>7, <2>9 DEF Credits
  <2> QED
    BY <2>3, <2>8, <2>10 DEF CreditInv, Credits
<1>14. CASE StreamEnds
  BY <1>14 DEF StreamEnds, CreditInv
<1>15. CASE Recv
  <2>1. UNCHANGED <<credit, conn, linked, reading, fault, up, down, lost>>
    BY <1>15 DEF Recv, edgeVars
  <2>2. \/ inFlight' = inFlight - 1 /\ returned' = returned + 1
        \/ inFlight' = inFlight /\ returned' = returned
    BY <1>15 DEF Recv
  <2>3. inFlight' + returned' = inFlight + returned /\ inFlight' <= inFlight
    BY <1>1, <2>2
  <2>4. Credits' = Credits
    <3>1. Cardinality(Spent') = Cardinality(Spent)
      BY <2>1 DEF Spent
    <3>2. Credits' = credit + Cardinality(Spent) + LinesIn(up) + inFlight' + returned'
                     + CreditsIn(down) + lost
      BY <2>1, <3>1 DEF Credits
    <3>3. Credits' = credit + Cardinality(Spent) + LinesIn(up) + inFlight + returned
                     + CreditsIn(down) + lost
      BY <1>1, <1>2, <2>2, <3>2
    <3> QED
      BY <3>3 DEF Credits
  <2>5. reading' => LinesIn(up') + inFlight' <= Window
    <3>1. reading => LinesIn(up) + inFlight <= Window
      BY DEF CreditInv
    <3> QED
      BY <1>1, <1>2, <2>1, <2>3, <3>1
  <2> QED
    BY <2>1, <2>4, <2>5 DEF CreditInv, Credits
<1>16. CASE Flush
  <2>1. UNCHANGED <<credit, conn, linked, reading, fault, up, lost, inFlight>> /\ returned' = 0
    BY <1>16 DEF Flush, edgeVars
  <2>2. ASSUME linked
        PROVE  CreditsIn(down') = CreditsIn(down) + returned
    <3>1. down' = Append(down, Credit(returned))
      BY <1>16, <2>2 DEF Flush
    <3>2. PICK g \in Answer : g = Credit(returned) /\ CreditWeight(g) = returned
      <4>1. \A n \in Nat : Credit(n) \in Answer /\ CreditWeight(Credit(n)) = n
        BY DEF CreditWeight, Credit, Answer
      <4> QED
        BY <1>1, <4>1
    <3>3. CreditsIn(Append(down, g)) = CreditsIn(down) + CreditWeight(g)
      BY CreditsChange DEF LinkTypes
    <3> QED
      BY <3>1, <3>2, <3>3
  <2>3. linked => Credits' = Credits
    <3>1. Cardinality(Spent') = Cardinality(Spent)
      BY <2>1 DEF Spent
    <3> QED
      BY <1>1, <1>2, <2>1, <2>2, <3>1 DEF Credits
  <2> QED
    BY <2>1, <2>3, EdgeCredits
<1>17. CASE UNCHANGED vars
  <2>1. UNCHANGED <<credit, conn, linked, reading, fault, up, down, lost, inFlight, returned>>
    BY <1>17 DEF vars, edgeVars, coreVars
  <2> QED
    BY <2>1, EdgeCredits DEF Credits, Spent
<1> QED
  BY <1>3, <1>4, <1>5, <1>6, <1>7, <1>8, <1>9, <1>10, <1>11, <1>12, <1>13, <1>14, <1>15, <1>16,
     <1>17 DEF Next, Connection

-----------------------------------------------------------------------------
\* No session is left behind: one step.

Kept(s) == Remembered(s)' /\ (Never(s) /\ conn[s] # "none" => Never(s)' /\ conn'[s] # "none")

\* The core moves no input of the session, and forgets it only when it has ended.
LEMMA RememberedStands ==
    ASSUME NEW s, Remembered(s), CoreStands(s),
           0 \in Nums(up', s) => 0 \in Nums(up, s) \/ conn[s] = "none",
           linked' => linked, reading' => reading,
           linked' /\ reading' => (Ends(up, s) => Ends(up', s)),
           s \in held => s \in held' \/ s \in ended', s \in ended => s \in ended',
           pump'[s] = "removing" => pump[s] = "removing" \/ s \in ended',
           conn'[s] = "none" => conn[s] = "none",
           linked' /\ reading' /\ conn'[s] \in {"draining", "done"} =>
               \/ conn[s] \in {"draining", "done"} \/ Ends(up', s)
               \/ s \in ended \/ (Never(s) /\ conn[s] # "none"),
           linked' /\ reading' /\ conn'[s] \in Talking /\ s \notin live' =>
               \/ conn[s] \in Talking /\ s \notin live
               \/ s \in ended \/ (Never(s) /\ conn[s] # "none")
    PROVE  Kept(s)
<1>1. (OpenTold(s)' <=> OpenTold(s)) /\ (ClosedTold(s)' <=> ClosedTold(s))
  BY CoreStandsTold
<1>2. Never(s) /\ conn[s] # "none" => Never(s)' /\ conn'[s] # "none"
  BY <1>1 DEF Never
<1>3. conn[s] \in {"draining", "done"} \/ conn[s] \in Talking => conn[s] # "none"
  BY DEF Talking
<1>4. Remembered(s)'
  BY <1>1, <1>2, <1>3 DEF Remembered
<1> QED
  BY <1>2, <1>4 DEF Kept

LEMMA UpTail ==
    ASSUME NEW s, up \in Seq(Frame), up # <<>>, InOrder(up, s), up' = Tail(up), NEW f, f = Head(up)
    PROVE  /\ Data(f, s) => f.n \in Nums(up, s) /\ Nums(up', s) = Nums(up, s) \ {f.n}
           /\ ~Data(f, s) => Nums(up', s) = Nums(up, s)
           /\ Over(f, s) => Nums(up', s) = {}
           /\ Ends(up, s) <=> Over(f, s) \/ Ends(up', s)
<1>1. PICK q \in Seq(Frame) : q = up
  OBVIOUS
<1>2. PICK p : p = up'
  OBVIOUS
<1>3. q # <<>> /\ InOrder(q, s) /\ p = Tail(q) /\ f = Head(q)
  BY <1>1, <1>2
<1>4. /\ InOrder(p, s)
      /\ Data(f, s) => /\ f.n \in Nums(q, s) /\ Nums(p, s) = Nums(q, s) \ {f.n}
                       /\ \A n \in Nums(q, s) : f.n <= n
      /\ ~Data(f, s) => Nums(p, s) = Nums(q, s)
      /\ Over(f, s) => Nums(p, s) = {}
      /\ Ends(q, s) <=> Over(f, s) \/ Ends(p, s)
  BY <1>3, TailFrame
<1> QED
  BY <1>1, <1>2, <1>4

LEMMA ReadUpRemembers ==
    ASSUME LinkTypes, OrderInv, CreditInv, EndInv, ReadUp, NEW s \in Sessions
    PROVE  Kept(s)
<1>1. PICK f : f = Head(up)
  OBVIOUS
<1>2. /\ reading /\ up # <<>> /\ f \in Frame /\ up' = Tail(up)
      /\ UNCHANGED <<edgeVars, reading, pusher, returned, shard, ended>>
      /\ Drops(f) \/ Refuses(f) \/ Opens(f) \/ Takes(f) \/ Closes(f)
  BY <1>1, ReadUpCases, NeverBroken
<1>3. SessionOrder(s) /\ Remembered(s) /\ InOrder(up, s) /\ InOrder(inputs, s) /\ up \in Seq(Frame)
  BY DEF OrderInv, EndInv, SessionOrder, WireOrder, CoreOrder, LinkTypes
<1>4. UNCHANGED <<linked, reading, conn, live, shard, ended>>
  BY <1>2 DEF edgeVars
<1>5. pump'[s] = "removing" => pump[s] = "removing"
  BY <1>2 DEF Drops, Refuses, Opens, Takes, Closes, PumpStands
<1>6. /\ Data(f, s) => /\ f.n \in Nums(up, s) /\ Nums(up', s) = Nums(up, s) \ {f.n}
      /\ ~Data(f, s) => Nums(up', s) = Nums(up, s)
      /\ Over(f, s) => Nums(up', s) = {}
      /\ Ends(up, s) <=> Over(f, s) \/ Ends(up', s)
  <2>1. up # <<>> /\ InOrder(up, s) /\ up \in Seq(Frame) /\ up' = Tail(up)
    BY <1>2, <1>3
  <2> QED
    BY <1>1, <2>1, UpTail
<1>7. CASE f.session # s
  <2>1. CoreStands(s) /\ Nums(up', s) = Nums(up, s) /\ (Ends(up', s) <=> Ends(up, s))
    BY <1>1, <1>7, ReadUpOther
  <2>2. s \in held => s \in held'
    BY <1>2, <1>7 DEF Drops, Refuses, Opens, Takes, Closes
  <2> QED
    BY <1>3, <1>4, <1>5, <2>1, <2>2, RememberedStands
<1>8. CASE f.session = s
  <2>1. /\ f.type \in {"Open", "Line"} <=> Data(f, s)
        /\ ~Data(f, s) <=> Over(f, s)
        /\ f.n \in Nat /\ (f.type = "Open" => f.n = 0)
    BY <1>2, <1>8, FrameFacts DEF Data, Over
  <2>2. CASE Drops(f) \/ Refuses(f)
    <3>1. CoreStands(s) /\ s \notin held
      BY <1>2, <1>3, <1>8, <2>2 DEF CoreStands, Drops, Refuses
    <3>2. (OpenTold(s)' <=> OpenTold(s)) /\ (ClosedTold(s)' <=> ClosedTold(s))
      BY <3>1, CoreStandsTold
    <3>3. Nums(up', s) \subseteq Nums(up, s)
      BY <1>6, <2>1
    <3>4. CASE Over(f, s)
      <4>1. OpenTold(s) => ClosedTold(s) \/ s \in ended
        BY <1>3, <3>1 DEF Remembered
      <4>2. ~OpenTold(s) => Never(s)'
        BY <1>6, <3>2, <3>4 DEF Never
      <4>3. Never(s) => Never(s)'
        BY <3>2, <3>3 DEF Never
      <4> QED
        BY <1>3, <1>4, <1>5, <3>2, <4>1, <4>2, <4>3 DEF Kept, Remembered
    <3>5. CASE Data(f, s)
      <4>1. Ends(up, s) => Ends(up', s)
        BY <1>6, <2>1, <3>5
      <4> QED
        BY <1>3, <1>4, <1>5, <3>1, <3>3, <4>1, RememberedStands
    <3> QED
      BY <2>1, <3>4, <3>5
  <2>3. CASE Opens(f)
    <3>1. Data(f, s) /\ f.n = 0 /\ ~Over(f, s) /\ inputs' = Append(inputs, f) /\ s \in held'
      BY <1>8, <2>1, <2>3 DEF Opens
    <3>2. 0 \in Nums(up, s) /\ ~Never(s)
      BY <1>6, <3>1 DEF Never
    <3>3. ClosedTold(s)' <=> ClosedTold(s)
      <4>1. Ends(inputs', s) <=> Ends(inputs, s) \/ Over(f, s)
        BY <1>2, <3>1, InputAppended
      <4> QED
        BY <1>4, <3>1, <4>1 DEF ClosedTold, Heard
    <3> QED
      BY <1>3, <1>4, <1>5, <1>6, <3>1, <3>2, <3>3 DEF Kept, Remembered
  <2>4. CASE Takes(f)
    <3>1. Data(f, s) /\ ~Over(f, s) /\ inputs' = Append(inputs, f) /\ s \in held /\ s \in held'
      BY <1>8, <2>1, <2>4 DEF Takes
    <3>2. ~Never(s)
      BY <1>3, <3>1 DEF Never, SessionOrder, CoreOrder
    <3>3. ClosedTold(s)' <=> ClosedTold(s)
      <4>1. Ends(inputs', s) <=> Ends(inputs, s) \/ Over(f, s)
        BY <1>2, <3>1, InputAppended
      <4> QED
        BY <1>4, <3>1, <4>1 DEF ClosedTold, Heard
    <3> QED
      BY <1>3, <1>4, <1>5, <1>6, <3>1, <3>2, <3>3 DEF Kept, Remembered
  <2>5. CASE Closes(f)
    <3>1. PICK g \in Frame : inputs' = Append(inputs, g) /\ Over(g, s)
      BY <1>8, <2>5, MsgTyped DEF Closes, Msg, Over
    <3>2. Over(f, s) /\ s \in held
      BY <1>8, <2>1, <2>5 DEF Closes
    <3>3. ClosedTold(s)' /\ ~Never(s)
      <4>1. Ends(inputs', s) <=> Ends(inputs, s) \/ Over(g, s)
        BY <3>1, InputAppended
      <4> QED
        BY <1>3, <3>1, <3>2, <4>1 DEF ClosedTold, Never, SessionOrder, CoreOrder
    <3>4. conn[s] \notin Talking
      BY <1>2, <1>3, <1>6, <3>2 DEF SessionOrder, ConnOrder
    <3> QED
      BY <1>3, <1>4, <1>5, <3>3, <3>4 DEF Kept, Remembered
  <2> QED
    BY <1>2, <2>2, <2>3, <2>4, <2>5
<1> QED
  BY <1>7, <1>8

LEMMA RecvRemembers ==
    ASSUME LinkTypes, OrderInv, EndInv, Recv, NEW s \in Sessions
    PROVE  Kept(s)
<1>1. PICK f : f = Head(inputs)
  OBVIOUS
<1>2. /\ inputs # <<>> /\ f \in Frame /\ f.session \in Sessions /\ f.type # "WriteFailed"
      /\ inputs' = Tail(inputs) /\ <<f.type, f.n>> \in Word
      /\ shard'[f.session] = Append(shard[f.session], <<f.type, f.n>>)
      /\ \A t \in Sessions : t # f.session => shard'[t] = shard[t]
  BY <1>1, RecvFacts
<1>3. UNCHANGED <<linked, reading, conn, live, ended, up, held, pump>>
  BY DEF Recv, edgeVars
<1>4. SessionOrder(s) /\ Remembered(s) /\ InOrder(inputs, s) /\ inputs \in Seq(Frame)
  BY DEF OrderInv, EndInv, SessionOrder, CoreOrder, LinkTypes
<1>5. /\ InOrder(inputs', s)
      /\ Data(f, s) => /\ f.n \in Nums(inputs, s) /\ Nums(inputs', s) = Nums(inputs, s) \ {f.n}
                       /\ \A n \in Nums(inputs, s) : f.n <= n
      /\ ~Data(f, s) => Nums(inputs', s) = Nums(inputs, s)
      /\ Over(f, s) => Nums(inputs', s) = {}
      /\ Ends(inputs, s) <=> Over(f, s) \/ Ends(inputs', s)
  BY <1>1, <1>2, <1>4, TailFrame
<1>6. CASE f.session # s
  <2>1. ~Data(f, s) /\ ~Over(f, s)
    BY <1>6 DEF Data, Over
  <2>2. CoreStands(s)
    BY <1>2, <1>5, <1>6, <2>1 DEF CoreStands
  <2> QED
    BY <1>3, <1>4, <2>2, RememberedStands
<1>7. CASE f.session = s
  <2>1. PICK w \in Word : w = <<f.type, f.n>>
    BY <1>2
  <2>2. /\ shard'[s] = Append(shard[s], w) /\ w[1] = f.type /\ shard[s] \in Seq(Word)
    BY <1>2, <1>7, <2>1, SessionNums
  <2>3. shard'[s] # <<>> /\ (Heard(s, "Closed")' <=> Heard(s, "Closed") \/ w[1] = "Closed")
    BY <2>2, ShardHears
  <2>4. (f.type = "Closed" <=> Over(f, s)) /\ (~Data(f, s) <=> Over(f, s)) /\ f.n \in Nat
    BY <1>2, <1>7, FrameFacts DEF Data, Over
  <2>5. ClosedTold(s)' <=> ClosedTold(s)
    BY <1>5, <2>2, <2>3, <2>4 DEF ClosedTold
  <2>6. OpenTold(s)
    <3>1. CASE Over(f, s)
      BY <1>4, <1>5, <3>1 DEF SessionOrder, CoreOrder
    <3>2. CASE Data(f, s)
      <4>1. Nums(inputs, s) \subseteq Nat /\ Len(shard[s]) \in Nat /\ (shard[s] = <<>> <=> Len(shard[s]) = 0)
        BY SessionNums
      <4>2. f.n = Len(shard[s]) \/ f.n - 1 \in Nums(inputs, s)
        BY <1>4, <1>5, <3>2 DEF SessionOrder, CoreOrder
      <4>3. f.n - 1 \notin Nums(inputs, s)
        BY <1>5, <2>4, <3>2, <4>1
      <4>4. f.n \in Nums(inputs, s)
        BY <1>5, <3>2
      <4> QED
        BY <4>1, <4>2, <4>3, <4>4 DEF OpenTold
    <3> QED
      BY <2>4, <3>1, <3>2
  <2>7. ~Never(s)
    BY <2>6 DEF Never
  <2> QED
    BY <1>3, <1>4, <2>5, <2>6, <2>7 DEF Kept, Remembered
<1> QED
  BY <1>6, <1>7

\* Nothing of the session moves, and its connection is as it was.
LEMMA NothingOfIt ==
    ASSUME NEW s, Remembered(s), InOrder(inputs, s), ended \subseteq ended',
           UNCHANGED <<shard, inputs, linked, reading>>,
           conn'[s] = conn[s], pump'[s] = pump[s], s \in held => s \in held',
           s \in live => s \in live',
           Nums(up', s) = Nums(up, s), Ends(up', s) <=> Ends(up, s)
    PROVE  Kept(s)
<1>1. CoreStands(s)
  BY DEF CoreStands
<1> QED
  BY <1>1, RememberedStands

\* A send on the stream by the connection of t.
LEMMA SendRemembers ==
    ASSUME LinkTypes, OrderInv, EndInv, NEW s \in Sessions, NEW t \in Sessions,
           UNCHANGED <<linked, coreVars>>, NEW f \in Frame, f.session = t, SendUp(f),
           NEW x, conn' = [conn EXCEPT ![t] = x], x # "none",
           0 \in {f.n} /\ Data(f, t) => conn[t] = "none",
           linked /\ reading /\ x \in {"draining", "done"} => Over(f, t),
           x \in Talking => conn[t] \in Talking \/ t \in live',
           live \subseteq live', live' \subseteq live \cup {t}
    PROVE  Kept(s)
<1>1. Remembered(s) /\ InOrder(inputs, s) /\ up \in Seq(Frame)
  BY DEF OrderInv, EndInv, SessionOrder, CoreOrder, LinkTypes
<1>2. UNCHANGED <<reading, held, inputs, pump, shard, ended>>
  BY DEF coreVars
<1>3. conn'[t] = x /\ (s # t => conn'[s] = conn[s])
  BY DEF LinkTypes
<1>4. (linked /\ reading => up' = Append(up, f)) /\ (~(linked /\ reading) => up' = up)
  BY <1>1, SendUpTyped
<1>5. /\ up' = up \/ (Data(f, s) => Nums(up', s) = Nums(up, s) \cup {f.n})
      /\ ~Data(f, s) => Nums(up', s) = Nums(up, s)
      /\ Ends(up, s) => Ends(up', s)
      /\ linked /\ reading /\ Over(f, s) => Ends(up', s)
      /\ ~Over(f, s) /\ Ends(up', s) => Ends(up, s)
  <2>1. CASE linked /\ reading
    <3>1. up' = Append(up, f)
      BY <1>4, <2>1
    <3>2. /\ Data(f, s) => Nums(up', s) = Nums(up, s) \cup {f.n}
          /\ ~Data(f, s) => Nums(up', s) = Nums(up, s)
          /\ Ends(up', s) <=> Ends(up, s) \/ Over(f, s)
      BY <1>1, <3>1, UpAppended
    <3> QED
      BY <3>2
  <2>2. CASE ~(linked /\ reading)
    <3>1. up' = up
      BY <1>4, <2>2
    <3> QED
      BY <2>2, <3>1
  <2> QED
    BY <2>1, <2>2
<1>6. CASE s # t
  <2>1. ~Data(f, s) /\ ~Over(f, s)
    BY <1>6 DEF Data, Over
  <2> QED
    BY <1>1, <1>2, <1>3, <1>5, <1>6, <2>1, NothingOfIt
<1>7. CASE s = t
  <2>1. CoreStands(s)
    BY <1>1, <1>2 DEF CoreStands
  <2>2. 0 \in Nums(up', s) => 0 \in Nums(up, s) \/ conn[s] = "none"
    BY <1>5, <1>7
  <2>3. linked' /\ reading' /\ conn'[s] \in {"draining", "done"} => Ends(up', s)
    BY <1>2, <1>3, <1>5, <1>7
  <2>4. conn'[s] \in Talking /\ s \notin live' => conn[s] \in Talking /\ s \notin live
    BY <1>3, <1>7
  <2> QED
    BY <1>1, <1>2, <1>3, <1>5, <1>7, <2>1, <2>2, <2>3, <2>4, RememberedStands
<1> QED
  BY <1>6, <1>7

\* A step of the connection of t that sends nothing.
LEMMA ConnRemembers ==
    ASSUME LinkTypes, OrderInv, EndInv, NEW s \in Sessions, NEW t \in Sessions,
           LookUp(t) \/ Acquire(t) \/ SessionOver(t) \/ WriterFails(t) \/ DrainEnds(t)
    PROVE  Kept(s)
<1>1. /\ Remembered(s) /\ InOrder(inputs, s)
      /\ conn \in [Sessions -> Talking \cup {"none", "draining", "failed", "done"}]
  BY DEF OrderInv, EndInv, SessionOrder, CoreOrder, LinkTypes
<1>2. UNCHANGED <<up, linked, live, reading, held, inputs, pump, shard, ended>>
  BY DEF LookUp, Acquire, SessionOver, WriterFails, DrainEnds, coreVars
<1>3. PICK x \in {"waiting", "spent", "draining", "failed", "done"} :
          /\ conn' = [conn EXCEPT ![t] = x]
          /\ x \in {"waiting", "spent"} => conn[t] \in Talking
          /\ x = "done" => conn[t] = "draining"
          /\ linked /\ x = "draining" => conn[t] \in Talking /\ t \notin live
  <2>1. CASE LookUp(t)
    BY <2>1 DEF LookUp, Talking
  <2>2. CASE Acquire(t)
    BY <2>2 DEF Acquire, Talking
  <2>3. CASE SessionOver(t)
    BY <2>3 DEF SessionOver, Stoppable, Talking
  <2>4. CASE WriterFails(t)
    BY <2>4 DEF WriterFails
  <2>5. CASE DrainEnds(t)
    BY <2>5 DEF DrainEnds
  <2> QED
    BY <2>1, <2>2, <2>3, <2>4, <2>5
<1>4. conn'[t] = x /\ (s # t => conn'[s] = conn[s])
  BY <1>1, <1>3
<1>5. CASE s # t
  BY <1>1, <1>2, <1>4, <1>5, NothingOfIt
<1>6. CASE s = t
  <2>1. CoreStands(s)
    BY <1>1, <1>2 DEF CoreStands
  <2>2. linked' /\ reading' /\ conn'[s] \in {"draining", "done"} =>
            \/ conn[s] \in {"draining", "done"}
            \/ s \in ended \/ (Never(s) /\ conn[s] # "none")
    BY <1>1, <1>2, <1>3, <1>4, <1>6 DEF Remembered, Talking
  <2>3. conn'[s] \in Talking /\ s \notin live' => conn[s] \in Talking /\ s \notin live
    BY <1>2, <1>3, <1>4, <1>6 DEF Talking
  <2>4. conn'[s] # "none"
    BY <1>3, <1>4, <1>6
  <2> QED
    BY <1>1, <1>2, <2>1, <2>2, <2>3, <2>4, RememberedStands
<1> QED
  BY <1>5, <1>6

\* Every answer on its way to the edge is an old one, or the new one is true.
LEMMA AnswersStand ==
    ASSUME LinkTypes, AnswersTrue, \A s \in Sessions : Kept(s), ended \subseteq ended',
           \/ down' = down \/ down' = <<>> \/ (down # <<>> /\ down' = Tail(down))
           \/ \E g \in Answer : down' = Append(down, g) /\ AnswerTrue(g)'
    PROVE  AnswersTrue'
<1>1. down \in Seq(Answer) /\ \A i \in DOMAIN down : down[i] \in Answer
  BY ElementOfSeq, LenProperties DEF LinkTypes
<1>2. \A g \in Answer : g.type \in {"Kill", "End"} => g.session \in Sessions
  BY DEF Answer
<1>3. ASSUME NEW g, NEW i \in DOMAIN down, g = down[i]
      PROVE  AnswerTrue(g)'
  <2>1. AnswerTrue(g) /\ g \in Answer
    BY <1>1, <1>3 DEF AnswersTrue
  <2> QED
    BY <1>2, <2>1 DEF AnswerTrue, Kept
<1>4. SUFFICES ASSUME NEW g, NEW i \in DOMAIN down', g = down'[i]
               PROVE  AnswerTrue(g)'
  BY DEF AnswersTrue, AnswerTrue
<1>5. CASE down' = down
  BY <1>3, <1>4, <1>5
<1>6. CASE down' = <<>>
  BY <1>6
<1>7. CASE down # <<>> /\ down' = Tail(down)
  <2>1. /\ Len(down) \in Nat /\ DOMAIN down = 1 .. Len(down) /\ DOMAIN Tail(down) = 1 .. (Len(down) - 1)
        /\ \A j \in 1 .. (Len(down) - 1) : Tail(down)[j] = down[j + 1]
    BY <1>1, <1>7, TailAt
  <2>2. i \in DOMAIN Tail(down) /\ g = Tail(down)[i]
    BY <1>4, <1>7
  <2>3. i + 1 \in DOMAIN down /\ g = down[i + 1]
    BY <2>1, <2>2
  <2> QED
    BY <1>3, <2>3
<1>8. ASSUME NEW h \in Answer, down' = Append(down, h), AnswerTrue(h)'
      PROVE  AnswerTrue(g)'
  <2>1. /\ Len(down) \in Nat /\ DOMAIN down = 1 .. Len(down)
        /\ DOMAIN Append(down, h) = 1 .. (Len(down) + 1)
        /\ \A j \in 1 .. Len(down) : Append(down, h)[j] = down[j]
        /\ Append(down, h)[Len(down) + 1] = h
    BY <1>1, AppendAt
  <2>2. i \in DOMAIN Append(down, h) /\ g = Append(down, h)[i]
    BY <1>4, <1>8
  <2>3. g = h \/ (i \in DOMAIN down /\ g = down[i])
    BY <2>1, <2>2
  <2> QED
    BY <1>3, <1>8, <2>3
<1> QED
  BY <1>5, <1>6, <1>7, <1>8

LEMMA KeptStep ==
    ASSUME LinkTypes, LinkTypes', OrderInv, CreditInv, EndInv, [Next]_vars, NEW s \in Sessions
    PROVE  Kept(s)
<1>1. Remembered(s) /\ InOrder(inputs, s) /\ InOrder(up, s) /\ up \in Seq(Frame)
  BY DEF OrderInv, EndInv, SessionOrder, CoreOrder, WireOrder, LinkTypes
<1>2. ASSUME NEW t \in Sessions, Open(t)
      PROVE  Kept(s)
  <2>1. /\ UNCHANGED <<linked, coreVars>> /\ conn[t] = "none" /\ live' = live \cup {t}
        /\ conn' = [conn EXCEPT ![t] = "reading"]
    BY <1>2 DEF Open
  <2>2. PICK f \in Frame : f.session = t /\ SendUp(f)
    BY <1>2, MsgTyped DEF Open, Msg
  <2> QED
    BY <2>1, <2>2, SendRemembers
<1>3. ASSUME NEW t \in Sessions, SendLine(t)
      PROVE  Kept(s)
  <2>1. UNCHANGED <<linked, live, coreVars>> /\ conn[t] = "spent"
    BY <1>3 DEF SendLine
  <2>2. PICK x : /\ conn' = [conn EXCEPT ![t] = x] /\ x # "none"
                 /\ linked => x = "reading"
                 /\ x \in {"reading", "draining"}
    <3>1. PICK x : x = IF linked THEN "reading" ELSE "draining"
      OBVIOUS
    <3>2. conn' = [conn EXCEPT ![t] = x]
      BY <1>3, <3>1 DEF SendLine
    <3> QED
      BY <3>1, <3>2
  <2>3. PICK f \in Frame : f.session = t /\ f.n # 0 /\ SendUp(f)
    <3>1. PICK n \in Nat \ {0} : n = said[t] + 1
      <4>1. said \in [Sessions -> Nat]
        BY DEF LinkTypes
      <4>2. said[t] + 1 \in Nat \ {0}
        BY <4>1
      <4> QED
        BY <4>2
    <3>2. PICK f \in Frame : f = Msg("Line", t, n)
      BY MsgTyped
    <3>3. SendUp(f)
      BY <1>3, <3>1, <3>2 DEF SendLine
    <3>4. f.session = t /\ f.n # 0
      BY <3>2 DEF Msg
    <3> QED
      BY <3>3, <3>4
  <2>4. conn[t] \in Talking
    BY <2>1 DEF Talking
  <2> QED
    BY <2>1, <2>2, <2>3, <2>4, SendRemembers
<1>4. ASSUME NEW t \in Sessions, ClientCloses(t) \/ TellFailure(t)
      PROVE  Kept(s)
  <2>1. UNCHANGED <<linked, live, coreVars>>
    BY <1>4 DEF ClientCloses, TellFailure
  <2>2. PICK x \in {"draining", "done"} : conn' = [conn EXCEPT ![t] = x]
    BY <1>4 DEF ClientCloses, TellFailure
  <2>3. PICK f \in Frame : f.session = t /\ Over(f, t) /\ ~Data(f, t) /\ SendUp(f)
    <3>1. /\ Msg("Closed", t, 0) \in Frame /\ Msg("WriteFailed", t, 0) \in Frame
          /\ Msg("Closed", t, 0).session = t /\ Over(Msg("Closed", t, 0), t)
          /\ Msg("WriteFailed", t, 0).session = t /\ Over(Msg("WriteFailed", t, 0), t)
      BY MsgTyped DEF Msg, Over
    <3>2. \A f : Over(f, t) => ~Data(f, t)
      BY DEF Over, Data
    <3> QED
      BY <1>4, <3>1, <3>2 DEF ClientCloses, TellFailure
  <2>4. x # "none" /\ x \notin Talking
    BY DEF Talking
  <2> QED
    BY <2>1, <2>2, <2>3, <2>4, SendRemembers
<1>5. ASSUME NEW t \in Sessions,
             LookUp(t) \/ Acquire(t) \/ SessionOver(t) \/ WriterFails(t) \/ DrainEnds(t)
      PROVE  Kept(s)
  BY <1>5, ConnRemembers
<1>6. ASSUME NEW t \in Sessions, Forget(t)
      PROVE  Kept(s)
  <2>1. /\ UNCHANGED <<conn, up, linked, reading, held, inputs, pump, shard, ended>>
        /\ live' = live \ {t} /\ conn[t] \notin Talking
    BY <1>6 DEF Forget, coreVars, Talking
  <2>2. CoreStands(s)
    BY <1>1, <2>1 DEF CoreStands
  <2> QED
    BY <1>1, <2>1, <2>2, RememberedStands
<1>7. ASSUME NEW t \in Sessions, ShardEnds(t)
      PROVE  Kept(s)
  <2>1. /\ UNCHANGED <<conn, live, up, linked, reading, held, inputs, pump, shard>>
        /\ ended \subseteq ended'
    BY <1>7 DEF ShardEnds, edgeVars
  <2> QED
    BY <1>1, <2>1, NothingOfIt
<1>8. ASSUME NEW t \in Sessions, Pump(t)
      PROVE  Kept(s)
  <2>1. UNCHANGED <<conn, live, up, linked, reading, inputs, shard, ended>>
    BY <1>8 DEF Pump, PumpEnds, PumpRemoves, edgeVars
  <2>2. CoreStands(s)
    BY <1>1, <2>1 DEF CoreStands
  <2>3. pump'[s] = "removing" => pump[s] = "removing" \/ s \in ended
    BY <1>8 DEF Pump, PumpEnds, PumpRemoves, LinkTypes
  <2>4. s \in held => s \in held' \/ s \in ended
    BY <1>1, <1>8 DEF Pump, PumpEnds, PumpRemoves, Remembered
  <2> QED
    BY <1>1, <2>1, <2>2, <2>3, <2>4, RememberedStands
<1>9. CASE ReadDown
  <2>1. UNCHANGED <<conn, up, linked, reading, held, inputs, pump, shard, ended>> /\ down # <<>>
    BY <1>9 DEF ReadDown, coreVars
  <2>2. PICK g \in Answer : g = Head(down) /\ g = down[1] /\ 1 \in DOMAIN down
    <3>1. down \in Seq(Answer)
      BY DEF LinkTypes
    <3>2. Head(down) \in Answer /\ Head(down) = down[1] /\ Len(down) >= 1 /\ Len(down) \in Nat
          /\ DOMAIN down = 1 .. Len(down)
      BY <2>1, <3>1, TailAt
    <3> QED
      BY <3>2
  <2>3. /\ g.type = "Kill" => Never(g.session) /\ conn[g.session] # "none"
        /\ g.type = "End" => g.session \in ended
    BY <2>2 DEF EndInv, AnswersTrue, AnswerTrue
  <2>4. /\ g.type = "Credit" => live' = live
        /\ g.type # "Credit" => live' = live \ {g.session}
        /\ g.type \in {"Credit", "Kill", "End"}
    BY <1>9, <2>2 DEF ReadDown, Answer
  <2>5. conn'[s] \in Talking /\ s \notin live' =>
            \/ conn[s] \in Talking /\ s \notin live
            \/ s \in ended \/ (Never(s) /\ conn[s] # "none")
    BY <2>1, <2>3, <2>4
  <2>6. CoreStands(s)
    BY <1>1, <2>1 DEF CoreStands
  <2> QED
    BY <1>1, <2>1, <2>5, <2>6, RememberedStands
<1>10. CASE TearDown
  <2>1. PICK k \in 0 .. Len(up) : up' = SubSeq(up, 1, k)
    BY <1>10 DEF TearDown
  <2>2. linked' = FALSE /\ UNCHANGED <<conn, reading, held, inputs, pump, shard, ended>>
    BY <1>10 DEF TearDown, coreVars
  <2>3. Nums(up', s) \subseteq Nums(up, s)
    BY <1>1, <2>1, PrefixFrames
  <2>4. CoreStands(s)
    BY <1>1, <2>2 DEF CoreStands
  <2> QED
    BY <1>1, <2>2, <2>3, <2>4, RememberedStands
<1>11. CASE ReadUp
  BY <1>11, ReadUpRemembers
<1>12. CASE StreamEnds
  <2>1. /\ Nums(inputs', s) = Nums(inputs, s)
        /\ Ends(inputs', s) <=> Ends(inputs, s) \/ s \in held
    BY <1>12, StreamEndsInputs
  <2>2. reading' = FALSE /\ up' = <<>> /\ UNCHANGED <<conn, shard, ended>>
    BY <1>12 DEF StreamEnds, edgeVars
  <2>3. pump'[s] = "removing" => pump[s] = "removing"
    BY <1>12 DEF StreamEnds, EdgeGone
  <2>4. /\ OpenTold(s)' <=> OpenTold(s)
        /\ ClosedTold(s)' <=> ClosedTold(s) \/ s \in held
    BY <2>1, <2>2 DEF OpenTold, ClosedTold, Heard
  <2>5. Never(s) => Never(s)'
    BY <2>2, <2>4, NothingQueued DEF Never
  <2> QED
    BY <1>1, <2>2, <2>3, <2>4, <2>5 DEF Kept, Remembered
<1>13. CASE Recv
  BY <1>13, RecvRemembers
<1>14. CASE Flush \/ UNCHANGED vars
  <2>1. UNCHANGED <<conn, live, up, linked, reading, held, inputs, pump, shard, ended>>
    BY <1>14 DEF Flush, vars, edgeVars, coreVars
  <2> QED
    BY <1>1, <2>1, NothingOfIt
<1> QED
  BY <1>2, <1>3, <1>4, <1>5, <1>6, <1>7, <1>8, <1>9, <1>10, <1>11, <1>12, <1>13, <1>14
     DEF Next, Connection

\* The core refuses a session with Kill only when it has nothing of it and never
\* will, and the edge does not open one twice.
LEMMA RefusalTrue ==
    ASSUME LinkTypes, OrderInv, CreditInv, ReadUp, NEW f, f = Head(up), Refuses(f), NEW s, s = f.session
    PROVE  Never(s)' /\ conn'[s] # "none"
<1>1. /\ reading /\ up # <<>> /\ f \in Frame /\ s \in Sessions /\ up' = Tail(up)
      /\ UNCHANGED <<conn, shard>>
  BY ReadUpCases DEF edgeVars
<1>2. SessionOrder(s) /\ InOrder(up, s) /\ InOrder(inputs, s) /\ up \in Seq(Frame)
  BY <1>1 DEF OrderInv, SessionOrder, WireOrder, CoreOrder, LinkTypes
<1>3. Data(f, s) /\ f.n = 0
  BY <1>1, FrameFacts DEF Data, Refuses
<1>4. 0 \in Nums(up, s) /\ Nums(up', s) = Nums(up, s) \ {0}
  BY <1>1, <1>2, <1>3, UpTail
<1>5. ~OpenTold(s) /\ conn[s] # "none"
  BY <1>2, <1>4 DEF OpenTold, SessionOrder, WireOrder, ConnOrder
<1>6. CoreStands(s)
  BY <1>1, <1>2 DEF CoreStands, Refuses
<1> QED
  BY <1>1, <1>4, <1>5, <1>6, CoreStandsTold DEF Never

LEMMA EndStep ==
    ASSUME LinkTypes, LinkTypes', OrderInv, CreditInv, EndInv, [Next]_vars
    PROVE  EndInv'
<1>1. /\ \A s \in Sessions : Kept(s)
      /\ AnswersTrue /\ (~reading => held = {})
  BY KeptStep DEF EndInv
<1>2. \A s \in Sessions : Remembered(s)'
  BY <1>1 DEF Kept
<1>3. ASSUME NEW t \in Sessions,
             \/ Open(t) \/ Acquire(t) \/ ClientCloses(t) \/ WriterFails(t) \/ LookUp(t)
             \/ SendLine(t) \/ SessionOver(t) \/ TellFailure(t) \/ DrainEnds(t) \/ Forget(t)
             \/ ShardEnds(t)
      PROVE  EndInv'
  <2>1. UNCHANGED <<down, reading, held>> /\ ended \subseteq ended'
    BY <1>3 DEF Open, Acquire, ClientCloses, WriterFails, LookUp, SendLine, SessionOver, TellFailure,
       DrainEnds, Forget, ShardEnds, coreVars
  <2>2. AnswersTrue'
    BY <1>1, <2>1, AnswersStand
  <2> QED
    BY <1>1, <1>2, <2>1, <2>2 DEF EndInv
<1>4. ASSUME NEW t \in Sessions, Pump(t)
      PROVE  EndInv'
  <2>1. UNCHANGED <<reading, ended>> /\ (held = {} => held' = {})
    BY <1>4 DEF Pump, PumpEnds, PumpRemoves
  <2>2. PICK g \in Answer : g = Msg("End", t, 0)
    BY MsgTyped
  <2>3. down' = down \/ (down' = Append(down, g) /\ t \in ended)
    BY <1>4, <2>2 DEF Pump, PumpEnds, PumpRemoves
  <2>4. t \in ended => AnswerTrue(g)'
    BY <2>1, <2>2 DEF AnswerTrue, Msg
  <2>5. AnswersTrue'
    BY <1>1, <2>1, <2>3, <2>4, AnswersStand
  <2> QED
    BY <1>1, <1>2, <2>1, <2>5 DEF EndInv
<1>5. CASE ReadDown \/ TearDown \/ StreamEnds \/ Recv \/ UNCHANGED vars
  <2>1. /\ \/ down' = down \/ down' = <<>> \/ (down # <<>> /\ down' = Tail(down))
        /\ UNCHANGED ended
    BY <1>5 DEF ReadDown, TearDown, StreamEnds, Recv, vars, edgeVars, coreVars
  <2>2. held' = {} \/ UNCHANGED <<held, reading>>
    BY <1>5 DEF ReadDown, TearDown, StreamEnds, Recv, vars, edgeVars, coreVars
  <2>3. AnswersTrue'
    BY <1>1, <2>1, AnswersStand
  <2> QED
    BY <1>1, <1>2, <2>2, <2>3 DEF EndInv
<1>6. CASE Flush
  <2>1. UNCHANGED <<held, reading, ended>>
    BY <1>6 DEF Flush
  <2>2. PICK g \in Answer : g = Credit(returned)
    BY MsgTyped DEF LinkTypes, Credit, Answer
  <2>3. down' = down \/ down' = Append(down, g)
    BY <1>6, <2>2 DEF Flush
  <2>4. AnswerTrue(g)'
    BY <2>2 DEF AnswerTrue, Credit
  <2>5. AnswersTrue'
    BY <1>1, <2>1, <2>3, <2>4, AnswersStand
  <2> QED
    BY <1>1, <1>2, <2>1, <2>5 DEF EndInv
<1>7. CASE ReadUp
  <2>1. PICK f : f = Head(up)
    OBVIOUS
  <2>2. /\ f \in Frame /\ f.session \in Sessions /\ UNCHANGED <<reading, ended>> /\ reading
        /\ Drops(f) \/ Refuses(f) \/ Opens(f) \/ Takes(f) \/ Closes(f)
    BY <1>7, <2>1, ReadUpCases, NeverBroken
  <2>3. PICK g \in Answer : g = Msg("Kill", f.session, 0)
    BY <2>2, MsgTyped
  <2>4. down' = down \/ (Refuses(f) /\ down' = Append(down, g))
    BY <2>2, <2>3 DEF Drops, Refuses, Opens, Takes, Closes
  <2>5. g.type = "Kill" /\ g.session = f.session
    BY <2>3 DEF Msg
  <2>6. ASSUME Refuses(f)
        PROVE  AnswerTrue(g)'
    <3>1. PICK s : s = f.session
      OBVIOUS
    <3>2. Never(s)' /\ conn'[s] # "none"
      BY <1>7, <2>1, <2>6, <3>1, RefusalTrue
    <3> QED
      BY <2>5, <3>1, <3>2 DEF AnswerTrue
  <2>7. AnswersTrue'
    BY <1>1, <2>2, <2>4, <2>6, AnswersStand
  <2> QED
    BY <1>2, <2>2, <2>7 DEF EndInv
<1> QED
  BY <1>3, <1>4, <1>5, <1>6, <1>7 DEF Next, Connection

-----------------------------------------------------------------------------
\* The theorems.

LinkInv == LinkTypes /\ OrderInv /\ CreditInv /\ EndInv

LEMMA NothingWeighs ==
    LinesIn(<<>>) = 0 /\ CreditsIn(<<>>) = 0
<1>1. LinesIn(<<>>) = 0
  <2>1. PICK q \in Seq(Frame) : q = <<>> /\ Len(q) = 0
    BY EmptySeq
  <2>2. PICK u : u = [i \in DOMAIN q |-> LineWeight(q[i])]
    OBVIOUS
  <2>3. u \in Seq(Nat) /\ Len(u) = Len(q) /\ LinesIn(q) = TotalWeight(u)
    BY <2>2, LineWeights
  <2>4. u = <<>>
    BY <2>1, <2>3, EmptySeq
  <2>5. TotalWeight(u) = 0
    BY <2>3, <2>4, TotalType
  <2> QED
    BY <2>1, <2>3, <2>5
<1>2. CreditsIn(<<>>) = 0
  <2>1. PICK q \in Seq(Answer) : q = <<>> /\ Len(q) = 0
    BY EmptySeq
  <2>2. PICK u : u = [i \in DOMAIN q |-> CreditWeight(q[i])]
    OBVIOUS
  <2>3. u \in Seq(Nat) /\ Len(u) = Len(q) /\ CreditsIn(q) = TotalWeight(u)
    BY <2>2, CreditWeights
  <2>4. u = <<>>
    BY <2>1, <2>3, EmptySeq
  <2>5. TotalWeight(u) = 0
    BY <2>3, <2>4, TotalType
  <2> QED
    BY <2>1, <2>3, <2>5
<1> QED
  BY <1>1, <1>2

LEMMA InitialLink ==
    ASSUME Init
    PROVE  LinkInv
<1>1. <<>> \in Seq(Frame) /\ <<>> \in Seq(Answer) /\ <<>> \in Seq(Word) /\ Len(<<>>) = 0
      /\ DOMAIN <<>> = {}
  OBVIOUS
<1>2. LinkTypes
  <2>1. /\ conn \in [Sessions -> Talking \cup {"none", "draining", "failed", "done"}]
        /\ said \in [Sessions -> Nat] /\ credit \in Nat /\ inFlight \in Int
        /\ pump \in [Sessions -> {"none", "running", "removing", "done"}]
    BY CoreLinkAssumption DEF Init
  <2>2. shard \in [Sessions -> Seq(Word)]
    BY <1>1 DEF Init
  <2>3. up \in Seq(Frame) /\ inputs \in Seq(Frame) /\ down \in Seq(Answer) /\ DOMAIN inputs = {}
    BY <1>1 DEF Init
  <2> QED
    BY <2>1, <2>2, <2>3 DEF LinkTypes, Init
<1>3. ASSUME NEW s \in Sessions
      PROVE  /\ shard[s] = <<>> /\ s \notin held /\ said[s] = 0 /\ conn[s] = "none"
             /\ pump[s] = "none"
             /\ Nums(up, s) = {} /\ Nums(inputs, s) = {} /\ ~Ends(up, s) /\ ~Ends(inputs, s)
             /\ InOrder(up, s) /\ InOrder(inputs, s)
             /\ ~Heard(s, "Closed") /\ ~OpenTold(s)
  <2>1. /\ shard[s] = <<>> /\ s \notin held /\ said[s] = 0 /\ conn[s] = "none"
        /\ pump[s] = "none" /\ up = <<>> /\ inputs = <<>>
    BY DEF Init
  <2> QED
    BY <1>1, <2>1, NothingQueued DEF Heard, OpenTold
<1>4. ASSUME NEW s \in Sessions
      PROVE  SessionOrder(s) /\ Remembered(s)
  <2>1. CoreOrder(s)
    BY <1>1, <1>3 DEF CoreOrder, HeardInOrder
  <2>2. WireOrder(s)
    BY <1>3 DEF WireOrder
  <2>3. ConnOrder(s)
    BY <1>3 DEF ConnOrder, Talking
  <2>4. Remembered(s)
    BY <1>3 DEF Remembered, Talking
  <2> QED
    BY <2>1, <2>2, <2>3, <2>4 DEF SessionOrder
<1>5. EndInv
  BY <1>1, <1>4 DEF EndInv, AnswersTrue, Init
<1>6. CreditInv
  <2>1. Spent = {}
    BY DEF Init, Spent
  <2>2. Cardinality(Spent) = 0
    BY <2>1, FS_EmptySet
  <2>3. LinesIn(up) = 0 /\ CreditsIn(down) = 0
    BY <1>1, NothingWeighs DEF Init
  <2> QED
    BY <2>2, <2>3, CoreLinkAssumption DEF Init, CreditInv
<1> QED
  BY <1>2, <1>4, <1>5, <1>6 DEF LinkInv, OrderInv

LEMMA LinkStep ==
    ASSUME LinkInv, [Next]_vars
    PROVE  LinkInv'
<1>1. LinkTypes /\ OrderInv /\ CreditInv /\ EndInv
  BY DEF LinkInv
<1>2. LinkTypes'
  BY <1>1, TypesStep
<1>3. OrderInv'
  BY <1>1, <1>2, OrderStep DEF OrderInv
<1>4. CreditInv'
  BY <1>1, <1>2, CreditStep
<1>5. EndInv'
  BY <1>1, <1>2, EndStep
<1> QED
  BY <1>2, <1>3, <1>4, <1>5 DEF LinkInv

\* What both ends of a session stream hold agrees at every moment: the frames of a
\* session are numbered without a gap from the client to the shard
\* (RemoteCorePort::push, SessionStream::input, push_lines), the credits add up,
\* and the core forgets a session only when its shard is told or has ended it.
THEOREM StreamInvariant == Spec => []LinkInv
<1>1. Init => LinkInv
  BY InitialLink
<1>2. LinkInv /\ [Next]_vars => LinkInv'
  BY LinkStep
<1> QED
  BY <1>1, <1>2, PTL DEF Spec

\* For any sessions, window and queue: an edge that sends on credit is never
\* called broken (SessionStream::input), and while the stream lives every line
\* credit of the window is somewhere.
THEOREM CreditsAddUp == Spec => []CreditAccount
<1>1. LinkInv => CreditAccount
  BY DEF LinkInv, CreditInv, CreditAccount, Spent
<1> QED
  BY <1>1, StreamInvariant, PTL

\* For any sessions, window and queue, whenever the link, a writer or a reader
\* goes: push_lines hands the shard a session's Open, then its lines in the
\* client's order with none missing, then only Closed.
THEOREM ShardHearsEach == Spec => []ShardHearsInOrder
<1>1. LinkInv => ShardHearsInOrder
  <2> SUFFICES ASSUME LinkInv, NEW s \in Sessions
               PROVE  HeardInOrder(s)
    BY DEF ShardHearsInOrder, HeardInOrder
  <2> QED
    BY DEF LinkInv, OrderInv, SessionOrder, CoreOrder
<1> QED
  BY <1>1, StreamInvariant, PTL

\* For any sessions, window and queue: once nothing of a session is on its way,
\* a stream that is over (SessionStream::run) or a connection that is over
\* (serve_conn) leaves no session on a shard that has not been told.
THEOREM NoneLeftBehind == Spec => []NoZombie
<1>1. LinkInv => NoZombie
  <2> SUFFICES ASSUME LinkInv, NEW s \in Sessions, Quiet(s), Heard(s, "Open"),
                      ~reading \/ (linked /\ conn[s] = "done")
               PROVE  Heard(s, "Closed") \/ s \in ended
    BY DEF NoZombie
  <2>1. Remembered(s) /\ (~reading => s \notin held) /\ SessionOrder(s)
    BY DEF LinkInv, EndInv, OrderInv
  <2>2. ~Ends(inputs, s) /\ ~Ends(up, s)
    BY DEF Quiet, Ends, Over
  <2>3. OpenTold(s)
    <3>1. shard[s] # <<>>
      BY DEF Heard
    <3> QED
      BY <3>1 DEF OpenTold
  <2>4. CASE ~reading
    BY <2>1, <2>2, <2>3, <2>4 DEF Remembered, ClosedTold
  <2>5. CASE reading /\ linked /\ conn[s] = "done"
    BY <2>1, <2>2, <2>3, <2>5 DEF Remembered, ClosedTold, Never
  <2> QED
    BY <2>4, <2>5
<1> QED
  BY <1>1, StreamInvariant, PTL

=============================================================================
