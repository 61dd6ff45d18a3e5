--------------------------- MODULE SessionProofs ---------------------------
(***************************************************************************)
(* The session link, for every send-queue bound and all line weights: the   *)
(* edge's buffer takes every line the account admits, the link implements   *)
(* the abstract account, and no wait of the core end misses its wake.       *)
(*                                                                         *)
(* A session and the channels of other shards, for any shards, sessions and *)
(* channels: the channel limit, the answers a session is held for, and the  *)
(* user events every shard reports.                                         *)
(***************************************************************************)
EXTENDS SessionLink, Membership, TotalsProofs, SequenceTheorems, FiniteSetTheorems

\* Nothing more is owed to the session: its counts say nothing any more.
Over == core \in {"killed", "ended"}

\* What was sent and not taken is in the buffer, what was taken and not told is
\* in the edge's hands, and the line that saw room still has it.
Accounted ==
    /\ count = told /\ told <= taken
    /\ ~Over => TotalWeight(buf) = sent - taken
    /\ core = "push" /\ want # 0 => Fits(InFlight, want)
    /\ core # "overrun"

\* A core end past its arming is still armed, or the bit was taken by an
\* advance that has yet to notify, or the wake is there.
ArmedOrWoken ==
    /\ core \in {"recheck gone", "recheck", "sleep"} => armed \/ permit \/ stage = "notify"
    /\ stage = "clear" => armed

\* What the core end saw absent before it went on has not come since without a
\* wake on its way.
SeenAbsent ==
    /\ core \in {"recheck", "sleep"} /\ gone => WakeIsComing \/ edge = "dying"
    /\ core = "sleep" /\ Ready => WakeIsComing \/ edge = "dying"

LinkInv == TypeOK /\ Accounted /\ ArmedOrWoken /\ SeenAbsent

-----------------------------------------------------------------------------

\* A buffer's total is a natural number, and grows and shrinks by one line.
LEMMA BufferTotals ==
    ASSUME NEW s \in Seq(Weights)
    PROVE  /\ TotalWeight(s) \in Nat
           /\ s = <<>> => TotalWeight(s) = 0
           /\ \A w \in Weights : TotalWeight(Append(s, w)) = TotalWeight(s) + w
           /\ s # <<>> => TotalWeight(Tail(s)) = TotalWeight(s) - Head(s)
<1>1. Weights \subseteq Nat
  BY LinkAssumption
<1>2. s \in Seq(Nat)
  BY <1>1, SeqMonotonic
<1> QED
  BY <1>1, <1>2, TotalType, TotalAppend, TotalTail

LEMMA LinkInit == Init => LinkInv
<1> SUFFICES ASSUME Init
             PROVE  LinkInv
  OBVIOUS
<1>1. <<>> \in Seq(Weights) /\ TotalWeight(<<>>) = 0
  BY EmptySeq, BufferTotals
<1>2. TypeOK
  BY <1>1 DEF Init, ProgressInit, TypeOK, ProgressTypeOK, CoreStates
<1>3. Accounted
  BY <1>1 DEF Init, ProgressInit, Accounted, Over
<1>4. ArmedOrWoken /\ SeenAbsent
  BY DEF Init, ProgressInit, ArmedOrWoken, SeenAbsent
<1> QED
  BY <1>2, <1>3, <1>4 DEF LinkInv

\* A line the account admits is one the buffer admits.
LEMMA AdmittedFits ==
    ASSUME TypeOK, Accounted, ~Over, NEW weight \in Weights, Fits(InFlight, weight)
    PROVE  Fits(TotalWeight(buf), weight)
<1>1. weight \in Nat /\ Capacity \in Nat
  BY LinkAssumption
<1>2. /\ TotalWeight(buf) \in Nat /\ TotalWeight(buf) = sent - taken
      /\ count <= taken /\ count \in Nat /\ taken \in Nat /\ sent \in Nat
  BY BufferTotals DEF TypeOK, ProgressTypeOK, Accounted
<1> QED
  BY <1>1, <1>2 DEF Fits, InFlight

\* The effect of the push of output(), behind the account's admission.
LEMMA Pushed ==
    ASSUME TypeOK, Accounted, ~Over, NEW weight \in Weights, Fits(InFlight, weight),
           NEW next, NEW ifGone, PushLine(weight, next, ifGone)
    PROVE  \/ buf' = Append(buf, weight) /\ sent' = sent + weight /\ core' = next
           \/ UNCHANGED <<buf, sent>> /\ core' = ifGone
  BY AdmittedFits DEF PushLine

LEMMA TypeStep == TypeOK /\ Accounted /\ [Next]_vars => TypeOK'
<1> SUFFICES ASSUME TypeOK, Accounted, [Next]_vars
             PROVE  TypeOK'
  OBVIOUS
<1>1. ASSUME NEW weight \in Weights, Output(weight)
      PROVE  TypeOK'
  <2>1. CASE Fits(InFlight, weight)
    <3>1. PushLine(weight, "idle", "idle") /\ ~Over
      BY <1>1, <2>1 DEF Output, Over
    <3>2. weight \in Nat /\ Append(buf, weight) \in Seq(Weights)
      BY LinkAssumption, AppendProperties DEF TypeOK
    <3>3. /\ core' = "idle"
          /\ \/ buf' = Append(buf, weight) /\ sent' = sent + weight
             \/ UNCHANGED <<buf, sent>>
      BY <2>1, <3>1, Pushed
    <3> QED
      BY <1>1, <3>2, <3>3 DEF TypeOK, ProgressTypeOK, CoreStates, Output, progressVars
  <2>2. CASE ~Fits(InFlight, weight)
    BY <1>1, <2>2 DEF TypeOK, ProgressTypeOK, CoreStates, Output, progressVars
  <2> QED
    BY <2>1, <2>2
<1>2. ASSUME NEW weight \in Weights, Kill(weight)
      PROVE  TypeOK'
  BY <1>2 DEF TypeOK, ProgressTypeOK, CoreStates, Kill, progressVars
<1>3. ASSUME NEW weight \in Weights \cup {0}, StartWait(weight)
      PROVE  TypeOK'
  BY <1>3 DEF TypeOK, ProgressTypeOK, CoreStates, StartWait, progressVars
<1>4. CASE ReadGone
  BY <1>4 DEF TypeOK, ProgressTypeOK, CoreStates, ReadGone, progressVars
<1>5. CASE ReadReady
  BY <1>5 DEF TypeOK, ProgressTypeOK, CoreStates, ReadReady, progressVars
<1>6. CASE ArmDrained
  BY <1>6 DEF TypeOK, ProgressTypeOK, CoreStates, ArmDrained, Arm
<1>7. CASE Woken
  BY <1>7 DEF TypeOK, ProgressTypeOK, CoreStates, Woken
<1>8. CASE Proceed
  <2>1. CASE want = 0
    BY <1>8, <2>1 DEF TypeOK, ProgressTypeOK, CoreStates, Proceed, progressVars
  <2>2. CASE want # 0
    <3>1. want \in Weights /\ want \in Nat /\ Fits(InFlight, want) /\ ~Over
      BY <1>8, <2>2, LinkAssumption DEF TypeOK, Proceed, Accounted, Over
    <3>2. Append(buf, want) \in Seq(Weights)
      BY <3>1, AppendProperties DEF TypeOK
    <3>3. PushLine(want, "idle", "failed")
      BY <1>8, <2>2 DEF Proceed
    <3>4. \/ buf' = Append(buf, want) /\ sent' = sent + want /\ core' = "idle"
          \/ UNCHANGED <<buf, sent>> /\ core' = "failed"
      BY <3>1, <3>3, Pushed
    <3>5. want' = 0 /\ UNCHANGED <<count, armed, stage, permit, taken, told, gone, edge>>
      BY <1>8 DEF Proceed, progressVars
    <3>6. sent' \in Nat /\ buf' \in Seq(Weights) /\ core' \in CoreStates
      <4>1. sent \in Nat /\ buf \in Seq(Weights) /\ sent + want \in Nat
        BY <3>1 DEF TypeOK
      <4> QED
        BY <3>2, <3>4, <4>1, Zenon DEF CoreStates
    <3> QED
      BY <3>5, <3>6 DEF TypeOK, ProgressTypeOK
  <2> QED
    BY <2>1, <2>2
<1>9. CASE End
  BY <1>9 DEF TypeOK, ProgressTypeOK, CoreStates, End, progressVars
<1>10. CASE Take
  <2>1. Head(buf) \in Weights /\ Tail(buf) \in Seq(Weights)
    BY <1>10, HeadTailProperties DEF TypeOK, Take
  <2>2. Head(buf) \in Nat
    BY <2>1, LinkAssumption
  <2>3. taken' = taken + Head(buf) /\ buf' = Tail(buf)
    BY <1>10 DEF Take
  <2>4. UNCHANGED <<count, armed, stage, permit, sent, told, gone, edge, core, want>>
    BY <1>10 DEF Take, progressVars
  <2>5. taken' \in Nat
    <3>1. taken \in Nat
      BY DEF TypeOK
    <3> QED
      BY <2>2, <2>3, <3>1
  <2> QED
    BY <2>1, <2>3, <2>4, <2>5 DEF TypeOK, ProgressTypeOK
<1>11. CASE Written
  <2>1. PICK bytes \in 1 .. (taken - told) : told' = told + bytes /\ AdvanceAdd(bytes)
    BY <1>11, Zenon DEF Written
  <2>2. told' \in Nat /\ count' \in Nat
    <3>1. /\ count' = count + bytes /\ told' = told + bytes
          /\ count \in Nat /\ told \in Nat /\ taken \in Nat
      BY <2>1, Zenon DEF TypeOK, ProgressTypeOK, AdvanceAdd
    <3> QED
      BY <3>1
  <2>3. stage' \in {"idle", "clear"} /\ UNCHANGED <<armed, permit>>
    BY <2>1 DEF AdvanceAdd
  <2> QED
    BY <1>11, <2>2, <2>3 DEF TypeOK, ProgressTypeOK, CoreStates, Written
<1>12. CASE FinishAdvance
  <2>1. UNCHANGED <<count, want, sent, buf, core, edge, taken, told, gone>>
    BY <1>12 DEF FinishAdvance, AdvanceClear, AdvanceNotify, linkVars
  <2>2. ProgressTypeOK'
    BY <1>12 DEF TypeOK, ProgressTypeOK, FinishAdvance, AdvanceClear, AdvanceNotify
  <2> QED
    BY <2>1, <2>2 DEF TypeOK
<1>13. CASE DropEdge
  BY <1>13 DEF TypeOK, ProgressTypeOK, CoreStates, DropEdge, progressVars
<1>14. CASE DropAdvance
  <2>1. count' = count
    <3>1. count' = count + 0 /\ count \in Nat
      BY <1>14, Zenon DEF TypeOK, ProgressTypeOK, DropAdvance, AdvanceAdd
    <3> QED
      BY <3>1
  <2>2. stage' \in {"idle", "clear"}
    BY <1>14 DEF DropAdvance, AdvanceAdd
  <2>3. armed' = armed /\ permit' = permit
    BY <1>14, Zenon DEF TypeOK, ProgressTypeOK, DropAdvance, AdvanceAdd
  <2> QED
    BY <1>14, <2>1, <2>2, <2>3 DEF TypeOK, ProgressTypeOK, CoreStates, DropAdvance
<1>15. CASE DropFields
  BY <1>15 DEF TypeOK, ProgressTypeOK, CoreStates, DropFields, progressVars
<1>16. CASE UNCHANGED vars
  <2>1. ProgressTypeOK'
    BY <1>16 DEF TypeOK, ProgressTypeOK, vars, progressVars
  <2>2. UNCHANGED <<want, sent, buf, core, edge, taken, told, gone>>
    BY <1>16 DEF vars, linkVars
  <2> QED
    BY <2>1, <2>2 DEF TypeOK
<1> QED
  BY <1>1, <1>2, <1>3, <1>4, <1>5, <1>6, <1>7, <1>8, <1>9, <1>10, <1>11, <1>12,
     <1>13, <1>14, <1>15, <1>16 DEF Next, Wait

\* The numbers that TypeOK says the counts are.
LEMMA Numbers ==
    ASSUME TypeOK
    PROVE  /\ count \in Nat /\ sent \in Nat /\ taken \in Nat /\ told \in Nat
           /\ TotalWeight(buf) \in Nat /\ Capacity \in Nat
           /\ \A w \in Weights : w \in Nat
  BY LinkAssumption, BufferTotals DEF TypeOK, ProgressTypeOK

LEMMA AccountStep == TypeOK /\ Accounted /\ [Next]_vars => Accounted'
<1> SUFFICES ASSUME TypeOK, Accounted, [Next]_vars
             PROVE  Accounted'
  OBVIOUS

\* A step that moves no bytes and does not bring the core end to its push.
<1> DEFINE Unmoved ==
       /\ UNCHANGED <<count, told, taken, sent, buf>>
       /\ ~Over' => ~Over
       /\ core' = "push" => Ready
       /\ core' # "overrun" /\ want' = want
<1>0. ASSUME Unmoved
      PROVE  Accounted'
  <2>1. core' = "push" /\ want' # 0 => Fits(InFlight', want')
    <3>1. InFlight' = InFlight
      BY <1>0 DEF InFlight
    <3> QED
      BY <1>0, <3>1 DEF Ready
  <2> QED
    BY <1>0, <2>1 DEF Accounted

\* A step that leaves the core end idle, failed or waiting for the gone flag.
<1>1. ASSUME NEW weight \in Weights, ~Over, Fits(InFlight, weight),
             NEW ifGone \in {"idle", "failed"}, PushLine(weight, "idle", ifGone),
             UNCHANGED <<count, told, taken>>
      PROVE  Accounted'
  <2>1. \/ buf' = Append(buf, weight) /\ sent' = sent + weight
        \/ buf' = buf /\ sent' = sent
    BY <1>1, Pushed, Zenon
  <2>2. core' \in {"idle", "failed"}
    BY <1>1, Pushed, Zenon
  <2>3. TotalWeight(Append(buf, weight)) = TotalWeight(buf) + weight
    BY BufferTotals DEF TypeOK
  <2>4. TotalWeight(buf) = sent - taken /\ count = told /\ told <= taken
    BY <1>1 DEF Accounted
  <2>5. TotalWeight(buf') = sent' - taken'
    <3>1. CASE buf' = Append(buf, weight) /\ sent' = sent + weight
      BY <1>1, <2>3, <2>4, <3>1, Numbers
    <3>2. CASE buf' = buf /\ sent' = sent
      BY <1>1, <2>4, <3>2
    <3> QED
      BY <2>1, <3>1, <3>2
  <2> QED
    BY <1>1, <2>2, <2>4, <2>5 DEF Accounted, Over
<1>2. ASSUME NEW weight \in Weights, Output(weight)
      PROVE  Accounted'
  <2>1. ~Over /\ UNCHANGED <<count, told, taken>> /\ want' = want
    BY <1>2 DEF Output, Over, progressVars
  <2>2. CASE Fits(InFlight, weight)
    BY <1>1, <1>2, <2>1, <2>2, Zenon DEF Output
  <2>3. CASE ~Fits(InFlight, weight)
    <3>1. core' = "refused" /\ UNCHANGED <<buf, sent>>
      BY <1>2, <2>3 DEF Output
    <3> QED
      BY <1>0, <2>1, <3>1 DEF Over
  <2> QED
    BY <2>2, <2>3
<1>3. ASSUME NEW weight \in Weights, Kill(weight)
      PROVE  Accounted'
  BY <1>3 DEF Kill, Accounted, Over, progressVars
<1>4. ASSUME NEW weight \in Weights \cup {0}, StartWait(weight)
      PROVE  Accounted'
  BY <1>4 DEF StartWait, Accounted, Over, progressVars
<1>5. CASE ReadGone
  BY <1>0, <1>5 DEF ReadGone, Over, progressVars
<1>6. CASE ReadReady
  BY <1>0, <1>6 DEF ReadReady, Over, progressVars
<1>7. CASE ArmDrained
  BY <1>0, <1>7 DEF ArmDrained, Over
<1>8. CASE Woken
  BY <1>0, <1>8 DEF Woken, Over
<1>9. CASE Proceed
  <2>1. CASE want = 0
    BY <1>9, <2>1 DEF Proceed, Accounted, Over, progressVars
  <2>2. CASE want # 0
    <3>1. ~Over /\ UNCHANGED <<count, told, taken>> /\ Fits(InFlight, want)
      BY <1>9, <2>2 DEF Proceed, Over, Accounted, progressVars
    <3>2. want \in Weights
      BY <2>2 DEF TypeOK
    <3> QED
      BY <1>1, <1>9, <2>2, <3>1, <3>2, Zenon DEF Proceed
  <2> QED
    BY <2>1, <2>2
<1>10. CASE End
  BY <1>10 DEF End, Accounted, Over, progressVars
<1>11. CASE Take
  <2>1. /\ taken' = taken + Head(buf) /\ buf' = Tail(buf) /\ buf # <<>>
        /\ UNCHANGED <<count, told, sent, core, want>>
    BY <1>11 DEF Take, progressVars
  <2>2. TotalWeight(Tail(buf)) = TotalWeight(buf) - Head(buf) /\ Head(buf) \in Nat
    BY <2>1, BufferTotals, HeadTailProperties, LinkAssumption DEF TypeOK
  <2>3. count' = told' /\ told' <= taken'
    BY <2>1, <2>2, Numbers DEF Accounted
  <2>4. ~Over => TotalWeight(buf') = sent' - taken'
    <3>1. ~Over => TotalWeight(buf) = sent - taken
      BY DEF Accounted
    <3> QED
      BY <2>1, <2>2, <3>1, Numbers
  <2>5. InFlight' = InFlight /\ Over' = Over
    BY <2>1 DEF InFlight, Over
  <2> QED
    BY <2>1, <2>3, <2>4, <2>5 DEF Accounted
<1>12. CASE Written
  <2>1. PICK bytes \in 1 .. (taken - told) : told' = told + bytes /\ AdvanceAdd(bytes)
    BY <1>12, Zenon DEF Written
  <2>2. count' = count + bytes /\ told' = told + bytes
    BY <2>1, Zenon DEF AdvanceAdd
  <2>3. UNCHANGED <<buf, sent, taken, core, want>>
    BY <1>12 DEF Written
  <2>4. count = told /\ told <= taken
    BY DEF Accounted
  <2>5. count' = told' /\ told' <= taken'
    BY <2>2, <2>3, <2>4, Numbers
  <2>6. ASSUME core = "push", want # 0
        PROVE  Fits(InFlight', want)
    <3>1. Fits(InFlight, want) /\ TotalWeight(buf) = sent - taken
      BY <2>6 DEF Accounted, Over
    <3>2. want \in Nat
      BY LinkAssumption DEF TypeOK
    <3> QED
      BY <2>2, <2>3, <2>4, <2>5, <3>1, <3>2, Numbers DEF Fits, InFlight
  <2> QED
    BY <2>3, <2>5, <2>6 DEF Accounted, Over
<1>13. CASE FinishAdvance
  <2>1. count' = count
    BY <1>13 DEF FinishAdvance, AdvanceClear, AdvanceNotify
  <2> QED
    BY <1>13, <2>1 DEF FinishAdvance, linkVars, Over, Accounted, InFlight
<1>14. CASE DropEdge
  BY <1>14 DEF DropEdge, progressVars, Accounted, Over, InFlight
<1>15. CASE DropAdvance
  <2>1. count' = count
    <3>1. count' = count + 0
      BY <1>15, Zenon DEF DropAdvance, AdvanceAdd
    <3> QED
      BY <3>1, Numbers
  <2> QED
    BY <1>15, <2>1 DEF DropAdvance, Accounted, Over, InFlight
<1>16. CASE DropFields
  BY <1>16 DEF DropFields, progressVars, Accounted, Over, InFlight
<1>17. CASE UNCHANGED vars
  BY <1>17 DEF vars, progressVars, linkVars, Accounted, Over, InFlight
<1> QED
  BY <1>2, <1>3, <1>4, <1>5, <1>6, <1>7, <1>8, <1>9, <1>10, <1>11, <1>12,
     <1>13, <1>14, <1>15, <1>16, <1>17 DEF Next, Wait

LEMMA WakeStep == LinkInv /\ [Next]_vars => ArmedOrWoken' /\ SeenAbsent'
<1> SUFFICES ASSUME TypeOK, Accounted, ArmedOrWoken, SeenAbsent, [Next]_vars
             PROVE  ArmedOrWoken' /\ SeenAbsent'
  BY DEF LinkInv
<1> DEFINE Past == core' \in {"recheck gone", "recheck", "sleep"}
\* A step of the core end that is not past its arming afterwards.
<1>0. ASSUME ~Past, UNCHANGED <<armed, stage>>
      PROVE  ArmedOrWoken' /\ SeenAbsent'
  BY <1>0 DEF ArmedOrWoken, SeenAbsent
<1>1. ASSUME NEW weight \in Weights, Output(weight)
      PROVE  ~Past /\ UNCHANGED <<armed, stage>>
  <2>1. UNCHANGED <<armed, stage>>
    BY <1>1 DEF Output, progressVars
  <2>2. core' \in {"idle", "overrun", "refused"}
    BY <1>1, Zenon DEF Output, PushLine
  <2> QED
    BY <2>1, <2>2
<1>2. ASSUME NEW weight \in Weights, Kill(weight)
      PROVE  ~Past /\ UNCHANGED <<armed, stage>>
  BY <1>2 DEF Kill, progressVars
<1>3. ASSUME NEW weight \in Weights \cup {0}, StartWait(weight)
      PROVE  ~Past /\ UNCHANGED <<armed, stage>>
  BY <1>3 DEF StartWait, progressVars
<1>4. CASE ReadGone
  <2>1. UNCHANGED <<armed, permit, stage, edge, gone>>
    BY <1>4 DEF ReadGone, progressVars
  <2>2. core' # "sleep" /\ (Past => core = "recheck gone" /\ core' = "recheck" /\ ~gone)
    BY <1>4 DEF ReadGone
  <2> QED
    BY <2>1, <2>2 DEF ArmedOrWoken, SeenAbsent
<1>5. CASE ReadReady
  <2>1. UNCHANGED <<armed, permit, stage, edge, gone>> /\ UNCHANGED <<count, sent, want>>
    BY <1>5 DEF ReadReady, progressVars
  <2>2. Past => core = "recheck" /\ core' = "sleep" /\ ~Ready
    BY <1>5 DEF ReadReady
  <2>3. Ready' = Ready /\ WakeIsComing' = WakeIsComing
    BY <2>1 DEF Ready, InFlight, Fits, WakeIsComing
  <2> QED
    BY <2>1, <2>2, <2>3 DEF ArmedOrWoken, SeenAbsent
<1>6. CASE ArmDrained
  <2>1. armed' /\ core' = "recheck gone"
    BY <1>6 DEF ArmDrained, Arm
  <2> QED
    BY <2>1 DEF ArmedOrWoken, SeenAbsent
<1>7. CASE Woken
  BY <1>0, <1>7 DEF Woken
<1>8. CASE Proceed
  <2>1. UNCHANGED <<armed, stage>>
    BY <1>8 DEF Proceed, progressVars
  <2>2. core' \in {"idle", "overrun", "failed"}
    BY <1>8, Zenon DEF Proceed, PushLine
  <2> QED
    BY <1>0, <2>1, <2>2
<1>9. CASE End
  BY <1>0, <1>9 DEF End, progressVars

\* A step of the edge end that neither advances nor drops it.
<1>10. ASSUME UNCHANGED <<count, armed, permit, stage, sent, core, want>>,
              edge' = edge \/ (edge = "waking" /\ edge' = "closed"), gone' = gone
       PROVE  ArmedOrWoken' /\ SeenAbsent'
  <2>1. Ready' = Ready /\ WakeIsComing' = WakeIsComing
    BY <1>10 DEF Ready, InFlight, Fits, WakeIsComing
  <2> QED
    BY <1>10, <2>1 DEF ArmedOrWoken, SeenAbsent
<1>11. CASE Take
  BY <1>10, <1>11 DEF Take, progressVars

\* After any fetch_add the wake is on its way to a core end past its arming.
<1>12. ASSUME NEW amount, AdvanceAdd(amount), UNCHANGED core
       PROVE  ArmedOrWoken' /\ SeenAbsent'
  <2>1. /\ stage = "idle" /\ armed' = armed /\ permit' = permit
        /\ armed => stage' = "clear" 
        /\ ~armed => stage' = "idle"
    BY <1>12 DEF AdvanceAdd
  <2>2. Past => WakeIsComing'
    BY <1>12, <2>1 DEF ArmedOrWoken, WakeIsComing
  <2> QED
    BY <1>12, <2>1, <2>2 DEF ArmedOrWoken, SeenAbsent
<1>13. CASE Written
  <2>1. \E bytes \in 1 .. (taken - told) : AdvanceAdd(bytes)
    BY <1>13, Zenon DEF Written
  <2> QED
    BY <1>12, <1>13, <2>1, Zenon DEF Written
<1>14. CASE AdvanceClear /\ UNCHANGED linkVars
  <2>1. /\ stage = "clear" /\ armed /\ stage' = "notify"
        /\ UNCHANGED core
    BY <1>14 DEF AdvanceClear, ArmedOrWoken, linkVars
  <2> QED
    BY <2>1 DEF ArmedOrWoken, SeenAbsent, WakeIsComing
<1>15. CASE AdvanceNotify /\ UNCHANGED linkVars
  <2>1. permit' /\ stage' = "idle" /\ UNCHANGED core
    BY <1>15 DEF AdvanceNotify, linkVars
  <2> QED
    BY <2>1 DEF ArmedOrWoken, SeenAbsent, WakeIsComing
<1>16. CASE DropEdge
  <2>1. UNCHANGED <<armed, permit, stage, core>> /\ edge' = "dying"
    BY <1>16 DEF DropEdge, progressVars
  <2> QED
    BY <2>1 DEF ArmedOrWoken, SeenAbsent
<1>17. CASE DropAdvance
  BY <1>12, <1>17, Zenon DEF DropAdvance
<1>18. CASE DropFields
  BY <1>10, <1>18 DEF DropFields, progressVars
<1>19. CASE UNCHANGED vars
  BY <1>10, <1>19 DEF vars, progressVars, linkVars
<1> QED
  BY <1>0, <1>1, <1>2, <1>3, <1>4, <1>5, <1>6, <1>7, <1>8, <1>9, <1>11, <1>13, <1>14,
     <1>15, <1>16, <1>17, <1>18, <1>19 DEF Next, Wait, FinishAdvance

-----------------------------------------------------------------------------

\* The counts of the two ends, the buffer and the wake stay as LinkInv says,
\* however the two threads interleave.
THEOREM LinkInvariant == Spec => []LinkInv
<1>1. LinkInv /\ [Next]_vars => LinkInv'
  BY TypeStep, AccountStep, WakeStep DEF LinkInv
<1> QED
  BY <1>1, LinkInit, PTL DEF Spec

\* "it never refuses a line the core's account admitted": the edge's buffer has
\* room for every line admitted by the bound measured at the client socket
\* (SessionLink::output, whose EdgeOverrun is unreachable).
THEOREM EdgeNeverOverrun == Spec => [](TypeOK /\ NoEdgeOverrun)
<1>1. LinkInv => TypeOK /\ NoEdgeOverrun
  BY DEF LinkInv, Accounted, NoEdgeOverrun
<1> QED
  BY <1>1, LinkInvariant, PTL

\* No wake is lost between poll_until's checks and its sleep: a core end asleep
\* with room for its line, or with its edge gone, is about to be woken.
THEOREM NoLostWake == Spec => []NoSleepPastRoom
<1>1. LinkInv => NoSleepPastRoom
  BY DEF LinkInv, SeenAbsent, NoSleepPastRoom
<1> QED
  BY <1>1, LinkInvariant, PTL

\* The link, with its two threads, its buffer and its atomic word, implements
\* the account of OutputAccount: each of its steps sends a line within the
\* bound, reports bytes that were sent, closes the account, or changes nothing
\* the account shows.
THEOREM LinkImplementsAccount == Spec => ImplementsAccount
<1>1. Init => Account!Init
  BY DEF Init, ProgressInit, Account!Init
<1>2. LinkInv /\ [Next]_vars => [Account!Next]_(Account!accountVars)
  <2> SUFFICES ASSUME TypeOK, Accounted, [Next]_vars
               PROVE  Account!Next \/ UNCHANGED Account!accountVars
    BY DEF LinkInv
  \* No line, no report, no end.
  <2>0. ASSUME sent' = sent, count' = count, Over' <=> Over
        PROVE  UNCHANGED Account!accountVars
    BY <2>0 DEF Account!accountVars, Over
  \* The end of the session, or its kill.
  <2>1. ASSUME ~Over, Over', sent' = sent
        PROVE  Account!Close
    BY <2>1 DEF Account!Close, Over
  \* The push behind the account's admission.
  <2>2. ASSUME NEW weight \in Weights, ~Over, Fits(InFlight, weight), count' = count,
               NEW ifGone \in {"idle", "failed"}, PushLine(weight, "idle", ifGone)
        PROVE  Account!Next \/ UNCHANGED Account!accountVars
    <3>1. \/ sent' = sent + weight /\ core' = "idle"
          \/ sent' = sent /\ core' = ifGone
      BY <2>2, Pushed, Zenon
    <3>2. CASE sent' = sent + weight /\ core' = "idle"
      <4>1. Account!Send(weight)
        BY <2>2, <3>2 DEF Account!Send, Account!InFlight, Fits, InFlight, Over
      <4> QED
        BY <4>1 DEF Account!Next
    <3>3. CASE sent' = sent /\ core' = ifGone
      BY <2>0, <2>2, <3>3 DEF Over
    <3> QED
      BY <3>1, <3>2, <3>3
  <2>3. ASSUME NEW weight \in Weights, Output(weight)
        PROVE  Account!Next \/ UNCHANGED Account!accountVars
    <3>1. ~Over /\ count' = count
      BY <2>3 DEF Output, Over, progressVars
    <3>2. CASE Fits(InFlight, weight)
      BY <2>2, <2>3, <3>1, <3>2, Zenon DEF Output
    <3>3. CASE ~Fits(InFlight, weight)
      <4>1. core' = "refused" /\ sent' = sent
        BY <2>3, <3>3 DEF Output
      <4> QED
        BY <2>0, <3>1, <4>1 DEF Over
    <3> QED
      BY <3>2, <3>3
  <2>4. ASSUME NEW weight \in Weights, Kill(weight)
        PROVE  Account!Next
    BY <2>1, <2>4 DEF Kill, Over, Account!Next
  <2>5. ASSUME NEW weight \in Weights \cup {0}, StartWait(weight)
        PROVE  UNCHANGED Account!accountVars
    BY <2>0, <2>5 DEF StartWait, Over, progressVars
  <2>6. CASE ReadGone \/ ReadReady \/ ArmDrained \/ Woken
    <3>1. /\ core \in {"gone?", "recheck gone", "ready?", "recheck", "arm", "sleep"}
          /\ core' \notin {"killed", "ended"}
      BY <2>6 DEF ReadGone, ReadReady, ArmDrained, Woken
    <3>2. sent' = sent /\ count' = count
      BY <2>6 DEF ReadGone, ReadReady, ArmDrained, Woken, progressVars
    <3> QED
      BY <2>0, <3>1, <3>2 DEF Over
  <2>7. CASE Proceed
    <3>1. CASE want = 0
      BY <2>0, <2>7, <3>1 DEF Proceed, Over, progressVars
    <3>2. CASE want # 0
      <4>1. ~Over /\ count' = count /\ Fits(InFlight, want)
        BY <2>7, <3>2 DEF Proceed, Over, Accounted, progressVars
      <4>2. want \in Weights
        BY <3>2 DEF TypeOK
      <4> QED
        BY <2>2, <2>7, <3>2, <4>1, <4>2, Zenon DEF Proceed
    <3> QED
      BY <3>1, <3>2
  <2>8. CASE End
    <3>1. core' = "ended" /\ sent' = sent /\ count' = count
      BY <2>8 DEF End, progressVars
    <3>2. CASE Over
      BY <2>0, <3>1, <3>2 DEF Over
    <3>3. CASE ~Over
      BY <2>1, <3>1, <3>3 DEF Over, Account!Next
    <3> QED
      BY <3>2, <3>3
  <2>9. CASE Take \/ FinishAdvance \/ DropEdge \/ DropFields
    <3>1. sent' = sent /\ count' = count /\ core' = core
      BY <2>9 DEF Take, FinishAdvance, AdvanceClear, AdvanceNotify, DropEdge, DropFields,
                  linkVars, progressVars
    <3> QED
      BY <2>0, <3>1 DEF Over
  <2>10. CASE Written
    <3>1. PICK bytes \in 1 .. (taken - told) : told' = told + bytes /\ AdvanceAdd(bytes)
      BY <2>10, Zenon DEF Written
    <3>2. count' = count + bytes
      BY <3>1, Zenon DEF AdvanceAdd
    <3>3. sent' = sent /\ core' = core
      BY <2>10 DEF Written
    <3>4. CASE Over
      BY <3>3, <3>4 DEF Account!accountVars, Over
    <3>5. CASE ~Over
      <4>1. count = told /\ TotalWeight(buf) = sent - taken
        BY <3>5 DEF Accounted
      <4>2. bytes \in 0 .. (sent - count)
        BY <4>1, Numbers
      <4>3. Account!InFlight = sent - count
        BY <3>5 DEF Account!InFlight, Over
      <4>4. Account!Write(bytes)
        BY <3>2, <3>3, <3>5 DEF Account!Write, Over
      <4> QED
        BY <4>2, <4>3, <4>4, Zenon DEF Account!Next
    <3> QED
      BY <3>4, <3>5
  <2>11. CASE DropAdvance
    <3>1. count' = count + 0
      BY <2>11, Zenon DEF DropAdvance, AdvanceAdd
    <3>2. count' = count
      BY <3>1, Numbers
    <3> QED
      BY <2>0, <2>11, <3>2 DEF DropAdvance, Over
  <2>12. CASE UNCHANGED vars
    BY <2>0, <2>12 DEF vars, progressVars, linkVars, Over
  <2> QED
    BY <2>3, <2>4, <2>5, <2>6, <2>7, <2>8, <2>9, <2>10, <2>11, <2>12 DEF Next, Wait
<1> QED
  BY <1>1, <1>2, LinkInvariant, PTL DEF Spec, ImplementsAccount, Account!Spec

\* What OutputAccount promises, of any link that implements it: the send-queue
\* bound is measured at the client socket, and no sequence of lines sent and
\* bytes written takes a session past it (SessionLink::output,
\* EdgeSession::written).
THEOREM AccountBounded == Account!Spec => [](Account!AccountTypeOK /\ Account!Bounded)
<1> DEFINE Inv == Account!AccountTypeOK /\ Account!Bounded
<1> USE LinkAssumption
<1>1. Account!Init => Inv
  BY DEF Account!Init, Account!AccountTypeOK, Account!Bounded, Account!InFlight
<1>2. Inv /\ [Account!Next]_(Account!accountVars) => Inv'
  <2> SUFFICES ASSUME Inv, Account!Next \/ UNCHANGED Account!accountVars
               PROVE  Inv'
    BY DEF Account!accountVars
  <2>1. ASSUME NEW weight \in Weights, Account!Send(weight)
        PROVE  Inv'
    <3>1. weight \in Nat
      BY LinkAssumption
    <3>2. /\ sent' = sent + weight /\ sent \in Nat
          /\ core \notin {"killed", "ended"} /\ core' \notin {"killed", "ended"}
          /\ count' = count /\ count \in Nat
      BY <2>1 DEF Account!Send, Account!AccountTypeOK
    <3>3. Account!InFlight = sent - count /\ Account!InFlight' = sent' - count'
      BY <3>2 DEF Account!InFlight
    <3>4. /\ 0 <= sent - count
          /\ sent - count = 0 \/ sent - count + weight <= Capacity
      BY <2>1, <3>3 DEF Account!Send, Account!Bounded
    <3>5. /\ 0 <= sent' - count'
          /\ sent' - count' <= Capacity \/ sent' - count' <= weight
      BY <3>1, <3>2, <3>4
    <3>6. sent' \in Nat /\ count' \in Nat
      BY <3>1, <3>2
    <3> QED
      BY <3>2, <3>3, <3>5, <3>6 DEF Account!AccountTypeOK, Account!Bounded
  <2>2. ASSUME NEW bytes \in 0 .. Account!InFlight, Account!Write(bytes)
        PROVE  Inv'
    BY <2>2 DEF Account!Write, Account!AccountTypeOK, Account!Bounded, Account!InFlight
  <2>3. CASE Account!Close
    BY <2>3 DEF Account!Close, Account!AccountTypeOK, Account!Bounded, Account!InFlight
  <2>4. CASE UNCHANGED Account!accountVars
    BY <2>4 DEF Account!accountVars, Account!AccountTypeOK, Account!Bounded, Account!InFlight
  <2> QED
    BY <2>1, <2>2, <2>3, <2>4 DEF Account!Next
<1> QED
  BY <1>1, <1>2, PTL DEF Account!Spec

\* The send-queue bound holds of the link itself, two threads and all: what is
\* owed to a session that is not over is within the bound, or is what is left of
\* one line sent when nothing was.
THEOREM LinkBounded == Spec => []Account!Bounded
BY AccountBounded, LinkImplementsAccount, PTL DEF ImplementsAccount

-----------------------------------------------------------------------------
(***************************************************************************)
(* Channel membership across shards.                                        *)
(***************************************************************************)

\* A record with the fields of Now.
WorldFields == {"session", "members", "memberships", "events", "sequence", "mail", "view", "tellings"}
IsRec(w) == w = [k \in WorldFields |-> w[k]]

\* Counts of JOINs in flight by channel: none is zero.
IsCounts(f) ==
    /\ f = [ch \in DOMAIN f |-> f[ch]]
    /\ DOMAIN f \subseteq Chans
    /\ \A ch \in DOMAIN f : f[ch] \in Nat \ {0}
CountOf(f, ch) == IF ch \in DOMAIN f THEN f[ch] ELSE 0

SessionFields == {"on", "nick", "channels", "pending", "partOnJoin", "deferred", "held"}
IsSession(r) ==
    /\ r = [k \in SessionFields |-> r[k]]
    /\ r.on \in BOOLEAN /\ r.channels \subseteq Chans /\ r.deferred \in Nat
    /\ IsCounts(r.pending)

\* What a message is about is a session, a channel and a user event there are.
JoinKinds == {"ChannelJoin", "ChannelJoinResult"}
HoldKinds == {"ChannelJoin", "ChannelJoinResult", "ChannelPart", "ChannelPartResult",
              "ChannelKick", "ChannelKickResult"}
ReportKinds == {"ChannelQuit", "ChannelMemberUpdate"}
EventKinds == {"ChannelQuit", "ChannelMemberUpdate", "UserEventPart"}
GoodMsg(sq, t, m) ==
    /\ m.kind \in HoldKinds => m.conn \in Conns /\ m.chan \in Chans
    /\ m.kind \in EventKinds =>
           /\ \E h \in Shards : \E n \in 1 .. sq[h] : m.event.id = <<h, n>>
           /\ m.event.parts \in Nat
    /\ m.kind = "UserEventPart" => \A c \in m.recipients : Home[c] = t

IsQueue(q) == \E S : q \in Seq(S)
IsMail(m) ==
    /\ m = [s \in Shards |-> m[s]]
    /\ \A s \in Shards : m[s] = [t \in Shards |-> m[s][t]]
    /\ \A s, t \in Shards : IsQueue(m[s][t])
\* The mail but for its first message from s to t, and with msgs[t] of s for t.
MailTail(m, s, t) == [m EXCEPT ![s][t] = Tail(m[s][t])]
MailMore(m, s, msgs) ==
    [m EXCEPT ![s] = [t \in Shards |-> IF t \in DOMAIN msgs THEN Append(m[s][t], msgs[t])
                                       ELSE m[s][t]]]
GoodMail(sq, m) ==
    \A s, t \in Shards : \A i \in DOMAIN m[s][t] : GoodMsg(sq, t, m[s][t][i])

IsWorld(w) ==
    /\ IsRec(w)
    /\ w.session = [c \in Conns |-> w.session[c]]
    /\ \A c \in Conns : IsSession(w.session[c])
    /\ w.sequence \in [Shards -> Nat]
    /\ w.events = [s \in Shards |-> w.events[s]]
    /\ IsMail(w.mail) /\ GoodMail(w.sequence, w.mail)

\* What a message owes: a session the answer it is held for, a session the answer
\* to a JOIN of a channel, a shard a part of a user event (a report still to be
\* made owes every shard one).
HoldKey(c) == [of |-> "hold", conn |-> c]
JoinKey(c, ch) == [of |-> "join", conn |-> c, chan |-> ch]
PartKey(id, s) == [of |-> "part", id |-> id, shard |-> s]
Owes(t, m, k) ==
    \/ k.of = "hold" /\ m.kind \in HoldKinds /\ m.conn = k.conn
    \/ k.of = "join" /\ m.kind \in JoinKinds /\ m.conn = k.conn /\ m.chan = k.chan
    \/ k.of = "part" /\ m.kind = "UserEventPart" /\ m.event.id = k.id /\ t = k.shard
    \/ k.of = "part" /\ m.kind \in ReportKinds /\ m.event.id = k.id

\* The places in the mail that owe k, and that there are n of them.
Spots(m, k) ==
    {p \in Shards \X Shards \X Nat :
        p[3] \in DOMAIN m[p[1]][p[2]] /\ Owes(p[2], m[p[1]][p[2]][p[3]], k)}
Owed(m, k, n) == IsFiniteSet(Spots(m, k)) /\ Cardinality(Spots(m, k)) = n

\* A session that is there waits for as many answers as are on their way; what is
\* held is held for one of them.
SessionOK(w, c) ==
    /\ w.session[c].on =>
           /\ Owed(w.mail, HoldKey(c), w.session[c].deferred)
           /\ \A ch \in Chans : Owed(w.mail, JoinKey(c, ch), CountOf(w.session[c].pending, ch))
    /\ ~w.session[c].on => w.session[c].deferred = 0 /\ w.session[c].pending = None
    /\ w.session[c].deferred = 0 => w.session[c].held = <<>>
LimitOK(w, c) ==
    /\ IsFiniteSet(Involved(w, c))
    /\ Cardinality(Involved(w, c)) <= MaxChannels
HoldInv(w) == IsWorld(w) /\ \A c \in Conns : SessionOK(w, c) /\ LimitOK(w, c)

\* Of an event with p reporters, shard s is owed n parts: it has heard the others
\* and remembers whom it told, unless it has heard all or none.
ShardOK(w, id, p, s, n) ==
    /\ p = 1 => id \notin DOMAIN w.events[s] /\ n <= 1
    /\ p # 1 /\ id \in DOMAIN w.events[s] =>
           /\ w.events[s][id].heard \in 1 .. (p - 1)
           /\ w.events[s][id].heard + n = p
    /\ p # 1 /\ id \notin DOMAIN w.events[s] => n \in {0, p}
    /\ \A c : <<id, c>> \in DOMAIN w.tellings /\ Home[c] = s =>
           \/ n = 0
           \/ p # 1 /\ id \in DOMAIN w.events[s] /\ c \in w.events[s][id].told
PartsAre(m, id, p) ==
    \A s, t \in Shards : \A i \in DOMAIN m[s][t] :
        m[s][t][i].kind \in EventKinds /\ m[s][t][i].event.id = id => m[s][t][i].event.parts = p
EventOK(w, id, p) ==
    /\ PartsAre(w.mail, id, p)
    /\ \A s \in Shards : \E n \in Nat : Owed(w.mail, PartKey(id, s), n) /\ ShardOK(w, id, p, s, n)
Issued(w, id) == \E h \in Shards : \E n \in 1 .. w.sequence[h] : id = <<h, n>>
Recorded(w) ==
    /\ \A s \in Shards : \A id \in DOMAIN w.events[s] : Issued(w, id)
    /\ \A s \in Shards : w.events[s] = [id \in DOMAIN w.events[s] |-> w.events[s][id]]
    /\ \A e \in DOMAIN w.tellings : w.tellings[e] = 1 /\ Issued(w, e[1]) /\ e = <<e[1], e[2]>>
EventInv(w) == Recorded(w) /\ \A id : Issued(w, id) => \E p \in Nat : EventOK(w, id, p)

MembershipInv == HoldInv(Now) /\ EventInv(Now)

-----------------------------------------------------------------------------
\* Records.

LEMMA NowFields ==
    /\ IsRec(Now) /\ Now.session = session /\ Now.members = members
    /\ Now.memberships = memberships /\ Now.events = events /\ Now.sequence = sequence
    /\ Now.mail = mail /\ Now.view = view /\ Now.tellings = tellings
BY DEF Now, IsRec, WorldFields

LEMMA BecomeNow ==
    ASSUME NEW w, IsRec(w), Become(w)
    PROVE  Now' = w
<1>1. \A k \in WorldFields : Now'[k] = w[k]
  BY DEF Become, Now, WorldFields
<1>2. Now' = [k \in WorldFields |-> Now'[k]]
  BY DEF Now, WorldFields
<1>3. w = [k \in WorldFields |-> w[k]]
  BY DEF IsRec
<1> HIDE DEF WorldFields
<1> QED
  BY <1>1, <1>2, <1>3

\* x is w but for its sessions, members, memberships and views.
SameCore(w, x) ==
    /\ IsRec(x) /\ x.events = w.events /\ x.sequence = w.sequence /\ x.mail = w.mail
    /\ x.tellings = w.tellings

LEMMA SendAllIs ==
    ASSUME NEW w, IsRec(w), NEW cs, NEW line
    PROVE  /\ SameCore(w, SendAll(w, cs, line))
           /\ SendAll(w, cs, line).session =
                [c \in Conns |-> IF c \in cs /\ w.session[c].on /\ Waits(w, c)
                                 THEN [w.session[c] EXCEPT !.held = Append(@, line)]
                                 ELSE w.session[c]]
<1> DEFINE to == {c \in cs : w.session[c].on}
           se == [c \in Conns |-> IF c \in to /\ Waits(w, c)
                                  THEN [w.session[c] EXCEPT !.held = Append(@, line)]
                                  ELSE w.session[c]]
           vw == [c \in Conns |-> IF c \in to /\ ~Waits(w, c)
                                  THEN observe(w.view[c], line) ELSE w.view[c]]
<1>1. SendAll(w, cs, line) = [w EXCEPT !.session = se, !.view = vw]
  BY DEF SendAll
<1>s. se = [c \in Conns |-> IF c \in cs /\ w.session[c].on /\ Waits(w, c)
                            THEN [w.session[c] EXCEPT !.held = Append(@, line)]
                            ELSE w.session[c]]
  OBVIOUS
<1> HIDE DEF se, vw
<1>3. SameCore(w, SendAll(w, cs, line)) /\ SendAll(w, cs, line).session = se
  BY <1>1 DEF SameCore, IsRec, WorldFields
<1> QED
  BY <1>3, <1>s

LEMMA RouteEachIs ==
    ASSUME NEW w, IsRec(w), NEW s, NEW msgs
    PROVE  LET x == RouteEach(w, s, msgs) IN
           /\ IsRec(x) /\ x.session = w.session /\ x.members = w.members
           /\ x.events = w.events /\ x.sequence = w.sequence /\ x.tellings = w.tellings
           /\ x.mail = MailMore(w.mail, s, msgs)
<1> DEFINE new == [t \in Shards |-> IF t \in DOMAIN msgs
                                    THEN Append(w.mail[s][t], msgs[t]) ELSE w.mail[s][t]]
<1>1. RouteEach(w, s, msgs) = [w EXCEPT !.mail[s] = new]
  BY DEF RouteEach
<1> HIDE DEF new
<1>3. LET x == RouteEach(w, s, msgs) IN
           /\ IsRec(x) /\ x.session = w.session /\ x.members = w.members
           /\ x.events = w.events /\ x.sequence = w.sequence /\ x.tellings = w.tellings
           /\ x.mail = [w.mail EXCEPT ![s] = new]
  BY <1>1 DEF IsRec, WorldFields
<1>4. MailMore(w.mail, s, msgs) = [w.mail EXCEPT ![s] = new]
  BY DEF new, MailMore
<1> QED
  BY <1>3, <1>4

LEMMA TakenIs ==
    ASSUME NEW s, NEW t
    PROVE  LET x == Taken(s, t) IN
           /\ IsRec(x) /\ x.session = session /\ x.members = members /\ x.events = events
           /\ x.sequence = sequence /\ x.tellings = tellings
           /\ x.mail = MailTail(mail, s, t)
<1>1. Taken(s, t) = [Now EXCEPT !.mail[s][t] = Tail(mail[s][t])]
  BY NowFields DEF Taken
<1> QED
  BY <1>1, NowFields DEF IsRec, WorldFields, MailTail

LEMMA SetMembers ==
    ASSUME NEW w, IsRec(w), NEW ch, NEW e
    PROVE  /\ SameCore(w, [w EXCEPT !.members[ch] = e])
           /\ [w EXCEPT !.members[ch] = e].session = w.session
           /\ SameCore(w, [w EXCEPT !.members = e])
           /\ [w EXCEPT !.members = e].session = w.session
           /\ SameCore(w, [w EXCEPT !.memberships[ch] = e])
           /\ [w EXCEPT !.memberships[ch] = e].session = w.session
BY DEF IsRec, WorldFields, SameCore

LEMMA SetCounted ==
    ASSUME NEW w, IsRec(w), NEW h, NEW e
    PROVE  LET x == [w EXCEPT !.sequence[h] = e] IN
           /\ IsRec(x) /\ x.events = w.events /\ x.mail = w.mail /\ x.tellings = w.tellings
           /\ x.session = w.session /\ x.members = w.members
           /\ x.sequence = [w.sequence EXCEPT ![h] = e]
BY DEF IsRec, WorldFields

-----------------------------------------------------------------------------
\* The mail.

LEMMA QueueFacts ==
    ASSUME NEW q, IsQueue(q)
    PROVE  /\ Len(q) \in Nat /\ DOMAIN q = 1 .. Len(q)
           /\ \A m : /\ IsQueue(Append(q, m)) /\ Len(Append(q, m)) = Len(q) + 1
                     /\ Append(q, m)[Len(q) + 1] = m
                     /\ \A i \in 1 .. Len(q) : Append(q, m)[i] = q[i]
           /\ q # <<>> => /\ IsQueue(Tail(q)) /\ Len(Tail(q)) = Len(q) - 1 /\ Len(q) >= 1
                          /\ Head(q) = q[1]
                          /\ \A i \in 1 .. (Len(q) - 1) : Tail(q)[i] = q[i + 1]
<1>1. PICK S : q \in Seq(S)
  BY DEF IsQueue
<1>2. Len(q) \in Nat /\ DOMAIN q = 1 .. Len(q)
  BY <1>1
<1>3. ASSUME NEW m
      PROVE  /\ IsQueue(Append(q, m)) /\ Len(Append(q, m)) = Len(q) + 1
             /\ Append(q, m)[Len(q) + 1] = m
             /\ \A i \in 1 .. Len(q) : Append(q, m)[i] = q[i]
  <2>1. q \in Seq(S \cup {m})
    BY <1>1
  <2>2. Append(q, m) \in Seq(S \cup {m})
    BY <2>1
  <2>3. Len(Append(q, m)) = Len(q) + 1 /\ Append(q, m)[Len(q) + 1] = m
        /\ \A i \in 1 .. Len(q) : Append(q, m)[i] = q[i]
    BY <2>1
  <2> QED
    BY <2>2, <2>3 DEF IsQueue
<1>4. ASSUME q # <<>>
      PROVE  /\ IsQueue(Tail(q)) /\ Len(Tail(q)) = Len(q) - 1 /\ Len(q) >= 1
             /\ Head(q) = q[1]
             /\ \A i \in 1 .. (Len(q) - 1) : Tail(q)[i] = q[i + 1]
  <2>1. Tail(q) \in Seq(S)
    BY <1>1, <1>4
  <2>2. Len(Tail(q)) = Len(q) - 1 /\ Len(q) >= 1 /\ Head(q) = q[1]
             /\ \A i \in 1 .. (Len(q) - 1) : Tail(q)[i] = q[i + 1]
    BY <1>1, <1>4
  <2> QED
    BY <2>1, <2>2 DEF IsQueue
<1> QED
  BY <1>2, <1>3, <1>4

\* One message taken, and messages of shard s sent.
LEMMA MailTailIs ==
    ASSUME NEW m, IsMail(m), NEW s \in Shards, NEW t \in Shards, m[s][t] # <<>>
    PROVE  LET x == MailTail(m, s, t) IN
           /\ IsMail(x)
           /\ \A a, b \in Shards : ~(a = s /\ b = t) => x[a][b] = m[a][b]
           /\ Len(m[s][t]) \in Nat /\ Len(m[s][t]) >= 1 /\ DOMAIN m[s][t] = 1 .. Len(m[s][t])
           /\ Head(m[s][t]) = m[s][t][1]
           /\ DOMAIN x[s][t] = 1 .. (Len(m[s][t]) - 1)
           /\ \A i \in 1 .. (Len(m[s][t]) - 1) : x[s][t][i] = m[s][t][i + 1]
<1> DEFINE x == MailTail(m, s, t)
<1>q. IsQueue(m[s][t])
  BY DEF IsMail
<1>1. /\ Len(m[s][t]) \in Nat /\ DOMAIN m[s][t] = 1 .. Len(m[s][t])
      /\ IsQueue(Tail(m[s][t])) /\ Len(Tail(m[s][t])) = Len(m[s][t]) - 1 /\ Len(m[s][t]) >= 1
      /\ Head(m[s][t]) = m[s][t][1]
      /\ \A i \in 1 .. (Len(m[s][t]) - 1) : Tail(m[s][t])[i] = m[s][t][i + 1]
  BY <1>q, QueueFacts
<1>2. x[s][t] = Tail(m[s][t]) /\ \A a, b \in Shards : ~(a = s /\ b = t) => x[a][b] = m[a][b]
  BY DEF IsMail, MailTail
<1>3. x = [a \in Shards |-> x[a]] /\ \A a \in Shards : x[a] = [b \in Shards |-> x[a][b]]
  BY DEF IsMail, MailTail
<1>4. IsMail(x)
  <2>0. \A a, b \in Shards : IsQueue(m[a][b])
    BY DEF IsMail
  <2>1. \A a, b \in Shards : IsQueue(x[a][b])
    <3> HIDE DEF x
    <3> QED
      BY <1>1, <1>2, <2>0
  <2> QED
    BY <1>3, <2>1 DEF IsMail
<1>5. DOMAIN Tail(m[s][t]) = 1 .. (Len(m[s][t]) - 1)
  BY <1>1, QueueFacts
<1> HIDE DEF x
<1>6. DOMAIN x[s][t] = 1 .. (Len(m[s][t]) - 1)
      /\ \A i \in 1 .. (Len(m[s][t]) - 1) : x[s][t][i] = m[s][t][i + 1]
  BY <1>1, <1>2, <1>5
<1> QED
  BY <1>1, <1>2, <1>4, <1>6 DEF x

LEMMA MailMoreIs ==
    ASSUME NEW m, IsMail(m), NEW s \in Shards, NEW msgs
    PROVE  LET x == MailMore(m, s, msgs) IN
           /\ IsMail(x)
           /\ \A a, b \in Shards : ~(a = s /\ b \in DOMAIN msgs) => x[a][b] = m[a][b]
           /\ \A b \in Shards \cap DOMAIN msgs :
                 /\ Len(m[s][b]) \in Nat /\ DOMAIN m[s][b] = 1 .. Len(m[s][b])
                 /\ DOMAIN x[s][b] = 1 .. (Len(m[s][b]) + 1)
                 /\ x[s][b][Len(m[s][b]) + 1] = msgs[b]
                 /\ \A i \in 1 .. Len(m[s][b]) : x[s][b][i] = m[s][b][i]
<1> DEFINE x == MailMore(m, s, msgs)
<1>1. /\ \A a, b \in Shards : ~(a = s /\ b \in DOMAIN msgs) => x[a][b] = m[a][b]
      /\ \A b \in Shards \cap DOMAIN msgs : x[s][b] = Append(m[s][b], msgs[b])
  BY DEF IsMail, MailMore
<1>3. x = [a \in Shards |-> x[a]] /\ \A a \in Shards : x[a] = [b \in Shards |-> x[a][b]]
  BY DEF IsMail, MailMore
<1> HIDE DEF x
<1>2. \A b \in Shards : IsQueue(m[s][b])
  BY DEF IsMail
<1>4. ASSUME NEW b \in Shards \cap DOMAIN msgs
      PROVE  /\ Len(m[s][b]) \in Nat /\ DOMAIN m[s][b] = 1 .. Len(m[s][b])
             /\ IsQueue(x[s][b])
             /\ DOMAIN x[s][b] = 1 .. (Len(m[s][b]) + 1)
             /\ x[s][b][Len(m[s][b]) + 1] = msgs[b]
             /\ \A i \in 1 .. Len(m[s][b]) : x[s][b][i] = m[s][b][i]
  <2>1. IsQueue(m[s][b]) /\ x[s][b] = Append(m[s][b], msgs[b])
    BY <1>1, <1>2
  <2>2. /\ Len(m[s][b]) \in Nat /\ DOMAIN m[s][b] = 1 .. Len(m[s][b])
        /\ IsQueue(x[s][b]) /\ Len(x[s][b]) = Len(m[s][b]) + 1
        /\ x[s][b][Len(m[s][b]) + 1] = msgs[b]
        /\ \A i \in 1 .. Len(m[s][b]) : x[s][b][i] = m[s][b][i]
    BY <2>1, QueueFacts
  <2>3. DOMAIN x[s][b] = 1 .. Len(x[s][b])
    BY <2>2, QueueFacts
  <2> QED
    BY <2>2, <2>3
<1>5. IsMail(x)
  <2>1. ASSUME NEW a \in Shards, NEW b \in Shards PROVE IsQueue(x[a][b])
    <3>1. CASE a = s /\ b \in DOMAIN msgs
      BY <3>1, <1>4
    <3>2. CASE ~(a = s /\ b \in DOMAIN msgs)
      BY <3>2, <1>1 DEF IsMail
    <3> QED
      BY <3>1, <3>2
  <2> QED
    BY <1>3, <2>1 DEF IsMail
<1> QED
  BY <1>1, <1>4, <1>5 DEF x

LEMMA SpotIs ==
    ASSUME NEW m, NEW k
    PROVE  /\ \A s, t \in Shards, i \in Nat : <<s, t, i>> \in Spots(m, k) <=>
                  i \in DOMAIN m[s][t] /\ Owes(t, m[s][t][i], k)
           /\ \A p \in Spots(m, k) : \E s, t \in Shards, i \in Nat : p = <<s, t, i>>
BY DEF Spots

-----------------------------------------------------------------------------
\* Counting what is owed.

LEMMA SameSize ==
    ASSUME NEW S, NEW T, IsFiniteSet(S), NEW f \in [S -> T],
           \A x, y \in S : f[x] = f[y] => x = y, \A z \in T : \E x \in S : f[x] = z
    PROVE  IsFiniteSet(T) /\ Cardinality(T) = Cardinality(S)
<1>1. f \in Bijection(S, T)
  BY DEF Bijection, Injection, Surjection, IsInjective
<1>2. ExistsBijection(S, T)
  BY <1>1 DEF ExistsBijection
<1> QED
  BY <1>2, FS_Bijection

LEMMA SentNothing ==
    ASSUME NEW m, IsMail(m), NEW s \in Shards, NEW msgs, NEW k,
           \A b \in Shards \cap DOMAIN msgs : ~Owes(b, msgs[b], k)
    PROVE  Spots(MailMore(m, s, msgs), k) = Spots(m, k)
<1> PICK x : x = MailMore(m, s, msgs)
  OBVIOUS
<1>1. /\ \A a, b \in Shards : ~(a = s /\ b \in DOMAIN msgs) => x[a][b] = m[a][b]
      /\ \A b \in Shards \cap DOMAIN msgs :
                 /\ Len(m[s][b]) \in Nat /\ DOMAIN m[s][b] = 1 .. Len(m[s][b])
                 /\ DOMAIN x[s][b] = 1 .. (Len(m[s][b]) + 1)
                 /\ x[s][b][Len(m[s][b]) + 1] = msgs[b]
                 /\ \A i \in 1 .. Len(m[s][b]) : x[s][b][i] = m[s][b][i]
  BY MailMoreIs
<1>2. ASSUME NEW a \in Shards, NEW b \in Shards, NEW i \in Nat
      PROVE  <<a, b, i>> \in Spots(x, k) <=> <<a, b, i>> \in Spots(m, k)
  <2>1. (i \in DOMAIN x[a][b] /\ Owes(b, x[a][b][i], k))
           <=> (i \in DOMAIN m[a][b] /\ Owes(b, m[a][b][i], k))
    <3>1. CASE a = s /\ b \in DOMAIN msgs
      <4>1. b \in Shards \cap DOMAIN msgs
        BY <3>1
      <4>2. CASE i \in 1 .. Len(m[s][b])
        BY <1>1, <3>1, <4>1, <4>2
      <4>3. CASE i \notin 1 .. Len(m[s][b])
        BY <1>1, <3>1, <4>1, <4>3
      <4> QED
        BY <4>2, <4>3
    <3>2. CASE ~(a = s /\ b \in DOMAIN msgs)
      BY <1>1, <3>2
    <3> QED
      BY <3>1, <3>2
  <2> QED
    BY <2>1, SpotIs
<1>3. \A p : p \in Spots(x, k) <=> p \in Spots(m, k)
  BY <1>2, SpotIs
<1> QED
  BY <1>3

LEMMA SentMany ==
    ASSUME NEW m, IsMail(m), NEW s \in Shards, NEW msgs, NEW k, NEW n \in Nat, Owed(m, k, n),
           NEW T, T = {b \in Shards \cap DOMAIN msgs : Owes(b, msgs[b], k)}, IsFiniteSet(T)
    PROVE  Owed(MailMore(m, s, msgs), k, n + Cardinality(T))
<1> PICK x : x = MailMore(m, s, msgs)
  OBVIOUS
<1>1. /\ \A a, b \in Shards : ~(a = s /\ b \in DOMAIN msgs) => x[a][b] = m[a][b]
      /\ \A b \in Shards \cap DOMAIN msgs :
                 /\ Len(m[s][b]) \in Nat /\ DOMAIN m[s][b] = 1 .. Len(m[s][b])
                 /\ DOMAIN x[s][b] = 1 .. (Len(m[s][b]) + 1)
                 /\ x[s][b][Len(m[s][b]) + 1] = msgs[b]
                 /\ \A i \in 1 .. Len(m[s][b]) : x[s][b][i] = m[s][b][i]
  BY MailMoreIs
<1> DEFINE f == [b \in T |-> <<s, b, Len(m[s][b]) + 1>>]
           New == {f[b] : b \in T}
<1>t. T \subseteq Shards \cap DOMAIN msgs /\ \A b \in T : Owes(b, msgs[b], k)
  OBVIOUS
<1>2. ASSUME NEW a \in Shards, NEW b \in Shards, NEW i \in Nat
      PROVE  <<a, b, i>> \in Spots(x, k)
                <=> (<<a, b, i>> \in Spots(m, k) \/ (a = s /\ b \in T /\ i = Len(m[s][b]) + 1))
  <2>1. (i \in DOMAIN x[a][b] /\ Owes(b, x[a][b][i], k))
           <=> \/ (i \in DOMAIN m[a][b] /\ Owes(b, m[a][b][i], k))
               \/ (a = s /\ b \in T /\ i = Len(m[s][b]) + 1)
    <3>1. CASE a = s /\ b \in DOMAIN msgs
      <4>1. b \in Shards \cap DOMAIN msgs /\ (b \in T <=> Owes(b, msgs[b], k))
        BY <3>1
      <4>4. /\ Len(m[s][b]) \in Nat /\ DOMAIN m[s][b] = 1 .. Len(m[s][b])
            /\ DOMAIN x[s][b] = 1 .. (Len(m[s][b]) + 1)
            /\ x[s][b][Len(m[s][b]) + 1] = msgs[b]
            /\ \A j \in 1 .. Len(m[s][b]) : x[s][b][j] = m[s][b][j]
        BY <1>1, <4>1
      <4>2. CASE i \in 1 .. Len(m[s][b])
        <5>1. i # Len(m[s][b]) + 1 /\ i \in 1 .. (Len(m[s][b]) + 1)
          BY <4>2, <4>4
        <5> QED
          BY <3>1, <4>2, <4>4, <5>1
      <4>3. CASE i \notin 1 .. Len(m[s][b])
        <5>1. i \in 1 .. (Len(m[s][b]) + 1) <=> i = Len(m[s][b]) + 1
          BY <4>3, <4>4
        <5> QED
          BY <3>1, <4>1, <4>3, <4>4, <5>1
      <4> QED
        BY <4>2, <4>3
    <3>2. CASE ~(a = s /\ b \in DOMAIN msgs)
      BY <1>1, <1>t, <3>2
    <3> QED
      BY <3>1, <3>2
  <2> QED
    BY <2>1, SpotIs
<1>3. \A b \in T : Len(m[s][b]) \in Nat /\ b \in Shards
  BY <1>1, <1>t
<1>4. Spots(x, k) = Spots(m, k) \cup New
  <2>1. ASSUME NEW p \in Spots(x, k) PROVE p \in Spots(m, k) \cup New
    <3>1. PICK a \in Shards, b \in Shards, i \in Nat : p = <<a, b, i>>
      BY SpotIs
    <3> QED
      BY <1>2, <3>1
  <2>2. ASSUME NEW p \in Spots(m, k) PROVE p \in Spots(x, k)
    <3>1. PICK a \in Shards, b \in Shards, i \in Nat : p = <<a, b, i>>
      BY SpotIs
    <3> QED
      BY <1>2, <3>1
  <2>3. ASSUME NEW b \in T PROVE f[b] \in Spots(x, k)
    <3>1. f[b] = <<s, b, Len(m[s][b]) + 1>> /\ Len(m[s][b]) + 1 \in Nat /\ b \in Shards
      BY <1>3
    <3> QED
      BY <1>2, <3>1
  <2> QED
    BY <2>1, <2>2, <2>3
<1>5. Spots(m, k) \cap New = {}
  <2> SUFFICES ASSUME NEW b \in T, f[b] \in Spots(m, k)
               PROVE  FALSE
    OBVIOUS
  <2>1. f[b] = <<s, b, Len(m[s][b]) + 1>> /\ Len(m[s][b]) + 1 \in Nat /\ b \in Shards
    BY <1>3
  <2>2. Len(m[s][b]) + 1 \in DOMAIN m[s][b]
    BY <2>1, SpotIs
  <2>3. DOMAIN m[s][b] = 1 .. Len(m[s][b]) /\ Len(m[s][b]) \in Nat
    BY <1>1, <1>t
  <2> QED
    BY <2>2, <2>3
<1>6. IsFiniteSet(New) /\ Cardinality(New) = Cardinality(T)
  <2>1. f \in [T -> New]
    OBVIOUS
  <2>2. \A b, c \in T : f[b] = f[c] => b = c
    OBVIOUS
  <2>3. \A z \in New : \E b \in T : f[b] = z
    OBVIOUS
  <2> HIDE DEF f, New
  <2> QED
    BY <2>1, <2>2, <2>3, SameSize
<1> HIDE DEF New
<1>7. IsFiniteSet(Spots(m, k) \cup New)
      /\ Cardinality(Spots(m, k) \cup New) = n + Cardinality(T) - Cardinality({})
  BY <1>5, <1>6, FS_Union DEF Owed
<1>8. Cardinality({}) = 0 /\ Cardinality(T) \in Nat
  BY FS_EmptySet, FS_CardinalityType
<1>9. n + Cardinality(T) - Cardinality({}) = n + Cardinality(T)
  BY <1>8
<1> QED
  BY <1>4, <1>7, <1>9 DEF Owed

LEMMA SentOne ==
    ASSUME NEW m, IsMail(m), NEW s \in Shards, NEW msgs, NEW k, NEW n \in Nat, Owed(m, k, n),
           NEW t \in Shards \cap DOMAIN msgs, Owes(t, msgs[t], k),
           \A b \in Shards \cap DOMAIN msgs : Owes(b, msgs[b], k) => b = t
    PROVE  Owed(MailMore(m, s, msgs), k, n + 1)
<1> DEFINE T == {b \in Shards \cap DOMAIN msgs : Owes(b, msgs[b], k)}
<1>1. T = {t}
  OBVIOUS
<1>2. IsFiniteSet(T) /\ Cardinality(T) = 1
  BY <1>1, FS_Singleton
<1>3. Owed(MailMore(m, s, msgs), k, n + Cardinality(T))
  <2>1. T = {b \in Shards \cap DOMAIN msgs : Owes(b, msgs[b], k)}
    OBVIOUS
  <2> HIDE DEF T
  <2> QED
    BY <1>2, <2>1, SentMany
<1> QED
  BY <1>2, <1>3

LEMMA Took ==
    ASSUME NEW m, IsMail(m), NEW s \in Shards, NEW t \in Shards, m[s][t] # <<>>,
           NEW k, NEW n \in Nat, Owed(m, k, n)
    PROVE  /\ Owes(t, Head(m[s][t]), k) => n >= 1 /\ Owed(MailTail(m, s, t), k, n - 1)
           /\ ~Owes(t, Head(m[s][t]), k) => Owed(MailTail(m, s, t), k, n)
<1> PICK x : x = MailTail(m, s, t)
  OBVIOUS
<1> PICK l : l = Len(m[s][t])
  OBVIOUS
<1>1. /\ \A a, b \in Shards : ~(a = s /\ b = t) => x[a][b] = m[a][b]
      /\ l \in Nat /\ l >= 1 /\ DOMAIN m[s][t] = 1 .. l
      /\ Head(m[s][t]) = m[s][t][1]
      /\ DOMAIN x[s][t] = 1 .. (l - 1)
      /\ \A i \in 1 .. (l - 1) : x[s][t][i] = m[s][t][i + 1]
  BY MailTailIs
<1> DEFINE A == Spots(m, k) \ {<<s, t, 1>>}
           B == Spots(x, k)
           down(p) == IF p[1] = s /\ p[2] = t THEN <<s, t, p[3] - 1>> ELSE p
           f == [p \in A |-> down(p)]
<1>2. ASSUME NEW p \in A
      PROVE  \/ \E i \in Nat : i >= 2 /\ p = <<s, t, i>> /\ f[p] = <<s, t, i - 1>> /\ f[p] \in B
             \/ f[p] = p /\ p \in B /\ ~(p[1] = s /\ p[2] = t)
  <2>1. PICK a \in Shards, b \in Shards, i \in Nat : p = <<a, b, i>>
    BY SpotIs
  <2>2. i \in DOMAIN m[a][b] /\ Owes(b, m[a][b][i], k)
    BY <2>1, SpotIs
  <2>3. CASE a = s /\ b = t
    <3>1. i \in 1 .. l /\ i # 1
      BY <1>1, <2>1, <2>2, <2>3
    <3>2. i - 1 \in 1 .. (l - 1) /\ i >= 2 /\ i - 1 \in Nat /\ (i - 1) + 1 = i
      BY <1>1, <3>1
    <3>3. x[s][t][i - 1] = m[s][t][i]
      BY <1>1, <3>2
    <3>4. <<s, t, i - 1>> \in B
      BY <1>1, <2>2, <2>3, <3>2, <3>3, SpotIs
    <3>5. f[p] = <<s, t, i - 1>>
      BY <2>1, <2>3
    <3>6. p = <<s, t, i>> /\ i >= 2 /\ f[p] \in B
      BY <2>1, <2>3, <3>2, <3>4, <3>5
    <3> HIDE DEF f, B, A
    <3>7. \E j \in Nat : j >= 2 /\ p = <<s, t, j>> /\ f[p] = <<s, t, j - 1>> /\ f[p] \in B
      <4> WITNESS i \in Nat
      <4> QED
        BY <3>5, <3>6
    <3> QED
      BY <3>7
  <2>4. CASE ~(a = s /\ b = t)
    <3>0. x[a][b] = m[a][b]
      BY <1>1, <2>4
    <3>1. p \in B
      BY <2>1, <2>2, <3>0, SpotIs
    <3>2. f[p] = p /\ ~(p[1] = s /\ p[2] = t)
      BY <2>1, <2>4
    <3> QED
      BY <3>1, <3>2
  <2> QED
    BY <2>3, <2>4
<1>3. f \in [A -> B]
  <2>1. \A p \in A : f[p] \in B
    BY <1>2
  <2> QED
    BY <2>1
<1>4. ASSUME NEW p \in A, NEW q \in A, f[p] = f[q] PROVE p = q
  <2>1. \/ \E i \in Nat : i >= 2 /\ p = <<s, t, i>> /\ f[p] = <<s, t, i - 1>>
        \/ f[p] = p /\ ~(p[1] = s /\ p[2] = t)
    BY <1>2
  <2>2. \/ \E i \in Nat : i >= 2 /\ q = <<s, t, i>> /\ f[q] = <<s, t, i - 1>>
        \/ f[q] = q /\ ~(q[1] = s /\ q[2] = t)
    BY <1>2
  <2> HIDE DEF f
  <2> QED
    BY <1>4, <2>1, <2>2
<1>5. ASSUME NEW z \in B PROVE \E p \in A : f[p] = z
  <2>1. PICK a \in Shards, b \in Shards, i \in Nat : z = <<a, b, i>>
    BY SpotIs
  <2>2. i \in DOMAIN x[a][b] /\ Owes(b, x[a][b][i], k)
    BY <2>1, SpotIs
  <2>3. CASE a = s /\ b = t
    <3>0. i \in 1 .. (l - 1) /\ l \in Nat
      BY <1>1, <2>2, <2>3
    <3>1. i \in 1 .. (l - 1) /\ i + 1 \in 1 .. l /\ i + 1 # 1 /\ i + 1 \in Nat /\ (i + 1) - 1 = i
      BY <3>0
    <3>2. <<s, t, i + 1>> \in Spots(m, k)
      BY <1>1, <2>2, <2>3, <3>1, SpotIs
    <3>3. <<s, t, i + 1>> \in A
      BY <3>1, <3>2
    <3>4. f[<<s, t, i + 1>>] = <<s, t, i>>
      BY <3>1, <3>3
    <3>5. z = <<s, t, i>>
      BY <2>1, <2>3
    <3> HIDE DEF f, A, B
    <3> QED
      BY <3>3, <3>4, <3>5, Zenon
  <2>4. CASE ~(a = s /\ b = t)
    <3>0. x[a][b] = m[a][b]
      BY <1>1, <2>4
    <3>1. z \in Spots(m, k)
      BY <2>1, <2>2, <3>0, SpotIs
    <3>2. z \in A /\ f[z] = z
      BY <2>1, <2>4, <3>1
    <3> QED
      BY <3>2
  <2> QED
    BY <2>3, <2>4
<1>6. IsFiniteSet(A)
      /\ Cardinality(A) = IF <<s, t, 1>> \in Spots(m, k) THEN n - 1 ELSE n
  BY FS_RemoveElement DEF Owed
<1> HIDE DEF A, B, f
<1>7. IsFiniteSet(B) /\ Cardinality(B) = Cardinality(A)
  BY <1>3, <1>4, <1>5, <1>6, SameSize
<1>8. <<s, t, 1>> \in Spots(m, k) <=> Owes(t, Head(m[s][t]), k)
  BY <1>1, SpotIs
<1>9. Cardinality(A) \in Nat
  BY <1>6, FS_CardinalityType
<1>10. ASSUME Owes(t, Head(m[s][t]), k) PROVE n >= 1 /\ Owed(x, k, n - 1)
  <2>1. Cardinality(A) = n - 1
    BY <1>6, <1>8, <1>10
  <2> QED
    BY <1>7, <1>9, <2>1 DEF Owed, B
<1>11. ASSUME ~Owes(t, Head(m[s][t]), k) PROVE Owed(x, k, n)
  BY <1>6, <1>7, <1>8, <1>11 DEF Owed, B
<1> QED
  BY <1>10, <1>11

-----------------------------------------------------------------------------
\* Worlds.

LEMMA OwesIs ==
    ASSUME NEW t, NEW m
    PROVE  /\ \A c : Owes(t, m, HoldKey(c)) <=> m.kind \in HoldKinds /\ m.conn = c
           /\ \A c, ch : Owes(t, m, JoinKey(c, ch)) <=>
                 m.kind \in JoinKinds /\ m.conn = c /\ m.chan = ch
           /\ \A id, s : Owes(t, m, PartKey(id, s)) <=>
                 /\ m.event.id = id
                 /\ (m.kind = "UserEventPart" /\ t = s) \/ m.kind \in ReportKinds
BY DEF Owes, HoldKey, JoinKey, PartKey

\* Messages nobody waits for.
Bland(m) == m.kind \in {"Delivery", "ChannelMemberVanished", "SessionChannelRemoved"}

LEMMA BlandOwes ==
    ASSUME NEW m, Bland(m)
    PROVE  /\ \A t, k : ~Owes(t, m, k)
           /\ \A t, sq : GoodMsg(sq, t, m)
           /\ m.kind \notin EventKinds
BY DEF Bland, Owes, GoodMsg, HoldKinds, JoinKinds, ReportKinds, EventKinds

LEMMA RouteWorld ==
    ASSUME NEW w, IsWorld(w), NEW s \in Shards, NEW msgs,
           \A b \in Shards \cap DOMAIN msgs : GoodMsg(w.sequence, b, msgs[b])
    PROVE  LET x == RouteEach(w, s, msgs) IN
           /\ IsWorld(x) /\ x.session = w.session /\ x.members = w.members
           /\ x.events = w.events /\ x.sequence = w.sequence /\ x.tellings = w.tellings
           /\ x.mail = MailMore(w.mail, s, msgs)
<1>x. PICK x : x = RouteEach(w, s, msgs)
  OBVIOUS
<1>1. /\ IsRec(x) /\ x.session = w.session /\ x.members = w.members
      /\ x.events = w.events /\ x.sequence = w.sequence /\ x.tellings = w.tellings
      /\ x.mail = MailMore(w.mail, s, msgs)
  <2>1. IsRec(w)
    BY DEF IsWorld
  <2> QED
    BY <1>x, <2>1, RouteEachIs
<1>y. PICK y : y = MailMore(w.mail, s, msgs)
  OBVIOUS
<1>2. IsMail(w.mail) /\ GoodMail(w.sequence, w.mail)
  BY DEF IsWorld
<1>3. /\ IsMail(y)
      /\ \A a, b \in Shards : ~(a = s /\ b \in DOMAIN msgs) => y[a][b] = w.mail[a][b]
      /\ \A b \in Shards \cap DOMAIN msgs :
                 /\ Len(w.mail[s][b]) \in Nat /\ DOMAIN w.mail[s][b] = 1 .. Len(w.mail[s][b])
                 /\ DOMAIN y[s][b] = 1 .. (Len(w.mail[s][b]) + 1)
                 /\ y[s][b][Len(w.mail[s][b]) + 1] = msgs[b]
                 /\ \A i \in 1 .. Len(w.mail[s][b]) : y[s][b][i] = w.mail[s][b][i]
  <2>1. IsMail(w.mail)
    BY <1>2
  <2> QED
    BY <1>y, <2>1, MailMoreIs, SMTT(30)
<1>4. GoodMail(w.sequence, y)
  <2> SUFFICES ASSUME NEW a \in Shards, NEW b \in Shards, NEW i \in DOMAIN y[a][b]
               PROVE  GoodMsg(w.sequence, b, y[a][b][i])
    BY DEF GoodMail
  <2>1. CASE a = s /\ b \in DOMAIN msgs
    <3>1. b \in Shards \cap DOMAIN msgs
      BY <2>1
    <3>2. CASE i \in 1 .. Len(w.mail[s][b])
      <4>1. y[a][b][i] = w.mail[s][b][i] /\ i \in DOMAIN w.mail[s][b]
        BY <1>3, <2>1, <3>1, <3>2
      <4> QED
        BY <1>2, <2>1, <4>1 DEF GoodMail
    <3>3. CASE i \notin 1 .. Len(w.mail[s][b])
      <4>1. i = Len(w.mail[s][b]) + 1
        <5>1. PICK n : n = Len(w.mail[s][b])
          OBVIOUS
        <5>2. n \in Nat /\ DOMAIN y[s][b] = 1 .. (n + 1)
          BY <1>3, <3>1, <5>1
        <5>3. i \in 1 .. (n + 1) /\ i \notin 1 .. n
          BY <2>1, <3>3, <5>1, <5>2
        <5>4. i = n + 1
          BY <5>2, <5>3
        <5> QED
          BY <5>1, <5>4
      <4>2. y[s][b][Len(w.mail[s][b]) + 1] = msgs[b]
        BY <1>3, <3>1
      <4>3. y[a][b][i] = msgs[b]
        BY <2>1, <4>1, <4>2
      <4>4. GoodMsg(w.sequence, b, msgs[b])
        BY <3>1
      <4> QED
        BY <4>3, <4>4
    <3> QED
      BY <3>2, <3>3
  <2>2. CASE ~(a = s /\ b \in DOMAIN msgs)
    <3>1. y[a][b] = w.mail[a][b]
      BY <1>3, <2>2
    <3>2. i \in DOMAIN w.mail[a][b]
      BY <3>1
    <3>3. GoodMsg(w.sequence, b, w.mail[a][b][i])
      BY <1>2, <3>2 DEF GoodMail
    <3> QED
      BY <3>1, <3>3
  <2> QED
    BY <2>1, <2>2
<1>5. IsWorld(x)
  BY <1>y, <1>1, <1>3, <1>4 DEF IsWorld
<1> QED
  BY <1>x, <1>1, <1>5

LEMMA RouteParts ==
    ASSUME NEW m, IsMail(m), NEW s \in Shards, NEW msgs, NEW id, NEW p, PartsAre(m, id, p),
           \A b \in Shards \cap DOMAIN msgs :
               msgs[b].kind \in EventKinds /\ msgs[b].event.id = id => msgs[b].event.parts = p
    PROVE  PartsAre(MailMore(m, s, msgs), id, p)
<1> PICK y : y = MailMore(m, s, msgs)
  OBVIOUS
<1>3. /\ \A a, b \in Shards : ~(a = s /\ b \in DOMAIN msgs) => y[a][b] = m[a][b]
      /\ \A b \in Shards \cap DOMAIN msgs :
                 /\ Len(m[s][b]) \in Nat /\ DOMAIN m[s][b] = 1 .. Len(m[s][b])
                 /\ DOMAIN y[s][b] = 1 .. (Len(m[s][b]) + 1)
                 /\ y[s][b][Len(m[s][b]) + 1] = msgs[b]
                 /\ \A i \in 1 .. Len(m[s][b]) : y[s][b][i] = m[s][b][i]
  BY MailMoreIs
<1> SUFFICES ASSUME NEW a \in Shards, NEW b \in Shards, NEW i \in DOMAIN y[a][b]
             PROVE  y[a][b][i].kind \in EventKinds /\ y[a][b][i].event.id = id
                        => y[a][b][i].event.parts = p
  BY DEF PartsAre
<1>1. CASE a = s /\ b \in DOMAIN msgs
  <2>1. b \in Shards \cap DOMAIN msgs
    BY <1>1
  <2>2. CASE i \in 1 .. Len(m[s][b])
    <3>1. y[a][b][i] = m[s][b][i] /\ i \in DOMAIN m[s][b]
      BY <1>3, <1>1, <2>1, <2>2
    <3>2. m[s][b][i].kind \in EventKinds /\ m[s][b][i].event.id = id
             => m[s][b][i].event.parts = p
      BY <3>1 DEF PartsAre
    <3> QED
      BY <3>1, <3>2
  <2>3. CASE i \notin 1 .. Len(m[s][b])
    <3>0. i \in 1 .. (Len(m[s][b]) + 1) /\ Len(m[s][b]) \in Nat
      BY <1>3, <1>1, <2>1
    <3>1. i = Len(m[s][b]) + 1
      BY <2>3, <3>0
    <3>2. y[a][b][i] = msgs[b]
      BY <1>3, <1>1, <2>1, <3>1
    <3> QED
      BY <2>1, <3>2
  <2> QED
    BY <2>2, <2>3
<1>2. CASE ~(a = s /\ b \in DOMAIN msgs)
  <2>1. y[a][b] = m[a][b]
    BY <1>3, <1>2
  <2>2. i \in DOMAIN m[a][b]
    BY <2>1
  <2> QED
    BY <2>1, <2>2 DEF PartsAre
<1> QED
  BY <1>1, <1>2

\* The mail but for its first message from s to t.
LEMMA TailMail ==
    ASSUME NEW sq, NEW m, IsMail(m), GoodMail(sq, m),
           NEW s \in Shards, NEW t \in Shards, m[s][t] # <<>>
    PROVE  /\ IsMail(MailTail(m, s, t)) /\ GoodMail(sq, MailTail(m, s, t))
           /\ GoodMsg(sq, t, Head(m[s][t]))
           /\ \A id, p : PartsAre(m, id, p) =>
                  /\ PartsAre(MailTail(m, s, t), id, p)
                  /\ Head(m[s][t]).kind \in EventKinds /\ Head(m[s][t]).event.id = id
                        => Head(m[s][t]).event.parts = p
<1> PICK y : y = MailTail(m, s, t)
  OBVIOUS
<1>1. /\ IsMail(y)
      /\ \A a, b \in Shards : ~(a = s /\ b = t) => y[a][b] = m[a][b]
      /\ Len(m[s][t]) \in Nat /\ Len(m[s][t]) >= 1 /\ DOMAIN m[s][t] = 1 .. Len(m[s][t])
      /\ Head(m[s][t]) = m[s][t][1]
      /\ DOMAIN y[s][t] = 1 .. (Len(m[s][t]) - 1)
      /\ \A i \in 1 .. (Len(m[s][t]) - 1) : y[s][t][i] = m[s][t][i + 1]
  BY MailTailIs
<1>2. \A a, b \in Shards : \A i \in DOMAIN y[a][b] :
          \E j \in DOMAIN m[a][b] : y[a][b][i] = m[a][b][j]
  <2> SUFFICES ASSUME NEW a \in Shards, NEW b \in Shards, NEW i \in DOMAIN y[a][b]
               PROVE  \E j \in DOMAIN m[a][b] : y[a][b][i] = m[a][b][j]
    OBVIOUS
  <2>1. CASE a = s /\ b = t
    <3>1. i \in 1 .. (Len(m[s][t]) - 1) /\ i + 1 \in 1 .. Len(m[s][t])
      BY <1>1, <2>1
    <3> QED
      BY <1>1, <2>1, <3>1
  <2>2. CASE ~(a = s /\ b = t)
    BY <1>1, <2>2
  <2> QED
    BY <2>1, <2>2
<1>3. 1 \in DOMAIN m[s][t]
  BY <1>1
<1>4. GoodMail(sq, y) /\ GoodMsg(sq, t, Head(m[s][t]))
  BY <1>1, <1>2, <1>3 DEF GoodMail
<1>5. ASSUME NEW id, NEW p, PartsAre(m, id, p)
      PROVE  /\ PartsAre(y, id, p)
             /\ Head(m[s][t]).kind \in EventKinds /\ Head(m[s][t]).event.id = id
                        => Head(m[s][t]).event.parts = p
  BY <1>1, <1>2, <1>3, <1>5 DEF PartsAre
<1> QED
  BY <1>1, <1>4, <1>5

-----------------------------------------------------------------------------
\* Steps nobody's wait depends on.

\* Session c waits in x for what it waits for in w, and is in no other channel.
SameWait(w, x, c) ==
    /\ x.session[c].on = w.session[c].on
    /\ x.session[c].pending = w.session[c].pending
    /\ x.session[c].deferred = w.session[c].deferred
    /\ x.session[c].channels \subseteq w.session[c].channels
    /\ w.session[c].deferred = 0 => x.session[c].held = w.session[c].held

KeepsHold(w, x) ==
    /\ IsWorld(x)
    /\ \A k : k.of # "part" => \A n \in Nat : Owed(w.mail, k, n) => Owed(x.mail, k, n)
    /\ \A c \in Conns : SameWait(w, x, c)

KeepsEvents(w, x) ==
    /\ x.events = w.events /\ x.tellings = w.tellings /\ x.sequence = w.sequence
    /\ \A k : k.of = "part" => \A n \in Nat : Owed(w.mail, k, n) => Owed(x.mail, k, n)
    /\ \A id, p : PartsAre(w.mail, id, p) => PartsAre(x.mail, id, p)

Keeps(w, x) == KeepsHold(w, x) /\ KeepsEvents(w, x)

LEMMA KeepsItself ==
    ASSUME NEW w, IsWorld(w)
    PROVE  Keeps(w, w)
BY DEF Keeps, KeepsHold, KeepsEvents, SameWait

LEMMA KeepsHoldChain ==
    ASSUME NEW w, NEW x, NEW y, KeepsHold(w, x), KeepsHold(x, y)
    PROVE  KeepsHold(w, y)
BY DEF KeepsHold, SameWait

LEMMA KeepsEventsChain ==
    ASSUME NEW w, NEW x, NEW y, KeepsEvents(w, x), KeepsEvents(x, y)
    PROVE  KeepsEvents(w, y)
BY DEF KeepsEvents

LEMMA KeepsChain ==
    ASSUME NEW w, NEW x, NEW y, Keeps(w, x), Keeps(x, y)
    PROVE  Keeps(w, y)
BY KeepsHoldChain, KeepsEventsChain DEF Keeps

LEMMA Keys ==
    /\ \A c : HoldKey(c).of = "hold"
    /\ \A c, ch : JoinKey(c, ch).of = "join"
    /\ \A id, s : PartKey(id, s).of = "part"
BY DEF HoldKey, JoinKey, PartKey

LEMMA Counted0 ==
    ASSUME NEW f, IsCounts(f), NEW ch
    PROVE  CountOf(f, ch) \in Nat
BY DEF IsCounts, CountOf

LEMMA HoldKept ==
    ASSUME NEW w, NEW x, HoldInv(w), KeepsHold(w, x)
    PROVE  HoldInv(x)
<1>1. IsWorld(w) /\ IsWorld(x)
  BY DEF HoldInv, KeepsHold
<1>2. ASSUME NEW c \in Conns
      PROVE  SessionOK(x, c) /\ LimitOK(x, c)
  <2>1. SameWait(w, x, c) /\ SessionOK(w, c) /\ LimitOK(w, c) /\ IsSession(w.session[c])
    BY <1>1, <1>2 DEF HoldInv, KeepsHold, IsWorld
  <2>2. w.session[c].deferred \in Nat
        /\ \A ch \in Chans : CountOf(w.session[c].pending, ch) \in Nat
    BY <2>1, Counted0 DEF IsSession
  <2>3. \A n \in Nat : /\ Owed(w.mail, HoldKey(c), n) => Owed(x.mail, HoldKey(c), n)
                       /\ \A ch : Owed(w.mail, JoinKey(c, ch), n) => Owed(x.mail, JoinKey(c, ch), n)
    BY Keys DEF KeepsHold
  <2>4. SessionOK(x, c)
    BY <2>1, <2>2, <2>3 DEF SessionOK, SameWait
  <2>5. Involved(x, c) \subseteq Involved(w, c) /\ IsFiniteSet(Involved(w, c))
        /\ Cardinality(Involved(w, c)) <= MaxChannels
    BY <2>1 DEF SameWait, Involved, LimitOK
  <2>6. IsFiniteSet(Involved(x, c)) /\ Cardinality(Involved(x, c)) <= Cardinality(Involved(w, c))
    BY <2>5, FS_Subset
  <2>7. Cardinality(Involved(x, c)) \in Nat /\ Cardinality(Involved(w, c)) \in Nat
    BY <2>5, <2>6, FS_CardinalityType
  <2> QED
    BY <2>4, <2>5, <2>6, <2>7, MembershipAssumption DEF LimitOK
<1> QED
  BY <1>1, <1>2 DEF HoldInv

LEMMA EventsKept ==
    ASSUME NEW w, NEW x, EventInv(w), KeepsEvents(w, x)
    PROVE  EventInv(x)
<1>1. \A id : Issued(x, id) <=> Issued(w, id)
  BY DEF KeepsEvents, Issued
<1>2. ASSUME NEW id, NEW p \in Nat, EventOK(w, id, p)
      PROVE  EventOK(x, id, p)
  <2>1. \A s, n : ShardOK(w, id, p, s, n) => ShardOK(x, id, p, s, n)
    BY DEF KeepsEvents, ShardOK
  <2>2. \A s : \A n \in Nat : Owed(w.mail, PartKey(id, s), n) => Owed(x.mail, PartKey(id, s), n)
    BY Keys DEF KeepsEvents
  <2>3. PartsAre(w.mail, id, p) => PartsAre(x.mail, id, p)
    BY DEF KeepsEvents
  <2> QED
    BY <1>2, <2>1, <2>2, <2>3 DEF EventOK
<1>3. \A id : Issued(x, id) => \E p \in Nat : EventOK(x, id, p)
  BY <1>1, <1>2 DEF EventInv
<1> QED
  BY <1>1, <1>3 DEF EventInv, KeepsEvents, Recorded

\* x is w but for its sessions.
LEMMA SessionsChange ==
    ASSUME NEW w, IsWorld(w), NEW x, SameCore(w, x),
           x.session = [c \in Conns |-> x.session[c]],
           \A c \in Conns : IsSession(x.session[c])
    PROVE  /\ IsWorld(x) /\ KeepsEvents(w, x)
           /\ (\A c \in Conns : SameWait(w, x, c)) => Keeps(w, x)
<1>1. IsWorld(x)
  BY DEF IsWorld, SameCore
<1>2. KeepsEvents(w, x)
  BY DEF SameCore, KeepsEvents
<1> QED
  BY <1>1, <1>2 DEF Keeps, KeepsHold, SameCore

\* A session with one field set to e.
LEMMA HeldSet ==
    ASSUME NEW r, IsSession(r), NEW e, NEW x, x = [r EXCEPT !.held = e]
    PROVE  /\ IsSession(x) /\ x.held = e /\ x.on = r.on /\ x.channels = r.channels
           /\ x.pending = r.pending /\ x.deferred = r.deferred
BY DEF IsSession, SessionFields

LEMMA NickSet ==
    ASSUME NEW r, IsSession(r), NEW e, NEW x, x = [r EXCEPT !.nick = e]
    PROVE  /\ IsSession(x) /\ x.held = r.held /\ x.on = r.on /\ x.channels = r.channels
           /\ x.pending = r.pending /\ x.deferred = r.deferred
BY DEF IsSession, SessionFields

LEMMA PartOnJoinSet ==
    ASSUME NEW r, IsSession(r), NEW e, NEW x, x = [r EXCEPT !.partOnJoin = e]
    PROVE  /\ IsSession(x) /\ x.held = r.held /\ x.on = r.on /\ x.channels = r.channels
           /\ x.pending = r.pending /\ x.deferred = r.deferred
BY DEF IsSession, SessionFields

LEMMA ChannelsSet ==
    ASSUME NEW r, IsSession(r), NEW e \in SUBSET Chans, NEW x, x = [r EXCEPT !.channels = e]
    PROVE  /\ IsSession(x) /\ x.held = r.held /\ x.on = r.on /\ x.channels = e
           /\ x.pending = r.pending /\ x.deferred = r.deferred
BY DEF IsSession, SessionFields

LEMMA DeferredSet ==
    ASSUME NEW r, IsSession(r), NEW e \in Nat, NEW x, x = [r EXCEPT !.deferred = e]
    PROVE  /\ IsSession(x) /\ x.held = r.held /\ x.on = r.on /\ x.channels = r.channels
           /\ x.pending = r.pending /\ x.deferred = e
BY DEF IsSession, SessionFields

LEMMA PendingSet ==
    ASSUME NEW r, IsSession(r), NEW e, IsCounts(e), NEW x, x = [r EXCEPT !.pending = e]
    PROVE  /\ IsSession(x) /\ x.held = r.held /\ x.on = r.on /\ x.channels = r.channels
           /\ x.pending = e /\ x.deferred = r.deferred
BY DEF IsSession, SessionFields

LEMMA KeepsSendAll ==
    ASSUME NEW w, IsWorld(w), NEW cs, NEW line
    PROVE  Keeps(w, SendAll(w, cs, line))
<1>x. PICK x : x = SendAll(w, cs, line)
  OBVIOUS
<1>0. IsRec(w)
  BY DEF IsWorld
<1>1. /\ SameCore(w, x)
      /\ x.session = [c \in Conns |-> IF c \in cs /\ w.session[c].on /\ Waits(w, c)
                                 THEN [w.session[c] EXCEPT !.held = Append(@, line)]
                                 ELSE w.session[c]]
  BY <1>0, <1>x, SendAllIs
<1>2. ASSUME NEW c \in Conns
      PROVE  IsSession(x.session[c]) /\ SameWait(w, x, c)
  <2>1. IsSession(w.session[c])
    BY DEF IsWorld
  <2>2. CASE x.session[c] = w.session[c]
    BY <2>1, <2>2 DEF SameWait
  <2>3. CASE x.session[c] # w.session[c]
    <3>1. x.session[c] = [w.session[c] EXCEPT !.held = Append(w.session[c].held, line)]
          /\ w.session[c].deferred # 0
      <4>1. c \in cs /\ w.session[c].on /\ Waits(w, c)
        BY <1>1, <2>3
      <4>2. x.session[c] = [w.session[c] EXCEPT !.held = Append(w.session[c].held, line)]
        BY <1>1, <4>1
      <4>3. w.session[c].deferred # 0
        BY <2>1, <4>1 DEF Waits, IsSession
      <4> QED
        BY <4>2, <4>3
    <3>2. PICK h : h = Append(w.session[c].held, line)
      OBVIOUS
    <3>3. PICK r : r = x.session[c]
      OBVIOUS
    <3>4. /\ IsSession(r) /\ r.on = w.session[c].on /\ r.channels = w.session[c].channels
          /\ r.pending = w.session[c].pending /\ r.deferred = w.session[c].deferred
      <4>1. r = [w.session[c] EXCEPT !.held = h]
        BY <3>1, <3>2, <3>3
      <4> QED
        BY <2>1, <4>1, HeldSet
    <3> QED
      BY <3>1, <3>3, <3>4 DEF SameWait
  <2> QED
    BY <2>2, <2>3
<1>3. x.session = [c \in Conns |-> x.session[c]]
  BY <1>1
<1> QED
  BY <1>x, <1>1, <1>2, <1>3, SessionsChange

LEMMA KeepsRouteEach ==
    ASSUME NEW w, IsWorld(w), NEW s \in Shards, NEW msgs,
           \A b \in Shards \cap DOMAIN msgs : Bland(msgs[b])
    PROVE  Keeps(w, RouteEach(w, s, msgs))
<1>x. PICK x : x = RouteEach(w, s, msgs)
  OBVIOUS
<1>0. IsMail(w.mail)
  BY DEF IsWorld
<1>1. \A b \in Shards \cap DOMAIN msgs :
        /\ \A t, k : ~Owes(t, msgs[b], k)
        /\ GoodMsg(w.sequence, b, msgs[b])
        /\ msgs[b].kind \notin EventKinds
  BY BlandOwes
<1>2. /\ IsWorld(x) /\ x.session = w.session
      /\ x.events = w.events /\ x.sequence = w.sequence /\ x.tellings = w.tellings
      /\ x.mail = MailMore(w.mail, s, msgs)
  BY <1>x, <1>1, RouteWorld
<1>3. \A k : Spots(x.mail, k) = Spots(w.mail, k)
  BY <1>0, <1>1, <1>2, SentNothing
<1>4. \A id, p : PartsAre(w.mail, id, p) => PartsAre(x.mail, id, p)
  BY <1>0, <1>1, <1>2, RouteParts
<1>5. KeepsHold(w, x)
  BY <1>2, <1>3 DEF KeepsHold, SameWait, Owed
<1>6. KeepsEvents(w, x)
  BY <1>2, <1>3, <1>4 DEF KeepsEvents, Owed
<1> QED
  BY <1>x, <1>5, <1>6 DEF Keeps

LEMMA KeepsRoute ==
    ASSUME NEW w, IsWorld(w), NEW s \in Shards, NEW t, NEW m, Bland(m)
    PROVE  Keeps(w, Route(w, s, t, m))
<1>1. \A b \in Shards \cap DOMAIN [y \in {t} |-> m] : Bland([y \in {t} |-> m][b])
  OBVIOUS
<1> QED
  BY <1>1, KeepsRouteEach DEF Route

LEMMA KeepsDeliver ==
    ASSUME NEW w, IsWorld(w), NEW s \in Shards, NEW cs, NEW line
    PROVE  Keeps(w, Deliver(w, s, cs, line))
<1>x. PICK x : x = SendAll(w, There(cs, s), line)
  OBVIOUS
<1>1. Keeps(w, x) /\ IsWorld(x)
  BY <1>x, KeepsSendAll DEF Keeps, KeepsHold
<1> DEFINE msgs == [t \in {y \in Shards \ {s} : There(cs, y) # {}} |->
                       [kind |-> "Delivery", conns |-> There(cs, t), line |-> line]]
<1>2. \A b \in Shards \cap DOMAIN msgs : Bland(msgs[b])
  BY DEF Bland
<1> HIDE DEF msgs
<1>3. Keeps(x, RouteEach(x, s, msgs))
  BY <1>1, <1>2, KeepsRouteEach
<1>4. Deliver(w, s, cs, line) = RouteEach(x, s, msgs)
  BY <1>x DEF Deliver, msgs
<1> QED
  BY <1>1, <1>3, <1>4, KeepsChain

\* Changes of the members, and of the directory of them.
LEMMA KeepsMembers ==
    ASSUME NEW w, IsWorld(w), NEW ch, NEW e
    PROVE  /\ Keeps(w, [w EXCEPT !.members[ch] = e])
           /\ Keeps(w, [w EXCEPT !.members = e])
           /\ Keeps(w, [w EXCEPT !.memberships[ch] = e])
<1>1. IsRec(w) /\ w.session = [c \in Conns |-> w.session[c]]
      /\ \A c \in Conns : IsSession(w.session[c])
  BY DEF IsWorld
<1>2. ASSUME NEW x, SameCore(w, x), x.session = w.session
      PROVE  Keeps(w, x)
  <2>1. \A c \in Conns : SameWait(w, x, c)
    BY <1>2 DEF SameWait
  <2> QED
    BY <1>1, <1>2, <2>1, SessionsChange
<1> QED
  BY <1>1, <1>2, SetMembers

LEMMA KeepsRemoveMember ==
    ASSUME NEW w, IsWorld(w), NEW ch, NEW c
    PROVE  Keeps(w, RemoveMember(w, ch, c))
BY KeepsMembers DEF RemoveMember

LEMMA KeepsRecordPart ==
    ASSUME NEW w, IsWorld(w), NEW c, NEW ch, NEW result
    PROVE  Keeps(w, RecordPart(w, c, ch, result))
<1>1. CASE result # "parted"
  BY <1>1, KeepsItself DEF RecordPart
<1>2. CASE result = "parted"
  <2> DEFINE e == w.session[c].channels \ {ch}
             f == w.memberships[c] \ {ch}
  <2>x. PICK x : x = [w EXCEPT !.session[c].channels = e, !.memberships[c] = f]
    OBVIOUS
  <2>1. x = RecordPart(w, c, ch, result)
    BY <1>2, <2>x DEF RecordPart
  <2>0. IsRec(w) /\ w.session = [d \in Conns |-> w.session[d]]
    BY DEF IsWorld
  <2>2. SameCore(w, x) /\ x.session = [w.session EXCEPT ![c].channels = e]
    <3> HIDE DEF e, f
    <3> QED
      BY <2>0, <2>x DEF IsRec, WorldFields, SameCore
  <2>3. x.session = [d \in Conns |-> IF d = c THEN [w.session[d] EXCEPT !.channels = e]
                                     ELSE w.session[d]]
    BY <2>0, <2>2
  <2>4. ASSUME NEW d \in Conns
        PROVE  IsSession(x.session[d]) /\ SameWait(w, x, d)
    <3>1. IsSession(w.session[d])
      BY DEF IsWorld
    <3>2. CASE d # c
      BY <2>3, <3>1, <3>2 DEF SameWait
    <3>3. CASE d = c
      <4>1. x.session[d] = [w.session[d] EXCEPT !.channels = e] /\ e \subseteq w.session[d].channels
        BY <2>3, <3>3
      <4>2. e \in SUBSET Chans
        BY <3>1, <4>1 DEF IsSession
      <4> HIDE DEF e
      <4>3. PICK r : r = x.session[d]
        OBVIOUS
      <4>4. /\ IsSession(r) /\ r.on = w.session[d].on /\ r.channels = e
            /\ r.pending = w.session[d].pending /\ r.deferred = w.session[d].deferred
            /\ r.held = w.session[d].held
        BY <3>1, <4>1, <4>2, <4>3, ChannelsSet
      <4> QED
        BY <4>1, <4>3, <4>4 DEF SameWait
    <3> QED
      BY <3>2, <3>3
  <2>5. x.session = [d \in Conns |-> x.session[d]]
    BY <2>3
  <2> QED
    BY <2>1, <2>2, <2>4, <2>5, SessionsChange
<1> QED
  BY <1>1, <1>2

LEMMA OwnerType == \A ch \in Chans : Owner[ch] \in Shards
BY MembershipAssumption

LEMMA HomeType == \A c \in Conns : Home[c] \in Shards
BY MembershipAssumption

LEMMA KeepsWorld ==
    ASSUME NEW w, NEW x, Keeps(w, x)
    PROVE  IsWorld(x)
BY DEF Keeps, KeepsHold

LEMMA KeepsJoinOnOwner ==
    ASSUME NEW w, IsWorld(w), NEW c, NEW nick, NEW ch \in Chans, NEW admit \in BOOLEAN
    PROVE  Keeps(w, JoinOnOwner(w, c, nick, ch, admit).w)
<1> DEFINE line == JoinLine(nick, ch)
<1>x. PICK x : x = Deliver(w, Owner[ch], Members(w, ch), line)
  OBVIOUS
<1>1. Keeps(w, x) /\ IsWorld(x)
  BY <1>x, OwnerType, KeepsDeliver, KeepsWorld
<1> DEFINE member == [nick |-> nick, op |-> Members(w, ch) = {}]
           e == With(x.members[ch], c, member)
<1>y. PICK y : y = [x EXCEPT !.members[ch] = e]
  OBVIOUS
<1>2. Keeps(x, y)
  <2> HIDE DEF e
  <2> QED
    BY <1>1, <1>y, KeepsMembers
<1>3. Keeps(w, y)
  BY <1>1, <1>2, KeepsChain
<1>4. Keeps(w, w)
  BY KeepsItself
<1>5. JoinOnOwner(w, c, nick, ch, admit).w \in {w, y}
  <2>1. y = [x EXCEPT !.members[ch] = With(@, c, member)]
    BY <1>y
  <2>2. CASE c \in Members(w, ch) \/ ~admit
    BY <2>2 DEF JoinOnOwner
  <2>3. CASE c \notin Members(w, ch) /\ admit
    BY <1>x, <2>1, <2>3 DEF JoinOnOwner
  <2> QED
    BY <2>2, <2>3
<1> QED
  BY <1>3, <1>4, <1>5

LEMMA KeepsPartOnOwner ==
    ASSUME NEW w, IsWorld(w), NEW c, NEW nick, NEW ch \in Chans
    PROVE  Keeps(w, PartOnOwner(w, c, nick, ch).w)
<1> DEFINE line == LeftLine(nick, ch)
<1>x. PICK x : x = Deliver(w, Owner[ch], Members(w, ch) \ {c}, line)
  OBVIOUS
<1>1. Keeps(w, x) /\ IsWorld(x)
  BY <1>x, OwnerType, KeepsDeliver, KeepsWorld
<1>2. Keeps(x, RemoveMember(x, ch, c))
  BY <1>1, KeepsRemoveMember
<1>3. Keeps(w, RemoveMember(x, ch, c)) /\ Keeps(w, w)
  BY <1>1, <1>2, KeepsChain, KeepsItself
<1>4. PartOnOwner(w, c, nick, ch).w \in {w, RemoveMember(x, ch, c)}
  BY <1>x DEF PartOnOwner
<1> QED
  BY <1>3, <1>4

LEMMA KeepsKickOnOwner ==
    ASSUME NEW w, IsWorld(w), NEW c, NEW nick, NEW ch \in Chans
    PROVE  Keeps(w, KickOnOwner(w, c, nick, ch).w)
<1> DEFINE line == LeftLine(nick, ch)
           victims == {d \in Members(w, ch) : w.members[ch][d].nick = nick}
           op == c \in Members(w, ch) /\ w.members[ch][c].op
<1>d. PICK d : d = CHOOSE v \in victims : TRUE
  OBVIOUS
<1>x. PICK x : x = Deliver(w, Owner[ch], Members(w, ch) \ {c}, line)
  OBVIOUS
<1>1. Keeps(w, x) /\ IsWorld(x)
  BY <1>x, OwnerType, KeepsDeliver, KeepsWorld
<1>y. PICK y : y = RemoveMember(x, ch, d)
  OBVIOUS
<1>2. Keeps(x, y) /\ IsWorld(y)
  BY <1>1, <1>y, KeepsRemoveMember, KeepsWorld
<1> DEFINE msg == [kind |-> "SessionChannelRemoved", conn |-> d, chan |-> ch]
<1>3. Bland(msg)
  BY DEF Bland
<1>4. Keeps(y, RecordPart(y, d, ch, "parted"))
      /\ Keeps(y, Route(y, Owner[ch], Home[d], msg))
  <2> HIDE DEF msg
  <2> QED
    BY <1>2, <1>3, OwnerType, KeepsRecordPart, KeepsRoute
<1>5. Keeps(w, y)
  BY <1>1, <1>2, KeepsChain
<1>6. Keeps(w, RecordPart(y, d, ch, "parted"))
      /\ Keeps(w, Route(y, Owner[ch], Home[d], msg)) /\ Keeps(w, w)
  BY <1>4, <1>5, KeepsChain, KeepsItself
<1>7. KickOnOwner(w, c, nick, ch).w \in
        {w, RecordPart(y, d, ch, "parted"), Route(y, Owner[ch], Home[d], msg)}
  <2>1. CASE ~op \/ victims = {}
    BY <2>1 DEF KickOnOwner
  <2>2. CASE op /\ victims # {}
    <3>1. KickOnOwner(w, c, nick, ch).w =
            IF Home[d] = Owner[ch] THEN RecordPart(y, d, ch, "parted")
            ELSE Route(y, Owner[ch], Home[d], msg)
      BY <1>d, <1>x, <1>y, <2>2 DEF KickOnOwner
    <3> QED
      BY <3>1
  <2> QED
    BY <2>1, <2>2
<1> QED
  BY <1>6, <1>7

-----------------------------------------------------------------------------
\* One message sent, one taken.

LEMMA RouteOne ==
    ASSUME NEW w, IsWorld(w), NEW s \in Shards, NEW t \in Shards, NEW r,
           GoodMsg(w.sequence, t, r)
    PROVE  LET x == Route(w, s, t, r) IN
           /\ IsWorld(x) /\ x.session = w.session /\ x.members = w.members
           /\ x.events = w.events /\ x.sequence = w.sequence /\ x.tellings = w.tellings
           /\ \A k : \A n \in Nat : Owed(w.mail, k, n) =>
                  /\ Owes(t, r, k) => Owed(x.mail, k, n + 1)
                  /\ ~Owes(t, r, k) => Owed(x.mail, k, n)
           /\ r.kind \notin EventKinds =>
                  \A id, p : PartsAre(w.mail, id, p) => PartsAre(x.mail, id, p)
<1>x. PICK x : x = Route(w, s, t, r)
  OBVIOUS
<1> DEFINE msgs == [b \in {t} |-> r]
<1>1. DOMAIN msgs = {t} /\ msgs[t] = r /\ x = RouteEach(w, s, msgs)
  BY <1>x DEF Route
<1> HIDE DEF msgs
<1>2. IsMail(w.mail)
  BY DEF IsWorld
<1>3. \A b \in Shards \cap DOMAIN msgs : GoodMsg(w.sequence, b, msgs[b])
  BY <1>1
<1>4. /\ IsWorld(x) /\ x.session = w.session /\ x.members = w.members
      /\ x.events = w.events /\ x.sequence = w.sequence /\ x.tellings = w.tellings
      /\ x.mail = MailMore(w.mail, s, msgs)
  BY <1>1, <1>3, RouteWorld
<1>5. ASSUME NEW k, NEW n \in Nat, Owed(w.mail, k, n)
      PROVE  /\ Owes(t, r, k) => Owed(x.mail, k, n + 1)
             /\ ~Owes(t, r, k) => Owed(x.mail, k, n)
  <2>1. CASE Owes(t, r, k)
    <3>1. Owed(MailMore(w.mail, s, msgs), k, n + 1)
      BY <1>1, <1>2, <1>5, <2>1, SentOne
    <3> QED
      BY <1>4, <2>1, <3>1
  <2>2. CASE ~Owes(t, r, k)
    <3>1. Spots(MailMore(w.mail, s, msgs), k) = Spots(w.mail, k)
      BY <1>1, <1>2, <2>2, SentNothing
    <3> QED
      BY <1>4, <1>5, <2>2, <3>1 DEF Owed
  <2> QED
    BY <2>1, <2>2
<1>6. ASSUME r.kind \notin EventKinds, NEW id, NEW p, PartsAre(w.mail, id, p)
      PROVE  PartsAre(x.mail, id, p)
  BY <1>1, <1>2, <1>4, <1>6, RouteParts
<1> QED
  BY <1>x, <1>4, <1>5, <1>6

LEMMA TakenWorld ==
    ASSUME IsWorld(Now), NEW s \in Shards, NEW t \in Shards, mail[s][t] # <<>>,
           NEW x, x = Taken(s, t), NEW m, m = Msg(s, t)
    PROVE  /\ IsWorld(x) /\ x.session = session /\ x.members = members
           /\ x.events = events /\ x.sequence = sequence /\ x.tellings = tellings
           /\ GoodMsg(sequence, t, m)
           /\ \A k : \A n \in Nat : Owed(mail, k, n) =>
                  /\ Owes(t, m, k) => n >= 1 /\ Owed(x.mail, k, n - 1)
                  /\ ~Owes(t, m, k) => Owed(x.mail, k, n)
           /\ \A id, p : PartsAre(mail, id, p) =>
                  /\ PartsAre(x.mail, id, p)
                  /\ m.kind \in EventKinds /\ m.event.id = id => m.event.parts = p
<1>1. /\ IsRec(x) /\ x.session = session /\ x.members = members /\ x.events = events
      /\ x.sequence = sequence /\ x.tellings = tellings /\ x.mail = MailTail(mail, s, t)
  BY TakenIs
<1>2. /\ IsMail(mail) /\ GoodMail(sequence, mail)
      /\ session = [c \in Conns |-> session[c]] /\ \A c \in Conns : IsSession(session[c])
      /\ sequence \in [Shards -> Nat] /\ events = [a \in Shards |-> events[a]]
  BY NowFields DEF IsWorld
<1>3. m = Head(mail[s][t])
  BY DEF Msg
<1>4. /\ IsMail(x.mail) /\ GoodMail(sequence, x.mail) /\ GoodMsg(sequence, t, m)
      /\ \A id, p : PartsAre(mail, id, p) =>
                  /\ PartsAre(x.mail, id, p)
                  /\ m.kind \in EventKinds /\ m.event.id = id => m.event.parts = p
  BY <1>1, <1>2, <1>3, TailMail
<1>5. IsWorld(x)
  BY <1>1, <1>2, <1>4 DEF IsWorld
<1>6. ASSUME NEW k, NEW n \in Nat, Owed(mail, k, n)
      PROVE  /\ Owes(t, m, k) => n >= 1 /\ Owed(x.mail, k, n - 1)
             /\ ~Owes(t, m, k) => Owed(x.mail, k, n)
  BY <1>1, <1>2, <1>3, <1>6, Took
<1> QED
  BY <1>1, <1>4, <1>5, <1>6

\* A message nobody waits for is taken.
LEMMA KeepsTaken ==
    ASSUME IsWorld(Now), NEW s \in Shards, NEW t \in Shards, mail[s][t] # <<>>,
           Bland(Msg(s, t))
    PROVE  Keeps(Now, Taken(s, t))
<1>x. PICK x : x = Taken(s, t)
  OBVIOUS
<1>m. PICK m : m = Msg(s, t)
  OBVIOUS
<1>1. \A k : ~Owes(t, m, k)
  BY <1>m, BlandOwes
<1>2. /\ IsWorld(x) /\ x.session = session
      /\ x.events = events /\ x.sequence = sequence /\ x.tellings = tellings
      /\ \A k : \A n \in Nat : Owed(mail, k, n) => Owed(x.mail, k, n)
      /\ \A id, p : PartsAre(mail, id, p) => PartsAre(x.mail, id, p)
  BY <1>x, <1>m, <1>1, TakenWorld
<1>3. KeepsHold(Now, x)
  BY <1>2, NowFields DEF KeepsHold, SameWait
<1>4. KeepsEvents(Now, x)
  BY <1>2, NowFields DEF KeepsEvents
<1> QED
  BY <1>x, <1>3, <1>4 DEF Keeps

\* A question is taken and its answer sent back: the asker waits as before.
SameOwes(m, r) ==
    /\ m.kind \in HoldKinds /\ r.kind \in HoldKinds /\ m.conn = r.conn /\ m.chan = r.chan
    /\ m.kind \in JoinKinds <=> r.kind \in JoinKinds

LEMMA KindsApart ==
    ASSUME NEW m, m.kind \in HoldKinds
    PROVE  m.kind \notin EventKinds /\ m.kind \notin ReportKinds /\ m.kind # "UserEventPart"
BY DEF HoldKinds, EventKinds, ReportKinds

LEMMA KeepsAnswer ==
    ASSUME IsWorld(Now), NEW s \in Shards, NEW t \in Shards, mail[s][t] # <<>>,
           NEW y, Keeps(Taken(s, t), y), NEW r, SameOwes(Msg(s, t), r)
    PROVE  Keeps(Now, Route(y, t, s, r))
<1>x. PICK x : x = Route(y, t, s, r)
  OBVIOUS
<1>v. PICK v : v = Taken(s, t)
  OBVIOUS
<1>m. PICK m : m = Msg(s, t)
  OBVIOUS
<1>1. \A k : Owes(t, m, k) <=> Owes(s, r, k)
  BY <1>m, KindsApart DEF SameOwes, Owes
<1>2. /\ v.session = session /\ v.events = events /\ v.sequence = sequence /\ v.tellings = tellings
      /\ GoodMsg(sequence, t, m)
      /\ \A k : \A n \in Nat : Owed(mail, k, n) =>
                  /\ Owes(t, m, k) => n >= 1 /\ Owed(v.mail, k, n - 1)
                  /\ ~Owes(t, m, k) => Owed(v.mail, k, n)
      /\ \A id, p : PartsAre(mail, id, p) => PartsAre(v.mail, id, p)
  BY <1>v, <1>m, TakenWorld
<1>3. IsWorld(y) /\ KeepsHold(v, y) /\ KeepsEvents(v, y)
  BY <1>v, KeepsWorld DEF Keeps
<1>4. GoodMsg(y.sequence, s, r) /\ r.kind \notin EventKinds
  <2>1. m.kind \in HoldKinds /\ r.kind \in HoldKinds /\ m.conn = r.conn /\ m.chan = r.chan
    BY <1>m DEF SameOwes
  <2>2. r.conn \in Conns /\ r.chan \in Chans
    BY <1>2, <2>1 DEF GoodMsg
  <2>3. r.kind \notin EventKinds /\ r.kind # "UserEventPart"
    BY <2>1, KindsApart
  <2> QED
    BY <2>2, <2>3 DEF GoodMsg
<1>5. /\ IsWorld(x) /\ x.session = y.session
      /\ x.events = y.events /\ x.sequence = y.sequence /\ x.tellings = y.tellings
      /\ \A k : \A n \in Nat : Owed(y.mail, k, n) =>
                  /\ Owes(s, r, k) => Owed(x.mail, k, n + 1)
                  /\ ~Owes(s, r, k) => Owed(x.mail, k, n)
      /\ \A id, p : PartsAre(y.mail, id, p) => PartsAre(x.mail, id, p)
  <2>0. IsWorld(y) /\ GoodMsg(y.sequence, s, r)
    BY <1>3, <1>4
  <2>1. LET z == Route(y, t, s, r) IN
        /\ IsWorld(z) /\ z.session = y.session /\ z.members = y.members
        /\ z.events = y.events /\ z.sequence = y.sequence /\ z.tellings = y.tellings
        /\ \A k : \A n \in Nat : Owed(y.mail, k, n) =>
                  /\ Owes(s, r, k) => Owed(z.mail, k, n + 1)
                  /\ ~Owes(s, r, k) => Owed(z.mail, k, n)
        /\ r.kind \notin EventKinds =>
                  \A id, p : PartsAre(y.mail, id, p) => PartsAre(z.mail, id, p)
    BY <2>0, RouteOne
  <2> QED
    BY <1>x, <1>4, <2>1
<1>6. \A k : \A n \in Nat : Owed(v.mail, k, n) => Owed(y.mail, k, n)
  <2> SUFFICES ASSUME NEW k, NEW n \in Nat, Owed(v.mail, k, n)
               PROVE  Owed(y.mail, k, n)
    OBVIOUS
  <2>1. CASE k.of # "part"
    BY <1>3, <2>1 DEF KeepsHold
  <2>2. CASE k.of = "part"
    BY <1>3, <2>2 DEF KeepsEvents
  <2> QED
    BY <2>1, <2>2
<1>7. ASSUME NEW k, NEW n \in Nat, Owed(mail, k, n)
      PROVE  Owed(x.mail, k, n)
  <2>1. CASE Owes(t, m, k)
    <3>1. n - 1 \in Nat /\ Owed(y.mail, k, n - 1)
      BY <1>2, <1>6, <1>7, <2>1
    <3>2. Owed(x.mail, k, (n - 1) + 1)
      BY <1>1, <1>5, <2>1, <3>1
    <3>3. (n - 1) + 1 = n
      OBVIOUS
    <3> QED
      BY <3>2, <3>3
  <2>2. CASE ~Owes(t, m, k)
    BY <1>1, <1>2, <1>5, <1>6, <1>7, <2>2
  <2> QED
    BY <2>1, <2>2
<1>8. KeepsHold(Now, x)
  BY <1>2, <1>3, <1>5, <1>7, NowFields DEF KeepsHold, SameWait
<1>9. KeepsEvents(Now, x)
  BY <1>2, <1>3, <1>5, <1>7, NowFields DEF KeepsEvents
<1> QED
  BY <1>x, <1>8, <1>9 DEF Keeps

-----------------------------------------------------------------------------
\* A session asks another shard, and is answered.

LEMMA HoldOwes ==
    ASSUME NEW t, NEW m, m.kind \in HoldKinds
    PROVE  /\ \A d : Owes(t, m, HoldKey(d)) <=> d = m.conn
           /\ \A d, ch : Owes(t, m, JoinKey(d, ch)) <=>
                 d = m.conn /\ m.kind \in JoinKinds /\ m.chan = ch
           /\ \A k : k.of = "part" => ~Owes(t, m, k)
<1>1. \A k : k.of = "part" => ~Owes(t, m, k)
  BY KindsApart DEF Owes
<1>2. \A d : Owes(t, m, HoldKey(d)) <=> d = m.conn
  BY OwesIs
<1>3. \A d, ch : Owes(t, m, JoinKey(d, ch)) <=>
                 d = m.conn /\ m.kind \in JoinKinds /\ m.chan = ch
  BY OwesIs
<1> QED
  BY <1>1, <1>2, <1>3

LEMMA AskHold ==
    ASSUME NEW w, HoldInv(w), NEW c \in Conns, w.session[c].on,
           NEW y, IsWorld(y), SameCore(w, y),
           \A d \in Conns : d # c => y.session[d] = w.session[d],
           y.session[c].on, y.session[c].deferred = w.session[c].deferred + 1, LimitOK(y, c),
           NEW s \in Shards, NEW t \in Shards,
           NEW r, r.kind \in HoldKinds, r.conn = c, r.chan \in Chans,
           \A ch \in Chans :
               /\ r.kind \in JoinKinds /\ r.chan = ch =>
                    CountOf(y.session[c].pending, ch) = CountOf(w.session[c].pending, ch) + 1
               /\ ~(r.kind \in JoinKinds /\ r.chan = ch) =>
                    CountOf(y.session[c].pending, ch) = CountOf(w.session[c].pending, ch)
    PROVE  LET x == Route(y, s, t, r) IN
           HoldInv(x) /\ KeepsEvents(w, x) /\ x.session = y.session
<1>x. PICK x : x = Route(y, s, t, r)
  OBVIOUS
<1>0. r.kind \notin EventKinds /\ r.kind \notin ReportKinds /\ r.kind # "UserEventPart"
  BY KindsApart
<1>1. GoodMsg(y.sequence, t, r)
  BY <1>0 DEF GoodMsg
<1>2. LET z == Route(y, s, t, r) IN
      /\ IsWorld(z) /\ z.session = y.session /\ z.members = y.members
      /\ z.events = y.events /\ z.sequence = y.sequence /\ z.tellings = y.tellings
      /\ \A k : \A n \in Nat : Owed(y.mail, k, n) =>
                /\ Owes(t, r, k) => Owed(z.mail, k, n + 1)
                /\ ~Owes(t, r, k) => Owed(z.mail, k, n)
      /\ r.kind \notin EventKinds =>
                \A id, p : PartsAre(y.mail, id, p) => PartsAre(z.mail, id, p)
  <2> HIDE DEF HoldInv
  <2> QED
    BY <1>1, RouteOne
<1>3. y.mail = w.mail /\ y.events = w.events /\ y.sequence = w.sequence /\ y.tellings = w.tellings
  BY DEF SameCore
<1>4. /\ \A d : Owes(t, r, HoldKey(d)) <=> d = c
      /\ \A d, ch : Owes(t, r, JoinKey(d, ch)) <=>
            d = c /\ r.kind \in JoinKinds /\ r.chan = ch
      /\ \A k : k.of = "part" => ~Owes(t, r, k)
  BY HoldOwes
<1>5. ASSUME NEW d \in Conns
      PROVE  SessionOK(x, d) /\ LimitOK(x, d)
  <2>0. x.session = y.session
    BY <1>x, <1>2
  <2>1. SessionOK(w, d) /\ LimitOK(w, d) /\ IsSession(w.session[d])
    BY DEF HoldInv, IsWorld
  <2>2. w.session[d].deferred \in Nat
        /\ \A ch \in Chans : CountOf(w.session[d].pending, ch) \in Nat
    BY <2>1, Counted0 DEF IsSession
  <2>3. CASE d # c
    <3>1. x.session[d] = w.session[d] /\ Involved(x, d) = Involved(w, d)
      BY <2>0, <2>3 DEF Involved
    <3>2. \A n \in Nat : /\ Owed(w.mail, HoldKey(d), n) => Owed(x.mail, HoldKey(d), n)
                         /\ \A ch : Owed(w.mail, JoinKey(d, ch), n) => Owed(x.mail, JoinKey(d, ch), n)
      BY <1>x, <1>2, <1>3, <1>4, <2>3
    <3> QED
      BY <2>1, <2>2, <3>1, <3>2 DEF SessionOK, LimitOK
  <2>4. CASE d = c
    <3>1. x.session[c] = y.session[c] /\ Involved(x, c) = Involved(y, c)
      BY <2>0 DEF Involved
    <3>2. Owed(w.mail, HoldKey(c), w.session[c].deferred)
          /\ \A ch \in Chans : Owed(w.mail, JoinKey(c, ch), CountOf(w.session[c].pending, ch))
      BY <2>1, <2>4 DEF SessionOK
    <3>3. Owed(x.mail, HoldKey(c), x.session[c].deferred)
      BY <1>x, <1>2, <1>3, <1>4, <2>2, <2>4, <3>1, <3>2
    <3>4. ASSUME NEW ch \in Chans
          PROVE  Owed(x.mail, JoinKey(c, ch), CountOf(x.session[c].pending, ch))
      BY <1>x, <1>2, <1>3, <1>4, <2>2, <2>4, <3>1, <3>2
    <3>5. x.session[c].deferred # 0
      BY <2>2, <2>4, <3>1
    <3> QED
      BY <2>4, <3>1, <3>3, <3>4, <3>5 DEF SessionOK, LimitOK
  <2> QED
    BY <2>3, <2>4
<1>6. KeepsEvents(w, x)
  BY <1>x, <1>0, <1>2, <1>3, <1>4 DEF KeepsEvents
<1>7. HoldInv(x)
  BY <1>x, <1>2, <1>5 DEF HoldInv
<1> QED
  BY <1>x, <1>2, <1>6, <1>7

LEMMA AnswerHold ==
    ASSUME HoldInv(Now), NEW s \in Shards, NEW t \in Shards, mail[s][t] # <<>>,
           NEW m, m = Msg(s, t), m.kind \in HoldKinds, NEW c, c = m.conn,
           NEW y, IsWorld(y), SameCore(Taken(s, t), y),
           \A d \in Conns : d # c \/ ~session[d].on => y.session[d] = session[d],
           session[c].on =>
               /\ y.session[c].on /\ y.session[c].deferred = session[c].deferred - 1
               /\ y.session[c].deferred = 0 => y.session[c].held = <<>>
               /\ LimitOK(y, c)
               /\ \A ch \in Chans :
                   /\ m.kind \in JoinKinds /\ m.chan = ch =>
                        CountOf(y.session[c].pending, ch) = CountOf(session[c].pending, ch) - 1
                   /\ ~(m.kind \in JoinKinds /\ m.chan = ch) =>
                        CountOf(y.session[c].pending, ch) = CountOf(session[c].pending, ch)
    PROVE  HoldInv(y) /\ KeepsEvents(Now, y)
<1>w. IsWorld(Now)
  BY DEF HoldInv
<1>v. PICK v : v = Taken(s, t)
  OBVIOUS
<1>0. m.kind \notin EventKinds /\ m.kind \notin ReportKinds /\ m.kind # "UserEventPart"
  BY KindsApart
<1>2. /\ v.events = events /\ v.sequence = sequence /\ v.tellings = tellings
      /\ \A k : \A n \in Nat : Owed(mail, k, n) =>
                  /\ Owes(t, m, k) => n >= 1 /\ Owed(v.mail, k, n - 1)
                  /\ ~Owes(t, m, k) => Owed(v.mail, k, n)
      /\ \A id, p : PartsAre(mail, id, p) => PartsAre(v.mail, id, p)
  BY <1>w, <1>v, TakenWorld
<1>3. y.mail = v.mail /\ y.events = v.events /\ y.sequence = v.sequence /\ y.tellings = v.tellings
  BY <1>v DEF SameCore
<1>4. /\ \A d : Owes(t, m, HoldKey(d)) <=> d = c
      /\ \A d, ch : Owes(t, m, JoinKey(d, ch)) <=>
            d = c /\ m.kind \in JoinKinds /\ m.chan = ch
      /\ \A k : k.of = "part" => ~Owes(t, m, k)
  BY HoldOwes
<1>5. ASSUME NEW d \in Conns
      PROVE  SessionOK(y, d) /\ LimitOK(y, d)
  <2>1. SessionOK(Now, d) /\ LimitOK(Now, d) /\ IsSession(session[d])
    <3>1. SessionOK(Now, d) /\ LimitOK(Now, d)
      BY DEF HoldInv
    <3>2. IsSession(Now.session[d])
      BY <1>w DEF IsWorld
    <3> QED
      BY <3>1, <3>2, NowFields
  <2>2. session[d].deferred \in Nat
        /\ \A ch \in Chans : CountOf(session[d].pending, ch) \in Nat
    BY <2>1, Counted0 DEF IsSession
  <2>3. CASE ~session[d].on
    <3>1. y.session[d] = session[d] /\ Involved(y, d) = Involved(Now, d)
      BY <2>3, NowFields DEF Involved
    <3> QED
      BY <2>1, <2>3, <3>1, NowFields DEF SessionOK, LimitOK
  <2>4. CASE d # c
    <3>1. y.session[d] = session[d] /\ Involved(y, d) = Involved(Now, d)
      BY <2>4, NowFields DEF Involved
    <3>2. \A n \in Nat : /\ Owed(mail, HoldKey(d), n) => Owed(y.mail, HoldKey(d), n)
                         /\ \A ch : Owed(mail, JoinKey(d, ch), n) => Owed(y.mail, JoinKey(d, ch), n)
      BY <1>2, <1>3, <1>4, <2>4
    <3> QED
      BY <2>1, <2>2, <3>1, <3>2, NowFields DEF SessionOK, LimitOK
  <2>5. CASE d = c /\ session[d].on
    <3>2. Owed(mail, HoldKey(c), session[c].deferred)
          /\ \A ch \in Chans : Owed(mail, JoinKey(c, ch), CountOf(session[c].pending, ch))
      BY <2>1, <2>5, NowFields DEF SessionOK
    <3>3. Owed(y.mail, HoldKey(c), y.session[c].deferred)
      BY <1>2, <1>3, <1>4, <2>2, <2>5, <3>2
    <3>4. ASSUME NEW ch \in Chans
          PROVE  Owed(y.mail, JoinKey(c, ch), CountOf(y.session[c].pending, ch))
      BY <1>2, <1>3, <1>4, <2>2, <2>5, <3>2
    <3> QED
      BY <2>5, <3>3, <3>4 DEF SessionOK
  <2> QED
    BY <2>3, <2>4, <2>5
<1>6. KeepsEvents(Now, y)
  BY <1>2, <1>3, <1>4, NowFields DEF KeepsEvents
<1> QED
  BY <1>5, <1>6 DEF HoldInv

\* The counts of JOINs in flight.
LEMMA JoinSentIs ==
    ASSUME NEW f, IsCounts(f), NEW ch \in Chans, NEW g, g = JoinSent(f, ch)
    PROVE  /\ IsCounts(g) /\ DOMAIN g = DOMAIN f \cup {ch}
           /\ CountOf(g, ch) = CountOf(f, ch) + 1
           /\ \A d : d # ch => CountOf(g, d) = CountOf(f, d)
<1> DEFINE v == IF ch \in DOMAIN f THEN f[ch] + 1 ELSE 1
<1>1. g = [d \in DOMAIN f \cup {ch} |-> IF d = ch THEN v ELSE f[d]]
  BY DEF JoinSent, With
<1>2. v \in Nat \ {0} /\ v = CountOf(f, ch) + 1
  BY DEF IsCounts, CountOf
<1> HIDE DEF v
<1>3. DOMAIN g = DOMAIN f \cup {ch} /\ g[ch] = v /\ \A d \in DOMAIN f : d # ch => g[d] = f[d]
  BY <1>1
<1>4. IsCounts(g)
  BY <1>1, <1>2, <1>3 DEF IsCounts
<1> QED
  BY <1>2, <1>3, <1>4 DEF CountOf

LEMMA TakeOneIs ==
    ASSUME NEW f, IsCounts(f), NEW ch \in Chans, NEW g, g = TakeOne(f, ch), CountOf(f, ch) # 0
    PROVE  /\ IsCounts(g) /\ DOMAIN g \subseteq DOMAIN f /\ DOMAIN f \subseteq DOMAIN g \cup {ch}
           /\ CountOf(g, ch) = CountOf(f, ch) - 1
           /\ \A d : d # ch => CountOf(g, d) = CountOf(f, d)
<1>0. ch \in DOMAIN f /\ f[ch] \in Nat \ {0} /\ CountOf(f, ch) = f[ch]
  BY DEF CountOf, IsCounts
<1>1. CASE f[ch] = 1
  <2>1. g = [d \in DOMAIN f \ {ch} |-> f[d]]
    BY <1>0, <1>1 DEF TakeOne, Without
  <2>2. DOMAIN g = DOMAIN f \ {ch} /\ \A d \in DOMAIN g : g[d] = f[d]
    BY <2>1
  <2>3. IsCounts(g)
    BY <2>1, <2>2 DEF IsCounts
  <2> QED
    BY <1>0, <1>1, <2>2, <2>3 DEF CountOf
<1>2. CASE f[ch] # 1
  <2>1. g = [f EXCEPT ![ch] = f[ch] - 1]
    BY <1>0, <1>2 DEF TakeOne
  <2>2. DOMAIN g = DOMAIN f /\ g[ch] = f[ch] - 1 /\ \A d \in DOMAIN g : d # ch => g[d] = f[d]
    BY <1>0, <2>1
  <2>3. g = [d \in DOMAIN g |-> g[d]]
    BY <2>1
  <2>4. f[ch] - 1 \in Nat \ {0}
    BY <1>0, <1>2
  <2>5. IsCounts(g)
    BY <2>2, <2>3, <2>4 DEF IsCounts
  <2> QED
    BY <1>0, <2>2, <2>5 DEF CountOf
<1> QED
  BY <1>1, <1>2

LEMMA DeferIs ==
    ASSUME NEW w, IsWorld(w), NEW c \in Conns
    PROVE  LET y == Defer(w, c) IN
           /\ IsWorld(y) /\ SameCore(w, y)
           /\ \A d \in Conns : d # c => y.session[d] = w.session[d]
           /\ y.session[c].on = w.session[c].on /\ y.session[c].channels = w.session[c].channels
           /\ y.session[c].pending = w.session[c].pending
           /\ y.session[c].deferred = w.session[c].deferred + 1
<1>0. IsRec(w) /\ w.session = [d \in Conns |-> w.session[d]]
      /\ \A d \in Conns : IsSession(w.session[d])
  BY DEF IsWorld
<1>y. PICK y : y = Defer(w, c)
  OBVIOUS
<1>e. PICK e : e = w.session[c].deferred + 1
  OBVIOUS
<1>1. y = [w EXCEPT !.session[c].deferred = e]
  BY <1>y, <1>e DEF Defer
<1>2. SameCore(w, y) /\ y.session = [w.session EXCEPT ![c].deferred = e]
  BY <1>0, <1>1 DEF IsRec, WorldFields, SameCore
<1>r. PICK r : r = y.session[c]
  OBVIOUS
<1>3. r = [w.session[c] EXCEPT !.deferred = e]
      /\ \A d \in Conns : d # c => y.session[d] = w.session[d]
  BY <1>0, <1>2, <1>r
<1>4. e \in Nat
  <2>1. w.session[c].deferred \in Nat
    BY <1>0 DEF IsSession
  <2> QED
    BY <1>e, <2>1
<1>5. /\ IsSession(r) /\ r.held = w.session[c].held /\ r.on = w.session[c].on
      /\ r.channels = w.session[c].channels /\ r.pending = w.session[c].pending
      /\ r.deferred = e
  BY <1>0, <1>3, <1>4, DeferredSet
<1>6. \A d \in Conns : IsSession(y.session[d])
  BY <1>0, <1>3, <1>5, <1>r
<1>7. y.session = [d \in Conns |-> y.session[d]]
  BY <1>0, <1>2
<1>8. IsWorld(y)
  BY <1>2, <1>6, <1>7, SessionsChange
<1> QED
  BY <1>y, <1>2, <1>3, <1>5, <1>8, <1>e, <1>r

LEMMA PartCommandHolds ==
    ASSUME NEW w, HoldInv(w), NEW c \in Conns, w.session[c].on, NEW ch \in Chans,
           NEW x, x = PartCommand(w, c, ch)
    PROVE  HoldInv(x) /\ KeepsEvents(w, x) /\ x.session[c].on
<1>w. IsWorld(w)
  BY DEF HoldInv
<1>n. PICK nick : nick = w.session[c].nick
  OBVIOUS
<1>1. CASE Owner[ch] # Home[c]
  <2>y. PICK y : y = Defer(w, c)
    OBVIOUS
  <2>1. /\ IsWorld(y) /\ SameCore(w, y)
        /\ \A d \in Conns : d # c => y.session[d] = w.session[d]
        /\ y.session[c].on = w.session[c].on /\ y.session[c].channels = w.session[c].channels
        /\ y.session[c].pending = w.session[c].pending
        /\ y.session[c].deferred = w.session[c].deferred + 1
    BY <1>w, <2>y, DeferIs
  <2>r. PICK r : r = [kind |-> "ChannelPart", conn |-> c, nick |-> nick, chan |-> ch]
    OBVIOUS
  <2>2. r.kind \in HoldKinds /\ r.kind \notin JoinKinds /\ r.conn = c /\ r.chan \in Chans
    BY <2>r DEF HoldKinds, JoinKinds
  <2>3. x = Route(y, Home[c], Owner[ch], r)
    BY <1>1, <1>n, <2>y, <2>r DEF PartCommand
  <2>4. LimitOK(y, c)
    BY <2>1 DEF HoldInv, LimitOK, Involved
  <2>5. Home[c] \in Shards /\ Owner[ch] \in Shards
    BY OwnerType, HomeType
  <2>c. \A d \in Chans :
          /\ r.kind \in JoinKinds /\ r.chan = d =>
               CountOf(y.session[c].pending, d) = CountOf(w.session[c].pending, d) + 1
          /\ ~(r.kind \in JoinKinds /\ r.chan = d) =>
               CountOf(y.session[c].pending, d) = CountOf(w.session[c].pending, d)
    BY <2>1, <2>2
  <2>6. LET z == Route(y, Home[c], Owner[ch], r) IN
        HoldInv(z) /\ KeepsEvents(w, z) /\ z.session = y.session
    <3>1. IsWorld(y) /\ SameCore(w, y) /\ \A d \in Conns : d # c => y.session[d] = w.session[d]
      BY <2>1
    <3>2. y.session[c].on /\ y.session[c].deferred = w.session[c].deferred + 1
      BY <2>1
    <3>3. r.kind \in HoldKinds /\ r.conn = c /\ r.chan \in Chans
      BY <2>2
    <3> QED
      BY <3>1, <3>2, <3>3, <2>c, <2>4, <2>5, AskHold
  <2> QED
    BY <2>1, <2>3, <2>6
<1>2. CASE Owner[ch] = Home[c]
  <2>l. PICK local : local = PartOnOwner(w, c, nick, ch)
    OBVIOUS
  <2>1. Keeps(w, local.w) /\ IsWorld(local.w)
    BY <1>w, <2>l, KeepsPartOnOwner, KeepsWorld
  <2>s. PICK said : said = IF local.result = "parted" THEN Send(local.w, c, LeftLine(nick, ch))
                           ELSE local.w
    OBVIOUS
  <2>2. Keeps(local.w, Send(local.w, c, LeftLine(nick, ch))) /\ Keeps(local.w, local.w)
    BY <2>1, KeepsSendAll, KeepsItself DEF Send
  <2>3. Keeps(w, said) /\ IsWorld(said)
    BY <2>1, <2>2, <2>s, KeepsChain, KeepsWorld
  <2>4. x = RecordPart(said, c, ch, local.result)
    BY <1>2, <1>n, <2>l, <2>s DEF PartCommand
  <2>5. Keeps(w, x)
    BY <2>3, <2>4, KeepsRecordPart, KeepsChain
  <2> QED
    BY <2>5, HoldKept DEF Keeps, KeepsHold, SameWait
<1> QED
  BY <1>1, <1>2

\* Session c of x is that of w but for the fields that are not listed.
OnlySession(w, x, c) ==
    /\ IsWorld(x) /\ SameCore(w, x)
    /\ \A d \in Conns : d # c => x.session[d] = w.session[d]
    /\ x.session[c].on = w.session[c].on

LEMMA OneSession ==
    ASSUME NEW w, IsWorld(w), NEW c \in Conns, NEW x, SameCore(w, x), NEW r, IsSession(r),
           x.session = [d \in Conns |-> IF d = c THEN r ELSE w.session[d]],
           r.on = w.session[c].on
    PROVE  OnlySession(w, x, c) /\ x.session[c] = r
<1>0. w.session = [d \in Conns |-> w.session[d]] /\ \A d \in Conns : IsSession(w.session[d])
  BY DEF IsWorld
<1>1. x.session[c] = r /\ \A d \in Conns : d # c => x.session[d] = w.session[d]
  BY <1>0
<1>2. x.session = [d \in Conns |-> x.session[d]]
  BY <1>0
<1>3. \A d \in Conns : IsSession(x.session[d])
  BY <1>0, <1>1
<1>4. IsWorld(x)
  BY <1>2, <1>3, SessionsChange
<1> QED
  BY <1>1, <1>4 DEF OnlySession

LEMMA OnlySessionChain ==
    ASSUME NEW w, NEW x, NEW y, NEW c, OnlySession(w, x, c), OnlySession(x, y, c)
    PROVE  OnlySession(w, y, c)
BY DEF OnlySession, SameCore

LEMMA EmitDeferredIs ==
    ASSUME NEW w, IsWorld(w), NEW c \in Conns, w.session[c].on, w.session[c].deferred # 0, NEW lines
    PROVE  LET y == EmitDeferred(w, c, lines) IN
           /\ OnlySession(w, y, c)
           /\ y.session[c].channels = w.session[c].channels
           /\ y.session[c].pending = w.session[c].pending
           /\ y.session[c].deferred = w.session[c].deferred - 1
           /\ y.session[c].deferred = 0 => y.session[c].held = <<>>
<1>0. IsRec(w) /\ IsSession(w.session[c]) /\ w.session = [d \in Conns |-> w.session[d]]
  BY DEF IsWorld
<1>y. PICK y : y = EmitDeferred(w, c, lines)
  OBVIOUS
<1>e. PICK e : e = w.session[c].deferred - 1
  OBVIOUS
<1>1. e \in Nat
  BY <1>0, <1>e DEF IsSession
<1>f. PICK f : f = IF e = 0 THEN <<>> ELSE w.session[c].held
  OBVIOUS
<1>g. PICK g : g = observeAll(w.view[c], lines \o IF e = 0 THEN w.session[c].held ELSE <<>>)
  OBVIOUS
<1>2. y = [w EXCEPT !.view[c] = g, !.session[c].deferred = e, !.session[c].held = f]
  BY <1>y, <1>e, <1>f, <1>g DEF EmitDeferred
<1>r. PICK r : r = [w.session[c] EXCEPT !.deferred = e, !.held = f]
  OBVIOUS
<1>3. /\ IsSession(r) /\ r.on = w.session[c].on /\ r.channels = w.session[c].channels
      /\ r.pending = w.session[c].pending /\ r.deferred = e /\ r.held = f
  <2>1. IsSession(w.session[c])
    BY <1>0
  <2> QED
    BY <1>1, <1>r, <2>1 DEF IsSession, SessionFields
<1>4. SameCore(w, y)
  BY <1>0, <1>2 DEF IsRec, WorldFields, SameCore
<1>5. y.session = [d \in Conns |-> IF d = c THEN r ELSE w.session[d]]
  BY <1>0, <1>2, <1>r DEF IsRec, WorldFields
<1>6. OnlySession(w, y, c) /\ y.session[c] = r
  BY <1>3, <1>4, <1>5, OneSession
<1> QED
  BY <1>y, <1>e, <1>f, <1>3, <1>6

LEMMA RecordJoinIs ==
    ASSUME NEW w, IsWorld(w), NEW c \in Conns, NEW ch \in Chans, NEW result
    PROVE  LET y == RecordJoin(w, c, ch, result) IN
           /\ OnlySession(w, y, c)
           /\ y.session[c].channels \subseteq w.session[c].channels \cup {ch}
           /\ y.session[c].pending = w.session[c].pending
           /\ y.session[c].deferred = w.session[c].deferred
           /\ y.session[c].held = w.session[c].held
<1>0. IsRec(w) /\ IsSession(w.session[c]) /\ w.session = [d \in Conns |-> w.session[d]]
  BY DEF IsWorld
<1>y. PICK y : y = RecordJoin(w, c, ch, result)
  OBVIOUS
<1>1. CASE result # "joined"
  <2>1. y = w
    BY <1>1, <1>y DEF RecordJoin
  <2> QED
    BY <1>0, <1>y, <2>1 DEF OnlySession, SameCore
<1>2. CASE result = "joined"
  <2>e. PICK e : e = w.session[c].channels \cup {ch}
    OBVIOUS
  <2>f. PICK f : f = w.memberships[c] \cup {ch}
    OBVIOUS
  <2>1. y = [w EXCEPT !.session[c].channels = e, !.memberships[c] = f]
    BY <1>2, <1>y, <2>e, <2>f DEF RecordJoin
  <2>r. PICK r : r = [w.session[c] EXCEPT !.channels = e]
    OBVIOUS
  <2>2. e \in SUBSET Chans
    BY <1>0, <2>e DEF IsSession
  <2>3. /\ IsSession(r) /\ r.held = w.session[c].held /\ r.on = w.session[c].on /\ r.channels = e
        /\ r.pending = w.session[c].pending /\ r.deferred = w.session[c].deferred
    BY <1>0, <2>r, <2>2, ChannelsSet
  <2>4. SameCore(w, y)
    BY <1>0, <2>1 DEF IsRec, WorldFields, SameCore
  <2>5. y.session = [d \in Conns |-> IF d = c THEN r ELSE w.session[d]]
    BY <1>0, <2>1, <2>r DEF IsRec, WorldFields
  <2>6. OnlySession(w, y, c) /\ y.session[c] = r
    BY <2>3, <2>4, <2>5, OneSession
  <2> QED
    BY <1>y, <2>e, <2>3, <2>6
<1> QED
  BY <1>1, <1>2

Answer(w, c, e, f) == [w EXCEPT !.session[c].pending = e, !.session[c].partOnJoin = f]

LEMMA AnsweredIs ==
    ASSUME NEW w, IsWorld(w), NEW c \in Conns, NEW e, IsCounts(e), NEW f
    PROVE  LET y == Answer(w, c, e, f) IN
           /\ OnlySession(w, y, c)
           /\ y.session[c].channels = w.session[c].channels
           /\ y.session[c].pending = e
           /\ y.session[c].deferred = w.session[c].deferred
           /\ y.session[c].held = w.session[c].held
<1>0. IsRec(w) /\ IsSession(w.session[c]) /\ w.session = [d \in Conns |-> w.session[d]]
  BY DEF IsWorld
<1>y. PICK y : y = Answer(w, c, e, f)
  OBVIOUS
<1>q. PICK q : q = [w.session[c] EXCEPT !.pending = e]
  OBVIOUS
<1>r. PICK r : r = [q EXCEPT !.partOnJoin = f]
  OBVIOUS
<1>1. /\ IsSession(q) /\ q.held = w.session[c].held /\ q.on = w.session[c].on
      /\ q.channels = w.session[c].channels
      /\ q.pending = e /\ q.deferred = w.session[c].deferred
  BY <1>0, <1>q, PendingSet
<1>2. /\ IsSession(r) /\ r.held = q.held /\ r.on = q.on /\ r.channels = q.channels
      /\ r.pending = q.pending /\ r.deferred = q.deferred
  BY <1>1, <1>r, PartOnJoinSet
<1>3. SameCore(w, y)
  BY <1>0, <1>y DEF Answer, IsRec, WorldFields, SameCore
<1>4. y.session = [d \in Conns |-> IF d = c THEN r ELSE w.session[d]]
  BY <1>0, <1>y, <1>q, <1>r DEF Answer, IsRec, WorldFields
<1>5. r.on = w.session[c].on
  BY <1>1, <1>2
<1>6. OnlySession(w, y, c) /\ y.session[c] = r
  BY <1>2, <1>3, <1>4, <1>5, OneSession
<1> QED
  BY <1>y, <1>1, <1>2, <1>6

Pended(w, c, e) == [w EXCEPT !.session[c].pending = e]
LEMMA PendingIs ==
    ASSUME NEW w, IsWorld(w), NEW c \in Conns, NEW e, IsCounts(e), NEW y, y = Pended(w, c, e)
    PROVE  /\ OnlySession(w, y, c)
           /\ y.session[c].channels = w.session[c].channels
           /\ y.session[c].pending = e
           /\ y.session[c].deferred = w.session[c].deferred
<1>0. IsRec(w) /\ IsSession(w.session[c]) /\ w.session = [d \in Conns |-> w.session[d]]
  BY DEF IsWorld
<1>r. PICK r : r = [w.session[c] EXCEPT !.pending = e]
  OBVIOUS
<1>1. /\ IsSession(r) /\ r.on = w.session[c].on /\ r.channels = w.session[c].channels
      /\ r.pending = e /\ r.deferred = w.session[c].deferred
  BY <1>0, <1>r, PendingSet
<1>2. SameCore(w, y)
  BY <1>0 DEF Pended, IsRec, WorldFields, SameCore
<1>3. y.session = [d \in Conns |-> IF d = c THEN r ELSE w.session[d]]
  BY <1>0, <1>r DEF Pended, IsRec, WorldFields
<1>4. OnlySession(w, y, c) /\ y.session[c] = r
  BY <1>1, <1>2, <1>3, OneSession
<1> QED
  BY <1>1, <1>4

\* One more channel for a session that has room for it.
LEMMA RoomMade ==
    ASSUME NEW c \in Conns, LimitOK(Now, c), NEW ch, RoomForChannel(c, ch)
    PROVE  /\ IsFiniteSet(Involved(Now, c) \cup {ch})
           /\ Cardinality(Involved(Now, c) \cup {ch}) <= MaxChannels
<1>i. PICK I : I = Involved(Now, c)
  OBVIOUS
<1>1. IsFiniteSet(I) /\ Cardinality(I) <= MaxChannels /\ Cardinality(I) \in Nat
      /\ (ch \in I \/ Cardinality(I) < MaxChannels)
  BY <1>i, FS_CardinalityType DEF LimitOK, RoomForChannel
<1>2. /\ IsFiniteSet(I \cup {ch})
      /\ Cardinality(I \cup {ch}) = IF ch \in I THEN Cardinality(I) ELSE Cardinality(I) + 1
  BY <1>1, FS_AddElement
<1> QED
  BY <1>i, <1>1, <1>2, MembershipAssumption

LEMMA Within ==
    ASSUME NEW w, NEW c, NEW B, IsFiniteSet(B), Cardinality(B) <= MaxChannels,
           Involved(w, c) \subseteq B
    PROVE  LimitOK(w, c)
<1>1. IsFiniteSet(Involved(w, c)) /\ Cardinality(Involved(w, c)) <= Cardinality(B)
  BY FS_Subset
<1>2. Cardinality(Involved(w, c)) \in Nat /\ Cardinality(B) \in Nat
  BY <1>1, FS_CardinalityType
<1> QED
  BY <1>1, <1>2, MembershipAssumption DEF LimitOK

LEMMA JoinRecorded ==
    ASSUME NEW w, HoldInv(w), NEW c \in Conns, NEW ch \in Chans, NEW result,
           NEW B, IsFiniteSet(B), Cardinality(B) <= MaxChannels, Involved(w, c) \cup {ch} \subseteq B
    PROVE  LET x == RecordJoin(w, c, ch, result) IN HoldInv(x) /\ KeepsEvents(w, x)
<1>w. IsWorld(w)
  BY DEF HoldInv
<1>x. PICK x : x = RecordJoin(w, c, ch, result)
  OBVIOUS
<1>1. /\ OnlySession(w, x, c)
      /\ x.session[c].channels \subseteq w.session[c].channels \cup {ch}
      /\ x.session[c].pending = w.session[c].pending
      /\ x.session[c].deferred = w.session[c].deferred
      /\ x.session[c].held = w.session[c].held
  BY <1>w, <1>x, RecordJoinIs
<1>2. IsWorld(x) /\ SameCore(w, x) /\ x.session[c].on = w.session[c].on
      /\ \A d \in Conns : d # c => x.session[d] = w.session[d]
  BY <1>1 DEF OnlySession
<1>3. KeepsEvents(w, x)
  BY <1>2 DEF KeepsEvents, SameCore
<1>4. \A d \in Conns : SessionOK(x, d)
  BY <1>1, <1>2 DEF HoldInv, SessionOK, SameCore
<1>5. LimitOK(x, c)
  <2>1. Involved(x, c) \subseteq B
    BY <1>1 DEF Involved
  <2> QED
    BY <2>1, Within
<1>6. \A d \in Conns : d # c => LimitOK(x, d)
  BY <1>2 DEF HoldInv, LimitOK, Involved
<1> QED
  BY <1>x, <1>2, <1>3, <1>4, <1>5, <1>6 DEF HoldInv

LEMMA StepIs ==
    ASSUME NEW x, IsWorld(x), Become(x)
    PROVE  Now' = x
BY BecomeNow DEF IsWorld

LEMMA KeptStep ==
    ASSUME HoldInv(Now), NEW x, Keeps(Now, x), Become(x)
    PROVE  HoldInv(Now') /\ KeepsEvents(Now, Now')
<1>1. IsWorld(x)
  BY KeepsWorld
<1>2. Now' = x
  BY <1>1, StepIs
<1>3. HoldInv(x)
  BY HoldKept DEF Keeps
<1> QED
  BY <1>2, <1>3 DEF Keeps

-----------------------------------------------------------------------------
\* The commands that are about no user event.

LEMMA JoinHolds ==
    ASSUME HoldInv(Now), NEW c \in Conns, NEW ch \in Chans, Join(c, ch)
    PROVE  HoldInv(Now') /\ KeepsEvents(Now, Now')
<1>w. IsWorld(Now) /\ LimitOK(Now, c)
  BY DEF HoldInv
<1>0. session[c].on /\ RoomForChannel(c, ch)
  BY DEF Join, Command
<1>b. PICK B : B = Involved(Now, c) \cup {ch}
  OBVIOUS
<1>1. IsFiniteSet(B) /\ Cardinality(B) <= MaxChannels
  BY <1>w, <1>0, <1>b, RoomMade
<1>n. PICK nick : nick = session[c].nick
  OBVIOUS
<1>a. PICK admit \in BOOLEAN :
         LET local == JoinOnOwner(Now, c, nick, ch, admit)
             said == IF local.result = "joined"
                     THEN Send(local.w, c, NamesLine(ch, local.names)) ELSE local.w
             waits == [Now EXCEPT !.session[c].pending = JoinSent(@, ch)]
         IN  Become(IF Owner[ch] = Home[c]
                    THEN RecordJoin(said, c, ch, local.result)
                    ELSE Route(Defer(waits, c), Home[c], Owner[ch],
                               [kind |-> "ChannelJoin", conn |-> c, nick |-> nick,
                                chan |-> ch]))
  BY <1>n DEF Join
<1>2. CASE Owner[ch] = Home[c]
  <2>l. PICK local : local = JoinOnOwner(Now, c, nick, ch, admit)
    OBVIOUS
  <2>s. PICK said : said = IF local.result = "joined"
                           THEN Send(local.w, c, NamesLine(ch, local.names)) ELSE local.w
    OBVIOUS
  <2>1. Keeps(Now, local.w) /\ IsWorld(local.w)
    BY <1>w, <2>l, KeepsJoinOnOwner, KeepsWorld
  <2>2. Keeps(local.w, Send(local.w, c, NamesLine(ch, local.names))) /\ Keeps(local.w, local.w)
    BY <2>1, KeepsSendAll, KeepsItself DEF Send
  <2>3. Keeps(Now, said)
    BY <2>1, <2>2, <2>s, KeepsChain
  <2>4. HoldInv(said) /\ KeepsEvents(Now, said)
    BY <2>3, HoldKept DEF Keeps
  <2>5. Involved(said, c) \cup {ch} \subseteq B
    BY <1>b, <2>3 DEF Keeps, KeepsHold, SameWait, Involved
  <2>x. PICK x : x = RecordJoin(said, c, ch, local.result)
    OBVIOUS
  <2>6. HoldInv(x) /\ KeepsEvents(said, x)
    BY <1>1, <2>4, <2>5, <2>x, JoinRecorded
  <2>7. Become(x)
    BY <1>a, <1>2, <2>l, <2>s, <2>x
  <2>8. Now' = x
    BY <2>6, <2>7, StepIs DEF HoldInv
  <2> QED
    BY <2>4, <2>6, <2>8, KeepsEventsChain
<1>3. CASE Owner[ch] # Home[c]
  <2>0. IsCounts(session[c].pending) /\ Now.session = session
    BY <1>w, NowFields DEF IsWorld, IsSession
  <2>e. PICK e : e = JoinSent(session[c].pending, ch)
    OBVIOUS
  <2>1. /\ IsCounts(e) /\ DOMAIN e = DOMAIN session[c].pending \cup {ch}
        /\ CountOf(e, ch) = CountOf(session[c].pending, ch) + 1
        /\ \A d : d # ch => CountOf(e, d) = CountOf(session[c].pending, d)
    BY <2>0, <2>e, JoinSentIs
  <2>s. PICK waits : waits = Pended(Now, c, e)
    OBVIOUS
  <2>2. /\ OnlySession(Now, waits, c)
        /\ waits.session[c].channels = Now.session[c].channels
        /\ waits.session[c].pending = e
        /\ waits.session[c].deferred = Now.session[c].deferred
    <3>1. IsCounts(e)
      BY <2>1
    <3> QED
      BY <1>w, <2>s, <3>1, PendingIs
  <2>y. PICK y : y = Defer(waits, c)
    OBVIOUS
  <2>3. /\ IsWorld(waits) /\ SameCore(Now, waits) /\ waits.session[c].on
        /\ \A d \in Conns : d # c => waits.session[d] = Now.session[d]
    BY <1>0, <2>0, <2>2 DEF OnlySession
  <2>4. /\ IsWorld(y) /\ SameCore(waits, y)
        /\ \A d \in Conns : d # c => y.session[d] = waits.session[d]
        /\ y.session[c].on = waits.session[c].on /\ y.session[c].channels = waits.session[c].channels
        /\ y.session[c].pending = waits.session[c].pending
        /\ y.session[c].deferred = waits.session[c].deferred + 1
    <3>1. IsWorld(waits)
      BY <2>3
    <3> QED
      BY <2>y, <3>1, DeferIs
  <2>r. PICK r : r = [kind |-> "ChannelJoin", conn |-> c, nick |-> nick, chan |-> ch]
    OBVIOUS
  <2>5. r.kind \in HoldKinds /\ r.kind \in JoinKinds /\ r.conn = c /\ r.chan = ch
    BY <2>r DEF HoldKinds, JoinKinds
  <2>6. Involved(y, c) \subseteq B
    BY <1>b, <2>0, <2>1, <2>2, <2>4 DEF Involved
  <2>7. LimitOK(y, c)
    BY <1>1, <2>6, Within
  <2>8. Home[c] \in Shards /\ Owner[ch] \in Shards
    BY OwnerType, HomeType
  <2>x. PICK x : x = Route(y, Home[c], Owner[ch], r)
    OBVIOUS
  <2>9. HoldInv(x) /\ KeepsEvents(Now, x)
    <3>1. IsWorld(y) /\ SameCore(Now, y) /\ \A d \in Conns : d # c => y.session[d] = Now.session[d]
      BY <2>3, <2>4 DEF SameCore
    <3>2. y.session[c].on /\ y.session[c].deferred = Now.session[c].deferred + 1
      BY <2>2, <2>3, <2>4
    <3>3. r.kind \in HoldKinds /\ r.conn = c /\ r.chan \in Chans
      BY <2>5
    <3>4. \A d \in Chans :
          /\ r.kind \in JoinKinds /\ r.chan = d =>
               CountOf(y.session[c].pending, d) = CountOf(Now.session[c].pending, d) + 1
          /\ ~(r.kind \in JoinKinds /\ r.chan = d) =>
               CountOf(y.session[c].pending, d) = CountOf(Now.session[c].pending, d)
      BY <2>0, <2>1, <2>2, <2>4, <2>5
    <3>5. Now.session[c].on
      BY <1>0, <2>0
    <3>6. LET z == Route(y, Home[c], Owner[ch], r) IN
          HoldInv(z) /\ KeepsEvents(Now, z) /\ z.session = y.session
      BY <2>7, <2>8, <3>1, <3>2, <3>3, <3>4, <3>5, AskHold
    <3> QED
      BY <2>x, <3>6
  <2>10. waits = [Now EXCEPT !.session[c].pending = JoinSent(@, ch)]
    BY <2>0, <2>e, <2>s DEF Pended
  <2>11. Become(x)
    BY <1>a, <1>3, <2>10, <2>y, <2>r, <2>x
  <2>12. Now' = x
    BY <2>9, <2>11, StepIs DEF HoldInv
  <2> QED
    BY <2>9, <2>12
<1> QED
  BY <1>2, <1>3

LEMMA PartHolds ==
    ASSUME HoldInv(Now), NEW c \in Conns, NEW ch \in Chans, Part(c, ch)
    PROVE  HoldInv(Now') /\ KeepsEvents(Now, Now')
<1>x. PICK x : x = PartCommand(Now, c, ch)
  OBVIOUS
<1>1. Now.session[c].on /\ Become(x)
  BY <1>x, NowFields DEF Part, Command
<1>2. HoldInv(x) /\ KeepsEvents(Now, x)
  BY <1>x, <1>1, PartCommandHolds
<1> QED
  BY <1>1, <1>2, StepIs DEF HoldInv

LEMMA KickHolds ==
    ASSUME HoldInv(Now), NEW c \in Conns, NEW ch \in Chans, NEW nick, Kick(c, ch, nick)
    PROVE  HoldInv(Now') /\ KeepsEvents(Now, Now')
<1>w. IsWorld(Now)
  BY DEF HoldInv
<1>0. Now.session[c].on
  BY NowFields DEF Kick, Command
<1>l. PICK local : local = KickOnOwner(Now, c, nick, ch)
  OBVIOUS
<1>r. PICK r : r = [kind |-> "ChannelKick", conn |-> c, chan |-> ch, nick |-> nick]
  OBVIOUS
<1>a. Become(IF Owner[ch] = Home[c]
             THEN IF local.result = "kicked" THEN Send(local.w, c, LeftLine(nick, ch))
                  ELSE local.w
             ELSE Route(Defer(Now, c), Home[c], Owner[ch], r))
  BY <1>l, <1>r DEF Kick
<1>1. CASE Owner[ch] = Home[c]
  <2>1. Keeps(Now, local.w) /\ IsWorld(local.w)
    BY <1>w, <1>l, KeepsKickOnOwner, KeepsWorld
  <2>2. Keeps(Now, Send(local.w, c, LeftLine(nick, ch)))
    BY <2>1, KeepsSendAll, KeepsChain DEF Send
  <2> QED
    BY <1>a, <1>1, <2>1, <2>2, KeptStep
<1>2. CASE Owner[ch] # Home[c]
  <2>y. PICK y : y = Defer(Now, c)
    OBVIOUS
  <2>1. /\ IsWorld(y) /\ SameCore(Now, y)
        /\ \A d \in Conns : d # c => y.session[d] = Now.session[d]
        /\ y.session[c].on = Now.session[c].on /\ y.session[c].channels = Now.session[c].channels
        /\ y.session[c].pending = Now.session[c].pending
        /\ y.session[c].deferred = Now.session[c].deferred + 1
    BY <1>w, <2>y, DeferIs
  <2>2. r.kind \in HoldKinds /\ r.kind \notin JoinKinds /\ r.conn = c /\ r.chan \in Chans
    BY <1>r DEF HoldKinds, JoinKinds
  <2>4. LimitOK(y, c)
    BY <2>1 DEF HoldInv, LimitOK, Involved
  <2>5. Home[c] \in Shards /\ Owner[ch] \in Shards
    BY OwnerType, HomeType
  <2>c. \A d \in Chans :
          /\ r.kind \in JoinKinds /\ r.chan = d =>
               CountOf(y.session[c].pending, d) = CountOf(Now.session[c].pending, d) + 1
          /\ ~(r.kind \in JoinKinds /\ r.chan = d) =>
               CountOf(y.session[c].pending, d) = CountOf(Now.session[c].pending, d)
    BY <2>1, <2>2
  <2>x. PICK x : x = Route(y, Home[c], Owner[ch], r)
    OBVIOUS
  <2>6. HoldInv(x) /\ KeepsEvents(Now, x)
    <3>1. IsWorld(y) /\ SameCore(Now, y) /\ \A d \in Conns : d # c => y.session[d] = Now.session[d]
      BY <2>1
    <3>2. y.session[c].on /\ y.session[c].deferred = Now.session[c].deferred + 1
      BY <1>0, <2>1
    <3>3. r.kind \in HoldKinds /\ r.conn = c /\ r.chan \in Chans
      BY <2>2
    <3>4. LET z == Route(y, Home[c], Owner[ch], r) IN
          HoldInv(z) /\ KeepsEvents(Now, z) /\ z.session = y.session
      BY <1>0, <3>1, <3>2, <3>3, <2>c, <2>4, <2>5, AskHold
    <3> QED
      BY <2>x, <3>4
  <2>7. Become(x)
    BY <1>a, <1>2, <2>x, <2>y
  <2> QED
    BY <2>6, <2>7, StepIs DEF HoldInv
<1> QED
  BY <1>1, <1>2

\* g holds what is left after each of the first n PARTs.
Parted(w, c, order, g) ==
    g = [n \in 0 .. Len(order) |-> IF n = 0 THEN w ELSE PartCommand(g[n - 1], c, order[n])]

LEMMA PartedExists ==
    ASSUME NEW w, NEW c, NEW order \in Seq(Chans)
    PROVE  \E g : Parted(w, c, order, g)
<1> DEFINE Upto(n, g) ==
             g = [i \in 0 .. n |-> IF i = 0 THEN w ELSE PartCommand(g[i - 1], c, order[i])]
           S == {n \in 0 .. Len(order) : \E g : Upto(n, g)}
<1>0. Len(order) \in Nat
  OBVIOUS
<1>1. 0 \in S
  <2> DEFINE zero == [i \in 0 .. 0 |-> w]
  <2>1. Upto(0, zero)
    OBVIOUS
  <2>2. 0 \in 0 .. Len(order)
    BY <1>0
  <2> HIDE DEF zero
  <2> QED
    BY <2>1, <2>2, Zenon
<1>2. ASSUME NEW n \in 0 .. (Len(order) - 1), n \in S
      PROVE  n + 1 \in S
  <2>1. PICK g : Upto(n, g)
    BY <1>2, Zenon
  <2> DEFINE h == [i \in 0 .. (n + 1) |-> IF i = n + 1 THEN PartCommand(g[n], c, order[n + 1])
                                          ELSE g[i]]
  <2>0. n \in Nat
    BY <1>0
  <2>2. ASSUME NEW i \in 0 .. (n + 1)
        PROVE  h[i] = IF i = 0 THEN w ELSE PartCommand(h[i - 1], c, order[i])
    <3>1. CASE i = n + 1
      <4>1. h[i] = PartCommand(g[n], c, order[n + 1]) /\ i # 0 /\ i - 1 = n
        BY <2>0, <3>1
      <4>2. h[i - 1] = g[n]
        BY <2>0, <4>1
      <4> HIDE DEF h
      <4> QED
        BY <3>1, <4>1, <4>2
    <3>2. CASE i # n + 1
      <4>1. i \in 0 .. n /\ h[i] = g[i] /\ (i # 0 => h[i - 1] = g[i - 1])
        BY <2>0, <3>2
      <4>2. g[i] = IF i = 0 THEN w ELSE PartCommand(g[i - 1], c, order[i])
        BY <2>1, <4>1
      <4> HIDE DEF h
      <4> QED
        BY <4>1, <4>2
    <3> QED
      BY <3>1, <3>2
  <2> HIDE DEF h
  <2>3. h = [i \in 0 .. (n + 1) |-> h[i]]
    BY DEF h
  <2>4. Upto(n + 1, h)
    BY <2>2, <2>3
  <2>5. n + 1 \in 0 .. Len(order)
    BY <1>0
  <2> QED
    BY <2>4, <2>5, Zenon
<1> HIDE DEF S
<1>4. \A n \in 0 .. Len(order) : n \in S
  BY <1>0, <1>1, <1>2, InductionUpTo
<1>5. Len(order) \in S
  BY <1>0, <1>4
<1> QED
  BY <1>5, Zenon DEF S, Parted

LEMMA PartEachHolds ==
    ASSUME NEW w, HoldInv(w), NEW c \in Conns, w.session[c].on, NEW order \in Seq(Chans),
           NEW x, x = PartEach(w, c, order)
    PROVE  HoldInv(x) /\ KeepsEvents(w, x)
<1> DEFINE g == CHOOSE h : Parted(w, c, order, h)
           S == {n \in 0 .. Len(order) :
                    HoldInv(g[n]) /\ KeepsEvents(w, g[n]) /\ g[n].session[c].on}
<1>1. x = g[Len(order)]
  BY DEF PartEach, Parted
<1>2. Parted(w, c, order, g)
  BY PartedExists, Zenon
<1>3. Len(order) \in Nat
  OBVIOUS
<1> HIDE DEF g
<1>4. 0 \in S
  <2>1. 0 \in 0 .. Len(order)
    BY <1>3
  <2>2. g[0] = w
    BY <1>2, <2>1 DEF Parted
  <2>3. KeepsEvents(w, w)
    BY DEF KeepsEvents
  <2> QED
    BY <2>1, <2>2, <2>3
<1>5. ASSUME NEW n \in 0 .. (Len(order) - 1), n \in S
      PROVE  n + 1 \in S
  <2>1. n + 1 \in 0 .. Len(order) /\ n + 1 # 0 /\ (n + 1) - 1 = n /\ order[n + 1] \in Chans
    BY <1>3
  <2>2. g[n + 1] = PartCommand(g[n], c, order[n + 1])
    BY <1>2, <2>1 DEF Parted
  <2>3. HoldInv(g[n]) /\ KeepsEvents(w, g[n]) /\ g[n].session[c].on
    BY <1>5
  <2>4. HoldInv(g[n + 1]) /\ KeepsEvents(g[n], g[n + 1]) /\ g[n + 1].session[c].on
    BY <2>1, <2>2, <2>3, PartCommandHolds
  <2>5. KeepsEvents(w, g[n + 1])
    BY <2>3, <2>4, KeepsEventsChain
  <2> QED
    BY <2>1, <2>4, <2>5
<1> HIDE DEF S
<1>6. \A n \in 0 .. Len(order) : n \in S
  BY <1>3, <1>4, <1>5, InductionUpTo
<1>7. Len(order) \in S
  BY <1>3, <1>6
<1> QED
  BY <1>1, <1>7 DEF S

LEMMA KeepsPartOnJoin ==
    ASSUME NEW w, IsWorld(w), NEW c \in Conns, NEW e
    PROVE  Keeps(w, [w EXCEPT !.session[c].partOnJoin = e])
<1>0. IsRec(w) /\ IsSession(w.session[c]) /\ w.session = [d \in Conns |-> w.session[d]]
  BY DEF IsWorld
<1>y. PICK y : y = [w EXCEPT !.session[c].partOnJoin = e]
  OBVIOUS
<1>r. PICK r : r = [w.session[c] EXCEPT !.partOnJoin = e]
  OBVIOUS
<1>1. /\ IsSession(r) /\ r.held = w.session[c].held /\ r.on = w.session[c].on
      /\ r.channels = w.session[c].channels
      /\ r.pending = w.session[c].pending /\ r.deferred = w.session[c].deferred
  BY <1>0, <1>r, PartOnJoinSet
<1>2. SameCore(w, y)
  BY <1>0, <1>y DEF IsRec, WorldFields, SameCore
<1>3. y.session = [d \in Conns |-> IF d = c THEN r ELSE w.session[d]]
  BY <1>0, <1>y, <1>r DEF IsRec, WorldFields
<1>4. \A d \in Conns : SameWait(w, y, d)
  BY <1>1, <1>3 DEF SameWait
<1>5. \A d \in Conns : IsSession(y.session[d])
  BY <1>1, <1>3 DEF IsWorld
<1>6. y.session = [d \in Conns |-> y.session[d]]
  BY <1>3
<1> QED
  BY <1>y, <1>2, <1>4, <1>5, <1>6, SessionsChange

LEMMA JoinZeroHolds ==
    ASSUME HoldInv(Now), NEW c \in Conns, JoinZero(c)
    PROVE  HoldInv(Now') /\ KeepsEvents(Now, Now')
<1>w. IsWorld(Now) /\ LimitOK(Now, c) /\ Now.session = session /\ IsSession(Now.session[c])
  BY NowFields DEF HoldInv, IsWorld
<1>m. PICK marked : marked = [Now EXCEPT !.session[c].partOnJoin = session[c].pending]
  OBVIOUS
<1>1. PICK order \in Orders(session[c].channels) : Become(PartEach(marked, c, order))
  BY <1>m DEF JoinZero
<1>2. Keeps(Now, marked)
  BY <1>w, <1>m, KeepsPartOnJoin
<1>3. HoldInv(marked) /\ KeepsEvents(Now, marked) /\ marked.session[c].on
  <2>1. marked.session[c].on = session[c].on /\ session[c].on
    BY <1>w, <1>2 DEF Keeps, KeepsHold, SameWait, JoinZero, Command
  <2> QED
    BY <1>2, <2>1, HoldKept DEF Keeps
<1>4. order \in Seq(Chans)
  <2>1. session[c].channels \subseteq Chans /\ session[c].channels \subseteq Involved(Now, c)
    BY <1>w DEF IsSession, Involved
  <2>2. IsFiniteSet(session[c].channels)
    BY <1>w, <2>1, FS_Subset DEF LimitOK
  <2>n. PICK n : n = Cardinality(session[c].channels)
    OBVIOUS
  <2>3. n \in Nat
    BY <2>2, <2>n, FS_CardinalityType
  <2>4. order \in [1 .. n -> session[c].channels]
    BY <2>n DEF Orders
  <2>5. order \in [1 .. n -> Chans]
    BY <2>1, <2>4
  <2> QED
    BY <2>3, <2>5
<1>x. PICK x : x = PartEach(marked, c, order)
  OBVIOUS
<1>5. HoldInv(x) /\ KeepsEvents(marked, x)
  BY <1>3, <1>4, <1>x, PartEachHolds
<1>6. Now' = x
  BY <1>1, <1>5, <1>x, StepIs DEF HoldInv
<1> QED
  BY <1>3, <1>5, <1>6, KeepsEventsChain

-----------------------------------------------------------------------------
\* The events of another shard that are about no user event.

LEMMA HeadGood ==
    ASSUME IsWorld(Now), NEW s \in Shards, NEW t \in Shards, mail[s][t] # <<>>,
           NEW m, m = Msg(s, t)
    PROVE  GoodMsg(sequence, t, m) /\ IsWorld(Taken(s, t)) /\ Taken(s, t).session = session
BY TakenWorld

LEMMA ChannelJoinHolds ==
    ASSUME HoldInv(Now), NEW s \in Shards, NEW t \in Shards, ChannelJoin(s, t)
    PROVE  HoldInv(Now') /\ KeepsEvents(Now, Now')
<1>m. PICK m : m = Msg(s, t)
  OBVIOUS
<1>v. PICK v : v = Taken(s, t)
  OBVIOUS
<1>0. mail[s][t] # <<>> /\ m.kind = "ChannelJoin"
  BY <1>m DEF ChannelJoin, Next1, Msg
<1>1. PICK admit \in BOOLEAN :
        LET done == JoinOnOwner(v, m.conn, m.nick, m.chan, admit)
        IN  Become(Route(done.w, t, s,
                [kind |-> "ChannelJoinResult", conn |-> m.conn, chan |-> m.chan,
                 result |-> done.result, names |-> done.names]))
  BY <1>m, <1>v DEF ChannelJoin
<1>2. IsWorld(Now)
  BY DEF HoldInv
<1>3. IsWorld(v) /\ m.chan \in Chans
  BY <1>0, <1>2, <1>m, <1>v, HeadGood DEF GoodMsg, HoldKinds
<1>d. PICK done : done = JoinOnOwner(v, m.conn, m.nick, m.chan, admit)
  OBVIOUS
<1>4. Keeps(v, done.w)
  BY <1>3, <1>d, KeepsJoinOnOwner
<1>r. PICK r : r = [kind |-> "ChannelJoinResult", conn |-> m.conn, chan |-> m.chan,
                    result |-> done.result, names |-> done.names]
  OBVIOUS
<1>5. SameOwes(m, r)
  BY <1>0, <1>r DEF SameOwes, HoldKinds, JoinKinds
<1>6. Keeps(Now, Route(done.w, t, s, r))
  BY <1>0, <1>2, <1>4, <1>5, <1>m, <1>v, KeepsAnswer
<1> QED
  BY <1>1, <1>6, <1>d, <1>r, KeptStep

LEMMA ChannelPartHolds ==
    ASSUME HoldInv(Now), NEW s \in Shards, NEW t \in Shards, ChannelPart(s, t)
    PROVE  HoldInv(Now') /\ KeepsEvents(Now, Now')
<1>m. PICK m : m = Msg(s, t)
  OBVIOUS
<1>v. PICK v : v = Taken(s, t)
  OBVIOUS
<1>0. mail[s][t] # <<>> /\ m.kind = "ChannelPart"
  BY <1>m DEF ChannelPart, Next1, Msg
<1>d. PICK done : done = PartOnOwner(v, m.conn, m.nick, m.chan)
  OBVIOUS
<1>r. PICK r : r = [kind |-> "ChannelPartResult", conn |-> m.conn, nick |-> m.nick,
                    chan |-> m.chan, result |-> done.result]
  OBVIOUS
<1>1. Become(Route(done.w, t, s, r))
  BY <1>m, <1>v, <1>d, <1>r DEF ChannelPart
<1>2. IsWorld(Now)
  BY DEF HoldInv
<1>3. IsWorld(v) /\ m.chan \in Chans
  BY <1>0, <1>2, <1>m, <1>v, HeadGood DEF GoodMsg, HoldKinds
<1>4. Keeps(v, done.w)
  BY <1>3, <1>d, KeepsPartOnOwner
<1>5. SameOwes(m, r)
  BY <1>0, <1>r DEF SameOwes, HoldKinds, JoinKinds
<1>6. Keeps(Now, Route(done.w, t, s, r))
  BY <1>0, <1>2, <1>4, <1>5, <1>m, <1>v, KeepsAnswer
<1> QED
  BY <1>1, <1>6, KeptStep

LEMMA ChannelKickHolds ==
    ASSUME HoldInv(Now), NEW s \in Shards, NEW t \in Shards, ChannelKick(s, t)
    PROVE  HoldInv(Now') /\ KeepsEvents(Now, Now')
<1>m. PICK m : m = Msg(s, t)
  OBVIOUS
<1>v. PICK v : v = Taken(s, t)
  OBVIOUS
<1>0. mail[s][t] # <<>> /\ m.kind = "ChannelKick"
  BY <1>m DEF ChannelKick, Next1, Msg
<1>d. PICK done : done = KickOnOwner(v, m.conn, m.nick, m.chan)
  OBVIOUS
<1>r. PICK r : r = [kind |-> "ChannelKickResult", conn |-> m.conn, nick |-> m.nick,
                    chan |-> m.chan, result |-> done.result]
  OBVIOUS
<1>1. Become(Route(done.w, t, s, r))
  BY <1>m, <1>v, <1>d, <1>r DEF ChannelKick
<1>2. IsWorld(Now)
  BY DEF HoldInv
<1>3. IsWorld(v) /\ m.chan \in Chans
  BY <1>0, <1>2, <1>m, <1>v, HeadGood DEF GoodMsg, HoldKinds
<1>4. Keeps(v, done.w)
  BY <1>3, <1>d, KeepsKickOnOwner
<1>5. SameOwes(m, r)
  BY <1>0, <1>r DEF SameOwes, HoldKinds, JoinKinds
<1>6. Keeps(Now, Route(done.w, t, s, r))
  BY <1>0, <1>2, <1>4, <1>5, <1>m, <1>v, KeepsAnswer
<1> QED
  BY <1>1, <1>6, KeptStep

\* A session that is there waits for the answer that arrives.
LEMMA HeadAwaited ==
    ASSUME HoldInv(Now), NEW s \in Shards, NEW t \in Shards, mail[s][t] # <<>>,
           NEW m, m = Msg(s, t), m.kind \in HoldKinds, session[m.conn].on
    PROVE  /\ session[m.conn].deferred # 0
           /\ m.kind \in JoinKinds => CountOf(session[m.conn].pending, m.chan) # 0
<1>0. IsWorld(Now) /\ Now.session = session /\ Now.mail = mail
  BY NowFields DEF HoldInv
<1>1. m.conn \in Conns /\ m.chan \in Chans
  BY <1>0, HeadGood DEF GoodMsg
<1>2. SessionOK(Now, m.conn) /\ IsSession(Now.session[m.conn])
  BY <1>1 DEF HoldInv, IsWorld
<1>3. Owed(mail, HoldKey(m.conn), session[m.conn].deferred)
      /\ Owed(mail, JoinKey(m.conn, m.chan), CountOf(session[m.conn].pending, m.chan))
  BY <1>0, <1>1, <1>2 DEF SessionOK
<1>4. session[m.conn].deferred \in Nat /\ CountOf(session[m.conn].pending, m.chan) \in Nat
  BY <1>0, <1>2, Counted0 DEF IsSession
<1>5. \A k : \A n \in Nat : Owed(mail, k, n) /\ Owes(t, m, k) => n >= 1
  BY <1>0, TakenWorld
<1>6. Owes(t, m, HoldKey(m.conn))
      /\ (m.kind \in JoinKinds => Owes(t, m, JoinKey(m.conn, m.chan)))
  BY HoldOwes
<1> QED
  BY <1>3, <1>4, <1>5, <1>6

\* An answer other than to a JOIN is emitted.
LEMMA EmitHolds ==
    ASSUME HoldInv(Now), NEW s \in Shards, NEW t \in Shards, mail[s][t] # <<>>,
           NEW m, m = Msg(s, t), m.kind \in HoldKinds, m.kind \notin JoinKinds, NEW lines
    PROVE  LET y == EmitDeferred(Taken(s, t), m.conn, lines) IN
           HoldInv(y) /\ KeepsEvents(Now, y)
<1>c. PICK c : c = m.conn
  OBVIOUS
<1>v. PICK v : v = Taken(s, t)
  OBVIOUS
<1>y. PICK y : y = EmitDeferred(v, c, lines)
  OBVIOUS
<1>0. IsWorld(Now) /\ Now.session = session
  BY NowFields DEF HoldInv
<1>1. c \in Conns /\ IsWorld(v) /\ v.session = session
  BY <1>0, <1>c, <1>v, HeadGood DEF GoodMsg
<1>2. CASE session[c].on
  <2>1. session[c].deferred # 0
    BY <1>2, <1>c, HeadAwaited
  <2>2. /\ OnlySession(v, y, c)
        /\ y.session[c].channels = v.session[c].channels
        /\ y.session[c].pending = v.session[c].pending
        /\ y.session[c].deferred = v.session[c].deferred - 1
        /\ y.session[c].deferred = 0 => y.session[c].held = <<>>
    BY <1>1, <1>2, <1>y, <2>1, EmitDeferredIs
  <2>3. IsWorld(y) /\ SameCore(v, y) /\ y.session[c].on
        /\ \A d \in Conns : d # c => y.session[d] = session[d]
    BY <1>1, <1>2, <2>2 DEF OnlySession
  <2>4. LimitOK(y, c)
    <3>1. LimitOK(Now, c)
      BY <1>1 DEF HoldInv
    <3>2. Involved(y, c) = Involved(Now, c)
      BY <1>0, <1>1, <2>2 DEF Involved
    <3> QED
      BY <3>1, <3>2 DEF LimitOK
  <2>5. \A d \in Conns : d # c \/ ~session[d].on => y.session[d] = session[d]
    BY <1>2, <2>3
  <2>6. /\ y.session[c].on /\ y.session[c].deferred = session[c].deferred - 1
        /\ y.session[c].deferred = 0 => y.session[c].held = <<>>
        /\ LimitOK(y, c)
    BY <1>1, <2>2, <2>3, <2>4
  <2>7. \A ch \in Chans :
           /\ m.kind \in JoinKinds /\ m.chan = ch =>
                CountOf(y.session[c].pending, ch) = CountOf(session[c].pending, ch) - 1
           /\ ~(m.kind \in JoinKinds /\ m.chan = ch) =>
                CountOf(y.session[c].pending, ch) = CountOf(session[c].pending, ch)
    BY <1>1, <2>2
  <2>8. IsWorld(y) /\ SameCore(Taken(s, t), y)
    BY <1>v, <2>3
  <2>9. HoldInv(y) /\ KeepsEvents(Now, y)
    <3>1. session[c].on =>
           /\ y.session[c].on /\ y.session[c].deferred = session[c].deferred - 1
           /\ y.session[c].deferred = 0 => y.session[c].held = <<>>
           /\ LimitOK(y, c)
           /\ \A ch \in Chans :
               /\ m.kind \in JoinKinds /\ m.chan = ch =>
                    CountOf(y.session[c].pending, ch) = CountOf(session[c].pending, ch) - 1
               /\ ~(m.kind \in JoinKinds /\ m.chan = ch) =>
                    CountOf(y.session[c].pending, ch) = CountOf(session[c].pending, ch)
      BY <2>6, <2>7
    <3> QED
      BY <1>c, <2>5, <2>8, <3>1, AnswerHold
  <2> QED
    BY <1>c, <1>v, <1>y, <2>9
<1>3. CASE ~session[c].on
  <2>1. y = v
    BY <1>1, <1>3, <1>y DEF EmitDeferred
  <2>2. SameCore(v, v)
    BY <1>1 DEF IsWorld, SameCore
  <2>3. \A d \in Conns : d # c \/ ~session[d].on => v.session[d] = session[d]
    BY <1>1
  <2>4. IsWorld(v) /\ SameCore(Taken(s, t), v)
    BY <1>1, <1>v, <2>2
  <2>5. HoldInv(v) /\ KeepsEvents(Now, v)
    BY <1>3, <1>c, <2>3, <2>4, AnswerHold
  <2> QED
    BY <1>c, <1>v, <1>y, <2>1, <2>5
<1> QED
  BY <1>2, <1>3

LEMMA ChannelPartResultHolds ==
    ASSUME HoldInv(Now), NEW s \in Shards, NEW t \in Shards, ChannelPartResult(s, t)
    PROVE  HoldInv(Now') /\ KeepsEvents(Now, Now')
<1>m. PICK m : m = Msg(s, t)
  OBVIOUS
<1>0. mail[s][t] # <<>> /\ m.kind = "ChannelPartResult"
  BY <1>m DEF ChannelPartResult, Next1, Msg
<1>l. PICK lines : lines = PartLines(m.result, m.nick, m.chan)
  OBVIOUS
<1>y. PICK y : y = EmitDeferred(Taken(s, t), m.conn, lines)
  OBVIOUS
<1>1. Become(RecordPart(y, m.conn, m.chan, m.result))
  BY <1>m, <1>l, <1>y DEF ChannelPartResult
<1>2. m.kind \in HoldKinds /\ m.kind \notin JoinKinds
  BY <1>0 DEF HoldKinds, JoinKinds
<1>3. HoldInv(y) /\ KeepsEvents(Now, y)
  BY <1>0, <1>2, <1>m, <1>y, EmitHolds
<1>x. PICK x : x = RecordPart(y, m.conn, m.chan, m.result)
  OBVIOUS
<1>4. Keeps(y, x)
  BY <1>3, <1>x, KeepsRecordPart DEF HoldInv
<1>5. HoldInv(x) /\ KeepsEvents(y, x)
  BY <1>3, <1>4, HoldKept DEF Keeps
<1>6. Now' = x
  BY <1>1, <1>5, <1>x, StepIs DEF HoldInv
<1> QED
  BY <1>3, <1>5, <1>6, KeepsEventsChain

LEMMA ChannelKickResultHolds ==
    ASSUME HoldInv(Now), NEW s \in Shards, NEW t \in Shards, ChannelKickResult(s, t)
    PROVE  HoldInv(Now') /\ KeepsEvents(Now, Now')
<1>m. PICK m : m = Msg(s, t)
  OBVIOUS
<1>0. mail[s][t] # <<>> /\ m.kind = "ChannelKickResult"
  BY <1>m DEF ChannelKickResult, Next1, Msg
<1>l. PICK lines : lines = IF m.result = "kicked" THEN <<LeftLine(m.nick, m.chan)>> ELSE <<>>
  OBVIOUS
<1>y. PICK y : y = EmitDeferred(Taken(s, t), m.conn, lines)
  OBVIOUS
<1>1. Become(y)
  BY <1>m, <1>l, <1>y DEF ChannelKickResult
<1>2. m.kind \in HoldKinds /\ m.kind \notin JoinKinds
  BY <1>0 DEF HoldKinds, JoinKinds
<1>3. HoldInv(y) /\ KeepsEvents(Now, y)
  BY <1>0, <1>2, <1>m, <1>y, EmitHolds
<1>4. Now' = y
  BY <1>1, <1>3, StepIs DEF HoldInv
<1> QED
  BY <1>3, <1>4

LEMMA ChannelJoinResultHolds ==
    ASSUME HoldInv(Now), NEW s \in Shards, NEW t \in Shards, ChannelJoinResult(s, t)
    PROVE  HoldInv(Now') /\ KeepsEvents(Now, Now')
<1>m. PICK m : m = Msg(s, t)
  OBVIOUS
<1>c. PICK c : c = m.conn
  OBVIOUS
<1>v. PICK v : v = Taken(s, t)
  OBVIOUS
<1>0. mail[s][t] # <<>> /\ m.kind = "ChannelJoinResult"
  BY <1>m DEF ChannelJoinResult, Next1, Msg
<1>1. m.kind \in HoldKinds /\ m.kind \in JoinKinds
  BY <1>0 DEF HoldKinds, JoinKinds
<1>2. IsWorld(Now) /\ Now.session = session
  BY NowFields DEF HoldInv
<1>3. c \in Conns /\ m.chan \in Chans /\ IsWorld(v) /\ v.session = session
  BY <1>0, <1>1, <1>2, <1>m, <1>c, <1>v, HeadGood DEF GoodMsg
<1>4. CASE session[c].on
  <2>0. session[c].deferred # 0 /\ CountOf(session[c].pending, m.chan) # 0
        /\ IsCounts(session[c].pending)
    <3>1. session[c].deferred # 0 /\ CountOf(session[c].pending, m.chan) # 0
      BY <1>0, <1>1, <1>4, <1>m, <1>c, HeadAwaited
    <3>2. IsCounts(session[c].pending)
      BY <1>2, <1>3 DEF IsWorld, IsSession
    <3> QED
      BY <3>1, <3>2
  <2>e. PICK e : e = TakeOne(session[c].pending, m.chan)
    OBVIOUS
  <2>1. /\ IsCounts(e) /\ DOMAIN e \subseteq DOMAIN session[c].pending
        /\ CountOf(e, m.chan) = CountOf(session[c].pending, m.chan) - 1
        /\ \A d : d # m.chan => CountOf(e, d) = CountOf(session[c].pending, d)
    BY <1>3, <2>0, <2>e, TakeOneIs
  <2>f. PICK f : f = TakeOne(session[c].partOnJoin, m.chan)
    OBVIOUS
  <2>a. PICK answered : answered = [v EXCEPT !.session[c].pending = e,
                                             !.session[c].partOnJoin = f]
    OBVIOUS
  <2>2. /\ OnlySession(v, answered, c)
        /\ answered.session[c].channels = v.session[c].channels
        /\ answered.session[c].pending = e
        /\ answered.session[c].deferred = v.session[c].deferred
    <3>1. c \in Conns /\ IsWorld(v) /\ IsCounts(e)
      BY <1>3, <2>1
    <3>2. answered = Answer(v, c, e, f)
      BY <2>a DEF Answer
    <3> QED
      BY <3>1, <3>2, AnsweredIs
  <2>j. PICK joined : joined = RecordJoin(answered, c, m.chan, m.result)
    OBVIOUS
  <2>3. IsWorld(answered) /\ answered.session[c].on
    BY <1>3, <1>4, <2>2 DEF OnlySession
  <2>4. /\ OnlySession(answered, joined, c)
        /\ joined.session[c].channels \subseteq answered.session[c].channels \cup {m.chan}
        /\ joined.session[c].pending = answered.session[c].pending
        /\ joined.session[c].deferred = answered.session[c].deferred
    BY <1>3, <2>3, <2>j, RecordJoinIs
  <2>5. IsWorld(joined) /\ joined.session[c].on /\ joined.session[c].deferred # 0
    BY <1>3, <2>0, <2>2, <2>3, <2>4 DEF OnlySession
  <2>l. PICK lines : lines = JoinLines(m.result, m.chan, m.names)
    OBVIOUS
  <2>y. PICK said : said = EmitDeferred(joined, c, lines)
    OBVIOUS
  <2>6. /\ OnlySession(joined, said, c)
        /\ said.session[c].channels = joined.session[c].channels
        /\ said.session[c].pending = joined.session[c].pending
        /\ said.session[c].deferred = joined.session[c].deferred - 1
        /\ said.session[c].deferred = 0 => said.session[c].held = <<>>
    BY <1>3, <2>5, <2>y, EmitDeferredIs
  <2>7. OnlySession(v, said, c)
    BY <2>2, <2>4, <2>6, OnlySessionChain
  <2>8. IsWorld(said) /\ SameCore(Taken(s, t), said) /\ said.session[c].on
        /\ \A d \in Conns : d # c => said.session[d] = session[d]
    BY <1>3, <1>4, <1>v, <2>7 DEF OnlySession
  <2>9. LimitOK(said, c)
    <3>1. LimitOK(Now, c)
      BY <1>3 DEF HoldInv
    <3>2. m.chan \in DOMAIN session[c].pending
      BY <2>0 DEF CountOf
    <3>3. Involved(said, c) \subseteq Involved(Now, c)
      BY <1>2, <1>3, <2>1, <2>2, <2>4, <2>6, <3>2 DEF Involved
    <3> QED
      BY <3>1, <3>3, Within DEF LimitOK
  <2>10. HoldInv(said) /\ KeepsEvents(Now, said)
    <3>1. session[c].on =>
           /\ said.session[c].on /\ said.session[c].deferred = session[c].deferred - 1
           /\ said.session[c].deferred = 0 => said.session[c].held = <<>>
           /\ LimitOK(said, c)
           /\ \A ch \in Chans :
               /\ m.kind \in JoinKinds /\ m.chan = ch =>
                    CountOf(said.session[c].pending, ch) = CountOf(session[c].pending, ch) - 1
               /\ ~(m.kind \in JoinKinds /\ m.chan = ch) =>
                    CountOf(said.session[c].pending, ch) = CountOf(session[c].pending, ch)
      BY <1>1, <1>3, <2>1, <2>2, <2>4, <2>6, <2>8, <2>9
    <3>2. \A d \in Conns : d # c \/ ~session[d].on => said.session[d] = session[d]
      BY <1>4, <2>8
    <3>3. IsWorld(said) /\ SameCore(Taken(s, t), said)
      BY <2>8
    <3> QED
      BY <1>0, <1>1, <1>m, <1>c, <3>1, <3>2, <3>3, AnswerHold
  <2>p. PICK x : x = IF m.chan \in DOMAIN v.session[c].partOnJoin /\ m.result = "joined"
                     THEN PartCommand(said, c, m.chan) ELSE said
    OBVIOUS
  <2>11. HoldInv(x) /\ KeepsEvents(said, x)
    <3>1. HoldInv(PartCommand(said, c, m.chan)) /\ KeepsEvents(said, PartCommand(said, c, m.chan))
      BY <1>3, <2>8, <2>10, PartCommandHolds
    <3>2. KeepsEvents(said, said)
      BY DEF KeepsEvents
    <3> QED
      BY <2>10, <2>p, <3>1, <3>2
  <2>12. x = JoinAnswered(v, m)
    <3>1. answered = [v EXCEPT !.session[c].pending = TakeOne(@, m.chan),
                               !.session[c].partOnJoin = TakeOne(@, m.chan)]
      BY <1>3, <2>a, <2>e, <2>f DEF IsWorld, IsSession, SessionFields, IsRec, WorldFields
    <3> QED
      BY <1>c, <2>j, <2>l, <2>y, <2>p, <3>1 DEF JoinAnswered
  <2>13. Become(x)
    BY <1>4, <1>m, <1>c, <1>v, <2>12 DEF ChannelJoinResult
  <2>14. Now' = x
    BY <2>11, <2>13, StepIs DEF HoldInv
  <2> QED
    BY <2>10, <2>11, <2>14, KeepsEventsChain
<1>5. CASE ~session[c].on
  <2>1. \A d \in Conns : d # c \/ ~session[d].on => v.session[d] = session[d]
    BY <1>3
  <2>2. IsWorld(v) /\ SameCore(Taken(s, t), v)
    BY <1>3, <1>v DEF IsWorld, SameCore
  <2>3. HoldInv(v) /\ KeepsEvents(Now, v)
    BY <1>0, <1>1, <1>5, <1>m, <1>c, <2>1, <2>2, AnswerHold
  <2>r. PICK r : r = [kind |-> "ChannelMemberVanished", conn |-> m.conn, chan |-> m.chan]
    OBVIOUS
  <2>4. Bland(r)
    BY <2>r DEF Bland
  <2>5. Keeps(v, Route(v, t, s, r)) /\ Keeps(v, v)
    BY <1>3, <2>4, KeepsRoute, KeepsItself
  <2>x. PICK x : x = IF m.result # "joined" THEN v ELSE Route(v, t, s, r)
    OBVIOUS
  <2>6. Keeps(v, x)
    BY <2>5, <2>x
  <2>7. HoldInv(x) /\ KeepsEvents(v, x)
    BY <2>3, <2>6, HoldKept DEF Keeps
  <2>8. Become(x)
    BY <1>5, <1>m, <1>c, <1>v, <2>r, <2>x DEF ChannelJoinResult
  <2>9. Now' = x
    BY <2>7, <2>8, StepIs DEF HoldInv
  <2> QED
    BY <2>3, <2>7, <2>9, KeepsEventsChain
<1> QED
  BY <1>4, <1>5

LEMMA ChannelMemberVanishedHolds ==
    ASSUME HoldInv(Now), NEW s \in Shards, NEW t \in Shards, ChannelMemberVanished(s, t)
    PROVE  HoldInv(Now') /\ KeepsEvents(Now, Now')
<1>m. PICK m : m = Msg(s, t)
  OBVIOUS
<1>v. PICK v : v = Taken(s, t)
  OBVIOUS
<1>0. mail[s][t] # <<>> /\ Bland(m) /\ IsWorld(Now)
  BY <1>m DEF ChannelMemberVanished, Next1, Msg, Bland, HoldInv
<1>1. Keeps(Now, v) /\ IsWorld(v)
  BY <1>0, <1>m, <1>v, KeepsTaken, KeepsWorld
<1>o. PICK out : out = RemoveMember(v, m.chan, m.conn)
  OBVIOUS
<1>2. Keeps(v, out) /\ IsWorld(out)
  BY <1>1, <1>o, KeepsRemoveMember, KeepsWorld
<1>e. PICK e : e = out.memberships[m.conn] \ {m.chan}
  OBVIOUS
<1>g. PICK vanished : vanished = [out EXCEPT !.memberships[m.conn] = e]
  OBVIOUS
<1>3. Keeps(out, vanished) /\ IsWorld(vanished)
  BY <1>2, <1>g, KeepsMembers, KeepsWorld
<1>l. PICK line : line = LeftLine(v.members[m.chan][m.conn].nick, m.chan)
  OBVIOUS
<1>d. PICK done : done = Deliver(vanished, t, Members(out, m.chan), line)
  OBVIOUS
<1>4. Keeps(vanished, done)
  BY <1>3, <1>d, KeepsDeliver
<1>5. Keeps(Now, done)
  BY <1>1, <1>2, <1>3, <1>4, KeepsChain
<1>6. vanished = [out EXCEPT !.memberships[m.conn] = @ \ {m.chan}]
  BY <1>g, <1>e
<1>7. Become(IF m.conn \notin Members(v, m.chan) THEN v ELSE done)
  BY <1>m, <1>v, <1>o, <1>l, <1>d, <1>6 DEF ChannelMemberVanished
<1> QED
  BY <1>1, <1>5, <1>7, KeptStep

LEMMA SessionChannelRemovedHolds ==
    ASSUME HoldInv(Now), NEW s \in Shards, NEW t \in Shards, SessionChannelRemoved(s, t)
    PROVE  HoldInv(Now') /\ KeepsEvents(Now, Now')
<1>v. PICK v : v = Taken(s, t)
  OBVIOUS
<1>0. mail[s][t] # <<>> /\ Bland(Msg(s, t)) /\ IsWorld(Now)
  BY DEF SessionChannelRemoved, Next1, Msg, Bland, HoldInv
<1>1. Keeps(Now, v) /\ IsWorld(v)
  BY <1>0, <1>v, KeepsTaken, KeepsWorld
<1>x. PICK x : x = RecordPart(v, Msg(s, t).conn, Msg(s, t).chan, "parted")
  OBVIOUS
<1>2. Keeps(v, x)
  BY <1>1, <1>x, KeepsRecordPart
<1>3. Keeps(Now, x)
  BY <1>1, <1>2, KeepsChain
<1>4. Become(x)
  BY <1>v, <1>x DEF SessionChannelRemoved
<1> QED
  BY <1>3, <1>4, KeptStep

LEMMA DeliveryHolds ==
    ASSUME HoldInv(Now), NEW s \in Shards, NEW t \in Shards, Delivery(s, t)
    PROVE  HoldInv(Now') /\ KeepsEvents(Now, Now')
<1>v. PICK v : v = Taken(s, t)
  OBVIOUS
<1>0. mail[s][t] # <<>> /\ Bland(Msg(s, t)) /\ IsWorld(Now)
  BY DEF Delivery, Next1, Msg, Bland, HoldInv
<1>1. Keeps(Now, v) /\ IsWorld(v)
  BY <1>0, <1>v, KeepsTaken, KeepsWorld
<1>x. PICK x : x = SendAll(v, Msg(s, t).conns, Msg(s, t).line)
  OBVIOUS
<1>2. Keeps(v, x)
  BY <1>1, <1>x, KeepsSendAll
<1>3. Keeps(Now, x)
  BY <1>1, <1>2, KeepsChain
<1>4. Become(x)
  BY <1>v, <1>x DEF Delivery
<1> QED
  BY <1>3, <1>4, KeptStep

-----------------------------------------------------------------------------
\* User events.

\* All events are in order but id, which has p reporters: of it shard s is owed
\* d[s] parts more than are in the mail.
Others(w, id) == \A i : Issued(w, i) /\ i # id => \E p \in Nat : EventOK(w, i, p)
Debt(w, id, p, d) ==
    /\ PartsAre(w.mail, id, p)
    /\ \A s \in Shards : \E n \in Nat :
           Owed(w.mail, PartKey(id, s), n) /\ ShardOK(w, id, p, s, n + d[s])
Owing(w, id, p, d) ==
    /\ Issued(w, id) /\ p \in Nat /\ d \in [Shards -> Nat]
    /\ Debt(w, id, p, d) /\ Others(w, id) /\ Recorded(w)

LEMMA OwingNothing ==
    ASSUME NEW w, NEW id, NEW p, NEW d, Owing(w, id, p, d), \A s \in Shards : d[s] = 0
    PROVE  EventInv(w)
<1>1. \A s \in Shards : \E n \in Nat :
           Owed(w.mail, PartKey(id, s), n) /\ ShardOK(w, id, p, s, n)
  <2> SUFFICES ASSUME NEW s \in Shards
               PROVE  \E n \in Nat : Owed(w.mail, PartKey(id, s), n) /\ ShardOK(w, id, p, s, n)
    OBVIOUS
  <2>1. PICK n \in Nat : Owed(w.mail, PartKey(id, s), n) /\ ShardOK(w, id, p, s, n + d[s])
    BY DEF Owing, Debt
  <2>2. n + d[s] = n
    OBVIOUS
  <2> QED
    BY <2>1, <2>2
<1>2. EventOK(w, id, p)
  BY <1>1 DEF Owing, Debt, EventOK
<1>3. \A i : Issued(w, i) => \E q \in Nat : EventOK(w, i, q)
  BY <1>2 DEF Owing, Others
<1> QED
  BY <1>3 DEF EventInv, Owing

\* With one reporter, a shard may be owed less.
LEMMA OwingLess ==
    ASSUME NEW w, NEW id, NEW d, Owing(w, id, 1, d), NEW e \in [Shards -> Nat],
           \A s \in Shards : e[s] <= d[s]
    PROVE  Owing(w, id, 1, e)
<1>1. ASSUME NEW s \in Shards
      PROVE  \E n \in Nat : Owed(w.mail, PartKey(id, s), n) /\ ShardOK(w, id, 1, s, n + e[s])
  <2>1. PICK n \in Nat : Owed(w.mail, PartKey(id, s), n) /\ ShardOK(w, id, 1, s, n + d[s])
    BY DEF Owing, Debt
  <2>2. d[s] \in Nat /\ e[s] \in Nat /\ e[s] <= d[s]
    BY DEF Owing
  <2>3. n + d[s] <= 1 /\ id \notin DOMAIN w.events[s]
        /\ \A c : <<id, c>> \in DOMAIN w.tellings /\ Home[c] = s => n + d[s] = 0
    BY <2>1 DEF ShardOK
  <2>4. n + e[s] <= 1 /\ (n + d[s] = 0 => n + e[s] = 0)
    BY <2>2, <2>3
  <2>5. ShardOK(w, id, 1, s, n + e[s])
    BY <2>3, <2>4 DEF ShardOK
  <2> QED
    BY <2>1, <2>5
<1> QED
  BY <1>1 DEF Owing, Debt

LEMMA OwingKept ==
    ASSUME NEW w, NEW x, KeepsEvents(w, x), NEW id, NEW p, NEW d, Owing(w, id, p, d)
    PROVE  Owing(x, id, p, d)
<1>1. \A i : Issued(x, i) <=> Issued(w, i)
  BY DEF KeepsEvents, Issued
<1>2. \A i, q, s, n : ShardOK(w, i, q, s, n) => ShardOK(x, i, q, s, n)
  BY DEF KeepsEvents, ShardOK
<1>3. \A i, s : \A n \in Nat : Owed(w.mail, PartKey(i, s), n) => Owed(x.mail, PartKey(i, s), n)
  BY Keys DEF KeepsEvents
<1>4. \A i, q : PartsAre(w.mail, i, q) => PartsAre(x.mail, i, q)
  BY DEF KeepsEvents
<1>5. \A i, q : EventOK(w, i, q) => EventOK(x, i, q)
  BY <1>2, <1>3, <1>4 DEF EventOK
<1>6. Debt(x, id, p, d)
  BY <1>2, <1>3, <1>4 DEF Owing, Debt
<1>7. Others(x, id)
  BY <1>1, <1>5 DEF Owing, Others
<1>8. Recorded(x)
  BY <1>1 DEF Owing, Recorded, KeepsEvents
<1> QED
  BY <1>1, <1>6, <1>7, <1>8 DEF Owing

\* A report of an event, or a part of one, is taken.
LEMMA TakeEvent ==
    ASSUME EventInv(Now), IsWorld(Now), NEW s \in Shards, NEW t \in Shards, mail[s][t] # <<>>,
           NEW m, m = Msg(s, t), m.kind \in EventKinds,
           NEW d \in [Shards -> Nat],
           \A a \in Shards : d[a] = IF m.kind \in ReportKinds \/ a = t THEN 1 ELSE 0
    PROVE  Owing(Taken(s, t), m.event.id, m.event.parts, d)
<1>x. PICK x : x = Taken(s, t)
  OBVIOUS
<1>0. Now.mail = mail /\ Now.events = events /\ Now.tellings = tellings /\ Now.sequence = sequence
  BY NowFields
<1>1. /\ x.events = events /\ x.sequence = sequence /\ x.tellings = tellings
      /\ GoodMsg(sequence, t, m)
      /\ \A k : \A n \in Nat : Owed(mail, k, n) =>
             /\ Owes(t, m, k) => n >= 1 /\ Owed(x.mail, k, n - 1)
             /\ ~Owes(t, m, k) => Owed(x.mail, k, n)
      /\ \A i, p : PartsAre(mail, i, p) =>
             /\ PartsAre(x.mail, i, p)
             /\ m.kind \in EventKinds /\ m.event.id = i => m.event.parts = p
  BY <1>x, TakenWorld
<1>i. PICK id : id = m.event.id
  OBVIOUS
<1>2. Issued(Now, id) /\ m.event.parts \in Nat
  BY <1>0, <1>1, <1>i DEF GoodMsg, Issued
<1>3. PICK p \in Nat : EventOK(Now, id, p)
  BY <1>2 DEF EventInv
<1>4. m.event.parts = p /\ PartsAre(x.mail, id, p)
  BY <1>0, <1>1, <1>3, <1>i DEF EventOK
<1>5. \A i, a : Owes(t, m, PartKey(i, a)) <=> i = id /\ (m.kind \in ReportKinds \/ a = t)
  <2>1. m.kind \in ReportKinds \/ m.kind = "UserEventPart"
    BY DEF EventKinds, ReportKinds
  <2> QED
    BY <1>i, <2>1, OwesIs
<1>6. \A i : Issued(x, i) <=> Issued(Now, i)
  BY <1>0, <1>1 DEF Issued
<1>7. \A i, q, a, n : ShardOK(Now, i, q, a, n) => ShardOK(x, i, q, a, n)
  BY <1>0, <1>1 DEF ShardOK
<1>8. ASSUME NEW a \in Shards
      PROVE  \E n \in Nat : Owed(x.mail, PartKey(id, a), n) /\ ShardOK(x, id, p, a, n + d[a])
  <2>1. PICK n \in Nat : Owed(mail, PartKey(id, a), n) /\ ShardOK(Now, id, p, a, n)
    BY <1>0, <1>3 DEF EventOK
  <2>2. CASE m.kind \in ReportKinds \/ a = t
    <3>1. n >= 1 /\ Owed(x.mail, PartKey(id, a), n - 1) /\ d[a] = 1
      BY <1>1, <1>5, <2>1, <2>2
    <3>2. n - 1 \in Nat /\ (n - 1) + d[a] = n
      BY <3>1
    <3> QED
      BY <1>7, <2>1, <3>1, <3>2
  <2>3. CASE ~(m.kind \in ReportKinds \/ a = t)
    <3>1. Owed(x.mail, PartKey(id, a), n) /\ n + d[a] = n
      BY <1>1, <1>5, <2>1, <2>3
    <3> QED
      BY <1>7, <2>1, <3>1
  <2> QED
    BY <2>2, <2>3
<1>9. Others(x, id)
  <2> SUFFICES ASSUME NEW i, Issued(x, i), i # id
               PROVE  \E q \in Nat : EventOK(x, i, q)
    BY DEF Others
  <2>1. PICK q \in Nat : EventOK(Now, i, q)
    BY <1>6 DEF EventInv
  <2>2. PartsAre(x.mail, i, q)
    BY <1>0, <1>1, <2>1 DEF EventOK
  <2>3. ASSUME NEW a \in Shards
        PROVE  \E n \in Nat : Owed(x.mail, PartKey(i, a), n) /\ ShardOK(x, i, q, a, n)
    <3>1. PICK n \in Nat : Owed(mail, PartKey(i, a), n) /\ ShardOK(Now, i, q, a, n)
      BY <1>0, <2>1 DEF EventOK
    <3>2. Owed(x.mail, PartKey(i, a), n)
      BY <1>1, <1>5, <3>1
    <3> QED
      BY <1>7, <3>1, <3>2
  <2> QED
    BY <2>2, <2>3 DEF EventOK
<1>10. Recorded(x)
  BY <1>0, <1>1, <1>6 DEF EventInv, Recorded
<1>11. Debt(x, id, p, d)
  BY <1>4, <1>8 DEF Debt
<1> QED
  BY <1>x, <1>i, <1>2, <1>4, <1>6, <1>9, <1>10, <1>11 DEF Owing

\* Taking it leaves everyone's wait alone.
LEMMA EventOwes ==
    ASSUME NEW m, m.kind \in EventKinds, NEW t, NEW k, k.of # "part"
    PROVE  ~Owes(t, m, k)
BY DEF Owes, EventKinds, HoldKinds, JoinKinds

LEMMA TakeEventHolds ==
    ASSUME IsWorld(Now), NEW s \in Shards, NEW t \in Shards, mail[s][t] # <<>>,
           NEW m, m = Msg(s, t), m.kind \in EventKinds
    PROVE  KeepsHold(Now, Taken(s, t))
<1>x. PICK x : x = Taken(s, t)
  OBVIOUS
<1>1. /\ IsWorld(x) /\ x.session = session
      /\ \A k : \A n \in Nat : Owed(mail, k, n) /\ ~Owes(t, m, k) => Owed(x.mail, k, n)
  BY <1>x, TakenWorld
<1>2. \A k : k.of # "part" => ~Owes(t, m, k)
  BY EventOwes
<1> QED
  BY <1>x, <1>1, <1>2, NowFields DEF KeepsHold, SameWait

\* Messages of one event are sent: each shard is owed as many parts less as it is
\* sent more.
LEMMA RouteOwing ==
    ASSUME NEW w, IsWorld(w), NEW id, NEW p, NEW d, Owing(w, id, p, d),
           NEW s \in Shards, NEW msgs,
           \A b \in Shards \cap DOMAIN msgs :
               /\ GoodMsg(w.sequence, b, msgs[b]) /\ msgs[b].kind \in EventKinds
               /\ msgs[b].event.id = id /\ msgs[b].event.parts = p,
           NEW e \in [Shards -> Nat],
           \A a \in Shards : \E j \in Nat :
               /\ d[a] = e[a] + j
               /\ \A n \in Nat : Owed(w.mail, PartKey(id, a), n) =>
                      Owed(MailMore(w.mail, s, msgs), PartKey(id, a), n + j)
    PROVE  LET x == RouteEach(w, s, msgs) IN
           KeepsHold(w, x) /\ x.sequence = w.sequence /\ Owing(x, id, p, e)
<1>x. PICK x : x = RouteEach(w, s, msgs)
  OBVIOUS
<1>y. PICK y : y = MailMore(w.mail, s, msgs)
  OBVIOUS
<1>0. IsMail(w.mail)
  BY DEF IsWorld
<1>1. /\ IsWorld(x) /\ x.session = w.session
      /\ x.events = w.events /\ x.sequence = w.sequence /\ x.tellings = w.tellings /\ x.mail = y
  <2>1. \A b \in Shards \cap DOMAIN msgs : GoodMsg(w.sequence, b, msgs[b])
    OBVIOUS
  <2> QED
    BY <1>x, <1>y, <2>1, RouteWorld
<1>2. \A k : k.of # "part" => Spots(y, k) = Spots(w.mail, k)
  <2> SUFFICES ASSUME NEW k, k.of # "part"
               PROVE  Spots(y, k) = Spots(w.mail, k)
    OBVIOUS
  <2>1. \A b \in Shards \cap DOMAIN msgs : ~Owes(b, msgs[b], k)
    BY EventOwes
  <2> QED
    BY <1>0, <1>y, <2>1, SentNothing
<1>3. KeepsHold(w, x)
  BY <1>1, <1>2 DEF KeepsHold, SameWait, Owed
<1>4. ASSUME NEW i, i # id, NEW a
      PROVE  Spots(y, PartKey(i, a)) = Spots(w.mail, PartKey(i, a))
  <2>1. \A b \in Shards \cap DOMAIN msgs : ~Owes(b, msgs[b], PartKey(i, a))
    <3> SUFFICES ASSUME NEW b \in Shards \cap DOMAIN msgs
                 PROVE  ~Owes(b, msgs[b], PartKey(i, a))
      OBVIOUS
    <3>1. msgs[b].event.id # i
      BY <1>4
    <3> QED
      BY <3>1, OwesIs
  <2> QED
    BY <1>0, <1>y, <2>1, SentNothing
<1>5. \A i, q : PartsAre(w.mail, i, q) /\ (i = id => q = p) => PartsAre(y, i, q)
  BY <1>0, <1>y, RouteParts
<1>6. \A i : Issued(x, i) <=> Issued(w, i)
  BY <1>1 DEF Issued
<1>7. \A i, q, a, n : ShardOK(w, i, q, a, n) => ShardOK(x, i, q, a, n)
  BY <1>1 DEF ShardOK
<1>8. Debt(x, id, p, e)
  <2>1. PartsAre(x.mail, id, p)
    BY <1>1, <1>5 DEF Owing, Debt
  <2>2. ASSUME NEW a \in Shards
        PROVE  \E n \in Nat : Owed(x.mail, PartKey(id, a), n) /\ ShardOK(x, id, p, a, n + e[a])
    <3>1. PICK n \in Nat : Owed(w.mail, PartKey(id, a), n) /\ ShardOK(w, id, p, a, n + d[a])
      BY DEF Owing, Debt
    <3>2. PICK j \in Nat : /\ d[a] = e[a] + j
                           /\ Owed(y, PartKey(id, a), n + j)
      BY <1>y, <3>1
    <3>3. n + d[a] = (n + j) + e[a] /\ n + j \in Nat
      BY <3>2
    <3> QED
      BY <1>1, <1>7, <3>1, <3>2, <3>3
  <2> QED
    BY <2>1, <2>2 DEF Debt
<1>9. Others(x, id)
  <2> SUFFICES ASSUME NEW i, Issued(x, i), i # id
               PROVE  \E q \in Nat : EventOK(x, i, q)
    BY DEF Others
  <2>1. PICK q \in Nat : EventOK(w, i, q)
    BY <1>6 DEF Owing, Others
  <2>2. PartsAre(x.mail, i, q)
    BY <1>1, <1>5, <2>1 DEF EventOK
  <2>3. \A a \in Shards : \E n \in Nat :
            Owed(x.mail, PartKey(i, a), n) /\ ShardOK(x, i, q, a, n)
    BY <1>1, <1>4, <1>7, <2>1 DEF EventOK, Owed
  <2> QED
    BY <2>2, <2>3 DEF EventOK
<1>10. Recorded(x)
  BY <1>1, <1>6 DEF Owing, Recorded
<1> QED
  BY <1>x, <1>1, <1>3, <1>6, <1>8, <1>9, <1>10 DEF Owing

\* Reports are sent to the shards of T: each will send everyone a part.
LEMMA ReportsSent ==
    ASSUME NEW w, IsWorld(w), NEW id, NEW p, NEW d, Owing(w, id, p, d),
           NEW s \in Shards, NEW msgs, DOMAIN msgs \subseteq Shards, IsFiniteSet(DOMAIN msgs),
           \A b \in DOMAIN msgs :
               /\ msgs[b].kind \in ReportKinds
               /\ msgs[b].event.id = id /\ msgs[b].event.parts = p,
           NEW e \in [Shards -> Nat],
           \A a \in Shards : d[a] = e[a] + Cardinality(DOMAIN msgs)
    PROVE  LET x == RouteEach(w, s, msgs) IN
           KeepsHold(w, x) /\ x.sequence = w.sequence /\ Owing(x, id, p, e)
<1>0. IsMail(w.mail) /\ Issued(w, id) /\ p \in Nat
  BY DEF IsWorld, Owing
<1>1. \A b \in Shards \cap DOMAIN msgs :
               /\ GoodMsg(w.sequence, b, msgs[b]) /\ msgs[b].kind \in EventKinds
               /\ msgs[b].event.id = id /\ msgs[b].event.parts = p
  <2> SUFFICES ASSUME NEW b \in Shards \cap DOMAIN msgs
               PROVE  GoodMsg(w.sequence, b, msgs[b]) /\ msgs[b].kind \in EventKinds
    OBVIOUS
  <2>1. msgs[b].kind \in ReportKinds /\ msgs[b].event.id = id /\ msgs[b].event.parts = p
    OBVIOUS
  <2>2. msgs[b].kind \in EventKinds /\ msgs[b].kind \notin HoldKinds
        /\ msgs[b].kind # "UserEventPart"
    BY <2>1 DEF ReportKinds, EventKinds, HoldKinds
  <2> QED
    BY <1>0, <2>1, <2>2 DEF GoodMsg, Issued
<1>2. ASSUME NEW a \in Shards
      PROVE  \E j \in Nat :
               /\ d[a] = e[a] + j
               /\ \A n \in Nat : Owed(w.mail, PartKey(id, a), n) =>
                      Owed(MailMore(w.mail, s, msgs), PartKey(id, a), n + j)
  <2>1. DOMAIN msgs = {b \in Shards \cap DOMAIN msgs : Owes(b, msgs[b], PartKey(id, a))}
    <3>1. \A b \in DOMAIN msgs : Owes(b, msgs[b], PartKey(id, a))
      BY OwesIs
    <3> QED
      BY <3>1
  <2>2. Cardinality(DOMAIN msgs) \in Nat
    BY FS_CardinalityType
  <2>3. \A n \in Nat : Owed(w.mail, PartKey(id, a), n) =>
           Owed(MailMore(w.mail, s, msgs), PartKey(id, a), n + Cardinality(DOMAIN msgs))
    BY <1>0, <2>1, SentMany
  <2> QED
    BY <1>2, <2>2, <2>3
<1> QED
  BY <1>1, <1>2, RouteOwing

\* Parts are sent to the shards of T, which are owed one.
LEMMA PartsSent ==
    ASSUME NEW w, IsWorld(w), NEW id, NEW p, NEW d, Owing(w, id, p, d),
           NEW s \in Shards, NEW msgs, DOMAIN msgs \subseteq Shards,
           \A b \in DOMAIN msgs :
               /\ msgs[b].kind = "UserEventPart"
               /\ msgs[b].event.id = id /\ msgs[b].event.parts = p
               /\ \A c \in msgs[b].recipients : Home[c] = b,
           NEW e \in [Shards -> Nat],
           \A a \in Shards : d[a] = IF a \in DOMAIN msgs THEN e[a] + 1 ELSE e[a]
    PROVE  LET x == RouteEach(w, s, msgs) IN
           KeepsHold(w, x) /\ x.sequence = w.sequence /\ Owing(x, id, p, e)
<1>0. IsMail(w.mail) /\ Issued(w, id) /\ p \in Nat
  BY DEF IsWorld, Owing
<1>1. \A b \in Shards \cap DOMAIN msgs :
               /\ GoodMsg(w.sequence, b, msgs[b]) /\ msgs[b].kind \in EventKinds
               /\ msgs[b].event.id = id /\ msgs[b].event.parts = p
  <2> SUFFICES ASSUME NEW b \in Shards \cap DOMAIN msgs
               PROVE  GoodMsg(w.sequence, b, msgs[b]) /\ msgs[b].kind \in EventKinds
    OBVIOUS
  <2>1. /\ msgs[b].kind = "UserEventPart" /\ msgs[b].event.id = id /\ msgs[b].event.parts = p
        /\ \A c \in msgs[b].recipients : Home[c] = b
    OBVIOUS
  <2>2. msgs[b].kind \in EventKinds /\ msgs[b].kind \notin HoldKinds
    BY <2>1 DEF EventKinds, HoldKinds
  <2> QED
    BY <1>0, <2>1, <2>2 DEF GoodMsg, Issued
<1>2. ASSUME NEW a \in Shards
      PROVE  \E j \in Nat :
               /\ d[a] = e[a] + j
               /\ \A n \in Nat : Owed(w.mail, PartKey(id, a), n) =>
                      Owed(MailMore(w.mail, s, msgs), PartKey(id, a), n + j)
  <2>1. \A b \in Shards \cap DOMAIN msgs : Owes(b, msgs[b], PartKey(id, a)) <=> b = a
    <3> SUFFICES ASSUME NEW b \in Shards \cap DOMAIN msgs
                 PROVE  Owes(b, msgs[b], PartKey(id, a)) <=> b = a
      OBVIOUS
    <3>1. msgs[b].kind = "UserEventPart" /\ msgs[b].event.id = id /\ msgs[b].kind \notin ReportKinds
      BY DEF ReportKinds
    <3> QED
      BY <3>1, OwesIs
  <2>2. CASE a \in DOMAIN msgs
    <3>1. \A n \in Nat : Owed(w.mail, PartKey(id, a), n) =>
             Owed(MailMore(w.mail, s, msgs), PartKey(id, a), n + 1)
      BY <1>0, <2>1, <2>2, SentOne
    <3> QED
      BY <1>2, <2>2, <3>1
  <2>3. CASE a \notin DOMAIN msgs
    <3>1. Spots(MailMore(w.mail, s, msgs), PartKey(id, a)) = Spots(w.mail, PartKey(id, a))
      BY <1>0, <2>1, <2>3, SentNothing
    <3>2. \A n \in Nat : Owed(w.mail, PartKey(id, a), n) =>
             Owed(MailMore(w.mail, s, msgs), PartKey(id, a), n + 0)
      BY <3>1 DEF Owed
    <3>3. d[a] = e[a] + 0
      BY <1>2, <2>3
    <3> QED
      BY <3>2, <3>3
  <2> QED
    BY <2>2, <2>3
<1> QED
  BY <1>1, <1>2, RouteOwing

\* A new event: nobody has heard of it, every shard is owed all its parts.
LEMMA CountedOwing ==
    ASSUME NEW w, IsWorld(w), EventInv(w), NEW h \in Shards, NEW p \in Nat,
           NEW k, k = w.sequence[h] + 1, NEW d, d = [a \in Shards |-> p],
           NEW id, id = <<h, k>>
    PROVE  LET x == [w EXCEPT !.sequence[h] = k] IN
           KeepsHold(w, x) /\ x.sequence[h] = k /\ Owing(x, id, p, d)
<1>x. PICK x : x = [w EXCEPT !.sequence[h] = k]
  OBVIOUS
<1>0. IsRec(w) /\ w.sequence \in [Shards -> Nat]
  BY DEF IsWorld
<1>1. /\ IsRec(x) /\ x.events = w.events /\ x.mail = w.mail /\ x.tellings = w.tellings
      /\ x.session = w.session /\ x.members = w.members
      /\ x.sequence = [w.sequence EXCEPT ![h] = k]
  BY <1>0, <1>x, SetCounted
<1>2. /\ x.sequence \in [Shards -> Nat] /\ x.sequence[h] = k /\ k \in Nat /\ k >= 1
      /\ \A a \in Shards : w.sequence[a] \in Nat /\ x.sequence[a] \in Nat
                           /\ w.sequence[a] <= x.sequence[a]
      /\ \A a \in Shards : a # h => x.sequence[a] = w.sequence[a]
  BY <1>0, <1>1
<1>3. \A a \in Shards : 1 .. w.sequence[a] \subseteq 1 .. x.sequence[a]
  BY <1>2
<1>4. \A b, m : GoodMsg(w.sequence, b, m) => GoodMsg(x.sequence, b, m)
  <2> SUFFICES ASSUME NEW b, NEW m, GoodMsg(w.sequence, b, m)
               PROVE  GoodMsg(x.sequence, b, m)
    OBVIOUS
  <2>1. (\E a \in Shards : \E n \in 1 .. w.sequence[a] : m.event.id = <<a, n>>)
        => (\E a \in Shards : \E n \in 1 .. x.sequence[a] : m.event.id = <<a, n>>)
    BY <1>3
  <2> QED
    BY <2>1 DEF GoodMsg
<1>5. GoodMail(x.sequence, x.mail)
  <2>1. GoodMail(w.sequence, w.mail)
    BY DEF IsWorld
  <2> QED
    BY <1>1, <1>4, <2>1 DEF GoodMail
<1>6. IsWorld(x)
  BY <1>1, <1>2, <1>5 DEF IsWorld
<1>7. KeepsHold(w, x)
  BY <1>1, <1>6 DEF KeepsHold, SameWait
<1>8. ~Issued(w, id)
  <2> SUFFICES ASSUME NEW a \in Shards, NEW n \in 1 .. w.sequence[a], id = <<a, n>>
               PROVE  FALSE
    BY DEF Issued
  <2>1. a = h /\ n = k
    OBVIOUS
  <2>2. n <= w.sequence[h] /\ n = w.sequence[h] + 1
    BY <1>2, <2>1
  <2> QED
    BY <1>2, <2>2
<1>9. \A i : Issued(w, i) => Issued(x, i)
  BY <1>3 DEF Issued
<1>10. Issued(x, id)
  <2>1. k \in 1 .. x.sequence[h]
    BY <1>2
  <2> QED
    BY <2>1 DEF Issued
<1>11. \A i : Issued(x, i) /\ i # id => Issued(w, i)
  <2> SUFFICES ASSUME NEW i, i # id, NEW a \in Shards, NEW n \in 1 .. x.sequence[a], i = <<a, n>>
               PROVE  Issued(w, i)
    BY DEF Issued
  <2>1. n \in 1 .. w.sequence[a]
    <3>1. CASE a = h
      <4>1. n # k /\ n \in 1 .. k
        BY <1>2, <3>1
      <4>2. w.sequence[h] \in Nat /\ k = w.sequence[h] + 1
        BY <1>2
      <4> QED
        BY <3>1, <4>1, <4>2
    <3>2. CASE a # h
      BY <1>2, <3>2
    <3> QED
      BY <3>1, <3>2
  <2> QED
    BY <2>1 DEF Issued
<1>12. \A s, t \in Shards : \A i \in DOMAIN w.mail[s][t] :
           w.mail[s][t][i].kind \in EventKinds => w.mail[s][t][i].event.id # id
  <2> SUFFICES ASSUME NEW s \in Shards, NEW t \in Shards, NEW i \in DOMAIN w.mail[s][t],
                      w.mail[s][t][i].kind \in EventKinds
               PROVE  w.mail[s][t][i].event.id # id
    OBVIOUS
  <2>1. GoodMsg(w.sequence, t, w.mail[s][t][i])
    BY DEF IsWorld, GoodMail
  <2>2. Issued(w, w.mail[s][t][i].event.id)
    BY <2>1 DEF GoodMsg, Issued
  <2> QED
    BY <1>8, <2>2
<1>13. \A a : Owed(x.mail, PartKey(id, a), 0)
  <2> SUFFICES ASSUME NEW a
               PROVE  Owed(w.mail, PartKey(id, a), 0)
    BY <1>1
  <2>1. ASSUME NEW q \in Spots(w.mail, PartKey(id, a))
        PROVE  FALSE
    <3>1. PICK s, t \in Shards, i \in Nat : q = <<s, t, i>>
      BY SpotIs
    <3>2. i \in DOMAIN w.mail[s][t] /\ Owes(t, w.mail[s][t][i], PartKey(id, a))
      BY <3>1, SpotIs
    <3>m. PICK m : m = w.mail[s][t][i]
      OBVIOUS
    <3>4. m.event.id = id /\ (m.kind = "UserEventPart" \/ m.kind \in ReportKinds)
      BY <3>2, <3>m, OwesIs
    <3>3. w.mail[s][t][i].event.id = id /\ w.mail[s][t][i].kind \in EventKinds
      BY <3>m, <3>4 DEF EventKinds, ReportKinds
    <3> QED
      BY <1>12, <3>2, <3>3
  <2>2. Spots(w.mail, PartKey(id, a)) = {}
    BY <2>1
  <2> QED
    BY <2>2, FS_EmptySet DEF Owed
<1>14. ASSUME NEW a \in Shards
       PROVE  ShardOK(x, id, p, a, 0 + d[a])
  <2>1. id \notin DOMAIN x.events[a]
    BY <1>1, <1>8 DEF EventInv, Recorded
  <2>2. \A c : <<id, c>> \notin DOMAIN x.tellings
    <3> SUFFICES ASSUME NEW c, <<id, c>> \in DOMAIN w.tellings
                 PROVE  FALSE
      BY <1>1
    <3>1. Issued(w, <<id, c>>[1])
      BY DEF EventInv, Recorded
    <3> QED
      BY <1>8, <3>1
  <2>3. 0 + d[a] = p
    OBVIOUS
  <2>4. ShardOK(x, id, p, a, p)
    <3>1. p = 1 => id \notin DOMAIN x.events[a] /\ p <= 1
      BY <2>1
    <3>2. p \in {0, p}
      OBVIOUS
    <3> QED
      BY <2>1, <2>2, <3>1, <3>2 DEF ShardOK
  <2> QED
    BY <2>3, <2>4
<1>15. Debt(x, id, p, d)
  <2>1. PartsAre(x.mail, id, p)
    <3>1. \A s, t \in Shards : \A i \in DOMAIN x.mail[s][t] :
             x.mail[s][t][i].kind \in EventKinds => x.mail[s][t][i].event.id # id
      BY <1>1, <1>12
    <3> QED
      BY <3>1 DEF PartsAre
  <2>2. \A s \in Shards : \E n \in Nat :
           Owed(x.mail, PartKey(id, s), n) /\ ShardOK(x, id, p, s, n + d[s])
    BY <1>13, <1>14
  <2> QED
    BY <2>1, <2>2 DEF Debt
<1>16. Others(x, id)
  <2>1. \A i, q : EventOK(w, i, q) => EventOK(x, i, q)
    BY <1>1 DEF EventOK, ShardOK
  <2> QED
    BY <1>11, <2>1 DEF Others, EventInv
<1>17. Recorded(x)
  BY <1>1, <1>9 DEF EventInv, Recorded
<1>18. d \in [Shards -> Nat]
  OBVIOUS
<1> QED
  BY <1>x, <1>2, <1>7, <1>10, <1>15, <1>16, <1>17, <1>18 DEF Owing

\* Some sessions are sent an event: those of now are told once more.
ToldOf(id, cs) == {<<id, c>> : c \in cs}
ToldMore(w, x, now) ==
    /\ DOMAIN x.tellings = DOMAIN w.tellings \cup now
    /\ \A e \in DOMAIN x.tellings :
          x.tellings[e] = IF e \in now THEN (IF e \in DOMAIN w.tellings THEN w.tellings[e] ELSE 0) + 1
                      ELSE w.tellings[e]

LEMMA TellIs ==
    ASSUME NEW w, IsWorld(w), NEW cs, NEW event
    PROVE  LET x == Tell(w, cs, event) IN
           /\ KeepsHold(w, x)
           /\ x.mail = w.mail /\ x.events = w.events /\ x.sequence = w.sequence
           /\ ToldMore(w, x, ToldOf(event.id, cs))
<1>now. PICK now : now = ToldOf(event.id, cs)
  OBVIOUS
<1> DEFINE f == [e \in DOMAIN w.tellings \cup now |->
                    IF e \in now THEN (IF e \in DOMAIN w.tellings THEN w.tellings[e] ELSE 0) + 1
                    ELSE w.tellings[e]]
<1>f. PICK g : g = f
  OBVIOUS
<1>y. PICK y : y = [w EXCEPT !.tellings = g]
  OBVIOUS
<1>1. Tell(w, cs, event) = SendAll(y, cs, event.line)
  BY <1>f, <1>y, <1>now DEF Tell, ToldOf
<1>0. IsRec(w)
  BY DEF IsWorld
<1>2. /\ IsRec(y) /\ y.sequence = w.sequence /\ y.mail = w.mail /\ y.tellings = g
      /\ y.session = w.session /\ y.events = w.events
  BY <1>0, <1>y DEF IsRec, WorldFields
<1>3. IsWorld(y)
  BY <1>2 DEF IsWorld
<1>4. KeepsHold(w, y)
  BY <1>2, <1>3 DEF KeepsHold, SameWait
<1>x. PICK x : x = SendAll(y, cs, event.line)
  OBVIOUS
<1>5. Keeps(y, x) /\ SameCore(y, x)
  BY <1>x, <1>2, <1>3, KeepsSendAll, SendAllIs
<1>6. KeepsHold(w, x)
  BY <1>4, <1>5, KeepsHoldChain DEF Keeps
<1>7. x.mail = w.mail /\ x.events = w.events /\ x.sequence = w.sequence /\ x.tellings = g
  BY <1>2, <1>5 DEF SameCore
<1>8. ToldMore(w, x, now)
  BY <1>f, <1>7 DEF ToldMore
<1> QED
  BY <1>now, <1>x, <1>1, <1>6, <1>7, <1>8

\* x remembers the same events as w but for id at shard s.
EventsBut(w, x, s, id) ==
    /\ \A a \in Shards : a # s => x.events[a] = w.events[a]
    /\ x.events[s] = [i \in DOMAIN x.events[s] |-> x.events[s][i]]
    /\ \A i : i # id => /\ i \in DOMAIN x.events[s] <=> i \in DOMAIN w.events[s]
                        /\ i \in DOMAIN w.events[s] => x.events[s][i] = w.events[s][i]

\* A shard is owed one part less of an event, and some of its sessions are told.
LEMMA PartHeard ==
    ASSUME NEW w, NEW id, NEW p, NEW d, Owing(w, id, p, d),
           NEW s \in Shards, NEW cs, \A c \in cs : Home[c] = s /\ <<id, c>> \notin DOMAIN w.tellings,
           NEW e \in [Shards -> Nat], \A a \in Shards : a # s => d[a] = e[a],
           NEW x, x.mail = w.mail, x.sequence = w.sequence,
           EventsBut(w, x, s, id), ToldMore(w, x, ToldOf(id, cs)),
           \A n \in Nat : ShardOK(w, id, p, s, n + d[s]) => ShardOK(x, id, p, s, n + e[s])
    PROVE  Owing(x, id, p, e)
<1>now. PICK now : now = ToldOf(id, cs)
  OBVIOUS
<1>tellings. /\ DOMAIN x.tellings = DOMAIN w.tellings \cup now
         /\ \A u \in DOMAIN x.tellings :
               x.tellings[u] = IF u \in now THEN (IF u \in DOMAIN w.tellings THEN w.tellings[u] ELSE 0) + 1
                           ELSE w.tellings[u]
  BY <1>now DEF ToldMore
<1>ev. /\ \A a \in Shards : a # s => x.events[a] = w.events[a]
       /\ x.events[s] = [i \in DOMAIN x.events[s] |-> x.events[s][i]]
       /\ \A i : i # id => /\ i \in DOMAIN x.events[s] <=> i \in DOMAIN w.events[s]
                           /\ i \in DOMAIN w.events[s] => x.events[s][i] = w.events[s][i]
  BY DEF EventsBut
<1>1. \A i : Issued(x, i) <=> Issued(w, i)
  BY DEF Issued
<1>2. \A u \in now : u = <<id, u[2]>> /\ u[1] = id /\ u[2] \in cs /\ u \notin DOMAIN w.tellings
  BY <1>now DEF ToldOf
<1>3. \A i, c : <<i, c>> \in now <=> i = id /\ c \in cs
  BY <1>now DEF ToldOf
<1>4. ASSUME NEW a \in Shards, a # s, NEW i, NEW q, NEW n, ShardOK(w, i, q, a, n)
      PROVE  ShardOK(x, i, q, a, n)
  <2>1. x.events[a] = w.events[a]
    BY <1>4, <1>ev
  <2>2. \A c : <<i, c>> \in DOMAIN x.tellings /\ Home[c] = a => <<i, c>> \in DOMAIN w.tellings
    BY <1>3, <1>4, <1>tellings
  <2> QED
    BY <1>4, <2>1, <2>2 DEF ShardOK
<1>5. ASSUME NEW i, i # id, NEW q, NEW n, ShardOK(w, i, q, s, n)
      PROVE  ShardOK(x, i, q, s, n)
  <2>1. /\ i \in DOMAIN x.events[s] <=> i \in DOMAIN w.events[s]
        /\ i \in DOMAIN w.events[s] => x.events[s][i] = w.events[s][i]
    BY <1>5, <1>ev
  <2>2. \A c : <<i, c>> \in DOMAIN x.tellings => <<i, c>> \in DOMAIN w.tellings
    BY <1>3, <1>5, <1>tellings
  <2> QED
    BY <1>5, <2>1, <2>2 DEF ShardOK
<1>6. Others(x, id)
  <2> SUFFICES ASSUME NEW i, Issued(x, i), i # id
               PROVE  \E q \in Nat : EventOK(x, i, q)
    BY DEF Others
  <2>1. PICK q \in Nat : EventOK(w, i, q)
    BY <1>1 DEF Owing, Others
  <2>2. PartsAre(x.mail, i, q)
    BY <2>1 DEF EventOK
  <2>3. \A a \in Shards : \E n \in Nat :
            Owed(x.mail, PartKey(i, a), n) /\ ShardOK(x, i, q, a, n)
    BY <1>4, <1>5, <2>1 DEF EventOK
  <2> QED
    BY <2>2, <2>3 DEF EventOK
<1>7. Debt(x, id, p, e)
  <2>1. PartsAre(x.mail, id, p)
    BY DEF Owing, Debt
  <2>2. ASSUME NEW a \in Shards
        PROVE  \E n \in Nat : Owed(x.mail, PartKey(id, a), n) /\ ShardOK(x, id, p, a, n + e[a])
    <3>1. PICK n \in Nat : Owed(w.mail, PartKey(id, a), n) /\ ShardOK(w, id, p, a, n + d[a])
      BY DEF Owing, Debt
    <3>2. CASE a = s
      BY <3>1, <3>2
    <3>3. CASE a # s
      BY <1>4, <3>1, <3>3
    <3> QED
      BY <3>2, <3>3
  <2> QED
    BY <2>1, <2>2 DEF Debt
<1>8. Recorded(x)
  <2>1. Recorded(w) /\ Issued(x, id)
    BY <1>1 DEF Owing
  <2>2. \A a \in Shards : \A i \in DOMAIN x.events[a] : Issued(x, i)
    BY <1>1, <1>ev, <2>1 DEF Recorded
  <2>3. \A a \in Shards : x.events[a] = [i \in DOMAIN x.events[a] |-> x.events[a][i]]
    BY <1>ev, <2>1 DEF Recorded
  <2>4. ASSUME NEW u \in DOMAIN x.tellings
        PROVE  x.tellings[u] = 1 /\ Issued(x, u[1]) /\ u = <<u[1], u[2]>>
    <3>1. CASE u \in now
      BY <1>tellings, <1>2, <2>1, <3>1
    <3>2. CASE u \notin now
      BY <1>tellings, <1>1, <2>1, <3>2 DEF Recorded
    <3> QED
      BY <3>1, <3>2
  <2> QED
    BY <2>2, <2>3, <2>4 DEF Recorded
<1>9. Issued(x, id) /\ p \in Nat
  BY <1>1 DEF Owing
<1> QED
  BY <1>6, <1>7, <1>8, <1>9 DEF Owing

\* What a shard has heard of an event, and what it remembers after one part more.
Known(w, s, id) == IF id \in DOMAIN w.events[s] THEN w.events[s][id] ELSE [heard |-> 0, told |-> {}]
Remembered(w, s, id, p, cs) ==
    IF Known(w, s, id).heard + 1 = p THEN Without(w.events[s], id)
    ELSE With(w.events[s], id, [heard |-> Known(w, s, id).heard + 1,
                                told |-> Known(w, s, id).told \cup cs])

LEMMA KnownIs ==
    ASSUME NEW w, NEW s, NEW id, NEW p \in Nat, NEW n \in Nat, n >= 1, p # 1, ShardOK(w, id, p, s, n)
    PROVE  /\ Known(w, s, id).heard \in Nat /\ Known(w, s, id).heard + n = p
           /\ \A c : <<id, c>> \in DOMAIN w.tellings /\ Home[c] = s => c \in Known(w, s, id).told
<1>1. CASE id \in DOMAIN w.events[s]
  <2>1. Known(w, s, id) = w.events[s][id]
    BY <1>1 DEF Known
  <2>2. w.events[s][id].heard \in 1 .. (p - 1) /\ w.events[s][id].heard + n = p
    BY <1>1 DEF ShardOK
  <2>3. \A c : <<id, c>> \in DOMAIN w.tellings /\ Home[c] = s => c \in w.events[s][id].told
    BY <1>1 DEF ShardOK
  <2>4. w.events[s][id].heard \in Nat
    BY <2>2
  <2> QED
    BY <2>1, <2>2, <2>3, <2>4
<1>2. CASE id \notin DOMAIN w.events[s]
  <2>1. Known(w, s, id).heard = 0 /\ Known(w, s, id).told = {}
    BY <1>2 DEF Known
  <2>2. n \in {0, p} /\ \A c : ~(<<id, c>> \in DOMAIN w.tellings /\ Home[c] = s)
    BY <1>2 DEF ShardOK
  <2> QED
    BY <2>1, <2>2
<1> QED
  BY <1>1, <1>2

LEMMA RememberedIs ==
    ASSUME NEW w, NEW s, NEW id, NEW p, NEW cs, NEW f, f = Remembered(w, s, id, p, cs)
    PROVE  /\ f = [i \in DOMAIN f |-> f[i]]
           /\ \A i : i # id => /\ i \in DOMAIN f <=> i \in DOMAIN w.events[s]
                               /\ i \in DOMAIN w.events[s] => f[i] = w.events[s][i]
           /\ Known(w, s, id).heard + 1 = p => id \notin DOMAIN f
           /\ Known(w, s, id).heard + 1 # p =>
                 /\ id \in DOMAIN f /\ f[id].heard = Known(w, s, id).heard + 1
                 /\ f[id].told = Known(w, s, id).told \cup cs
<1>k. PICK k : k = Known(w, s, id)
  OBVIOUS
<1>1. CASE k.heard + 1 = p
  <2>1. f = [i \in DOMAIN w.events[s] \ {id} |-> w.events[s][i]]
    BY <1>1, <1>k DEF Remembered, Without
  <2> QED
    BY <1>1, <1>k, <2>1
<1>2. CASE k.heard + 1 # p
  <2>r. PICK r : r = [heard |-> k.heard + 1, told |-> k.told \cup cs]
    OBVIOUS
  <2>1. f = [i \in DOMAIN w.events[s] \cup {id} |-> IF i = id THEN r ELSE w.events[s][i]]
    BY <1>2, <1>k, <2>r DEF Remembered, With
  <2>2. r.heard = k.heard + 1 /\ r.told = k.told \cup cs
    BY <2>r
  <2> QED
    BY <1>2, <1>k, <2>1, <2>2
<1> QED
  BY <1>1, <1>2

\* A part is heard: the first thing a shard does with it and what it then owes.
LEMMA ShardHears ==
    ASSUME NEW w, NEW s, NEW id, NEW p \in Nat, NEW n \in Nat, n >= 1, p # 1,
           ShardOK(w, id, p, s, n), NEW x, NEW cs,
           x.events[s] = Remembered(w, s, id, p, cs),
           \A c : <<id, c>> \in DOMAIN x.tellings => <<id, c>> \in DOMAIN w.tellings \/ c \in cs
    PROVE  ShardOK(x, id, p, s, n - 1)
<1>k. PICK k : k = Known(w, s, id)
  OBVIOUS
<1>f. PICK f : f = Remembered(w, s, id, p, cs)
  OBVIOUS
<1>1. /\ k.heard \in Nat /\ k.heard + n = p
      /\ \A c : <<id, c>> \in DOMAIN w.tellings /\ Home[c] = s => c \in k.told
  BY <1>k, KnownIs
<1>2. /\ k.heard + 1 = p => id \notin DOMAIN f
      /\ k.heard + 1 # p => /\ id \in DOMAIN f /\ f[id].heard = k.heard + 1
                            /\ f[id].told = k.told \cup cs
  BY <1>k, <1>f, RememberedIs
<1>3. x.events[s] = f
  BY <1>f
<1>4. CASE k.heard + 1 = p
  <2>1. n - 1 = 0 /\ id \notin DOMAIN x.events[s]
    BY <1>1, <1>2, <1>3, <1>4
  <2> QED
    BY <2>1 DEF ShardOK
<1>5. CASE k.heard + 1 # p
  <2>1. /\ id \in DOMAIN x.events[s] /\ x.events[s][id].heard = k.heard + 1
        /\ x.events[s][id].told = k.told \cup cs
    BY <1>2, <1>3, <1>5
  <2>2. k.heard + 1 \in 1 .. (p - 1) /\ (k.heard + 1) + (n - 1) = p
    BY <1>1, <1>5
  <2>3. \A c : <<id, c>> \in DOMAIN x.tellings /\ Home[c] = s => c \in x.events[s][id].told
    BY <1>1, <2>1
  <2> QED
    BY <2>1, <2>2, <2>3 DEF ShardOK
<1> QED
  BY <1>4, <1>5

LEMMA DeliverPartIs ==
    ASSUME NEW w, NEW s, NEW event, NEW cs, NEW id, id = event.id, NEW p, p = event.parts
    PROVE  /\ p = 1 => DeliverPart(w, s, event, cs) = Tell(w, cs, event)
           /\ p # 1 => DeliverPart(w, s, event, cs) =
                 Tell([w EXCEPT !.events[s] = Remembered(w, s, id, p, cs)],
                      cs \ Known(w, s, id).told, event)
BY DEF DeliverPart, Remembered, Known

LEMMA DeliverPartOwing ==
    ASSUME NEW w, IsWorld(w), NEW id, NEW p, NEW d, Owing(w, id, p, d),
           NEW s \in Shards, NEW event, id = event.id, p = event.parts,
           NEW cs, \A c \in cs : Home[c] = s,
           NEW e \in [Shards -> Nat], \A a \in Shards : d[a] = IF a = s THEN e[a] + 1 ELSE e[a]
    PROVE  LET x == DeliverPart(w, s, event, cs) IN
           KeepsHold(w, x) /\ x.sequence = w.sequence /\ Owing(x, id, p, e)
<1>x. PICK x : x = DeliverPart(w, s, event, cs)
  OBVIOUS
<1>0. /\ p \in Nat /\ d[s] \in Nat /\ d[s] >= 1 /\ d[s] = e[s] + 1 /\ e[s] \in Nat
      /\ \A a \in Shards : a # s => d[a] = e[a]
  BY DEF Owing
<1>n. PICK n \in Nat : ShardOK(w, id, p, s, n + d[s])
  BY DEF Owing, Debt
<1>m. n + d[s] \in Nat /\ n + d[s] >= 1
  BY <1>0
<1>1. CASE p = 1
  <2>1. x = Tell(w, cs, event)
    BY <1>1, <1>x DEF DeliverPart
  <2>2. /\ KeepsHold(w, x)
        /\ x.mail = w.mail /\ x.events = w.events /\ x.sequence = w.sequence
        /\ ToldMore(w, x, ToldOf(id, cs))
    BY <2>1, TellIs
  <2>3. \A c \in cs : Home[c] = s /\ <<id, c>> \notin DOMAIN w.tellings
    <3>1. \A c : <<id, c>> \in DOMAIN w.tellings /\ Home[c] = s => n + d[s] = 0
      BY <1>1, <1>n DEF ShardOK
    <3> QED
      BY <1>m, <3>1
  <2>4. ASSUME NEW k \in Nat, ShardOK(w, id, p, s, k + d[s])
        PROVE  ShardOK(x, id, p, s, k + e[s])
    <3>1. k + d[s] <= 1 /\ id \notin DOMAIN w.events[s]
      BY <1>1, <2>4 DEF ShardOK
    <3>2. k + e[s] = 0
      BY <1>0, <3>1
    <3> QED
      BY <1>1, <2>2, <3>1, <3>2 DEF ShardOK
  <2>5. EventsBut(w, x, s, id)
    BY <2>2 DEF Owing, Recorded, EventsBut
  <2>6. Owing(x, id, p, e)
    BY <1>0, <2>2, <2>3, <2>4, <2>5, PartHeard
  <2> QED
    BY <1>x, <2>2, <2>6
<1>2. CASE p # 1
  <2>k. PICK k : k = Known(w, s, id)
    OBVIOUS
  <2>f. PICK f : f = Remembered(w, s, id, p, cs)
    OBVIOUS
  <2>y. PICK y : y = [w EXCEPT !.events[s] = f]
    OBVIOUS
  <2>z. PICK new : new = cs \ k.told
    OBVIOUS
  <2>1. x = Tell(y, new, event)
    BY <1>2, <1>x, <2>k, <2>f, <2>y, <2>z, DeliverPartIs
  <2>r. IsRec(w) /\ w.events = [a \in Shards |-> w.events[a]]
    BY DEF IsWorld
  <2>2. /\ IsRec(y) /\ y.sequence = w.sequence /\ y.mail = w.mail /\ y.tellings = w.tellings
        /\ y.session = w.session /\ y.events = [w.events EXCEPT ![s] = f]
    BY <2>r, <2>y DEF IsRec, WorldFields
  <2>3. y.events = [a \in Shards |-> y.events[a]] /\ y.events[s] = f
        /\ \A a \in Shards : a # s => y.events[a] = w.events[a]
    BY <2>r, <2>2
  <2>4. IsWorld(y)
    BY <2>2, <2>3 DEF IsWorld
  <2>5. KeepsHold(w, y)
    BY <2>2, <2>4 DEF KeepsHold, SameWait
  <2>6. /\ KeepsHold(y, x)
        /\ x.mail = y.mail /\ x.events = y.events /\ x.sequence = y.sequence
        /\ ToldMore(y, x, ToldOf(id, new))
    BY <2>1, <2>4, TellIs
  <2>7. KeepsHold(w, x)
    BY <2>5, <2>6, KeepsHoldChain
  <2>8. /\ x.mail = w.mail /\ x.sequence = w.sequence /\ x.events[s] = f
        /\ \A a \in Shards : a # s => x.events[a] = w.events[a]
    BY <2>2, <2>3, <2>6
  <2>t. ToldMore(w, x, ToldOf(id, new))
    BY <2>2, <2>6 DEF ToldMore
  <2>9. /\ f = [i \in DOMAIN f |-> f[i]]
        /\ \A i : i # id => /\ i \in DOMAIN f <=> i \in DOMAIN w.events[s]
                            /\ i \in DOMAIN w.events[s] => f[i] = w.events[s][i]
    BY <2>f, RememberedIs
  <2>10. \A c \in new : Home[c] = s /\ <<id, c>> \notin DOMAIN w.tellings
    <3>1. \A c : <<id, c>> \in DOMAIN w.tellings /\ Home[c] = s => c \in k.told
      BY <1>0, <1>2, <1>n, <1>m, <2>k, KnownIs
    <3> QED
      BY <2>z, <3>1
  <2>11. \A c : <<id, c>> \in DOMAIN x.tellings => <<id, c>> \in DOMAIN w.tellings \/ c \in cs
    BY <2>z, <2>t DEF ToldMore, ToldOf
  <2>12. ASSUME NEW j \in Nat, ShardOK(w, id, p, s, j + d[s])
         PROVE  ShardOK(x, id, p, s, j + e[s])
    <3>1. j + d[s] \in Nat /\ j + d[s] >= 1 /\ (j + d[s]) - 1 = j + e[s]
      BY <1>0
    <3>2. x.events[s] = Remembered(w, s, id, p, cs)
      BY <2>f, <2>8
    <3>3. ShardOK(x, id, p, s, (j + d[s]) - 1)
      BY <1>0, <1>2, <2>11, <2>12, <3>1, <3>2, ShardHears
    <3> QED
      BY <3>1, <3>3
  <2>13. EventsBut(w, x, s, id)
    BY <2>8, <2>9 DEF EventsBut
  <2>14. x.mail = w.mail /\ x.sequence = w.sequence
    BY <2>8
  <2>15. Owing(x, id, p, e)
    BY <1>0, <2>t, <2>10, <2>12, <2>13, <2>14, PartHeard
  <2> QED
    BY <1>x, <2>7, <2>14, <2>15
<1> QED
  BY <1>1, <1>2

\* A reporter's parts: every shard is owed one part less.
LEMMA SendPartsOwing ==
    ASSUME NEW w, IsWorld(w), NEW id, NEW p, NEW d, Owing(w, id, p, d),
           NEW s \in Shards, NEW event, id = event.id, p = event.parts, NEW peers,
           NEW e \in [Shards -> Nat], \A a \in Shards : d[a] = e[a] + 1
    PROVE  LET x == SendParts(w, s, event, peers) IN
           KeepsHold(w, x) /\ x.sequence = w.sequence /\ Owing(x, id, p, e)
<1>x. PICK x : x = SendParts(w, s, event, peers)
  OBVIOUS
<1>h. PICK hear : hear = {t \in Shards : p # 1 \/ There(peers, t) # {}}
  OBVIOUS
<1>y. PICK y : y = IF s \in hear THEN DeliverPart(w, s, event, There(peers, s)) ELSE w
  OBVIOUS
<1>g. PICK msgs : msgs = [t \in hear \ {s} |-> PartMsg(event, There(peers, t))]
  OBVIOUS
<1>1. x = RouteEach(y, s, msgs)
  BY <1>x, <1>h, <1>y, <1>g DEF SendParts
<1>2. \A t : \A c \in There(peers, t) : Home[c] = t
  BY DEF There
<1>b. PICK b : b = [a \in Shards |-> IF a = s /\ s \in hear THEN e[a] ELSE d[a]]
  OBVIOUS
<1>f. PICK f : f = [a \in Shards |-> IF a \in hear THEN e[a] ELSE d[a]]
  OBVIOUS
<1>3. d \in [Shards -> Nat] /\ b \in [Shards -> Nat] /\ f \in [Shards -> Nat]
  BY <1>b, <1>f DEF Owing
<1>4. KeepsHold(w, y) /\ y.sequence = w.sequence /\ Owing(y, id, p, b)
  <2>1. CASE s \in hear
    <3>1. \A a \in Shards : d[a] = IF a = s THEN b[a] + 1 ELSE b[a]
      BY <1>b, <2>1
    <3>2. \A c \in There(peers, s) : Home[c] = s
      BY <1>2
    <3>3. y = DeliverPart(w, s, event, There(peers, s))
      BY <1>y, <2>1
    <3> QED
      BY <1>3, <3>1, <3>2, <3>3, DeliverPartOwing
  <2>2. CASE s \notin hear
    <3>1. y = w /\ b = d
      BY <1>b, <1>y, <1>3, <2>2
    <3>2. KeepsHold(w, w)
      BY KeepsItself DEF Keeps
    <3> QED
      BY <3>1, <3>2
  <2> QED
    BY <2>1, <2>2
<1>5. KeepsHold(y, x) /\ x.sequence = y.sequence /\ Owing(x, id, p, f)
  <2>1. IsWorld(y)
    BY <1>4 DEF KeepsHold
  <2>2. DOMAIN msgs \subseteq Shards /\ DOMAIN msgs = hear \ {s}
    BY <1>g, <1>h
  <2>3. \A t \in DOMAIN msgs :
               /\ msgs[t].kind = "UserEventPart"
               /\ msgs[t].event.id = id /\ msgs[t].event.parts = p
               /\ \A c \in msgs[t].recipients : Home[c] = t
    <3> SUFFICES ASSUME NEW t \in DOMAIN msgs
                 PROVE  /\ msgs[t].kind = "UserEventPart"
                        /\ msgs[t].event.id = id /\ msgs[t].event.parts = p
                        /\ \A c \in msgs[t].recipients : Home[c] = t
      OBVIOUS
    <3>1. msgs[t].kind = "UserEventPart" /\ msgs[t].event = event
          /\ msgs[t].recipients = There(peers, t)
      BY <1>g DEF PartMsg
    <3> QED
      BY <1>2, <3>1
  <2>4. \A a \in Shards : b[a] = IF a \in DOMAIN msgs THEN f[a] + 1 ELSE f[a]
    <3> SUFFICES ASSUME NEW a \in Shards
                 PROVE  b[a] = IF a \in DOMAIN msgs THEN f[a] + 1 ELSE f[a]
      OBVIOUS
    <3>1. b[a] = IF a = s /\ s \in hear THEN e[a] ELSE d[a]
      BY <1>b
    <3>2. f[a] = IF a \in hear THEN e[a] ELSE d[a]
      BY <1>f
    <3>3. d[a] = e[a] + 1
      OBVIOUS
    <3> QED
      BY <2>2, <3>1, <3>2, <3>3
  <2> QED
    BY <1>1, <1>3, <1>4, <2>1, <2>2, <2>3, <2>4, PartsSent
<1>6. Owing(x, id, p, e)
  <2>1. CASE p = 1
    <3>1. \A a \in Shards : e[a] <= f[a]
      BY <1>f
    <3>2. Owing(x, id, 1, f)
      BY <1>5, <2>1
    <3>3. Owing(x, id, 1, e)
      BY <3>1, <3>2, OwingLess
    <3> QED
      BY <2>1, <3>3
  <2>2. CASE p # 1
    <3>1. f = e
      BY <1>f, <1>h, <2>2
    <3> QED
      BY <1>5, <3>1
  <2> QED
    BY <2>1, <2>2
<1>7. KeepsHold(w, x) /\ x.sequence = w.sequence
  BY <1>4, <1>5, KeepsHoldChain
<1> QED
  BY <1>x, <1>6, <1>7

\* A reporter does its part: the member is gone, or has its new nick.
LEMMA ReportOwing ==
    ASSUME NEW w, IsWorld(w), NEW id, NEW p, NEW d, Owing(w, id, p, d),
           NEW s \in Shards, NEW event, id = event.id, p = event.parts, NEW peers,
           NEW y, Keeps(w, y), NEW x, x = SendParts(y, s, event, peers),
           NEW e \in [Shards -> Nat], \A a \in Shards : d[a] = e[a] + 1
    PROVE  KeepsHold(w, x) /\ x.sequence = w.sequence /\ Owing(x, id, p, e)
<1>2. IsWorld(y) /\ Owing(y, id, p, d) /\ KeepsHold(w, y) /\ y.sequence = w.sequence
  BY OwingKept DEF Keeps, KeepsHold, KeepsEvents
<1>3. KeepsHold(y, x) /\ x.sequence = y.sequence /\ Owing(x, id, p, e)
  BY <1>2, SendPartsOwing
<1>4. KeepsHold(w, x)
  BY <1>2, <1>3, KeepsHoldChain
<1> QED
  BY <1>2, <1>3, <1>4

LEMMA QuitMemberOwing ==
    ASSUME NEW w, IsWorld(w), NEW id, NEW p, NEW d, Owing(w, id, p, d),
           NEW s \in Shards, NEW chs, NEW event, id = event.id, p = event.parts,
           NEW e \in [Shards -> Nat], \A a \in Shards : d[a] = e[a] + 1
    PROVE  LET x == QuitMember(w, s, chs, event) IN
           KeepsHold(w, x) /\ x.sequence = w.sequence /\ Owing(x, id, p, e)
<1>1. PICK ms, peers : QuitMember(w, s, chs, event) =
                           SendParts([w EXCEPT !.members = ms], s, event, peers)
  BY DEF QuitMember
<1>y. PICK y : y = [w EXCEPT !.members = ms]
  OBVIOUS
<1>x. PICK x : x = SendParts(y, s, event, peers)
  OBVIOUS
<1>2. Keeps(w, y)
  BY <1>y, KeepsMembers
<1>3. KeepsHold(w, x) /\ x.sequence = w.sequence /\ Owing(x, id, p, e)
  BY <1>x, <1>2, ReportOwing
<1> QED
  BY <1>x, <1>y, <1>1, <1>3

LEMMA UpdateMemberOwing ==
    ASSUME NEW w, IsWorld(w), NEW id, NEW p, NEW d, Owing(w, id, p, d),
           NEW s \in Shards, NEW chs, NEW nick, NEW event, id = event.id, p = event.parts,
           NEW e \in [Shards -> Nat], \A a \in Shards : d[a] = e[a] + 1
    PROVE  LET x == UpdateMember(w, s, chs, nick, event) IN
           KeepsHold(w, x) /\ x.sequence = w.sequence /\ Owing(x, id, p, e)
<1>1. PICK ms, peers : UpdateMember(w, s, chs, nick, event) =
                           SendParts([w EXCEPT !.members = ms], s, event, peers)
  BY DEF UpdateMember
<1>y. PICK y : y = [w EXCEPT !.members = ms]
  OBVIOUS
<1>x. PICK x : x = SendParts(y, s, event, peers)
  OBVIOUS
<1>2. Keeps(w, y)
  BY <1>y, KeepsMembers
<1>3. KeepsHold(w, x) /\ x.sequence = w.sequence /\ Owing(x, id, p, e)
  BY <1>x, <1>2, ReportOwing
<1> QED
  BY <1>x, <1>y, <1>1, <1>3

-----------------------------------------------------------------------------
\* A report, or a part, of an event arrives.
LEMMA EventArrives ==
    ASSUME HoldInv(Now), EventInv(Now), NEW s \in Shards, NEW t \in Shards, mail[s][t] # <<>>,
           NEW m, m = Msg(s, t), m.kind \in EventKinds
    PROVE  LET w == Taken(s, t) IN
           /\ IsWorld(w) /\ KeepsHold(Now, w)
           /\ \A d \in [Shards -> Nat] :
                (\A a \in Shards : d[a] = IF m.kind \in ReportKinds \/ a = t THEN 1 ELSE 0)
                => Owing(w, m.event.id, m.event.parts, d)
           /\ GoodMsg(sequence, t, m)
<1>0. IsWorld(Now)
  BY DEF HoldInv
<1>w. PICK w : w = Taken(s, t)
  OBVIOUS
<1>1. KeepsHold(Now, w)
  BY <1>0, <1>w, TakeEventHolds
<1>2. IsWorld(w)
  BY <1>1 DEF KeepsHold
<1>3. GoodMsg(sequence, t, m)
  BY <1>0, TakenWorld
<1>4. ASSUME NEW d \in [Shards -> Nat],
             \A a \in Shards : d[a] = IF m.kind \in ReportKinds \/ a = t THEN 1 ELSE 0
      PROVE  Owing(w, m.event.id, m.event.parts, d)
  BY <1>0, <1>w, <1>4, TakeEvent
<1> QED
  BY <1>w, <1>1, <1>2, <1>3, <1>4

\* What is owed no more is in order, whatever else happened to the sessions.
LEMMA EventDone ==
    ASSUME HoldInv(Now), NEW w, KeepsHold(Now, w), NEW x, KeepsHold(w, x), NEW id, NEW p, NEW e,
           e = [a \in Shards |-> 0], Owing(x, id, p, e), Become(x)
    PROVE  HoldInv(Now') /\ EventInv(Now')
<1>1. KeepsHold(Now, x)
  BY KeepsHoldChain
<1>2. HoldInv(x)
  BY <1>1, HoldKept
<1>3. EventInv(x)
  BY OwingNothing
<1>4. Now' = x
  BY <1>2, BecomeNow DEF HoldInv, IsWorld
<1> QED
  BY <1>2, <1>3, <1>4

LEMMA ChannelQuitKeeps ==
    ASSUME HoldInv(Now), EventInv(Now), NEW s \in Shards, NEW t \in Shards, ChannelQuit(s, t)
    PROVE  HoldInv(Now') /\ EventInv(Now')
<1>m. PICK m : m = Msg(s, t)
  OBVIOUS
<1>w. PICK w : w = Taken(s, t)
  OBVIOUS
<1>d. PICK d : d = [a \in Shards |-> 1]
  OBVIOUS
<1>e. PICK e : e = [a \in Shards |-> 0]
  OBVIOUS
<1>0. mail[s][t] # <<>> /\ m.kind = "ChannelQuit" /\ Become(QuitMember(w, t, m.chans, m.event))
  BY <1>m, <1>w DEF ChannelQuit, Next1, Msg
<1>1. m.kind \in EventKinds /\ m.kind \in ReportKinds
  BY <1>0 DEF EventKinds, ReportKinds
<1>2. d \in [Shards -> Nat] /\ e \in [Shards -> Nat] /\ \A a \in Shards : d[a] = e[a] + 1
  BY <1>d, <1>e
<1>3. IsWorld(w) /\ KeepsHold(Now, w)
  BY <1>m, <1>w, <1>0, <1>1, EventArrives
<1>4. Owing(w, m.event.id, m.event.parts, d)
  BY <1>m, <1>w, <1>d, <1>0, <1>1, <1>2, EventArrives
<1>x. PICK x : x = QuitMember(w, t, m.chans, m.event)
  OBVIOUS
<1>5. KeepsHold(w, x) /\ Owing(x, m.event.id, m.event.parts, e)
  BY <1>x, <1>2, <1>3, <1>4, QuitMemberOwing
<1> QED
  BY <1>e, <1>x, <1>0, <1>3, <1>5, EventDone

LEMMA ChannelMemberUpdateKeeps ==
    ASSUME HoldInv(Now), EventInv(Now), NEW s \in Shards, NEW t \in Shards, ChannelMemberUpdate(s, t)
    PROVE  HoldInv(Now') /\ EventInv(Now')
<1>m. PICK m : m = Msg(s, t)
  OBVIOUS
<1>w. PICK w : w = Taken(s, t)
  OBVIOUS
<1>d. PICK d : d = [a \in Shards |-> 1]
  OBVIOUS
<1>e. PICK e : e = [a \in Shards |-> 0]
  OBVIOUS
<1>0. mail[s][t] # <<>> /\ m.kind = "ChannelMemberUpdate"
      /\ Become(UpdateMember(w, t, m.chans, m.nick, m.event))
  BY <1>m, <1>w DEF ChannelMemberUpdate, Next1, Msg
<1>1. m.kind \in EventKinds /\ m.kind \in ReportKinds
  BY <1>0 DEF EventKinds, ReportKinds
<1>2. d \in [Shards -> Nat] /\ e \in [Shards -> Nat] /\ \A a \in Shards : d[a] = e[a] + 1
  BY <1>d, <1>e
<1>3. IsWorld(w) /\ KeepsHold(Now, w)
  BY <1>m, <1>w, <1>0, <1>1, EventArrives
<1>4. Owing(w, m.event.id, m.event.parts, d)
  BY <1>m, <1>w, <1>d, <1>0, <1>1, <1>2, EventArrives
<1>x. PICK x : x = UpdateMember(w, t, m.chans, m.nick, m.event)
  OBVIOUS
<1>5. KeepsHold(w, x) /\ Owing(x, m.event.id, m.event.parts, e)
  BY <1>x, <1>2, <1>3, <1>4, UpdateMemberOwing
<1> QED
  BY <1>e, <1>x, <1>0, <1>3, <1>5, EventDone

LEMMA UserEventPartKeeps ==
    ASSUME HoldInv(Now), EventInv(Now), NEW s \in Shards, NEW t \in Shards, UserEventPart(s, t)
    PROVE  HoldInv(Now') /\ EventInv(Now')
<1>m. PICK m : m = Msg(s, t)
  OBVIOUS
<1>w. PICK w : w = Taken(s, t)
  OBVIOUS
<1>d. PICK d : d = [a \in Shards |-> IF a = t THEN 1 ELSE 0]
  OBVIOUS
<1>e. PICK e : e = [a \in Shards |-> 0]
  OBVIOUS
<1>0. mail[s][t] # <<>> /\ m.kind = "UserEventPart"
      /\ Become(DeliverPart(w, t, m.event, m.recipients))
  BY <1>m, <1>w DEF UserEventPart, Next1, Msg
<1>1. m.kind \in EventKinds /\ m.kind \notin ReportKinds
  BY <1>0 DEF EventKinds, ReportKinds
<1>2. d \in [Shards -> Nat] /\ e \in [Shards -> Nat]
      /\ \A a \in Shards : d[a] = IF a = t THEN e[a] + 1 ELSE e[a]
  BY <1>d, <1>e
<1>3. IsWorld(w) /\ KeepsHold(Now, w) /\ GoodMsg(sequence, t, m)
  BY <1>m, <1>w, <1>0, <1>1, EventArrives
<1>4. Owing(w, m.event.id, m.event.parts, d)
  BY <1>m, <1>w, <1>d, <1>0, <1>1, <1>2, EventArrives
<1>5. \A c \in m.recipients : Home[c] = t
  BY <1>0, <1>3 DEF GoodMsg
<1>x. PICK x : x = DeliverPart(w, t, m.event, m.recipients)
  OBVIOUS
<1>6. KeepsHold(w, x) /\ Owing(x, m.event.id, m.event.parts, e)
  BY <1>x, <1>2, <1>3, <1>4, <1>5, DeliverPartOwing
<1> QED
  BY <1>e, <1>x, <1>0, <1>3, <1>6, EventDone

-----------------------------------------------------------------------------
\* An event and its reporters: the shards of the channels the session is in or
\* is joining, those before its own shard, those after it and perhaps its own.
LEMMA OwnersAre ==
    ASSUME NEW w, HoldInv(w), NEW c \in Conns, NEW O, O = Owners(w, c)
    PROVE  O \subseteq Shards /\ IsFiniteSet(O) /\ Cardinality(O) \in Nat
<1>1. Involved(w, c) \subseteq Chans
  BY DEF HoldInv, IsWorld, IsSession, IsCounts, Involved
<1>2. IsFiniteSet(Involved(w, c))
  BY DEF HoldInv, LimitOK
<1>i. PICK I : I = Involved(w, c)
  OBVIOUS
<1>3. O = {Owner[ch] : ch \in I}
  BY <1>i DEF Owners
<1>4. O \subseteq Shards
  BY <1>1, <1>3, <1>i, OwnerType
<1>f. PICK f : f = [ch \in I |-> Owner[ch]]
  OBVIOUS
<1>5. f \in [I -> O] /\ \A t \in O : \E ch \in I : f[ch] = t
  BY <1>3, <1>f
<1>6. f \in Surjection(I, O)
  BY <1>5 DEF Surjection
<1>7. IsFiniteSet(O)
  BY <1>2, <1>i, <1>6, FS_Surjection
<1> QED
  BY <1>4, <1>7, FS_CardinalityType

Before(O, h) == {t \in O : t < h}
After(O, h) == {t \in O : t > h}
Self(O, h) == IF h \in O THEN 1 ELSE 0

LEMMA AroundHome ==
    ASSUME NEW O, O \subseteq Shards, IsFiniteSet(O), NEW h \in Shards,
           NEW lo, lo = Before(O, h), NEW hi, hi = After(O, h), NEW j, j = Self(O, h)
    PROVE  /\ lo \subseteq O /\ hi \subseteq O /\ IsFiniteSet(lo) /\ IsFiniteSet(hi)
           /\ Cardinality(lo) \in Nat /\ Cardinality(hi) \in Nat /\ j \in Nat
           /\ Cardinality(O) = Cardinality(lo) + (Cardinality(hi) + j)
<1>s. lo = {x \in O : x < h} /\ hi = {x \in O : x > h} /\ j = IF h \in O THEN 1 ELSE 0
  BY DEF Before, After, Self
<1>0. \A x \in O : x \in Nat
  BY MembershipAssumption
<1>h. h \in Nat
  BY MembershipAssumption
<1>1. lo \subseteq O /\ hi \subseteq O /\ IsFiniteSet(lo) /\ IsFiniteSet(hi)
  BY <1>s, FS_Subset
<1>2. Cardinality(lo) \in Nat /\ Cardinality(hi) \in Nat
  BY <1>1, FS_CardinalityType
<1>m. PICK me : me = O \cap {h}
  OBVIOUS
<1>3. IsFiniteSet(me) /\ Cardinality(me) = j
  <2>1. CASE h \in O
    <3>1. me = {h}
      BY <1>m, <2>1
    <3> QED
      BY <1>s, <2>1, <3>1, FS_Singleton
  <2>2. CASE h \notin O
    <3>1. me = {}
      BY <1>m, <2>2
    <3> QED
      BY <1>s, <2>2, <3>1, FS_EmptySet
  <2> QED
    BY <2>1, <2>2
<1>u. PICK up : up = hi \cup me
  OBVIOUS
<1>4. hi \cap me = {}
  BY <1>s, <1>0, <1>h, <1>m
<1>5. IsFiniteSet(up) /\ Cardinality(up) = Cardinality(hi) + j
  <2>1. Cardinality(hi \cap me) = 0
    BY <1>4, FS_EmptySet
  <2>2. IsFiniteSet(up) /\ Cardinality(up) = Cardinality(hi) + Cardinality(me) - Cardinality(hi \cap me)
    BY <1>1, <1>3, <1>u, FS_Union
  <2>3. j \in Nat
    BY <1>s
  <2> QED
    BY <1>2, <1>3, <2>1, <2>2, <2>3
<1>6. lo \cap up = {} /\ O = lo \cup up
  <2>1. \A t \in O : t < h \/ t > h \/ t = h
    BY <1>0, <1>h
  <2>2. \A t \in O : t < h => ~(t > h) /\ t # h
    BY <1>0, <1>h
  <2>3. \A t : t \in up <=> t \in O /\ (t > h \/ t = h)
    BY <1>s, <1>m, <1>u
  <2>4. \A t : t \in lo <=> t \in O /\ t < h
    BY <1>s
  <2>5. lo \cap up = {}
    BY <2>2, <2>3, <2>4
  <2>6. O = lo \cup up
    BY <2>1, <2>3, <2>4
  <2> QED
    BY <2>5, <2>6
<1>7. Cardinality(O) = Cardinality(lo) + Cardinality(up)
  <2>1. Cardinality(lo \cap up) = 0
    BY <1>6, FS_EmptySet
  <2>2. Cardinality(O) = Cardinality(lo) + Cardinality(up) - Cardinality(lo \cap up)
    BY <1>1, <1>5, <1>6, FS_Union
  <2>3. Cardinality(up) \in Nat
    BY <1>5, FS_CardinalityType
  <2> QED
    BY <1>2, <2>1, <2>2, <2>3
<1>8. j \in Nat
  BY <1>s
<1> QED
  BY <1>1, <1>2, <1>5, <1>7, <1>8

\* The reports of one event to the shards of O.
IsReports(msgs, O, id, p) ==
    /\ DOMAIN msgs = O
    /\ \A b \in O : msgs[b].kind \in ReportKinds /\ msgs[b].event.id = id /\ msgs[b].event.parts = p

LEMMA ReportsGo ==
    ASSUME NEW w, IsWorld(w), NEW id, NEW p, NEW d, Owing(w, id, p, d),
           NEW s \in Shards, NEW T, T \subseteq Shards, IsFiniteSet(T),
           NEW msgs, IsReports(msgs, T, id, p), NEW x, x = RouteEach(w, s, msgs),
           NEW e \in [Shards -> Nat], \A a \in Shards : d[a] = e[a] + Cardinality(T)
    PROVE  KeepsHold(w, x) /\ Owing(x, id, p, e)
<1>1. DOMAIN msgs = T
  BY DEF IsReports
<1>2. \A b \in DOMAIN msgs :
           /\ msgs[b].kind \in ReportKinds
           /\ msgs[b].event.id = id /\ msgs[b].event.parts = p
  BY DEF IsReports
<1>3. DOMAIN msgs \subseteq Shards /\ IsFiniteSet(DOMAIN msgs)
      /\ \A a \in Shards : d[a] = e[a] + Cardinality(DOMAIN msgs)
  BY <1>1
<1> QED
  BY <1>2, <1>3, ReportsSent

\* Those the session's shard h sends first, and those it sends last.
LEMMA ReportsBelow ==
    ASSUME NEW w, HoldInv(w), EventInv(w), NEW h \in Shards,
           NEW O, O \subseteq Shards, IsFiniteSet(O), NEW p, p = Cardinality(O),
           NEW k, k = w.sequence[h] + 1, NEW id, id = <<h, k>>,
           NEW msgs, IsReports(msgs, O, id, p),
           NEW y, y = [w EXCEPT !.sequence[h] = k],
           NEW x, x = RouteEach(y, h, Below(msgs, h)),
           NEW e, e = [a \in Shards |-> Cardinality(After(O, h)) + Self(O, h)]
    PROVE  KeepsHold(w, x) /\ Owing(x, id, p, e)
<1>lo. PICK lo : lo = Before(O, h)
  OBVIOUS
<1>hi. PICK hi : hi = After(O, h)
  OBVIOUS
<1>j. PICK j : j = Self(O, h)
  OBVIOUS
<1>1. /\ lo \subseteq O /\ IsFiniteSet(lo)
      /\ Cardinality(lo) \in Nat /\ Cardinality(hi) \in Nat /\ j \in Nat
      /\ p = Cardinality(lo) + (Cardinality(hi) + j)
  BY <1>lo, <1>hi, <1>j, AroundHome
<1>2. p \in Nat /\ e \in [Shards -> Nat] /\ \A a \in Shards : e[a] = Cardinality(hi) + j
  BY <1>hi, <1>j, <1>1
<1>d. PICK d : d = [a \in Shards |-> p]
  OBVIOUS
<1>3. KeepsHold(w, y) /\ Owing(y, id, p, d)
  BY <1>d, <1>2, CountedOwing DEF HoldInv
<1>b. PICK b : b = Below(msgs, h)
  OBVIOUS
<1>4. IsReports(b, lo, id, p)
  BY <1>b, <1>lo DEF Below, Before, IsReports
<1>5. \A a \in Shards : d[a] = e[a] + Cardinality(lo)
  <2> SUFFICES ASSUME NEW a \in Shards
               PROVE  d[a] = e[a] + Cardinality(lo)
    OBVIOUS
  <2>1. d[a] = p /\ e[a] = Cardinality(hi) + j
    BY <1>d, <1>2
  <2> QED
    BY <1>1, <2>1
<1>6. IsWorld(y) /\ lo \subseteq Shards /\ x = RouteEach(y, h, b)
  BY <1>b, <1>1, <1>3 DEF KeepsHold
<1>7. KeepsHold(y, x) /\ Owing(x, id, p, e)
  BY <1>1, <1>2, <1>3, <1>4, <1>5, <1>6, ReportsGo
<1> QED
  BY <1>3, <1>7, KeepsHoldChain

LEMMA ReportsAbove ==
    ASSUME NEW w, IsWorld(w), NEW h \in Shards, NEW O, O \subseteq Shards, IsFiniteSet(O),
           NEW id, NEW p, NEW d, d = [a \in Shards |-> Cardinality(After(O, h))],
           Owing(w, id, p, d), NEW msgs, IsReports(msgs, O, id, p),
           NEW x, x = RouteEach(w, h, Above(msgs, h))
    PROVE  KeepsHold(w, x) /\ EventInv(x)
<1>hi. PICK hi : hi = After(O, h)
  OBVIOUS
<1>1. hi \subseteq O /\ IsFiniteSet(hi) /\ Cardinality(hi) \in Nat
  BY <1>hi, FS_Subset, FS_CardinalityType DEF After
<1>b. PICK b : b = Above(msgs, h)
  OBVIOUS
<1>e. PICK e : e = [a \in Shards |-> 0]
  OBVIOUS
<1>4. IsReports(b, hi, id, p)
  BY <1>b, <1>hi DEF Above, After, IsReports
<1>6. e \in [Shards -> Nat] /\ \A a \in Shards : d[a] = e[a] + Cardinality(hi)
  BY <1>e, <1>hi, <1>1
<1>7. hi \subseteq Shards /\ x = RouteEach(w, h, b)
  BY <1>b, <1>1
<1>8. KeepsHold(w, x) /\ Owing(x, id, p, e)
  BY <1>1, <1>4, <1>6, <1>7, ReportsGo
<1>9. EventInv(x)
  BY <1>e, <1>8, OwingNothing
<1> QED
  BY <1>8, <1>9

\* A session has a new nick.
LEMMA KeepsNick ==
    ASSUME NEW w, IsWorld(w), NEW c \in Conns, NEW n, NEW line,
           NEW x, x = Send([w EXCEPT !.session[c].nick = n], c, line)
    PROVE  Keeps(w, x)
<1>0. IsRec(w) /\ IsSession(w.session[c]) /\ w.session = [d \in Conns |-> w.session[d]]
  BY DEF IsWorld
<1>y. PICK y : y = [w EXCEPT !.session[c].nick = n]
  OBVIOUS
<1>r. PICK r : r = [w.session[c] EXCEPT !.nick = n]
  OBVIOUS
<1>1. /\ IsSession(r) /\ r.held = w.session[c].held /\ r.on = w.session[c].on
      /\ r.channels = w.session[c].channels
      /\ r.pending = w.session[c].pending /\ r.deferred = w.session[c].deferred
  BY <1>0, <1>r, NickSet
<1>2. SameCore(w, y)
  BY <1>0, <1>y DEF IsRec, WorldFields, SameCore
<1>3. y.session = [d \in Conns |-> IF d = c THEN r ELSE w.session[d]]
  BY <1>0, <1>y, <1>r DEF IsRec, WorldFields
<1>4. y.session = [d \in Conns |-> y.session[d]] /\ \A d \in Conns : IsSession(y.session[d])
  BY <1>1, <1>3 DEF IsWorld
<1>5. \A d \in Conns : SameWait(w, y, d)
  BY <1>1, <1>3 DEF SameWait
<1>6. Keeps(w, y)
  BY <1>2, <1>4, <1>5, SessionsChange
<1>7. Keeps(y, x)
  BY <1>6, <1>y, KeepsWorld, KeepsSendAll DEF Send
<1> QED
  BY <1>6, <1>7, KeepsChain

\* The session's shard, a reporter itself, makes its own report: n reports are to
\* follow.
Every(n) == [a \in Shards |-> n]
ReportsHere(first, here, event, n) ==
    IsWorld(first) /\ Owing(first, event.id, event.parts, Every(n + 1)) =>
        KeepsHold(first, here) /\ Owing(here, event.id, event.parts, Every(n))

OwnReport(O, h, first, here, event) ==
    IF h \in O THEN ReportsHere(first, here, event, Cardinality(After(O, h))) ELSE here = first
ReportsOf(msgs, O, event) ==
    DOMAIN msgs = O /\ \A b \in O : msgs[b].kind \in ReportKinds /\ msgs[b].event = event

\* The session's shard reports an event: to the shards before it, to itself and
\* to those after it.
LEMMA Reported ==
    ASSUME NEW w, HoldInv(w), EventInv(w), NEW c \in Conns, NEW h, h = Home[c],
           NEW line, NEW event, event = NewEvent(w, c, line), NEW O, O = Owners(w, c),
           NEW msgs, ReportsOf(msgs, O, event),
           NEW first, first = RouteEach(Counted(w, c), h, Below(msgs, h)),
           NEW here, OwnReport(O, h, first, here, event),
           NEW x, x = RouteEach(here, h, Above(msgs, h))
    PROVE  KeepsHold(w, x) /\ EventInv(x)
<1>0. h \in Shards /\ IsWorld(w)
  BY HomeType DEF HoldInv
<1>1. O \subseteq Shards /\ IsFiniteSet(O) /\ Cardinality(O) \in Nat
  BY OwnersAre
<1>k. PICK k : k = w.sequence[h] + 1
  OBVIOUS
<1>i. PICK id : id = <<h, k>>
  OBVIOUS
<1>p. PICK p : p = Cardinality(O)
  OBVIOUS
<1>2. event.id = id /\ event.parts = p
  BY <1>k, <1>i, <1>p DEF NewEvent
<1>3. IsReports(msgs, O, id, p)
  BY <1>2 DEF IsReports, ReportsOf
<1>y. PICK y : y = [w EXCEPT !.sequence[h] = k]
  OBVIOUS
<1>4. Counted(w, c) = y
  BY <1>y, <1>k, <1>0 DEF Counted, IsWorld, IsRec, WorldFields
<1>e. PICK e : e = [a \in Shards |-> Cardinality(After(O, h)) + Self(O, h)]
  OBVIOUS
<1>5. first = RouteEach(y, h, Below(msgs, h))
  BY <1>4
<1>6. KeepsHold(w, first) /\ Owing(first, id, p, e)
  BY <1>0, <1>1, <1>k, <1>i, <1>p, <1>3, <1>y, <1>e, <1>5, ReportsBelow
<1>7. IsWorld(first)
  BY <1>6 DEF KeepsHold
<1>f. PICK f : f = [a \in Shards |-> Cardinality(After(O, h))]
  OBVIOUS
<1>8. KeepsHold(first, here) /\ Owing(here, id, p, f)
  <2>1. CASE h \in O
    <3>1. e = Every(Cardinality(After(O, h)) + 1) /\ f = Every(Cardinality(After(O, h)))
      BY <1>e, <1>f, <2>1 DEF Self, Every
    <3>2. Owing(first, event.id, event.parts, Every(Cardinality(After(O, h)) + 1))
      BY <1>2, <1>6, <3>1
    <3>3. KeepsHold(first, here) /\ Owing(here, event.id, event.parts, f)
      BY <1>7, <2>1, <3>1, <3>2 DEF ReportsHere, OwnReport
    <3> QED
      BY <1>2, <3>3
  <2>2. CASE h \notin O
    <3>1. here = first
      BY <2>2 DEF OwnReport
    <3>2. Cardinality(After(O, h)) \in Nat
      BY <1>1, FS_Subset, FS_CardinalityType DEF After
    <3>3. Self(O, h) = 0
      BY <2>2 DEF Self
    <3>4. e = f
      BY <1>e, <1>f, <3>2, <3>3
    <3>5. KeepsHold(first, first)
      BY <1>7, KeepsItself DEF Keeps
    <3> QED
      BY <1>6, <3>1, <3>4, <3>5
  <2> QED
    BY <2>1, <2>2
<1>9. IsWorld(here)
  BY <1>8 DEF KeepsHold
<1>10. KeepsHold(here, x) /\ EventInv(x)
  BY <1>0, <1>1, <1>3, <1>f, <1>8, <1>9, ReportsAbove
<1>11. KeepsHold(w, here)
  BY <1>6, <1>8, KeepsHoldChain
<1> QED
  BY <1>10, <1>11, KeepsHoldChain

LEMMA NickKeeps ==
    ASSUME HoldInv(Now), EventInv(Now), NEW c \in Conns, NEW n, Nick(c, n)
    PROVE  HoldInv(Now') /\ EventInv(Now')
<1>h. PICK h : h = Home[c]
  OBVIOUS
<1>l. PICK line : line = NickLine(session[c].nick, n)
  OBVIOUS
<1>w. PICK w : w = Send([Now EXCEPT !.session[c].nick = n], c, line)
  OBVIOUS
<1>v. PICK event : event = NewEvent(w, c, line)
  OBVIOUS
<1>o. PICK O : O = Owners(w, c)
  OBVIOUS
<1>g. PICK msgs : msgs = [t \in O |-> [kind |-> "ChannelMemberUpdate", chans |-> OwnedBy(w, c, t),
                                       nick |-> n, event |-> event]]
  OBVIOUS
<1>f. PICK first : first = RouteEach(Counted(w, c), h, Below(msgs, h))
  OBVIOUS
<1>e. PICK here : here = IF h \notin O THEN first
                         ELSE UpdateMember(first, h, OwnedBy(w, c, h), n, event)
  OBVIOUS
<1>x. PICK x : x = RouteEach(here, h, Above(msgs, h))
  OBVIOUS
<1>0. Become(x)
  BY <1>h, <1>l, <1>w, <1>v, <1>o, <1>g, <1>f, <1>e, <1>x DEF Nick
<1>1. Keeps(Now, w)
  BY <1>w, KeepsNick DEF HoldInv
<1>2. HoldInv(w) /\ EventInv(w)
  BY <1>1, HoldKept, EventsKept DEF Keeps
<1>3. ReportsOf(msgs, O, event)
  BY <1>g DEF ReportKinds, ReportsOf
<1>4. ASSUME h \in O
      PROVE  ReportsHere(first, here, event, Cardinality(After(O, h)))
  <2>n. PICK k : k = Cardinality(After(O, h))
    OBVIOUS
  <2>1. h \in Shards /\ O \subseteq Shards /\ IsFiniteSet(O)
    BY <1>h, <1>o, <1>2, HomeType, OwnersAre
  <2>2. k \in Nat
    BY <2>n, <2>1, FS_Subset, FS_CardinalityType DEF After
  <2>d. PICK d : d = Every(k + 1)
    OBVIOUS
  <2>e. PICK e : e = Every(k)
    OBVIOUS
  <2>3. e \in [Shards -> Nat] /\ \A a \in Shards : d[a] = e[a] + 1
    BY <2>d, <2>e, <2>2 DEF Every
  <2>4. here = UpdateMember(first, h, OwnedBy(w, c, h), n, event)
    BY <1>e, <1>4
  <2>5. ASSUME IsWorld(first), Owing(first, event.id, event.parts, d)
        PROVE  KeepsHold(first, here) /\ Owing(here, event.id, event.parts, e)
    BY <2>1, <2>3, <2>4, <2>5, UpdateMemberOwing
  <2> QED
    BY <2>n, <2>d, <2>e, <2>5 DEF ReportsHere
<1>5. OwnReport(O, h, first, here, event)
  BY <1>e, <1>4 DEF OwnReport
<1>6. KeepsHold(w, x) /\ EventInv(x)
  BY <1>h, <1>v, <1>o, <1>f, <1>x, <1>2, <1>3, <1>5, Reported
<1>7. HoldInv(x)
  BY <1>2, <1>6, HoldKept
<1>8. Now' = x
  BY <1>0, <1>7, StepIs DEF HoldInv
<1> QED
  BY <1>6, <1>7, <1>8

\* A session that is gone waits for nothing and is in no channel.
LEMMA ClosedHolds ==
    ASSUME NEW w, HoldInv(w), EventInv(w), NEW c \in Conns,
           NEW r, r = [FreshSession(c) EXCEPT !.on = FALSE],
           NEW x, SameCore(w, x), x.session = [w.session EXCEPT ![c] = r]
    PROVE  HoldInv(x) /\ EventInv(x)
<1>0. IsWorld(w) /\ IsRec(w) /\ w.session = [d \in Conns |-> w.session[d]]
  BY DEF HoldInv, IsWorld
<1>2. x.session = [d \in Conns |-> IF d = c THEN r ELSE w.session[d]]
  BY <1>0
<1>n. PICK none : none = None
  OBVIOUS
<1>3. IsCounts(none) /\ DOMAIN none = {}
  BY <1>n DEF None, IsCounts
<1>4. /\ r = [k \in SessionFields |-> r[k]] /\ r.on = FALSE /\ r.channels = {}
      /\ r.pending = none /\ r.deferred = 0 /\ r.held = <<>>
  BY <1>n DEF FreshSession, SessionFields
<1>5. IsSession(r)
  <2>1. IsCounts(r.pending)
    BY <1>3, <1>4
  <2>2. r.on \in BOOLEAN /\ r.channels \subseteq Chans /\ r.deferred \in Nat
    BY <1>4
  <2> QED
    BY <1>4, <2>1, <2>2 DEF IsSession
<1>6. x.session = [d \in Conns |-> x.session[d]] /\ \A d \in Conns : IsSession(x.session[d])
  <2>1. \A d \in Conns : IsSession(w.session[d])
    BY <1>0 DEF IsWorld
  <2> QED
    BY <1>2, <1>5, <2>1
<1>7. IsWorld(x) /\ KeepsEvents(w, x)
  BY <1>0, <1>6, SessionsChange
<1>8. EventInv(x)
  BY <1>7, EventsKept
<1>9. ASSUME NEW d \in Conns
      PROVE  SessionOK(x, d) /\ LimitOK(x, d)
  <2>1. CASE d = c
    <3>1. x.session[d] = r
      BY <1>2, <2>1
    <3>2. SessionOK(x, d)
      BY <1>4, <1>n, <3>1 DEF SessionOK
    <3>3. Involved(x, d) = {}
      BY <1>3, <1>4, <3>1 DEF Involved
    <3>4. LimitOK(x, d)
      <4>1. IsFiniteSet({}) /\ Cardinality({}) = 0
        BY FS_EmptySet
      <4>2. 0 <= MaxChannels
        BY MembershipAssumption
      <4> QED
        BY <3>3, <4>1, <4>2 DEF LimitOK
    <3> QED
      BY <3>2, <3>4
  <2>2. CASE d # c
    <3>1. x.session[d] = w.session[d] /\ x.mail = w.mail
      BY <1>2, <2>2 DEF SameCore
    <3>2. SessionOK(w, d) /\ LimitOK(w, d)
      BY DEF HoldInv
    <3> QED
      BY <3>1, <3>2 DEF SessionOK, LimitOK, Involved
  <2> QED
    BY <2>1, <2>2
<1> QED
  BY <1>7, <1>8, <1>9 DEF HoldInv

LEMMA CloseKeeps ==
    ASSUME HoldInv(Now), EventInv(Now), NEW c \in Conns, Close(c)
    PROVE  HoldInv(Now') /\ EventInv(Now')
<1>h. PICK h : h = Home[c]
  OBVIOUS
<1>l. PICK line : line = QuitLine(session[c].nick)
  OBVIOUS
<1>v. PICK event : event = NewEvent(Now, c, line)
  OBVIOUS
<1>o. PICK O : O = Owners(Now, c)
  OBVIOUS
<1>g. PICK msgs : msgs = [t \in O |-> [kind |-> "ChannelQuit", chans |-> OwnedBy(Now, c, t),
                                       event |-> event]]
  OBVIOUS
<1>f. PICK first : first = RouteEach(Counted(Now, c), h, Below(msgs, h))
  OBVIOUS
<1>e. PICK here : here = IF h \notin O THEN first
                         ELSE QuitMember(first, h, OwnedBy(Now, c, h), event)
  OBVIOUS
<1>x. PICK x : x = RouteEach(here, h, Above(msgs, h))
  OBVIOUS
<1>r. PICK r : r = [FreshSession(c) EXCEPT !.on = FALSE]
  OBVIOUS
<1>u. PICK u : u = [own |-> FirstNick[c], chans |-> None]
  OBVIOUS
<1>z. PICK z : z = [x EXCEPT !.session[c] = [FreshSession(c) EXCEPT !.on = FALSE],
                             !.memberships[c] = {},
                             !.view[c] = [own |-> FirstNick[c], chans |-> None]]
  OBVIOUS
<1>0. Become(z)
  BY <1>h, <1>l, <1>v, <1>o, <1>g, <1>f, <1>e, <1>x, <1>z, ZenonT(60) DEF Close
<1>1. z = [x EXCEPT !.session[c] = r, !.memberships[c] = {}, !.view[c] = u]
  BY <1>z, <1>r, <1>u
<1>3. ReportsOf(msgs, O, event)
  BY <1>g DEF ReportKinds, ReportsOf
<1>4. ASSUME h \in O
      PROVE  ReportsHere(first, here, event, Cardinality(After(O, h)))
  <2>n. PICK k : k = Cardinality(After(O, h))
    OBVIOUS
  <2>1. h \in Shards /\ O \subseteq Shards /\ IsFiniteSet(O)
    BY <1>h, <1>o, HomeType, OwnersAre
  <2>2. k \in Nat
    BY <2>n, <2>1, FS_Subset, FS_CardinalityType DEF After
  <2>d. PICK d : d = Every(k + 1)
    OBVIOUS
  <2>e. PICK e : e = Every(k)
    OBVIOUS
  <2>3. e \in [Shards -> Nat] /\ \A a \in Shards : d[a] = e[a] + 1
    BY <2>d, <2>e, <2>2 DEF Every
  <2>4. here = QuitMember(first, h, OwnedBy(Now, c, h), event)
    BY <1>e, <1>4
  <2>5. ASSUME IsWorld(first), Owing(first, event.id, event.parts, d)
        PROVE  KeepsHold(first, here) /\ Owing(here, event.id, event.parts, e)
    BY <2>1, <2>3, <2>4, <2>5, QuitMemberOwing
  <2> QED
    BY <2>n, <2>d, <2>e, <2>5 DEF ReportsHere
<1>5. OwnReport(O, h, first, here, event)
  BY <1>e, <1>4 DEF OwnReport
<1>6. KeepsHold(Now, x) /\ EventInv(x)
  BY <1>h, <1>v, <1>o, <1>f, <1>x, <1>3, <1>5, Reported
<1>7. HoldInv(x)
  BY <1>6, HoldKept
<1>8. HoldInv(z) /\ EventInv(z)
  <2>1. IsRec(x)
    BY <1>7 DEF HoldInv, IsWorld
  <2>2. SameCore(x, z) /\ z.session = [x.session EXCEPT ![c] = r]
    BY <1>1, <2>1 DEF IsRec, WorldFields, SameCore
  <2> QED
    BY <1>r, <1>6, <1>7, <2>2, ClosedHolds
<1>9. Now' = z
  BY <1>0, <1>8, StepIs DEF HoldInv
<1> QED
  BY <1>8, <1>9

-----------------------------------------------------------------------------
LEMMA MembershipInvInit ==
    ASSUME MembershipInit
    PROVE  HoldInv(Now) /\ EventInv(Now)
<1>0. /\ IsRec(Now) /\ Now.session = session /\ Now.events = events /\ Now.sequence = sequence
      /\ Now.mail = mail /\ Now.tellings = tellings
  BY NowFields
<1>n. PICK none : none = None
  OBVIOUS
<1>1. IsCounts(none) /\ DOMAIN none = {} /\ none = [i \in DOMAIN none |-> none[i]]
  BY <1>n DEF None, IsCounts
<1>2. ASSUME NEW c \in Conns
      PROVE  /\ IsSession(session[c]) /\ session[c].on /\ session[c].deferred = 0
             /\ session[c].pending = none /\ session[c].channels = {} /\ session[c].held = <<>>
  <2>r. PICK r : r = session[c]
    OBVIOUS
  <2>1. /\ r = [k \in SessionFields |-> r[k]] /\ r.on = TRUE /\ r.channels = {}
        /\ r.pending = none /\ r.deferred = 0 /\ r.held = <<>>
    BY <1>n, <2>r DEF MembershipInit, FreshSession, SessionFields
  <2>2. IsCounts(r.pending)
    BY <1>1, <2>1
  <2>4. r.on \in BOOLEAN /\ r.channels \subseteq Chans
    BY <2>1, Zenon
  <2>5. r.deferred \in Nat
    BY <2>1
  <2> QED
    BY <2>r, <2>1, <2>2, <2>4, <2>5 DEF IsSession
<1>3. mail = [s \in Shards |-> [t \in Shards |-> <<>>]]
  BY DEF MembershipInit
<1>4. IsQueue(<<>>)
  <2>1. <<>> \in Seq(Nat)
    OBVIOUS
  <2> QED
    BY <2>1 DEF IsQueue
<1>5. IsMail(mail) /\ \A s, t \in Shards : DOMAIN mail[s][t] = {}
  BY <1>3, <1>4 DEF IsMail
<1>6. \A k : Owed(mail, k, 0)
  <2> SUFFICES ASSUME NEW k
               PROVE  Owed(mail, k, 0)
    OBVIOUS
  <2>1. Spots(mail, k) = {}
    BY <1>5 DEF Spots
  <2> QED
    BY <2>1, FS_EmptySet DEF Owed
<1>7. IsWorld(Now)
  <2>1. GoodMail(sequence, mail)
    BY <1>5 DEF GoodMail
  <2>2. sequence \in [Shards -> Nat] /\ events = [s \in Shards |-> events[s]]
        /\ session = [c \in Conns |-> session[c]]
    BY DEF MembershipInit
  <2> QED
    BY <1>0, <1>2, <1>5, <2>1, <2>2 DEF IsWorld
<1>8. ASSUME NEW c \in Conns
      PROVE  SessionOK(Now, c) /\ LimitOK(Now, c)
  <2>1. \A ch : CountOf(session[c].pending, ch) = 0
    BY <1>1, <1>2 DEF CountOf
  <2>2. SessionOK(Now, c)
    BY <1>0, <1>2, <1>6, <2>1 DEF SessionOK
  <2>3. Involved(Now, c) = {}
    BY <1>0, <1>1, <1>2 DEF Involved
  <2>4. IsFiniteSet({}) /\ Cardinality({}) = 0 /\ 0 <= MaxChannels
    BY FS_EmptySet, MembershipAssumption
  <2> QED
    BY <2>2, <2>3, <2>4 DEF LimitOK
<1>9. \A id : ~Issued(Now, id)
  <2>1. \A h \in Shards : sequence[h] = 0
    BY DEF MembershipInit
  <2> QED
    BY <1>0, <2>1 DEF Issued
<1>10. EventInv(Now)
  <2>1. \A s \in Shards : events[s] = none
    BY <1>n DEF MembershipInit
  <2>2. DOMAIN tellings = {}
    BY <1>n, <1>1 DEF MembershipInit
  <2>3. Recorded(Now)
    BY <1>0, <1>1, <2>1, <2>2 DEF Recorded
  <2> QED
    BY <1>9, <2>3 DEF EventInv
<1> QED
  BY <1>7, <1>8, <1>10 DEF HoldInv

LEMMA MembershipInvStep ==
    ASSUME HoldInv(Now), EventInv(Now), [MembershipNext]_membershipVars
    PROVE  HoldInv(Now') /\ EventInv(Now')
<1>e. HoldInv(Now') /\ KeepsEvents(Now, Now') => HoldInv(Now') /\ EventInv(Now')
  BY EventsKept
<1>1. ASSUME NEW c \in Conns, NEW ch \in Chans, Join(c, ch) \/ Part(c, ch)
      PROVE  HoldInv(Now') /\ EventInv(Now')
  BY <1>e, <1>1, JoinHolds, PartHolds
<1>2. ASSUME NEW c \in Conns, NEW ch \in Chans, NEW n \in Nicks, Kick(c, ch, n)
      PROVE  HoldInv(Now') /\ EventInv(Now')
  BY <1>e, <1>2, KickHolds
<1>3. ASSUME NEW c \in Conns, NEW n \in Nicks, Nick(c, n)
      PROVE  HoldInv(Now') /\ EventInv(Now')
  BY <1>3, NickKeeps
<1>4. ASSUME NEW c \in Conns, JoinZero(c)
      PROVE  HoldInv(Now') /\ EventInv(Now')
  BY <1>e, <1>4, JoinZeroHolds
<1>5. ASSUME NEW c \in Conns, Close(c)
      PROVE  HoldInv(Now') /\ EventInv(Now')
  BY <1>5, CloseKeeps
<1>6. ASSUME NEW s \in Shards, NEW t \in Shards, HandleOne(s, t)
      PROVE  HoldInv(Now') /\ EventInv(Now')
  <2>1. CASE ChannelJoin(s, t)
    BY <1>e, <2>1, ChannelJoinHolds
  <2>2. CASE ChannelJoinResult(s, t)
    BY <1>e, <2>2, ChannelJoinResultHolds
  <2>3. CASE ChannelMemberVanished(s, t)
    BY <1>e, <2>3, ChannelMemberVanishedHolds
  <2>4. CASE ChannelPart(s, t)
    BY <1>e, <2>4, ChannelPartHolds
  <2>5. CASE ChannelPartResult(s, t)
    BY <1>e, <2>5, ChannelPartResultHolds
  <2>6. CASE ChannelKick(s, t)
    BY <1>e, <2>6, ChannelKickHolds
  <2>7. CASE ChannelKickResult(s, t)
    BY <1>e, <2>7, ChannelKickResultHolds
  <2>8. CASE SessionChannelRemoved(s, t)
    BY <1>e, <2>8, SessionChannelRemovedHolds
  <2>9. CASE ChannelQuit(s, t)
    BY <2>9, ChannelQuitKeeps
  <2>10. CASE ChannelMemberUpdate(s, t)
    BY <2>10, ChannelMemberUpdateKeeps
  <2>11. CASE UserEventPart(s, t)
    BY <2>11, UserEventPartKeeps
  <2>12. CASE Delivery(s, t)
    BY <1>e, <2>12, DeliveryHolds
  <2> QED
    BY <1>6, <2>1, <2>2, <2>3, <2>4, <2>5, <2>6, <2>7, <2>8, <2>9, <2>10, <2>11, <2>12
    DEF HandleOne
<1>7. CASE UNCHANGED membershipVars
  <2>1. Now' = Now
    BY <1>7 DEF membershipVars, Now
  <2> QED
    BY <2>1
<1>8. CASE ClientCommand
  BY <1>8, <1>1, <1>2, <1>3, <1>4, <1>5 DEF ClientCommand
<1> QED
  BY <1>6, <1>7, <1>8 DEF MembershipNext

\* The inductive invariant: whoever waits is waited for by as many messages, and
\* every shard is owed exactly the parts of an event it has not heard.
THEOREM MembershipInvariant == MembershipSpec => []MembershipInv
<1>1. MembershipInit => MembershipInv
  BY MembershipInvInit DEF MembershipInv
<1>2. MembershipInv /\ [MembershipNext]_membershipVars => MembershipInv'
  BY MembershipInvStep DEF MembershipInv
<1> QED
  BY <1>1, <1>2, PTL DEF MembershipSpec

\* No session is ever in more channels than the limit, although each JOIN to
\* another shard is admitted there without asking again (cmd_join counts what is
\* in flight).
THEOREM LimitHeld == MembershipSpec => []LimitHolds
<1>1. MembershipInv => LimitHolds
  <2> SUFFICES ASSUME MembershipInv, NEW c \in Conns
               PROVE  Cardinality(session[c].channels) <= MaxChannels
    BY DEF LimitHolds
  <2>i. PICK I : I = Involved(Now, c)
    OBVIOUS
  <2>1. IsFiniteSet(I) /\ Cardinality(I) <= MaxChannels
    BY <2>i DEF MembershipInv, HoldInv, LimitOK
  <2>2. session[c].channels \subseteq I
    BY <2>i, NowFields DEF Involved
  <2>3. IsFiniteSet(session[c].channels) /\ Cardinality(session[c].channels) <= Cardinality(I)
    BY <2>1, <2>2, FS_Subset
  <2>4. Cardinality(session[c].channels) \in Nat /\ Cardinality(I) \in Nat /\ MaxChannels \in Nat
    BY <2>1, <2>3, FS_CardinalityType, MembershipAssumption
  <2> QED
    BY <2>1, <2>3, <2>4
<1> QED
  BY <1>1, MembershipInvariant, PTL

\* When no shard has mail, nothing is owed to anyone.
LEMMA QuietOwes ==
    ASSUME Quiet, NEW k, NEW n \in Nat, Owed(mail, k, n)
    PROVE  n = 0
<1>1. \A s, t \in Shards : DOMAIN mail[s][t] = {}
  BY DEF Quiet
<1>2. Spots(mail, k) = {}
  BY <1>1 DEF Spots
<1> QED
  BY <1>2, FS_EmptySet DEF Owed

\* Every answer a session is held for arrives, whatever its JOINs, PARTs and KICKs
\* met on the other shard: with no mail left nothing is held
\* (defer_captured_reply, emit_deferred).
THEOREM HoldsEnded == MembershipSpec => []HoldsEnd
<1>1. MembershipInv => HoldsEnd
  <2> SUFFICES ASSUME MembershipInv, Quiet, NEW c \in Conns
               PROVE  session[c].deferred = 0 /\ session[c].pending = None
                      /\ session[c].held = <<>>
    BY DEF HoldsEnd
  <2>1. SessionOK(Now, c) /\ IsSession(Now.session[c])
    BY DEF MembershipInv, HoldInv, IsWorld
  <2>2. Now.session = session /\ Now.mail = mail
    BY NowFields
  <2>3. session[c].deferred \in Nat /\ IsCounts(session[c].pending)
    BY <2>1, <2>2 DEF IsSession
  <2>4. session[c].deferred = 0
    BY <2>1, <2>2, <2>3, QuietOwes DEF SessionOK
  <2>5. session[c].held = <<>>
    BY <2>1, <2>2, <2>4 DEF SessionOK
  <2>6. session[c].pending = None
    <3>1. CASE session[c].on
      <4>f. PICK f : f = session[c].pending
        OBVIOUS
      <4>1. ASSUME NEW ch \in DOMAIN f
            PROVE  FALSE
        <5>1. ch \in Chans /\ f[ch] \in Nat \ {0} /\ CountOf(f, ch) = f[ch]
          BY <2>3, <4>f DEF IsCounts, CountOf
        <5>2. Owed(mail, JoinKey(c, ch), f[ch])
          BY <2>1, <2>2, <3>1, <4>f, <5>1 DEF SessionOK
        <5>3. f[ch] = 0
          BY <5>1, <5>2, QuietOwes
        <5> QED
          BY <5>1, <5>3
      <4>2. DOMAIN f = {} /\ f = [ch \in DOMAIN f |-> f[ch]]
        BY <2>3, <4>f, <4>1 DEF IsCounts
      <4>3. f = None
        BY <4>2 DEF None
      <4> QED
        BY <4>f, <4>3
    <3>2. CASE ~session[c].on
      BY <2>1, <2>2, <3>2 DEF SessionOK
    <3> QED
      BY <3>1, <3>2
  <2> QED
    BY <2>4, <2>5, <2>6
<1> QED
  BY <1>1, MembershipInvariant, PTL

\* No shard remembers a user event for ever: every reporter it counted on reports
\* (user_events_in_progress).
THEOREM EventsEnded == MembershipSpec => []EventsForgotten
<1>1. MembershipInv => EventsForgotten
  <2> SUFFICES ASSUME MembershipInv, Quiet, NEW s \in Shards
               PROVE  events[s] = None
    BY DEF EventsForgotten
  <2>0. Now.events = events /\ Now.mail = mail
    BY NowFields
  <2>1. ASSUME NEW id \in DOMAIN events[s]
        PROVE  FALSE
    <3>1. Issued(Now, id)
      BY <2>0 DEF MembershipInv, EventInv, Recorded
    <3>2. PICK p \in Nat : EventOK(Now, id, p)
      BY <3>1 DEF MembershipInv, EventInv
    <3>3. PICK n \in Nat : Owed(mail, PartKey(id, s), n) /\ ShardOK(Now, id, p, s, n)
      BY <2>0, <3>2 DEF EventOK
    <3>4. n = 0
      BY <3>3, QuietOwes
    <3>5. p # 1 /\ events[s][id].heard \in 1 .. (p - 1) /\ events[s][id].heard + n = p
      BY <2>0, <3>3 DEF ShardOK
    <3> QED
      BY <3>4, <3>5
  <2>2. events[s] = [id \in DOMAIN events[s] |-> events[s][id]]
    BY <2>0 DEF MembershipInv, EventInv, Recorded
  <2>3. DOMAIN events[s] = {}
    BY <2>1
  <2> QED
    BY <2>2, <2>3 DEF None
<1> QED
  BY <1>1, MembershipInvariant, PTL

\* Nobody is told twice of a QUIT or a NICK, however many shards report it and in
\* whatever order the reports arrive (deliver_user_event_part).
THEOREM ToldOnlyOnce == MembershipSpec => []ToldOnce
<1>1. MembershipInv => ToldOnce
  BY NowFields DEF MembershipInv, EventInv, Recorded, ToldOnce
<1> QED
  BY <1>1, MembershipInvariant, PTL
=============================================================================
