--------------------------- MODULE NetworksProofs ---------------------------
(***************************************************************************)
(* The bouncer's networks, for any number of them and any sequence of      *)
(* operations, failures and shutdown: one upstream session each, none left *)
(* behind, no line written for a row that is gone, no gap in a backlog     *)
(* without a word, and what runs is what is stored.                        *)
(***************************************************************************)
EXTENDS Networks, FiniteSetTheorems, SequenceTheorems, TLAPS

RowState == [id : Nat, ver : Nat, on : BOOLEAN]

Run ==
    [net : Nets, ver : Nat, row : Nat,
     up : BOOLEAN, parked : BOOLEAN, told : BOOLEAN, late : BOOLEAN,
     said : Nat, queue : Seq(Nat), missed : Nat, kept : SUBSET Nat,
     feed : {"restoring", "open", "draining", "ended"}, left : Nat, error : BOOLEAN,
     stop : {"no", "tell", "wait", "join", "done"}, unwritten : {"none", "Store", "Discard"}]

LaneState ==
    [op : {"free", "create", "update", "enable", "disable", "delete", "suspend", "reactivate",
           "delete account"},
     phase : {"free", "remove", "stopping", "holding", "delete account", "supersede", "ensure"},
     net : SUBSET Stored, todo : SUBSET Stored, out : SUBSET (Configured \X Nat),
     was : {"active", "suspended"}, answer : {"none", "lost", "refused"}]

TypeOK ==
    /\ row \in [Stored -> RowState] /\ owner \in {"active", "suspended", "deleted"}
    /\ slot \in [Nets -> Nat] /\ hold \in [Configured -> {"no", "Suspended", "Deleted"}]
    /\ replacing \subseteq Stored /\ closed \in BOOLEAN
    /\ runs \in Seq(Run) /\ lane \in LaneState /\ ops \in Nat /\ excused \subseteq Nets

-----------------------------------------------------------------------------
\* The registry and the lane.

\* A run by itself: it is told once its stop begins, and after the wait for its
\* driver's release only a late driver is still up.
Ordered(r) ==
    /\ r.stop \in {"no", "tell"} => ~r.told /\ ~r.late
    /\ r.stop \in {"wait", "join", "done"} => r.told
    /\ r.stop = "wait" => ~r.late
    /\ r.stop \in {"join", "done"} /\ r.up => r.late
    /\ r.stop = "no" <=> r.unwritten = "none"

RunsOrdered == \A i \in DOMAIN runs : Ordered(runs[i])

IsHeld(n) == n \in Configured /\ hold[n] # "no"

\* A key's slot is its network's run, which is running, or stopped and held; and
\* every run that is not being stopped is in its slot.
Registered ==
    /\ \A n \in Nets : slot[n] # NoRun =>
          /\ slot[n] \in DOMAIN runs /\ runs[slot[n]].net = n
          /\ runs[slot[n]].stop = IF IsHeld(n) THEN "done" ELSE "no"
    /\ \A i \in DOMAIN runs : runs[i].stop = "no" => slot[runs[i].net] = i

ClosedIsEmpty == closed => replacing = {} /\ lane.out = {} /\ \A n \in Nets : slot[n] = NoRun

ReplacingIsEmpty ==
    /\ replacing \subseteq lane.todo
    /\ replacing # {} => lane.phase \in {"supersede", "ensure"}
    /\ \A n \in replacing : slot[n] = NoRun

\* The operation at each of its awaits.
LaneShape ==
    /\ lane.phase = "free" => lane = Free
    /\ lane.phase \in {"remove", "stopping"} =>
           lane.op \in {"disable", "delete", "suspend", "delete account"}
    /\ lane.phase = "holding" => lane.op \in {"suspend", "delete account"}
    /\ lane.phase = "delete account" => lane.op = "delete account"
    /\ lane.phase = "supersede" => lane.op \in {"create", "update", "delete"}
    /\ lane.phase = "ensure" => lane.op \in {"enable", "reactivate", "delete account"}
    /\ lane.op = "delete" => lane.todo \subseteq lane.net /\ \E s \in Stored : lane.net = {s}
    /\ lane.op \in {"disable", "suspend"} => lane.todo = {}
    /\ lane.op \in {"suspend", "delete account"} => lane.net = Stored
    /\ lane.phase # "holding" => lane.out = {}
    /\ lane.phase \in {"supersede", "ensure"} /\ lane.op \in {"delete", "delete account"} =>
           lane.answer # "none"
    /\ lane.phase \notin {"supersede", "ensure"} => lane.answer = "none"

\* What the lane has taken out stays out until it is put back, and nothing is
\* stopping but what the lane waits for - or a shutdown began.
LaneTakes ==
    /\ lane.phase \in {"stopping", "holding", "delete account"} =>
           \A n \in lane.net : slot[n] = NoRun
    /\ lane.phase = "holding" => \A g \in Configured : slot[g] = NoRun
    /\ lane.phase = "delete account" =>
           Quiet /\ \A g \in Configured : slot[g] # NoRun => hold[g] = "Suspended"
    /\ \A p \in lane.out :
           p[2] \in DOMAIN runs /\ runs[p[2]].net = p[1] /\ runs[p[2]].stop # "no"

LaneQuiet ==
    ~closed /\ replacing = {} /\ lane.phase \notin {"stopping", "holding"} => Quiet

LaneInv == ClosedIsEmpty /\ ReplacingIsEmpty /\ LaneShape /\ LaneTakes /\ LaneQuiet

-----------------------------------------------------------------------------
\* The backlog and its row.

Queued(s, k) == \E i \in DOMAIN s : s[i] = k

\* What a run's persistence task owes: every line said is written, queued, or
\* missing and about to be found missing, unless the run's state already says so.
Fed(r) ==
    /\ r.stop = "done" => r.feed = "ended"
    /\ r.feed = "restoring" => ~r.error
    /\ r.feed = "draining" => r.stop = "join"
    /\ r.feed = "ended" => r.error \/ r.stop \in {"join", "done"}
    /\ r.feed # "ended" /\ r.missed > 0 => r.queue # <<>>
    /\ ~r.error /\ ~r.late /\ r.unwritten # "Discard" =>
          /\ r.feed = "ended" => Complete(r)
          /\ r.feed # "ended" /\ r.missed = 0 => \A k \in 1 .. r.said : k \in r.kept \/ Queued(r.queue, k)
          /\ r.feed = "draining" =>
                 r.left >= Len(r.queue) /\ (r.missed > 0 => r.left > Len(r.queue))

BacklogInv == \A i \in DOMAIN runs : Fed(runs[i])

RunsInv == RunsOrdered /\ Registered /\ OneUpstreamSession /\ BacklogInv

\* A buffer that may be written to was opened on the row that is there.
RowInv ==
    \A i \in DOMAIN runs :
        runs[i].feed \in {"open", "draining"} /\ runs[i].net \in Stored =>
            runs[i].row # 0 /\ row[runs[i].net].id = runs[i].row

CoreInv == TypeOK /\ RunsInv /\ LaneInv /\ RowInv

-----------------------------------------------------------------------------
\* What runs and what is stored.

Wanted(s) == row[s].on /\ owner = "active"
Current(s) == ~runs[slot[s]].told /\ runs[slot[s]].ver = row[s].ver
Agrees(s) == IF Wanted(s) THEN slot[s] # NoRun /\ Current(s) ELSE slot[s] = NoRun

Deletes == lane.op \in {"delete", "delete account"}
Removing == lane.phase \in {"remove", "stopping", "holding", "delete account"}

\* A stored network agrees with its row, or the lane has yet to see to it; what
\* the lane is to start is wanted, and what it only removes is not.
StoredWell ==
    /\ \A s \in Stored \ excused :
           Agrees(s) \/ s \in lane.todo \/ (lane.phase = "remove" /\ s \in lane.net)
    /\ \A s \in lane.todo : s \notin excused \/ (~Deletes /\ lane.answer = "none") => Wanted(s)
    /\ Removing => \A s \in lane.net \ lane.todo :
           s \notin excused \/ lane.op = "disable" => ~Wanted(s)
    /\ lane.phase = "ensure" => \A s \in lane.todo \ (replacing \cup excused) :
           slot[s] # NoRun => Current(s)

Due == CASE owner = "active" -> "no" [] owner = "suspended" -> "Suspended" [] OTHER -> "Deleted"

\* A configured network is held as the owner's account asks, or the lane has yet
\* to hold it or to release it.
ConfiguredWell ==
    /\ \A g \in Configured :
           IF lane.phase = "holding" THEN \E p \in lane.out : p[1] = g ELSE slot[g] # NoRun
    /\ \A g \in Configured : hold[g] = "Deleted" => owner = "deleted"
    /\ \A g \in Configured \ excused :
           \/ hold[g] = Due
           \/ lane.op = "suspend" \/ lane.phase = "delete account"
           \/ lane.phase = "ensure" /\ Releases
    /\ lane.op = "suspend" => owner = "suspended"
    /\ lane.op = "reactivate" => owner = "active"
    /\ lane.op = "delete account" =>
           IF lane.answer = "lost" THEN excused = Nets ELSE owner = lane.was

StandingInv == ~closed => StoredWell /\ ConfiguredWell

NetworksInv == CoreInv /\ StandingInv

-----------------------------------------------------------------------------
\* What the steps do to the runs.

LEMMA RunsFacts ==
    ASSUME runs \in Seq(Run)
    PROVE  /\ Len(runs) \in Nat /\ DOMAIN runs = 1 .. Len(runs)
           /\ \A i \in DOMAIN runs : runs[i] \in Run /\ i \in Nat /\ i # NoRun
<1>1. Len(runs) \in Nat /\ DOMAIN runs = 1 .. Len(runs)
  BY LenProperties
<1>2. \A i \in DOMAIN runs : runs[i] \in Run
  BY <1>1, ElementOfSeq
<1>3. \A i \in 1 .. Len(runs) : i \in Nat /\ i # 0
  BY <1>1
<1> QED
  BY <1>1, <1>2, <1>3 DEF NoRun

\* A run begins to stop.
Told(r, unwritten) == [r EXCEPT !.stop = "tell", !.unwritten = unwritten]

LEMMA TakeOutRuns ==
    ASSUME TypeOK, Registered, NEW S \in SUBSET Nets, NEW u \in {"Store", "Discard"}, TakeOut(S, u)
    PROVE  /\ runs' \in Seq(Run) /\ DOMAIN runs' = DOMAIN runs
           /\ slot' \in [Nets -> Nat]
           /\ \A n \in Nets : slot'[n] = IF n \in S THEN NoRun ELSE slot[n]
           /\ \A i \in DOMAIN runs :
                 runs'[i] = IF runs[i].stop = "no" /\ runs[i].net \in S
                            THEN Told(runs[i], u) ELSE runs[i]
<1>1. /\ Len(runs) \in Nat /\ DOMAIN runs = 1 .. Len(runs)
      /\ \A i \in DOMAIN runs : runs[i] \in Run /\ i \in Nat /\ i # NoRun
  BY RunsFacts DEF TypeOK
<1>2. ASSUME NEW i \in DOMAIN runs
      PROVE  (\E n \in S : slot[n] = i /\ runs[i].stop = "no")
                <=> (runs[i].stop = "no" /\ runs[i].net \in S)
  BY <1>1 DEF Registered
<1>3. runs' = [i \in DOMAIN runs |-> IF \E n \in S : slot[n] = i /\ runs[i].stop = "no"
                                     THEN Told(runs[i], u) ELSE runs[i]]
  BY DEF TakeOut, Told
<1>4. DOMAIN runs' = DOMAIN runs /\ \A i \in DOMAIN runs :
         runs'[i] = IF runs[i].stop = "no" /\ runs[i].net \in S THEN Told(runs[i], u) ELSE runs[i]
  BY <1>2, <1>3
<1>5. \A r \in Run : Told(r, u) \in Run
  <2>1. TAKE r \in Run
  <2>2. PICK q : q = [r EXCEPT !.stop = "tell"]
    OBVIOUS
  <2>3. q \in Run
    BY <2>2 DEF Run
  <2>4. [q EXCEPT !.unwritten = u] \in Run
    BY <2>3 DEF Run
  <2>5. Told(r, u) = [q EXCEPT !.unwritten = u]
    BY <2>2 DEF Told, Run
  <2> QED
    BY <2>4, <2>5
<1>6. runs' \in Seq(Run)
  <2>1. \A i \in 1 .. Len(runs) : runs'[i] \in Run
    BY <1>1, <1>4, <1>5
  <2>2. runs' \in [1 .. Len(runs) -> Run]
    BY <1>1, <1>3, <2>1
  <2> QED
    BY <1>1, <2>2
<1>7. slot' \in [Nets -> Nat] /\ \A n \in Nets : slot'[n] = IF n \in S THEN NoRun ELSE slot[n]
  BY DEF TakeOut, TypeOK, NoRun
<1> QED
  BY <1>4, <1>6, <1>7

LEMMA RunOfTyped ==
    ASSUME row \in [Stored -> RowState], NEW n \in Nets
    PROVE  /\ RunOf(n) \in Run /\ RunOf(n).net = n /\ RunOf(n).stop = "no"
           /\ RunOf(n).feed = "restoring" /\ ~RunOf(n).told /\ ~RunOf(n).late
           /\ RunOf(n).ver = IF n \in Stored THEN row[n].ver ELSE 0
<1>1. <<>> \in Seq(Nat)
  BY EmptySeq
<1>2. (IF n \in Stored THEN row[n].ver ELSE 0) \in Nat
  BY DEF RowState
<1>3. {} \in SUBSET Nat /\ 0 \in Nat
  OBVIOUS
<1> QED
  BY <1>1, <1>2, <1>3 DEF RunOf, Run

LEMMA InsertRuns ==
    ASSUME TypeOK, NEW n \in Nets, Insert(n)
    PROVE  LET j == Len(runs) + 1 IN
           /\ ~closed /\ j \in Nat /\ j \notin DOMAIN runs /\ j # NoRun
           /\ runs' \in Seq(Run) /\ DOMAIN runs' = DOMAIN runs \cup {j}
           /\ runs'[j] = RunOf(n) /\ \A i \in DOMAIN runs : runs'[i] = runs[i] /\ i < j
           /\ slot' \in [Nets -> Nat] /\ slot'[n] = j
           /\ \A m \in Nets \ {n} : slot'[m] = slot[m]
<1> DEFINE j == Len(runs) + 1
<1>1. /\ Len(runs) \in Nat /\ DOMAIN runs = 1 .. Len(runs)
      /\ \A i \in DOMAIN runs : runs[i] \in Run /\ i \in Nat /\ i # NoRun
  BY RunsFacts DEF TypeOK
<1>2. RunOf(n) \in Run
  BY RunOfTyped DEF TypeOK
<1>3. /\ runs' = Append(runs, RunOf(n)) /\ ~closed /\ slot' = [slot EXCEPT ![n] = j]
  BY DEF Insert
<1>4. /\ Append(runs, RunOf(n)) \in Seq(Run)
      /\ Len(Append(runs, RunOf(n))) = Len(runs) + 1
      /\ \A i \in 1 .. Len(runs) + 1 :
             Append(runs, RunOf(n))[i] = IF i <= Len(runs) THEN runs[i] ELSE RunOf(n)
  BY <1>2, AppendProperties DEF TypeOK
<1>5. runs' \in Seq(Run) /\ Len(runs') = j
      /\ \A i \in 1 .. j : runs'[i] = IF i <= Len(runs) THEN runs[i] ELSE RunOf(n)
  BY <1>3, <1>4
<1>6. DOMAIN runs' = 1 .. j
  BY <1>5, LenProperties
<1>7. j \in Nat /\ j \notin 1 .. Len(runs) /\ j # 0 /\ 1 .. j = (1 .. Len(runs)) \cup {j}
      /\ j \in 1 .. j /\ ~(j <= Len(runs))
      /\ \A i \in 1 .. Len(runs) : i <= Len(runs) /\ i < j /\ i \in 1 .. j
  BY <1>1
<1>8. slot' \in [Nets -> Nat] /\ slot'[n] = j /\ \A m \in Nets \ {n} : slot'[m] = slot[m]
  BY <1>3, <1>7 DEF TypeOK
<1> HIDE DEF j
<1>9. /\ ~closed /\ j \in Nat /\ j \notin DOMAIN runs /\ j # NoRun
      /\ runs' \in Seq(Run) /\ DOMAIN runs' = DOMAIN runs \cup {j}
      /\ runs'[j] = RunOf(n) /\ \A i \in DOMAIN runs : runs'[i] = runs[i] /\ i < j
  BY <1>1, <1>3, <1>5, <1>6, <1>7 DEF NoRun
<1> QED
  BY <1>8, <1>9 DEF j

LEMMA WithRuns ==
    ASSUME TypeOK, NEW i \in DOMAIN runs, NEW r \in Run, With(i, r)
    PROVE  /\ runs' \in Seq(Run) /\ DOMAIN runs' = DOMAIN runs
           /\ runs'[i] = r /\ \A j \in DOMAIN runs \ {i} : runs'[j] = runs[j]
<1>1. Len(runs) \in Nat /\ DOMAIN runs = 1 .. Len(runs)
  BY RunsFacts DEF TypeOK
<1>2. runs' \in Seq(Run)
  BY <1>1, ExceptSeq DEF With, TypeOK
<1> QED
  BY <1>2 DEF With

-----------------------------------------------------------------------------
\* One run's own steps.

\* What a run keeps of its place in the registry.
PlaceKept(r, q) ==
    /\ q.net = r.net /\ q.ver = r.ver
    /\ (q.up => r.up) /\ (r.told => q.told) /\ (r.late => q.late)
    /\ (q.stop = "no" <=> r.stop = "no") /\ (r.stop = "done" => q.stop = "done")
    /\ (r.stop = "no" => q.told = r.told)
    /\ (Stopping(q) => Stopping(r))

\* The row it may write to is the one it was opened on, or the one that is there.
WriterKept(r, q) ==
    q.feed \in {"open", "draining"} /\ q.net \in Stored =>
        \/ r.feed \in {"open", "draining"} /\ q.row = r.row
        \/ q.row # 0 /\ q.row = row[q.net].id

RunStep(r, q) ==
    q \in Run /\ Ordered(q) /\ PlaceKept(r, q) /\ Fed(q) /\ WriterKept(r, q)

LEMMA TellRun ==
    ASSUME NEW r \in Run, Ordered(r), Fed(r), r.stop = "tell"
    PROVE  RunStep(r, [r EXCEPT !.told = TRUE, !.stop = "wait"])
<1> DEFINE q == [r EXCEPT !.told = TRUE, !.stop = "wait"]
<1>1. q \in Run
  BY DEF Run
<1>2. Ordered(q) /\ PlaceKept(r, q) /\ WriterKept(r, q)
  BY DEF Run, Ordered, PlaceKept, WriterKept, Stopping
<1>3. Fed(q)
  BY DEF Run, Fed, Queued, Complete
<1> QED
  BY <1>1, <1>2, <1>3 DEF RunStep

LEMMA SignalRun ==
    ASSUME NEW r \in Run, Ordered(r), Fed(r), r.stop = "wait"
    PROVE  RunStep(r, [r EXCEPT !.stop = "join", !.late = r.up])
<1> DEFINE q == [r EXCEPT !.stop = "join", !.late = r.up]
<1>1. q \in Run
  BY DEF Run
<1>2. Ordered(q) /\ PlaceKept(r, q) /\ WriterKept(r, q)
  BY DEF Run, Ordered, PlaceKept, WriterKept, Stopping
<1>3. Fed(q)
  BY DEF Run, Fed, Queued, Complete, Ordered
<1> QED
  BY <1>1, <1>2, <1>3 DEF RunStep

LEMMA JoinRun ==
    ASSUME NEW r \in Run, Ordered(r), Fed(r), r.stop = "join"
    PROVE  RunStep(r, [r EXCEPT !.stop = "done", !.feed = "ended", !.queue = <<>>,
                                !.error = r.error \/ r.feed # "ended"])
<1> DEFINE q == [r EXCEPT !.stop = "done", !.feed = "ended", !.queue = <<>>,
                          !.error = r.error \/ r.feed # "ended"]
<1>1. q \in Run
  <2>1. <<>> \in Seq(Nat)
    BY EmptySeq
  <2>2. (r.error \/ r.feed # "ended") \in BOOLEAN
    BY Zenon
  <2> QED
    BY <2>1, <2>2 DEF Run
<1>2. Ordered(q) /\ PlaceKept(r, q) /\ WriterKept(r, q)
  BY DEF Run, Ordered, PlaceKept, WriterKept, Stopping
<1>3. Fed(q)
  BY DEF Run, Fed, Complete
<1> QED
  BY <1>1, <1>2, <1>3 DEF RunStep

LEMMA ParkRun ==
    ASSUME NEW r \in Run, Ordered(r), Fed(r)
    PROVE  RunStep(r, [r EXCEPT !.parked = TRUE]) /\ RunStep(r, [r EXCEPT !.up = FALSE])
<1> DEFINE p == [r EXCEPT !.parked = TRUE]
           q == [r EXCEPT !.up = FALSE]
<1>1. p \in Run /\ q \in Run
  BY DEF Run
<1>2. Ordered(p) /\ PlaceKept(r, p) /\ WriterKept(r, p)
  BY DEF Run, Ordered, PlaceKept, WriterKept, Stopping
<1>3. Ordered(q) /\ PlaceKept(r, q) /\ WriterKept(r, q)
  BY DEF Run, Ordered, PlaceKept, WriterKept, Stopping
<1>4. Fed(p)
  BY DEF Run, Fed, Queued, Complete
<1>5. Fed(q)
  BY DEF Run, Fed, Queued, Complete
<1> QED
  BY <1>1, <1>2, <1>3, <1>4, <1>5 DEF RunStep

LEMMA RestoreRun ==
    ASSUME NEW r \in Run, Ordered(r), Fed(r), r.feed = "restoring",
           NEW opened \in BOOLEAN, NEW rowId \in Nat,
           opened /\ r.net \in Stored => rowId # 0 /\ rowId = row[r.net].id
    PROVE  RunStep(r, [r EXCEPT !.feed = IF opened THEN "open" ELSE "ended",
                                !.row = IF opened THEN rowId ELSE 0,
                                !.queue = IF opened THEN @ ELSE <<>>,
                                !.error = ~opened])
<1>1. CASE opened
  <2> DEFINE q == [r EXCEPT !.feed = "open", !.row = rowId, !.error = FALSE]
  <2>1. q \in Run
    BY DEF Run
  <2>2. Ordered(q) /\ PlaceKept(r, q) /\ WriterKept(r, q)
    BY <1>1 DEF Run, Ordered, PlaceKept, WriterKept, Stopping
  <2>3. Fed(q)
    BY DEF Run, Fed, Queued, Complete
  <2>4. q = [r EXCEPT !.feed = IF opened THEN "open" ELSE "ended",
                      !.row = IF opened THEN rowId ELSE 0,
                      !.queue = IF opened THEN @ ELSE <<>>,
                      !.error = ~opened]
    BY <1>1 DEF Run
  <2> QED
    BY <2>1, <2>2, <2>3, <2>4 DEF RunStep
<1>2. CASE ~opened
  <2> DEFINE q == [r EXCEPT !.feed = "ended", !.row = 0, !.queue = <<>>, !.error = TRUE]
  <2>1. q \in Run
    <3>1. <<>> \in Seq(Nat)
      BY EmptySeq
    <3> QED
      BY <3>1 DEF Run
  <2>2. Ordered(q) /\ PlaceKept(r, q) /\ WriterKept(r, q)
    BY DEF Run, Ordered, PlaceKept, WriterKept, Stopping
  <2>3. Fed(q)
    BY DEF Run, Fed
  <2>4. q = [r EXCEPT !.feed = IF opened THEN "open" ELSE "ended",
                      !.row = IF opened THEN rowId ELSE 0,
                      !.queue = IF opened THEN @ ELSE <<>>,
                      !.error = ~opened]
    BY <1>2 DEF Run
  <2> QED
    BY <2>1, <2>2, <2>3, <2>4 DEF RunStep
<1> QED
  BY <1>1, <1>2

\* A queue of lines.
LEMMA QueueFacts ==
    ASSUME NEW s \in Seq(Nat), NEW x \in Nat
    PROVE  /\ Append(s, x) \in Seq(Nat) /\ Append(s, x) # <<>> /\ Queued(Append(s, x), x)
           /\ \A k : Queued(s, k) => Queued(Append(s, x), k)
           /\ Len(s) \in Nat /\ (Len(s) = 0 => s = <<>>)
           /\ s # <<>> =>
                 /\ Head(s) \in Nat /\ Tail(s) \in Seq(Nat) /\ Len(Tail(s)) = Len(s) - 1
                 /\ \A k : Queued(s, k) => k = Head(s) \/ Queued(Tail(s), k)
<1>1. Len(s) \in Nat /\ DOMAIN s = 1 .. Len(s)
  BY LenProperties
<1>2. Len(s) = 0 => s = <<>>
  BY EmptySeq
<1> DEFINE t == Append(s, x)
<1>3. /\ t \in Seq(Nat) /\ Len(t) = Len(s) + 1
      /\ \A i \in 1 .. Len(s) + 1 : t[i] = IF i <= Len(s) THEN s[i] ELSE x
      /\ t # <<>>
  BY AppendProperties
<1>4. DOMAIN t = 1 .. Len(t)
  BY <1>3, LenProperties
<1> HIDE DEF t
<1>5. Queued(t, x)
  <2>1. Len(t) \in DOMAIN t /\ t[Len(t)] = x
    BY <1>1, <1>3, <1>4
  <2> QED
    BY <2>1 DEF Queued
<1>6. \A k : Queued(s, k) => Queued(t, k)
  <2>1. \A i \in DOMAIN s : i \in DOMAIN t /\ t[i] = s[i]
    BY <1>1, <1>3, <1>4
  <2> QED
    BY <2>1 DEF Queued
<1>7. ASSUME s # <<>>
      PROVE  /\ Head(s) \in Nat /\ Tail(s) \in Seq(Nat) /\ Len(Tail(s)) = Len(s) - 1
             /\ \A k : Queued(s, k) => k = Head(s) \/ Queued(Tail(s), k)
  <2>1. /\ Head(s) \in Nat /\ Tail(s) \in Seq(Nat) /\ Len(Tail(s)) = Len(s) - 1
        /\ \A i \in 1 .. Len(Tail(s)) : Tail(s)[i] = s[i + 1]
    BY <1>7, HeadTailProperties
  <2>2. DOMAIN Tail(s) = 1 .. Len(Tail(s))
    BY <2>1, LenProperties
  <2>3. Head(s) = s[1]
    OBVIOUS
  <2>4. ASSUME NEW i \in DOMAIN s, i # 1
        PROVE  i - 1 \in DOMAIN Tail(s) /\ Tail(s)[i - 1] = s[i]
    <3>1. i - 1 \in 1 .. Len(Tail(s)) /\ (i - 1) + 1 = i
      BY <1>1, <2>1, <2>4
    <3> QED
      BY <2>1, <2>2, <3>1
  <2> QED
    BY <2>1, <2>3, <2>4 DEF Queued
<1> QED
  BY <1>1, <1>2, <1>3, <1>5, <1>6, <1>7 DEF t

LEMMA SayRun ==
    ASSUME NEW r \in Run, Ordered(r), Fed(r), r.up, NEW full \in BOOLEAN,
           full => r.queue # <<>>
    PROVE  RunStep(r, [r EXCEPT !.said = @ + 1,
                                !.queue = IF r.feed = "ended" THEN <<>>
                                          ELSE Append(IF full THEN Tail(@) ELSE @, r.said + 1),
                                !.missed = IF full /\ r.feed # "ended" THEN @ + 1 ELSE @])
<1>1. r.said \in Nat /\ r.said + 1 \in Nat /\ r.missed \in Nat /\ r.queue \in Seq(Nat)
      /\ r.missed + 1 \in Nat /\ r.missed + 1 > 0
  BY DEF Run
<1>2. CASE r.feed = "ended"
  <2> DEFINE q == [r EXCEPT !.said = r.said + 1, !.queue = <<>>]
  <2>1. q \in Run
    <3>1. <<>> \in Seq(Nat)
      BY EmptySeq
    <3> QED
      BY <1>1, <3>1 DEF Run
  <2>2. Ordered(q) /\ PlaceKept(r, q) /\ WriterKept(r, q)
    BY <1>2 DEF Run, Ordered, PlaceKept, WriterKept, Stopping
  <2>3. Fed(q)
    BY <1>2 DEF Run, Fed, Ordered
  <2>4. q = [r EXCEPT !.said = @ + 1,
                      !.queue = IF r.feed = "ended" THEN <<>>
                                ELSE Append(IF full THEN Tail(@) ELSE @, r.said + 1),
                      !.missed = IF full /\ r.feed # "ended" THEN @ + 1 ELSE @]
    BY <1>2 DEF Run
  <2> QED
    BY <2>1, <2>2, <2>3, <2>4 DEF RunStep
<1>3. CASE r.feed # "ended"
  <2>1. PICK s \in Seq(Nat) : s = IF full THEN Tail(r.queue) ELSE r.queue
    BY <1>1, QueueFacts
  <2>2. PICK m \in Nat : m = IF full THEN r.missed + 1 ELSE r.missed
    BY <1>1
  <2>3. PICK t \in Seq(Nat) : t = Append(s, r.said + 1)
    BY <1>1, QueueFacts
  <2>4. t # <<>> /\ Queued(t, r.said + 1) /\ \A k : Queued(s, k) => Queued(t, k)
    BY <1>1, <2>3, QueueFacts
  <2> DEFINE q == [r EXCEPT !.said = r.said + 1, !.queue = t, !.missed = m]
  <2>5. q \in Run
    BY <1>1 DEF Run
  <2>6. Ordered(q) /\ PlaceKept(r, q) /\ WriterKept(r, q)
    BY DEF Run, Ordered, PlaceKept, WriterKept, Stopping
  <2>7. Fed(q)
    <3>1. m = 0 => r.missed = 0 /\ s = r.queue
      BY <1>1, <2>1, <2>2
    <3>2. \A k \in 1 .. r.said + 1 : k \in 1 .. r.said \/ k = r.said + 1
      BY <1>1
    <3>3. ASSUME ~r.error, ~r.late, r.unwritten # "Discard"
          PROVE  /\ m = 0 => \A k \in 1 .. r.said + 1 : k \in r.kept \/ Queued(t, k)
                 /\ r.feed # "draining"
      <4>1. r.feed # "draining"
        BY <3>3 DEF Fed, Ordered
      <4>2. r.missed = 0 => \A k \in 1 .. r.said : k \in r.kept \/ Queued(r.queue, k)
        BY <1>3, <3>3 DEF Fed
      <4> QED
        BY <2>4, <3>1, <3>2, <4>1, <4>2
    <3> QED
      BY <1>3, <2>4, <3>3 DEF Run, Fed
  <2>8. q = [r EXCEPT !.said = @ + 1,
                      !.queue = IF r.feed = "ended" THEN <<>>
                                ELSE Append(IF full THEN Tail(@) ELSE @, r.said + 1),
                      !.missed = IF full /\ r.feed # "ended" THEN @ + 1 ELSE @]
    BY <1>3, <2>1, <2>2, <2>3 DEF Run
  <2> HIDE DEF q
  <2> QED
    BY <2>5, <2>6, <2>7, <2>8 DEF RunStep
<1> QED
  BY <1>2, <1>3

\* A stopped run whose lines are all seen to ends complete.
LEMMA EndRun ==
    ASSUME NEW r \in Run, Ordered(r), Fed(r), r.feed # "ended", r.stop \in {"join", "done"},
           \/ r.unwritten = "Discard"
           \/ r.feed = "draining" /\ (r.left = 0 \/ r.queue = <<>>)
    PROVE  RunStep(r, [r EXCEPT !.feed = "ended", !.queue = <<>>])
<1> DEFINE q == [r EXCEPT !.feed = "ended", !.queue = <<>>]
<1>1. q \in Run
  <2>1. <<>> \in Seq(Nat)
    BY EmptySeq
  <2> QED
    BY <2>1 DEF Run
<1>2. Ordered(q) /\ PlaceKept(r, q) /\ WriterKept(r, q)
  BY DEF Run, Ordered, PlaceKept, WriterKept, Stopping
<1>3. ASSUME ~r.error, ~r.late, r.unwritten # "Discard"
      PROVE  Complete(r)
  <2>1. r.queue \in Seq(Nat) /\ r.left \in Nat /\ r.missed \in Nat
    BY DEF Run
  <2>2. Len(r.queue) \in Nat /\ (Len(r.queue) = 0 => r.queue = <<>>)
    BY <2>1, QueueFacts
  <2>3. /\ r.left >= Len(r.queue) /\ (r.missed > 0 => r.left > Len(r.queue))
        /\ r.missed > 0 => r.queue # <<>>
        /\ r.missed = 0 => \A k \in 1 .. r.said : k \in r.kept \/ Queued(r.queue, k)
    BY <1>3 DEF Fed
  <2>4. r.queue = <<>>
    <3>1. r.left = 0 => Len(r.queue) = 0
      BY <2>1, <2>2, <2>3
    <3> QED
      BY <1>3, <2>2, <3>1
  <2>5. r.missed = 0
    BY <2>1, <2>3, <2>4
  <2>6. \A k : ~Queued(<<>>, k)
    BY DEF Queued
  <2> QED
    BY <2>3, <2>4, <2>5, <2>6 DEF Complete
<1>4. Fed(q)
  BY <1>3 DEF Run, Fed, Complete
<1> QED
  BY <1>1, <1>2, <1>4 DEF RunStep

LEMMA ReceivedRun ==
    ASSUME NEW r \in Run, Ordered(r), Fed(r), r.feed \in {"open", "draining"}, r.queue # <<>>,
           NEW fails \in BOOLEAN, NEW left \in Nat, r.feed = "draining" => r.left = left + 1
    PROVE  RunStep(r, [Received(r, fails) EXCEPT !.left = left])
<1>1. r.queue \in Seq(Nat) /\ r.left \in Nat /\ r.missed \in Nat
  BY DEF Run
<1>2. /\ Head(r.queue) \in Nat /\ Tail(r.queue) \in Seq(Nat)
      /\ Len(r.queue) \in Nat /\ Len(Tail(r.queue)) = Len(r.queue) - 1
      /\ \A k : Queued(r.queue, k) => k = Head(r.queue) \/ Queued(Tail(r.queue), k)
  BY <1>1, QueueFacts
<1>3. CASE r.missed > 0
  <2> DEFINE q == [r EXCEPT !.missed = 0, !.error = TRUE, !.left = left]
  <2>1. q \in Run
    BY DEF Run
  <2>2. Ordered(q) /\ PlaceKept(r, q) /\ WriterKept(r, q)
    BY DEF Run, Ordered, PlaceKept, WriterKept, Stopping
  <2>3. Fed(q)
    BY DEF Run, Fed
  <2>4. q = [Received(r, fails) EXCEPT !.left = left]
    BY <1>3 DEF Run, Received
  <2> QED
    BY <2>1, <2>2, <2>3, <2>4 DEF RunStep
<1>4. CASE ~(r.missed > 0)
  <2>1. PICK t \in Seq(Nat) : t = Tail(r.queue)
    BY <1>2
  <2>2. PICK b \in BOOLEAN : b = (r.error \/ fails)
    BY Zenon
  <2>3. PICK w \in SUBSET Nat : w = IF fails THEN r.kept ELSE r.kept \cup {Head(r.queue)}
    BY <1>2 DEF Run
  <2> DEFINE q == [r EXCEPT !.queue = t, !.error = b, !.kept = w, !.left = left]
  <2>4. q \in Run
    BY DEF Run
  <2>5. Ordered(q) /\ PlaceKept(r, q) /\ WriterKept(r, q)
    BY DEF Run, Ordered, PlaceKept, WriterKept, Stopping
  <2>6. r.missed = 0
    BY <1>1, <1>4
  <2>7. ASSUME ~b, ~r.late, r.unwritten # "Discard"
        PROVE  /\ \A k \in 1 .. r.said : k \in w \/ Queued(t, k)
               /\ r.feed = "draining" => left >= Len(t)
    <3>1. ~r.error /\ ~fails
      BY <2>2, <2>7
    <3>2. /\ \A k \in 1 .. r.said : k \in r.kept \/ Queued(r.queue, k)
          /\ r.feed = "draining" => r.left >= Len(r.queue)
      BY <2>6, <2>7, <3>1 DEF Fed
    <3>3. r.feed = "draining" => left >= Len(t)
      BY <1>1, <1>2, <2>1, <3>2
    <3> QED
      BY <1>2, <2>1, <2>3, <3>1, <3>2, <3>3
  <2>8. r.stop # "done" /\ (r.feed = "draining" => r.stop = "join")
    BY DEF Fed
  <2>9. Fed(q)
    BY <2>6, <2>7, <2>8 DEF Run, Fed
  <2>10. q = [Received(r, fails) EXCEPT !.left = left]
    BY <1>4, <2>1, <2>2, <2>3 DEF Run, Received
  <2> HIDE DEF q
  <2> QED
    BY <2>4, <2>5, <2>9, <2>10 DEF RunStep
<1> QED
  BY <1>3, <1>4

LEMMA DrainRun ==
    ASSUME NEW r \in Run, Ordered(r), Fed(r), r.feed = "open", r.stop = "join"
    PROVE  RunStep(r, [r EXCEPT !.feed = "draining", !.left = Len(r.queue) + r.missed])
<1>1. r.queue \in Seq(Nat) /\ r.missed \in Nat
  BY DEF Run
<1>2. Len(r.queue) \in Nat
  BY <1>1, QueueFacts
<1>3. PICK n \in Nat : n = Len(r.queue) + r.missed
  BY <1>1, <1>2
<1>4. n >= Len(r.queue) /\ (r.missed > 0 => n > Len(r.queue))
  BY <1>1, <1>2, <1>3
<1> DEFINE q == [r EXCEPT !.feed = "draining", !.left = n]
<1>5. q \in Run
  BY DEF Run
<1>6. Ordered(q) /\ PlaceKept(r, q) /\ WriterKept(r, q)
  BY DEF Run, Ordered, PlaceKept, WriterKept, Stopping
<1>7. Fed(q)
  BY <1>4 DEF Run, Fed
<1> QED
  BY <1>3, <1>5, <1>6, <1>7 DEF RunStep

\* The variables a run's own step leaves alone.
Settled == <<row, owner, slot, hold, replacing, closed, lane, ops, excused>>

RunAction(i) == StopStep(i) \/ FeedStep(i) \/ Say(i) \/ Park(i) \/ Release(i)

\* Every step of a run is one that RunStep allows it, and no other run moves.
LEMMA RunActions ==
    ASSUME TypeOK, NEW i \in DOMAIN runs, Ordered(runs[i]), Fed(runs[i]), RunAction(i)
    PROVE  /\ UNCHANGED Settled /\ runs' \in Seq(Run) /\ DOMAIN runs' = DOMAIN runs
           /\ RunStep(runs[i], runs'[i])
           /\ \A j \in DOMAIN runs \ {i} : runs'[j] = runs[j]
<1>1. UNCHANGED Settled
  BY DEF RunAction, StopStep, FeedStep, Tell, Signal, Join, Restore, Persist, TakeStop, Drain,
         Say, Park, Release, RunFrame, Settled, database, registry
<1>2. runs[i] \in Run
  BY RunsFacts DEF TypeOK
<1>3. PICK r \in Run : r = runs[i]
  BY <1>2
<1>4. SUFFICES \E q : RunStep(r, q) /\ With(i, q)
  <2>1. PICK q : RunStep(r, q) /\ With(i, q)
    BY <1>4
  <2>2. q \in Run
    BY <2>1 DEF RunStep
  <2> QED
    BY <1>1, <1>3, <2>1, <2>2, WithRuns
<1>5. CASE Tell(i)
  BY <1>3, <1>5, TellRun DEF Tell
<1>6. CASE Signal(i)
  BY <1>3, <1>6, SignalRun DEF Signal
<1>7. CASE Join(i)
  BY <1>3, <1>7, JoinRun DEF Join
<1>8. CASE Park(i)
  BY <1>3, <1>8, ParkRun DEF Park
<1>9. CASE Release(i)
  BY <1>3, <1>9, ParkRun DEF Release
<1>10. CASE Restore(i)
  <2>1. PICK rowId \in Nat : rowId = IF r.net \in Stored THEN row[r.net].id ELSE 0
    BY DEF TypeOK, RowState
  <2>2. PICK fails \in BOOLEAN :
          With(i, [r EXCEPT
                     !.feed = IF ~fails /\ (r.net \in Stored => rowId # 0) THEN "open" ELSE "ended",
                     !.row = IF ~fails /\ (r.net \in Stored => rowId # 0) THEN rowId ELSE 0,
                     !.queue = IF ~fails /\ (r.net \in Stored => rowId # 0) THEN @ ELSE <<>>,
                     !.error = ~(~fails /\ (r.net \in Stored => rowId # 0))])
    BY <1>3, <1>10, <2>1 DEF Restore
  <2>3. PICK opened \in BOOLEAN : opened = (~fails /\ (r.net \in Stored => rowId # 0))
    BY Zenon
  <2>4. With(i, [r EXCEPT !.feed = IF opened THEN "open" ELSE "ended",
                          !.row = IF opened THEN rowId ELSE 0,
                          !.queue = IF opened THEN @ ELSE <<>>,
                          !.error = ~opened])
    BY <2>2, <2>3
  <2>5. opened /\ r.net \in Stored => rowId # 0 /\ rowId = row[r.net].id
    BY <2>1, <2>3
  <2>6. r.feed = "restoring"
    BY <1>3, <1>10 DEF Restore
  <2> QED
    BY <1>3, <2>4, <2>5, <2>6, RestoreRun
<1>11. CASE Persist(i)
  <2>1. PICK fails \in BOOLEAN : With(i, Received(r, fails))
    BY <1>3, <1>11 DEF Persist
  <2>2. r.feed = "open" /\ r.queue # <<>> /\ r.left \in Nat
    BY <1>3, <1>11 DEF Persist, Run
  <2>3. Received(r, fails) = [Received(r, fails) EXCEPT !.left = r.left]
    BY DEF Received, Run
  <2>4. RunStep(r, [Received(r, fails) EXCEPT !.left = r.left])
    BY <1>3, <2>2, ReceivedRun
  <2> QED
    BY <2>1, <2>3, <2>4
<1>12. CASE TakeStop(i)
  <2>1. r.feed = "open" /\ r.stop = "join" /\ r.unwritten \in {"Store", "Discard"}
    BY <1>3, <1>12 DEF TakeStop, Ordered, Run
  <2>2. CASE r.unwritten = "Store"
    <3>1. With(i, [r EXCEPT !.feed = "draining", !.left = Len(r.queue) + r.missed])
      BY <1>3, <1>12, <2>2 DEF TakeStop
    <3> QED
      BY <1>3, <2>1, <3>1, DrainRun
  <2>3. CASE r.unwritten # "Store"
    <3>1. With(i, [r EXCEPT !.feed = "ended", !.queue = <<>>])
      BY <1>3, <1>12, <2>3 DEF TakeStop
    <3> QED
      BY <1>3, <2>1, <2>3, <3>1, EndRun
  <2> QED
    BY <2>2, <2>3
<1>13. CASE Drain(i)
  <2>1. r.feed = "draining" /\ r.left \in Nat
    BY <1>3, <1>13 DEF Drain, Run
  <2>2. CASE r.left = 0 \/ r.queue = <<>>
    <3>1. With(i, [r EXCEPT !.feed = "ended", !.queue = <<>>])
      BY <1>3, <1>13, <2>2 DEF Drain
    <3>2. r.stop \in {"join", "done"}
      BY <1>3, <2>1 DEF Fed
    <3> QED
      BY <1>3, <2>1, <2>2, <3>1, <3>2, EndRun
  <2>3. CASE ~(r.left = 0 \/ r.queue = <<>>)
    <3>1. PICK fails \in BOOLEAN : With(i, [Received(r, fails) EXCEPT !.left = @ - 1])
      BY <1>3, <1>13, <2>3 DEF Drain
    <3>2. PICK left \in Nat : r.left = left + 1
      <4>1. r.left - 1 \in Nat /\ r.left = (r.left - 1) + 1
        BY <2>1, <2>3
      <4> QED
        BY <4>1
    <3>3. Received(r, fails).left = r.left
      BY DEF Received, Run
    <3>4. r.left - 1 = left
      BY <3>2
    <3>5. [Received(r, fails) EXCEPT !.left = @ - 1] = [Received(r, fails) EXCEPT !.left = left]
      BY <3>3, <3>4
    <3> QED
      BY <1>3, <2>1, <2>3, <3>1, <3>2, <3>5, ReceivedRun
  <2> QED
    BY <2>2, <2>3
<1>14. CASE Say(i)
  <2>1. PICK full \in BOOLEAN : full = (Len(r.queue) = Cap)
    BY Zenon
  <2>2. /\ r.up
        /\ With(i, [r EXCEPT !.said = @ + 1,
                             !.queue = IF r.feed = "ended" THEN <<>>
                                       ELSE Append(IF full THEN Tail(@) ELSE @, r.said + 1),
                             !.missed = IF full /\ r.feed # "ended" THEN @ + 1 ELSE @])
    BY <1>3, <1>14, <2>1 DEF Say
  <2>3. full => r.queue # <<>>
    <3>1. r.queue \in Seq(Nat) /\ Cap # 0
      BY NetworksAssumption DEF Run
    <3> QED
      BY <2>1, <3>1, EmptySeq
  <2> QED
    BY <1>3, <2>2, <2>3, SayRun
<1> QED
  BY <1>5, <1>6, <1>7, <1>8, <1>9, <1>10, <1>11, <1>12, <1>13, <1>14
     DEF RunAction, StopStep, FeedStep

-----------------------------------------------------------------------------
\* What holds of the runs and their slots, over each kind of step.

LEMMA TakeOutKeeps ==
    ASSUME TypeOK, RunsInv, NEW S \in SUBSET Nets, NEW u \in {"Store", "Discard"}, TakeOut(S, u),
           UNCHANGED hold
    PROVE  RunsInv' /\ (UNCHANGED row /\ RowInv => RowInv')
<1> USE DEF RunsInv
<1>1. /\ runs' \in Seq(Run) /\ DOMAIN runs' = DOMAIN runs
      /\ \A n \in Nets : slot'[n] = IF n \in S THEN NoRun ELSE slot[n]
      /\ \A i \in DOMAIN runs :
            runs'[i] = IF runs[i].stop = "no" /\ runs[i].net \in S
                       THEN Told(runs[i], u) ELSE runs[i]
  BY TakeOutRuns
<1>2. \A i \in DOMAIN runs : runs[i] \in Run /\ i # NoRun
  BY RunsFacts DEF TypeOK
<1>3. ASSUME NEW r \in Run
      PROVE  /\ Told(r, u).net = r.net /\ Told(r, u).up = r.up /\ Told(r, u).told = r.told
             /\ Told(r, u).late = r.late /\ Told(r, u).feed = r.feed /\ Told(r, u).row = r.row
             /\ Told(r, u).stop = "tell"
             /\ Ordered(r) /\ r.stop = "no" => Ordered(Told(r, u))
             /\ Ordered(r) /\ Fed(r) /\ r.stop = "no" => Fed(Told(r, u))
  <2>1. Ordered(r) /\ r.stop = "no" => Ordered(Told(r, u))
    BY DEF Run, Told, Ordered
  <2>2. Ordered(r) /\ Fed(r) /\ r.stop = "no" => Fed(Told(r, u))
    BY DEF Run, Told, Ordered, Fed, Complete
  <2> QED
    BY <2>1, <2>2 DEF Run, Told
<1>4. ASSUME NEW i \in DOMAIN runs
      PROVE  /\ runs'[i].net = runs[i].net /\ runs'[i].up = runs[i].up
             /\ runs'[i].told = runs[i].told /\ runs'[i].late = runs[i].late
             /\ runs'[i].feed = runs[i].feed /\ runs'[i].row = runs[i].row
             /\ Ordered(runs'[i]) /\ Fed(runs'[i])
             /\ runs'[i].stop = "no" <=> (runs[i].stop = "no" /\ runs[i].net \notin S)
             /\ runs[i].net \notin S => runs'[i] = runs[i]
             /\ runs[i].stop # "no" => runs'[i] = runs[i]
  <2>1. runs[i] \in Run /\ Ordered(runs[i]) /\ Fed(runs[i])
    BY <1>2 DEF RunsOrdered, BacklogInv
  <2>2. CASE runs[i].stop = "no" /\ runs[i].net \in S
    <3>1. runs'[i] = Told(runs[i], u)
      BY <1>1, <2>2
    <3> QED
      BY <1>3, <2>1, <2>2, <3>1
  <2>3. CASE ~(runs[i].stop = "no" /\ runs[i].net \in S)
    <3>1. runs'[i] = runs[i]
      BY <1>1, <2>3
    <3> QED
      BY <2>1, <2>3, <3>1
  <2> QED
    BY <2>2, <2>3
<1>5. RunsOrdered' /\ BacklogInv'
  BY <1>1, <1>4 DEF RunsOrdered, BacklogInv
<1>6. OneUpstreamSession'
  BY <1>1, <1>4 DEF OneUpstreamSession
<1>7. UNCHANGED row /\ RowInv => RowInv'
  BY <1>1, <1>4 DEF RowInv
<1>8. Registered'
  <2>1. ASSUME NEW n \in Nets, slot'[n] # NoRun
        PROVE  /\ slot'[n] \in DOMAIN runs' /\ runs'[slot'[n]].net = n
               /\ runs'[slot'[n]].stop = IF IsHeld(n) THEN "done" ELSE "no"
    <3>1. n \notin S /\ slot'[n] = slot[n]
      BY <1>1, <2>1
    <3>2. /\ slot[n] \in DOMAIN runs /\ runs[slot[n]].net = n
          /\ runs[slot[n]].stop = IF IsHeld(n) THEN "done" ELSE "no"
      BY <2>1, <3>1 DEF Registered
    <3> QED
      BY <1>1, <1>4, <3>1, <3>2
  <2>2. ASSUME NEW i \in DOMAIN runs', runs'[i].stop = "no"
        PROVE  slot'[runs'[i].net] = i
    <3>1. /\ runs[i].stop = "no" /\ runs[i].net \notin S /\ runs'[i] = runs[i]
          /\ runs[i].net \in Nets
      BY <1>1, <1>2, <1>4, <2>2 DEF Run
    <3> QED
      BY <1>1, <3>1 DEF Registered
  <2>3. \A n \in Nets : IsHeld(n)' <=> IsHeld(n)
    BY DEF IsHeld
  <2> QED
    BY <2>1, <2>2, <2>3 DEF Registered
<1> QED
  BY <1>5, <1>6, <1>7, <1>8

\* A start: nothing of the key is stopping, and nothing of it runs.
LEMMA InsertKeeps ==
    ASSUME TypeOK, RunsInv, Quiet, NEW n \in Nets, Insert(n),
           slot[n] = NoRun \/ IsHeld(n), ~IsHeld(n)',
           \A m \in Nets \ {n} : IsHeld(m)' <=> IsHeld(m)
    PROVE  RunsInv' /\ Quiet' /\ (UNCHANGED row /\ RowInv => RowInv')
<1> USE DEF RunsInv
<1>1. PICK j : j = Len(runs) + 1
  OBVIOUS
<1>2. /\ j \notin DOMAIN runs /\ j # NoRun
      /\ runs' \in Seq(Run) /\ DOMAIN runs' = DOMAIN runs \cup {j}
      /\ runs'[j] = RunOf(n) /\ \A i \in DOMAIN runs : runs'[i] = runs[i] /\ i < j
      /\ slot'[n] = j /\ \A m \in Nets \ {n} : slot'[m] = slot[m]
  BY <1>1, InsertRuns
<1>3. /\ RunOf(n) \in Run /\ RunOf(n).net = n /\ RunOf(n).stop = "no"
      /\ RunOf(n).feed = "restoring" /\ ~RunOf(n).told /\ ~RunOf(n).late
  BY RunOfTyped DEF TypeOK
<1>4. Ordered(RunOf(n))
  BY <1>3 DEF Ordered, RunOf
<1>5. Fed(RunOf(n))
  <2>1. RunOf(n).missed = 0 /\ RunOf(n).said = 0 /\ RunOf(n).error = FALSE
    BY DEF RunOf
  <2> QED
    BY <1>3, <2>1 DEF Fed
<1>6. \A i \in DOMAIN runs : runs[i] \in Run /\ runs[i].net \in Nets
  BY RunsFacts DEF TypeOK, Run
\* Every earlier run of the key has been stopped.
<1>7. ASSUME NEW i \in DOMAIN runs, runs[i].net = n
      PROVE  runs[i].stop = "done"
  <2>1. runs[i].stop # "no"
    BY <1>2, <1>7, RunsFacts DEF Registered, TypeOK
  <2> QED
    BY <1>6, <2>1 DEF Quiet, Stopping, Run
<1>8. RunsOrdered' /\ BacklogInv'
  BY <1>2, <1>4, <1>5 DEF RunsOrdered, BacklogInv
<1>9. Quiet'
  BY <1>2, <1>3 DEF Quiet, Stopping
<1>10. UNCHANGED row /\ RowInv => RowInv'
  BY <1>2, <1>3 DEF RowInv
<1>11. OneUpstreamSession'
  <2> SUFFICES ASSUME NEW i \in DOMAIN runs', NEW k \in DOMAIN runs', i < k,
                      runs'[i].net = runs'[k].net, runs'[i].up, runs'[k].up
               PROVE  runs'[i].told /\ runs'[i].late
    BY DEF OneUpstreamSession
  <2>1. i \in DOMAIN runs
    <3>1. Len(runs) \in Nat /\ DOMAIN runs = 1 .. Len(runs)
      BY RunsFacts DEF TypeOK
    <3>2. \A k1 \in 1 .. Len(runs) : ~(j < k1)
      BY <1>1, <3>1
    <3>3. ~(j < j)
      BY <1>1, <3>1
    <3> QED
      BY <1>2, <3>1, <3>2, <3>3
  <2>2. CASE k \in DOMAIN runs
    BY <1>2, <2>1, <2>2 DEF OneUpstreamSession
  <2>3. CASE k = j
    <3>1. runs[i].net = n /\ runs[i].up /\ runs'[i] = runs[i]
      BY <1>2, <1>3, <2>1, <2>3
    <3>2. runs[i].stop = "done"
      BY <1>7, <2>1, <3>1
    <3> QED
      BY <2>1, <3>1, <3>2 DEF RunsOrdered, Ordered
  <2> QED
    BY <1>2, <2>2, <2>3
<1>12. Registered'
  <2>1. ASSUME NEW m \in Nets, slot'[m] # NoRun
        PROVE  /\ slot'[m] \in DOMAIN runs' /\ runs'[slot'[m]].net = m
               /\ runs'[slot'[m]].stop = IF IsHeld(m)' THEN "done" ELSE "no"
    <3>1. CASE m = n
      BY <1>2, <1>3, <3>1
    <3>2. CASE m # n
      <4>1. slot'[m] = slot[m] /\ (IsHeld(m)' <=> IsHeld(m))
        BY <1>2, <3>2
      <4>2. /\ slot[m] \in DOMAIN runs /\ runs[slot[m]].net = m
            /\ runs[slot[m]].stop = IF IsHeld(m) THEN "done" ELSE "no"
        BY <2>1, <4>1 DEF Registered
      <4> QED
        BY <1>2, <4>1, <4>2
    <3> QED
      BY <3>1, <3>2
  <2>2. ASSUME NEW i \in DOMAIN runs', runs'[i].stop = "no"
        PROVE  slot'[runs'[i].net] = i
    <3>1. CASE i = j
      BY <1>2, <1>3, <3>1
    <3>2. CASE i # j
      <4>1. i \in DOMAIN runs /\ runs'[i] = runs[i]
        BY <1>2, <3>2
      <4>2. runs[i].net # n
        BY <1>7, <2>2, <4>1
      <4> QED
        BY <1>2, <1>6, <2>2, <4>1, <4>2 DEF Registered
    <3> QED
      BY <3>1, <3>2
  <2> QED
    BY <2>1, <2>2 DEF Registered
<1> QED
  BY <1>8, <1>9, <1>10, <1>11, <1>12

LEMMA RunActionKeeps ==
    ASSUME TypeOK, RunsInv, NEW i \in DOMAIN runs, RunAction(i)
    PROVE  /\ RunsInv' /\ TypeOK' /\ UNCHANGED Settled
           /\ (Quiet => Quiet') /\ (RowInv => RowInv')
           /\ DOMAIN runs' = DOMAIN runs
           /\ \A j \in DOMAIN runs :
                 /\ runs'[j].net = runs[j].net /\ runs'[j].ver = runs[j].ver
                 /\ (runs'[j].stop = "no" <=> runs[j].stop = "no")
                 /\ (runs[j].stop = "no" => runs'[j].told = runs[j].told)
<1> USE DEF RunsInv
<1>1. /\ UNCHANGED Settled /\ runs' \in Seq(Run) /\ DOMAIN runs' = DOMAIN runs
      /\ RunStep(runs[i], runs'[i])
      /\ \A j \in DOMAIN runs \ {i} : runs'[j] = runs[j]
  BY RunActions DEF RunsOrdered, BacklogInv
<1>2. ASSUME NEW j \in DOMAIN runs
      PROVE  Ordered(runs'[j]) /\ Fed(runs'[j]) /\ PlaceKept(runs[j], runs'[j])
             /\ WriterKept(runs[j], runs'[j])
  <2>1. CASE j = i
    BY <1>1, <2>1 DEF RunStep
  <2>2. CASE j # i
    <3>1. PlaceKept(runs[j], runs[j]) /\ WriterKept(runs[j], runs[j])
      BY DEF PlaceKept, WriterKept
    <3> QED
      BY <1>1, <2>2, <3>1 DEF RunsOrdered, BacklogInv
  <2> QED
    BY <2>1, <2>2
<1>3. TypeOK'
  BY <1>1 DEF TypeOK, Settled
<1>4. RunsOrdered' /\ BacklogInv'
  BY <1>1, <1>2 DEF RunsOrdered, BacklogInv
<1>5. OneUpstreamSession'
  BY <1>1, <1>2 DEF OneUpstreamSession, PlaceKept
<1>6. Quiet => Quiet'
  BY <1>1, <1>2 DEF Quiet, PlaceKept
<1>7. RowInv => RowInv'
  BY <1>1, <1>2 DEF RowInv, WriterKept, PlaceKept, Settled
<1>8. Registered'
  <2>1. UNCHANGED <<slot, hold>>
    BY <1>1 DEF Settled
  <2>2. \A n \in Nets : IsHeld(n)' <=> IsHeld(n)
    BY <2>1 DEF IsHeld
  <2> QED
    BY <1>1, <1>2, <2>1, <2>2 DEF Registered, PlaceKept
<1> QED
  BY <1>1, <1>2, <1>3, <1>4, <1>5, <1>6, <1>7, <1>8 DEF PlaceKept

-----------------------------------------------------------------------------
\* Operations entering the lane.

\* An operation just entered, at its first await.
Begun(l) ==
    /\ l \in LaneState /\ l.out = {} /\ l.answer = "none"
    /\ \/ l = Free
       \/ l.op \in {"create", "update"} /\ l.phase = "supersede"
       \/ l.op \in {"enable", "reactivate"} /\ l.phase = "ensure"
       \/ l.op \in {"disable", "delete", "suspend", "delete account"} /\ l.phase = "remove"
    /\ l.op = "delete" => l.todo \subseteq l.net /\ \E s \in Stored : l.net = {s}
    /\ l.op \in {"disable", "suspend"} => l.todo = {}
    /\ l.op \in {"suspend", "delete account"} => l.net = Stored

LEMMA FreeBegun == Begun(Free) /\ Free.phase = "free" /\ Free.todo = {} /\ Free.out = {}
BY DEF Begun, Free, LaneState

\* The rows that are written to keep their creation.
RowsKept == \A s \in Stored : row'[s].id = row[s].id \/ row[s].id = 0

LEMMA RowsKeptInv ==
    ASSUME TypeOK, RowInv, RowsKept, UNCHANGED runs
    PROVE  RowInv'
<1>1. \A i \in DOMAIN runs : runs[i].row \in Nat
  BY RunsFacts DEF TypeOK, Run
<1> QED
  BY <1>1 DEF RowInv, RowsKept

LEMMA RunsStand ==
    ASSUME RunsInv, UNCHANGED <<runs, slot, hold>>
    PROVE  RunsInv' /\ (Quiet => Quiet')
<1>1. Registered'
  BY DEF RunsInv, Registered, IsHeld
<1> QED
  BY <1>1 DEF RunsInv, RunsOrdered, OneUpstreamSession, BacklogInv, Quiet

LEMMA EnterKeeps ==
    ASSUME CoreInv, lane = Free, UNCHANGED <<slot, hold, replacing, closed, runs>>,
           row' \in [Stored -> RowState], RowsKept, owner' \in {"active", "suspended", "deleted"},
           ops' \in Nat, excused' \subseteq Nets, Begun(lane')
    PROVE  CoreInv'
<1> USE DEF CoreInv, LaneInv
<1>1. TypeOK'
  BY DEF TypeOK, Begun
<1>2. RunsInv' /\ (Quiet => Quiet') /\ RowInv'
  BY RunsStand, RowsKeptInv
<1>3. replacing = {} /\ (~closed => Quiet)
  BY FreeBegun DEF ReplacingIsEmpty, LaneQuiet
<1>4. ClosedIsEmpty' /\ ReplacingIsEmpty'
  BY <1>3 DEF ClosedIsEmpty, ReplacingIsEmpty, Begun
<1>5. LaneShape' /\ lane'.phase \notin {"stopping", "holding", "delete account"}
  BY FreeBegun DEF LaneShape, Begun, LaneState
<1>6. LaneTakes' /\ LaneQuiet'
  BY <1>2, <1>3, <1>5 DEF LaneTakes, LaneQuiet, Begun
<1> QED
  BY <1>1, <1>2, <1>4, <1>5, <1>6

LEMMA EnterFacts ==
    ASSUME TypeOK, Enter
    PROVE  lane = Free /\ ops + 1 \in Nat /\ ops' = ops + 1
BY DEF TypeOK, Enter

LEMMA WriteFacts ==
    ASSUME TypeOK, NEW s \in Stored, NEW new \in RowState, NEW then, Write(s, new, then)
    PROVE  /\ row' \in [Stored -> RowState] /\ row'[s] = new
           /\ \A t \in Stored \ {s} : row'[t] = row[t]
           /\ \/ lane' = then /\ excused' = excused
              \/ lane' = Free /\ excused' = excused \cup {s}
           /\ excused' \subseteq Nets
<1>1. row' = [row EXCEPT ![s] = new]
  BY DEF Write
<1>2. \/ lane' = then /\ excused' = excused
      \/ lane' = Free /\ excused' = excused \cup {s}
  BY DEF Write
<1> QED
  BY <1>1, <1>2 DEF TypeOK, Nets

\* The operation's record as it enters.
LEMMA LaneEntered ==
    ASSUME NEW s \in Stored
    PROVE  /\ Begun([Lane("create", "supersede", {s}) EXCEPT !.todo = {s}])
           /\ Begun([Lane("update", "supersede", {s}) EXCEPT !.todo = {s}])
           /\ Begun([Lane("enable", "ensure", {s}) EXCEPT !.todo = {s}])
           /\ Begun(Lane("disable", "remove", {s}))
           /\ \A todo \in SUBSET {s} : Begun([Lane("delete", "remove", {s}) EXCEPT !.todo = todo])
<1>1. Begun([Lane("create", "supersede", {s}) EXCEPT !.todo = {s}])
  BY DEF Begun, Lane, Free, LaneState
<1>2. Begun([Lane("update", "supersede", {s}) EXCEPT !.todo = {s}])
  BY DEF Begun, Lane, Free, LaneState
<1>3. Begun([Lane("enable", "ensure", {s}) EXCEPT !.todo = {s}])
  BY DEF Begun, Lane, Free, LaneState
<1>4. Begun(Lane("disable", "remove", {s}))
  BY DEF Begun, Lane, Free, LaneState
<1>5. ASSUME NEW todo \in SUBSET {s}
      PROVE  Begun([Lane("delete", "remove", {s}) EXCEPT !.todo = todo])
  <2>1. todo \in SUBSET Stored
    OBVIOUS
  <2> QED
    BY <2>1 DEF Begun, Lane, Free, LaneState
<1> QED
  BY <1>1, <1>2, <1>3, <1>4, <1>5

LEMMA AccountEntered ==
    /\ Begun(Lane("suspend", "remove", Stored))
    /\ \A todo \in SUBSET Stored : Begun([Lane("reactivate", "ensure", {}) EXCEPT !.todo = todo])
    /\ \A todo \in SUBSET Stored : \A was \in {"active", "suspended"} :
          Begun([Lane("delete account", "remove", Stored) EXCEPT !.todo = todo, !.was = was])
<1>1. Begun(Lane("suspend", "remove", Stored))
  BY DEF Begun, Lane, Free, LaneState
<1>2. ASSUME NEW todo \in SUBSET Stored
      PROVE  Begun([Lane("reactivate", "ensure", {}) EXCEPT !.todo = todo])
  BY DEF Begun, Lane, Free, LaneState
<1>3. ASSUME NEW todo \in SUBSET Stored, NEW was \in {"active", "suspended"}
      PROVE  Begun([Lane("delete account", "remove", Stored) EXCEPT !.todo = todo, !.was = was])
  BY DEF Begun, Lane, Free, LaneState
<1> QED
  BY <1>1, <1>2, <1>3

LEMMA FreeFields ==
    /\ Free.op = "free" /\ Free.phase = "free" /\ Free.net = {} /\ Free.todo = {}
    /\ Free.out = {} /\ Free.answer = "none"
BY DEF Free

LEMMA LaneFields ==
    ASSUME NEW op, NEW phase, NEW net, NEW todo
    PROVE  LET l == [Lane(op, phase, net) EXCEPT !.todo = todo] IN
           /\ l.op = op /\ l.phase = phase /\ l.net = net /\ l.todo = todo
           /\ l.out = {} /\ l.answer = "none"
BY DEF Lane, Free

\* With the lane free, everything agrees.
LEMMA FreeAgrees ==
    ASSUME StandingInv, lane = Free, ~closed
    PROVE  /\ \A s \in Stored \ excused : Agrees(s)
           /\ \A g \in Configured : slot[g] # NoRun /\ (hold[g] = "Deleted" => owner = "deleted")
           /\ \A g \in Configured \ excused : hold[g] = Due
<1>1. /\ lane.todo = {} /\ lane.phase = "free" /\ lane.op = "free"
  BY DEF Free
<1> QED
  BY <1>1 DEF StandingInv, StoredWell, ConfiguredWell, Releases

LEMMA AgreesStands ==
    ASSUME NEW s \in Stored, Agrees(s), row'[s] = row[s], UNCHANGED <<owner, slot, runs>>
    PROVE  Agrees(s)'
BY DEF Agrees, Wanted, Current

\* An operation on networks, entered, leaves the configured ones alone.
LEMMA ConfiguredStands ==
    ASSUME StandingInv, lane = Free, ~closed, UNCHANGED <<owner, slot, hold>>,
           excused \subseteq excused', lane'.phase # "holding",
           lane'.op \notin {"suspend", "reactivate", "delete account"}
    PROVE  ConfiguredWell'
BY FreeAgrees DEF ConfiguredWell, Due

LEMMA CreateStep ==
    ASSUME NetworksInv, NEW s \in Stored, CreateNetwork(s)
    PROVE  NetworksInv'
<1> USE DEF NetworksInv
<1>1. TypeOK
  BY DEF CoreInv
<1>2. lane = Free /\ ops + 1 \in Nat /\ ops' = ops + 1
  BY <1>1, EnterFacts DEF CreateNetwork
<1> DEFINE new == [id |-> ops + 1, ver |-> ops + 1, on |-> TRUE]
           then == [Lane("create", "supersede", {s}) EXCEPT !.todo = {s}]
<1>3. new \in RowState
  BY <1>2 DEF RowState
<1>4. /\ row' \in [Stored -> RowState] /\ row'[s] = new
      /\ \A t \in Stored \ {s} : row'[t] = row[t]
      /\ \/ lane' = then /\ excused' = excused
         \/ lane' = Free /\ excused' = excused \cup {s}
      /\ excused' \subseteq Nets
  BY <1>1, <1>3, WriteFacts DEF CreateNetwork
<1>5. row[s] = NoRow /\ owner = "active" /\ UNCHANGED <<owner, slot, hold, replacing, closed, runs>>
  BY DEF CreateNetwork, OwnerMayRun, registry
<1>6. RowsKept
  BY <1>4, <1>5 DEF RowsKept, NoRow
<1>7. Begun(lane')
  BY <1>4, LaneEntered, FreeBegun
<1>8. CoreInv'
  BY <1>1, <1>2, <1>4, <1>5, <1>6, <1>7, EnterKeeps DEF TypeOK
<1>10. then.todo = {s} /\ then.phase = "supersede" /\ then.op = "create"
  BY LaneFields
<1> HIDE DEF new, then
<1>9. ASSUME ~closed
      PROVE  StoredWell' /\ ConfiguredWell'
  <2>1. \A t \in Stored \ (excused \cup {s}) : Agrees(t)'
    BY <1>2, <1>4, <1>5, <1>9, FreeAgrees, AgreesStands
  <2>2. \/ /\ lane'.todo = {s} /\ lane'.phase = "supersede" /\ lane'.op = "create"
           /\ excused' = excused
        \/ /\ lane'.todo = {} /\ lane'.phase = "free" /\ lane'.op = "free"
           /\ s \in excused'
    BY <1>4, <1>10, FreeFields
  <2>3. Wanted(s)'
    <3>1. row'[s].on
      BY <1>4 DEF new
    <3> QED
      BY <1>5, <3>1 DEF Wanted
  <2>5. StoredWell'
    BY <1>4, <2>1, <2>2, <2>3 DEF StoredWell, Removing
  <2>6. ConfiguredWell'
    BY <1>2, <1>4, <1>5, <1>9, <2>2, ConfiguredStands
  <2> QED
    BY <2>5, <2>6
<1> QED
  BY <1>5, <1>8, <1>9 DEF StandingInv

LEMMA UpdateStep ==
    ASSUME NetworksInv, NEW s \in Stored, UpdateNetwork(s)
    PROVE  NetworksInv'
<1> USE DEF NetworksInv
<1>1. TypeOK
  BY DEF CoreInv
<1>2. lane = Free /\ ops + 1 \in Nat /\ ops' = ops + 1
  BY <1>1, EnterFacts DEF UpdateNetwork
<1> DEFINE new == [row[s] EXCEPT !.ver = ops + 1]
           then == IF row[s].on THEN [Lane("update", "supersede", {s}) EXCEPT !.todo = {s}]
                   ELSE Free
<1>3. row[s] \in RowState /\ new \in RowState /\ new.id = row[s].id /\ new.on = row[s].on
  BY <1>1, <1>2 DEF RowState, TypeOK
<1>4. /\ row' \in [Stored -> RowState] /\ row'[s] = new
      /\ \A t \in Stored \ {s} : row'[t] = row[t]
      /\ \/ lane' = then /\ excused' = excused
         \/ lane' = Free /\ excused' = excused \cup {s}
      /\ excused' \subseteq Nets
  BY <1>1, <1>3, WriteFacts DEF UpdateNetwork
<1>5. owner = "active" /\ UNCHANGED <<owner, slot, hold, replacing, closed, runs>>
  BY DEF UpdateNetwork, OwnerMayRun, registry
<1>6. RowsKept
  BY <1>3, <1>4 DEF RowsKept
<1>7. Begun(lane')
  BY <1>4, LaneEntered, FreeBegun
<1>8. CoreInv'
  BY <1>1, <1>2, <1>4, <1>5, <1>6, <1>7, EnterKeeps DEF TypeOK
<1>10. IF row[s].on
       THEN then.todo = {s} /\ then.phase = "supersede" /\ then.op = "update"
       ELSE then = Free
  BY LaneFields
<1> HIDE DEF new, then
<1>9. ASSUME ~closed
      PROVE  StoredWell' /\ ConfiguredWell'
  <2>1. \A t \in Stored \ (excused \cup {s}) : Agrees(t)'
    BY <1>2, <1>4, <1>5, <1>9, FreeAgrees, AgreesStands
  <2>2. \/ /\ lane'.todo = {s} /\ lane'.phase = "supersede" /\ lane'.op = "update"
           /\ row[s].on /\ excused' = excused
        \/ /\ lane'.todo = {} /\ lane'.phase = "free" /\ lane'.op = "free"
           /\ ~row[s].on \/ s \in excused'
    BY <1>4, <1>10, FreeFields
  <2>3. row[s].on => Wanted(s)'
    BY <1>3, <1>4, <1>5 DEF Wanted
  <2>4. ASSUME ~row[s].on, s \notin excused
        PROVE  Agrees(s)'
    <3>1. Agrees(s)
      BY <1>2, <1>9, <2>4, FreeAgrees
    <3> QED
      BY <1>3, <1>4, <1>5, <2>4, <3>1 DEF Agrees, Wanted
  <2>5. StoredWell'
    BY <1>4, <2>1, <2>2, <2>3, <2>4 DEF StoredWell, Removing
  <2>6. ConfiguredWell'
    BY <1>2, <1>4, <1>5, <1>9, <2>2, ConfiguredStands
  <2> QED
    BY <2>5, <2>6
<1> QED
  BY <1>5, <1>8, <1>9 DEF StandingInv

LEMMA EnableStep ==
    ASSUME NetworksInv, NEW s \in Stored, EnableNetwork(s)
    PROVE  NetworksInv'
<1> USE DEF NetworksInv
<1>1. TypeOK
  BY DEF CoreInv
<1>2. lane = Free /\ ops + 1 \in Nat /\ ops' = ops + 1
  BY <1>1, EnterFacts DEF EnableNetwork
<1> DEFINE new == [row[s] EXCEPT !.on = TRUE]
           then == [Lane("enable", "ensure", {s}) EXCEPT !.todo = {s}]
<1>3. row[s] \in RowState /\ new \in RowState /\ new.id = row[s].id /\ new.on /\ new.ver = row[s].ver
  BY <1>1 DEF RowState, TypeOK
<1>4. /\ row' \in [Stored -> RowState] /\ row'[s] = new
      /\ \A t \in Stored \ {s} : row'[t] = row[t]
      /\ \/ lane' = then /\ excused' = excused
         \/ lane' = Free /\ excused' = excused \cup {s}
      /\ excused' \subseteq Nets
  BY <1>1, <1>3, WriteFacts DEF EnableNetwork
<1>5. owner = "active" /\ UNCHANGED <<owner, slot, hold, replacing, closed, runs>>
  BY DEF EnableNetwork, OwnerMayRun, registry
<1>6. RowsKept
  BY <1>3, <1>4 DEF RowsKept
<1>7. Begun(lane')
  BY <1>4, LaneEntered, FreeBegun
<1>8. CoreInv'
  BY <1>1, <1>2, <1>4, <1>5, <1>6, <1>7, EnterKeeps DEF TypeOK
<1>10. then.todo = {s} /\ then.phase = "ensure" /\ then.op = "enable"
  BY LaneFields
<1> HIDE DEF new, then
<1>9. ASSUME ~closed
      PROVE  StoredWell' /\ ConfiguredWell'
  <2>1. \A t \in Stored \ (excused \cup {s}) : Agrees(t)'
    BY <1>2, <1>4, <1>5, <1>9, FreeAgrees, AgreesStands
  <2>2. \/ /\ lane'.todo = {s} /\ lane'.phase = "ensure" /\ lane'.op = "enable"
           /\ excused' = excused
        \/ /\ lane'.todo = {} /\ lane'.phase = "free" /\ lane'.op = "free"
           /\ s \in excused'
    BY <1>4, <1>10, FreeFields
  <2>3. Wanted(s)'
    BY <1>3, <1>4, <1>5 DEF Wanted
  <2>4. ASSUME s \notin excused, slot[s] # NoRun
        PROVE  Current(s)'
    <3>1. Agrees(s)
      BY <1>2, <1>9, <2>4, FreeAgrees
    <3> QED
      BY <1>3, <1>4, <1>5, <2>4, <3>1 DEF Agrees, Current
  <2>5. StoredWell'
    BY <1>4, <1>5, <2>1, <2>2, <2>3, <2>4 DEF StoredWell, Removing
  <2>6. ConfiguredWell'
    BY <1>2, <1>4, <1>5, <1>9, <2>2, ConfiguredStands
  <2> QED
    BY <2>5, <2>6
<1> QED
  BY <1>5, <1>8, <1>9 DEF StandingInv

LEMMA DisableStep ==
    ASSUME NetworksInv, NEW s \in Stored, DisableNetwork(s)
    PROVE  NetworksInv'
<1> USE DEF NetworksInv
<1>1. TypeOK
  BY DEF CoreInv
<1>2. lane = Free /\ ops + 1 \in Nat /\ ops' = ops + 1
  BY <1>1, EnterFacts DEF DisableNetwork
<1> DEFINE new == [row[s] EXCEPT !.on = FALSE]
           then == Lane("disable", "remove", {s})
<1>3. row[s] \in RowState /\ new \in RowState /\ new.id = row[s].id /\ ~new.on
  BY <1>1 DEF RowState, TypeOK
<1>4. /\ row' \in [Stored -> RowState] /\ row'[s] = new
      /\ \A t \in Stored \ {s} : row'[t] = row[t]
      /\ \/ lane' = then /\ excused' = excused
         \/ lane' = Free /\ excused' = excused \cup {s}
      /\ excused' \subseteq Nets
  BY <1>1, <1>3, WriteFacts DEF DisableNetwork
<1>5. UNCHANGED <<owner, slot, hold, replacing, closed, runs>>
  BY DEF DisableNetwork, registry
<1>6. RowsKept
  BY <1>3, <1>4 DEF RowsKept
<1>7. Begun(lane')
  BY <1>4, LaneEntered, FreeBegun
<1>8. CoreInv'
  BY <1>1, <1>2, <1>4, <1>5, <1>6, <1>7, EnterKeeps DEF TypeOK
<1>10. /\ then.todo = {} /\ then.phase = "remove" /\ then.op = "disable"
       /\ then.net = {s}
  BY DEF Lane, Free
<1> HIDE DEF new, then
<1>9. ASSUME ~closed
      PROVE  StoredWell' /\ ConfiguredWell'
  <2>1. \A t \in Stored \ (excused \cup {s}) : Agrees(t)'
    BY <1>2, <1>4, <1>5, <1>9, FreeAgrees, AgreesStands
  <2>2. \/ /\ lane'.todo = {} /\ lane'.phase = "remove" /\ lane'.op = "disable"
           /\ lane'.net = {s} /\ excused' = excused
        \/ /\ lane'.todo = {} /\ lane'.phase = "free" /\ lane'.op = "free"
           /\ s \in excused'
    BY <1>4, <1>10, FreeFields
  <2>3. ~Wanted(s)'
    BY <1>3, <1>4 DEF Wanted
  <2>4. StoredWell'
    BY <1>4, <2>1, <2>2, <2>3 DEF StoredWell, Removing
  <2>5. ConfiguredWell'
    BY <1>2, <1>4, <1>5, <1>9, <2>2, ConfiguredStands
  <2> QED
    BY <2>4, <2>5
<1> QED
  BY <1>5, <1>8, <1>9 DEF StandingInv

LEMMA DeleteStep ==
    ASSUME NetworksInv, NEW s \in Stored, DeleteNetwork(s)
    PROVE  NetworksInv'
<1> USE DEF NetworksInv
<1>1. TypeOK
  BY DEF CoreInv
<1>2. lane = Free /\ ops + 1 \in Nat /\ ops' = ops + 1
  BY <1>1, EnterFacts DEF DeleteNetwork
<1>3. PICK builds \in BOOLEAN :
         /\ lane' = [Lane("delete", "remove", {s}) EXCEPT
                       !.todo = IF slot[s] # NoRun /\ builds THEN {s} ELSE {}]
         /\ excused' = IF builds THEN excused ELSE excused \cup {s}
  BY DEF DeleteNetwork
<1>4. PICK todo \in SUBSET {s} : todo = IF slot[s] # NoRun /\ builds THEN {s} ELSE {}
  OBVIOUS
<1>5. UNCHANGED <<row, owner, slot, hold, replacing, closed, runs>>
  BY DEF DeleteNetwork, registry, database
<1>6. lane' = [Lane("delete", "remove", {s}) EXCEPT !.todo = todo]
  BY <1>3, <1>4
<1>7. Begun(lane') /\ RowsKept /\ excused' \subseteq Nets
  <2>1. Begun([Lane("delete", "remove", {s}) EXCEPT !.todo = todo])
    BY LaneEntered, Zenon
  <2> QED
    BY <1>1, <1>3, <1>5, <1>6, <2>1 DEF RowsKept, TypeOK, Nets
<1>8. CoreInv'
  BY <1>1, <1>2, <1>5, <1>7, EnterKeeps DEF TypeOK
<1>9. /\ lane'.op = "delete" /\ lane'.phase = "remove" /\ lane'.net = {s} /\ lane'.todo = todo
  BY <1>6, LaneFields
<1>10. ASSUME ~closed
       PROVE  StoredWell' /\ ConfiguredWell'
  <2>1. \A t \in Stored \ excused : Agrees(t) /\ Agrees(t)'
    BY <1>2, <1>5, <1>10, FreeAgrees, AgreesStands
  <2>2. s \notin excused => (Wanted(s) <=> slot[s] # NoRun)
    BY <2>1 DEF Agrees
  <2>3. Wanted(s)' <=> Wanted(s)
    BY <1>5 DEF Wanted
  <2>4. \A t \in lane'.todo : t \notin excused' => Wanted(t)'
    BY <1>3, <1>4, <1>9, <2>2, <2>3
  <2>5. \A t \in lane'.net \ lane'.todo : t \notin excused' => ~Wanted(t)'
    BY <1>3, <1>4, <1>9, <2>2, <2>3
  <2>6. StoredWell'
    BY <1>3, <1>9, <2>1, <2>4, <2>5 DEF StoredWell, Removing, Deletes
  <2>7. ConfiguredWell'
    BY <1>2, <1>3, <1>5, <1>9, <1>10, ConfiguredStands
  <2> QED
    BY <2>6, <2>7
<1> QED
  BY <1>5, <1>8, <1>10 DEF StandingInv

LEMMA SuspendStep ==
    ASSUME NetworksInv, SuspendAccount
    PROVE  NetworksInv'
<1> USE DEF NetworksInv
<1>1. TypeOK
  BY DEF CoreInv
<1>2. lane = Free /\ ops + 1 \in Nat /\ ops' = ops + 1
  BY <1>1, EnterFacts DEF SuspendAccount
<1>3. /\ owner # "deleted" /\ owner' = "suspended" /\ lane' = Lane("suspend", "remove", Stored)
      /\ UNCHANGED <<row, slot, hold, replacing, closed, runs, excused>>
  BY DEF SuspendAccount, registry
<1>4. Begun(lane') /\ RowsKept
  BY <1>3, AccountEntered DEF RowsKept
<1>5. CoreInv'
  BY <1>1, <1>2, <1>3, <1>4, EnterKeeps DEF TypeOK
<1>6. lane'.op = "suspend" /\ lane'.phase = "remove" /\ lane'.net = Stored /\ lane'.todo = {}
  BY <1>3 DEF Lane, Free
<1>7. ASSUME ~closed
      PROVE  StoredWell' /\ ConfiguredWell'
  <2>1. \A t \in Stored : ~Wanted(t)'
    BY <1>3 DEF Wanted
  <2>2. StoredWell'
    BY <1>3, <1>6, <2>1 DEF StoredWell
  <2>3. ConfiguredWell'
    BY <1>2, <1>3, <1>6, <1>7, FreeAgrees DEF ConfiguredWell
  <2> QED
    BY <2>2, <2>3
<1> QED
  BY <1>3, <1>5, <1>7 DEF StandingInv

LEMMA ReactivateStep ==
    ASSUME NetworksInv, ReactivateAccount
    PROVE  NetworksInv'
<1> USE DEF NetworksInv
<1>1. TypeOK
  BY DEF CoreInv
<1>2. lane = Free /\ ops + 1 \in Nat /\ ops' = ops + 1
  BY <1>1, EnterFacts DEF ReactivateAccount
<1>3. PICK todo \in SUBSET Stored : todo = {s \in Stored : row[s].on}
  OBVIOUS
<1> DEFINE then == [Lane("reactivate", "ensure", {}) EXCEPT !.todo = todo]
<1>4a. then.op = "reactivate" /\ then.phase = "ensure" /\ then.todo = todo
  BY LaneFields
<1>4b. Begun(then)
  BY AccountEntered
<1>4c. \/ (lane' = Free /\ excused' = Nets)
      \/ (lane' = then /\ excused' = excused)
  BY <1>3, Zenon DEF ReactivateAccount
<1> HIDE DEF then
<1>4. /\ owner # "deleted" /\ owner' = "active"
      /\ UNCHANGED <<row, slot, hold, replacing, closed, runs>>
  BY DEF ReactivateAccount, registry
<1>5. Begun(lane') /\ RowsKept /\ excused' \subseteq Nets
  BY <1>1, <1>4b, <1>4c, <1>4, FreeBegun DEF RowsKept, TypeOK
<1>6. CoreInv'
  BY <1>1, <1>2, <1>4, <1>5, EnterKeeps DEF TypeOK
<1>7. \/ /\ lane'.op = "free" /\ lane'.phase = "free" /\ lane'.net = {} /\ lane'.todo = {}
         /\ excused' = Nets
      \/ /\ lane'.op = "reactivate" /\ lane'.phase = "ensure" /\ lane'.todo = todo
         /\ excused' = excused
  BY <1>4a, <1>4c, FreeFields
<1>8. ASSUME ~closed
      PROVE  StoredWell' /\ ConfiguredWell'
  <2>1. \A t \in Stored \ excused : Agrees(t)
    BY <1>2, <1>8, FreeAgrees
  <2>2. ASSUME NEW t \in Stored
        PROVE  /\ t \in todo <=> Wanted(t)'
               /\ t \notin todo /\ t \notin excused => Agrees(t)'
               /\ t \in todo /\ t \notin excused /\ slot[t] # NoRun => Current(t)'
    <3>1. t \in todo <=> row[t].on
      BY <1>3
    <3>2. t \in todo <=> Wanted(t)'
      BY <1>4, <3>1 DEF Wanted
    <3>3. ASSUME t \notin todo, t \notin excused
          PROVE  Agrees(t)'
      <4>1. slot[t] = NoRun
        BY <2>1, <3>1, <3>3 DEF Agrees, Wanted
      <4> QED
        BY <1>4, <3>2, <3>3, <4>1 DEF Agrees
    <3>4. ASSUME t \notin excused, slot[t] # NoRun
          PROVE  Current(t)'
      BY <1>4, <2>1, <3>4 DEF Agrees, Current
    <3> QED
      BY <3>2, <3>3, <3>4
  <2>3. \A t \in Stored : t \in Nets
    BY DEF Nets
  <2>4. StoredWell'
    BY <1>4, <1>7, <2>2, <2>3 DEF StoredWell, Removing
  <2>5. ConfiguredWell'
    <3>1. \A g \in Configured : g \in Nets
      BY DEF Nets
    <3>2. \A g \in Configured : slot[g] # NoRun /\ hold[g] # "Deleted"
      BY <1>2, <1>4, <1>8, FreeAgrees
    <3>3. lane'.op = "reactivate" => Releases'
      BY DEF Releases
    <3> QED
      BY <1>4, <1>7, <3>1, <3>2, <3>3 DEF ConfiguredWell
  <2> QED
    BY <2>4, <2>5
<1> QED
  BY <1>4, <1>6, <1>8 DEF StandingInv

LEMMA DeleteAccountStep ==
    ASSUME NetworksInv, DeleteAccount
    PROVE  NetworksInv'
<1> USE DEF NetworksInv
<1>1. TypeOK
  BY DEF CoreInv
<1>2. lane = Free /\ ops + 1 \in Nat /\ ops' = ops + 1
  BY <1>1, EnterFacts DEF DeleteAccount
<1>3. PICK build \in SUBSET {s \in Stored : slot[s] # NoRun} :
         /\ lane' = [Lane("delete account", "remove", Stored) EXCEPT !.todo = build, !.was = owner]
         /\ excused' = excused \cup ({s \in Stored : slot[s] # NoRun} \ build)
  BY DEF DeleteAccount
<1>4. owner \in {"active", "suspended"}
      /\ UNCHANGED <<row, owner, slot, hold, replacing, closed, runs>>
  BY <1>1 DEF DeleteAccount, registry, database, TypeOK
<1>5. Begun(lane') /\ RowsKept /\ excused' \subseteq Nets
  BY <1>1, <1>3, <1>4, AccountEntered DEF RowsKept, TypeOK, Nets
<1>6. CoreInv'
  BY <1>1, <1>2, <1>4, <1>5, EnterKeeps DEF TypeOK
<1>7. /\ lane'.op = "delete account" /\ lane'.phase = "remove" /\ lane'.net = Stored
      /\ lane'.todo = build /\ lane'.was = owner /\ lane'.answer = "none"
  BY <1>3 DEF Lane, Free
<1>8. ASSUME ~closed
      PROVE  StoredWell' /\ ConfiguredWell'
  <2>1. \A t \in Stored \ excused : Agrees(t) /\ Agrees(t)'
    BY <1>2, <1>4, <1>8, FreeAgrees, AgreesStands
  <2>2. \A t \in Stored \ excused : Wanted(t) <=> slot[t] # NoRun
    BY <2>1 DEF Agrees
  <2>3. \A t \in Stored : Wanted(t)' <=> Wanted(t)
    BY <1>4 DEF Wanted
  <2>4. \A t \in Stored \ excused' : t \in build <=> Wanted(t)'
    BY <1>3, <2>2, <2>3
  <2>5. StoredWell'
    BY <1>3, <1>7, <2>1, <2>4 DEF StoredWell, Removing, Deletes
  <2>6. ConfiguredWell'
    BY <1>2, <1>3, <1>4, <1>7, <1>8, FreeAgrees DEF ConfiguredWell, Due
  <2> QED
    BY <2>5, <2>6
<1> QED
  BY <1>4, <1>6, <1>8 DEF StandingInv

-----------------------------------------------------------------------------
\* One run's step, and a client's.

LEMMA RunActionStep ==
    ASSUME NetworksInv, NEW i \in DOMAIN runs, RunAction(i)
    PROVE  NetworksInv'
<1> USE DEF NetworksInv, CoreInv, LaneInv
<1>1. /\ RunsInv' /\ TypeOK' /\ UNCHANGED Settled
      /\ (Quiet => Quiet') /\ RowInv'
      /\ DOMAIN runs' = DOMAIN runs
      /\ \A j \in DOMAIN runs :
            /\ runs'[j].net = runs[j].net /\ runs'[j].ver = runs[j].ver
            /\ (runs'[j].stop = "no" <=> runs[j].stop = "no")
            /\ (runs[j].stop = "no" => runs'[j].told = runs[j].told)
  BY RunActionKeeps
<1>2. UNCHANGED <<row, owner, slot, hold, replacing, closed, lane, ops, excused>>
  BY <1>1 DEF Settled
<1>3. ClosedIsEmpty' /\ ReplacingIsEmpty' /\ LaneShape' /\ LaneQuiet'
  <2>1. ClosedIsEmpty' /\ ReplacingIsEmpty'
    BY <1>2 DEF ClosedIsEmpty, ReplacingIsEmpty
  <2>2. LaneShape'
    BY <1>2 DEF LaneShape
  <2>3. LaneQuiet'
    BY <1>1, <1>2 DEF LaneQuiet
  <2> QED
    BY <2>1, <2>2, <2>3
<1>4. LaneTakes'
  BY <1>1, <1>2 DEF LaneTakes
<1>5. ASSUME NEW s \in Stored, slot[s] # NoRun, Current(s)
      PROVE  Current(s)'
  <2>1. s \in Nets /\ ~IsHeld(s)
    BY NetworksAssumption DEF Nets, IsHeld
  <2>2. slot[s] \in DOMAIN runs /\ runs[slot[s]].stop = "no"
    BY <1>5, <2>1 DEF RunsInv, Registered
  <2> QED
    BY <1>1, <1>2, <1>5, <2>2 DEF Current
<1>6. \A s \in Stored : Agrees(s) => Agrees(s)'
  BY <1>2, <1>5 DEF Agrees, Wanted
<1>7. StoredWell => StoredWell'
  BY <1>1, <1>2, <1>5, <1>6 DEF StoredWell, Wanted, Removing, Deletes, TypeOK, LaneState
<1>8. ConfiguredWell => ConfiguredWell'
  BY <1>2 DEF ConfiguredWell, Due, Releases
<1> QED
  BY <1>1, <1>2, <1>3, <1>4, <1>7, <1>8 DEF StandingInv

LEMMA StutterStep ==
    ASSUME NetworksInv, UNCHANGED Settled, UNCHANGED runs
    PROVE  NetworksInv'
<1> USE DEF NetworksInv, CoreInv, LaneInv, Settled
<1>1. RunsInv' /\ (Quiet => Quiet')
  BY RunsStand
<1>2. TypeOK' /\ RowInv'
  BY DEF TypeOK, RowInv
<1>3. ClosedIsEmpty' /\ ReplacingIsEmpty' /\ LaneShape' /\ LaneQuiet' /\ LaneTakes'
  <2>1. ClosedIsEmpty' /\ ReplacingIsEmpty'
    BY DEF ClosedIsEmpty, ReplacingIsEmpty
  <2>2. LaneShape'
    BY DEF LaneShape
  <2>3. LaneQuiet'
    BY <1>1 DEF LaneQuiet
  <2>4. LaneTakes'
    <3>1. LaneTakes /\ (Quiet => Quiet')
      BY <1>1
    <3>2. UNCHANGED <<slot, hold, lane, runs>>
      BY DEF Settled
    <3> HIDE DEF NetworksInv, CoreInv, LaneInv, Settled
    <3> QED
      BY <3>1, <3>2, Zenon DEF LaneTakes
  <2> QED
    BY <2>1, <2>2, <2>3, <2>4
<1>4. StandingInv'
  BY DEF StandingInv, StoredWell, ConfiguredWell, Agrees, Wanted, Current, Removing, Deletes, Due,
         Releases
<1> QED
  BY <1>1, <1>2, <1>3, <1>4

-----------------------------------------------------------------------------
\* The lane's own steps.  First those that leave the registry as it is.

LEMMA LaneMoves ==
    ASSUME CoreInv, UNCHANGED <<slot, hold, replacing, closed, runs, ops>>,
           row' \in [Stored -> RowState], RowInv', owner' \in {"active", "suspended", "deleted"},
           excused' \subseteq Nets, lane' \in LaneState, LaneShape', lane'.out = {},
           lane'.phase \notin {"stopping", "holding", "delete account"},
           replacing \subseteq lane'.todo,
           replacing # {} => lane'.phase \in {"supersede", "ensure"},
           ~closed /\ replacing = {} => Quiet
    PROVE  CoreInv'
<1> USE DEF CoreInv, LaneInv
<1>1. TypeOK'
  BY DEF TypeOK
<1>2. RunsInv' /\ (Quiet => Quiet')
  BY RunsStand
<1>3. ClosedIsEmpty' /\ ReplacingIsEmpty'
  BY DEF ClosedIsEmpty, ReplacingIsEmpty
<1>4. LaneTakes' /\ LaneQuiet'
  BY <1>2 DEF LaneTakes, LaneQuiet
<1> QED
  BY <1>1, <1>2, <1>3, <1>4

LEMMA FreeShape ==
    ASSUME lane' = Free
    PROVE  /\ LaneShape' /\ lane' \in LaneState /\ lane'.op = "free" /\ lane'.phase = "free"
           /\ lane'.net = {} /\ lane'.todo = {} /\ lane'.out = {}
BY FreeBegun, FreeFields DEF LaneShape, Begun

\* What has left the registry, and is not being stopped, writes no more.
LEMMA StoppedWriter ==
    ASSUME TypeOK, RunsInv, Quiet, NEW i \in DOMAIN runs, slot[runs[i].net] = NoRun
    PROVE  runs[i].stop = "done" /\ runs[i].feed = "ended"
<1>1. runs[i] \in Run /\ i # NoRun
  BY RunsFacts DEF TypeOK
<1>2. runs[i].stop # "no"
  BY <1>1 DEF RunsInv, Registered
<1>3. runs[i].stop = "done"
  BY <1>1, <1>2 DEF Quiet, Stopping, Run
<1> QED
  BY <1>3 DEF RunsInv, BacklogInv, Fed

LEMMA DisabledStep ==
    ASSUME NetworksInv, Disabled
    PROVE  NetworksInv'
<1> USE DEF NetworksInv
<1>1. /\ lane.op = "disable" /\ lane.phase = "stopping" /\ Quiet /\ lane' = Free
      /\ excused' = excused \ lane.net
      /\ UNCHANGED <<row, owner, slot, hold, replacing, closed, runs, ops>>
  BY DEF Disabled, Stopped, database, registry
<1>2. /\ LaneShape' /\ lane' \in LaneState /\ lane'.op = "free" /\ lane'.phase = "free"
      /\ lane'.net = {} /\ lane'.todo = {} /\ lane'.out = {}
  BY <1>1, FreeShape
<1>3. TypeOK /\ lane.net \subseteq Stored /\ lane.todo = {}
  BY <1>1 DEF CoreInv, TypeOK, LaneState, LaneInv, LaneShape
<1>4. replacing = {} /\ \A s \in lane.net : slot[s] = NoRun
  BY <1>1 DEF CoreInv, LaneInv, ReplacingIsEmpty, LaneTakes
<1>5. RowInv'
  BY <1>1 DEF CoreInv, RowInv
<1>6. CoreInv'
  BY <1>1, <1>2, <1>3, <1>4, <1>5, LaneMoves DEF TypeOK
<1>7. ASSUME ~closed
      PROVE  StoredWell' /\ ConfiguredWell'
  <2>1. StoredWell /\ ConfiguredWell
    BY <1>7 DEF StandingInv
  <2>2. ASSUME NEW s \in Stored \ excused'
        PROVE  Agrees(s)
    <3>1. CASE s \in lane.net
      BY <1>1, <1>3, <1>4, <2>1, <3>1 DEF StoredWell, Agrees, Removing
    <3>2. CASE s \notin lane.net
      BY <1>1, <1>3, <2>1, <3>2 DEF StoredWell
    <3> QED
      BY <3>1, <3>2
  <2>3. \A s \in Stored \ excused' : Agrees(s)'
    BY <1>1, <2>2, AgreesStands
  <2>4. StoredWell'
    BY <1>2, <2>3 DEF StoredWell, Removing
  <2>5. \A g \in Configured \ excused' : g \notin excused
    BY <1>1, <1>3, NetworksAssumption
  <2>6. ConfiguredWell'
    BY <1>1, <1>2, <2>1, <2>5 DEF ConfiguredWell, Due, Releases
  <2> QED
    BY <2>4, <2>6
<1> QED
  BY <1>1, <1>6, <1>7 DEF StandingInv

LEMMA RefusedClosedStep ==
    ASSUME NetworksInv, RefusedClosed
    PROVE  NetworksInv'
<1> USE DEF NetworksInv
<1>1. /\ closed /\ lane' = Free
      /\ UNCHANGED <<row, owner, slot, hold, replacing, closed, runs, ops, excused>>
  BY DEF RefusedClosed, database, registry
<1>2. /\ LaneShape' /\ lane' \in LaneState /\ lane'.op = "free" /\ lane'.phase = "free"
      /\ lane'.net = {} /\ lane'.todo = {} /\ lane'.out = {}
  BY <1>1, FreeShape
<1>3. TypeOK /\ replacing = {} /\ RowInv'
  BY <1>1 DEF CoreInv, LaneInv, ClosedIsEmpty, RowInv
<1>4. CoreInv'
  BY <1>1, <1>2, <1>3, LaneMoves DEF TypeOK
<1> QED
  BY <1>1, <1>4 DEF StandingInv

LEMMA FinishStep ==
    ASSUME NetworksInv, Finish
    PROVE  NetworksInv'
<1> USE DEF NetworksInv
<1>1. /\ lane.phase \in {"supersede", "ensure"} /\ lane.todo = {} /\ lane' = Free
      /\ UNCHANGED <<row, owner, slot, hold, replacing, closed, runs, ops, excused>>
  BY DEF Finish, database, registry
<1>2. /\ LaneShape' /\ lane' \in LaneState /\ lane'.op = "free" /\ lane'.phase = "free"
      /\ lane'.net = {} /\ lane'.todo = {} /\ lane'.out = {}
  BY <1>1, FreeShape
<1>3. TypeOK /\ replacing = {} /\ (~closed => Quiet) /\ RowInv'
  BY <1>1 DEF CoreInv, LaneInv, ReplacingIsEmpty, LaneQuiet, RowInv
<1>4. CoreInv'
  BY <1>1, <1>2, <1>3, LaneMoves DEF TypeOK
<1>5. ASSUME ~closed
      PROVE  StoredWell' /\ ConfiguredWell'
  <2>1. StoredWell /\ ConfiguredWell
    BY <1>5 DEF StandingInv
  <2>2. \A s \in Stored \ excused : Agrees(s)'
    BY <1>1, <2>1, AgreesStands DEF StoredWell
  <2>3. StoredWell'
    BY <1>1, <1>2, <2>2 DEF StoredWell, Removing
  <2>4. ASSUME NEW g \in Configured \ excused
        PROVE  hold[g] = Due
    <3>1. slot[g] # NoRun /\ (hold[g] = "Deleted" => owner = "deleted")
          /\ hold[g] \in {"no", "Suspended", "Deleted"} /\ excused # Nets
      BY <1>1, <1>3, <2>1 DEF ConfiguredWell, TypeOK, Nets
    <3>2. lane.op # "suspend"
      BY <1>1 DEF CoreInv, LaneInv, LaneShape
    <3>3. CASE Releases
      <4>1. hold[g] # "Suspended"
        BY <1>5, <3>1, <3>3 DEF Finish
      <4>2. owner = "active"
        BY <2>1, <3>1, <3>3 DEF Releases, ConfiguredWell
      <4> QED
        BY <3>1, <4>1, <4>2 DEF Due
    <3>4. CASE ~Releases
      BY <1>1, <2>1, <3>2, <3>4 DEF ConfiguredWell
    <3> QED
      BY <3>3, <3>4
  <2>5. ConfiguredWell'
    BY <1>1, <1>2, <2>1, <2>4 DEF ConfiguredWell, Due
  <2> QED
    BY <2>3, <2>5
<1> QED
  BY <1>1, <1>4, <1>5 DEF StandingInv

LEMMA AlreadyWorkingStep ==
    ASSUME NetworksInv, NEW n \in Nets, AlreadyWorking(n)
    PROVE  NetworksInv'
<1> USE DEF NetworksInv
<1>1. /\ lane.phase = "ensure" /\ n \in lane.todo \ replacing /\ slot[n] # NoRun
      /\ lane' = [lane EXCEPT !.todo = @ \ {n}]
      /\ UNCHANGED <<row, owner, slot, hold, replacing, closed, runs, ops, excused>>
  BY DEF AlreadyWorking, Working, database, registry
<1>2. TypeOK /\ lane \in LaneState /\ n \in Stored
  BY <1>1 DEF CoreInv, TypeOK, LaneState
<1>3. /\ lane'.op = lane.op /\ lane'.phase = "ensure" /\ lane'.net = lane.net
      /\ lane'.todo = lane.todo \ {n} /\ lane'.out = lane.out /\ lane'.was = lane.was
      /\ lane'.answer = lane.answer /\ lane' \in LaneState
  BY <1>1, <1>2 DEF LaneState
<1>4. LaneShape' /\ lane'.out = {}
  BY <1>1, <1>3 DEF CoreInv, LaneInv, LaneShape
<1>5. replacing \subseteq lane'.todo /\ (~closed /\ replacing = {} => Quiet) /\ RowInv'
  BY <1>1, <1>3 DEF CoreInv, LaneInv, ReplacingIsEmpty, LaneQuiet, RowInv
<1>6. CoreInv'
  BY <1>1, <1>2, <1>3, <1>4, <1>5, LaneMoves DEF TypeOK
<1>7. ASSUME ~closed
      PROVE  StoredWell' /\ ConfiguredWell'
  <2>1. StoredWell /\ ConfiguredWell
    BY <1>7 DEF StandingInv
  <2>2. n \notin excused => Agrees(n)
    BY <1>1, <1>2, <2>1 DEF StoredWell, Agrees
  <2>3. \A s \in Stored : Agrees(s) => Agrees(s)'
    BY <1>1, AgreesStands
  <2>4. \A s \in Stored : (Wanted(s) => Wanted(s)') /\ (Current(s) => Current(s)')
    BY <1>1 DEF Wanted, Current
  <2>5. StoredWell'
    BY <1>1, <1>2, <1>3, <2>1, <2>2, <2>3, <2>4 DEF StoredWell, Removing, Deletes, LaneState
  <2>6. ConfiguredWell'
    BY <1>1, <1>3, <2>1 DEF ConfiguredWell, Due, Releases
  <2> QED
    BY <2>5, <2>6
<1> QED
  BY <1>1, <1>6, <1>7 DEF StandingInv

\* The deletion's answer: its driver and its writer are gone, so the row may be.
LEMMA DeleteRowStep ==
    ASSUME NetworksInv, DeleteRow
    PROVE  NetworksInv'
<1> USE DEF NetworksInv
<1>1. /\ lane.op = "delete" /\ lane.phase = "stopping" /\ Quiet
      /\ UNCHANGED <<owner, slot, hold, replacing, closed, runs, ops>>
  BY DEF DeleteRow, Stopped, registry
<1>2. TypeOK /\ RunsInv /\ RowInv /\ lane \in LaneState
  BY DEF CoreInv, TypeOK
<1>3. PICK s \in Stored : lane.net = {s} /\ lane.todo \subseteq {s}
  BY <1>1 DEF CoreInv, LaneInv, LaneShape
<1>4. (CHOOSE t \in lane.net : TRUE) = s
  BY <1>3
<1>5. PICK answer \in {"ok", "lost", "refused"} :
         /\ row' = IF answer = "refused" THEN row ELSE [row EXCEPT ![s] = NoRow]
         /\ lane' = IF answer = "ok" \/ lane.todo = {} THEN Free
                    ELSE [lane EXCEPT !.phase = "supersede", !.answer = answer]
         /\ excused' = CASE answer = "ok"   -> excused \ {s}
                         [] answer = "lost" -> excused \cup {s}
                         [] OTHER           -> excused
  BY <1>4 DEF DeleteRow, Commits
<1>6. /\ row' \in [Stored -> RowState] /\ \A t \in Stored \ {s} : row'[t] = row[t]
      /\ (answer = "refused" => row' = row) /\ (answer # "refused" => row'[s] = NoRow)
  BY <1>2, <1>5 DEF TypeOK, RowState, NoRow
<1>7. /\ (answer = "ok" => excused' = excused \ {s})
      /\ (answer = "lost" => excused' = excused \cup {s})
      /\ (answer = "refused" => excused' = excused)
      /\ excused' \subseteq Nets
  BY <1>2, <1>5 DEF TypeOK, Nets
<1>8. replacing = {} /\ slot[s] = NoRun
  BY <1>1, <1>3 DEF CoreInv, LaneInv, ReplacingIsEmpty, LaneTakes
<1>9. \/ /\ answer = "ok" \/ lane.todo = {}
         /\ lane' = Free
      \/ /\ answer # "ok" /\ lane.todo = {s}
         /\ lane' = [lane EXCEPT !.phase = "supersede", !.answer = answer]
  BY <1>3, <1>5
<1>10. \/ /\ answer = "ok" \/ lane.todo = {}
          /\ lane'.op = "free" /\ lane'.phase = "free" /\ lane'.net = {} /\ lane'.todo = {}
          /\ LaneShape' /\ lane' \in LaneState /\ lane'.out = {}
       \/ /\ answer # "ok" /\ lane.todo = {s}
          /\ lane'.op = "delete" /\ lane'.phase = "supersede" /\ lane'.todo = {s}
          /\ lane'.answer = answer /\ lane'.net = {s}
          /\ LaneShape' /\ lane' \in LaneState /\ lane'.out = {}
  <2>1. CASE lane' = Free /\ (answer = "ok" \/ lane.todo = {})
    BY <2>1, FreeShape
  <2>2. CASE lane' = [lane EXCEPT !.phase = "supersede", !.answer = answer]
            /\ answer # "ok" /\ lane.todo = {s}
    <3>1. lane.out = {}
      BY <1>1 DEF CoreInv, LaneInv, LaneShape
    <3>2. /\ lane'.op = "delete" /\ lane'.phase = "supersede" /\ lane'.todo = {s}
          /\ lane'.answer = answer /\ lane'.net = {s} /\ lane'.out = {} /\ lane' \in LaneState
      BY <1>1, <1>2, <1>3, <2>2, <3>1 DEF LaneState
    <3> QED
      BY <1>3, <2>2, <3>2 DEF LaneShape
  <2> QED
    BY <1>9, <2>1, <2>2
<1>11. RowInv'
  <2> SUFFICES ASSUME NEW i \in DOMAIN runs, runs[i].feed \in {"open", "draining"},
                      runs[i].net \in Stored
               PROVE  runs[i].row # 0 /\ row'[runs[i].net].id = runs[i].row
    BY <1>1 DEF RowInv
  <2>1. runs[i].net # s
    BY <1>1, <1>2, <1>8, StoppedWriter
  <2> QED
    BY <1>2, <1>6, <2>1 DEF RowInv
<1>12. CoreInv'
  BY <1>1, <1>2, <1>6, <1>7, <1>8, <1>10, <1>11, LaneMoves DEF TypeOK
<1>13. ASSUME ~closed
       PROVE  StoredWell' /\ ConfiguredWell'
  <2>1. StoredWell /\ ConfiguredWell
    BY <1>13 DEF StandingInv
  <2>2. ASSUME NEW t \in Stored \ excused', t # s
        PROVE  Agrees(t)'
    <3>1. t \notin excused
      BY <1>7, <2>2
    <3>2. Agrees(t)
      BY <1>1, <1>3, <2>1, <2>2, <3>1 DEF StoredWell
    <3> QED
      BY <1>1, <1>6, <2>2, <3>2, AgreesStands
  <2>3. s \notin lane.todo /\ s \notin excused => ~Wanted(s)
    BY <1>1, <1>3, <2>1 DEF StoredWell, Removing
  <2>4. s \in lane.todo /\ s \notin excused => Wanted(s)
    BY <2>1 DEF StoredWell
  <2>5. answer = "refused" => (Wanted(s)' <=> Wanted(s))
    BY <1>1, <1>6 DEF Wanted
  <2>6. answer # "refused" => ~Wanted(s)'
    BY <1>6 DEF Wanted, NoRow
  <2>7. ~Wanted(s)' => Agrees(s)'
    BY <1>1, <1>8 DEF Agrees
  <2>8. s \notin excused' => Agrees(s)' \/ s \in lane'.todo
    BY <1>3, <1>7, <1>10, <2>3, <2>5, <2>6, <2>7
  <2>9. \A t \in lane'.todo : t = s /\ answer # "ok" /\ lane'.op = "delete"
    BY <1>10
  <2>10. StoredWell'
    BY <1>7, <1>10, <2>2, <2>4, <2>5, <2>8, <2>9 DEF StoredWell, Removing, Deletes
  <2>11. \A g \in Configured \ excused' : g \notin excused
    BY <1>3, <1>7, NetworksAssumption
  <2>12. ConfiguredWell'
    BY <1>1, <1>10, <2>1, <2>11 DEF ConfiguredWell, Due, Releases
  <2> QED
    BY <2>10, <2>12
<1> QED
  BY <1>1, <1>12, <1>13 DEF StandingInv

LEMMA DeleteAccountRowStep ==
    ASSUME NetworksInv, DeleteAccountRow
    PROVE  NetworksInv'
<1> USE DEF NetworksInv
<1>1. lane.phase = "delete account" /\ UNCHANGED <<slot, replacing, closed, runs, ops>>
  BY DEF DeleteAccountRow
<1>2. PICK answer \in {"ok", "lost", "refused"} :
         /\ IF answer = "refused" THEN UNCHANGED <<row, owner>>
            ELSE owner' = "deleted" /\ row' = [s \in Stored |-> NoRow]
         /\ lane' = IF answer = "ok" THEN Free
                    ELSE [lane EXCEPT !.phase = "ensure", !.answer = answer]
         /\ hold' = [g \in Configured |-> IF answer = "ok" /\ slot[g] # NoRun
                                          THEN "Deleted" ELSE hold[g]]
         /\ excused' = IF answer = "lost" THEN Nets ELSE excused
  BY DEF DeleteAccountRow, Commits, database
<1>3. /\ TypeOK /\ RunsInv /\ RowInv /\ lane \in LaneState /\ lane.op = "delete account"
      /\ lane.net = Stored /\ lane.out = {} /\ lane.answer = "none"
  BY <1>1 DEF CoreInv, TypeOK, LaneInv, LaneShape
<1>4. /\ Quiet /\ replacing = {} /\ \A s \in Stored : slot[s] = NoRun
      /\ \A g \in Configured : slot[g] # NoRun => hold[g] = "Suspended"
  BY <1>1, <1>3 DEF CoreInv, LaneInv, LaneTakes, ReplacingIsEmpty
<1>5. /\ row' \in [Stored -> RowState] /\ owner' \in {"active", "suspended", "deleted"}
      /\ hold' \in [Configured -> {"no", "Suspended", "Deleted"}] /\ excused' \subseteq Nets
  <2>1. NoRow \in RowState
    BY DEF NoRow, RowState
  <2>2. row' \in [Stored -> RowState] /\ owner' \in {"active", "suspended", "deleted"}
    BY <1>2, <1>3, <2>1 DEF TypeOK
  <2>3. \A g \in Configured : hold[g] \in {"no", "Suspended", "Deleted"}
    BY <1>3 DEF TypeOK
  <2>4. hold' \in [Configured -> {"no", "Suspended", "Deleted"}]
    BY <1>2, <2>3
  <2> QED
    BY <1>2, <1>3, <2>2, <2>4 DEF TypeOK
<1>6. /\ (answer # "ok" => hold' = hold)
      /\ (answer = "ok" => \A g \in Configured : slot[g] # NoRun => hold'[g] = "Deleted")
      /\ \A n \in Nets : slot[n] # NoRun => (IsHeld(n) /\ IsHeld(n)')
  <2>1. answer # "ok" => hold' = hold
    BY <1>2, <1>3 DEF TypeOK
  <2>2. \A g \in Configured : hold'[g] = IF answer = "ok" /\ slot[g] # NoRun
                                         THEN "Deleted" ELSE hold[g]
    BY <1>2
  <2> QED
    BY <1>4, <2>1, <2>2 DEF IsHeld, Nets
<1>7. RunsInv' /\ Quiet'
  <2>1. Registered'
    BY <1>1, <1>3, <1>6 DEF RunsInv, Registered
  <2> QED
    BY <1>1, <1>3, <1>4, <2>1 DEF RunsInv, RunsOrdered, OneUpstreamSession, BacklogInv, Quiet
<1>8. RowInv'
  <2>1. \A i \in DOMAIN runs : runs[i].net \in Stored => runs[i].feed = "ended"
    BY <1>3, <1>4, StoppedWriter
  <2> QED
    BY <1>1, <2>1 DEF RowInv
<1>9. \/ /\ answer = "ok" /\ lane'.op = "free" /\ lane'.phase = "free" /\ lane'.net = {}
         /\ lane'.todo = {} /\ LaneShape' /\ lane' \in LaneState /\ lane'.out = {}
      \/ /\ answer # "ok" /\ lane'.op = "delete account" /\ lane'.phase = "ensure"
         /\ lane'.todo = lane.todo /\ lane'.was = lane.was /\ lane'.answer = answer
         /\ LaneShape' /\ lane' \in LaneState /\ lane'.out = {}
  <2>1. CASE answer = "ok"
    BY <1>2, <2>1, FreeShape
  <2>2. CASE answer # "ok"
    <3>1. /\ lane'.op = "delete account" /\ lane'.phase = "ensure" /\ lane'.net = Stored
          /\ lane'.todo = lane.todo /\ lane'.was = lane.was /\ lane'.answer = answer
          /\ lane' \in LaneState /\ lane'.out = {}
      BY <1>2, <1>3, <2>2 DEF LaneState
    <3> QED
      BY <2>2, <3>1 DEF LaneShape
  <2> QED
    BY <2>1, <2>2
<1>10. CoreInv'
  <2>1. TypeOK'
    BY <1>1, <1>3, <1>5, <1>9 DEF TypeOK
  <2>2. ClosedIsEmpty' /\ ReplacingIsEmpty'
    BY <1>1, <1>4, <1>9 DEF CoreInv, LaneInv, ClosedIsEmpty, ReplacingIsEmpty
  <2>3. LaneTakes' /\ LaneQuiet'
    BY <1>7, <1>9 DEF LaneTakes, LaneQuiet
  <2> QED
    BY <1>7, <1>8, <1>9, <2>1, <2>2, <2>3 DEF CoreInv, LaneInv
<1>11. ASSUME ~closed
       PROVE  StoredWell' /\ ConfiguredWell'
  <2>1. StoredWell /\ ConfiguredWell
    BY <1>11 DEF StandingInv
  <2>2. ASSUME answer # "refused"
        PROVE  \A s \in Stored : Agrees(s)'
    BY <1>1, <1>2, <1>4, <2>2 DEF Agrees, Wanted
  <2>3. ASSUME answer = "refused"
        PROVE  /\ owner' = owner /\ excused' = excused
               /\ \A s \in Stored : (Agrees(s) => Agrees(s)') /\ (Wanted(s) => Wanted(s)')
    BY <1>1, <1>2, <2>3, AgreesStands DEF Wanted
  <2>4. answer = "lost" => excused' = Nets
    BY <1>2
  <2>5. \A s \in Stored : s \in Nets /\ slot'[s] = NoRun
    BY <1>1, <1>4 DEF Nets
  <2>6. StoredWell'
    <3>1. CASE answer = "ok"
      BY <1>9, <2>2, <3>1 DEF StoredWell, Removing
    <3>2. CASE answer = "lost"
      BY <1>9, <2>2, <2>4, <2>5, <3>2 DEF StoredWell, Removing, Deletes, LaneState
    <3>3. CASE answer = "refused"
      BY <1>1, <1>3, <1>9, <2>1, <2>3, <2>5, <3>3 DEF StoredWell, Removing, Deletes, LaneState
    <3> QED
      BY <3>1, <3>2, <3>3
  <2>7. \A g \in Configured : slot[g] # NoRun /\ hold[g] = "Suspended" /\ g \in Nets
    BY <1>1, <1>4, <2>1 DEF ConfiguredWell, Nets
  <2>8. ConfiguredWell'
    <3>1. CASE answer = "ok"
      BY <1>1, <1>2, <1>6, <1>9, <2>7, <3>1 DEF ConfiguredWell, Due
    <3>2. CASE answer = "lost"
      BY <1>1, <1>6, <1>9, <2>4, <2>7, <3>2 DEF ConfiguredWell
    <3>3. CASE answer = "refused"
      <4>1. owner = lane.was
        BY <1>3, <2>1 DEF ConfiguredWell
      <4>2. Releases' \/ Due' = "Suspended"
        BY <1>3, <1>9, <2>3, <3>3, <4>1 DEF Releases, Due, LaneState
      <4> QED
        BY <1>1, <1>6, <1>9, <2>3, <2>7, <3>3, <4>1, <4>2 DEF ConfiguredWell
    <3> QED
      BY <3>1, <3>2, <3>3
  <2> QED
    BY <2>6, <2>8
<1> QED
  BY <1>1, <1>10, <1>11 DEF StandingInv

-----------------------------------------------------------------------------
\* The steps that take slots out of the registry, and those that put them in.

\* A slot that stays keeps its run.
LEMMA TakeOutOthers ==
    ASSUME TypeOK, RunsInv, NEW S \in SUBSET Nets, NEW u \in {"Store", "Discard"}, TakeOut(S, u),
           NEW s \in Stored \ S, UNCHANGED <<row, owner>>
    PROVE  /\ slot'[s] = slot[s]
           /\ slot[s] # NoRun /\ Current(s) => Current(s)'
           /\ Agrees(s) => Agrees(s)'
<1>1. /\ s \in Nets /\ slot'[s] = slot[s]
      /\ \A i \in DOMAIN runs : runs[i].net \notin S => runs'[i] = runs[i]
  BY TakeOutRuns DEF RunsInv, Nets
<1>2. slot[s] # NoRun => runs'[slot[s]] = runs[slot[s]]
  BY <1>1 DEF RunsInv, Registered
<1> QED
  BY <1>1, <1>2 DEF Agrees, Wanted, Current

LEMMA InsertOthers ==
    ASSUME TypeOK, RunsInv, NEW n \in Nets, Insert(n), NEW s \in Stored \ {n},
           UNCHANGED <<row, owner>>
    PROVE  /\ slot'[s] = slot[s]
           /\ slot[s] # NoRun /\ Current(s) => Current(s)'
           /\ Agrees(s) => Agrees(s)'
<1>1. s \in Nets /\ slot'[s] = slot[s] /\ \A i \in DOMAIN runs : runs'[i] = runs[i]
  BY InsertRuns DEF Nets
<1>2. slot[s] # NoRun => runs'[slot[s]] = runs[slot[s]]
  BY <1>1 DEF RunsInv, Registered
<1> QED
  BY <1>1, <1>2 DEF Agrees, Wanted, Current

LEMMA RemoveSlotsStep ==
    ASSUME NetworksInv, RemoveSlots
    PROVE  NetworksInv'
<1> USE DEF NetworksInv
<1>1. /\ lane.phase = "remove" /\ TakeOut(lane.net, Unwritten)
      /\ lane' = [lane EXCEPT !.phase = "stopping"]
      /\ UNCHANGED <<row, owner, hold, replacing, closed, ops, excused>>
  BY DEF RemoveSlots, database
<1>2. TypeOK /\ RunsInv /\ RowInv /\ lane \in LaneState
  BY DEF CoreInv, TypeOK
<1>3. lane.net \in SUBSET Nets /\ lane.net \subseteq Stored /\ Unwritten \in {"Store", "Discard"}
  BY <1>2 DEF LaneState, Nets, Unwritten
<1>4. RunsInv' /\ RowInv' /\ runs' \in Seq(Run) /\ slot' \in [Nets -> Nat]
      /\ \A n \in Nets : slot'[n] = IF n \in lane.net THEN NoRun ELSE slot[n]
  BY <1>1, <1>2, <1>3, TakeOutKeeps, TakeOutRuns DEF RunsInv
<1>5. /\ lane'.op = lane.op /\ lane'.phase = "stopping" /\ lane'.net = lane.net
      /\ lane'.todo = lane.todo /\ lane'.out = lane.out /\ lane'.was = lane.was
      /\ lane'.answer = lane.answer /\ lane' \in LaneState
  BY <1>1, <1>2 DEF LaneState
<1>6. replacing = {} /\ lane.out = {}
  BY <1>1 DEF CoreInv, LaneInv, ReplacingIsEmpty, LaneShape
<1>7. CoreInv'
  <2>1. TypeOK'
    BY <1>1, <1>2, <1>4, <1>5 DEF TypeOK
  <2>2. ClosedIsEmpty' /\ ReplacingIsEmpty'
    BY <1>1, <1>4, <1>5, <1>6 DEF CoreInv, LaneInv, ClosedIsEmpty, ReplacingIsEmpty
  <2>3. LaneShape'
    BY <1>1, <1>5, <1>6 DEF CoreInv, LaneInv, LaneShape
  <2>4. LaneTakes' /\ LaneQuiet'
    BY <1>3, <1>4, <1>5, <1>6 DEF LaneTakes, LaneQuiet
  <2> QED
    BY <1>4, <2>1, <2>2, <2>3, <2>4 DEF CoreInv, LaneInv
<1>8. ASSUME ~closed
      PROVE  StoredWell' /\ ConfiguredWell'
  <2>1. StoredWell /\ ConfiguredWell
    BY <1>8 DEF StandingInv
  <2>2. \A s \in Stored \ lane.net : Agrees(s) => Agrees(s)'
    BY <1>1, <1>2, <1>3, TakeOutOthers
  <2>3. \A s \in Stored : Wanted(s)' <=> Wanted(s)
    BY <1>1 DEF Wanted
  <2>4. ASSUME NEW s \in Stored \ excused
        PROVE  Agrees(s)' \/ s \in lane.todo
    <3>1. CASE s \in lane.net /\ s \notin lane.todo
      <4>1. ~Wanted(s)
        BY <1>1, <2>1, <2>4, <3>1 DEF StoredWell, Removing
      <4>2. slot'[s] = NoRun
        BY <1>3, <1>4, <3>1
      <4> QED
        BY <2>3, <4>1, <4>2 DEF Agrees
    <3>2. CASE s \notin lane.net /\ s \notin lane.todo
      BY <2>1, <2>2, <2>4, <3>2 DEF StoredWell
    <3> QED
      BY <3>1, <3>2
  <2>5. StoredWell'
    BY <1>1, <1>2, <1>5, <2>1, <2>3, <2>4 DEF StoredWell, Removing, Deletes, LaneState
  <2>6. \A g \in Configured : slot'[g] = slot[g]
    BY <1>3, <1>4, NetworksAssumption DEF Nets
  <2>7. ConfiguredWell'
    BY <1>1, <1>5, <2>1, <2>6 DEF ConfiguredWell, Due, Releases
  <2> QED
    BY <2>5, <2>7
<1> QED
  BY <1>1, <1>7, <1>8 DEF StandingInv

LEMMA HoldConfiguredStep ==
    ASSUME NetworksInv, HoldConfigured
    PROVE  NetworksInv'
<1> USE DEF NetworksInv
<1>1. PICK owned \in SUBSET Configured : owned = {g \in Configured : slot[g] # NoRun}
  OBVIOUS
<1>2. /\ lane.op \in {"suspend", "delete account"} /\ lane.phase = "stopping" /\ Quiet
      /\ TakeOut(owned, "Store")
      /\ lane' = [lane EXCEPT !.phase = "holding", !.out = {<<g, slot[g]>> : g \in owned}]
      /\ UNCHANGED <<row, owner, hold, replacing, closed, ops, excused>>
  BY <1>1 DEF HoldConfigured, Stopped, database
<1>3. TypeOK /\ RunsInv /\ RowInv /\ lane \in LaneState /\ owned \in SUBSET Nets
  BY DEF CoreInv, TypeOK, Nets
<1>4. /\ RunsInv' /\ RowInv' /\ runs' \in Seq(Run) /\ slot' \in [Nets -> Nat]
      /\ DOMAIN runs' = DOMAIN runs
      /\ \A n \in Nets : slot'[n] = IF n \in owned THEN NoRun ELSE slot[n]
      /\ \A i \in DOMAIN runs :
            runs'[i] = IF runs[i].stop = "no" /\ runs[i].net \in owned
                       THEN Told(runs[i], "Store") ELSE runs[i]
  BY <1>2, <1>3, TakeOutKeeps, TakeOutRuns DEF RunsInv
<1>5. {<<g, slot[g]>> : g \in owned} \subseteq Configured \X Nat
  BY <1>3 DEF TypeOK, Nets
<1>6. /\ lane'.op = lane.op /\ lane'.phase = "holding" /\ lane'.net = lane.net
      /\ lane'.todo = lane.todo /\ lane'.out = {<<g, slot[g]>> : g \in owned}
      /\ lane'.was = lane.was /\ lane'.answer = lane.answer /\ lane' \in LaneState
  BY <1>2, <1>3, <1>5 DEF LaneState
<1>7. /\ replacing = {} /\ lane.net = Stored
      /\ \A s \in lane.net : slot[s] = NoRun
  BY <1>2 DEF CoreInv, LaneInv, ReplacingIsEmpty, LaneShape, LaneTakes
<1>8. \A g \in Configured : slot'[g] = NoRun
  BY <1>1, <1>4 DEF Nets
<1>9. \A s \in Stored : s \notin owned /\ slot'[s] = slot[s]
  BY <1>4, NetworksAssumption DEF Nets
<1>10. ASSUME NEW g \in owned
       PROVE  /\ slot[g] \in DOMAIN runs' /\ runs'[slot[g]].net = g
              /\ runs'[slot[g]].stop # "no"
  <2>1. g \in Nets /\ slot[g] \in DOMAIN runs /\ runs[slot[g]].net = g
    BY <1>1, <1>3 DEF RunsInv, Registered, Nets
  <2>2. runs[slot[g]] \in Run
    BY <1>3, <2>1, RunsFacts DEF TypeOK
  <2>3. CASE runs[slot[g]].stop = "no"
    <3>1. \A r \in Run : Told(r, "Store").net = r.net /\ Told(r, "Store").stop # "no"
      BY DEF Told, Run
    <3>2. slot[g] \in DOMAIN runs' /\ runs'[slot[g]] = Told(runs[slot[g]], "Store")
      BY <1>4, <2>1, <2>3
    <3> QED
      BY <2>1, <2>2, <3>1, <3>2
  <2>4. CASE runs[slot[g]].stop # "no"
    BY <1>4, <2>1, <2>4
  <2> QED
    BY <2>3, <2>4
<1>11. CoreInv'
  <2>1. TypeOK'
    BY <1>2, <1>3, <1>4, <1>6 DEF TypeOK
  <2>2. closed => lane'.out = {}
    <3>1. closed => owned = {}
      BY <1>1, <1>3 DEF CoreInv, LaneInv, ClosedIsEmpty, Nets
    <3> QED
      BY <1>6, <3>1
  <2>3. ClosedIsEmpty' /\ ReplacingIsEmpty'
    BY <1>2, <1>4, <1>6, <1>7, <2>2 DEF CoreInv, LaneInv, ClosedIsEmpty, ReplacingIsEmpty
  <2>4. LaneShape'
    BY <1>2, <1>6 DEF CoreInv, LaneInv, LaneShape
  <2>5. \A p \in lane'.out :
           p[2] \in DOMAIN runs' /\ runs'[p[2]].net = p[1] /\ runs'[p[2]].stop # "no"
    BY <1>6, <1>10
  <2>6. LaneTakes' /\ LaneQuiet'
    BY <1>6, <1>7, <1>8, <1>9, <2>5 DEF LaneTakes, LaneQuiet
  <2> QED
    BY <1>4, <2>1, <2>3, <2>4, <2>6 DEF CoreInv, LaneInv
<1>12. ASSUME ~closed
       PROVE  StoredWell' /\ ConfiguredWell'
  <2>1. StoredWell /\ ConfiguredWell
    BY <1>12 DEF StandingInv
  <2>2. \A s \in Stored : Agrees(s) => Agrees(s)'
    BY <1>2, <1>3, <1>9, TakeOutOthers
  <2>3. \A s \in Stored : Wanted(s)' <=> Wanted(s)
    BY <1>2 DEF Wanted
  <2>4. StoredWell'
    BY <1>2, <1>3, <1>6, <2>1, <2>2, <2>3 DEF StoredWell, Removing, Deletes, LaneState
  <2>5. \A g \in Configured : g \in owned
    BY <1>1, <1>2, <2>1 DEF ConfiguredWell
  <2>6. ASSUME NEW g \in Configured
        PROVE  \E p \in lane'.out : p[1] = g
    <3>1. <<g, slot[g]>> \in lane'.out
      BY <1>6, <2>5
    <3>2. <<g, slot[g]>>[1] = g
      OBVIOUS
    <3> QED
      BY <3>1, <3>2
  <2>7. ConfiguredWell'
    BY <1>2, <1>6, <2>1, <2>6 DEF ConfiguredWell, Due, Releases
  <2> QED
    BY <2>4, <2>7
<1> QED
  BY <1>2, <1>11, <1>12 DEF StandingInv

LEMMA SupersedeStep ==
    ASSUME NetworksInv, NEW n \in Nets, Supersede(n)
    PROVE  NetworksInv'
<1> USE DEF NetworksInv
<1>1. /\ lane.phase \in {"supersede", "ensure"} /\ n \in lane.todo \ replacing /\ ~closed
      /\ TakeOut({n}, "Store") /\ replacing' = replacing \cup {n}
      /\ UNCHANGED <<row, owner, hold, closed, lane, ops, excused>>
  BY DEF Supersede, database
<1>2. TypeOK /\ RunsInv /\ RowInv /\ lane \in LaneState /\ {n} \in SUBSET Nets /\ n \in Stored
  BY <1>1 DEF CoreInv, TypeOK, LaneState
<1>3. /\ RunsInv' /\ RowInv' /\ runs' \in Seq(Run) /\ slot' \in [Nets -> Nat]
      /\ DOMAIN runs' = DOMAIN runs /\ slot'[n] = NoRun
      /\ \A m \in Nets \ {n} : slot'[m] = slot[m]
  BY <1>1, <1>2, TakeOutKeeps, TakeOutRuns DEF RunsInv
<1>4. CoreInv'
  <2>1. TypeOK'
    BY <1>1, <1>2, <1>3 DEF TypeOK
  <2>2. ClosedIsEmpty'
    BY <1>1 DEF ClosedIsEmpty
  <2>3. ReplacingIsEmpty'
    BY <1>1, <1>2, <1>3 DEF CoreInv, LaneInv, ReplacingIsEmpty, TypeOK, Nets
  <2>4. LaneShape' /\ lane.out = {}
    BY <1>1 DEF CoreInv, LaneInv, LaneShape
  <2>5. LaneTakes' /\ LaneQuiet'
    BY <1>1, <2>4 DEF LaneTakes, LaneQuiet
  <2> QED
    BY <1>3, <2>1, <2>2, <2>3, <2>4, <2>5 DEF CoreInv, LaneInv
<1>5. StoredWell /\ ConfiguredWell
  BY <1>1 DEF StandingInv
<1>6. \A s \in Stored \ {n} :
         /\ slot'[s] = slot[s]
         /\ slot[s] # NoRun /\ Current(s) => Current(s)'
         /\ Agrees(s) => Agrees(s)'
  BY <1>1, <1>2, TakeOutOthers
<1>7. \A s \in Stored : Wanted(s)' <=> Wanted(s)
  BY <1>1 DEF Wanted
<1>8. StoredWell'
  BY <1>1, <1>2, <1>5, <1>6, <1>7 DEF StoredWell, Removing, Deletes, LaneState
<1>9. \A g \in Configured : slot'[g] = slot[g]
  BY <1>2, <1>3, NetworksAssumption DEF Nets
<1>10. ConfiguredWell'
  BY <1>1, <1>5, <1>9 DEF ConfiguredWell, Due, Releases
<1> QED
  BY <1>4, <1>8, <1>10 DEF StandingInv

LEMMA StopAllStep ==
    ASSUME NetworksInv, StopAll
    PROVE  NetworksInv'
<1> USE DEF NetworksInv
<1>1. /\ lane = Free /\ closed' = TRUE /\ replacing' = {} /\ TakeOut(Nets, "Store")
      /\ UNCHANGED <<row, owner, hold, lane, ops, excused>>
  BY DEF StopAll, database
<1>2. TypeOK /\ RunsInv /\ RowInv /\ Nets \in SUBSET Nets
  BY DEF CoreInv
<1>3. /\ RunsInv' /\ RowInv' /\ runs' \in Seq(Run) /\ slot' \in [Nets -> Nat]
      /\ \A m \in Nets : slot'[m] = NoRun
  BY <1>1, <1>2, TakeOutKeeps, TakeOutRuns DEF RunsInv
<1>4. TypeOK'
  BY <1>1, <1>2, <1>3 DEF TypeOK
<1>5. ClosedIsEmpty' /\ ReplacingIsEmpty' /\ LaneShape'
  BY <1>1, <1>3, FreeFields DEF CoreInv, LaneInv, ClosedIsEmpty, ReplacingIsEmpty, LaneShape
<1>6. LaneTakes' /\ LaneQuiet'
  BY <1>1, FreeFields DEF LaneTakes, LaneQuiet
<1> QED
  BY <1>1, <1>3, <1>4, <1>5, <1>6 DEF CoreInv, LaneInv, StandingInv

LEMMA HeldStep ==
    ASSUME NetworksInv, Held
    PROVE  NetworksInv'
<1> USE DEF NetworksInv
<1>1. /\ lane.phase = "holding" /\ Quiet
      /\ slot' = [n \in Nets |-> IF \E p \in lane.out : p[1] = n
                                 THEN (CHOOSE p \in lane.out : p[1] = n)[2] ELSE slot[n]]
      /\ hold' = [g \in Configured |-> IF \E p \in lane.out : p[1] = g
                                       THEN "Suspended" ELSE hold[g]]
      /\ lane' = IF lane.op = "suspend" THEN Free
                 ELSE [lane EXCEPT !.phase = "delete account", !.out = {}]
      /\ UNCHANGED <<row, owner, replacing, closed, runs, ops, excused>>
  BY DEF Held, database
<1>2. /\ TypeOK /\ RunsInv /\ RowInv /\ lane \in LaneState
      /\ lane.op \in {"suspend", "delete account"} /\ lane.net = Stored /\ lane.answer = "none"
      /\ (lane.op = "suspend" => lane.todo = {})
  BY <1>1 DEF CoreInv, TypeOK, LaneInv, LaneShape
<1>3. replacing = {} /\ \A n \in Nets : slot[n] = NoRun
  BY <1>1, <1>2 DEF CoreInv, LaneInv, LaneTakes, ReplacingIsEmpty, Nets
<1>4. \A i \in DOMAIN runs : runs[i].stop = "done" /\ i \in Nat /\ i # NoRun /\ runs[i].net \in Nets
  BY <1>1, <1>2, <1>3, StoppedWriter, RunsFacts DEF TypeOK, Run
<1>5. \A p \in lane.out : /\ p[1] \in Configured /\ p[2] \in DOMAIN runs
                          /\ runs[p[2]].net = p[1]
  BY <1>2 DEF CoreInv, LaneInv, LaneTakes, LaneState
\* Each slot taken out is back, held; nothing else is registered.
<1>6. ASSUME NEW n \in Nets
      PROVE  \/ /\ \E p \in lane.out : p[1] = n
                /\ n \in Configured /\ slot'[n] \in DOMAIN runs /\ runs[slot'[n]].net = n
                /\ hold'[n] = "Suspended"
             \/ /\ ~\E p \in lane.out : p[1] = n
                /\ slot'[n] = NoRun /\ (n \in Configured => hold'[n] = hold[n])
  <2>1. CASE \E p \in lane.out : p[1] = n
    <3>1. PICK q \in lane.out : q[1] = n /\ slot'[n] = q[2]
      BY <1>1, <2>1
    <3> QED
      BY <1>1, <1>5, <2>1, <3>1
  <2>2. CASE ~\E p \in lane.out : p[1] = n
    BY <1>1, <1>3, <2>2
  <2> QED
    BY <2>1, <2>2
<1>7. slot' \in [Nets -> Nat] /\ hold' \in [Configured -> {"no", "Suspended", "Deleted"}]
  <2>1. \A n \in Nets : slot'[n] \in Nat
    BY <1>4, <1>6 DEF NoRun
  <2>2. \A g \in Configured : hold'[g] \in {"no", "Suspended", "Deleted"}
    BY <1>2, <1>6 DEF TypeOK, Nets
  <2>3. slot' = [n \in Nets |-> slot'[n]] /\ hold' = [g \in Configured |-> hold'[g]]
    BY <1>1
  <2> QED
    BY <2>1, <2>2, <2>3
<1>8. RunsInv' /\ Quiet' /\ RowInv'
  <2>1. Registered'
    BY <1>1, <1>4, <1>6 DEF Registered, IsHeld
  <2> QED
    BY <1>1, <1>2, <2>1 DEF RunsInv, RunsOrdered, OneUpstreamSession, BacklogInv, Quiet, RowInv
<1>9. \/ /\ lane.op = "suspend" /\ lane'.op = "free" /\ lane'.phase = "free" /\ lane'.net = {}
         /\ lane'.todo = {} /\ LaneShape' /\ lane' \in LaneState /\ lane'.out = {}
      \/ /\ lane.op = "delete account" /\ lane'.op = "delete account"
         /\ lane'.phase = "delete account" /\ lane'.net = Stored /\ lane'.answer = "none"
         /\ lane'.todo = lane.todo /\ lane'.was = lane.was
         /\ LaneShape' /\ lane' \in LaneState /\ lane'.out = {}
  <2>1. CASE lane.op = "suspend"
    BY <1>1, <2>1, FreeShape
  <2>2. CASE lane.op = "delete account"
    <3>1. /\ lane'.op = "delete account" /\ lane'.answer = "none"
          /\ lane'.phase = "delete account" /\ lane'.net = Stored
          /\ lane'.todo = lane.todo /\ lane'.was = lane.was
          /\ lane' \in LaneState /\ lane'.out = {}
      BY <1>1, <1>2, <2>2 DEF LaneState
    <3> QED
      BY <2>2, <3>1 DEF LaneShape
  <2> QED
    BY <1>2, <2>1, <2>2
<1>10. \A s \in Stored : s \in Nets /\ slot'[s] = NoRun
  BY <1>6, NetworksAssumption DEF Nets
<1>11. CoreInv'
  <2>1. TypeOK'
    BY <1>1, <1>2, <1>7, <1>9 DEF TypeOK
  <2>2. closed => \A n \in Nets : slot'[n] = NoRun
    BY <1>6 DEF CoreInv, LaneInv, ClosedIsEmpty
  <2>3. ClosedIsEmpty' /\ ReplacingIsEmpty'
    BY <1>1, <1>3, <1>9, <2>2 DEF ClosedIsEmpty, ReplacingIsEmpty
  <2>4. \A g \in Configured : slot'[g] # NoRun => hold'[g] = "Suspended"
    BY <1>6 DEF Nets
  <2>5. LaneTakes' /\ LaneQuiet'
    BY <1>8, <1>9, <1>10, <2>4 DEF LaneTakes, LaneQuiet
  <2> QED
    BY <1>8, <1>9, <2>1, <2>3, <2>5 DEF CoreInv, LaneInv
<1>12. ASSUME ~closed
       PROVE  StoredWell' /\ ConfiguredWell'
  <2>1. StoredWell /\ ConfiguredWell
    BY <1>12 DEF StandingInv
  <2>2. \A s \in Stored : Wanted(s)' <=> Wanted(s)
    BY <1>1 DEF Wanted
  <2>3. \A s \in Stored : Agrees(s) => Agrees(s)'
    BY <1>3, <1>10, <2>2 DEF Agrees
  <2>4. StoredWell'
    BY <1>1, <1>2, <1>9, <2>1, <2>2, <2>3 DEF StoredWell, Removing, Deletes, LaneState
  <2>5. ASSUME NEW g \in Configured
        PROVE  slot'[g] # NoRun /\ hold'[g] = "Suspended"
    <3>1. g \in Nets /\ \E p \in lane.out : p[1] = g
      BY <1>1, <2>1 DEF ConfiguredWell, Nets
    <3>2. slot'[g] \in DOMAIN runs /\ hold'[g] = "Suspended"
      BY <1>6, <3>1
    <3> QED
      BY <1>4, <3>2
  <2>6. CASE lane.op = "suspend"
    <3>1. owner' = "suspended" /\ lane'.op = "free" /\ lane'.phase = "free"
      BY <1>1, <1>9, <2>1, <2>6 DEF ConfiguredWell
    <3>2. Due' = "Suspended"
      BY <3>1 DEF Due
    <3> QED
      BY <2>4, <2>5, <3>1, <3>2 DEF ConfiguredWell
  <2>7. CASE lane.op = "delete account"
    <3>1. owner' = lane'.was /\ lane'.op = "delete account" /\ lane'.phase = "delete account"
          /\ lane'.answer = "none"
      BY <1>1, <1>2, <1>9, <2>1, <2>7 DEF ConfiguredWell
    <3> QED
      BY <2>4, <2>5, <3>1 DEF ConfiguredWell
  <2> QED
    BY <1>2, <2>6, <2>7
<1> QED
  BY <1>1, <1>11, <1>12 DEF StandingInv

LEMMA StartStep ==
    ASSUME NetworksInv, NEW n \in Nets, Start(n)
    PROVE  NetworksInv'
<1> USE DEF NetworksInv
<1>1. /\ n \in lane.todo \cap replacing /\ Quiet /\ Insert(n) /\ replacing' = replacing \ {n}
      /\ lane' = [lane EXCEPT !.todo = @ \ {n}]
      /\ (lane.answer = "none" => excused' = excused \ {n})
      /\ (lane.answer # "none" => excused' = excused)
      /\ UNCHANGED <<row, owner, hold, closed, ops>>
  BY DEF Start, database
<1>2. /\ TypeOK /\ RunsInv /\ RowInv /\ lane \in LaneState /\ n \in Stored
  BY <1>1 DEF CoreInv, TypeOK, LaneState
<1>3. /\ slot[n] = NoRun /\ lane.phase \in {"supersede", "ensure"}
  BY <1>1 DEF CoreInv, LaneInv, ReplacingIsEmpty
<1>4. /\ lane'.op = lane.op /\ lane'.phase = lane.phase /\ lane'.net = lane.net
      /\ lane'.todo = lane.todo \ {n} /\ lane'.out = lane.out /\ lane'.was = lane.was
      /\ lane'.answer = lane.answer /\ lane' \in LaneState
  BY <1>1, <1>2 DEF LaneState
<1>5. ~IsHeld(n)' /\ \A m \in Nets \ {n} : IsHeld(m)' <=> IsHeld(m)
  BY <1>1, <1>2, NetworksAssumption DEF IsHeld
<1>6. RunsInv' /\ Quiet' /\ RowInv'
  BY <1>1, <1>2, <1>3, <1>5, InsertKeeps
<1>7. /\ ~closed /\ runs' \in Seq(Run) /\ slot' \in [Nets -> Nat] /\ slot'[n] # NoRun
      /\ runs'[slot'[n]] = RunOf(n) /\ \A m \in Nets \ {n} : slot'[m] = slot[m]
  BY <1>1, <1>2, InsertRuns
<1>8. CoreInv'
  <2>1. TypeOK'
    BY <1>1, <1>2, <1>4, <1>7 DEF TypeOK
  <2>2. ClosedIsEmpty'
    BY <1>1, <1>7 DEF ClosedIsEmpty
  <2>3. ReplacingIsEmpty'
    BY <1>1, <1>2, <1>3, <1>4, <1>7 DEF CoreInv, LaneInv, ReplacingIsEmpty, TypeOK, Nets
  <2>4. LaneShape' /\ lane.out = {}
    BY <1>3, <1>4 DEF CoreInv, LaneInv, LaneShape
  <2>5. LaneTakes' /\ LaneQuiet'
    BY <1>3, <1>4, <1>6, <2>4 DEF LaneTakes, LaneQuiet
  <2> QED
    BY <1>6, <2>1, <2>2, <2>3, <2>4, <2>5 DEF CoreInv, LaneInv
<1>9. StoredWell /\ ConfiguredWell
  BY <1>7 DEF StandingInv
<1>10. \A s \in Stored \ {n} :
         /\ slot'[s] = slot[s]
         /\ slot[s] # NoRun /\ Current(s) => Current(s)'
         /\ Agrees(s) => Agrees(s)'
  BY <1>1, <1>2, InsertOthers
<1>11. \A s \in Stored : Wanted(s)' <=> Wanted(s)
  BY <1>1 DEF Wanted
<1>12. n \notin excused' => Agrees(n)'
  <2>1. ~RunOf(n).told /\ RunOf(n).ver = row[n].ver
    BY <1>2, RunOfTyped DEF TypeOK
  <2>2. Current(n)'
    BY <1>1, <1>7, <2>1 DEF Current
  <2>3. lane.answer = "none" => ~Deletes
    BY <1>3 DEF CoreInv, LaneInv, LaneShape, Deletes
  <2>4. n \notin excused' => Wanted(n)
    BY <1>1, <1>2, <1>9, <2>3 DEF StoredWell
  <2> QED
    BY <1>2, <1>7, <1>11, <2>2, <2>4 DEF Agrees
<1>13. \A s \in Stored \ {n} : s \in excused' <=> s \in excused
  BY <1>1
<1>14. StoredWell'
  <2>1. \A s \in Stored \ excused' : Agrees(s)' \/ s \in lane'.todo
    BY <1>3, <1>4, <1>9, <1>10, <1>12, <1>13 DEF StoredWell
  <2>2. \A s \in lane'.todo : s \in Stored \ {n} /\ s \in lane.todo
    BY <1>2, <1>4 DEF LaneState
  <2>3. \A s \in lane'.todo : s \notin excused' \/ (~Deletes' /\ lane'.answer = "none") => Wanted(s)'
    BY <1>4, <1>9, <1>11, <1>13, <2>2 DEF StoredWell, Deletes
  <2>4. lane'.phase = "ensure" => \A s \in lane'.todo \ (replacing' \cup excused') :
           slot'[s] # NoRun => Current(s)'
    BY <1>1, <1>4, <1>9, <1>10, <1>13, <2>2 DEF StoredWell
  <2> QED
    BY <1>3, <1>4, <2>1, <2>3, <2>4 DEF StoredWell, Removing
<1>15. \A g \in Configured : slot'[g] = slot[g] /\ (g \in excused' <=> g \in excused)
  BY <1>1, <1>2, <1>7, NetworksAssumption DEF Nets
<1>16. ConfiguredWell'
  BY <1>1, <1>3, <1>4, <1>9, <1>15 DEF ConfiguredWell, Due, Releases
<1> QED
  BY <1>8, <1>14, <1>16 DEF StandingInv

LEMMA ReleaseConfiguredStep ==
    ASSUME NetworksInv, ReleaseConfigured
    PROVE  NetworksInv'
<1> USE DEF NetworksInv
<1>1. /\ lane.phase = "ensure" /\ lane.todo = {} /\ Releases
      /\ UNCHANGED <<row, owner, replacing, closed, lane, ops, excused>>
  BY DEF ReleaseConfigured, database
<1>2. PICK g \in Configured : /\ hold[g] = "Suspended" /\ slot[g] # NoRun /\ Insert(g)
                              /\ hold' = [hold EXCEPT ![g] = "no"]
  BY DEF ReleaseConfigured
<1>3. TypeOK /\ RunsInv /\ RowInv /\ lane \in LaneState /\ g \in Nets
  BY DEF CoreInv, TypeOK, Nets
<1>4. /\ hold' \in [Configured -> {"no", "Suspended", "Deleted"}] /\ hold'[g] = "no"
      /\ \A h \in Configured \ {g} : hold'[h] = hold[h]
  BY <1>2, <1>3 DEF TypeOK
<1>5. IsHeld(g) /\ ~IsHeld(g)' /\ \A m \in Nets \ {g} : IsHeld(m)' <=> IsHeld(m)
  BY <1>2, <1>4 DEF IsHeld
<1>6. ~closed /\ replacing = {} /\ Quiet
  BY <1>1, <1>2 DEF Insert, CoreInv, LaneInv, ReplacingIsEmpty, LaneQuiet
<1>7. RunsInv' /\ Quiet' /\ RowInv'
  BY <1>1, <1>2, <1>3, <1>5, <1>6, InsertKeeps
<1>8. /\ runs' \in Seq(Run) /\ slot' \in [Nets -> Nat] /\ slot'[g] # NoRun
      /\ \A m \in Nets \ {g} : slot'[m] = slot[m]
  BY <1>2, <1>3, InsertRuns
<1>9. CoreInv'
  <2>1. TypeOK'
    BY <1>1, <1>3, <1>4, <1>8 DEF TypeOK
  <2>2. ClosedIsEmpty' /\ ReplacingIsEmpty'
    BY <1>1, <1>6 DEF ClosedIsEmpty, ReplacingIsEmpty
  <2>3. LaneShape' /\ lane.out = {}
    BY <1>1 DEF CoreInv, LaneInv, LaneShape
  <2>4. LaneTakes' /\ LaneQuiet'
    BY <1>1, <1>7, <2>3 DEF LaneTakes, LaneQuiet
  <2> QED
    BY <1>7, <2>1, <2>2, <2>3, <2>4 DEF CoreInv, LaneInv
<1>10. StoredWell /\ ConfiguredWell
  BY <1>6 DEF StandingInv
<1>11. \A s \in Stored : Agrees(s) => Agrees(s)'
  <2>1. \A s \in Stored : s \in Stored \ {g}
    BY NetworksAssumption
  <2> QED
    BY <1>1, <1>2, <1>3, <2>1, InsertOthers
<1>12. StoredWell'
  BY <1>1, <1>10, <1>11 DEF StoredWell, Removing
<1>13. \A h \in Configured : /\ slot'[h] # NoRun
                             /\ hold'[h] = "Deleted" => owner' = "deleted"
  BY <1>1, <1>4, <1>8, <1>10 DEF ConfiguredWell, Nets
<1>14. ConfiguredWell'
  BY <1>1, <1>10, <1>13 DEF ConfiguredWell, Releases
<1> QED
  BY <1>9, <1>12, <1>14 DEF StandingInv

-----------------------------------------------------------------------------
\* The boot, and the theorems.

LEMMA ListsEach ==
    ASSUME NEW S, IsFiniteSet(S), NEW b, b = SetToSeq(S)
    PROVE  /\ b \in Seq(S) /\ DOMAIN b = 1 .. Len(b)
           /\ \A i, j \in DOMAIN b : b[i] = b[j] => i = j
           /\ \A x \in S : \E i \in DOMAIN b : b[i] = x
<1>1. PICK n \in Nat : n = Cardinality(S) /\ ExistsBijection(1 .. n, S)
  BY FS_CardinalityType
<1>2. \E f \in [1 .. n -> S] : IsInjective(f)
  BY <1>1 DEF ExistsBijection, Bijection, Injection
<1>3. b \in [1 .. n -> S] /\ IsInjective(b)
  BY <1>1, <1>2 DEF SetToSeq
<1>4. b \in Injection(1 .. n, S)
  BY <1>3 DEF Injection
<1>5. Cardinality(1 .. n) = n
  BY <1>1, FS_Interval
<1>6. b \in Surjection(1 .. n, S)
  BY <1>1, <1>4, <1>5, FS_Injection
<1>7. b \in Seq(S) /\ Len(b) = n
  BY <1>3
<1> QED
  BY <1>3, <1>6, <1>7 DEF Surjection, IsInjective

RowId(n) == IF n \in Stored THEN row[n].id ELSE 0
Booted(n) == [RunOf(n) EXCEPT !.feed = "open", !.row = RowId(n)]

LEMMA BootedRun ==
    ASSUME row \in [Stored -> RowState], NEW n \in Nets
    PROVE  LET r == Booted(n) IN
           /\ r \in Run /\ Ordered(r) /\ Fed(r) /\ ~Stopping(r)
           /\ r.net = n /\ r.stop = "no" /\ ~r.told /\ r.row = RowId(n)
           /\ n \in Stored => r.ver = row[n].ver
<1>0. PICK id \in Nat : id = RowId(n)
  BY DEF RowId, RowState
<1> DEFINE r == Booted(n)
<1>1. RunOf(n) \in Run /\ RunOf(n).net = n /\ RunOf(n).stop = "no" /\ ~RunOf(n).told
      /\ ~RunOf(n).late /\ RunOf(n).ver = IF n \in Stored THEN row[n].ver ELSE 0
  BY RunOfTyped
<1>2. RunOf(n).missed = 0 /\ RunOf(n).said = 0 /\ RunOf(n).error = FALSE
      /\ RunOf(n).unwritten = "none"
  BY DEF RunOf
<1>3. /\ r \in Run /\ r.net = n /\ r.stop = "no" /\ ~r.told /\ r.row = id /\ ~r.late
      /\ r.ver = IF n \in Stored THEN row[n].ver ELSE 0
      /\ r.missed = 0 /\ r.said = 0 /\ r.error = FALSE /\ r.unwritten = "none" /\ r.feed = "open"
  BY <1>0, <1>1, <1>2 DEF Run, Booted
<1> HIDE DEF r
<1>4. Ordered(r) /\ ~Stopping(r)
  BY <1>3 DEF Ordered, Stopping
<1>5. Fed(r)
  BY <1>3 DEF Fed
<1>6. /\ r \in Run /\ Ordered(r) /\ Fed(r) /\ ~Stopping(r)
      /\ r.net = n /\ r.stop = "no" /\ ~r.told /\ r.row = RowId(n)
      /\ n \in Stored => r.ver = row[n].ver
  BY <1>0, <1>3, <1>4, <1>5
<1> QED
  BY <1>6 DEF r

LEMMA InitInv == Init => NetworksInv
<1> SUFFICES ASSUME Init
             PROVE  NetworksInv
  OBVIOUS
<1>1. PICK rows \in SUBSET Stored :
         LET b == SetToSeq(Configured \cup rows) IN
         /\ row = [s \in Stored |-> IF s \in rows THEN [NoRow EXCEPT !.id = MaxOps + 1, !.on = TRUE]
                                    ELSE NoRow]
         /\ runs = [i \in DOMAIN b |-> Booted(b[i])]
         /\ slot = [n \in Nets |-> IF \E i \in DOMAIN b : b[i] = n
                                   THEN CHOOSE i \in DOMAIN b : b[i] = n ELSE NoRun]
  BY DEF Init, Booted, RowId
<1>2. /\ owner = "active" /\ hold = [g \in Configured |-> "no"] /\ replacing = {}
      /\ closed = FALSE /\ lane = Free /\ ops = 0 /\ excused = {}
  BY DEF Init
<1>3. PICK b : b = SetToSeq(Configured \cup rows)
  OBVIOUS
<1>4. IsFiniteSet(Configured \cup rows)
  <2>1. IsFiniteSet(rows)
    BY NetworksAssumption, FS_Subset
  <2> QED
    BY <2>1, NetworksAssumption, FS_Union
<1>5. /\ b \in Seq(Configured \cup rows) /\ DOMAIN b = 1 .. Len(b) /\ Len(b) \in Nat
      /\ \A i, j \in DOMAIN b : b[i] = b[j] => i = j
      /\ \A x \in Configured \cup rows : \E i \in DOMAIN b : b[i] = x
  <2>1. PICK S : S = Configured \cup rows
    OBVIOUS
  <2>2. IsFiniteSet(S) /\ b = SetToSeq(S)
    BY <1>3, <1>4, <2>1
  <2>3. /\ b \in Seq(S) /\ DOMAIN b = 1 .. Len(b)
        /\ \A i, j \in DOMAIN b : b[i] = b[j] => i = j
        /\ \A x \in S : \E i \in DOMAIN b : b[i] = x
    BY <2>2, ListsEach, Zenon
  <2>4. Len(b) \in Nat
    BY <2>3, LenProperties
  <2> QED
    BY <2>1, <2>3, <2>4
<1>6. \A i \in DOMAIN b : b[i] \in Configured \cup rows /\ b[i] \in Nets /\ i \in Nat /\ i # NoRun
  <2>1. \A i \in 1 .. Len(b) : b[i] \in Configured \cup rows
    BY <1>5, ElementOfSeq
  <2>2. \A i \in 1 .. Len(b) : i \in Nat /\ i # 0
    BY <1>5
  <2> QED
    BY <1>5, <2>1, <2>2 DEF Nets, NoRun
<1>7. /\ row \in [Stored -> RowState]
      /\ \A s \in Stored : /\ row[s].on <=> s \in rows
                           /\ s \in rows => row[s].id # 0
  <2>1. MaxOps + 1 \in Nat /\ MaxOps + 1 # 0
    BY NetworksAssumption
  <2>2. NoRow \in RowState /\ [NoRow EXCEPT !.id = MaxOps + 1, !.on = TRUE] \in RowState
        /\ NoRow.on = FALSE /\ [NoRow EXCEPT !.id = MaxOps + 1, !.on = TRUE].on = TRUE
        /\ [NoRow EXCEPT !.id = MaxOps + 1, !.on = TRUE].id # 0
    BY <2>1 DEF NoRow, RowState
  <2>3. \A s \in Stored : row[s] = IF s \in rows THEN [NoRow EXCEPT !.id = MaxOps + 1, !.on = TRUE]
                                   ELSE NoRow
    BY <1>1
  <2>4. \A s \in Stored : row[s] \in RowState
    BY <2>2, <2>3
  <2>5. row \in [Stored -> RowState]
    BY <1>1, <2>3, <2>4
  <2> QED
    BY <2>2, <2>3, <2>5
<1>8. DOMAIN runs = DOMAIN b /\ \A i \in DOMAIN b : runs[i] = Booted(b[i])
  BY <1>1, <1>3
<1>9. ASSUME NEW i \in DOMAIN b
      PROVE  /\ runs[i] \in Run /\ Ordered(runs[i]) /\ Fed(runs[i]) /\ ~Stopping(runs[i])
             /\ runs[i].net = b[i] /\ runs[i].stop = "no" /\ ~runs[i].told
             /\ runs[i].row = RowId(b[i])
             /\ b[i] \in Stored => runs[i].ver = row[b[i]].ver
  BY <1>6, <1>7, <1>8, BootedRun
<1>10. ASSUME NEW n \in Nets
       PROVE  \/ n \in Configured \cup rows /\ slot[n] \in DOMAIN b /\ b[slot[n]] = n
              \/ n \notin Configured \cup rows /\ slot[n] = NoRun
  <2>1. slot[n] = IF \E i \in DOMAIN b : b[i] = n
                  THEN CHOOSE i \in DOMAIN b : b[i] = n ELSE NoRun
    BY <1>1, <1>3
  <2>2. CASE n \in Configured \cup rows
    <3>1. \E i \in DOMAIN b : b[i] = n
      BY <1>5, <2>2
    <3> QED
      BY <2>1, <2>2, <3>1
  <2>3. CASE n \notin Configured \cup rows
    BY <1>6, <2>1, <2>3
  <2> QED
    BY <2>2, <2>3
<1>11. runs \in Seq(Run)
  <2>1. runs \in [1 .. Len(b) -> Run]
    BY <1>1, <1>3, <1>5, <1>8, <1>9
  <2> QED
    BY <1>5, <2>1
<1>12. TypeOK
  <2>1. slot \in [Nets -> Nat]
    <3>1. \A n \in Nets : slot[n] \in Nat
      BY <1>6, <1>10 DEF NoRun
    <3>2. slot = [n \in Nets |-> slot[n]]
      BY <1>1
    <3> QED
      BY <3>1, <3>2
  <2> QED
    BY <1>2, <1>7, <1>11, <2>1, FreeBegun DEF TypeOK, Begun
<1>13. RunsInv
  <2>1. Registered
    BY <1>2, <1>5, <1>6, <1>8, <1>9, <1>10 DEF Registered, IsHeld
  <2>2. OneUpstreamSession
    <3> SUFFICES ASSUME NEW i \in DOMAIN runs, NEW j \in DOMAIN runs, i < j,
                        runs[i].net = runs[j].net
                 PROVE  FALSE
      BY DEF OneUpstreamSession
    <3>1. i = j
      BY <1>5, <1>8, <1>9
    <3> QED
      BY <1>6, <1>8, <3>1
  <2> QED
    BY <1>8, <1>9, <2>1, <2>2 DEF RunsInv, RunsOrdered, BacklogInv
<1>14. RowInv
  <2> SUFFICES ASSUME NEW i \in DOMAIN runs, runs[i].net \in Stored
               PROVE  runs[i].row # 0 /\ row[runs[i].net].id = runs[i].row
    BY DEF RowInv
  <2>1. b[i] \in Stored /\ b[i] \in rows /\ runs[i].net = b[i] /\ runs[i].row = row[b[i]].id
    BY <1>6, <1>8, <1>9, NetworksAssumption DEF RowId
  <2> QED
    BY <1>7, <2>1
<1>15. Quiet
  BY <1>8, <1>9 DEF Quiet
<1>16. LaneInv
  BY <1>2, <1>15, FreeFields
     DEF LaneInv, ClosedIsEmpty, ReplacingIsEmpty, LaneShape, LaneTakes, LaneQuiet
<1>17. StandingInv
  <2>1. ASSUME NEW s \in Stored
        PROVE  Agrees(s)
    <3>1. Wanted(s) <=> s \in rows
      BY <1>2, <1>7 DEF Wanted
    <3>2. s \in Nets /\ s \notin Configured
      BY NetworksAssumption DEF Nets
    <3>3. CASE s \in rows
      <4>1. slot[s] \in DOMAIN b /\ b[slot[s]] = s
        BY <1>10, <3>2, <3>3
      <4> QED
        BY <1>6, <1>9, <3>1, <3>3, <4>1 DEF Agrees, Current
    <3>4. CASE s \notin rows
      BY <1>10, <3>1, <3>2, <3>4 DEF Agrees
    <3> QED
      BY <3>3, <3>4
  <2>2. StoredWell
    BY <1>2, <2>1, FreeFields DEF StoredWell, Removing
  <2>3. \A g \in Configured : slot[g] # NoRun /\ hold[g] = "no"
    BY <1>2, <1>6, <1>10 DEF Nets
  <2>4. ConfiguredWell
    BY <1>2, <2>3, FreeFields DEF ConfiguredWell, Due
  <2> QED
    BY <2>2, <2>4 DEF StandingInv
<1> QED
  BY <1>12, <1>13, <1>14, <1>16, <1>17 DEF NetworksInv, CoreInv

LEMMA StepInv == NetworksInv /\ [Next]_vars => NetworksInv'
<1> SUFFICES ASSUME NetworksInv, [Next]_vars
             PROVE  NetworksInv'
  OBVIOUS
<1>1. CASE Operation
  BY <1>1, CreateStep, UpdateStep, EnableStep, DisableStep, DeleteStep, SuspendStep,
     ReactivateStep, DeleteAccountStep DEF Operation
<1>2. CASE LaneStep
  BY <1>2, RemoveSlotsStep, DisabledStep, HoldConfiguredStep, HeldStep, DeleteRowStep,
     DeleteAccountRowStep, SupersedeStep, StartStep, AlreadyWorkingStep, RefusedClosedStep,
     ReleaseConfiguredStep, FinishStep DEF LaneStep
<1>3. CASE StopAll
  BY <1>3, StopAllStep
<1>4. ASSUME NEW i \in DOMAIN runs,
             StopStep(i) \/ FeedStep(i) \/ Say(i) \/ Park(i) \/ Release(i)
      PROVE  NetworksInv'
  BY <1>4, RunActionStep DEF RunAction
<1>5. CASE (\E n \in Busy : Resolve(n)) \/ ClientStep \/ Leave
  <2>1. ClientFrame
    BY <1>5 DEF Resolve, ClientStep, Subscribe, Attach, NetworkRemoved, Leave
  <2>2. UNCHANGED Settled /\ UNCHANGED runs
    BY <2>1 DEF ClientFrame, Settled, database, registry
  <2> QED
    BY <2>2, StutterStep
<1>6. CASE UNCHANGED vars
  <2>1. UNCHANGED Settled /\ UNCHANGED runs
    BY <1>6 DEF vars, Settled
  <2> QED
    BY <2>1, StutterStep
<1> QED
  BY <1>1, <1>2, <1>3, <1>4, <1>5, <1>6 DEF Next

\* The inductive invariant of the bouncer's registry: what its slots, its runs,
\* its lane and its rows are to each other, in every state the operations, the
\* stops, the persistence tasks and a shutdown can reach (bouncer/serve.rs).
THEOREM NetworksInvariant == Spec => []NetworksInv
BY InitInv, StepInv, PTL DEF Spec

\* Two upstream sessions of one network are never up at once, but for a
\* predecessor that was told to stop and outlived its deadline (serve.rs `replace`).
THEOREM OneSessionEach == Spec => []OneUpstreamSession
<1>1. NetworksInv => OneUpstreamSession
  BY DEF NetworksInv, CoreInv, RunsInv
<1> QED
  BY <1>1, NetworksInvariant, PTL

\* A driver that runs is registered or being stopped, and a closed registry stays
\* empty whatever is still on the lane (serve.rs `stop_all_within`, `insert`).
THEOREM NoDriverLeftBehind == Spec => []NoStrayDriver
<1>1. NetworksInv => NoStrayDriver
  <2> SUFFICES ASSUME NetworksInv
               PROVE  NoStrayDriver
    OBVIOUS
  <2>1. closed => \A n \in Nets : slot[n] = NoRun
    BY DEF NetworksInv, CoreInv, LaneInv, ClosedIsEmpty
  <2>2. ASSUME NEW i \in DOMAIN runs, ~runs[i].told
        PROVE  slot[runs[i].net] = i \/ Stopping(runs[i])
    <3>1. runs[i] \in Run
      BY RunsFacts DEF NetworksInv, CoreInv, TypeOK
    <3>2. runs[i].stop \in {"no", "tell"}
      BY <2>2, <3>1 DEF NetworksInv, CoreInv, RunsInv, RunsOrdered, Ordered, Run
    <3> QED
      BY <3>2 DEF NetworksInv, CoreInv, RunsInv, Registered, Stopping
  <2> QED
    BY <2>1, <2>2 DEF NoStrayDriver
<1> QED
  BY <1>1, NetworksInvariant, PTL

\* While a persistence task may write, the row it writes for is there: a delete
\* waits for the writer before it deletes the row (http/networks.rs
\* `delete_network_core`, account_deletion.rs).
THEOREM WritersHaveTheirRows == Spec => []WriterHasItsRow
<1>1. NetworksInv => WriterHasItsRow
  BY DEF NetworksInv, CoreInv, RowInv, WriterHasItsRow
<1> QED
  BY <1>1, NetworksInvariant, PTL

\* A stop that keeps the backlog keeps all of it or says that it did not, for any
\* broadcast capacity (serve.rs `PersistenceFeed::next`).
THEOREM GapsAreTold == Spec => []NoSilentGap
<1>1. NetworksInv => NoSilentGap
  BY DEF NetworksInv, CoreInv, RunsInv, BacklogInv, Fed, NoSilentGap
<1> QED
  BY <1>1, NetworksInvariant, PTL

\* With the lane free, what runs is what is stored, held as the owner's account
\* asks, whatever operations failed, were refused or were restarted before
\* (http/networks.rs, http/mod.rs, account_deletion.rs).
THEOREM RunsWhatIsStored == Spec => []RunsAsStored
<1>1. NetworksInv => RunsAsStored
  <2> SUFFICES ASSUME NetworksInv, lane = Free, ~closed
               PROVE  /\ \A s \in Stored \ excused :
                            IF row[s].on /\ owner = "active"
                            THEN /\ slot[s] # NoRun
                                 /\ ~runs[slot[s]].told /\ runs[slot[s]].ver = row[s].ver
                            ELSE slot[s] = NoRun
                      /\ \A g \in Configured \ excused :
                            /\ slot[g] # NoRun /\ hold[g] = Due
                            /\ runs[slot[g]].told <=> hold[g] # "no"
    BY DEF RunsAsStored, Due
  <2>1. /\ \A s \in Stored \ excused : Agrees(s)
        /\ \A g \in Configured : slot[g] # NoRun
        /\ \A g \in Configured \ excused : hold[g] = Due
    BY FreeAgrees DEF NetworksInv
  <2>2. ASSUME NEW g \in Configured
        PROVE  runs[slot[g]].told <=> hold[g] # "no"
    <3>1. g \in Nets /\ slot[g] \in DOMAIN runs
          /\ runs[slot[g]].stop = IF IsHeld(g) THEN "done" ELSE "no"
      BY <2>1 DEF NetworksInv, CoreInv, RunsInv, Registered, Nets
    <3>2. Ordered(runs[slot[g]])
      BY <3>1 DEF NetworksInv, CoreInv, RunsInv, RunsOrdered
    <3> QED
      BY <3>1, <3>2 DEF Ordered, IsHeld
  <2> QED
    BY <2>1, <2>2 DEF Agrees, Wanted, Current
<1> QED
  BY <1>1, NetworksInvariant, PTL
=============================================================================
