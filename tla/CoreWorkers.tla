----------------------------- MODULE CoreWorkers -----------------------------
(***************************************************************************)
(* The core's shards as workers that send each other events, and how they   *)
(* stop: CoreWorker, CrossShardTraffic and CoreIngress::broadcast of        *)
(* crates/e6ircd/src/core/mod.rs, and the core's part of ShutdownHandle     *)
(* (net.rs).                                                                *)
(*                                                                         *)
(* What an event does to a shard's own state is left out; that handling it  *)
(* sends any number of events to other shards is kept.  A shard's queue is  *)
(* the FIFO queue of WorkQueue; a wait for room in it is what ProducerNot-  *)
(* Stranded there makes it: over once there is room.                        *)
(***************************************************************************)
EXTENDS Integers, Sequences, SequencesExt, FiniteSets

CONSTANTS
    N,                  \* shards
    QueueCapacity,      \* of each shard's ingress queue
    BacklogLimit,       \* CROSS_SHARD_BACKLOG_LIMIT
    MaxSent,            \* bound: events the workers send each other
    MaxOutside          \* bound: events from outside (lines, ticks, replies)

ASSUME WorkersAssumption ==
    /\ N \in Nat \ {0} /\ QueueCapacity \in Nat \ {0} /\ BacklogLimit \in Nat
    /\ MaxSent \in Nat /\ MaxOutside \in Nat

Workers == 1 .. N

VARIABLES
    queue,              \* each shard's ingress queue
    backlog,            \* backlog[w][d]: what w holds for d
    inFlight, stopped,  \* CrossShardTraffic: in_flight and stopping
    woken,              \* `changed`, once enabled, was notified
    pc, dest,           \* where a worker is, and send_backlog's destination
    cur,                \* the event it is handling
    stopping,           \* CoreWorker::stopping
    exit,               \* CoreWorkerExit; "running" before
    told,               \* shards offered Shutdown; -1 while the server serves
    outside,            \* events from outside so far
    sentTo, handled     \* history: events w sent d; events of w that d handled

traffic == <<inFlight, stopped, woken>>
history == <<sentTo, handled>>
workersVars == <<queue, backlog, traffic, pc, dest, cur, stopping, exit, told, outside, history>>

FromShard(w, n) == [kind |-> "shard", from |-> w, n |-> n]
Outside == [kind |-> "outside", from |-> 0, n |-> 0]
Shutdown == [kind |-> "shutdown", from |-> 0, n |-> 0]
Events == {FromShard(w, n) : w \in Workers, n \in Nat} \cup {Outside, Shutdown}

Closed(w) == exit[w] # "running"
Room(d) == Closed(d) \/ Len(queue[d]) < QueueCapacity

WorkersInit ==
    /\ queue = [w \in Workers |-> <<>>]
    /\ backlog = [w \in Workers |-> [d \in Workers |-> <<>>]]
    /\ inFlight = 0 /\ stopped = 0
    /\ woken = [w \in Workers |-> FALSE]
    /\ pc = [w \in Workers |-> "send"] /\ dest = [w \in Workers |-> 1]
    /\ cur = [w \in Workers |-> Outside]
    /\ stopping = [w \in Workers |-> FALSE]
    /\ exit = [w \in Workers |-> "running"]
    /\ told = -1 /\ outside = 0
    /\ sentTo = [w \in Workers |-> [d \in Workers |-> 0]]
    /\ handled = [w \in Workers |-> [d \in Workers |-> 0]]

Goto(w, place) == pc' = [pc EXCEPT ![w] = place]

\* The loop of run() starts again, with send_backlog, possibly after a notify.
Again(w, place) ==
    /\ Goto(w, place)
    /\ dest' = [dest EXCEPT ![w] = 1]
    /\ cur' = [cur EXCEPT ![w] = Outside]

\* run() returns: the receiver goes, with everything queued for it and
\* everything it held for others, none of it settled.
Leave(w, how) ==
    /\ exit' = [exit EXCEPT ![w] = how]
    /\ Goto(w, "exited")
    /\ queue' = [queue EXCEPT ![w] = <<>>]
    /\ backlog' = [backlog EXCEPT ![w] = [d \in Workers |-> <<>>]]

-----------------------------------------------------------------------------
\* send_backlog

SendNext(w) ==
    /\ dest' = [dest EXCEPT ![w] = @ + 1]
    /\ UNCHANGED pc

\* This shard's events are all sent, or have waited for the whole loop: the
\* next one, or the rest of run().
SendDone(w) ==
    LET d == dest[w] IN
    /\ pc[w] = "send" /\ d <= N
    /\ backlog[w][d] = <<>> \/ ~Room(d)
    /\ IF Len(backlog[w][d]) > BacklogLimit
       THEN Leave(w, "backlogged") /\ UNCHANGED dest
       ELSE SendNext(w) /\ UNCHANGED <<queue, backlog, exit>>
    /\ UNCHANGED <<traffic, cur, stopping, told, outside, history>>

MutSendToTheBack(w) ==
    LET d == dest[w] IN
    /\ pc[w] = "send" /\ d <= N
    /\ backlog[w][d] # <<>> /\ ~Closed(d)
    /\ IF Room(d)
       THEN /\ queue' = [queue EXCEPT ![d] = Append(@, Head(backlog[w][d]))]
            /\ backlog' = [backlog EXCEPT ![w][d] = Tail(@)]
            /\ UNCHANGED <<pc, dest>>
       ELSE /\ backlog' = [backlog EXCEPT ![w][d] = Append(Tail(@), Head(@))]
            /\ UNCHANGED queue
            /\ SendNext(w)
    /\ UNCHANGED <<traffic, cur, stopping, exit, told, outside, history>>

\* try_push takes the oldest.
SendOne(w) ==
    LET d == dest[w] IN
    /\ pc[w] = "send" /\ d <= N
    /\ backlog[w][d] # <<>> /\ Room(d) /\ ~Closed(d)
    /\ queue' = [queue EXCEPT ![d] = Append(@, Head(backlog[w][d]))]
    /\ backlog' = [backlog EXCEPT ![w][d] = Tail(@)]
    /\ UNCHANGED <<traffic, pc, dest, cur, stopping, exit, told, outside, history>>

\* settled(): fetch_sub, and the notify_waiters it calls for at zero, a step of
\* its own.
Settled == inFlight' = inFlight - 1
AfterSettled == IF inFlight = 1 THEN "notify" ELSE "send"

\* try_push finds the shard gone: not owed any more; while serving, the end.
SendClosed(w) ==
    LET d == dest[w] IN
    /\ pc[w] = "send" /\ d <= N
    /\ backlog[w][d] # <<>> /\ Closed(d)
    /\ backlog' = [backlog EXCEPT ![w][d] = Tail(@)]
    /\ Settled
    /\ Goto(w, IF stopping[w] THEN AfterSettled ELSE IF inFlight = 1 THEN "notify_leave" ELSE "leave")
    /\ UNCHANGED <<queue, stopped, woken, dest, cur, stopping, exit, told, outside, history>>

\* notify_waiters reaches the workers whose `changed` is enabled.
Enabled(w) == pc[w] \in {"load_stopping", "load_in_flight", "select"}
NotifyWaiters == woken' = [w \in Workers |-> woken[w] \/ Enabled(w)]

Notify(w) ==
    /\ pc[w] \in {"notify", "notify_leave"}
    /\ NotifyWaiters
    /\ Goto(w, IF pc[w] = "notify" THEN "send" ELSE "leave")
    /\ UNCHANGED <<queue, backlog, inFlight, stopped, dest, cur, stopping, exit, told,
                   outside, history>>

PeerClosed(w) ==
    /\ pc[w] = "leave"
    /\ Leave(w, "peer_closed")
    /\ UNCHANGED <<traffic, dest, cur, stopping, told, outside, history>>

-----------------------------------------------------------------------------
\* run(): the check that the drain is over, and the wait.

Enable(w) ==
    /\ pc[w] = "send" /\ dest[w] = N + 1
    /\ woken' = [woken EXCEPT ![w] = FALSE]
    /\ Goto(w, IF stopping[w] THEN "load_stopping" ELSE "select")
    /\ UNCHANGED <<queue, backlog, inFlight, stopped, dest, cur, stopping, exit, told,
                   outside, history>>

MutLoadStoppingIsEnough(w) ==
    /\ pc[w] = "load_stopping"
    /\ Goto(w, "load_in_flight")
    /\ UNCHANGED <<queue, backlog, traffic, dest, cur, stopping, exit, told, outside, history>>

\* drained(): the two loads.
LoadStopping(w) ==
    /\ pc[w] = "load_stopping"
    /\ Goto(w, IF stopped = N THEN "load_in_flight" ELSE "select")
    /\ UNCHANGED <<queue, backlog, traffic, dest, cur, stopping, exit, told, outside, history>>

LoadInFlight(w) ==
    /\ pc[w] = "load_in_flight"
    /\ IF inFlight = 0 THEN Leave(w, "stopped")
                       ELSE Goto(w, "select") /\ UNCHANGED <<queue, backlog, exit>>
    /\ UNCHANGED <<traffic, dest, cur, stopping, told, outside, history>>

\* The select! pops an event ...
Pop(w) ==
    /\ pc[w] = "select" /\ queue[w] # <<>>
    /\ cur' = [cur EXCEPT ![w] = Head(queue[w])]
    /\ queue' = [queue EXCEPT ![w] = Tail(@)]
    /\ Goto(w, "accept")
    /\ woken' = [woken EXCEPT ![w] = FALSE]
    /\ UNCHANGED <<backlog, inFlight, stopped, dest, stopping, exit, told, outside, history>>

Blocked(w) == {d \in Workers : backlog[w][d] # <<>>}

MutRoomWakesNobody(w) ==
    /\ pc[w] = "select" /\ stopping[w] /\ woken[w]
    /\ Again(w, "send")
    /\ UNCHANGED <<queue, backlog, traffic, stopping, exit, told, outside, history>>

\* ... or there is room for the first blocked destination's oldest event, or
\* the drain may be over.
Wake(w) ==
    /\ pc[w] = "select"
    /\ \/ \E d \in Blocked(w) : (\A e \in Blocked(w) : d <= e) /\ Room(d)
       \/ stopping[w] /\ woken[w]
    /\ Again(w, "send")
    /\ UNCHANGED <<queue, backlog, traffic, stopping, exit, told, outside, history>>

-----------------------------------------------------------------------------
\* accept()

\* A stopping worker takes nothing from outside.
Skip(w) ==
    /\ pc[w] = "accept" /\ stopping[w] /\ cur[w].kind # "shard"
    /\ Again(w, "send")
    /\ UNCHANGED <<queue, backlog, traffic, stopping, exit, told, outside, history>>

Handle(w) ==
    /\ pc[w] = "accept" /\ ~(stopping[w] /\ cur[w].kind # "shard")
    /\ Goto(w, "effects")
    /\ handled' = IF cur[w].kind = "shard"
                  THEN [handled EXCEPT ![cur[w].from][w] = @ + 1]
                  ELSE handled
    /\ UNCHANGED <<queue, backlog, traffic, dest, cur, stopping, exit, told, outside, sentTo>>

TotalSent == FoldLeft(LAMBDA total, byDest : total + FoldLeft(+, 0, byDest), 0, sentTo)

\* sent(), then into the backlog.
Effect(w, d) ==
    /\ pc[w] = "effects" /\ d # w /\ TotalSent < MaxSent
    /\ inFlight' = inFlight + 1
    /\ sentTo' = [sentTo EXCEPT ![w][d] = @ + 1]
    /\ backlog' = [backlog EXCEPT ![w][d] = Append(@, FromShard(w, sentTo'[w][d]))]
    /\ UNCHANGED <<queue, stopped, woken, pc, dest, cur, stopping, exit, told, outside, handled>>

MutSettleNothing(w) ==
    /\ pc[w] = "effects" /\ cur[w].kind # "shutdown"
    /\ Again(w, "send")
    /\ UNCHANGED <<queue, backlog, traffic, stopping, exit, told, outside, history>>

\* No more effects; what a shard sent is settled, Shutdown counts this worker
\* among the stopping.
Settle(w) ==
    /\ pc[w] = "effects" /\ cur[w].kind # "shutdown"
    /\ IF cur[w].kind = "shard"
       THEN Settled /\ Again(w, AfterSettled)
       ELSE Again(w, "send") /\ UNCHANGED inFlight
    /\ UNCHANGED <<queue, backlog, stopped, woken, stopping, exit, told, outside, history>>

Stop(w) ==
    /\ pc[w] = "effects" /\ cur[w].kind = "shutdown"
    /\ stopping' = [stopping EXCEPT ![w] = TRUE]
    /\ stopped' = stopped + 1
    /\ Again(w, "notify")
    /\ UNCHANGED <<queue, backlog, inFlight, woken, exit, told, outside, history>>

-----------------------------------------------------------------------------
\* The rest of the process.

\* A connection, the clock or the database pushes an event.
Push(d) ==
    /\ outside < MaxOutside /\ Room(d)
    /\ queue' = IF Closed(d) THEN queue ELSE [queue EXCEPT ![d] = Append(@, Outside)]
    /\ outside' = outside + 1
    /\ UNCHANGED <<backlog, traffic, pc, dest, cur, stopping, exit, told, history>>

\* A signal, or a shard that failed (next_core_failure).
BeginShutdown ==
    /\ told = -1
    /\ told' = 0
    /\ UNCHANGED <<queue, backlog, traffic, pc, dest, cur, stopping, exit, outside, history>>

\* broadcast(): each shard is offered its copy in turn, waiting for room; one
\* that is gone does not excuse the rest.
Tell ==
    /\ told \in 0 .. (N - 1) /\ Room(told + 1)
    /\ queue' = IF Closed(told + 1) THEN queue
                ELSE [queue EXCEPT ![told + 1] = Append(@, Shutdown)]
    /\ told' = told + 1
    /\ UNCHANGED <<backlog, traffic, pc, dest, cur, stopping, exit, outside, history>>

Failed(w) == exit[w] \in {"backlogged", "peer_closed"}

\* The core's stop budget is over: what has not stopped is aborted.  The budget
\* is taken to be enough for workers none of which has failed.
Abort ==
    /\ told # -1 /\ (\E w \in Workers : Failed(w))
    /\ \E w \in Workers : ~Closed(w)
    /\ exit' = [w \in Workers |-> IF Closed(w) THEN exit[w] ELSE "aborted"]
    /\ pc' = [w \in Workers |-> "exited"]
    /\ queue' = [w \in Workers |-> <<>>]
    /\ backlog' = [w \in Workers |-> [d \in Workers |-> <<>>]]
    /\ UNCHANGED <<traffic, dest, cur, stopping, told, outside, history>>

Step(w) ==
    \/ SendDone(w) \/ SendOne(w) \/ SendClosed(w) \/ Notify(w) \/ PeerClosed(w)
    \/ Enable(w) \/ LoadStopping(w) \/ LoadInFlight(w) \/ Pop(w) \/ Wake(w)
    \/ Skip(w) \/ Handle(w) \/ Settle(w) \/ Stop(w)

WorkersNext ==
    \/ \E w \in Workers : Step(w) \/ Push(w)
    \/ \E w, d \in Workers : Effect(w, d)
    \/ BeginShutdown \/ Tell \/ Abort

\* Every worker's task keeps being polled, and so is the shutdown's; a failed
\* shard begins one.
WorkersFairness ==
    /\ \A w \in Workers : WF_workersVars(Step(w))
    /\ WF_workersVars(Tell) /\ WF_workersVars(Abort)
    /\ WF_workersVars((\E w \in Workers : Failed(w)) /\ BeginShutdown)

WorkersSpec == WorkersInit /\ [][WorkersNext]_workersVars
WorkersFairSpec == WorkersSpec /\ WorkersFairness

-----------------------------------------------------------------------------

Places == {"send", "notify", "notify_leave", "leave", "load_stopping", "load_in_flight",
           "select", "accept", "effects", "exited"}
Exits == {"running", "stopped", "backlogged", "peer_closed", "aborted"}

WorkersTypeOK ==
    /\ queue \in [Workers -> Seq(Events)]
    /\ backlog \in [Workers -> [Workers -> Seq(Events)]]
    /\ inFlight \in Nat /\ stopped \in 0 .. N /\ woken \in [Workers -> BOOLEAN]
    /\ pc \in [Workers -> Places]
    /\ dest \in [Workers -> 1 .. (N + 1)]
    /\ cur \in [Workers -> Events]
    /\ stopping \in [Workers -> BOOLEAN]
    /\ exit \in [Workers -> Exits]
    /\ told \in -1 .. N /\ outside \in Nat
    /\ sentTo \in [Workers -> [Workers -> Nat]]
    /\ handled \in [Workers -> [Workers -> Nat]]

\* What may hold events of d for w, oldest first: what w has taken and not begun
\* to handle, its queue, and what d still holds back.
OnTheWay(d, w) ==
    (IF pc[w] = "accept" THEN <<cur[w]>> ELSE <<>>) \o queue[w] \o backlog[d][w]

IsFrom(e, d) == e.kind = "shard" /\ e.from = d
Numbers(d, events) == {events[i].n : i \in {j \in DOMAIN events : IsFrom(events[j], d)}}
Increasing(d, events) ==
    \A i, j \in DOMAIN events :
        i < j /\ IsFrom(events[i], d) /\ IsFrom(events[j], d) => events[i].n < events[j].n

\* Every event one shard sends another is handled once, in the order sent, with
\* any number of full queues on the way; only a shard that has left misses any.
DeliveredInOrder ==
    \A d, w \in Workers : ~Closed(w) /\ ~Closed(d) =>
        /\ handled[d][w] <= sentTo[d][w]
        /\ Numbers(d, OnTheWay(d, w)) = (handled[d][w] + 1) .. sentTo[d][w]
        /\ Increasing(d, OnTheWay(d, w))

\* While nobody has failed, nothing addressed to a shard is on its way or being
\* handled when a worker has stopped, and every other worker is stopping: "zero
\* means nothing is on its way and nothing will be".
StoppedMeansQuiet ==
    (\E w \in Workers : exit[w] = "stopped") /\ (\A w \in Workers : ~Failed(w)) =>
        /\ \A w \in Workers : stopping[w]
        /\ \A d, w \in Workers : sentTo[d][w] = handled[d][w]
        /\ \A w \in Workers : pc[w] = "effects" => cur[w].kind # "shard"

\* Workers never wait on each other's full queues for ever: what is held back
\* for a shard is sent on, or one of the two has left.
BacklogsMove ==
    \A w, d \in Workers :
        backlog[w][d] # <<>> ~> backlog[w][d] = <<>> \/ Closed(w) \/ Closed(d)

\* Once shutdown begins every core is gone, as the database worker's flush needs,
\* and if no shard failed each has stopped by itself, everything handled.
ShutdownEnds == told # -1 ~> \A w \in Workers : Closed(w)
=============================================================================
