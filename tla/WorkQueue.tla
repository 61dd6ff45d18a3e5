------------------------------ MODULE WorkQueue ------------------------------
(***************************************************************************)
(* The bounded multi-producer queue of crates/e6irc-queue/src/lib.rs: the   *)
(* queue under every core worker, send queue and UI stream.                 *)
(*                                                                         *)
(* Every operation runs under one mutex and wakes whoever it chose right    *)
(* after it unlocks, so an operation is one action here.  What is           *)
(* concurrent is the order of the operations: a producer that was woken is  *)
(* only polled later, and anything may happen to the room in between.       *)
(* Events are reduced to their weight; WorkQueueHistory adds the sequence   *)
(* numbers, which no decision in this module reads.                         *)
(***************************************************************************)
EXTENDS Integers, Sequences, FiniteSets, SequencesExt, Totals

CONSTANTS
    Producers,      \* tasks that may hold a Sender and push through it
    Sizes,          \* what `weigh` may answer for an event
    Capacity,       \* Config::capacity
    Adaptive,       \* Policy::AdaptiveLifo rather than Policy::Fifo
    High, Low       \* its watermarks

ASSUME QueueAssumption ==
    /\ Sizes \subseteq Nat
    /\ Capacity \in Nat \ {0}
    /\ Adaptive \in BOOLEAN
    /\ Low \in Nat /\ High \in Nat
    /\ Adaptive => Low < High /\ High <= Capacity

VARIABLES
    buf,            \* weights of the buffered events, oldest first
    load,           \* State::load
    mode,           \* State::mode
    senders,        \* producers that hold a Sender (sender_count = Cardinality)
    recv,           \* the receiver's task: "run", "wait" (State::waker set),
                    \* "ended" (pop answered None), "dropped" (receiver_alive off)
    gone,           \* the SendersGone waiter: "idle", "wait", "run", "resolved"
    line,           \* State::push_wakers, front first
    fut,            \* the Push or Room future of each producer
    awake           \* producers whose waker was called and who were not polled since

queueVars == <<buf, load, mode, senders, recv, gone, line, fut, awake>>

\* `waiter` is ParkedProducer::waiter being Some: the future has been in line.
\* "offer" is a resolved Room whose owner has yet to call try_push.
NoFuture == [op |-> "none", weight |-> 0, waiter |-> FALSE]

receiverAlive == recv # "dropped"

WeightOf(size) == IF size = 0 THEN 1 ELSE size

MutFitsWhileBelow(l, weight) == l < Capacity

Fits(l, weight) == l = 0 \/ l + weight <= Capacity

ModeAt(l) ==
    IF Adaptive /\ mode = "fifo" /\ l >= High THEN "lifo"
    ELSE IF Adaptive /\ mode = "lifo" /\ l <= Low THEN "fifo"
    ELSE mode

\* How many producers at the front of `parked` fit a queue holding l, each
\* counted as if the ones ahead of it had pushed already.
Admitted(l, parked) ==
    LET weights == [i \in 1 .. Len(parked) |-> fut[parked[i]].weight]
        fits(n) == \A i \in 1 .. n : Fits(l + TotalWeight(SubSeq(weights, 1, i - 1)), weights[i])
    IN  Max({n \in 0 .. Len(parked) : fits(n)})

\* The line after `p` has left it.
Without(parked, p) ==
    IF Contains(parked, p)
    THEN RemoveAt(parked, CHOOSE i \in 1 .. Len(parked) : parked[i] = p)
    ELSE parked

-----------------------------------------------------------------------------

QueueInit ==
    /\ buf = <<>> /\ load = 0 /\ mode = "fifo"
    /\ \E p \in Producers : senders = {p}
    /\ recv = "run" /\ gone = "idle"
    /\ line = <<>> /\ awake = {}
    /\ fut = [p \in Producers |-> NoFuture]

\* Wake, and take out of `parked`, every producer that fits a queue holding l.
TakeAdmittedWaiters(l, parked, stillAwake) ==
    LET n == Admitted(l, parked)
    IN  /\ line' = SubSeq(parked, n + 1, Len(parked))
        /\ awake' = stillAwake \cup ToSet(SubSeq(parked, 1, n))

\* The accepted half of try_push and of Push::poll.
Enqueue(weight) ==
    /\ buf' = Append(buf, weight)
    /\ load' = load + weight
    /\ mode' = ModeAt(load + weight)
    /\ recv' = IF recv = "wait" THEN "run" ELSE recv

\* Sender::try_push.  A refused event goes back to the caller and changes
\* nothing, except that a producer that waited for room goes to wait again.
TryPush(p, size) ==
    /\ p \in senders /\ fut[p].op = "none"
    /\ receiverAlive
    /\ Fits(load, WeightOf(size))
    /\ Enqueue(WeightOf(size))
    /\ UNCHANGED <<senders, gone, line, fut, awake>>

\* Sender::take_queued: the producer retracts everything not yet popped.
TakeQueued(p) ==
    /\ p \in senders /\ buf # <<>>
    /\ buf' = <<>>
    /\ load' = 0
    /\ mode' = ModeAt(0)
    /\ TakeAdmittedWaiters(0, line, awake)
    /\ UNCHANGED <<senders, recv, gone, fut>>

\* Sender::push and Sender::room_for: the future exists and is about to be
\* polled for the first time.
Start(p, op, size) ==
    /\ p \in senders /\ fut[p].op = "none"
    /\ fut' = [fut EXCEPT ![p] = [op |-> op, weight |-> WeightOf(size), waiter |-> FALSE]]
    /\ awake' = awake \cup {p}
    /\ UNCHANGED <<buf, load, mode, senders, recv, gone, line>>

\* ParkedProducer::served: the future resolves and gives up its place.
Served(p, left) ==
    /\ fut' = [fut EXCEPT ![p] = left]
    /\ line' = Without(line, p)
    /\ awake' = awake \ {p}

\* ParkedProducer::park: join the line once.  A producer whose registration a
\* pop had taken, and who lost the room since, joins it again at the back.
Park(p) ==
    /\ fut' = [fut EXCEPT ![p].waiter = TRUE]
    /\ line' = IF Contains(line, p) THEN line ELSE Append(line, p)
    /\ awake' = awake \ {p}
    /\ UNCHANGED <<buf, load, mode, recv>>

\* Push::poll.
PollPush(p) ==
    /\ fut[p].op = "push"
    /\ \/ /\ ~receiverAlive
          /\ Served(p, NoFuture)
          /\ UNCHANGED <<buf, load, mode, recv>>
       \/ /\ receiverAlive
          /\ Fits(load, fut[p].weight)
          /\ Served(p, NoFuture)
          /\ Enqueue(fut[p].weight)
       \/ /\ receiverAlive
          /\ ~Fits(load, fut[p].weight)
          /\ Park(p)
    /\ UNCHANGED <<senders, gone>>

\* Room::poll: resolves on room or on a closed queue, and holds neither.
PollRoom(p) ==
    /\ fut[p].op = "room"
    /\ \/ /\ ~receiverAlive \/ Fits(load, fut[p].weight)
          /\ Served(p, [op |-> "offer", weight |-> fut[p].weight, waiter |-> FALSE])
          /\ UNCHANGED <<buf, load, mode, recv>>
       \/ /\ receiverAlive /\ ~Fits(load, fut[p].weight)
          /\ Park(p)
    /\ UNCHANGED <<senders, gone>>

\* The owner of a resolved Room offers its event with try_push, and asks for
\* room again when somebody else has taken it (core/mod.rs, websocket.rs).
Offer(p) ==
    /\ fut[p].op = "offer"
    /\ \/ /\ ~receiverAlive
          /\ fut' = [fut EXCEPT ![p] = NoFuture]
          /\ UNCHANGED <<buf, load, mode, recv, awake>>
       \/ /\ receiverAlive
          /\ Fits(load, fut[p].weight)
          /\ Enqueue(fut[p].weight)
          /\ fut' = [fut EXCEPT ![p] = NoFuture]
          /\ UNCHANGED awake
       \/ /\ receiverAlive
          /\ ~Fits(load, fut[p].weight)
          /\ fut' = [fut EXCEPT ![p].op = "room"]
          /\ awake' = awake \cup {p}
          /\ UNCHANGED <<buf, load, mode, recv>>
    /\ UNCHANGED <<senders, gone, line>>

MutCancelKeepsTheRoom(p) ==
    /\ fut[p].op \in {"push", "room"}
    /\ fut' = [fut EXCEPT ![p] = NoFuture]
    /\ line' = Without(line, p) /\ awake' = awake \ {p}
    /\ UNCHANGED <<buf, load, mode, senders, recv, gone>>

\* Drop for ParkedProducer: a select! took another branch, or the task ended.
\* A producer that a pop had already chosen offers its room to the line again.
Cancel(p) ==
    /\ fut[p].op \in {"push", "room"}
    /\ fut' = [fut EXCEPT ![p] = NoFuture]
    /\ IF fut[p].waiter /\ ~Contains(line, p)
       THEN TakeAdmittedWaiters(load, line, awake \ {p})
       ELSE line' = Without(line, p) /\ awake' = awake \ {p}
    /\ UNCHANGED <<buf, load, mode, senders, recv, gone>>

\* The event dequeue takes: the oldest, or the freshest in degraded mode.
Dequeued == IF mode = "fifo" THEN Head(buf) ELSE Last(buf)

\* Receiver::try_pop, and poll_pop with an event to take.
Pop ==
    /\ recv = "run"
    /\ buf # <<>>
    /\ buf' = IF mode = "fifo" THEN Tail(buf) ELSE Front(buf)
    /\ load' = load - Dequeued
    /\ mode' = ModeAt(load - Dequeued)
    /\ TakeAdmittedWaiters(load - Dequeued, line, awake)
    /\ UNCHANGED <<senders, recv, gone, fut>>

\* poll_pop on an empty queue.
PopEmpty ==
    /\ recv = "run"
    /\ buf = <<>>
    /\ recv' = IF senders = {} THEN "ended" ELSE "wait"
    /\ UNCHANGED <<buf, load, mode, senders, gone, line, fut, awake>>

\* A select! around pop polls it again because another branch woke the task.
PollAgain ==
    /\ recv = "wait"
    /\ recv' = "run"
    /\ UNCHANGED <<buf, load, mode, senders, gone, line, fut, awake>>

\* SendersGone::wait, polled first or after its waker was called.
AwaitSendersGone ==
    /\ gone \in {"idle", "run"}
    /\ gone' = IF senders = {} THEN "resolved" ELSE "wait"
    /\ UNCHANGED <<buf, load, mode, senders, recv, line, fut, awake>>

\* Clone for Sender.
CloneSender(p, q) ==
    /\ p \in senders /\ q \notin senders
    /\ senders' = senders \cup {q}
    /\ UNCHANGED <<buf, load, mode, recv, gone, line, fut, awake>>

MutDropSenderTellsReceiverOnly(p) ==
    /\ p \in senders /\ fut[p].op = "none"
    /\ senders' = senders \ {p}
    /\ recv' = IF senders' = {} /\ recv = "wait" THEN "run" ELSE recv
    /\ UNCHANGED <<buf, load, mode, gone, line, fut, awake>>

\* Drop for Sender: its futures borrow it, so they are gone already.
DropSender(p) ==
    /\ p \in senders /\ fut[p].op = "none"
    /\ senders' = senders \ {p}
    /\ recv' = IF senders' = {} /\ recv = "wait" THEN "run" ELSE recv
    /\ gone' = IF senders' = {} /\ gone = "wait" THEN "run" ELSE gone
    /\ UNCHANGED <<buf, load, mode, line, fut, awake>>

MutDropReceiverWakesNobody ==
    /\ receiverAlive
    /\ recv' = "dropped"
    /\ UNCHANGED <<buf, load, mode, senders, gone, line, fut, awake>>

\* Drop for Receiver: every parked producer is woken to get its event back.
DropReceiver ==
    /\ receiverAlive
    /\ recv' = "dropped"
    /\ line' = <<>>
    /\ awake' = awake \cup ToSet(line)
    /\ UNCHANGED <<buf, load, mode, senders, gone, fut>>

Poll(p) == PollPush(p) \/ PollRoom(p)

QueueNext ==
    \/ \E p \in Producers :
          \/ \E size \in Sizes : TryPush(p, size)
          \/ \E size \in Sizes, op \in {"push", "room"} : Start(p, op, size)
          \/ \E q \in Producers : CloneSender(p, q)
          \/ TakeQueued(p) \/ Poll(p) \/ Offer(p) \/ Cancel(p) \/ DropSender(p)
    \/ Pop \/ PopEmpty \/ PollAgain \/ AwaitSendersGone \/ DropReceiver

\* The executor polls a woken task, a task that runs does not stop between two
\* awaits, and the consumer's loop asks for the next event as long as it lives.
Fairness ==
    /\ \A p \in Producers : WF_queueVars(p \in awake /\ Poll(p)) /\ WF_queueVars(Offer(p))
    /\ WF_queueVars(Pop) /\ WF_queueVars(PopEmpty)
    /\ WF_queueVars(gone = "run" /\ AwaitSendersGone)

QueueSpec == QueueInit /\ [][QueueNext]_queueVars
QueueFairSpec == QueueSpec /\ Fairness

-----------------------------------------------------------------------------

\* The account agrees with the buffer, and only one event, admitted into an
\* empty queue, may exceed the capacity ("at most `capacity` plus one event's
\* weight"): the bound holds through retractions, mode switches and barging.
BoundedByWeight ==
    /\ load = TotalWeight(buf)
    /\ load > Capacity => Len(buf) = 1

\* No wake is lost.  The receiver never sleeps on a queue that holds an event
\* or has lost its last sender: every push and the last drop take its waker.
\* And with the queue empty no pop will come to wake anybody, so while
\* producers are parked some producer that was chosen must still be on its way
\* to use the room or to hand it on: the wake is not lost to a cancelled
\* producer, a retraction or a producer that found the room taken.
NoLostWakeup ==
    /\ recv = "wait" => buf = <<>> /\ senders # {}
    /\ (receiverAlive /\ load = 0 /\ line # <<>>) =>
           \E p \in Producers \ ToSet(line) :
               \/ fut[p].op \in {"push", "room"} /\ p \in awake
               \/ fut[p].op = "offer"

Parked(p) == Contains(line, p)

\* "a stream of light events cannot starve a heavy one" (take_admitted_waiters):
\* a producer in line leaves it eventually, as the consumer keeps popping.
ParkedProducerIsServed == \A p \in Producers : Parked(p) ~> ~Parked(p)

\* Once the last sender is gone, its drop wakes whoever waits for that.
SendersGoneIsReported ==
    (senders = {} /\ gone = "wait") ~> gone = "resolved"
=============================================================================
