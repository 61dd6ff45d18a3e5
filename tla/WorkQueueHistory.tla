-------------------------- MODULE WorkQueueHistory --------------------------
(***************************************************************************)
(* WorkQueue with the identity of its events: the sequence number each      *)
(* accepted event is given (Envelope::seq), and, as history, what became of *)
(* it.  Nothing here restricts WorkQueue except the bound on how many       *)
(* events are accepted.                                                     *)
(***************************************************************************)
EXTENDS WorkQueue

CONSTANT MaxEvents      \* bound: events accepted in one behaviour

ASSUME HistoryAssumption == MaxEvents \in Nat

VARIABLES
    nextSeq,        \* State::next_seq
    tags,           \* sequence numbers of the buffered events, along buf
    delivered,      \* sequence numbers popped, in the order they were
    retracted,      \* sequence numbers take_queued gave back to the producer
    degraded        \* the queue has been in degraded mode

history == <<nextSeq, tags, delivered, retracted, degraded>>
hvars == <<queueVars, history>>

HInit ==
    /\ QueueInit
    /\ nextSeq = 0 /\ tags = <<>>
    /\ delivered = <<>> /\ retracted = {} /\ degraded = FALSE

MutNextSequenceRepeats ==
    /\ Len(buf') = Len(buf) + 1
    /\ tags' = Append(tags, nextSeq)
    /\ degraded' = (degraded \/ mode' = "lifo")
    /\ UNCHANGED <<nextSeq, delivered, retracted>>

\* next_sequence: an accepted event takes the next number.
NextSequence ==
    /\ Len(buf') = Len(buf) + 1
    /\ nextSeq' = nextSeq + 1
    /\ tags' = Append(tags, nextSeq)
    /\ degraded' = (degraded \/ mode' = "lifo")
    /\ UNCHANGED <<delivered, retracted>>

NotAccepted == buf' = buf /\ UNCHANGED history

\* A future that is polled, or a resolved Room that is used.
HPush(p) ==
    /\ Poll(p) \/ Offer(p)
    /\ NextSequence \/ NotAccepted

\* The bound counts the events futures hold, so that none waits on the bound.
Outstanding == Cardinality({p \in Producers : fut[p].op # "none"})

HTryPush(p) ==
    /\ nextSeq + Outstanding < MaxEvents
    /\ \E size \in Sizes : TryPush(p, size)
    /\ NextSequence

HTakeQueued(p) ==
    /\ TakeQueued(p)
    /\ retracted' = retracted \cup ToSet(tags)
    /\ tags' = <<>>
    /\ UNCHANGED <<nextSeq, delivered, degraded>>

MutPopFreshestFirst ==
    /\ Pop
    /\ delivered' = Append(delivered, Last(tags))
    /\ tags' = Front(tags)
    /\ UNCHANGED <<nextSeq, retracted, degraded>>

HPop ==
    /\ Pop
    /\ delivered' = Append(delivered, IF mode = "fifo" THEN Head(tags) ELSE Last(tags))
    /\ tags' = IF mode = "fifo" THEN Tail(tags) ELSE Front(tags)
    /\ UNCHANGED <<nextSeq, retracted, degraded>>

HStart(p) ==
    /\ nextSeq + Outstanding < MaxEvents
    /\ \E size \in Sizes, op \in {"push", "room"} : Start(p, op, size)
    /\ UNCHANGED history

HOther ==
    /\ \/ \E p, q \in Producers : CloneSender(p, q)
       \/ \E p \in Producers : Cancel(p) \/ DropSender(p)
       \/ PopEmpty \/ PollAgain \/ AwaitSendersGone \/ DropReceiver
    /\ UNCHANGED history

HNext ==
    \/ \E p \in Producers : HPush(p) \/ HTryPush(p) \/ HTakeQueued(p) \/ HStart(p)
    \/ HPop \/ HOther

\* The fairness of WorkQueue, for the actions with their history.
HFairness ==
    /\ \A p \in Producers :
          WF_hvars((p \in awake \/ fut[p].op = "offer") /\ HPush(p))
    /\ WF_hvars(HPop)
    /\ WF_hvars(PopEmpty /\ UNCHANGED history)
    /\ WF_hvars(gone = "run" /\ AwaitSendersGone /\ UNCHANGED history)

HSpec == HInit /\ [][HNext]_hvars
HFairSpec == HSpec /\ HFairness

-----------------------------------------------------------------------------

\* "Delivered or returned": every accepted event is in exactly one place, the
\* buffer, the consumer's hands or back with the producer, and in one place
\* once.
DeliveredOrReturned ==
    /\ ToSet(tags) \cup ToSet(delivered) \cup retracted = 0 .. nextSeq - 1
    /\ Len(tags) + Len(delivered) + Cardinality(retracted) = nextSeq

\* "Per-queue total order": a queue that was never degraded delivers in push
\* order, with no event overtaken, whatever was retracted or cancelled in
\* between.
FifoDelivery ==
    ~degraded =>
        /\ \A i, j \in DOMAIN delivered : i < j => delivered[i] < delivered[j]
        /\ \A s \in ToSet(tags), d \in ToSet(delivered) : d < s

\* With finitely many events offered, every parked producer leaves the line:
\* woken when its event fits, or to get it back from a closed queue.
LineDrains == \A p \in Producers : Parked(p) ~> ~Parked(p)
=============================================================================
