------------------------------- MODULE CoreLink -------------------------------
(***************************************************************************)
(* One session stream between an edge process and the core:                 *)
(* crates/e6irc-edge/src/core_link/remote.rs (RemoteCorePort, read_stream,   *)
(* tear_down) at the edge, crates/e6ircd/src/edge_link.rs (SessionStream,    *)
(* push_lines, Pump) at the core.  A set of Irc sessions shares the stream's *)
(* line credits.  Frames are in order and are lost only with the link.       *)
(*                                                                         *)
(* Output and Drained frames are the subject of LinkedOutput; Attach and Ui  *)
(* sessions, which have credits of their own, and the core's graceful stop   *)
(* are left out.                                                             *)
(***************************************************************************)
EXTENDS Integers, Sequences, FiniteSets, SequencesExt, FiniteSetsExt, Totals

CONSTANTS
    Sessions,
    Window,         \* EdgeTerms::line_credit
    StreamQueue,    \* bound: frames a stream holds in one direction
    MaxLines        \* bound: lines the clients send

ASSUME CoreLinkAssumption ==
    /\ IsFiniteSet(Sessions)
    /\ Window \in Nat \ {0} /\ StreamQueue \in Nat \ {0} /\ MaxLines \in Nat

VARIABLES
    \* The edge.
    conn,           \* each client's connection task, in serve_conn
    live,           \* LinkSessions::live: the sessions on the stream
    credit,         \* the stream's Semaphore
    linked,         \* FALSE once tear_down has run
    said,           \* each client's lines so far
    \* The wire.
    up, down,
    \* The core.
    reading,        \* FALSE once SessionStream::run is past its select
    held,           \* SessionStream::sessions
    inFlight,       \* lines_in_flight
    inputs,         \* push_lines' channel
    pusher,         \* where push_lines is: "recv" or "flush"
    returned,       \* push_lines' count of credits to return
    pump,           \* each session's Pump
    shard,          \* each session on its shard: what it has heard of it
    ended,          \* the sessions the shard has ended, by dropping their link
    fault,          \* the stream was called broken
    \* A history.
    lost            \* credits spent on lines that will never be returned

edgeVars == <<conn, live, credit, linked, said>>
coreVars == <<reading, held, inFlight, inputs, pusher, returned, pump, shard, ended, fault>>
vars == <<edgeVars, up, down, coreVars, lost>>

Batch == IF Window \div 4 = 0 THEN 1 ELSE Window \div 4

Msg(type, s, n) == [type |-> type, session |-> s, n |-> n]
Credit(n) == [type |-> "Credit", n |-> n]

Init ==
    /\ conn = [s \in Sessions |-> "none"] /\ live = {} /\ credit = Window
    /\ linked = TRUE /\ said = [s \in Sessions |-> 0]
    /\ up = <<>> /\ down = <<>>
    /\ reading = TRUE /\ held = {} /\ inFlight = 0 /\ inputs = <<>>
    /\ pusher = "recv" /\ returned = 0
    /\ pump = [s \in Sessions |-> "none"] /\ shard = [s \in Sessions |-> <<>>]
    /\ ended = {} /\ fault = FALSE /\ lost = 0

-----------------------------------------------------------------------------
\* The edge: a connection task's open, read_loop and close.

\* A send on the stream: it waits for room; on a link torn down it fails, and
\* what the core no longer reads is lost.
SendUp(frame) ==
    IF linked /\ reading THEN Len(up) < StreamQueue /\ up' = Append(up, frame)
                         ELSE UNCHANGED up

\* RemoteCorePort::open: the session is placed on the stream and Open is sent;
\* a link that ends between the two ends as one that loses the Open.
Open(s) ==
    /\ conn[s] = "none" /\ linked
    /\ live' = live \cup {s}
    /\ SendUp(Msg("Open", s, 0))
    /\ conn' = [conn EXCEPT ![s] = "reading"]
    /\ UNCHANGED <<credit, linked, said, down, coreVars, lost>>

Spoken == MapThenSumSet(LAMBDA s : said[s], Sessions)

\* RemoteCorePort::push, in its three steps.  A session no longer on the
\* link: the reader stops.
LookUp(s) ==
    /\ conn[s] = "reading" /\ Spoken < MaxLines
    /\ conn' = [conn EXCEPT ![s] = IF linked /\ s \in live THEN "waiting" ELSE "draining"]
    /\ UNCHANGED <<live, credit, linked, said, up, down, coreVars, lost>>

Acquire(s) ==
    /\ conn[s] = "waiting"
    /\ IF linked THEN /\ credit > 0
                      /\ credit' = credit - 1
                      /\ conn' = [conn EXCEPT ![s] = "spent"]
                 ELSE /\ conn' = [conn EXCEPT ![s] = "draining"]
                      /\ UNCHANGED credit
    /\ UNCHANGED <<live, linked, said, up, down, coreVars, lost>>

SendLine(s) ==
    /\ conn[s] = "spent"
    /\ SendUp(Msg("Line", s, said[s] + 1))
    /\ said' = [said EXCEPT ![s] = @ + 1]
    /\ conn' = [conn EXCEPT ![s] = IF linked THEN "reading" ELSE "draining"]
    /\ UNCHANGED <<live, credit, linked, down, coreVars, lost>>

\* The client closed its sending side: RemoteCorePort::closed, and the writer
\* goes on.
ClientCloses(s) ==
    /\ conn[s] = "reading"
    /\ SendUp(Msg("Closed", s, 0))
    /\ conn' = [conn EXCEPT ![s] = "draining"]
    /\ UNCHANGED <<live, credit, linked, said, down, coreVars, lost>>

\* Where serve_conn's select can stop the reader: a send that finds room does
\* not wait.
Stoppable(s) ==
    \/ conn[s] \in {"reading", "waiting", "draining"}
    \/ conn[s] = "spent" /\ linked /\ Len(up) = StreamQueue

\* The credit a stopped reader had spent on a line it never sent.
Forgone(s) == IF conn[s] = "spent" /\ linked THEN 1 ELSE 0

\* serve_conn's select: the core ended the session; reading stops where it is,
\* and the writer goes on.
SessionOver(s) ==
    /\ Stoppable(s) /\ conn[s] # "draining" /\ s \notin live
    /\ conn' = [conn EXCEPT ![s] = "draining"]
    /\ lost' = lost + Forgone(s)
    /\ UNCHANGED <<live, credit, linked, said, up, down, coreVars>>

\* ... the writer failed, and the same.
WriterFails(s) ==
    /\ Stoppable(s)
    /\ conn' = [conn EXCEPT ![s] = "failed"]
    /\ lost' = lost + Forgone(s)
    /\ UNCHANGED <<live, credit, linked, said, up, down, coreVars>>

\* The writer wrote all the session is owed, or took longer than closing_drain
\* and was aborted: the core, told of the close already, is not told again.
DrainEnds(s) ==
    /\ conn[s] = "draining"
    /\ conn' = [conn EXCEPT ![s] = "done"]
    /\ UNCHANGED <<live, credit, linked, said, up, down, coreVars, lost>>

MutTellFailureIfHeld(s) ==
    /\ conn[s] = "failed"
    /\ IF s \in live THEN SendUp(Msg("WriteFailed", s, 0)) ELSE UNCHANGED up
    /\ conn' = [conn EXCEPT ![s] = "done"]
    /\ UNCHANGED <<live, credit, linked, said, down, coreVars, lost>>

\* The core is told whether or not the edge still holds the session.
TellFailure(s) ==
    /\ conn[s] = "failed"
    /\ SendUp(Msg("WriteFailed", s, 0))
    /\ conn' = [conn EXCEPT ![s] = "done"]
    /\ UNCHANGED <<live, credit, linked, said, down, coreVars, lost>>

\* report_drained: the session's writer is gone, and with it the session.
Forget(s) ==
    /\ s \in live /\ conn[s] \in {"failed", "done"}
    /\ live' = live \ {s}
    /\ UNCHANGED <<conn, credit, linked, said, up, down, coreVars, lost>>

\* read_stream: Kill and End take the session off the stream, Credit adds to
\* the semaphore.
ReadDown ==
    /\ linked /\ down # <<>>
    /\ down' = Tail(down)
    /\ IF Head(down).type = "Credit"
       THEN credit' = credit + Head(down).n /\ UNCHANGED live
       ELSE live' = live \ {Head(down).session} /\ UNCHANGED credit
    /\ UNCHANGED <<conn, linked, said, up, coreVars, lost>>

\* Link::tear_down: the stream's tasks are aborted, its credits closed, its
\* sessions ended loudly.  Of what was on its way, the core reads a part.
TearDown ==
    /\ linked
    /\ linked' = FALSE /\ live' = {} /\ down' = <<>>
    /\ \E k \in 0 .. Len(up) : up' = SubSeq(up, 1, k)
    /\ UNCHANGED <<conn, credit, said, coreVars, lost>>

-----------------------------------------------------------------------------
\* The core: SessionStream::read.

Broken == fault' = TRUE /\ UNCHANGED <<held, inFlight, inputs, pump, down>>

\* open: refused (the per-address limit) with Kill, or open_irc and start.
OnOpen(s) ==
    \/ /\ s \in held
       /\ Broken
    \/ /\ s \notin held
       /\ Len(down) < StreamQueue
       /\ down' = IF linked THEN Append(down, Msg("Kill", s, 0)) ELSE down
       /\ UNCHANGED <<held, inFlight, inputs, pump, fault>>
    \/ /\ s \notin held
       /\ inputs' = Append(inputs, Msg("Open", s, 0))
       /\ held' = held \cup {s}
       /\ pump' = [pump EXCEPT ![s] = "running"]
       /\ UNCHANGED <<inFlight, down, fault>>

\* input: a line of a session already ended here is dropped.
OnLine(s, n) ==
    \/ /\ s \notin held
       /\ UNCHANGED <<held, inFlight, inputs, pump, down, fault>>
    \/ /\ s \in held /\ inFlight + 1 > Window
       /\ Broken
    \/ /\ s \in held /\ inFlight + 1 <= Window
       /\ inFlight' = inFlight + 1
       /\ inputs' = Append(inputs, Msg("Line", s, n))
       /\ UNCHANGED <<held, pump, down, fault>>

\* end_session's message to the pumps: they stop.  (What one still sends is for
\* a session the edge no longer has.)
EdgeGone(gone) ==
    pump' = [s \in Sessions |-> IF s \in gone /\ pump[s] = "running" THEN "done" ELSE pump[s]]

\* closed: with the writer gone the session is over here too; else only its
\* input is.
OnClosed(s, writerGone) ==
    \/ /\ s \notin held
       /\ UNCHANGED <<held, inFlight, inputs, pump, down, fault>>
    \/ /\ s \in held
       /\ inputs' = Append(inputs, Msg("Closed", s, 0))
       /\ IF writerGone THEN held' = held \ {s} /\ EdgeGone({s})
                        ELSE UNCHANGED <<held, pump>>
       /\ UNCHANGED <<inFlight, down, fault>>

\* The frame the core reads next.  A line it drops takes its credit with it.
ReadUp ==
    /\ reading /\ up # <<>>
    /\ LET frame == Head(up) IN
          /\ \/ frame.type = "Open" /\ OnOpen(frame.session)
             \/ frame.type = "Line" /\ OnLine(frame.session, frame.n)
             \/ frame.type = "Closed" /\ OnClosed(frame.session, FALSE)
             \/ frame.type = "WriteFailed" /\ OnClosed(frame.session, TRUE)
          /\ lost' = IF frame.type = "Line" /\ frame.session \notin held THEN lost + 1 ELSE lost
    /\ up' = Tail(up)
    /\ UNCHANGED <<edgeVars, reading, pusher, returned, shard, ended>>

MutStreamEndsAtTheShard ==
    /\ reading
    /\ reading' = FALSE /\ up' = <<>>
    /\ held' = {}
    /\ EdgeGone(held)
    /\ shard' = [s \in Sessions |-> IF s \in held THEN Append(shard[s], <<"Closed", 0>>) ELSE shard[s]]
    /\ UNCHANGED <<edgeVars, down, inFlight, inputs, pusher, returned, ended, fault, lost>>

\* SessionStream::run past its select: the connection failed or ended, the
\* registration is over, or the peer broke the protocol.  Every session it
\* carried ends, its Closed behind what is still on its way.
StreamEnds ==
    /\ reading
    /\ reading' = FALSE /\ up' = <<>>
    /\ held' = {}
    /\ EdgeGone(held)
    /\ \E order \in SetToSeqs(held) :
          inputs' = inputs \o [i \in DOMAIN order |-> Msg("Closed", order[i], 0)]
    /\ UNCHANGED <<edgeVars, down, inFlight, pusher, returned, shard, ended, fault, lost>>

-----------------------------------------------------------------------------
\* The core: push_lines, the shard and the pumps.

MutRecvReturnsEarly ==
    /\ pusher = "recv" /\ inputs # <<>>
    /\ inputs' = Tail(inputs)
    /\ shard' = [shard EXCEPT ![Head(inputs).session] = Append(@, <<Head(inputs).type, Head(inputs).n>>)]
    /\ IF Head(inputs).type = "Line"
       THEN /\ returned' = returned + 1
            /\ pusher' = IF returned + 1 >= Batch \/ Tail(inputs) = <<>> THEN "flush" ELSE "recv"
       ELSE UNCHANGED <<returned, pusher>>
    /\ UNCHANGED <<edgeVars, up, down, reading, held, inFlight, pump, ended, fault, lost>>

\* One input reaches the shard's queue; after a line, its credit is to return.
Recv ==
    /\ pusher = "recv" /\ inputs # <<>>
    /\ inputs' = Tail(inputs)
    /\ shard' = [shard EXCEPT ![Head(inputs).session] = Append(@, <<Head(inputs).type, Head(inputs).n>>)]
    /\ IF Head(inputs).type = "Line"
       THEN /\ inFlight' = inFlight - 1
            /\ returned' = returned + 1
            /\ pusher' = IF returned + 1 >= Batch \/ Tail(inputs) = <<>> THEN "flush" ELSE "recv"
       ELSE UNCHANGED <<inFlight, returned, pusher>>
    /\ UNCHANGED <<edgeVars, up, down, reading, held, pump, ended, fault, lost>>

Flush ==
    /\ pusher = "flush"
    /\ IF linked THEN /\ Len(down) < StreamQueue
                      /\ down' = Append(down, Credit(returned))
                 ELSE UNCHANGED down
    /\ returned' = 0 /\ pusher' = "recv"
    /\ UNCHANGED <<edgeVars, up, reading, held, inFlight, inputs, pump, shard, ended, fault, lost>>

Heard(s, type) == \E i \in DOMAIN shard[s] : shard[s][i][1] = type

\* The shard ends a session: it QUITs or is killed, or its Closed is handled.
ShardEnds(s) ==
    /\ Heard(s, "Open") /\ s \notin ended
    /\ ended' = ended \cup {s}
    /\ UNCHANGED <<edgeVars, up, down, reading, held, inFlight, inputs, pusher, returned, pump, shard, fault, lost>>

\* Pump::run finds the session's link ended (or its final line): the edge is
\* told ...
PumpEnds(s) ==
    /\ pump[s] = "running" /\ s \in ended
    /\ IF linked THEN Len(down) < StreamQueue /\ down' = Append(down, Msg("End", s, 0))
                 ELSE UNCHANGED down
    /\ pump' = [pump EXCEPT ![s] = "removing"]
    /\ UNCHANGED <<edgeVars, up, reading, held, inFlight, inputs, pusher, returned, shard, ended, fault, lost>>

\* ... then the stream forgets the session.
PumpRemoves(s) ==
    /\ pump[s] = "removing"
    /\ held' = held \ {s}
    /\ pump' = [pump EXCEPT ![s] = "done"]
    /\ UNCHANGED <<edgeVars, up, down, reading, inFlight, inputs, pusher, returned, shard, ended, fault, lost>>

-----------------------------------------------------------------------------

Connection(s) ==
    \/ LookUp(s) \/ SendLine(s) \/ SessionOver(s) \/ TellFailure(s)
    \/ DrainEnds(s) \/ Forget(s)

Pump(s) == PumpEnds(s) \/ PumpRemoves(s)

Next ==
    \/ \E s \in Sessions :
          \/ Open(s) \/ Acquire(s) \/ ClientCloses(s) \/ WriterFails(s)
          \/ Connection(s) \/ ShardEnds(s) \/ Pump(s)
    \/ ReadDown \/ TearDown
    \/ ReadUp \/ StreamEnds
    \/ Recv \/ Flush

Spec == Init /\ [][Next]_vars

-----------------------------------------------------------------------------

TypeOK ==
    /\ conn \in [Sessions -> {"none", "reading", "waiting", "spent",
                               "draining", "failed", "done"}]
    /\ live \subseteq Sessions /\ held \subseteq Sessions /\ ended \subseteq Sessions
    /\ credit \in 0 .. Window /\ inFlight \in 0 .. Window /\ returned \in 0 .. Batch
    /\ lost \in Nat /\ said \in [Sessions -> 0 .. MaxLines]
    /\ linked \in BOOLEAN /\ reading \in BOOLEAN /\ fault \in BOOLEAN
    /\ pusher \in {"recv", "flush"}
    /\ pump \in [Sessions -> {"none", "running", "removing", "done"}]

LinesIn(frames) ==
    TotalWeight([i \in DOMAIN frames |-> IF frames[i].type = "Line" THEN 1 ELSE 0])
CreditsIn(frames) ==
    TotalWeight([i \in DOMAIN frames |-> IF frames[i].type = "Credit" THEN frames[i].n ELSE 0])

\* Where the stream's credits are: the edge's semaphore, a reader about to
\* send, a line on the wire or on its way to the shard, a credit on its way
\* back, or lost.  They always add up to the window, so the core never takes
\* an edge that keeps to its credit for one that broke the protocol.
CreditAccount ==
    /\ ~fault
    /\ linked /\ reading =>
          credit + Cardinality({s \in Sessions : conn[s] = "spent"})
          + LinesIn(up) + inFlight + returned + CreditsIn(down) + lost = Window

\* A shard hears of a session first its Open, then its lines in the order the
\* client sent them and none missing between, then only that it is over.
ShardHearsInOrder ==
    \A s \in Sessions : \A i \in DOMAIN shard[s] :
        /\ shard[s][i][1] = "Open" <=> i = 1
        /\ shard[s][i][1] = "Line" => shard[s][i][2] = i - 1
        /\ i > 1 /\ shard[s][i - 1][1] = "Closed" => shard[s][i][1] = "Closed"

\* Nothing of the session is on its way from the edge to its shard.
Quiet(s) ==
    /\ \A i \in DOMAIN up : up[i].session # s
    /\ \A i \in DOMAIN inputs : inputs[i].session # s

\* Neither a stream that is over nor a connection that is over at the edge
\* leaves a session behind on a shard that has not been told of its end,
\* whichever end, link or writer went first.
NoZombie ==
    \A s \in Sessions :
        Quiet(s) /\ (~reading \/ (linked /\ conn[s] = "done")) /\ Heard(s, "Open")
            => Heard(s, "Closed") \/ s \in ended

\* "the core grants min(core_queue, 1024) at Welcome and returns each as it
\* moves a line into the shard's queue": with no line on its way to the core
\* and no credit on its way back, no session of the core waits for one.
NobodyWaitsInVain ==
    (/\ linked /\ reading /\ up = <<>> /\ down = <<>> /\ inputs = <<>> /\ pusher = "recv"
     /\ \A s \in Sessions : conn[s] # "spent")
        => \A s \in held : conn[s] = "waiting" => credit > 0
=============================================================================
