----------------------------- MODULE Membership -----------------------------
(***************************************************************************)
(* Who is in which channel when the core runs on several shards: the        *)
(* session's shard keeps the session (its nick, its channels, its JOINs in  *)
(* flight), the channel's shard keeps the members, and two process-wide     *)
(* directories are read by everyone.  crates/e6ircd/src/core/handler/       *)
(* channel.rs (JOIN, PART), chanops.rs (KICK), registration.rs (NICK) and    *)
(* the parts of core/state.rs they call: user events, deferred replies,      *)
(* teardown.                                                                *)
(*                                                                         *)
(* Shards send each other events in order (DeliveredInOrder of CoreWorkers); *)
(* nothing orders events of different senders.  A handler's effects on its   *)
(* own shard are part of its step, as in Core::handle.                      *)
(*                                                                         *)
(* What each client makes of the lines it is sent is the member list of     *)
(* bouncer/channel_views.rs.  Bans, keys, +i and +l are one question the     *)
(* owner answers either way; a list of targets is one command per target;    *)
(* labels, message texts and the other member attributes are left out.      *)
(***************************************************************************)
EXTENDS Integers, Sequences, FiniteSets, SequencesExt

CONSTANTS
    Conns, Chans, Nicks,
    Shards,             \* 1 .. n
    Home,               \* the shard of a session
    Owner,              \* the shard of a channel
    FirstNick,          \* the nick each session registered with
    MaxChannels,        \* MAX_CHANNELS_PER_SESSION
    Verbs,              \* which commands each client sends
    MaxCommands         \* bound: commands each client sends

ASSUME MembershipAssumption ==
    /\ Shards \subseteq Nat /\ MaxChannels \in Nat
    /\ Home \in [Conns -> Shards] /\ Owner \in [Chans -> Shards]
    /\ FirstNick \in [Conns -> Nicks]
    /\ \A c, d \in Conns : FirstNick[c] = FirstNick[d] => c = d
    /\ MaxCommands \in [Conns -> Nat]

VARIABLES
    session,        \* SessionStore: what its shard keeps of each session
    members,        \* ChannelDirectory: members[ch][c], a member's nick and rank
    memberships,    \* MembershipDirectory::by_conn
    nicks,          \* NickDirectory::by_key, the owner of a nick
    events,         \* ServerState::user_events_in_progress of each shard
    sequence,       \* ServerState::user_event_sequence
    mail,           \* mail[s][t]: what shard s has sent t
    view,           \* the member list each client keeps
    commands,       \* commands sent so far
    asked,          \* history: the last thing a client asked about a channel
    tellings,       \* history: how often a user event was sent to a session
    crossed         \* history: a KICK, a NICK while an event was on its way, a QUIT
                    \* while a JOIN of that session was, or a JOIN of a channel
                    \* whose owner was yet to hear of a QUIT or a NICK

membershipVars == <<session, members, memberships, nicks, events, sequence, mail,
                    view, commands, asked, tellings, crossed>>

Quiet == \A s, t \in Shards : mail[s][t] = <<>>

Nobody == "nobody"
None == [ch \in {} |-> 0]

\* One state of the whole core, for handlers that are several changes in a row.
Now == [session |-> session, members |-> members, memberships |-> memberships,
        events |-> events, sequence |-> sequence, mail |-> mail, view |-> view,
        tellings |-> tellings]

Become(w) ==
    /\ session' = w.session /\ members' = w.members
    /\ memberships' = w.memberships /\ events' = w.events
    /\ sequence' = w.sequence /\ mail' = w.mail /\ view' = w.view /\ tellings' = w.tellings

FreshSession(c) ==
    [on |-> TRUE, nick |-> FirstNick[c], channels |-> {}, pending |-> None,
     partOnJoin |-> None, deferred |-> 0, held |-> <<>>]

MembershipInit ==
    /\ session = [c \in Conns |-> FreshSession(c)]
    /\ members = [ch \in Chans |-> None]
    /\ memberships = [c \in Conns |-> {}]
    /\ nicks = [n \in Nicks |-> IF \E c \in Conns : FirstNick[c] = n
                                THEN CHOOSE c \in Conns : FirstNick[c] = n ELSE Nobody]
    /\ events = [s \in Shards |-> None]
    /\ sequence = [s \in Shards |-> 0]
    /\ mail = [s \in Shards |-> [t \in Shards |-> <<>>]]
    /\ view = [c \in Conns |-> [own |-> FirstNick[c], chans |-> None]]
    /\ commands = [c \in Conns |-> 0]
    /\ asked = [c \in Conns |-> [ch \in Chans |-> "out"]]
    /\ tellings = None
    /\ crossed = FALSE

-----------------------------------------------------------------------------
\* What a client makes of a line (ChannelViews::observe, and the membership its
\* caller follows): a JOIN of its own comes with the names of the channel.

JoinLine(n, ch) == [verb |-> "join", nick |-> n, chan |-> ch]
NamesLine(ch, ns) == [verb |-> "names", chan |-> ch, nicks |-> ns]
LeftLine(n, ch) == [verb |-> "left", nick |-> n, chan |-> ch]   \* PART and KICK
QuitLine(n) == [verb |-> "quit", nick |-> n]
NickLine(n, m) == [verb |-> "nick", nick |-> n, to |-> m]

With(f, x, v) == [y \in DOMAIN f \cup {x} |-> IF y = x THEN v ELSE f[y]]
Without(f, x) == [y \in DOMAIN f \ {x} |-> f[y]]
Renamed(ns, n, m) == IF n \in ns THEN (ns \ {n}) \cup {m} ELSE ns

observe(v, line) ==
    CASE line.verb = "names" -> [v EXCEPT !.chans = With(@, line.chan, line.nicks)]
      [] line.verb = "join" /\ line.chan \in DOMAIN v.chans ->
            [v EXCEPT !.chans[line.chan] = @ \cup {line.nick}]
      [] line.verb = "left" /\ line.chan \in DOMAIN v.chans ->
            IF line.nick = v.own THEN [v EXCEPT !.chans = Without(@, line.chan)]
            ELSE [v EXCEPT !.chans[line.chan] = @ \ {line.nick}]
      [] line.verb = "quit" ->
            [v EXCEPT !.chans = [ch \in DOMAIN @ |-> @[ch] \ {line.nick}]]
      [] line.verb = "nick" ->
            [own |-> IF line.nick = v.own THEN line.to ELSE v.own,
             chans |-> [ch \in DOMAIN v.chans |-> Renamed(v.chans[ch], line.nick, line.to)]]
      [] OTHER -> v

observeAll(v, lines) == FoldLeft(observe, v, lines)

-----------------------------------------------------------------------------
\* Output, on the session's own shard

\* send_bytes_uncaptured, to each of cs: held behind an answer the session waits
\* for, or written; nothing for a session that is gone.
Waits(w, c) == w.session[c].deferred > 0

SendAll(w, cs, line) ==
    LET to == {c \in cs : w.session[c].on}
    IN  [w EXCEPT
           !.session = [c \in Conns |-> IF c \in to /\ Waits(w, c)
                                        THEN [w.session[c] EXCEPT !.held = Append(@, line)]
                                        ELSE w.session[c]],
           !.view = [c \in Conns |-> IF c \in to /\ ~Waits(w, c)
                                     THEN observe(w.view[c], line) ELSE w.view[c]]]
Send(w, c, line) == SendAll(w, {c}, line)

\* defer_captured_reply
Defer(w, c) == [w EXCEPT !.session[c].deferred = @ + 1]

\* mutant: what was held stays held
MutEmitDeferred(w, c, lines) ==
    IF ~w.session[c].on THEN w
    ELSE [w EXCEPT !.view[c] = observeAll(@, lines), !.session[c].deferred = @ - 1]

\* emit_deferred: the answer goes past the hold; the last one frees it.
EmitDeferred(w, c, lines) ==
    LET left == w.session[c].deferred - 1
        free == left = 0
        out == lines \o IF free THEN w.session[c].held ELSE <<>>
    IN  IF ~w.session[c].on THEN w
        ELSE [w EXCEPT !.view[c] = observeAll(@, out),
                       !.session[c].deferred = left,
                       !.session[c].held = IF free THEN <<>> ELSE @]

\* Effects of shard s for other shards: msgs[t] for t.
RouteEach(w, s, msgs) ==
    [w EXCEPT !.mail[s] = [t \in Shards |-> IF t \in DOMAIN msgs
                                            THEN Append(w.mail[s][t], msgs[t])
                                            ELSE w.mail[s][t]]]
Route(w, s, t, msg) == RouteEach(w, s, [x \in {t} |-> msg])

\* broadcast_recipients of shard s: its own sessions now, a Delivery for others.
There(cs, t) == {c \in cs : Home[c] = t}
Deliver(w, s, cs, line) ==
    RouteEach(SendAll(w, There(cs, s), line), s,
              [t \in {x \in Shards \ {s} : There(cs, x) # {}} |->
                  [kind |-> "Delivery", conns |-> There(cs, t), line |-> line]])

-----------------------------------------------------------------------------
\* User events: everyone who can see a user is told once

Members(w, ch) == DOMAIN w.members[ch]

Tell(w, cs, event) ==
    LET before(e) == IF e \in DOMAIN w.tellings THEN w.tellings[e] ELSE 0
        now == {<<event.id, c>> : c \in cs}
        counts == [e \in DOMAIN w.tellings \cup now |-> IF e \in now THEN before(e) + 1 ELSE w.tellings[e]]
    IN  SendAll([w EXCEPT !.tellings = counts], cs, event.line)

\* mutant: who was told before is told again
MutDeliverPartAgain(w, s, event, recipients) ==
    LET known == IF event.id \in DOMAIN w.events[s] THEN w.events[s][event.id]
                 ELSE [heard |-> 0, told |-> {}]
        heard == known.heard + 1
        kept == IF heard = event.parts THEN Without(w.events[s], event.id)
                ELSE With(w.events[s], event.id,
                          [heard |-> heard, told |-> known.told \cup recipients])
    IN  IF event.parts = 1 THEN Tell(w, recipients, event)
        ELSE Tell([w EXCEPT !.events[s] = kept], recipients, event)

\* mutant: an event that was heard of before is dropped
MutDeliverPartOnce(w, s, event, recipients) ==
    LET known == IF event.id \in DOMAIN w.events[s] THEN w.events[s][event.id]
                 ELSE [heard |-> 0, told |-> {}]
        heard == known.heard + 1
        kept == IF heard = event.parts THEN Without(w.events[s], event.id)
                ELSE With(w.events[s], event.id,
                          [heard |-> heard, told |-> known.told \cup recipients])
    IN  IF event.parts = 1 THEN Tell(w, recipients, event)
        ELSE Tell([w EXCEPT !.events[s] = kept], IF known.heard > 0 THEN {} ELSE recipients, event)

\* deliver_user_event_part: with several reporters, who has been told is kept
\* until all of them have been heard.
DeliverPart(w, s, event, recipients) ==
    LET known == IF event.id \in DOMAIN w.events[s] THEN w.events[s][event.id]
                 ELSE [heard |-> 0, told |-> {}]
        heard == known.heard + 1
        kept == IF heard = event.parts THEN Without(w.events[s], event.id)
                ELSE With(w.events[s], event.id,
                          [heard |-> heard, told |-> known.told \cup recipients])
    IN  IF event.parts = 1 THEN Tell(w, recipients, event)
        ELSE Tell([w EXCEPT !.events[s] = kept], recipients \ known.told, event)

PartMsg(event, cs) == [kind |-> "UserEventPart", event |-> event, recipients |-> cs]

\* mutant: a shard with nobody to tell is not told of the part
MutSendParts(w, s, event, peers) ==
    LET hear == {t \in Shards : There(peers, t) # {}}
    IN  RouteEach(IF s \in hear THEN DeliverPart(w, s, event, There(peers, s)) ELSE w, s,
                  [t \in hear \ {s} |-> PartMsg(event, There(peers, t))])

\* send_user_event_parts: every shard hears from every reporter.
SendParts(w, s, event, peers) ==
    LET hear == {t \in Shards : event.parts # 1 \/ There(peers, t) # {}}
    IN  RouteEach(IF s \in hear THEN DeliverPart(w, s, event, There(peers, s)) ELSE w, s,
                  [t \in hear \ {s} |-> PartMsg(event, There(peers, t))])

\* remove_member, and remove_channel of one that is empty: no entry at all.
RemoveMember(w, ch, c) == [w EXCEPT !.members[ch] = Without(@, c)]

\* quit_channel_member
QuitMember(w, s, chs, event) ==
    LET in == {ch \in chs : event.subject \in Members(w, ch)}
        peers == UNION {Members(w, ch) : ch \in in} \ {event.subject}
        out == [w EXCEPT !.members = [ch \in Chans |-> IF ch \in in
                                      THEN Without(w.members[ch], event.subject)
                                      ELSE w.members[ch]]]
    IN  SendParts(out, s, event, peers)

\* apply_channel_member_update with report_user_event
UpdateMember(w, s, chs, nick, event) ==
    LET in == {ch \in chs : event.subject \in Members(w, ch)}
        peers == UNION {Members(w, ch) : ch \in in} \ {event.subject}
        named == [w EXCEPT !.members = [ch \in Chans |-> IF ch \in in
                                        THEN [w.members[ch] EXCEPT ![event.subject].nick = nick]
                                        ELSE w.members[ch]]]
    IN  SendParts(named, s, event, peers)

\* mutant: only the channels it is known to be in
MutInvolved(w, c) == w.session[c].channels

\* session_channels_by_shard: the channels it is in and those it is joining.
Involved(w, c) == w.session[c].channels \cup DOMAIN w.session[c].pending
Owners(w, c) == {Owner[ch] : ch \in Involved(w, c)}
OwnedBy(w, c, t) == {ch \in Involved(w, c) : Owner[ch] = t}

\* Owners are told in the order of their numbers: those before shard s, and after.
Below(msgs, s) == [t \in {x \in DOMAIN msgs : x < s} |-> msgs[t]]
Above(msgs, s) == [t \in {x \in DOMAIN msgs : x > s} |-> msgs[t]]

\* user_event
NewEvent(w, c, line) ==
    [id |-> <<Home[c], w.sequence[Home[c]] + 1>>, subject |-> c, line |-> line,
     parts |-> Cardinality(Owners(w, c))]
Counted(w, c) == [w EXCEPT !.sequence[Home[c]] = @ + 1]

-----------------------------------------------------------------------------
\* JOIN

\* join_on_owner: the first member of a channel creates it and is its operator;
\* a channel that exists may refuse.
Refusable(w, ch) == Members(w, ch) # {}

JoinOnOwner(w, c, nick, ch, admit) ==
    LET s == Owner[ch]
        others == Members(w, ch)
        member == [nick |-> nick, op |-> others = {}]
        joined == [Deliver(w, s, others, JoinLine(nick, ch))
                     EXCEPT !.members[ch] = With(@, c, member)]
    IN  IF c \in others THEN [w |-> w, result |-> "already", names |-> {}]
        ELSE IF ~admit THEN [w |-> w, result |-> "rejected", names |-> {}]
        ELSE [w |-> joined, result |-> "joined",
              names |-> {joined.members[ch][d].nick : d \in Members(joined, ch)}]

\* What emit_join_response writes for the session, and what it records.
JoinLines(result, ch, names) == IF result = "joined" THEN <<NamesLine(ch, names)>> ELSE <<>>
RecordJoin(w, c, ch, result) ==
    IF result # "joined" THEN w
    ELSE [w EXCEPT !.session[c].channels = @ \cup {ch}, !.memberships[c] = @ \cup {ch}]

TakeOne(counts, ch) ==
    IF ch \notin DOMAIN counts THEN counts
    ELSE IF counts[ch] = 1 THEN Without(counts, ch)
    ELSE [counts EXCEPT ![ch] = @ - 1]

\* Session::join_sent
JoinSent(counts, ch) ==
    With(counts, ch, IF ch \in DOMAIN counts THEN counts[ch] + 1 ELSE 1)

\* A QUIT or a NICK is on its way to the owner of ch.
Unheard(ch) ==
    \E s \in Shards : \E i \in DOMAIN mail[s][Owner[ch]] :
        /\ mail[s][Owner[ch]][i].kind \in {"ChannelQuit", "ChannelMemberUpdate"}
        /\ ch \in mail[s][Owner[ch]][i].chans

\* mutant: a JOIN in flight takes no room
MutRoomForChannel(c, ch) ==
    \/ ch \in session[c].channels
    \/ Cardinality(session[c].channels) < MaxChannels

\* The channel limit counts a JOIN sent to another shard until it is answered.
RoomForChannel(c, ch) ==
    \/ ch \in Involved(Now, c)
    \/ Cardinality(Involved(Now, c)) < MaxChannels

\* part_on_owner and what emit_part_response records for the session.
PartOnOwner(w, c, nick, ch) ==
    LET s == Owner[ch]
        rest == Members(w, ch) \ {c}
    IN  IF c \notin Members(w, ch) THEN [w |-> w, result |-> "not_on_channel"]
        ELSE [w |-> RemoveMember(Deliver(w, s, rest, LeftLine(nick, ch)), ch, c),
              result |-> "parted"]
PartLines(result, nick, ch) == IF result = "parted" THEN <<LeftLine(nick, ch)>> ELSE <<>>
RecordPart(w, c, ch, result) ==
    IF result # "parted" THEN w
    ELSE [w EXCEPT !.session[c].channels = @ \ {ch}, !.memberships[c] = @ \ {ch}]

\* cmd_part of one channel, from the session's shard.
PartCommand(w, c, ch) ==
    LET nick == w.session[c].nick
        local == PartOnOwner(w, c, nick, ch)
    IN  IF Owner[ch] # Home[c]
        THEN Route(Defer(w, c), Home[c], Owner[ch],
                   [kind |-> "ChannelPart", conn |-> c, nick |-> nick, chan |-> ch])
        ELSE LET said == IF local.result = "parted" THEN Send(local.w, c, LeftLine(nick, ch))
                         ELSE local.w
             IN  RecordPart(said, c, ch, local.result)

-----------------------------------------------------------------------------
\* The commands of a client, handled on its session's shard

Command(c, verb) ==
    /\ session[c].on /\ verb \in Verbs[c]
    /\ commands[c] < MaxCommands[c]
    /\ commands' = [commands EXCEPT ![c] = @ + 1]

Asks(c, ch, what) == asked' = [asked EXCEPT ![c][ch] = what]

\* cmd_join
Join(c, ch) ==
    /\ Command(c, "JOIN")
    /\ RoomForChannel(c, ch)
    /\ Asks(c, ch, "in")
    /\ \E admit \in BOOLEAN :
         /\ ~admit => Owner[ch] = Home[c] /\ Refusable(Now, ch)
         /\ LET nick == session[c].nick
                local == JoinOnOwner(Now, c, nick, ch, admit)
                said == IF local.result = "joined"
                        THEN Send(local.w, c, NamesLine(ch, local.names)) ELSE local.w
                sent == [Now EXCEPT !.session[c].pending = JoinSent(@, ch)]
            IN  Become(IF Owner[ch] = Home[c]
                       THEN RecordJoin(said, c, ch, local.result)
                       ELSE Route(Defer(sent, c), Home[c], Owner[ch],
                                  [kind |-> "ChannelJoin", conn |-> c, nick |-> nick,
                                   chan |-> ch]))
    /\ UNCHANGED nicks
    /\ crossed' = (crossed \/ (Owner[ch] = Home[c] /\ Unheard(ch)))

\* cmd_part of several channels, in the given order.
PartEach(w, c, order) ==
    LET after[n \in 0 .. Len(order)] ==
            IF n = 0 THEN w ELSE PartCommand(after[n - 1], c, order[n])
    IN  after[Len(order)]

\* A HashSet is iterated in any order.
Orders(S) == {q \in [1 .. Cardinality(S) -> S] : \A i, j \in DOMAIN q : q[i] = q[j] => i = j}

\* mutant: forgets the JOINs in flight
MutJoinZero(c) ==
    /\ Command(c, "JOIN_0")
    /\ asked' = [asked EXCEPT ![c] = [ch \in Chans |-> "out"]]
    /\ \E order \in Orders(session[c].channels) : Become(PartEach(Now, c, order))
    /\ UNCHANGED <<nicks, crossed>>

\* JOIN 0: parts every channel, and every JOIN in flight once it is answered.
JoinZero(c) ==
    /\ Command(c, "JOIN_0")
    /\ asked' = [asked EXCEPT ![c] = [ch \in Chans |-> "out"]]
    /\ LET marked == [Now EXCEPT !.session[c].partOnJoin = session[c].pending]
       IN  \E order \in Orders(session[c].channels) : Become(PartEach(marked, c, order))
    /\ UNCHANGED <<nicks, crossed>>

\* cmd_part
Part(c, ch) ==
    /\ Command(c, "PART")
    /\ Asks(c, ch, "out")
    /\ Become(PartCommand(Now, c, ch))
    /\ UNCHANGED <<nicks, crossed>>

\* kick_on_owner: the kicker must be an operator of the channel.
KickOnOwner(w, c, nick, ch) ==
    LET s == Owner[ch]
        victims == {d \in Members(w, ch) : w.members[ch][d].nick = nick}
        op == c \in Members(w, ch) /\ w.members[ch][c].op
    IN  IF ~op \/ victims = {} THEN [w |-> w, result |-> "refused"]
        ELSE LET d == CHOOSE x \in victims : TRUE
                 heard == Deliver(w, s, Members(w, ch) \ {c}, LeftLine(nick, ch))
                 out == RemoveMember(heard, ch, d)
             IN  [w |-> IF Home[d] = s THEN RecordPart(out, d, ch, "parted")
                        ELSE Route(out, s, Home[d], [kind |-> "SessionChannelRemoved",
                                                     conn |-> d, chan |-> ch]),
                  result |-> "kicked"]

\* cmd_kick
Kick(c, ch, nick) ==
    /\ Command(c, "KICK")
    /\ nicks[nick] # Nobody
    /\ LET local == KickOnOwner(Now, c, nick, ch)
       IN  Become(IF Owner[ch] = Home[c]
                  THEN IF local.result = "kicked" THEN Send(local.w, c, LeftLine(nick, ch))
                       ELSE local.w
                  ELSE Route(Defer(Now, c), Home[c], Owner[ch],
                             [kind |-> "ChannelKick", conn |-> c, chan |-> ch, nick |-> nick]))
    /\ UNCHANGED <<nicks, asked>>
    /\ crossed' = TRUE

\* cmd_nick and change_claimed_nick: claimed at once for everyone, the channels
\* told shard by shard (sync_channel_member).
Nick(c, n) ==
    /\ Command(c, "NICK")
    /\ nicks[n] = Nobody
    /\ nicks' = [nicks EXCEPT ![n] = c, ![session[c].nick] = Nobody]
    /\ LET line == NickLine(session[c].nick, n)
           named == Send([Now EXCEPT !.session[c].nick = n], c, line)
           event == NewEvent(named, c, line)
           msgs == [t \in Owners(named, c) |->
                       [kind |-> "ChannelMemberUpdate", chans |-> OwnedBy(named, c, t),
                        nick |-> n, event |-> event]]
           first == RouteEach(Counted(named, c), Home[c], Below(msgs, Home[c]))
           here == IF Home[c] \notin Owners(named, c) THEN first
                   ELSE UpdateMember(first, Home[c], OwnedBy(named, c, Home[c]), n, event)
       IN  Become(RouteEach(here, Home[c], Above(msgs, Home[c])))
    /\ UNCHANGED asked
    /\ crossed' = (crossed \/ ~Quiet)

\* close: for QUIT, a lost connection, a kill or a full send queue.
Close(c) ==
    /\ Command(c, "QUIT")
    /\ asked' = [asked EXCEPT ![c] = [ch \in Chans |-> "out"]]
    /\ nicks' = [nicks EXCEPT ![session[c].nick] = Nobody]
    /\ crossed' = (crossed \/ session[c].pending # None)
    /\ LET event == NewEvent(Now, c, QuitLine(session[c].nick))
           msgs == [t \in Owners(Now, c) |->
                       [kind |-> "ChannelQuit", chans |-> OwnedBy(Now, c, t), event |-> event]]
           first == RouteEach(Counted(Now, c), Home[c], Below(msgs, Home[c]))
           here == IF Home[c] \notin Owners(Now, c) THEN first
                   ELSE QuitMember(first, Home[c], OwnedBy(Now, c, Home[c]), event)
           left == RouteEach(here, Home[c], Above(msgs, Home[c]))
       IN  Become([left EXCEPT
                     !.session[c] = [FreshSession(c) EXCEPT !.on = FALSE],
                     !.memberships[c] = {},
                     !.view[c] = [own |-> FirstNick[c], chans |-> None]])

-----------------------------------------------------------------------------
\* Events from another shard: handle_one

Next1(s, t, kind) == mail[s][t] # <<>> /\ Head(mail[s][t]).kind = kind
Msg(s, t) == Head(mail[s][t])
Taken(s, t) == [Now EXCEPT !.mail[s][t] = Tail(@)]
Still == UNCHANGED <<nicks, commands, asked, crossed>>

ChannelJoin(s, t) ==
    /\ Next1(s, t, "ChannelJoin")
    /\ \E admit \in BOOLEAN :
         LET m == Msg(s, t)
             done == JoinOnOwner(Taken(s, t), m.conn, m.nick, m.chan, admit)
         IN  /\ ~admit => Refusable(Now, m.chan) /\ m.conn \notin Members(Now, m.chan)
             /\ Become(Route(done.w, t, s,
                             [kind |-> "ChannelJoinResult", conn |-> m.conn, chan |-> m.chan,
                              result |-> done.result, names |-> done.names]))
    /\ UNCHANGED <<nicks, commands, asked>>
    /\ crossed' = (crossed \/ Unheard(Msg(s, t).chan))

\* emit_join_result: a session that is gone leaves no member behind; a JOIN 0
\* sent since parts what was admitted.
JoinAnswered(w, m) ==
    LET c == m.conn
        partNow == m.chan \in DOMAIN w.session[c].partOnJoin
        answered == [w EXCEPT !.session[c].pending = TakeOne(@, m.chan),
                              !.session[c].partOnJoin = TakeOne(@, m.chan)]
        said == EmitDeferred(RecordJoin(answered, c, m.chan, m.result), c,
                             JoinLines(m.result, m.chan, m.names))
    IN  IF partNow /\ m.result = "joined" THEN PartCommand(said, c, m.chan) ELSE said

ChannelJoinResult(s, t) ==
    /\ Next1(s, t, "ChannelJoinResult")
    /\ LET m == Msg(s, t)
           w == Taken(s, t)
       IN  Become(IF session[m.conn].on THEN JoinAnswered(w, m)
                  ELSE IF m.result # "joined" THEN w
                  ELSE Route(w, t, s, [kind |-> "ChannelMemberVanished",
                                       conn |-> m.conn, chan |-> m.chan]))
    /\ Still

\* remove_vanished_member
ChannelMemberVanished(s, t) ==
    /\ Next1(s, t, "ChannelMemberVanished")
    /\ LET m == Msg(s, t)
           w == Taken(s, t)
           out == RemoveMember(w, m.chan, m.conn)
       IN  Become(IF m.conn \notin Members(w, m.chan) THEN w
                  ELSE Deliver([out EXCEPT !.memberships[m.conn] = @ \ {m.chan}], t,
                               Members(out, m.chan),
                               LeftLine(w.members[m.chan][m.conn].nick, m.chan)))
    /\ Still

ChannelPart(s, t) ==
    /\ Next1(s, t, "ChannelPart")
    /\ LET m == Msg(s, t)
           done == PartOnOwner(Taken(s, t), m.conn, m.nick, m.chan)
       IN  Become(Route(done.w, t, s, [kind |-> "ChannelPartResult", conn |-> m.conn,
                                       nick |-> m.nick, chan |-> m.chan,
                                       result |-> done.result]))
    /\ Still

\* emit_part_result; membership_part is for a session that is gone too.
ChannelPartResult(s, t) ==
    /\ Next1(s, t, "ChannelPartResult")
    /\ LET m == Msg(s, t)
       IN  Become(RecordPart(EmitDeferred(Taken(s, t), m.conn,
                                          PartLines(m.result, m.nick, m.chan)),
                             m.conn, m.chan, m.result))
    /\ Still

ChannelKick(s, t) ==
    /\ Next1(s, t, "ChannelKick")
    /\ LET m == Msg(s, t)
           done == KickOnOwner(Taken(s, t), m.conn, m.nick, m.chan)
       IN  Become(Route(done.w, t, s, [kind |-> "ChannelKickResult", conn |-> m.conn,
                                       nick |-> m.nick, chan |-> m.chan,
                                       result |-> done.result]))
    /\ Still

ChannelKickResult(s, t) ==
    /\ Next1(s, t, "ChannelKickResult")
    /\ LET m == Msg(s, t)
       IN  Become(EmitDeferred(Taken(s, t), m.conn,
                               IF m.result = "kicked" THEN <<LeftLine(m.nick, m.chan)>>
                               ELSE <<>>))
    /\ Still

\* remove_session_channel
SessionChannelRemoved(s, t) ==
    /\ Next1(s, t, "SessionChannelRemoved")
    /\ Become(RecordPart(Taken(s, t), Msg(s, t).conn, Msg(s, t).chan, "parted"))
    /\ Still

ChannelQuit(s, t) ==
    /\ Next1(s, t, "ChannelQuit")
    /\ Become(QuitMember(Taken(s, t), t, Msg(s, t).chans, Msg(s, t).event))
    /\ Still

ChannelMemberUpdate(s, t) ==
    /\ Next1(s, t, "ChannelMemberUpdate")
    /\ Become(UpdateMember(Taken(s, t), t, Msg(s, t).chans, Msg(s, t).nick, Msg(s, t).event))
    /\ Still

UserEventPart(s, t) ==
    /\ Next1(s, t, "UserEventPart")
    /\ Become(DeliverPart(Taken(s, t), t, Msg(s, t).event, Msg(s, t).recipients))
    /\ Still

Delivery(s, t) ==
    /\ Next1(s, t, "Delivery")
    /\ Become(SendAll(Taken(s, t), Msg(s, t).conns, Msg(s, t).line))
    /\ Still

HandleOne(s, t) ==
    \/ ChannelJoin(s, t) \/ ChannelJoinResult(s, t) \/ ChannelMemberVanished(s, t)
    \/ ChannelPart(s, t) \/ ChannelPartResult(s, t)
    \/ ChannelKick(s, t) \/ ChannelKickResult(s, t) \/ SessionChannelRemoved(s, t)
    \/ ChannelQuit(s, t) \/ ChannelMemberUpdate(s, t) \/ UserEventPart(s, t)
    \/ Delivery(s, t)

ClientCommand ==
    \E c \in Conns :
        \/ \E ch \in Chans : Join(c, ch) \/ Part(c, ch)
        \/ \E ch \in Chans, n \in Nicks : Kick(c, ch, n)
        \/ \E n \in Nicks : Nick(c, n)
        \/ JoinZero(c)
        \/ Close(c)

MembershipNext == ClientCommand \/ \E s, t \in Shards : HandleOne(s, t)

MembershipSpec == MembershipInit /\ [][MembershipNext]_membershipVars

-----------------------------------------------------------------------------
\* The session's channels, the channel's members (under the nick the session has
\* now) and the membership directory agree as soon as no event is on its way.
RecordsAgree ==
    Quiet => \A c \in Conns, ch \in Chans :
        /\ (c \in DOMAIN members[ch]) <=> (session[c].on /\ ch \in session[c].channels)
        /\ (c \in DOMAIN members[ch]) <=> (ch \in memberships[c])
        /\ c \in DOMAIN members[ch] => members[ch][c].nick = session[c].nick

\* A session never holds more channels than the limit, however many of its JOINs
\* were in flight at once, each of them under it when it was sent.
LimitHolds == \A c \in Conns : Cardinality(session[c].channels) <= MaxChannels

\* Every answer a session waits for arrives: nothing is held when all is quiet.
HoldsEnd ==
    Quiet => \A c \in Conns : session[c].deferred = 0 /\ session[c].pending = None
                              /\ session[c].held = <<>>

\* A shard forgets a user event once every reporter has been heard.
EventsForgotten == Quiet => \A s \in Shards : events[s] = None

\* Who last asked to leave a channel is not in it once all is quiet.
LeftStaysLeft ==
    Quiet => \A c \in Conns, ch \in Chans :
        asked[c][ch] = "out" => c \notin DOMAIN members[ch]

NicksOf(ch) == {members[ch][d].nick : d \in DOMAIN members[ch]}

\* Everyone who can see a user is told once of a QUIT or NICK, however many
\* shards report it (the comment of UserEvent).
ToldOnce == \A e \in DOMAIN tellings : tellings[e] = 1

\* Each client's list of a channel's members is the channel's once all is quiet
\* (a missed QUIT is a ghost in a client's nick list).
ViewsAreExact ==
    Quiet => \A c \in Conns : session[c].on =>
        /\ DOMAIN view[c].chans = session[c].channels
        /\ \A ch \in session[c].channels : view[c].chans[ch] = NicksOf(ch)

\* They are exact in every history without a KICK, without a NICK while an event
\* was on its way, without a QUIT while a JOIN of that session was and without a
\* JOIN of a channel whose owner was yet to hear of a QUIT or a NICK: lines of
\* different shards, held or sent at once, still add up to the channel's members.
UncrossedViewsAreExact == crossed \/ ViewsAreExact
=============================================================================
