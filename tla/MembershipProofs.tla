-------------------------- MODULE MembershipProofs --------------------------
(***************************************************************************)
(* Who is in which channel, for any shards, sessions and channels: the       *)
(* session's record, the channel's and the directory agree once nothing is  *)
(* on its way between shards, and who asked to leave is out.                *)
(***************************************************************************)
EXTENDS SessionProofs

\* Who is where, by a session's shard and by a channel's. A session and a channel
\* write to each other in two queues: requests from the session's home to the
\* channel's owner, answers back.

Requests(w, c, ch) == w.mail[Home[c]][Owner[ch]]
Answers(w, c, ch) == w.mail[Owner[ch]][Home[c]]

About(m, c, ch) == m.conn = c /\ m.chan = ch
IsJoin(m, c, ch) == m.kind = "ChannelJoin" /\ About(m, c, ch)
IsPart(m, c, ch) == m.kind = "ChannelPart" /\ About(m, c, ch)
IsRename(m, c, ch) == m.kind = "ChannelMemberUpdate" /\ m.event.subject = c /\ ch \in m.chans
IsQuit(m, c, ch) == m.kind = "ChannelQuit" /\ m.event.subject = c /\ ch \in m.chans
IsIn(m, c, ch) == m.kind = "ChannelJoinResult" /\ About(m, c, ch) /\ m.result = "joined"
IsOut(m, c, ch) ==
    \/ m.kind = "ChannelPartResult" /\ About(m, c, ch) /\ m.result = "parted"
    \/ m.kind = "SessionChannelRemoved" /\ About(m, c, ch)
Moves(m, c, ch) == IsIn(m, c, ch) \/ IsOut(m, c, ch)

\* Of a queue of answers: none of them puts c in or out of ch; the last that does
\* puts it in.
NoMoves(q, c, ch) == \A i \in DOMAIN q : ~Moves(q[i], c, ch)
EndsIn(q, c, ch) ==
    \E i \in DOMAIN q : IsIn(q[i], c, ch) /\ \A j \in DOMAIN q : j > i => ~Moves(q[j], c, ch)

\* Of a queue of requests: no JOIN, no NICK; what is not followed by a NICK says n;
\* every NICK is ahead of every JOIN; a QUIT, or a PART, is behind every JOIN.
NoJoins(q, c, ch) == \A i \in DOMAIN q : ~IsJoin(q[i], c, ch)
NoRenames(q, c, ch) == \A i \in DOMAIN q : ~IsRename(q[i], c, ch)
Final(q, c, ch, i) == \A j \in DOMAIN q : j > i => ~IsRename(q[j], c, ch)
JoinsAs(q, c, ch, n) ==
    \A i \in DOMAIN q : IsJoin(q[i], c, ch) /\ Final(q, c, ch, i) => q[i].nick = n
RenamesTo(q, c, ch, n) ==
    \A i \in DOMAIN q : IsRename(q[i], c, ch) /\ Final(q, c, ch, i) => q[i].nick = n
RenamesFirst(q, c, ch) ==
    \A i, j \in DOMAIN q : IsRename(q[i], c, ch) /\ IsJoin(q[j], c, ch) => i < j
QuitLast(q, c, ch) ==
    \E i \in DOMAIN q : IsQuit(q[i], c, ch) /\ \A j \in DOMAIN q : IsJoin(q[j], c, ch) => j < i
PartLast(q, c, ch) ==
    \E i \in DOMAIN q : IsPart(q[i], c, ch) /\ \A j \in DOMAIN q : IsJoin(q[j], c, ch) => j < i

\* A message about a session and a channel is between its home and its owner, and
\* only an ended session quits.
Outward == {"ChannelJoin", "ChannelPart"}
Inward == {"ChannelJoinResult", "ChannelPartResult", "SessionChannelRemoved"}
Placed(se, s, t, m) ==
    /\ m.kind \in Outward \cup Inward => m.conn \in Conns /\ m.chan \in Chans /\ s # t
    /\ m.kind \in Outward => s = Home[m.conn] /\ t = Owner[m.chan]
    /\ m.kind \in Inward => s = Owner[m.chan] /\ t = Home[m.conn]
    /\ m.kind \in ReportKinds =>
           /\ m.event.subject \in Conns /\ s = Home[m.event.subject] /\ s # t
           /\ \A ch \in m.chans : ch \in Chans /\ t = Owner[ch]
    /\ m.kind = "ChannelQuit" => ~se[m.event.subject].on
    /\ m.kind = "ChannelMemberVanished" => m.conn \in Conns /\ m.chan \in Chans /\ ~se[m.conn].on
    /\ m.kind = "ChannelKick" => m.chan \in Chans
AllPlaced(w) ==
    \A s, t \in Shards : \A i \in DOMAIN w.mail[s][t] : Placed(w.session, s, t, w.mail[s][t][i])

IsMembers(f) ==
    /\ f = [c \in DOMAIN f |-> f[c]] /\ DOMAIN f \subseteq Conns
    /\ \A c \in DOMAIN f : f[c] = [nick |-> f[c].nick, op |-> f[c].op]
Kept(w) ==
    /\ w.members = [ch \in Chans |-> w.members[ch]] /\ \A ch \in Chans : IsMembers(w.members[ch])
    /\ w.memberships = [c \in Conns |-> w.memberships[c]]
    /\ \A c \in Conns : /\ w.memberships[c] = w.session[c].channels
                        /\ ~w.session[c].on => w.session[c].channels = {}
    /\ AllPlaced(w)

\* The channel has the session as a member exactly when the answers on their way
\* will leave it recorded, and under a name the requests on their way will make its
\* own; a session that has ended is a member no longer than its QUIT takes.
IsMember(w, c, ch) == c \in DOMAIN w.members[ch]
RecordOK(w, c, ch) ==
    IsMember(w, c, ch) <=>
        IF NoMoves(Answers(w, c, ch), c, ch) THEN ch \in w.session[c].channels
        ELSE EndsIn(Answers(w, c, ch), c, ch)
NameOK(w, c, ch) ==
    LET q == Requests(w, c, ch)
        n == w.session[c].nick
    IN  /\ JoinsAs(q, c, ch, n)
        /\ RenamesTo(q, c, ch, n) \/ (~IsMember(w, c, ch) /\ RenamesFirst(q, c, ch))
        /\ IsMember(w, c, ch) /\ NoRenames(q, c, ch) => w.members[ch][c].nick = n
GoneOK(w, c, ch) ==
    IsMember(w, c, ch) \/ ~NoJoins(Requests(w, c, ch), c, ch)
        => QuitLast(Requests(w, c, ch), c, ch)
\* Who asked to leave has a PART behind every JOIN, or is out, or every JOIN of his
\* in flight is to be parted (part_on_join).
Leaving(w, c, ch) ==
    \/ PartLast(Requests(w, c, ch), c, ch)
    \/ NoJoins(Requests(w, c, ch), c, ch) /\ ~IsMember(w, c, ch)
LeaveOK(w, c, ch) ==
    \/ Leaving(w, c, ch)
    \/ /\ CountOf(w.session[c].partOnJoin, ch) = CountOf(w.session[c].pending, ch)
       /\ IsMember(w, c, ch) => EndsIn(Answers(w, c, ch), c, ch)

PairOK(w, c, ch) ==
    /\ w.session[c].on => RecordOK(w, c, ch) /\ NameOK(w, c, ch)
    /\ ~w.session[c].on => GoneOK(w, c, ch)
RecordInv(w) == Kept(w) /\ \A c \in Conns, ch \in Chans : PairOK(w, c, ch)
IsAsked(a) ==
    a = [c \in Conns |-> a[c]] /\ \A c \in Conns : a[c] = [ch \in Chans |-> a[c][ch]]
LeaveInv(w, a) ==
    /\ IsAsked(a)
    /\ \A c \in Conns, ch \in Chans : w.session[c].on /\ a[c][ch] = "out" => LeaveOK(w, c, ch)

-----------------------------------------------------------------------------
\* Queues of messages, seen by one session and one channel.

Added(q, x, m) ==
    \E l \in Nat : /\ DOMAIN q = 1 .. l /\ DOMAIN x = 1 .. (l + 1) /\ x[l + 1] = m
                   /\ \A i \in 1 .. l : x[i] = q[i]
Dropped(q, x, m) ==
    \E l \in Nat : /\ l >= 1 /\ DOMAIN q = 1 .. l /\ DOMAIN x = 1 .. (l - 1) /\ q[1] = m
                   /\ \A i \in 1 .. (l - 1) : x[i] = q[i + 1]

\* x says of c and ch what q does, and promises no less.
Like(q, x, c, ch) ==
    /\ NoMoves(x, c, ch) <=> NoMoves(q, c, ch)
    /\ EndsIn(x, c, ch) <=> EndsIn(q, c, ch)
    /\ NoJoins(x, c, ch) <=> NoJoins(q, c, ch)
    /\ NoRenames(x, c, ch) <=> NoRenames(q, c, ch)
    /\ \A n : JoinsAs(q, c, ch, n) => JoinsAs(x, c, ch, n)
    /\ \A n : RenamesTo(q, c, ch, n) => RenamesTo(x, c, ch, n)
    /\ RenamesFirst(q, c, ch) => RenamesFirst(x, c, ch)
    /\ QuitLast(q, c, ch) => QuitLast(x, c, ch)
    /\ PartLast(q, c, ch) => PartLast(x, c, ch)

\* A message that is about something else.
Idle(m, c, ch) ==
    /\ ~Moves(m, c, ch) /\ ~IsJoin(m, c, ch) /\ ~IsRename(m, c, ch)
    /\ ~IsQuit(m, c, ch) /\ ~IsPart(m, c, ch)

LEMMA LikeItself ==
    ASSUME NEW q, NEW c, NEW ch
    PROVE  Like(q, q, c, ch)
BY DEF Like

LEMMA LikeChain ==
    ASSUME NEW q, NEW x, NEW y, NEW c, NEW ch, Like(q, x, c, ch), Like(x, y, c, ch)
    PROVE  Like(q, y, c, ch)
BY DEF Like

LEMMA AddedView ==
    ASSUME NEW q, NEW x, NEW m, Added(q, x, m), NEW c, NEW ch
    PROVE  /\ NoMoves(x, c, ch) <=> NoMoves(q, c, ch) /\ ~Moves(m, c, ch)
           /\ EndsIn(x, c, ch) <=>
                  IsIn(m, c, ch) \/ (~Moves(m, c, ch) /\ EndsIn(q, c, ch))
           /\ NoJoins(x, c, ch) <=> NoJoins(q, c, ch) /\ ~IsJoin(m, c, ch)
           /\ NoRenames(x, c, ch) <=> NoRenames(q, c, ch) /\ ~IsRename(m, c, ch)
           /\ \A n : (IsRename(m, c, ch) \/ JoinsAs(q, c, ch, n))
                         /\ (IsJoin(m, c, ch) => m.nick = n) => JoinsAs(x, c, ch, n)
           /\ \A n : (IF IsRename(m, c, ch) THEN m.nick = n ELSE RenamesTo(q, c, ch, n))
                         => RenamesTo(x, c, ch, n)
           /\ RenamesFirst(q, c, ch) /\ (IsRename(m, c, ch) => NoJoins(q, c, ch))
                  => RenamesFirst(x, c, ch)
           /\ IsQuit(m, c, ch) \/ (QuitLast(q, c, ch) /\ ~IsJoin(m, c, ch)) => QuitLast(x, c, ch)
           /\ IsPart(m, c, ch) \/ (PartLast(q, c, ch) /\ ~IsJoin(m, c, ch)) => PartLast(x, c, ch)
<1>l. PICK l \in Nat : /\ DOMAIN q = 1 .. l /\ DOMAIN x = 1 .. (l + 1) /\ x[l + 1] = m
                       /\ \A i \in 1 .. l : x[i] = q[i]
  BY DEF Added
<1>k. PICK k : k = l + 1
  OBVIOUS
<1>0. /\ k \in DOMAIN x /\ x[k] = m /\ k \notin DOMAIN q
      /\ \A i \in DOMAIN q : i \in DOMAIN x /\ x[i] = q[i] /\ i < k /\ ~(k < i)
      /\ \A i \in DOMAIN x : i = k \/ i \in DOMAIN q
      /\ ~(k < k)
      /\ \A i, j \in DOMAIN x : j > i <=> i < j
  BY <1>l, <1>k
<1> HIDE <1>l, <1>k
<1>1. NoMoves(x, c, ch) <=> NoMoves(q, c, ch) /\ ~Moves(m, c, ch)
  BY <1>0 DEF NoMoves
<1>2. EndsIn(x, c, ch) <=> IsIn(m, c, ch) \/ (~Moves(m, c, ch) /\ EndsIn(q, c, ch))
  <2>0. \A a : IsIn(a, c, ch) => Moves(a, c, ch)
    BY DEF Moves
  <2>1. ASSUME EndsIn(x, c, ch)
        PROVE  IsIn(m, c, ch) \/ (~Moves(m, c, ch) /\ EndsIn(q, c, ch))
    <3>1. PICK i \in DOMAIN x : IsIn(x[i], c, ch) /\ \A j \in DOMAIN x : i < j => ~Moves(x[j], c, ch)
      BY <1>0, <2>1 DEF EndsIn
    <3>2. CASE i = k
      BY <1>0, <3>1, <3>2
    <3>3. CASE i # k
      <4>1. i \in DOMAIN q /\ IsIn(q[i], c, ch) /\ ~Moves(m, c, ch)
        BY <1>0, <3>1, <3>3
      <4>2. \A j \in DOMAIN q : j > i => ~Moves(q[j], c, ch)
        BY <1>0, <3>1, <4>1
      <4> QED
        BY <4>1, <4>2 DEF EndsIn
    <3> QED
      BY <3>2, <3>3
  <2>2. ASSUME IsIn(m, c, ch)
        PROVE  EndsIn(x, c, ch)
    <3>1. \A j \in DOMAIN x : j > k => ~Moves(x[j], c, ch)
      BY <1>0
    <3> QED
      BY <1>0, <2>2, <3>1 DEF EndsIn
  <2>3. ASSUME ~Moves(m, c, ch), EndsIn(q, c, ch)
        PROVE  EndsIn(x, c, ch)
    <3>1. PICK i \in DOMAIN q : IsIn(q[i], c, ch) /\ \A j \in DOMAIN q : j > i => ~Moves(q[j], c, ch)
      BY <2>3 DEF EndsIn
    <3>2. i \in DOMAIN x /\ IsIn(x[i], c, ch)
      BY <1>0, <3>1
    <3>3. \A j \in DOMAIN x : j > i => ~Moves(x[j], c, ch)
      BY <1>0, <2>3, <3>1
    <3> QED
      BY <3>2, <3>3 DEF EndsIn
  <2> QED
    BY <2>1, <2>2, <2>3
<1>3. NoJoins(x, c, ch) <=> NoJoins(q, c, ch) /\ ~IsJoin(m, c, ch)
  BY <1>0 DEF NoJoins
<1>4. NoRenames(x, c, ch) <=> NoRenames(q, c, ch) /\ ~IsRename(m, c, ch)
  BY <1>0 DEF NoRenames
<1>5. \A i \in DOMAIN q : Final(x, c, ch, i) => Final(q, c, ch, i) /\ ~IsRename(m, c, ch)
  BY <1>0 DEF Final
<1>6. ASSUME NEW n, IsRename(m, c, ch) \/ JoinsAs(q, c, ch, n), IsJoin(m, c, ch) => m.nick = n
      PROVE  JoinsAs(x, c, ch, n)
  <2> SUFFICES ASSUME NEW i \in DOMAIN x, IsJoin(x[i], c, ch), Final(x, c, ch, i)
               PROVE  x[i].nick = n
    BY DEF JoinsAs
  <2>1. CASE i = k
    BY <1>0, <1>6, <2>1
  <2>2. CASE i # k
    BY <1>0, <1>5, <1>6, <2>2 DEF JoinsAs
  <2> QED
    BY <2>1, <2>2
<1>7. ASSUME NEW n, IF IsRename(m, c, ch) THEN m.nick = n ELSE RenamesTo(q, c, ch, n)
      PROVE  RenamesTo(x, c, ch, n)
  <2> SUFFICES ASSUME NEW i \in DOMAIN x, IsRename(x[i], c, ch), Final(x, c, ch, i)
               PROVE  x[i].nick = n
    BY DEF RenamesTo
  <2>1. CASE i = k
    BY <1>0, <1>7, <2>1
  <2>2. CASE i # k
    BY <1>0, <1>5, <1>7, <2>2 DEF RenamesTo
  <2> QED
    BY <2>1, <2>2
<1>8. ASSUME RenamesFirst(q, c, ch), IsRename(m, c, ch) => NoJoins(q, c, ch)
      PROVE  RenamesFirst(x, c, ch)
  <2> SUFFICES ASSUME NEW i \in DOMAIN x, NEW j \in DOMAIN x,
                      IsRename(x[i], c, ch), IsJoin(x[j], c, ch)
               PROVE  i < j
    BY DEF RenamesFirst
  <2>1. ~(IsRename(m, c, ch) /\ IsJoin(m, c, ch))
    BY DEF IsRename, IsJoin
  <2>2. CASE i = k
    BY <1>0, <1>8, <2>1, <2>2 DEF NoJoins
  <2>3. CASE i # k
    BY <1>0, <1>8, <2>3 DEF RenamesFirst
  <2> QED
    BY <2>2, <2>3
<1>9. ASSUME IsQuit(m, c, ch) \/ (QuitLast(q, c, ch) /\ ~IsJoin(m, c, ch))
      PROVE  QuitLast(x, c, ch)
  <2>1. CASE IsQuit(m, c, ch)
    <3>1. ~IsJoin(m, c, ch)
      BY <2>1 DEF IsQuit, IsJoin
    <3>2. \A j \in DOMAIN x : IsJoin(x[j], c, ch) => j < k
      BY <1>0, <3>1
    <3> QED
      BY <1>0, <2>1, <3>2 DEF QuitLast
  <2>2. CASE QuitLast(q, c, ch) /\ ~IsJoin(m, c, ch)
    <3>1. PICK i \in DOMAIN q : IsQuit(q[i], c, ch) /\ \A j \in DOMAIN q : IsJoin(q[j], c, ch) => j < i
      BY <2>2 DEF QuitLast
    <3>2. i \in DOMAIN x /\ IsQuit(x[i], c, ch) /\ \A j \in DOMAIN x : IsJoin(x[j], c, ch) => j < i
      BY <1>0, <2>2, <3>1
    <3> QED
      BY <3>2 DEF QuitLast
  <2> QED
    BY <1>9, <2>1, <2>2
<1>10. ASSUME IsPart(m, c, ch) \/ (PartLast(q, c, ch) /\ ~IsJoin(m, c, ch))
       PROVE  PartLast(x, c, ch)
  <2>1. CASE IsPart(m, c, ch)
    <3>1. ~IsJoin(m, c, ch)
      BY <2>1 DEF IsPart, IsJoin
    <3>2. \A j \in DOMAIN x : IsJoin(x[j], c, ch) => j < k
      BY <1>0, <3>1
    <3> QED
      BY <1>0, <2>1, <3>2 DEF PartLast
  <2>2. CASE PartLast(q, c, ch) /\ ~IsJoin(m, c, ch)
    <3>1. PICK i \in DOMAIN q : IsPart(q[i], c, ch) /\ \A j \in DOMAIN q : IsJoin(q[j], c, ch) => j < i
      BY <2>2 DEF PartLast
    <3>2. i \in DOMAIN x /\ IsPart(x[i], c, ch) /\ \A j \in DOMAIN x : IsJoin(x[j], c, ch) => j < i
      BY <1>0, <2>2, <3>1
    <3> QED
      BY <3>2 DEF PartLast
  <2> QED
    BY <1>10, <2>1, <2>2
<1> QED
  BY <1>1, <1>2, <1>3, <1>4, <1>6, <1>7, <1>8, <1>9, <1>10

LEMMA DroppedView ==
    ASSUME NEW q, NEW x, NEW m, Dropped(q, x, m), NEW c, NEW ch
    PROVE  /\ NoMoves(q, c, ch) <=> NoMoves(x, c, ch) /\ ~Moves(m, c, ch)
           /\ ~NoMoves(x, c, ch) \/ ~Moves(m, c, ch) => (EndsIn(x, c, ch) <=> EndsIn(q, c, ch))
           /\ NoMoves(x, c, ch) => (EndsIn(q, c, ch) <=> IsIn(m, c, ch))
           /\ NoJoins(q, c, ch) <=> NoJoins(x, c, ch) /\ ~IsJoin(m, c, ch)
           /\ NoRenames(q, c, ch) <=> NoRenames(x, c, ch) /\ ~IsRename(m, c, ch)
           /\ \A n : JoinsAs(q, c, ch, n) =>
                  JoinsAs(x, c, ch, n) /\ (IsJoin(m, c, ch) /\ NoRenames(x, c, ch) => m.nick = n)
           /\ \A n : RenamesTo(q, c, ch, n) =>
                  RenamesTo(x, c, ch, n)
                  /\ (IsRename(m, c, ch) /\ NoRenames(x, c, ch) => m.nick = n)
           /\ RenamesFirst(q, c, ch) =>
                  RenamesFirst(x, c, ch) /\ (IsJoin(m, c, ch) => NoRenames(x, c, ch))
           /\ QuitLast(q, c, ch) /\ (IsQuit(m, c, ch) => ~NoJoins(x, c, ch)) => QuitLast(x, c, ch)
           /\ PartLast(q, c, ch) /\ (IsPart(m, c, ch) => ~NoJoins(x, c, ch)) => PartLast(x, c, ch)
<1>l. PICK l \in Nat : /\ l >= 1 /\ DOMAIN q = 1 .. l /\ DOMAIN x = 1 .. (l - 1) /\ q[1] = m
                       /\ \A i \in 1 .. (l - 1) : x[i] = q[i + 1]
  BY DEF Dropped
<1>f. PICK up : up = [i \in DOMAIN x |-> i + 1]
  OBVIOUS
<1>0. /\ 1 \in DOMAIN q /\ q[1] = m
      /\ \A i \in DOMAIN x : up[i] \in DOMAIN q /\ q[up[i]] = x[i] /\ 1 < up[i] /\ ~(up[i] < 1)
      /\ \A i \in DOMAIN q : i = 1 \/ \E j \in DOMAIN x : i = up[j]
      /\ \A i, j \in DOMAIN x : (i < j <=> up[i] < up[j]) /\ (j > i <=> i < j)
      /\ \A i, j \in DOMAIN q : j > i <=> i < j
      /\ ~(1 < 1)
  <2>1. \A i \in DOMAIN q : i = 1 \/ (i - 1 \in DOMAIN x /\ i = up[i - 1])
    BY <1>l, <1>f
  <2>2. \A i \in DOMAIN x : up[i] \in DOMAIN q /\ q[up[i]] = x[i] /\ 1 < up[i] /\ ~(up[i] < 1)
    BY <1>l, <1>f
  <2>3. \A i, j \in DOMAIN x : (i < j <=> up[i] < up[j]) /\ (j > i <=> i < j)
    BY <1>l, <1>f
  <2>4. 1 \in DOMAIN q /\ q[1] = m /\ ~(1 < 1) /\ \A i, j \in DOMAIN q : j > i <=> i < j
    BY <1>l
  <2> QED
    BY <2>1, <2>2, <2>3, <2>4
<1> HIDE <1>l, <1>f
<1>a. \A a : IsIn(a, c, ch) => Moves(a, c, ch)
  BY DEF Moves
<1>1. NoMoves(q, c, ch) <=> NoMoves(x, c, ch) /\ ~Moves(m, c, ch)
  BY <1>0 DEF NoMoves
<1>2. ASSUME ~NoMoves(x, c, ch) \/ ~Moves(m, c, ch), EndsIn(q, c, ch)
      PROVE  EndsIn(x, c, ch)
  <2>1. PICK i \in DOMAIN q : IsIn(q[i], c, ch) /\ \A j \in DOMAIN q : i < j => ~Moves(q[j], c, ch)
    BY <1>0, <1>2 DEF EndsIn
  <2>2. i # 1
    BY <1>0, <1>2, <1>a, <2>1 DEF NoMoves
  <2>3. PICK k \in DOMAIN x : i = up[k]
    BY <1>0, <2>2
  <2>4. IsIn(x[k], c, ch) /\ \A j \in DOMAIN x : j > k => ~Moves(x[j], c, ch)
    BY <1>0, <2>1, <2>3
  <2> QED
    BY <2>4 DEF EndsIn
<1>3. ASSUME EndsIn(x, c, ch)
      PROVE  EndsIn(q, c, ch) /\ ~NoMoves(x, c, ch)
  <2>1. PICK k \in DOMAIN x : IsIn(x[k], c, ch) /\ \A j \in DOMAIN x : k < j => ~Moves(x[j], c, ch)
    BY <1>0, <1>3 DEF EndsIn
  <2>2. up[k] \in DOMAIN q /\ IsIn(q[up[k]], c, ch)
    BY <1>0, <2>1
  <2>3. \A j \in DOMAIN q : j > up[k] => ~Moves(q[j], c, ch)
    BY <1>0, <2>1
  <2> QED
    BY <1>a, <2>1, <2>2, <2>3 DEF EndsIn, NoMoves
<1>4. ASSUME NoMoves(x, c, ch)
      PROVE  EndsIn(q, c, ch) <=> IsIn(m, c, ch)
  <2>1. ASSUME IsIn(m, c, ch)
        PROVE  EndsIn(q, c, ch)
    <3>1. \A j \in DOMAIN q : j > 1 => ~Moves(q[j], c, ch)
      BY <1>0, <1>4 DEF NoMoves
    <3> QED
      BY <1>0, <2>1, <3>1 DEF EndsIn
  <2>2. ASSUME EndsIn(q, c, ch)
        PROVE  IsIn(m, c, ch)
    BY <1>0, <1>4, <1>a, <2>2 DEF EndsIn, NoMoves
  <2> QED
    BY <2>1, <2>2
<1>5. NoJoins(q, c, ch) <=> NoJoins(x, c, ch) /\ ~IsJoin(m, c, ch)
  BY <1>0 DEF NoJoins
<1>6. NoRenames(q, c, ch) <=> NoRenames(x, c, ch) /\ ~IsRename(m, c, ch)
  BY <1>0 DEF NoRenames
<1>7. /\ \A i \in DOMAIN x : Final(x, c, ch, i) => Final(q, c, ch, up[i])
      /\ NoRenames(x, c, ch) => Final(q, c, ch, 1)
  BY <1>0 DEF Final, NoRenames
<1>8. ASSUME NEW n, JoinsAs(q, c, ch, n)
      PROVE  JoinsAs(x, c, ch, n) /\ (IsJoin(m, c, ch) /\ NoRenames(x, c, ch) => m.nick = n)
  BY <1>0, <1>7, <1>8 DEF JoinsAs
<1>9. ASSUME NEW n, RenamesTo(q, c, ch, n)
      PROVE  RenamesTo(x, c, ch, n) /\ (IsRename(m, c, ch) /\ NoRenames(x, c, ch) => m.nick = n)
  BY <1>0, <1>7, <1>9 DEF RenamesTo
<1>10. ASSUME RenamesFirst(q, c, ch)
       PROVE  RenamesFirst(x, c, ch) /\ (IsJoin(m, c, ch) => NoRenames(x, c, ch))
  BY <1>0, <1>10 DEF RenamesFirst, NoRenames
<1>11. ASSUME QuitLast(q, c, ch), IsQuit(m, c, ch) => ~NoJoins(x, c, ch)
       PROVE  QuitLast(x, c, ch)
  <2>1. PICK i \in DOMAIN q : IsQuit(q[i], c, ch) /\ \A j \in DOMAIN q : IsJoin(q[j], c, ch) => j < i
    BY <1>11 DEF QuitLast
  <2>2. i # 1
    BY <1>0, <1>11, <2>1 DEF NoJoins
  <2>3. PICK k \in DOMAIN x : i = up[k]
    BY <1>0, <2>2
  <2>4. IsQuit(x[k], c, ch) /\ \A j \in DOMAIN x : IsJoin(x[j], c, ch) => j < k
    BY <1>0, <2>1, <2>3
  <2> QED
    BY <2>4 DEF QuitLast
<1>12. ASSUME PartLast(q, c, ch), IsPart(m, c, ch) => ~NoJoins(x, c, ch)
       PROVE  PartLast(x, c, ch)
  <2>1. PICK i \in DOMAIN q : IsPart(q[i], c, ch) /\ \A j \in DOMAIN q : IsJoin(q[j], c, ch) => j < i
    BY <1>12 DEF PartLast
  <2>2. i # 1
    BY <1>0, <1>12, <2>1 DEF NoJoins
  <2>3. PICK k \in DOMAIN x : i = up[k]
    BY <1>0, <2>2
  <2>4. IsPart(x[k], c, ch) /\ \A j \in DOMAIN x : IsJoin(x[j], c, ch) => j < k
    BY <1>0, <2>1, <2>3
  <2> QED
    BY <2>4 DEF PartLast
<1>13. ~NoMoves(x, c, ch) \/ ~Moves(m, c, ch) => (EndsIn(x, c, ch) <=> EndsIn(q, c, ch))
  BY <1>2, <1>3
<1> QED
  BY <1>1, <1>4, <1>5, <1>6, <1>8, <1>9, <1>10, <1>11, <1>12, <1>13

LEMMA AddedIdle ==
    ASSUME NEW q, NEW x, NEW m, Added(q, x, m), NEW c, NEW ch, Idle(m, c, ch)
    PROVE  Like(q, x, c, ch)
<1>1. ~IsIn(m, c, ch)
  BY DEF Idle, Moves
<1> QED
  BY <1>1, AddedView DEF Idle, Like

LEMMA DroppedIdle ==
    ASSUME NEW q, NEW x, NEW m, Dropped(q, x, m), NEW c, NEW ch, Idle(m, c, ch)
    PROVE  Like(q, x, c, ch)
BY DroppedView DEF Idle, Like

-----------------------------------------------------------------------------
\* Steps that leave everyone where he is.

IsFrame(w) ==
    /\ IsRec(w) /\ w.session = [c \in Conns |-> w.session[c]]
    /\ \A c \in Conns : w.session[c] = [k \in SessionFields |-> w.session[c][k]]
    /\ IsMail(w.mail)
SameSeat(r, x) ==
    /\ x.on = r.on /\ x.nick = r.nick /\ x.channels = r.channels
    /\ x.pending = r.pending /\ x.partOnJoin = r.partOnJoin
CalmMail(w, x) ==
    /\ \A s, t \in Shards : \A c, ch : Like(w.mail[s][t], x.mail[s][t], c, ch)
    /\ AllPlaced(w) => AllPlaced(x)
Calm(w, x) ==
    /\ IsFrame(x) /\ x.members = w.members /\ x.memberships = w.memberships
    /\ \A c \in Conns : SameSeat(w.session[c], x.session[c])
    /\ CalmMail(w, x)

LEMMA CalmItself ==
    ASSUME NEW w, IsFrame(w)
    PROVE  Calm(w, w)
BY LikeItself DEF Calm, CalmMail, SameSeat

LEMMA CalmChain ==
    ASSUME NEW w, NEW x, NEW y, Calm(w, x), Calm(x, y)
    PROVE  Calm(w, y)
<1>1. CalmMail(w, y)
  <2>1. \A s, t \in Shards : \A c, ch : Like(w.mail[s][t], y.mail[s][t], c, ch)
    BY LikeChain DEF Calm, CalmMail
  <2> QED
    BY <2>1 DEF Calm, CalmMail
<1>2. \A c \in Conns : SameSeat(w.session[c], y.session[c])
  BY DEF Calm, SameSeat
<1> QED
  BY <1>1, <1>2 DEF Calm

\* A session's end is for good: what was placed stays so.
LEMMA PlacedStays ==
    ASSUME NEW se, NEW sx, \A c \in Conns : sx[c].on => se[c].on,
           NEW s, NEW t, NEW m, Placed(se, s, t, m)
    PROVE  Placed(sx, s, t, m)
BY DEF Placed, ReportKinds

\* Only sessions and views change.
LEMMA CalmSessions ==
    ASSUME NEW w, IsFrame(w), NEW x, SameCore(w, x), x.members = w.members,
           x.memberships = w.memberships, x.session = [c \in Conns |-> x.session[c]],
           \A c \in Conns : /\ x.session[c] = [k \in SessionFields |-> x.session[c][k]]
                            /\ SameSeat(w.session[c], x.session[c])
    PROVE  Calm(w, x)
<1>1. IsFrame(x) /\ x.mail = w.mail
  BY DEF IsFrame, SameCore
<1>2. \A c \in Conns : x.session[c].on => w.session[c].on
  BY DEF SameSeat
<1>3. AllPlaced(w) => AllPlaced(x)
  BY <1>1, <1>2, PlacedStays DEF AllPlaced
<1>4. CalmMail(w, x)
  BY <1>1, <1>3, LikeItself DEF CalmMail
<1> QED
  BY <1>1, <1>4 DEF Calm

LEMMA SeatHeld ==
    ASSUME NEW r, r = [k \in SessionFields |-> r[k]], NEW e, NEW x, x = [r EXCEPT !.held = e]
    PROVE  x = [k \in SessionFields |-> x[k]] /\ SameSeat(r, x)
BY DEF SessionFields, SameSeat

LEMMA SendAllSeats ==
    ASSUME NEW w, IsRec(w), NEW cs, NEW line
    PROVE  /\ SendAll(w, cs, line).members = w.members
           /\ SendAll(w, cs, line).memberships = w.memberships
<1> DEFINE to == {c \in cs : w.session[c].on}
           se == [c \in Conns |-> IF c \in to /\ Waits(w, c)
                                  THEN [w.session[c] EXCEPT !.held = Append(@, line)]
                                  ELSE w.session[c]]
           vw == [c \in Conns |-> IF c \in to /\ ~Waits(w, c)
                                  THEN observe(w.view[c], line) ELSE w.view[c]]
<1>1. SendAll(w, cs, line) = [w EXCEPT !.session = se, !.view = vw]
  BY DEF SendAll
<1> HIDE DEF se, vw
<1> QED
  BY <1>1 DEF IsRec, WorldFields

LEMMA CalmSendAll ==
    ASSUME NEW w, IsFrame(w), NEW cs, NEW line, NEW x, x = SendAll(w, cs, line)
    PROVE  Calm(w, x)
<1>0. IsRec(w)
  BY DEF IsFrame
<1>1. /\ SameCore(w, x)
      /\ x.session = [c \in Conns |-> IF c \in cs /\ w.session[c].on /\ Waits(w, c)
                                 THEN [w.session[c] EXCEPT !.held = Append(@, line)]
                                 ELSE w.session[c]]
  BY <1>0, SendAllIs
<1>2. x.members = w.members /\ x.memberships = w.memberships
  BY <1>0, SendAllSeats
<1>3. ASSUME NEW c \in Conns
      PROVE  /\ x.session[c] = [k \in SessionFields |-> x.session[c][k]]
             /\ SameSeat(w.session[c], x.session[c])
  <2>r. PICK r : r = w.session[c]
    OBVIOUS
  <2>y. PICK y : y = x.session[c]
    OBVIOUS
  <2>1. r = [k \in SessionFields |-> r[k]]
    BY <2>r DEF IsFrame
  <2>2. y = r \/ \E e : y = [r EXCEPT !.held = e]
    BY <1>1, <2>r, <2>y
  <2>3. y = [k \in SessionFields |-> y[k]] /\ SameSeat(r, y)
    <3>1. CASE y = r
      BY <2>1, <3>1 DEF SameSeat
    <3>2. CASE y # r
      <4>1. PICK e : y = [r EXCEPT !.held = e]
        BY <2>2, <3>2
      <4> QED
        BY <2>1, <4>1, SeatHeld
    <3> QED
      BY <3>1, <3>2
  <2> QED
    BY <2>r, <2>y, <2>3
<1>4. x.session = [c \in Conns |-> x.session[c]]
  BY <1>1
<1> QED
  BY <1>1, <1>2, <1>3, <1>4, CalmSessions

LEMMA RouteFrame ==
    ASSUME NEW w, IsFrame(w), NEW s \in Shards, NEW msgs, NEW x, x = RouteEach(w, s, msgs)
    PROVE  /\ IsFrame(x) /\ x.session = w.session /\ x.members = w.members
           /\ x.memberships = w.memberships /\ x.sequence = w.sequence
           /\ \A a, b \in Shards : ~(a = s /\ b \in DOMAIN msgs) => x.mail[a][b] = w.mail[a][b]
           /\ \A b \in Shards \cap DOMAIN msgs : Added(w.mail[s][b], x.mail[s][b], msgs[b])
           /\ (\A b \in Shards \cap DOMAIN msgs : Placed(w.session, s, b, msgs[b])) =>
                  (AllPlaced(w) => AllPlaced(x))
<1>0. IsRec(w) /\ IsMail(w.mail)
  BY DEF IsFrame
<1>1. /\ IsRec(x) /\ x.session = w.session /\ x.members = w.members
      /\ x.mail = MailMore(w.mail, s, msgs) /\ x.sequence = w.sequence
  BY <1>0, RouteEachIs
<1>2. x.memberships = w.memberships
  <2> DEFINE new == [t \in Shards |-> IF t \in DOMAIN msgs
                                      THEN Append(w.mail[s][t], msgs[t]) ELSE w.mail[s][t]]
  <2>1. x = [w EXCEPT !.mail[s] = new]
    BY DEF RouteEach
  <2> HIDE DEF new
  <2> QED
    BY <1>0, <2>1 DEF IsRec, WorldFields
<1>y. PICK y : y = x.mail
  OBVIOUS
<1>3. /\ IsMail(y)
      /\ \A a, b \in Shards : ~(a = s /\ b \in DOMAIN msgs) => y[a][b] = w.mail[a][b]
      /\ \A b \in Shards \cap DOMAIN msgs :
            /\ Len(w.mail[s][b]) \in Nat /\ DOMAIN w.mail[s][b] = 1 .. Len(w.mail[s][b])
            /\ DOMAIN y[s][b] = 1 .. (Len(w.mail[s][b]) + 1)
            /\ y[s][b][Len(w.mail[s][b]) + 1] = msgs[b]
            /\ \A i \in 1 .. Len(w.mail[s][b]) : y[s][b][i] = w.mail[s][b][i]
  <2>1. IsMail(w.mail)
    BY <1>0
  <2>2. y = MailMore(w.mail, s, msgs)
    BY <1>1, <1>y
  <2> QED
    BY <2>1, <2>2, MailMoreIs, SMTT(30)
<1>4. \A b \in Shards \cap DOMAIN msgs : Added(w.mail[s][b], y[s][b], msgs[b])
  BY <1>3 DEF Added
<1>5. ASSUME \A b \in Shards \cap DOMAIN msgs : Placed(w.session, s, b, msgs[b]), AllPlaced(w)
      PROVE  AllPlaced(x)
  <2> SUFFICES ASSUME NEW a \in Shards, NEW b \in Shards, NEW i \in DOMAIN y[a][b]
               PROVE  Placed(w.session, a, b, y[a][b][i])
    BY <1>1, <1>y DEF AllPlaced
  <2>1. CASE ~(a = s /\ b \in DOMAIN msgs)
    BY <1>3, <1>5, <2>1 DEF AllPlaced
  <2>2. CASE a = s /\ b \in DOMAIN msgs
    <3>l. PICK l \in Nat : /\ DOMAIN w.mail[s][b] = 1 .. l /\ DOMAIN y[s][b] = 1 .. (l + 1)
                           /\ y[s][b][l + 1] = msgs[b]
                           /\ \A j \in 1 .. l : y[s][b][j] = w.mail[s][b][j]
      BY <1>4, <2>2 DEF Added
    <3>1. CASE i \in 1 .. l
      BY <1>5, <2>2, <3>l, <3>1 DEF AllPlaced
    <3>2. CASE i = l + 1
      BY <1>5, <2>2, <3>l, <3>2
    <3>3. i \in 1 .. l \/ i = l + 1
      BY <2>2, <3>l
    <3> QED
      BY <3>1, <3>2, <3>3
  <2> QED
    BY <2>1, <2>2
<1>6. IsFrame(x)
  BY <1>1, <1>3, <1>y DEF IsFrame
<1> QED
  BY <1>1, <1>2, <1>3, <1>4, <1>5, <1>6, <1>y

\* Messages that move nobody.
Dull == {"Delivery", "UserEventPart", "ChannelKickResult"}
LEMMA DullIdle ==
    ASSUME NEW m, m.kind \in Dull
    PROVE  /\ \A c, ch : Idle(m, c, ch)
           /\ \A se, s, t : Placed(se, s, t, m)
BY DEF Dull, Idle, Placed, Moves, IsIn, IsOut, IsJoin, IsPart, IsRename, IsQuit, Outward,
       Inward, ReportKinds

LEMMA CalmRouteEach ==
    ASSUME NEW w, IsFrame(w), NEW s \in Shards, NEW msgs, NEW x, x = RouteEach(w, s, msgs),
           \A b \in Shards \cap DOMAIN msgs :
               Placed(w.session, s, b, msgs[b]) /\ \A c, ch : Idle(msgs[b], c, ch)
    PROVE  Calm(w, x)
<1>1. /\ IsFrame(x) /\ x.session = w.session /\ x.members = w.members
      /\ x.memberships = w.memberships
      /\ \A a, b \in Shards : ~(a = s /\ b \in DOMAIN msgs) => x.mail[a][b] = w.mail[a][b]
      /\ \A b \in Shards \cap DOMAIN msgs : Added(w.mail[s][b], x.mail[s][b], msgs[b])
      /\ AllPlaced(w) => AllPlaced(x)
  BY RouteFrame
<1>2. ASSUME NEW a \in Shards, NEW b \in Shards, NEW c, NEW ch
      PROVE  Like(w.mail[a][b], x.mail[a][b], c, ch)
  <2>1. CASE a = s /\ b \in DOMAIN msgs
    <3>1. Added(w.mail[s][b], x.mail[s][b], msgs[b]) /\ Idle(msgs[b], c, ch)
      BY <1>1, <2>1
    <3> QED
      BY <2>1, <3>1, AddedIdle
  <2>2. CASE ~(a = s /\ b \in DOMAIN msgs)
    BY <1>1, <2>2, LikeItself
  <2> QED
    BY <2>1, <2>2
<1>3. CalmMail(w, x)
  BY <1>1, <1>2 DEF CalmMail
<1>4. \A c \in Conns : SameSeat(w.session[c], x.session[c])
  BY <1>1 DEF SameSeat
<1> QED
  BY <1>1, <1>3, <1>4 DEF Calm

LEMMA CalmDull ==
    ASSUME NEW w, IsFrame(w), NEW s \in Shards, NEW msgs, NEW x, x = RouteEach(w, s, msgs),
           \A b \in Shards \cap DOMAIN msgs : msgs[b].kind \in Dull
    PROVE  Calm(w, x)
BY DullIdle, CalmRouteEach

LEMMA CalmDeliver ==
    ASSUME NEW w, IsFrame(w), NEW s \in Shards, NEW cs, NEW line, NEW x,
           x = Deliver(w, s, cs, line)
    PROVE  Calm(w, x)
<1>y. PICK y : y = SendAll(w, There(cs, s), line)
  OBVIOUS
<1>m. PICK msgs : msgs = [t \in {a \in Shards \ {s} : There(cs, a) # {}} |->
                            [kind |-> "Delivery", conns |-> There(cs, t), line |-> line]]
  OBVIOUS
<1>1. Calm(w, y)
  BY <1>y, CalmSendAll
<1>2. \A b \in Shards \cap DOMAIN msgs : msgs[b].kind \in Dull
  BY <1>m DEF Dull
<1>3. x = RouteEach(y, s, msgs)
  BY <1>y, <1>m DEF Deliver
<1>4. IsFrame(y)
  BY <1>1 DEF Calm
<1>5. Calm(y, x)
  BY <1>2, <1>3, <1>4, CalmDull
<1> QED
  BY <1>1, <1>5, CalmChain

LEMMA CalmTell ==
    ASSUME NEW w, IsFrame(w), NEW cs, NEW event, NEW x, x = Tell(w, cs, event)
    PROVE  Calm(w, x) /\ x.mail = w.mail
<1>1. PICK e : x = SendAll([w EXCEPT !.tellings = e], cs, event.line)
  BY DEF Tell
<1>y. PICK y : y = [w EXCEPT !.tellings = e]
  OBVIOUS
<1>2. Calm(w, y) /\ y.mail = w.mail
  <2>0. IsRec(w)
    BY DEF IsFrame
  <2>1. /\ IsRec(y) /\ y.session = w.session /\ y.members = w.members
        /\ y.memberships = w.memberships /\ y.mail = w.mail
    BY <1>y, <2>0 DEF IsRec, WorldFields
  <2>2. IsFrame(y) /\ CalmMail(w, y)
    BY <2>1, LikeItself DEF IsFrame, CalmMail, AllPlaced
  <2> QED
    BY <2>1, <2>2 DEF Calm, SameSeat
<1>3. Calm(y, x) /\ x.mail = y.mail
  <2>1. IsFrame(y)
    BY <1>2 DEF Calm
  <2>2. x = SendAll(y, cs, event.line)
    BY <1>1, <1>y
  <2> QED
    <3>1. Calm(y, x)
      BY <2>1, <2>2, CalmSendAll
    <3>2. IsRec(y)
      BY <2>1 DEF IsFrame
    <3>l. PICK line : line = event.line
      OBVIOUS
    <3>s. SameCore(y, SendAll(y, cs, line))
      BY <3>2, SendAllIs
    <3>3. SameCore(y, x)
      BY <2>2, <3>l, <3>s
    <3> QED
      BY <3>1, <3>3 DEF SameCore
<1> QED
  BY <1>2, <1>3, CalmChain

LEMMA CalmDeliverPart ==
    ASSUME NEW w, IsFrame(w), NEW s, NEW event, NEW cs, NEW x, x = DeliverPart(w, s, event, cs)
    PROVE  Calm(w, x) /\ x.mail = w.mail
<1>1. CASE event.parts = 1
  BY <1>1, CalmTell DEF DeliverPart
<1>2. CASE event.parts # 1
  <2>1. PICK e, d : x = Tell([w EXCEPT !.events[s] = e], d, event)
    BY <1>2 DEF DeliverPart
  <2>y. PICK y : y = [w EXCEPT !.events[s] = e]
    OBVIOUS
  <2>2. Calm(w, y) /\ y.mail = w.mail
    <3>0. IsRec(w)
      BY DEF IsFrame
    <3>1. /\ IsRec(y) /\ y.session = w.session /\ y.members = w.members
          /\ y.memberships = w.memberships /\ y.mail = w.mail
      BY <2>y, <3>0 DEF IsRec, WorldFields
    <3>2. IsFrame(y) /\ CalmMail(w, y)
      BY <3>1, LikeItself DEF IsFrame, CalmMail, AllPlaced
    <3> QED
      BY <3>1, <3>2 DEF Calm, SameSeat
  <2>3. Calm(y, x) /\ x.mail = y.mail
    <3>1. IsFrame(y)
      BY <2>2 DEF Calm
    <3>2. x = Tell(y, d, event)
      BY <2>1, <2>y
    <3> QED
      BY <3>1, <3>2, CalmTell
  <2> QED
    BY <2>2, <2>3, CalmChain
<1> QED
  BY <1>1, <1>2

\* Every message is placed, by the sessions se.
PlacedIn(se, w) ==
    \A s, t \in Shards : \A i \in DOMAIN w.mail[s][t] : Placed(se, s, t, w.mail[s][t][i])

LEMMA RoutePlaced ==
    ASSUME NEW w, IsFrame(w), NEW s \in Shards, NEW msgs, NEW x, x = RouteEach(w, s, msgs),
           NEW se, \A b \in Shards \cap DOMAIN msgs : Placed(se, s, b, msgs[b]), PlacedIn(se, w)
    PROVE  PlacedIn(se, x)
<1>1. /\ \A a, b \in Shards : ~(a = s /\ b \in DOMAIN msgs) => x.mail[a][b] = w.mail[a][b]
      /\ \A b \in Shards \cap DOMAIN msgs : Added(w.mail[s][b], x.mail[s][b], msgs[b])
  BY RouteFrame
<1>y. PICK y : y = x.mail
  OBVIOUS
<1> SUFFICES ASSUME NEW a \in Shards, NEW b \in Shards, NEW i \in DOMAIN y[a][b]
             PROVE  Placed(se, a, b, y[a][b][i])
  BY <1>y DEF PlacedIn
<1>2. CASE ~(a = s /\ b \in DOMAIN msgs)
  BY <1>1, <1>2, <1>y DEF PlacedIn
<1>3. CASE a = s /\ b \in DOMAIN msgs
  <2>l. PICK l \in Nat : /\ DOMAIN w.mail[s][b] = 1 .. l /\ DOMAIN y[s][b] = 1 .. (l + 1)
                         /\ y[s][b][l + 1] = msgs[b]
                         /\ \A j \in 1 .. l : y[s][b][j] = w.mail[s][b][j]
    BY <1>1, <1>3, <1>y DEF Added
  <2>1. CASE i \in 1 .. l
    BY <1>3, <2>l, <2>1 DEF PlacedIn
  <2>2. CASE i = l + 1
    BY <1>3, <2>l, <2>2
  <2>3. i \in 1 .. l \/ i = l + 1
    BY <1>3, <2>l
  <2> QED
    BY <2>1, <2>2, <2>3
<1> QED
  BY <1>2, <1>3

LEMMA CalmSendParts ==
    ASSUME NEW w, IsFrame(w), NEW s \in Shards, NEW event, NEW peers, NEW x,
           x = SendParts(w, s, event, peers)
    PROVE  Calm(w, x) /\ \A se : PlacedIn(se, w) => PlacedIn(se, x)
<1>h. PICK hear : hear = {t \in Shards : event.parts # 1 \/ There(peers, t) # {}}
  OBVIOUS
<1>y. PICK y : y = IF s \in hear THEN DeliverPart(w, s, event, There(peers, s)) ELSE w
  OBVIOUS
<1>m. PICK msgs : msgs = [t \in hear \ {s} |-> PartMsg(event, There(peers, t))]
  OBVIOUS
<1>1. Calm(w, y) /\ y.mail = w.mail
  BY <1>y, CalmDeliverPart, CalmItself
<1>2. \A b \in Shards \cap DOMAIN msgs : msgs[b].kind \in Dull
  BY <1>m DEF Dull, PartMsg
<1>3. x = RouteEach(y, s, msgs)
  BY <1>h, <1>y, <1>m DEF SendParts
<1>4. IsFrame(y)
  BY <1>1 DEF Calm
<1>5. Calm(y, x)
  BY <1>2, <1>3, <1>4, CalmDull
<1>6. ASSUME NEW se, PlacedIn(se, w)
      PROVE  PlacedIn(se, x)
  <2>1. PlacedIn(se, y)
    BY <1>1, <1>6 DEF PlacedIn
  <2>2. \A b \in Shards \cap DOMAIN msgs : Placed(se, s, b, msgs[b])
    BY <1>2, DullIdle
  <2> QED
    BY <1>3, <1>4, <2>1, <2>2, RoutePlaced
<1>7. Calm(w, x)
  BY <1>1, <1>5, CalmChain
<1> QED
  BY <1>6, <1>7

-----------------------------------------------------------------------------
\* Steps that move nobody but one session in one channel.

SamePair(w, x, c, ch) ==
    /\ x.session[c].on = w.session[c].on /\ x.session[c].nick = w.session[c].nick
    /\ ch \in x.session[c].channels <=> ch \in w.session[c].channels
    /\ IsMember(x, c, ch) <=> IsMember(w, c, ch)
    /\ IsMember(w, c, ch) => x.members[ch][c].nick = w.members[ch][c].nick
    /\ Like(Requests(w, c, ch), Requests(x, c, ch), c, ch)
    /\ Like(Answers(w, c, ch), Answers(x, c, ch), c, ch)
SameMarks(w, x, c, ch) ==
    /\ CountOf(x.session[c].pending, ch) = CountOf(w.session[c].pending, ch)
    /\ CountOf(x.session[c].partOnJoin, ch) = CountOf(w.session[c].partOnJoin, ch)
OthersStay(w, x, c0, ch0) ==
    \A c \in Conns, ch \in Chans :
        ~(c = c0 /\ ch = ch0) => SamePair(w, x, c, ch) /\ SameMarks(w, x, c, ch)
Moved(w, x, c0, ch0) ==
    IsFrame(x) /\ (Kept(w) => Kept(x)) /\ OthersStay(w, x, c0, ch0)

LEMMA SamePairOK ==
    ASSUME NEW w, NEW x, NEW c, NEW ch, SamePair(w, x, c, ch), PairOK(w, c, ch)
    PROVE  PairOK(x, c, ch)
<1>q. PICK q, p : q = Requests(w, c, ch) /\ p = Requests(x, c, ch)
  OBVIOUS
<1>a. PICK a, b : a = Answers(w, c, ch) /\ b = Answers(x, c, ch)
  OBVIOUS
<1>0. Like(q, p, c, ch) /\ Like(a, b, c, ch)
  BY <1>q, <1>a DEF SamePair
<1>1. RecordOK(w, c, ch) => RecordOK(x, c, ch)
  BY <1>0, <1>a DEF SamePair, RecordOK, Like
<1>2. NameOK(w, c, ch) => NameOK(x, c, ch)
  BY <1>0, <1>q DEF SamePair, NameOK, Like
<1>3. GoneOK(w, c, ch) => GoneOK(x, c, ch)
  BY <1>0, <1>q DEF SamePair, GoneOK, Like
<1> QED
  BY <1>1, <1>2, <1>3 DEF PairOK, SamePair

LEMMA SameLeaveOK ==
    ASSUME NEW w, NEW x, NEW c, NEW ch, SamePair(w, x, c, ch)
    PROVE  /\ Leaving(w, c, ch) => Leaving(x, c, ch)
           /\ SameMarks(w, x, c, ch) /\ LeaveOK(w, c, ch) => LeaveOK(x, c, ch)
BY DEF SamePair, SameMarks, Leaving, LeaveOK, Like

LEMMA SamePairChain ==
    ASSUME NEW w, NEW x, NEW y, NEW c, NEW ch, SamePair(w, x, c, ch), SamePair(x, y, c, ch)
    PROVE  SamePair(w, y, c, ch)
<1>1. /\ Like(Requests(w, c, ch), Requests(y, c, ch), c, ch)
      /\ Like(Answers(w, c, ch), Answers(y, c, ch), c, ch)
  BY LikeChain DEF SamePair
<1> QED
  BY <1>1 DEF SamePair

LEMMA MovedChain ==
    ASSUME NEW w, NEW x, NEW y, NEW c, NEW ch, Moved(w, x, c, ch), Moved(x, y, c, ch)
    PROVE  Moved(w, y, c, ch)
<1>1. OthersStay(w, y, c, ch)
  <2> SUFFICES ASSUME NEW d \in Conns, NEW dh \in Chans, ~(d = c /\ dh = ch)
               PROVE  SamePair(w, y, d, dh) /\ SameMarks(w, y, d, dh)
    BY DEF OthersStay
  <2>1. SamePair(w, x, d, dh) /\ SamePair(x, y, d, dh)
    BY DEF Moved, OthersStay
  <2>2. SameMarks(w, x, d, dh) /\ SameMarks(x, y, d, dh)
    BY DEF Moved, OthersStay
  <2>3. SamePair(w, y, d, dh)
    BY <2>1, SamePairChain
  <2> QED
    BY <2>2, <2>3 DEF SameMarks
<1> QED
  BY <1>1 DEF Moved

LEMMA SeatKept ==
    ASSUME NEW w, NEW x, x.members = w.members, x.memberships = w.memberships,
           \A c \in Conns : /\ x.session[c].on = w.session[c].on
                            /\ x.session[c].channels = w.session[c].channels,
           AllPlaced(w) => AllPlaced(x), Kept(w)
    PROVE  Kept(x)
BY DEF Kept

LEMMA CalmMoves ==
    ASSUME NEW w, NEW x, Calm(w, x)
    PROVE  /\ IsFrame(x) /\ (Kept(w) => Kept(x))
           /\ \A c \in Conns, ch \in Chans : SamePair(w, x, c, ch) /\ SameMarks(w, x, c, ch)
           /\ \A c, ch : Moved(w, x, c, ch)
<1>1. IsFrame(x)
  BY DEF Calm
<1>2. Kept(w) => Kept(x)
  <2>1. x.members = w.members /\ x.memberships = w.memberships /\ (AllPlaced(w) => AllPlaced(x))
    BY DEF Calm, CalmMail
  <2>2. \A c \in Conns : /\ x.session[c].on = w.session[c].on
                         /\ x.session[c].channels = w.session[c].channels
    BY DEF Calm, SameSeat
  <2> QED
    BY <2>1, <2>2, SeatKept
<1>3. ASSUME NEW c \in Conns, NEW ch \in Chans
      PROVE  SamePair(w, x, c, ch) /\ SameMarks(w, x, c, ch)
  <2>1. Home[c] \in Shards /\ Owner[ch] \in Shards
    BY HomeType, OwnerType
  <2>2. /\ Like(Requests(w, c, ch), Requests(x, c, ch), c, ch)
        /\ Like(Answers(w, c, ch), Answers(x, c, ch), c, ch)
    BY <2>1 DEF Calm, CalmMail, Requests, Answers
  <2>3. x.members = w.members /\ SameSeat(w.session[c], x.session[c])
    BY DEF Calm
  <2> QED
    BY <2>2, <2>3 DEF SamePair, SameMarks, IsMember, SameSeat
<1> QED
  BY <1>1, <1>2, <1>3 DEF Moved, OthersStay

\* Nothing is on its way between a session and a channel of one shard.
LEMMA LocalQuiet ==
    ASSUME NEW w, AllPlaced(w), NEW c \in Conns, NEW ch \in Chans, Owner[ch] = Home[c],
           NEW q, q = Requests(w, c, ch)
    PROVE  /\ Answers(w, c, ch) = q /\ NoMoves(q, c, ch) /\ ~EndsIn(q, c, ch)
           /\ NoJoins(q, c, ch) /\ NoRenames(q, c, ch) /\ ~QuitLast(q, c, ch)
           /\ \A n : JoinsAs(q, c, ch, n) /\ RenamesTo(q, c, ch, n)
<1>h. PICK h \in Shards : h = Home[c] /\ h = Owner[ch]
  BY HomeType
<1>1. q = w.mail[h][h] /\ Answers(w, c, ch) = q
  BY <1>h DEF Requests, Answers
<1>2. ASSUME NEW i \in DOMAIN q
      PROVE  /\ ~Moves(q[i], c, ch) /\ ~IsJoin(q[i], c, ch) /\ ~IsRename(q[i], c, ch)
             /\ ~IsQuit(q[i], c, ch)
  <2>1. Placed(w.session, h, h, q[i])
    BY <1>1 DEF AllPlaced
  <2> QED
    BY <2>1 DEF Placed, Moves, IsIn, IsOut, IsJoin, IsRename, IsQuit, Outward, Inward, ReportKinds
<1> QED
  BY <1>1, <1>2 DEF NoMoves, EndsIn, NoJoins, NoRenames, QuitLast, JoinsAs, RenamesTo, Moves

\* Members e are members f but for c.
Alike(f, e, c) ==
    \A d : d # c => /\ d \in DOMAIN e <=> d \in DOMAIN f
                    /\ d \in DOMAIN e => e[d] = f[d]
MembersSet(w, ch, e) == [w EXCEPT !.members[ch] = e]
LEMMA SetMember ==
    ASSUME NEW w, IsFrame(w), Kept(w), NEW c \in Conns, NEW ch \in Chans, NEW e, IsMembers(e),
           Alike(w.members[ch], e, c), NEW y, y = MembersSet(w, ch, e)
    PROVE  /\ Moved(w, y, c, ch) /\ Kept(y) /\ IsFrame(y)
           /\ y.session = w.session /\ y.mail = w.mail /\ y.memberships = w.memberships
           /\ y.members[ch] = e
<1>0. IsRec(w) /\ w.members = [k \in Chans |-> w.members[k]]
  BY DEF IsFrame, Kept
<1>1. /\ IsRec(y) /\ y.session = w.session /\ y.mail = w.mail /\ y.memberships = w.memberships
      /\ y.members = [w.members EXCEPT ![ch] = e]
  BY <1>0 DEF MembersSet, IsRec, WorldFields
<1>2. /\ y.members = [k \in Chans |-> y.members[k]] /\ y.members[ch] = e
      /\ \A k \in Chans : k # ch => y.members[k] = w.members[k]
  BY <1>0, <1>1
<1>3. IsFrame(y)
  BY <1>1 DEF IsFrame
<1>4. Kept(y)
  <2>1. AllPlaced(y)
    BY <1>1 DEF Kept, AllPlaced
  <2>2. \A k \in Chans : IsMembers(y.members[k])
    BY <1>2 DEF Kept
  <2> QED
    BY <1>1, <1>2, <2>1, <2>2 DEF Kept
<1>5. ASSUME NEW d \in Conns, NEW k \in Chans, ~(d = c /\ k = ch)
      PROVE  SamePair(w, y, d, k) /\ SameMarks(w, y, d, k)
  <2>1. IsMember(y, d, k) <=> IsMember(w, d, k)
    BY <1>2, <1>5 DEF IsMember, Alike
  <2>2. IsMember(w, d, k) => y.members[k][d].nick = w.members[k][d].nick
    BY <1>2, <1>5, <2>1 DEF IsMember, Alike
  <2>3. Requests(y, d, k) = Requests(w, d, k) /\ Answers(y, d, k) = Answers(w, d, k)
    BY <1>1 DEF Requests, Answers
  <2> QED
    BY <1>1, <2>1, <2>2, <2>3, LikeItself DEF SamePair, SameMarks
<1> QED
  BY <1>1, <1>2, <1>3, <1>4, <1>5 DEF Moved, OthersStay

LEMMA RouteMoves ==
    ASSUME NEW w, IsFrame(w), NEW s \in Shards, NEW t \in Shards, NEW r,
           Placed(w.session, s, t, r), NEW c, NEW ch,
           \A d \in Conns, k \in Chans : ~(d = c /\ k = ch) => Idle(r, d, k),
           NEW x, x = Route(w, s, t, r)
    PROVE  /\ Moved(w, x, c, ch) /\ IsFrame(x) /\ x.session = w.session
           /\ x.members = w.members /\ x.memberships = w.memberships
           /\ Added(w.mail[s][t], x.mail[s][t], r)
           /\ \A a, b \in Shards : ~(a = s /\ b = t) => x.mail[a][b] = w.mail[a][b]
<1>m. PICK msgs : msgs = [k \in {t} |-> r]
  OBVIOUS
<1>0. DOMAIN msgs = {t} /\ msgs[t] = r /\ x = RouteEach(w, s, msgs)
  BY <1>m DEF Route
<1>1. /\ IsFrame(x) /\ x.session = w.session /\ x.members = w.members
      /\ x.memberships = w.memberships
      /\ \A a, b \in Shards : ~(a = s /\ b \in DOMAIN msgs) => x.mail[a][b] = w.mail[a][b]
      /\ \A b \in Shards \cap DOMAIN msgs : Added(w.mail[s][b], x.mail[s][b], msgs[b])
      /\ (\A b \in Shards \cap DOMAIN msgs : Placed(w.session, s, b, msgs[b])) =>
             (AllPlaced(w) => AllPlaced(x))
  BY <1>0, RouteFrame
<1>2. /\ Added(w.mail[s][t], x.mail[s][t], r) /\ (AllPlaced(w) => AllPlaced(x))
      /\ \A a, b \in Shards : ~(a = s /\ b = t) => x.mail[a][b] = w.mail[a][b]
  BY <1>0, <1>1
<1>3. Kept(w) => Kept(x)
  BY <1>1, <1>2, SeatKept
<1>4. ASSUME NEW d \in Conns, NEW k \in Chans, ~(d = c /\ k = ch)
      PROVE  SamePair(w, x, d, k) /\ SameMarks(w, x, d, k)
  <2>1. \A a, b \in Shards : Like(w.mail[a][b], x.mail[a][b], d, k)
    <3>1. Idle(r, d, k)
      BY <1>4
    <3>2. Like(w.mail[s][t], x.mail[s][t], d, k)
      BY <1>2, <3>1, AddedIdle
    <3> QED
      BY <1>2, <3>2, LikeItself
  <2>2. Home[d] \in Shards /\ Owner[k] \in Shards
    BY HomeType, OwnerType
  <2> QED
    BY <1>1, <2>1, <2>2 DEF SamePair, SameMarks, IsMember, Requests, Answers
<1> QED
  BY <1>1, <1>2, <1>3, <1>4 DEF Moved, OthersStay

LEMMA TakenFrame ==
    ASSUME IsFrame(Now), Kept(Now), NEW s \in Shards, NEW t \in Shards, mail[s][t] # <<>>,
           NEW m, m = Msg(s, t), NEW x, x = Taken(s, t)
    PROVE  /\ Kept(x) /\ IsFrame(x) /\ x.session = session
           /\ x.members = members /\ x.memberships = memberships
           /\ Dropped(mail[s][t], x.mail[s][t], m)
           /\ \A a, b \in Shards : ~(a = s /\ b = t) => x.mail[a][b] = mail[a][b]
           /\ \A d \in Conns, k \in Chans :
                 Idle(m, d, k) => SamePair(Now, x, d, k) /\ SameMarks(Now, x, d, k)
<1>0. /\ IsRec(Now) /\ Now.session = session /\ Now.members = members
      /\ Now.memberships = memberships /\ Now.mail = mail
  BY NowFields
<1>1. /\ IsRec(x) /\ x.session = session /\ x.members = members
      /\ x.mail = MailTail(mail, s, t)
  BY TakenIs
<1>2. x.memberships = memberships
  <2>1. x = [Now EXCEPT !.mail[s][t] = Tail(mail[s][t])]
    BY <1>0 DEF Taken
  <2> QED
    BY <1>0, <2>1 DEF IsRec, WorldFields
<1>y. PICK y : y = x.mail
  OBVIOUS
<1>3. /\ IsMail(y)
      /\ \A a, b \in Shards : ~(a = s /\ b = t) => y[a][b] = mail[a][b]
      /\ Len(mail[s][t]) \in Nat /\ Len(mail[s][t]) >= 1
      /\ DOMAIN mail[s][t] = 1 .. Len(mail[s][t])
      /\ Head(mail[s][t]) = mail[s][t][1]
      /\ DOMAIN y[s][t] = 1 .. (Len(mail[s][t]) - 1)
      /\ \A i \in 1 .. (Len(mail[s][t]) - 1) : y[s][t][i] = mail[s][t][i + 1]
  <2>1. IsMail(mail)
    BY <1>0 DEF IsFrame
  <2>2. y = MailTail(mail, s, t)
    BY <1>1, <1>y
  <2> QED
    BY <2>1, <2>2, MailTailIs
<1>4. Dropped(mail[s][t], y[s][t], m)
  BY <1>3 DEF Dropped, Msg
<1>5. AllPlaced(x)
  <2>0. \A a, b \in Shards : \A i \in DOMAIN mail[a][b] : Placed(session, a, b, mail[a][b][i])
    BY <1>0 DEF Kept, AllPlaced
  <2> SUFFICES ASSUME NEW a \in Shards, NEW b \in Shards, NEW i \in DOMAIN y[a][b]
               PROVE  Placed(session, a, b, y[a][b][i])
    BY <1>1, <1>y DEF AllPlaced
  <2>1. CASE ~(a = s /\ b = t)
    BY <1>3, <2>0, <2>1
  <2>2. CASE a = s /\ b = t
    <3>1. i + 1 \in DOMAIN mail[s][t] /\ y[s][t][i] = mail[s][t][i + 1]
      BY <1>3, <2>2, SMTT(30)
    <3> QED
      BY <2>0, <2>2, <3>1
  <2> QED
    BY <2>1, <2>2
<1>6. IsFrame(x)
  BY <1>0, <1>1, <1>3, <1>y DEF IsFrame
<1>7. Kept(x)
  BY <1>0, <1>1, <1>2, <1>5, SeatKept
<1>8. ASSUME NEW d \in Conns, NEW k \in Chans, Idle(m, d, k)
      PROVE  SamePair(Now, x, d, k) /\ SameMarks(Now, x, d, k)
  <2>1. \A a, b \in Shards : Like(mail[a][b], y[a][b], d, k)
    <3>1. Idle(m, d, k)
      BY <1>8
    <3>2. Like(mail[s][t], y[s][t], d, k)
      BY <1>4, <3>1, DroppedIdle
    <3> QED
      BY <1>3, <3>2, LikeItself
  <2>2. Home[d] \in Shards /\ Owner[k] \in Shards
    BY HomeType, OwnerType
  <2> QED
    BY <1>0, <1>1, <1>y, <2>1, <2>2 DEF SamePair, SameMarks, IsMember, Requests, Answers
<1> QED
  BY <1>1, <1>2, <1>3, <1>4, <1>6, <1>7, <1>8, <1>y

LEMMA TakenMoves ==
    ASSUME IsFrame(Now), Kept(Now), NEW s \in Shards, NEW t \in Shards, mail[s][t] # <<>>,
           NEW m, m = Msg(s, t), NEW x, x = Taken(s, t), NEW c, NEW ch,
           \A d \in Conns, k \in Chans : ~(d = c /\ k = ch) => Idle(m, d, k)
    PROVE  /\ Moved(Now, x, c, ch) /\ Kept(x) /\ IsFrame(x) /\ x.session = session
           /\ x.members = members /\ x.memberships = memberships
           /\ Dropped(mail[s][t], x.mail[s][t], m)
           /\ \A a, b \in Shards : ~(a = s /\ b = t) => x.mail[a][b] = mail[a][b]
<1>1. /\ Kept(x) /\ IsFrame(x) /\ x.session = session
      /\ x.members = members /\ x.memberships = memberships
      /\ Dropped(mail[s][t], x.mail[s][t], m)
      /\ \A a, b \in Shards : ~(a = s /\ b = t) => x.mail[a][b] = mail[a][b]
      /\ \A d \in Conns, k \in Chans :
            Idle(m, d, k) => SamePair(Now, x, d, k) /\ SameMarks(Now, x, d, k)
  BY TakenFrame
<1> QED
  BY <1>1 DEF Moved, OthersStay

LEMMA HeadPlaced ==
    ASSUME IsFrame(Now), Kept(Now), NEW s \in Shards, NEW t \in Shards, mail[s][t] # <<>>,
           NEW m, m = Msg(s, t)
    PROVE  Placed(session, s, t, m)
<1>1. IsMail(mail)
  BY NowFields DEF IsFrame
<1>2. 1 \in DOMAIN mail[s][t] /\ Head(mail[s][t]) = mail[s][t][1]
  BY <1>1, MailTailIs
<1> QED
  BY <1>2, NowFields DEF Kept, AllPlaced, Msg

\* g is f but for c.
Put(f, g, c, r) ==
    g = [d \in Conns |-> g[d]] /\ g[c] = r /\ \A d \in Conns : d # c => g[d] = f[d]
LEMMA PutOne ==
    ASSUME NEW f, NEW c \in Conns, NEW r, NEW g, g = [d \in Conns |-> IF d = c THEN r ELSE f[d]]
    PROVE  Put(f, g, c, r)
BY DEF Put

\* Session c is now r.
Reseated(w, y, c, r) ==
    /\ SameCore(w, y) /\ y.members = w.members /\ r = [k \in SessionFields |-> r[k]]
    /\ Put(w.session, y.session, c, r) /\ Put(w.memberships, y.memberships, c, r.channels)

LEMMA ReseatedKeeps ==
    ASSUME NEW w, IsFrame(w), Kept(w), NEW c \in Conns, NEW r, NEW y, Reseated(w, y, c, r),
           r.on = w.session[c].on, ~r.on => r.channels = {}
    PROVE  /\ IsFrame(y) /\ Kept(y) /\ y.session[c] = r /\ y.mail = w.mail /\ y.members = w.members
           /\ \A d \in Conns : d # c => y.session[d] = w.session[d]
<1>0. /\ y.mail = w.mail /\ y.members = w.members /\ IsRec(y) /\ r = [k \in SessionFields |-> r[k]]
      /\ Put(w.session, y.session, c, r) /\ Put(w.memberships, y.memberships, c, r.channels)
  BY DEF Reseated, SameCore
<1>a. /\ y.session = [d \in Conns |-> y.session[d]] /\ y.session[c] = r
      /\ \A d \in Conns : d # c => y.session[d] = w.session[d]
  BY <1>0 DEF Put
<1>b. /\ y.memberships = [d \in Conns |-> y.memberships[d]] /\ y.memberships[c] = r.channels
      /\ \A d \in Conns : d # c => y.memberships[d] = w.memberships[d]
  BY <1>0 DEF Put
<1>2. IsFrame(y)
  BY <1>0, <1>a DEF IsFrame
<1>3. \A d \in Conns : y.session[d].on = w.session[d].on
  BY <1>a
<1>4. AllPlaced(y)
  BY <1>0, <1>3, PlacedStays DEF Kept, AllPlaced
<1>5. \A d \in Conns : /\ y.memberships[d] = y.session[d].channels
                       /\ ~y.session[d].on => y.session[d].channels = {}
  BY <1>a, <1>b DEF Kept
<1>6. Kept(y)
  BY <1>0, <1>b, <1>4, <1>5 DEF Kept
<1> QED
  BY <1>0, <1>a, <1>2, <1>6

\* Only what session c keeps about channel ch changes.
LEMMA SeatMoves ==
    ASSUME NEW w, IsFrame(w), Kept(w), NEW c \in Conns, NEW ch, NEW r,
           r.on = w.session[c].on, r.nick = w.session[c].nick, ~r.on => r.channels = {},
           \A k : k # ch => (k \in r.channels <=> k \in w.session[c].channels),
           \A k : k # ch => CountOf(r.pending, k) = CountOf(w.session[c].pending, k),
           \A k : k # ch => CountOf(r.partOnJoin, k) = CountOf(w.session[c].partOnJoin, k),
           NEW y, Reseated(w, y, c, r)
    PROVE  Moved(w, y, c, ch) /\ Kept(y) /\ y.session[c] = r /\ y.mail = w.mail
           /\ y.members = w.members
<1>1. /\ IsFrame(y) /\ Kept(y) /\ y.session[c] = r /\ y.mail = w.mail /\ y.members = w.members
      /\ \A d \in Conns : d # c => y.session[d] = w.session[d]
  BY ReseatedKeeps
<1>6. ASSUME NEW d \in Conns, NEW k \in Chans, ~(d = c /\ k = ch)
      PROVE  SamePair(w, y, d, k) /\ SameMarks(w, y, d, k)
  <2>1. /\ y.session[d].on = w.session[d].on
        /\ y.session[d].nick = w.session[d].nick
        /\ k \in y.session[d].channels <=> k \in w.session[d].channels
        /\ SameMarks(w, y, d, k)
    <3>1. CASE d = c
      <4>1. k # ch
        BY <1>6, <3>1
      <4> QED
        BY <1>1, <3>1, <4>1 DEF SameMarks
    <3>2. CASE d # c
      BY <1>1, <3>2 DEF SameMarks
    <3> QED
      BY <3>1, <3>2
  <2>2. Requests(y, d, k) = Requests(w, d, k) /\ Answers(y, d, k) = Answers(w, d, k)
    BY <1>1 DEF Requests, Answers
  <2>3. IsMember(y, d, k) <=> IsMember(w, d, k)
    BY <1>1 DEF IsMember
  <2>4. SamePair(w, y, d, k)
    BY <1>1, <2>1, <2>2, <2>3, LikeItself DEF SamePair
  <2> QED
    BY <2>1, <2>4
<1> QED
  BY <1>1, <1>6 DEF Moved, OthersStay

LEMMA SeatCalm ==
    ASSUME NEW w, IsFrame(w), Kept(w), NEW c \in Conns, NEW r, SameSeat(w.session[c], r),
           NEW y, Reseated(w, y, c, r)
    PROVE  Calm(w, y)
<1>1. r.on = w.session[c].on /\ (~r.on => r.channels = {})
  BY DEF SameSeat, Kept
<1>2. /\ IsFrame(y) /\ y.session[c] = r /\ y.members = w.members
      /\ \A d \in Conns : d # c => y.session[d] = w.session[d]
  BY <1>1, ReseatedKeeps
<1>3. ASSUME NEW d \in Conns
      PROVE  /\ y.session[d] = [k \in SessionFields |-> y.session[d][k]]
             /\ SameSeat(w.session[d], y.session[d])
  <2>1. SameSeat(w.session[d], y.session[d])
    <3>1. CASE d = c
      BY <1>2, <3>1
    <3>2. CASE d # c
      BY <1>2, <3>2 DEF SameSeat
    <3> QED
      BY <3>1, <3>2
  <2> QED
    BY <1>2, <2>1 DEF IsFrame
<1>4. y.memberships = w.memberships
  <2>1. r.channels = w.memberships[c]
    BY DEF SameSeat, Kept
  <2>2. w.memberships = [d \in Conns |-> w.memberships[d]]
    BY DEF Kept
  <2>3. y.memberships = [d \in Conns |-> y.memberships[d]]
        /\ \A d \in Conns : y.memberships[d] = w.memberships[d]
    BY <2>1 DEF Reseated, Put
  <2> QED
    BY <2>2, <2>3
<1>5. SameCore(w, y) /\ y.session = [d \in Conns |-> y.session[d]]
  BY <1>2 DEF Reseated, IsFrame
<1> QED
  BY <1>2, <1>3, <1>4, <1>5, CalmSessions

-----------------------------------------------------------------------------
\* What the session's shard does to a session.

LEMMA SeatDeferred ==
    ASSUME NEW r, r = [k \in SessionFields |-> r[k]], NEW e, NEW x, x = [r EXCEPT !.deferred = e]
    PROVE  x = [k \in SessionFields |-> x[k]] /\ SameSeat(r, x)
BY DEF SessionFields, SameSeat

LEMMA SeatChannels ==
    ASSUME NEW r, r = [k \in SessionFields |-> r[k]], NEW e, NEW x, x = [r EXCEPT !.channels = e]
    PROVE  /\ x = [k \in SessionFields |-> x[k]] /\ x.on = r.on /\ x.nick = r.nick
           /\ x.channels = e /\ x.pending = r.pending /\ x.partOnJoin = r.partOnJoin
BY DEF SessionFields

LEMMA SeatPending ==
    ASSUME NEW r, r = [k \in SessionFields |-> r[k]], NEW e, NEW x, x = [r EXCEPT !.pending = e]
    PROVE  /\ x = [k \in SessionFields |-> x[k]] /\ x.on = r.on /\ x.nick = r.nick
           /\ x.channels = r.channels /\ x.pending = e /\ x.partOnJoin = r.partOnJoin
BY DEF SessionFields

LEMMA SeatNick ==
    ASSUME NEW r, r = [k \in SessionFields |-> r[k]], NEW e, NEW x, x = [r EXCEPT !.nick = e]
    PROVE  /\ x = [k \in SessionFields |-> x[k]] /\ x.on = r.on /\ x.nick = e
           /\ x.channels = r.channels /\ x.pending = r.pending /\ x.partOnJoin = r.partOnJoin
BY DEF SessionFields

\* A step that sets session c to r and leaves its channels as they are.
LEMMA SeatSet ==
    ASSUME NEW w, IsFrame(w), Kept(w), NEW c \in Conns, NEW r,
           r = [k \in SessionFields |-> r[k]], r.channels = w.session[c].channels,
           NEW y, SameCore(w, y), y.members = w.members, y.memberships = w.memberships,
           y.session = [d \in Conns |-> IF d = c THEN r ELSE w.session[d]]
    PROVE  Reseated(w, y, c, r)
<1>1. PICK f : f = w.session
  OBVIOUS
<1>2. PICK g : g = y.session
  OBVIOUS
<1>3. g = [d \in Conns |-> IF d = c THEN r ELSE f[d]]
  BY <1>1, <1>2
<1>4. Put(f, g, c, r)
  BY <1>3, PutOne
<1>5. Put(w.memberships, y.memberships, c, r.channels)
  BY DEF Put, Kept
<1> QED
  BY <1>1, <1>2, <1>4, <1>5 DEF Reseated

LEMMA CalmDefer ==
    ASSUME NEW w, IsFrame(w), Kept(w), NEW c \in Conns, NEW y, y = Defer(w, c)
    PROVE  Calm(w, y)
<1>0. IsRec(w) /\ w.session = [d \in Conns |-> w.session[d]]
  BY DEF IsFrame
<1>e. PICK e : e = w.session[c].deferred + 1
  OBVIOUS
<1>q. PICK q : q = w.session[c]
  OBVIOUS
<1>r. PICK r : r = [q EXCEPT !.deferred = e]
  OBVIOUS
<1>1. y = [w EXCEPT !.session[c].deferred = e]
  BY <1>e DEF Defer
<1>2. SameCore(w, y) /\ y.members = w.members /\ y.memberships = w.memberships
  BY <1>0, <1>1 DEF IsRec, WorldFields, SameCore
<1>3. y.session = [d \in Conns |-> IF d = c THEN r ELSE w.session[d]]
  BY <1>0, <1>1, <1>q, <1>r DEF IsRec, WorldFields
<1>4. q = [k \in SessionFields |-> q[k]]
  BY <1>q DEF IsFrame
<1>5. r = [k \in SessionFields |-> r[k]] /\ SameSeat(q, r)
  BY <1>4, <1>r, SeatDeferred
<1>6. r.channels = w.session[c].channels
  BY <1>q, <1>5 DEF SameSeat
<1>7. Reseated(w, y, c, r)
  BY <1>2, <1>3, <1>5, <1>6, SeatSet
<1> QED
  BY <1>q, <1>5, <1>7, SeatCalm

EmitSeat(q, e, f) == [[q EXCEPT !.deferred = e] EXCEPT !.held = f]
Emitted(w, c, e, f, g) ==
    [w EXCEPT !.view[c] = g, !.session[c].deferred = e, !.session[c].held = f]
LEMMA EmitWorld ==
    ASSUME NEW w, IsRec(w), w.session = [d \in Conns |-> w.session[d]], NEW c \in Conns,
           NEW e, NEW f, NEW g, NEW y, y = Emitted(w, c, e, f, g),
           NEW r, r = EmitSeat(w.session[c], e, f)
    PROVE  /\ SameCore(w, y) /\ y.members = w.members /\ y.memberships = w.memberships
           /\ y.session = [d \in Conns |-> IF d = c THEN r ELSE w.session[d]]
<1>1. SameCore(w, y)
  BY DEF Emitted, EmitSeat, IsRec, WorldFields, SameCore
<1>2. y.members = w.members /\ y.memberships = w.memberships
  BY DEF Emitted, EmitSeat, IsRec, WorldFields
<1>3. y.session = [d \in Conns |-> IF d = c THEN r ELSE w.session[d]]
  BY DEF Emitted, EmitSeat, IsRec, WorldFields
<1> QED
  BY <1>1, <1>2, <1>3

LEMMA EmitSeatIs ==
    ASSUME NEW r, r = [k \in SessionFields |-> r[k]], NEW e, NEW f, NEW x, x = EmitSeat(r, e, f)
    PROVE  x = [k \in SessionFields |-> x[k]] /\ SameSeat(r, x)
BY DEF SessionFields, SameSeat, EmitSeat

AnswerSeat(q, e, f) == [[q EXCEPT !.pending = e] EXCEPT !.partOnJoin = f]
LEMMA AnswerSeatIs ==
    ASSUME NEW r, r = [k \in SessionFields |-> r[k]], NEW e, NEW f, NEW x, x = AnswerSeat(r, e, f)
    PROVE  /\ x = [k \in SessionFields |-> x[k]] /\ x.on = r.on /\ x.nick = r.nick
           /\ x.channels = r.channels /\ x.pending = e /\ x.partOnJoin = f
BY DEF SessionFields, AnswerSeat

LEMMA AnswerWorld ==
    ASSUME NEW w, IsRec(w), w.session = [d \in Conns |-> w.session[d]], NEW c \in Conns,
           NEW e, NEW f, NEW y, y = Answer(w, c, e, f),
           NEW r, r = AnswerSeat(w.session[c], e, f)
    PROVE  /\ SameCore(w, y) /\ y.members = w.members /\ y.memberships = w.memberships
           /\ y.session = [d \in Conns |-> IF d = c THEN r ELSE w.session[d]]
<1>1. SameCore(w, y)
  BY DEF Answer, AnswerSeat, IsRec, WorldFields, SameCore
<1>2. y.members = w.members /\ y.memberships = w.memberships
  BY DEF Answer, AnswerSeat, IsRec, WorldFields
<1>3. y.session = [d \in Conns |-> IF d = c THEN r ELSE w.session[d]]
  BY DEF Answer, AnswerSeat, IsRec, WorldFields
<1> QED
  BY <1>1, <1>2, <1>3

\* A session's channels change.
Enrol(w, c, e) == [w EXCEPT !.session[c].channels = e, !.memberships[c] = e]
LEMMA EnrolWorld ==
    ASSUME NEW w, IsRec(w), w.session = [d \in Conns |-> w.session[d]],
           w.memberships = [d \in Conns |-> w.memberships[d]], NEW c \in Conns,
           NEW e, NEW y, y = Enrol(w, c, e), NEW r, r = [w.session[c] EXCEPT !.channels = e]
    PROVE  /\ SameCore(w, y) /\ y.members = w.members
           /\ y.session = [d \in Conns |-> IF d = c THEN r ELSE w.session[d]]
           /\ y.memberships = [d \in Conns |-> IF d = c THEN e ELSE w.memberships[d]]
<1>1. SameCore(w, y)
  BY DEF Enrol, IsRec, WorldFields, SameCore
<1>2. y.members = w.members
  BY DEF Enrol, IsRec, WorldFields
<1>3. y.session = [d \in Conns |-> IF d = c THEN r ELSE w.session[d]]
  BY DEF Enrol, IsRec, WorldFields
<1>4. y.memberships = [d \in Conns |-> IF d = c THEN e ELSE w.memberships[d]]
  BY DEF Enrol, IsRec, WorldFields
<1> QED
  BY <1>1, <1>2, <1>3, <1>4

LEMMA CalmEmit ==
    ASSUME NEW w, IsFrame(w), Kept(w), NEW c \in Conns, NEW lines, NEW y,
           y = EmitDeferred(w, c, lines)
    PROVE  Calm(w, y)
<1>0. IsRec(w) /\ w.session = [d \in Conns |-> w.session[d]]
  BY DEF IsFrame
<1>1. CASE ~w.session[c].on
  BY <1>1, CalmItself DEF EmitDeferred
<1>2. CASE w.session[c].on
  <2>e. PICK e : e = w.session[c].deferred - 1
    OBVIOUS
  <2>f. PICK f : f = IF e = 0 THEN <<>> ELSE w.session[c].held
    OBVIOUS
  <2>g. PICK g : g = observeAll(w.view[c], lines \o IF e = 0 THEN w.session[c].held ELSE <<>>)
    OBVIOUS
  <2>1. y = Emitted(w, c, e, f, g)
    BY <1>2, <2>e, <2>f, <2>g DEF EmitDeferred, Emitted
  <2>q. PICK q : q = w.session[c]
    OBVIOUS
  <2>r. PICK r : r = EmitSeat(w.session[c], e, f)
    OBVIOUS
  <2>2. SameCore(w, y) /\ y.members = w.members /\ y.memberships = w.memberships
        /\ y.session = [d \in Conns |-> IF d = c THEN r ELSE w.session[d]]
    BY <1>0, <2>1, <2>r, EmitWorld
  <2>4. q = [k \in SessionFields |-> q[k]] /\ r = EmitSeat(q, e, f)
    BY <2>q, <2>r DEF IsFrame
  <2>6. r = [k \in SessionFields |-> r[k]] /\ SameSeat(q, r)
    BY <2>4, EmitSeatIs
  <2>7. SameSeat(w.session[c], r) /\ r.channels = w.session[c].channels
    BY <2>q, <2>6 DEF SameSeat
  <2>8. Reseated(w, y, c, r)
    BY <2>2, <2>6, <2>7, SeatSet
  <2> QED
    BY <2>7, <2>8, SeatCalm
<1> QED
  BY <1>1, <1>2

LEMMA EnrolMoves ==
    ASSUME NEW w, IsFrame(w), Kept(w), NEW c \in Conns, NEW ch, NEW e,
           \A k : k # ch => (k \in e <=> k \in w.session[c].channels),
           w.session[c].on \/ e = {}, NEW y, y = Enrol(w, c, e)
    PROVE  /\ Moved(w, y, c, ch) /\ Kept(y) /\ y.mail = w.mail /\ y.members = w.members
           /\ y.session[c].on = w.session[c].on /\ y.session[c].nick = w.session[c].nick
           /\ y.session[c].channels = e /\ y.session[c].pending = w.session[c].pending
           /\ y.session[c].partOnJoin = w.session[c].partOnJoin
<1>0. IsRec(w) /\ w.session = [d \in Conns |-> w.session[d]]
      /\ w.memberships = [d \in Conns |-> w.memberships[d]]
  BY DEF IsFrame, Kept
<1>q. PICK q : q = w.session[c]
  OBVIOUS
<1>r. PICK r : r = [w.session[c] EXCEPT !.channels = e]
  OBVIOUS
<1>o. r = [q EXCEPT !.channels = e]
  BY <1>q, <1>r
<1>p. q = [k \in SessionFields |-> q[k]]
  BY <1>q DEF IsFrame
<1>1. /\ r = [k \in SessionFields |-> r[k]] /\ r.on = q.on /\ r.nick = q.nick
      /\ r.channels = e /\ r.pending = q.pending /\ r.partOnJoin = q.partOnJoin
  BY <1>p, <1>o, SeatChannels
<1>2. SameCore(w, y) /\ y.members = w.members
      /\ y.session = [d \in Conns |-> IF d = c THEN r ELSE w.session[d]]
      /\ y.memberships = [d \in Conns |-> IF d = c THEN e ELSE w.memberships[d]]
  BY <1>0, <1>r, EnrolWorld, SMTT(30)
<1>a. Put(w.session, y.session, c, r)
  <2>1. PICK f, g : f = w.session /\ g = y.session
    OBVIOUS
  <2>2. g = [d \in Conns |-> IF d = c THEN r ELSE f[d]]
    BY <1>2, <2>1
  <2>3. Put(f, g, c, r)
    BY <2>2, PutOne
  <2> QED
    BY <2>1, <2>3
<1>b. Put(w.memberships, y.memberships, c, r.channels)
  <2>1. PICK f, g : f = w.memberships /\ g = y.memberships
    OBVIOUS
  <2>2. g = [d \in Conns |-> IF d = c THEN e ELSE f[d]]
    BY <1>2, <2>1
  <2>3. Put(f, g, c, e)
    BY <2>2, PutOne
  <2> QED
    BY <1>1, <2>1, <2>3
<1>5. Reseated(w, y, c, r)
  BY <1>1, <1>2, <1>a, <1>b DEF Reseated
<1>6. Moved(w, y, c, ch) /\ Kept(y) /\ y.session[c] = r /\ y.mail = w.mail
      /\ y.members = w.members
  <2>1. r.on = w.session[c].on /\ r.nick = w.session[c].nick /\ (~r.on => r.channels = {})
    BY <1>1, <1>q
  <2>2. \A k : k # ch => (k \in r.channels <=> k \in w.session[c].channels)
    BY <1>1
  <2>3. \A k : k # ch => CountOf(r.pending, k) = CountOf(w.session[c].pending, k)
    BY <1>1, <1>q
  <2>4. \A k : k # ch => CountOf(r.partOnJoin, k) = CountOf(w.session[c].partOnJoin, k)
    BY <1>1, <1>q
  <2> HIDE DEF Enrol
  <2> QED
    BY <1>5, <2>1, <2>2, <2>3, <2>4, SeatMoves
<1> QED
  BY <1>q, <1>1, <1>6

LEMMA RecordPartMoves ==
    ASSUME NEW w, IsFrame(w), Kept(w), NEW c \in Conns, NEW ch, NEW y,
           y = RecordPart(w, c, ch, "parted")
    PROVE  /\ Moved(w, y, c, ch) /\ Kept(y) /\ y.mail = w.mail /\ y.members = w.members
           /\ y.session[c].on = w.session[c].on /\ y.session[c].nick = w.session[c].nick
           /\ y.session[c].channels = w.session[c].channels \ {ch}
           /\ y.session[c].pending = w.session[c].pending
           /\ y.session[c].partOnJoin = w.session[c].partOnJoin
<1>e. PICK e : e = w.session[c].channels \ {ch}
  OBVIOUS
<1>1. w.memberships[c] = w.session[c].channels /\ (w.session[c].on \/ e = {})
  BY <1>e DEF Kept
<1>2. y = Enrol(w, c, e)
  BY <1>e, <1>1 DEF RecordPart, Enrol
<1>3. \A k : k # ch => (k \in e <=> k \in w.session[c].channels)
  BY <1>e
<1>4. /\ Moved(w, y, c, ch) /\ Kept(y) /\ y.mail = w.mail /\ y.members = w.members
      /\ y.session[c].on = w.session[c].on /\ y.session[c].nick = w.session[c].nick
      /\ y.session[c].channels = e /\ y.session[c].pending = w.session[c].pending
      /\ y.session[c].partOnJoin = w.session[c].partOnJoin
  <2>1. w.session[c].on \/ e = {}
    BY <1>1
  <2> QED
    BY <1>2, <1>3, <2>1, EnrolMoves
<1> QED
  BY <1>e, <1>4

Alive(w, c) == w.session[c].on = TRUE
LEMMA RecordJoinMoves ==
    ASSUME NEW w, IsFrame(w), Kept(w), NEW c \in Conns, Alive(w, c), NEW ch, NEW y,
           y = RecordJoin(w, c, ch, "joined")
    PROVE  /\ Moved(w, y, c, ch) /\ Kept(y) /\ y.mail = w.mail /\ y.members = w.members
           /\ y.session[c].on = w.session[c].on /\ y.session[c].nick = w.session[c].nick
           /\ y.session[c].channels = w.session[c].channels \cup {ch}
           /\ y.session[c].pending = w.session[c].pending
           /\ y.session[c].partOnJoin = w.session[c].partOnJoin
<1>e. PICK e : e = w.session[c].channels \cup {ch}
  OBVIOUS
<1>1. w.memberships[c] = w.session[c].channels
  BY DEF Kept
<1>2. y = Enrol(w, c, e)
  BY <1>e, <1>1 DEF RecordJoin, Enrol
<1>3. \A k : k # ch => (k \in e <=> k \in w.session[c].channels)
  BY <1>e
<1>o. w.session[c].on \/ e = {}
  BY DEF Alive
<1>4. /\ Moved(w, y, c, ch) /\ Kept(y) /\ y.mail = w.mail /\ y.members = w.members
      /\ y.session[c].on = w.session[c].on /\ y.session[c].nick = w.session[c].nick
      /\ y.session[c].channels = e /\ y.session[c].pending = w.session[c].pending
      /\ y.session[c].partOnJoin = w.session[c].partOnJoin
  BY <1>2, <1>3, <1>o, EnrolMoves
<1> QED
  BY <1>e, <1>4

LEMMA PendedMoves ==
    ASSUME NEW w, IsFrame(w), Kept(w), NEW c \in Conns, NEW ch, NEW e,
           \A k : k # ch => CountOf(e, k) = CountOf(w.session[c].pending, k),
           NEW y, y = Pended(w, c, e)
    PROVE  /\ Moved(w, y, c, ch) /\ Kept(y) /\ y.mail = w.mail /\ y.members = w.members
           /\ y.session[c].on = w.session[c].on /\ y.session[c].nick = w.session[c].nick
           /\ y.session[c].channels = w.session[c].channels
           /\ y.session[c].pending = e
           /\ y.session[c].partOnJoin = w.session[c].partOnJoin
<1>0. IsRec(w) /\ w.session = [d \in Conns |-> w.session[d]]
  BY DEF IsFrame
<1>q. PICK q : q = w.session[c]
  OBVIOUS
<1>r. PICK r : r = [q EXCEPT !.pending = e]
  OBVIOUS
<1>p. q = [k \in SessionFields |-> q[k]]
  BY <1>q DEF IsFrame
<1>1. /\ r = [k \in SessionFields |-> r[k]] /\ r.on = q.on /\ r.nick = q.nick
      /\ r.channels = q.channels /\ r.pending = e /\ r.partOnJoin = q.partOnJoin
  BY <1>p, <1>r, SeatPending
<1>y. y = [w EXCEPT !.session[c].pending = e]
  BY DEF Pended
<1>2. SameCore(w, y) /\ y.members = w.members /\ y.memberships = w.memberships
  BY <1>0, <1>y DEF IsRec, WorldFields, SameCore
<1>3. y.session = [d \in Conns |-> IF d = c THEN r ELSE w.session[d]]
  BY <1>0, <1>y, <1>q, <1>r DEF IsRec, WorldFields
<1>4. r = [k \in SessionFields |-> r[k]] /\ r.channels = w.session[c].channels
  BY <1>1, <1>q
<1>5. Reseated(w, y, c, r)
  BY <1>2, <1>3, <1>4, SeatSet
<1>6. Moved(w, y, c, ch) /\ Kept(y) /\ y.session[c] = r /\ y.mail = w.mail
      /\ y.members = w.members
  <2>1. r.on = w.session[c].on /\ r.nick = w.session[c].nick /\ (~r.on => r.channels = {})
    BY <1>1, <1>q DEF Kept
  <2>2. \A k : k # ch => (k \in r.channels <=> k \in w.session[c].channels)
    BY <1>4
  <2>3. \A k : k # ch => CountOf(r.pending, k) = CountOf(w.session[c].pending, k)
    BY <1>1
  <2>4. \A k : k # ch => CountOf(r.partOnJoin, k) = CountOf(w.session[c].partOnJoin, k)
    BY <1>1, <1>q
  <2> QED
    BY <1>5, <2>1, <2>2, <2>3, <2>4, SeatMoves
<1> QED
  BY <1>q, <1>1, <1>6

LEMMA AnswerMoves ==
    ASSUME NEW w, IsFrame(w), Kept(w), NEW c \in Conns, NEW ch, NEW e, NEW f,
           \A k : k # ch => CountOf(e, k) = CountOf(w.session[c].pending, k),
           \A k : k # ch => CountOf(f, k) = CountOf(w.session[c].partOnJoin, k),
           NEW y, y = Answer(w, c, e, f)
    PROVE  /\ Moved(w, y, c, ch) /\ Kept(y) /\ y.mail = w.mail /\ y.members = w.members
           /\ y.session[c].on = w.session[c].on /\ y.session[c].nick = w.session[c].nick
           /\ y.session[c].channels = w.session[c].channels
           /\ y.session[c].pending = e /\ y.session[c].partOnJoin = f
<1>0. IsRec(w) /\ w.session = [d \in Conns |-> w.session[d]]
  BY DEF IsFrame
<1>q. PICK q : q = w.session[c]
  OBVIOUS
<1>r. PICK r : r = AnswerSeat(w.session[c], e, f)
  OBVIOUS
<1>p. q = [k \in SessionFields |-> q[k]] /\ r = AnswerSeat(q, e, f)
  BY <1>q, <1>r DEF IsFrame
<1>1. /\ r = [k \in SessionFields |-> r[k]] /\ r.on = q.on /\ r.nick = q.nick
      /\ r.channels = q.channels /\ r.pending = e /\ r.partOnJoin = f
  BY <1>p, AnswerSeatIs
<1>2. SameCore(w, y) /\ y.members = w.members /\ y.memberships = w.memberships
      /\ y.session = [d \in Conns |-> IF d = c THEN r ELSE w.session[d]]
  BY <1>0, <1>r, AnswerWorld
<1>4. r = [k \in SessionFields |-> r[k]] /\ r.channels = w.session[c].channels
  BY <1>1, <1>q
<1>5. Reseated(w, y, c, r)
  BY <1>2, <1>4, SeatSet
<1>6. Moved(w, y, c, ch) /\ Kept(y) /\ y.session[c] = r /\ y.mail = w.mail
      /\ y.members = w.members
  <2>1. r.on = w.session[c].on /\ r.nick = w.session[c].nick /\ (~r.on => r.channels = {})
    BY <1>1, <1>q DEF Kept
  <2>2. \A k : k # ch => (k \in r.channels <=> k \in w.session[c].channels)
    BY <1>4
  <2>3. \A k : k # ch => CountOf(r.pending, k) = CountOf(w.session[c].pending, k)
    BY <1>1
  <2>4. \A k : k # ch => CountOf(r.partOnJoin, k) = CountOf(w.session[c].partOnJoin, k)
    BY <1>1
  <2> QED
    BY <1>5, <2>1, <2>2, <2>3, <2>4, SeatMoves
<1> QED
  BY <1>q, <1>1, <1>6

LEMMA TakeOneCounts ==
    ASSUME NEW f, NEW ch, NEW g, g = TakeOne(f, ch)
    PROVE  /\ \A d : d # ch => CountOf(g, d) = CountOf(f, d)
           /\ CountOf(f, ch) \in Nat \ {0} => CountOf(g, ch) = CountOf(f, ch) - 1
<1>1. CASE ch \notin DOMAIN f
  BY <1>1 DEF TakeOne, CountOf
<1>2. CASE ch \in DOMAIN f /\ f[ch] = 1
  <2>1. g = [d \in DOMAIN f \ {ch} |-> f[d]]
    BY <1>2 DEF TakeOne, Without
  <2>2. DOMAIN g = DOMAIN f \ {ch} /\ \A d \in DOMAIN g : g[d] = f[d]
    BY <2>1
  <2> QED
    BY <1>2, <2>2 DEF CountOf
<1>3. CASE ch \in DOMAIN f /\ f[ch] # 1
  <2>1. g = [f EXCEPT ![ch] = f[ch] - 1]
    BY <1>3 DEF TakeOne
  <2>2. DOMAIN g = DOMAIN f /\ g[ch] = f[ch] - 1 /\ \A d \in DOMAIN g : d # ch => g[d] = f[d]
    BY <1>3, <2>1
  <2> QED
    BY <1>3, <2>2 DEF CountOf
<1> QED
  BY <1>1, <1>2, <1>3

-----------------------------------------------------------------------------
\* What the owner of a channel does to a member.

\* The session and the queues between it and the channel are as they were.
Stays(w, x, c, ch) ==
    /\ SameSeat(w.session[c], x.session[c])
    /\ Like(Requests(w, c, ch), Requests(x, c, ch), c, ch)
    /\ Like(Answers(w, c, ch), Answers(x, c, ch), c, ch)

LEMMA CalmStays ==
    ASSUME NEW w, NEW x, Calm(w, x), NEW c \in Conns, NEW ch \in Chans
    PROVE  Stays(w, x, c, ch) /\ x.members = w.members /\ Moved(w, x, c, ch) /\ IsFrame(x)
<1>1. SamePair(w, x, c, ch) /\ Moved(w, x, c, ch) /\ IsFrame(x)
  BY CalmMoves
<1>2. SameSeat(w.session[c], x.session[c]) /\ x.members = w.members
  BY DEF Calm
<1> QED
  BY <1>1, <1>2 DEF Stays, SamePair

LEMMA CalmKept ==
    ASSUME NEW w, NEW x, Calm(w, x), Kept(w)
    PROVE  Kept(x)
BY CalmMoves

LEMMA StaysChain ==
    ASSUME NEW w, NEW x, NEW y, NEW c, NEW ch, Stays(w, x, c, ch), Stays(x, y, c, ch)
    PROVE  Stays(w, y, c, ch)
<1>1. /\ Like(Requests(w, c, ch), Requests(y, c, ch), c, ch)
      /\ Like(Answers(w, c, ch), Answers(y, c, ch), c, ch)
  BY LikeChain DEF Stays
<1>2. SameSeat(w.session[c], y.session[c])
  BY DEF Stays, SameSeat
<1> QED
  BY <1>1, <1>2 DEF Stays

LEMMA WithMembers ==
    ASSUME NEW f, IsMembers(f), NEW c \in Conns, NEW nick, NEW op, NEW v,
           v = [nick |-> nick, op |-> op], NEW e, e = With(f, c, v)
    PROVE  /\ IsMembers(e) /\ c \in DOMAIN e /\ e[c].nick = nick
           /\ Alike(f, e, c)
<1>1. e = [y \in DOMAIN f \cup {c} |-> IF y = c THEN v ELSE f[y]]
  BY DEF With
<1>2. DOMAIN e = DOMAIN f \cup {c} /\ e[c] = v /\ \A d \in DOMAIN f : d # c => e[d] = f[d]
  BY <1>1
<1>3. v = [nick |-> v.nick, op |-> v.op] /\ v.nick = nick
  OBVIOUS
<1>4. e = [d \in DOMAIN e |-> e[d]]
  BY <1>1
<1>5. \A d \in DOMAIN e : e[d] = [nick |-> e[d].nick, op |-> e[d].op]
  <2> SUFFICES ASSUME NEW d \in DOMAIN e
               PROVE  e[d] = [nick |-> e[d].nick, op |-> e[d].op]
    OBVIOUS
  <2>1. CASE d = c
    BY <1>2, <1>3, <2>1
  <2>2. CASE d # c
    BY <1>2, <2>2 DEF IsMembers
  <2> QED
    BY <2>1, <2>2
<1>6. DOMAIN e \subseteq Conns
  BY <1>2 DEF IsMembers
<1>7. IsMembers(e)
  BY <1>4, <1>5, <1>6 DEF IsMembers
<1> QED
  BY <1>2, <1>3, <1>7 DEF Alike

LEMMA WithoutMembers ==
    ASSUME NEW f, IsMembers(f), NEW c, NEW e, e = Without(f, c)
    PROVE  /\ IsMembers(e) /\ c \notin DOMAIN e
           /\ Alike(f, e, c)
<1>1. e = [y \in DOMAIN f \ {c} |-> f[y]]
  BY DEF Without
<1>2. DOMAIN e = DOMAIN f \ {c} /\ \A d \in DOMAIN e : e[d] = f[d]
  BY <1>1
<1>3. IsMembers(e)
  BY <1>1, <1>2 DEF IsMembers
<1> QED
  BY <1>2, <1>3 DEF Alike

LEMMA SetMemberStays ==
    ASSUME NEW w, IsFrame(w), Kept(w), NEW c \in Conns, NEW ch \in Chans, NEW e, IsMembers(e),
           Alike(w.members[ch], e, c), NEW y, y = MembersSet(w, ch, e)
    PROVE  /\ Moved(w, y, c, ch) /\ Kept(y) /\ Stays(w, y, c, ch) /\ y.members[ch] = e
<1>1. /\ Moved(w, y, c, ch) /\ Kept(y) /\ IsFrame(y)
      /\ y.session = w.session /\ y.mail = w.mail /\ y.memberships = w.memberships
      /\ y.members[ch] = e
  BY SetMember
<1>2. Stays(w, y, c, ch)
  BY <1>1, LikeItself DEF Stays, SameSeat, Requests, Answers
<1> QED
  BY <1>1, <1>2

LEMMA JoinOnOwnerMoves ==
    ASSUME NEW w, IsFrame(w), Kept(w), NEW c \in Conns, NEW ch \in Chans, NEW nick, NEW admit,
           NEW j, j = JoinOnOwner(w, c, nick, ch, admit), NEW x, x = j.w
    PROVE  /\ Moved(w, x, c, ch) /\ Kept(x) /\ Stays(w, x, c, ch)
           /\ IF j.result = "joined"
              THEN ~IsMember(w, c, ch) /\ IsMember(x, c, ch) /\ x.members[ch][c].nick = nick
              ELSE x = w
<1>1. CASE c \in Members(w, ch) \/ ~admit
  <2>1. x = w /\ j.result # "joined"
    BY <1>1 DEF JoinOnOwner
  <2>2. Calm(w, w)
    BY CalmItself
  <2> QED
    BY <2>1, <2>2, CalmStays
<1>2. CASE ~(c \in Members(w, ch) \/ ~admit)
  <2>y. PICK y : y = Deliver(w, Owner[ch], Members(w, ch), JoinLine(nick, ch))
    OBVIOUS
  <2>v. PICK v, op : v = [nick |-> nick, op |-> op] /\ op = (Members(w, ch) = {})
    OBVIOUS
  <2>0. Owner[ch] \in Shards
    BY OwnerType
  <2>1. Calm(w, y)
    BY <2>0, <2>y, CalmDeliver
  <2>2. Stays(w, y, c, ch) /\ y.members = w.members /\ Moved(w, y, c, ch) /\ IsFrame(y)
    BY <2>1, CalmStays
  <2>3. Kept(y)
    BY <2>1, CalmKept
  <2>e. PICK e : e = With(y.members[ch], c, v)
    OBVIOUS
  <2>4. x = MembersSet(y, ch, e) /\ j.result = "joined"
    BY <1>2, <2>y, <2>v, <2>e DEF JoinOnOwner, MembersSet
  <2>5. IsMembers(y.members[ch])
    BY <2>3 DEF Kept
  <2>6. /\ IsMembers(e) /\ c \in DOMAIN e /\ e[c].nick = nick
        /\ Alike(y.members[ch], e, c)
    BY <2>v, <2>e, <2>5, WithMembers
  <2>7. Moved(y, x, c, ch) /\ Kept(x) /\ Stays(y, x, c, ch) /\ x.members[ch] = e
    BY <2>2, <2>3, <2>4, <2>6, SetMemberStays
  <2>8. Moved(w, x, c, ch)
    BY <2>2, <2>7, MovedChain
  <2>9. Stays(w, x, c, ch)
    BY <2>2, <2>7, StaysChain
  <2> QED
    BY <1>2, <2>4, <2>6, <2>7, <2>8, <2>9 DEF IsMember, Members
<1> QED
  BY <1>1, <1>2

LEMMA RemoveMoves ==
    ASSUME NEW w, IsFrame(w), Kept(w), NEW c \in Conns, NEW ch \in Chans,
           NEW cs, NEW line, NEW x, x = RemoveMember(Deliver(w, Owner[ch], cs, line), ch, c)
    PROVE  Moved(w, x, c, ch) /\ Kept(x) /\ Stays(w, x, c, ch) /\ ~IsMember(x, c, ch)
<1>y. PICK y : y = Deliver(w, Owner[ch], cs, line)
  OBVIOUS
<1>0. Owner[ch] \in Shards
  BY OwnerType
<1>1. Calm(w, y)
  BY <1>0, <1>y, CalmDeliver
<1>2. Stays(w, y, c, ch) /\ Moved(w, y, c, ch) /\ IsFrame(y)
  BY <1>1, CalmStays
<1>3. Kept(y)
  BY <1>1, CalmKept
<1>e. PICK e : e = Without(y.members[ch], c)
  OBVIOUS
<1>4. x = MembersSet(y, ch, e)
  BY <1>y, <1>e DEF RemoveMember, MembersSet
<1>5. IsMembers(y.members[ch])
  BY <1>3 DEF Kept
<1>6. /\ IsMembers(e) /\ c \notin DOMAIN e
      /\ Alike(y.members[ch], e, c)
  BY <1>e, <1>5, WithoutMembers
<1>7. Moved(y, x, c, ch) /\ Kept(x) /\ Stays(y, x, c, ch) /\ x.members[ch] = e
  BY <1>2, <1>3, <1>4, <1>6, SetMemberStays
<1>8. Moved(w, x, c, ch)
  BY <1>2, <1>7, MovedChain
<1>9. Stays(w, x, c, ch)
  BY <1>2, <1>7, StaysChain
<1> QED
  BY <1>6, <1>7, <1>8, <1>9 DEF IsMember

LEMMA PartOnOwnerMoves ==
    ASSUME NEW w, IsFrame(w), Kept(w), NEW c \in Conns, NEW ch \in Chans, NEW nick,
           NEW j, j = PartOnOwner(w, c, nick, ch), NEW x, x = j.w
    PROVE  /\ Moved(w, x, c, ch) /\ Kept(x) /\ Stays(w, x, c, ch) /\ ~IsMember(x, c, ch)
           /\ j.result = "parted" <=> IsMember(w, c, ch)
           /\ j.result # "parted" => x = w
<1>1. CASE ~IsMember(w, c, ch)
  <2>1. x = w /\ j.result # "parted"
    BY <1>1 DEF PartOnOwner, IsMember, Members
  <2>2. Calm(w, w)
    BY CalmItself
  <2> QED
    BY <1>1, <2>1, <2>2, CalmStays
<1>2. CASE IsMember(w, c, ch)
  <2>1. /\ x = RemoveMember(Deliver(w, Owner[ch], Members(w, ch) \ {c}, LeftLine(nick, ch)), ch, c)
        /\ j.result = "parted"
    BY <1>2 DEF PartOnOwner, IsMember, Members
  <2> QED
    BY <1>2, <2>1, RemoveMoves
<1> QED
  BY <1>1, <1>2

-----------------------------------------------------------------------------
\* Steps of the core that move one session in one channel, or nobody.

LEMMA FrameNow ==
    ASSUME HoldInv(Now)
    PROVE  IsFrame(Now) /\ \A c \in Conns : session[c].on \in BOOLEAN
<1>1. IsWorld(Now) /\ Now.session = session
  BY NowFields DEF HoldInv
<1>2. \A c \in Conns : session[c] = [k \in SessionFields |-> session[c][k]]
                       /\ session[c].on \in BOOLEAN
  BY <1>1 DEF IsWorld, IsSession
<1>3. IsRec(Now) /\ session = [c \in Conns |-> session[c]] /\ IsMail(Now.mail)
  BY <1>1 DEF IsWorld
<1> QED
  BY <1>1, <1>2, <1>3 DEF IsFrame

LEMMA FrameStep ==
    ASSUME NEW x, IsFrame(x), Become(x)
    PROVE  Now' = x
BY BecomeNow DEF IsFrame

LEMMA PairStep ==
    ASSUME RecordInv(Now), LeaveInv(Now, asked), NEW c \in Conns, NEW ch \in Chans,
           NEW x, Become(x), Moved(Now, x, c, ch), PairOK(x, c, ch),
           IsAsked(asked'),
           \A d \in Conns, k \in Chans : ~(d = c /\ k = ch) => asked'[d][k] = asked[d][k],
           x.session[c].on /\ asked'[c][ch] = "out" => LeaveOK(x, c, ch)
    PROVE  RecordInv(Now') /\ LeaveInv(Now', asked')
<1>1. Now' = x
  BY FrameStep DEF Moved
<1>2. Kept(x) /\ OthersStay(Now, x, c, ch)
  BY DEF RecordInv, Moved
<1>3. ASSUME NEW d \in Conns, NEW k \in Chans
      PROVE  PairOK(x, d, k)
  <2>1. CASE d = c /\ k = ch
    BY <2>1
  <2>2. CASE ~(d = c /\ k = ch)
    <3>1. SamePair(Now, x, d, k) /\ PairOK(Now, d, k)
      BY <1>2, <2>2 DEF OthersStay, RecordInv
    <3> QED
      BY <3>1, SamePairOK
  <2> QED
    BY <2>1, <2>2
<1>4. ASSUME NEW d \in Conns, NEW k \in Chans, x.session[d].on, asked'[d][k] = "out"
      PROVE  LeaveOK(x, d, k)
  <2>1. CASE d = c /\ k = ch
    BY <1>4, <2>1
  <2>2. CASE ~(d = c /\ k = ch)
    <3>1. SamePair(Now, x, d, k) /\ SameMarks(Now, x, d, k) /\ asked[d][k] = "out"
      BY <1>2, <1>4, <2>2 DEF OthersStay
    <3>2. Now.session[d].on
      BY <1>4, <3>1 DEF SamePair
    <3>3. LeaveOK(Now, d, k)
      BY <3>1, <3>2 DEF LeaveInv
    <3> QED
      BY <3>1, <3>3, SameLeaveOK
  <2> QED
    BY <2>1, <2>2
<1> QED
  BY <1>1, <1>2, <1>3, <1>4 DEF RecordInv, LeaveInv

\* A step nobody asked for.
LEMMA PairKept ==
    ASSUME RecordInv(Now), LeaveInv(Now, asked), NEW c \in Conns, NEW ch \in Chans,
           NEW x, Become(x), Moved(Now, x, c, ch), PairOK(x, c, ch), asked' = asked,
           x.session[c].on => Now.session[c].on,
           x.session[c].on /\ LeaveOK(Now, c, ch) => LeaveOK(x, c, ch)
    PROVE  RecordInv(Now') /\ LeaveInv(Now', asked')
<1>1. IsAsked(asked')
  BY DEF LeaveInv
<1>2. \A d \in Conns, k \in Chans : ~(d = c /\ k = ch) => asked'[d][k] = asked[d][k]
  OBVIOUS
<1>3. x.session[c].on /\ asked'[c][ch] = "out" => LeaveOK(x, c, ch)
  BY DEF LeaveInv
<1> QED
  BY <1>1, <1>2, <1>3, PairStep

LEMMA CalmStep ==
    ASSUME RecordInv(Now), LeaveInv(Now, asked), NEW x, Become(x), Calm(Now, x), asked' = asked
    PROVE  RecordInv(Now') /\ LeaveInv(Now', asked')
<1>1. IsFrame(x) /\ (Kept(Now) => Kept(x))
  BY CalmMoves
<1>2. \A c \in Conns, ch \in Chans : SamePair(Now, x, c, ch) /\ SameMarks(Now, x, c, ch)
  BY CalmMoves
<1>3. Now' = x
  BY <1>1, FrameStep
<1>4. ASSUME NEW c \in Conns, NEW ch \in Chans
      PROVE  PairOK(x, c, ch)
  BY <1>2, SamePairOK DEF RecordInv
<1>5. ASSUME NEW c \in Conns, NEW ch \in Chans, x.session[c].on, asked[c][ch] = "out"
      PROVE  LeaveOK(x, c, ch)
  <2>1. SamePair(Now, x, c, ch) /\ SameMarks(Now, x, c, ch)
    BY <1>2
  <2>2. Now.session[c].on
    BY <1>5, <2>1 DEF SamePair
  <2>3. LeaveOK(Now, c, ch)
    BY <1>5, <2>2 DEF LeaveInv
  <2> QED
    BY <2>1, <2>3, SameLeaveOK
<1> QED
  BY <1>1, <1>3, <1>4, <1>5 DEF RecordInv, LeaveInv

\* A message that moves nobody is taken.
LEMMA CalmTaken ==
    ASSUME HoldInv(Now), Kept(Now), NEW s \in Shards, NEW t \in Shards, mail[s][t] # <<>>,
           NEW m, m = Msg(s, t), \A c, ch : Idle(m, c, ch), NEW x, x = Taken(s, t)
    PROVE  Calm(Now, x)
<1>0. IsFrame(Now) /\ Now.session = session /\ Now.members = members /\ Now.mail = mail
      /\ Now.memberships = memberships
  BY FrameNow, NowFields
<1>2. PICK c, ch : TRUE
  OBVIOUS
<1>3. /\ Kept(x) /\ IsFrame(x) /\ x.session = session
      /\ x.members = members /\ x.memberships = memberships
      /\ Dropped(mail[s][t], x.mail[s][t], m)
      /\ \A a, b \in Shards : ~(a = s /\ b = t) => x.mail[a][b] = mail[a][b]
  BY <1>0, TakenMoves
<1>4. ASSUME NEW a \in Shards, NEW b \in Shards, NEW d, NEW k
      PROVE  Like(mail[a][b], x.mail[a][b], d, k)
  <2>1. CASE a = s /\ b = t
    <3>1. Idle(m, d, k)
      OBVIOUS
    <3> QED
      BY <1>3, <2>1, <3>1, DroppedIdle
  <2>2. CASE ~(a = s /\ b = t)
    BY <1>3, <2>2, LikeItself
  <2> QED
    BY <2>1, <2>2
<1>5. CalmMail(Now, x)
  BY <1>0, <1>3, <1>4 DEF CalmMail, Kept
<1> QED
  BY <1>0, <1>3, <1>5 DEF Calm, SameSeat

LEMMA DeliveryRecords ==
    ASSUME HoldInv(Now), RecordInv(Now), LeaveInv(Now, asked), NEW s \in Shards, NEW t \in Shards,
           Delivery(s, t) \/ UserEventPart(s, t) \/ ChannelKickResult(s, t)
    PROVE  RecordInv(Now') /\ LeaveInv(Now', asked')
<1>m. PICK m : m = Msg(s, t)
  OBVIOUS
<1>v. PICK v : v = Taken(s, t)
  OBVIOUS
<1>0. mail[s][t] # <<>> /\ m.kind \in Dull /\ asked' = asked
  BY <1>m DEF Delivery, UserEventPart, ChannelKickResult, Next1, Msg, Dull, Still
<1>1. \A c, ch : Idle(m, c, ch)
  BY <1>0, DullIdle
<1>k. Kept(Now)
  BY DEF RecordInv
<1>2. Calm(Now, v)
  BY <1>0, <1>1, <1>k, <1>m, <1>v, CalmTaken
<1>3. IsFrame(v)
  BY <1>2 DEF Calm
<1>4. CASE Delivery(s, t)
  <2>x. PICK x : x = SendAll(v, m.conns, m.line)
    OBVIOUS
  <2>1. Calm(v, x)
    BY <1>3, <2>x, CalmSendAll
  <2>2. Calm(Now, x)
    BY <1>2, <2>1, CalmChain
  <2>3. Become(x)
    BY <1>4, <1>m, <1>v, <2>x DEF Delivery
  <2> QED
    BY <1>0, <2>2, <2>3, CalmStep
<1>5. CASE UserEventPart(s, t)
  <2>x. PICK x : x = DeliverPart(v, t, m.event, m.recipients)
    OBVIOUS
  <2>1. Calm(v, x)
    BY <1>3, <2>x, CalmDeliverPart
  <2>2. Calm(Now, x)
    BY <1>2, <2>1, CalmChain
  <2>3. Become(x)
    BY <1>5, <1>m, <1>v, <2>x DEF UserEventPart
  <2> QED
    BY <1>0, <2>2, <2>3, CalmStep
<1>6. CASE ChannelKickResult(s, t)
  <2>l. PICK lines : lines = IF m.result = "kicked" THEN <<LeftLine(m.nick, m.chan)>> ELSE <<>>
    OBVIOUS
  <2>x. PICK x : x = EmitDeferred(v, m.conn, lines)
    OBVIOUS
  <2>0. m.conn \in Conns
    <3>1. m.kind = "ChannelKickResult"
      BY <1>6, <1>m DEF ChannelKickResult, Next1, Msg
    <3>2. GoodMsg(sequence, t, m)
      BY <1>0, <1>m, HeadGood DEF HoldInv
    <3> QED
      BY <3>1, <3>2 DEF GoodMsg, HoldKinds
  <2>k. Kept(v)
    BY <1>2, <1>k, CalmKept
  <2>1. Calm(v, x)
    BY <1>3, <2>0, <2>k, <2>x, CalmEmit
  <2>2. Calm(Now, x)
    BY <1>2, <2>1, CalmChain
  <2>3. Become(x)
    BY <1>6, <1>m, <1>v, <2>l, <2>x DEF ChannelKickResult
  <2> QED
    BY <1>0, <2>2, <2>3, CalmStep
<1> QED
  BY <1>4, <1>5, <1>6

-----------------------------------------------------------------------------
\* A JOIN and a PART, on the owner's shard and back.

LEMMA AboutIdle ==
    ASSUME NEW m, m.kind \in Outward \cup Inward, NEW c, NEW ch, m.conn = c, m.chan = ch
    PROVE  \A d, k : ~(d = c /\ k = ch) => Idle(m, d, k)
BY DEF Outward, Inward, Idle, Moves, IsIn, IsOut, IsJoin, IsPart, IsRename, IsQuit, About

LEMMA NothingToRename ==
    ASSUME NEW q, NEW c, NEW ch, NoRenames(q, c, ch), NEW n
    PROVE  RenamesTo(q, c, ch, n)
BY DEF NoRenames, RenamesTo

\* What a message of each kind is to the session and the channel it is about.
LEMMA AboutKinds ==
    ASSUME NEW m, NEW c, NEW ch, m.conn = c, m.chan = ch
    PROVE  /\ m.kind = "ChannelJoin" =>
                 /\ IsJoin(m, c, ch) /\ ~IsPart(m, c, ch) /\ ~IsRename(m, c, ch)
                 /\ ~IsQuit(m, c, ch) /\ ~Moves(m, c, ch) /\ ~IsIn(m, c, ch)
           /\ m.kind = "ChannelPart" =>
                 /\ ~IsJoin(m, c, ch) /\ IsPart(m, c, ch) /\ ~IsRename(m, c, ch)
                 /\ ~IsQuit(m, c, ch) /\ ~Moves(m, c, ch) /\ ~IsIn(m, c, ch)
           /\ m.kind \in Inward =>
                 /\ ~IsJoin(m, c, ch) /\ ~IsPart(m, c, ch) /\ ~IsRename(m, c, ch)
                 /\ ~IsQuit(m, c, ch)
           /\ m.kind = "ChannelJoinResult" =>
                 /\ IsIn(m, c, ch) <=> m.result = "joined"
                 /\ Moves(m, c, ch) <=> m.result = "joined"
           /\ m.kind = "ChannelPartResult" =>
                 ~IsIn(m, c, ch) /\ (Moves(m, c, ch) <=> m.result = "parted")
           /\ m.kind = "SessionChannelRemoved" => ~IsIn(m, c, ch) /\ Moves(m, c, ch)
BY DEF Inward, Moves, IsIn, IsOut, IsJoin, IsPart, IsRename, IsQuit, About

LEMMA JoinedPair ==
    ASSUME NEW w, NEW x, NEW c, NEW ch, PairOK(w, c, ch), NEW m, IsJoin(m, c, ch),
           NEW q, Dropped(Requests(w, c, ch), q, m), Like(q, Requests(x, c, ch), c, ch),
           NEW a, Like(Answers(w, c, ch), a, c, ch), NEW r, Added(a, Answers(x, c, ch), r),
           IsIn(r, c, ch) <=> r.result = "joined", Moves(r, c, ch) <=> r.result = "joined",
           SameSeat(w.session[c], x.session[c]),
           r.result = "joined" =>
               ~IsMember(w, c, ch) /\ IsMember(x, c, ch) /\ x.members[ch][c].nick = m.nick,
           r.result # "joined" => x.members[ch] = w.members[ch]
    PROVE  PairOK(x, c, ch) /\ (LeaveOK(w, c, ch) => LeaveOK(x, c, ch))
<1>q. PICK q0, q2 : q0 = Requests(w, c, ch) /\ q2 = Requests(x, c, ch)
  OBVIOUS
<1>a. PICK a0, a2 : a0 = Answers(w, c, ch) /\ a2 = Answers(x, c, ch)
  OBVIOUS
<1>n. PICK n : n = w.session[c].nick
  OBVIOUS
<1>0. /\ Dropped(q0, q, m) /\ Like(q, q2, c, ch) /\ Like(a0, a, c, ch) /\ Added(a, a2, r)
  BY <1>q, <1>a
<1>k. ~IsPart(m, c, ch) /\ ~IsRename(m, c, ch) /\ ~IsQuit(m, c, ch)
  BY DEF IsJoin, IsPart, IsRename, IsQuit
<1>1. /\ ~NoJoins(q0, c, ch) /\ (NoRenames(q0, c, ch) <=> NoRenames(q, c, ch))
      /\ JoinsAs(q0, c, ch, n) => JoinsAs(q, c, ch, n) /\ (NoRenames(q, c, ch) => m.nick = n)
      /\ RenamesTo(q0, c, ch, n) => RenamesTo(q, c, ch, n)
      /\ RenamesFirst(q0, c, ch) => NoRenames(q, c, ch)
      /\ QuitLast(q0, c, ch) => QuitLast(q, c, ch)
      /\ PartLast(q0, c, ch) => PartLast(q, c, ch)
  BY <1>0, <1>k, DroppedView
<1>2. /\ NoRenames(q2, c, ch) <=> NoRenames(q, c, ch)
      /\ JoinsAs(q, c, ch, n) => JoinsAs(q2, c, ch, n)
      /\ RenamesTo(q, c, ch, n) => RenamesTo(q2, c, ch, n)
      /\ QuitLast(q, c, ch) => QuitLast(q2, c, ch)
      /\ PartLast(q, c, ch) => PartLast(q2, c, ch)
  BY <1>0 DEF Like
<1>3. /\ NoMoves(a2, c, ch) <=> NoMoves(a0, c, ch) /\ r.result # "joined"
      /\ EndsIn(a2, c, ch) <=> r.result = "joined" \/ EndsIn(a0, c, ch)
  <2>1. /\ NoMoves(a2, c, ch) <=> NoMoves(a, c, ch) /\ ~Moves(r, c, ch)
        /\ EndsIn(a2, c, ch) <=> IsIn(r, c, ch) \/ (~Moves(r, c, ch) /\ EndsIn(a, c, ch))
    BY <1>0, AddedView
  <2> QED
    BY <1>0, <2>1 DEF Like
<1>4. NoRenames(q, c, ch) => RenamesTo(q, c, ch, n)
  BY NothingToRename
<1>5. /\ x.session[c].nick = n /\ x.session[c].on = w.session[c].on
      /\ x.session[c].channels = w.session[c].channels
      /\ x.session[c].pending = w.session[c].pending
      /\ x.session[c].partOnJoin = w.session[c].partOnJoin
  BY <1>n DEF SameSeat
<1>6. RecordOK(w, c, ch) => RecordOK(x, c, ch)
  BY <1>3, <1>5, <1>a DEF RecordOK, IsMember
<1>7. NameOK(w, c, ch) => NameOK(x, c, ch)
  BY <1>1, <1>2, <1>4, <1>5, <1>n, <1>q DEF NameOK, IsMember
<1>8. GoneOK(w, c, ch) => GoneOK(x, c, ch)
  BY <1>1, <1>2, <1>q DEF GoneOK
<1>9. LeaveOK(w, c, ch) => LeaveOK(x, c, ch)
  BY <1>1, <1>2, <1>3, <1>5, <1>q, <1>a DEF LeaveOK, Leaving, IsMember
<1> QED
  BY <1>5, <1>6, <1>7, <1>8, <1>9 DEF PairOK

\* A request is between the session's home and the channel's owner.
Between(s, t, c, ch) ==
    /\ c \in Conns /\ ch \in Chans /\ s \in Shards /\ t \in Shards /\ s # t
    /\ s = Home[c] /\ t = Owner[ch]

LEMMA BetweenQueues ==
    ASSUME NEW s, NEW t, NEW c, NEW ch, Between(s, t, c, ch)
    PROVE  \A z : Requests(z, c, ch) = z.mail[s][t] /\ Answers(z, c, ch) = z.mail[t][s]
BY DEF Between, Requests, Answers

\* What is taken, handled by the owner and answered.
LEMMA AnsweredQueues ==
    ASSUME IsFrame(Now), Kept(Now), NEW s \in Shards, NEW t \in Shards, mail[s][t] # <<>>,
           NEW m, m = Msg(s, t), NEW c, NEW ch, Between(s, t, c, ch),
           \A d \in Conns, k \in Chans : ~(d = c /\ k = ch) => Idle(m, d, k),
           NEW v, v = Taken(s, t), NEW y, Moved(v, y, c, ch), Stays(v, y, c, ch),
           NEW r, Placed(y.session, t, s, r),
           \A d \in Conns, k \in Chans : ~(d = c /\ k = ch) => Idle(r, d, k),
           NEW x, x = Route(y, t, s, r)
    PROVE  /\ Moved(Now, x, c, ch)
           /\ Dropped(Requests(Now, c, ch), v.mail[s][t], m)
           /\ Like(v.mail[s][t], Requests(x, c, ch), c, ch)
           /\ Like(Answers(Now, c, ch), y.mail[t][s], c, ch)
           /\ Added(y.mail[t][s], Answers(x, c, ch), r)
           /\ SameSeat(Now.session[c], x.session[c]) /\ v.members = members
           /\ x.members = y.members
<1>0. Now.session = session /\ Now.members = members /\ Now.mail = mail
  BY NowFields
<1>1. \A z : Requests(z, c, ch) = z.mail[s][t] /\ Answers(z, c, ch) = z.mail[t][s]
  BY BetweenQueues
<1>2. ~(s = t)
  BY DEF Between
<1>4. /\ Moved(Now, v, c, ch) /\ v.session = session /\ v.members = members
      /\ Dropped(mail[s][t], v.mail[s][t], m)
      /\ \A a, b \in Shards : ~(a = s /\ b = t) => v.mail[a][b] = mail[a][b]
  BY TakenMoves
<1>a. IsFrame(y)
  BY DEF Moved
<1>b. /\ SameSeat(v.session[c], y.session[c])
      /\ Like(Requests(v, c, ch), Requests(y, c, ch), c, ch)
      /\ Like(Answers(v, c, ch), Answers(y, c, ch), c, ch)
  BY DEF Stays
<1>5. Like(v.mail[s][t], y.mail[s][t], c, ch) /\ Like(v.mail[t][s], y.mail[t][s], c, ch)
  BY <1>1, <1>b
<1>8. /\ Moved(y, x, c, ch) /\ x.session = y.session /\ x.members = y.members
      /\ Added(y.mail[t][s], x.mail[t][s], r)
      /\ \A a, b \in Shards : ~(a = t /\ b = s) => x.mail[a][b] = y.mail[a][b]
  BY <1>a, RouteMoves
<1>9. Moved(v, x, c, ch)
  BY <1>8, MovedChain
<1>10. Moved(Now, x, c, ch)
  BY <1>4, <1>9, MovedChain
<1>11. x.mail[s][t] = y.mail[s][t] /\ v.mail[t][s] = mail[t][s]
  BY <1>2, <1>4, <1>8
<1>12. /\ Requests(Now, c, ch) = mail[s][t] /\ Requests(x, c, ch) = y.mail[s][t]
       /\ Answers(Now, c, ch) = v.mail[t][s] /\ Answers(x, c, ch) = x.mail[t][s]
  BY <1>0, <1>1, <1>11
<1>13. SameSeat(Now.session[c], x.session[c])
  BY <1>0, <1>4, <1>8, <1>b
<1> QED
  BY <1>4, <1>5, <1>8, <1>10, <1>12, <1>13

LEMMA RequestBetween ==
    ASSUME IsFrame(Now), Kept(Now), NEW s \in Shards, NEW t \in Shards, mail[s][t] # <<>>,
           NEW m, m = Msg(s, t), m.kind \in Outward \cup Inward, NEW c, c = m.conn, NEW ch, ch = m.chan
    PROVE  /\ m.kind \in Outward => Between(s, t, c, ch)
           /\ m.kind \in Inward => Between(t, s, c, ch)
           /\ c \in Conns /\ ch \in Chans
           /\ \A d \in Conns, k \in Chans : ~(d = c /\ k = ch) => Idle(m, d, k)
<1>1. Placed(session, s, t, m)
  BY HeadPlaced
<1>2. \A d \in Conns, k \in Chans : ~(d = c /\ k = ch) => Idle(m, d, k)
  BY AboutIdle
<1> QED
  BY <1>1, <1>2 DEF Placed, Between

LEMMA AnswerPlaced ==
    ASSUME NEW s, NEW t, NEW c, NEW ch, Between(s, t, c, ch), NEW r, r.conn = c, r.chan = ch
    PROVE  /\ r.kind \in Inward => \A se : Placed(se, t, s, r)
           /\ r.kind \in Outward => \A se : Placed(se, s, t, r)
           /\ r.kind \in Outward \cup Inward =>
                  \A d \in Conns, k \in Chans : ~(d = c /\ k = ch) => Idle(r, d, k)
<1>1. r.kind \in Inward => \A se : Placed(se, t, s, r)
  BY DEF Between, Placed, Inward, Outward, ReportKinds
<1>2. r.kind \in Outward => \A se : Placed(se, s, t, r)
  BY DEF Between, Placed, Inward, Outward, ReportKinds
<1> QED
  BY <1>1, <1>2, AboutIdle

LEMMA ChannelJoinRecords ==
    ASSUME HoldInv(Now), RecordInv(Now), LeaveInv(Now, asked), NEW s \in Shards, NEW t \in Shards,
           ChannelJoin(s, t)
    PROVE  RecordInv(Now') /\ LeaveInv(Now', asked')
<1>m. PICK m : m = Msg(s, t)
  OBVIOUS
<1>v. PICK v : v = Taken(s, t)
  OBVIOUS
<1>c. PICK c, ch : c = m.conn /\ ch = m.chan
  OBVIOUS
<1>0. mail[s][t] # <<>> /\ m.kind = "ChannelJoin" /\ asked' = asked
  BY <1>m DEF ChannelJoin, Next1, Msg
<1>1. PICK admit \in BOOLEAN :
        LET done == JoinOnOwner(v, m.conn, m.nick, m.chan, admit)
        IN  Become(Route(done.w, t, s,
                [kind |-> "ChannelJoinResult", conn |-> m.conn, chan |-> m.chan,
                 result |-> done.result, names |-> done.names]))
  BY <1>m, <1>v DEF ChannelJoin
<1>d. PICK done : done = JoinOnOwner(v, c, m.nick, ch, admit)
  OBVIOUS
<1>y. PICK y : y = done.w
  OBVIOUS
<1>r. PICK r : r = [kind |-> "ChannelJoinResult", conn |-> c, chan |-> ch,
                    result |-> done.result, names |-> done.names]
  OBVIOUS
<1>x. PICK x : x = Route(y, t, s, r)
  OBVIOUS
<1>2. Become(x)
  BY <1>1, <1>c, <1>d, <1>y, <1>r, <1>x
<1>f. IsFrame(Now) /\ Kept(Now) /\ Now.members = members /\ Now.session = session
  BY FrameNow, NowFields DEF RecordInv
<1>3. m.kind \in Outward /\ r.kind \in Inward /\ r.conn = c /\ r.chan = ch
      /\ r.kind = "ChannelJoinResult" /\ r.result = done.result
  BY <1>0, <1>r DEF Outward, Inward
<1>4. /\ Between(s, t, c, ch) /\ c \in Conns /\ ch \in Chans
      /\ \A d \in Conns, k \in Chans : ~(d = c /\ k = ch) => Idle(m, d, k)
  BY <1>0, <1>3, <1>c, <1>f, <1>m, RequestBetween
<1>5. IsFrame(v) /\ Kept(v)
  <2>1. \A d \in Conns, k \in Chans : ~(d = c /\ k = ch) => Idle(m, d, k)
    BY <1>4
  <2> QED
    BY <1>0, <1>f, <1>m, <1>v, <2>1, TakenMoves
<1>6. /\ Moved(v, y, c, ch) /\ Stays(v, y, c, ch)
      /\ IF done.result = "joined"
         THEN ~IsMember(v, c, ch) /\ IsMember(y, c, ch) /\ y.members[ch][c].nick = m.nick
         ELSE y = v
  BY <1>4, <1>5, <1>d, <1>y, JoinOnOwnerMoves
<1>7. /\ Moved(Now, x, c, ch)
      /\ Dropped(Requests(Now, c, ch), v.mail[s][t], m)
      /\ Like(v.mail[s][t], Requests(x, c, ch), c, ch)
      /\ Like(Answers(Now, c, ch), y.mail[t][s], c, ch)
      /\ Added(y.mail[t][s], Answers(x, c, ch), r)
      /\ SameSeat(Now.session[c], x.session[c]) /\ v.members = members
      /\ x.members = y.members
  <2>1. Moved(v, y, c, ch) /\ Stays(v, y, c, ch)
    BY <1>6
  <2>2. Placed(y.session, t, s, r)
        /\ \A d \in Conns, k \in Chans : ~(d = c /\ k = ch) => Idle(r, d, k)
    BY <1>3, <1>4, AnswerPlaced
  <2>3. mail[s][t] # <<>> /\ IsFrame(Now) /\ Kept(Now)
    BY <1>0, <1>f
  <2>4. /\ Between(s, t, c, ch)
        /\ \A d \in Conns, k \in Chans : ~(d = c /\ k = ch) => Idle(m, d, k)
    BY <1>4
  <2> QED
    BY <1>m, <1>v, <1>x, <2>1, <2>2, <2>3, <2>4, AnsweredQueues
<1>8. r.result = "joined" =>
          ~IsMember(Now, c, ch) /\ IsMember(x, c, ch) /\ x.members[ch][c].nick = m.nick
  BY <1>3, <1>6, <1>7, <1>f DEF IsMember
<1>9. r.result # "joined" => x.members[ch] = Now.members[ch]
  BY <1>3, <1>6, <1>7, <1>f
<1>10. IsJoin(m, c, ch) /\ (IsIn(r, c, ch) <=> r.result = "joined")
       /\ (Moves(r, c, ch) <=> r.result = "joined")
  BY <1>0, <1>3, <1>c, AboutKinds
<1>11. PairOK(Now, c, ch)
  BY <1>4 DEF RecordInv
<1>12. PairOK(x, c, ch) /\ (LeaveOK(Now, c, ch) => LeaveOK(x, c, ch))
  BY <1>7, <1>8, <1>9, <1>10, <1>11, JoinedPair
<1>13. x.session[c].on => Now.session[c].on
  BY <1>7 DEF SameSeat
<1> QED
  BY <1>0, <1>2, <1>4, <1>7, <1>12, <1>13, PairKept

LEMMA PartedPair ==
    ASSUME NEW w, NEW x, NEW c, NEW ch, PairOK(w, c, ch), NEW m, IsPart(m, c, ch),
           NEW q, Dropped(Requests(w, c, ch), q, m), Like(q, Requests(x, c, ch), c, ch),
           NEW a, Like(Answers(w, c, ch), a, c, ch), NEW r, Added(a, Answers(x, c, ch), r),
           ~IsIn(r, c, ch), Moves(r, c, ch) <=> r.result = "parted",
           SameSeat(w.session[c], x.session[c]),
           r.result = "parted" <=> IsMember(w, c, ch), ~IsMember(x, c, ch)
    PROVE  PairOK(x, c, ch) /\ (LeaveOK(w, c, ch) => LeaveOK(x, c, ch))
<1>q. PICK q0, q2 : q0 = Requests(w, c, ch) /\ q2 = Requests(x, c, ch)
  OBVIOUS
<1>a. PICK a0, a2 : a0 = Answers(w, c, ch) /\ a2 = Answers(x, c, ch)
  OBVIOUS
<1>n. PICK n : n = w.session[c].nick
  OBVIOUS
<1>0. /\ Dropped(q0, q, m) /\ Like(q, q2, c, ch) /\ Like(a0, a, c, ch) /\ Added(a, a2, r)
  BY <1>q, <1>a
<1>k. ~IsJoin(m, c, ch) /\ ~IsRename(m, c, ch) /\ ~IsQuit(m, c, ch)
  BY DEF IsJoin, IsPart, IsRename, IsQuit
<1>1. /\ NoJoins(q0, c, ch) <=> NoJoins(q, c, ch)
      /\ NoRenames(q0, c, ch) <=> NoRenames(q, c, ch)
      /\ JoinsAs(q0, c, ch, n) => JoinsAs(q, c, ch, n)
      /\ RenamesTo(q0, c, ch, n) => RenamesTo(q, c, ch, n)
      /\ RenamesFirst(q0, c, ch) => RenamesFirst(q, c, ch)
      /\ QuitLast(q0, c, ch) => QuitLast(q, c, ch)
      /\ PartLast(q0, c, ch) => NoJoins(q, c, ch) \/ PartLast(q, c, ch)
  BY <1>0, <1>k, DroppedView
<1>2. /\ NoJoins(q2, c, ch) <=> NoJoins(q, c, ch)
      /\ JoinsAs(q, c, ch, n) => JoinsAs(q2, c, ch, n)
      /\ RenamesTo(q, c, ch, n) => RenamesTo(q2, c, ch, n)
      /\ RenamesFirst(q, c, ch) => RenamesFirst(q2, c, ch)
      /\ QuitLast(q, c, ch) => QuitLast(q2, c, ch)
      /\ PartLast(q, c, ch) => PartLast(q2, c, ch)
  BY <1>0 DEF Like
<1>3. /\ NoMoves(a2, c, ch) <=> NoMoves(a0, c, ch) /\ r.result # "parted"
      /\ EndsIn(a2, c, ch) <=> r.result # "parted" /\ EndsIn(a0, c, ch)
  <2>1. /\ NoMoves(a2, c, ch) <=> NoMoves(a, c, ch) /\ ~Moves(r, c, ch)
        /\ EndsIn(a2, c, ch) <=> IsIn(r, c, ch) \/ (~Moves(r, c, ch) /\ EndsIn(a, c, ch))
    BY <1>0, AddedView
  <2> QED
    BY <1>0, <2>1 DEF Like
<1>5. /\ x.session[c].nick = n /\ x.session[c].on = w.session[c].on
      /\ x.session[c].channels = w.session[c].channels
      /\ x.session[c].pending = w.session[c].pending
      /\ x.session[c].partOnJoin = w.session[c].partOnJoin
  BY <1>n DEF SameSeat
<1>6. RecordOK(w, c, ch) => RecordOK(x, c, ch)
  BY <1>3, <1>5, <1>a DEF RecordOK
<1>7. NameOK(w, c, ch) => NameOK(x, c, ch)
  BY <1>1, <1>2, <1>5, <1>n, <1>q DEF NameOK
<1>8. GoneOK(w, c, ch) => GoneOK(x, c, ch)
  BY <1>1, <1>2, <1>q DEF GoneOK
<1>9. LeaveOK(w, c, ch) => LeaveOK(x, c, ch)
  BY <1>1, <1>2, <1>5, <1>q DEF LeaveOK, Leaving
<1> QED
  BY <1>5, <1>6, <1>7, <1>8, <1>9 DEF PairOK

LEMMA ChannelPartRecords ==
    ASSUME HoldInv(Now), RecordInv(Now), LeaveInv(Now, asked), NEW s \in Shards, NEW t \in Shards,
           ChannelPart(s, t)
    PROVE  RecordInv(Now') /\ LeaveInv(Now', asked')
<1>m. PICK m : m = Msg(s, t)
  OBVIOUS
<1>v. PICK v : v = Taken(s, t)
  OBVIOUS
<1>c. PICK c, ch : c = m.conn /\ ch = m.chan
  OBVIOUS
<1>0. mail[s][t] # <<>> /\ m.kind = "ChannelPart" /\ asked' = asked
  BY <1>m DEF ChannelPart, Next1, Msg, Still
<1>d. PICK done : done = PartOnOwner(v, c, m.nick, ch)
  OBVIOUS
<1>y. PICK y : y = done.w
  OBVIOUS
<1>r. PICK r : r = [kind |-> "ChannelPartResult", conn |-> c, nick |-> m.nick, chan |-> ch,
                    result |-> done.result]
  OBVIOUS
<1>x. PICK x : x = Route(y, t, s, r)
  OBVIOUS
<1>2. Become(x)
  BY <1>c, <1>d, <1>m, <1>r, <1>v, <1>x, <1>y DEF ChannelPart
<1>f. IsFrame(Now) /\ Kept(Now) /\ Now.members = members /\ Now.session = session
  BY FrameNow, NowFields DEF RecordInv
<1>3. m.kind \in Outward /\ r.kind \in Inward /\ r.conn = c /\ r.chan = ch
      /\ r.kind = "ChannelPartResult" /\ r.result = done.result
  BY <1>0, <1>r DEF Outward, Inward
<1>4. /\ Between(s, t, c, ch) /\ c \in Conns /\ ch \in Chans
      /\ \A d \in Conns, k \in Chans : ~(d = c /\ k = ch) => Idle(m, d, k)
  BY <1>0, <1>3, <1>c, <1>f, <1>m, RequestBetween
<1>5. IsFrame(v) /\ Kept(v)
  <2>1. \A d \in Conns, k \in Chans : ~(d = c /\ k = ch) => Idle(m, d, k)
    BY <1>4
  <2> QED
    BY <1>0, <1>f, <1>m, <1>v, <2>1, TakenMoves
<1>6. /\ Moved(v, y, c, ch) /\ Stays(v, y, c, ch) /\ ~IsMember(y, c, ch)
      /\ done.result = "parted" <=> IsMember(v, c, ch)
  BY <1>4, <1>5, <1>d, <1>y, PartOnOwnerMoves
<1>7. /\ Moved(Now, x, c, ch)
      /\ Dropped(Requests(Now, c, ch), v.mail[s][t], m)
      /\ Like(v.mail[s][t], Requests(x, c, ch), c, ch)
      /\ Like(Answers(Now, c, ch), y.mail[t][s], c, ch)
      /\ Added(y.mail[t][s], Answers(x, c, ch), r)
      /\ SameSeat(Now.session[c], x.session[c]) /\ v.members = members
      /\ x.members = y.members
  <2>1. Moved(v, y, c, ch) /\ Stays(v, y, c, ch)
    BY <1>6
  <2>2. Placed(y.session, t, s, r)
        /\ \A d \in Conns, k \in Chans : ~(d = c /\ k = ch) => Idle(r, d, k)
    BY <1>3, <1>4, AnswerPlaced
  <2>3. mail[s][t] # <<>> /\ IsFrame(Now) /\ Kept(Now)
    BY <1>0, <1>f
  <2>4. /\ Between(s, t, c, ch)
        /\ \A d \in Conns, k \in Chans : ~(d = c /\ k = ch) => Idle(m, d, k)
    BY <1>4
  <2> QED
    BY <1>m, <1>v, <1>x, <2>1, <2>2, <2>3, <2>4, AnsweredQueues
<1>8. (r.result = "parted" <=> IsMember(Now, c, ch)) /\ ~IsMember(x, c, ch)
  BY <1>3, <1>6, <1>7, <1>f DEF IsMember
<1>10. IsPart(m, c, ch) /\ ~IsIn(r, c, ch) /\ (Moves(r, c, ch) <=> r.result = "parted")
  BY <1>0, <1>3, <1>c, AboutKinds
<1>11. PairOK(Now, c, ch)
  BY <1>4 DEF RecordInv
<1>12. PairOK(x, c, ch) /\ (LeaveOK(Now, c, ch) => LeaveOK(x, c, ch))
  BY <1>7, <1>8, <1>10, <1>11, PartedPair
<1>13. x.session[c].on => Now.session[c].on
  BY <1>7 DEF SameSeat
<1> QED
  BY <1>0, <1>2, <1>4, <1>7, <1>12, <1>13, PairKept

\* An answer that puts the session out is taken, and recorded.
LEMMA RemovedPair ==
    ASSUME NEW w, NEW x, NEW c, NEW ch, PairOK(w, c, ch), NEW m, Moves(m, c, ch), ~IsIn(m, c, ch),
           NEW a, Dropped(Answers(w, c, ch), a, m), Like(a, Answers(x, c, ch), c, ch),
           Like(Requests(w, c, ch), Requests(x, c, ch), c, ch),
           x.members = w.members,
           x.session[c].on = w.session[c].on, x.session[c].nick = w.session[c].nick,
           x.session[c].channels = w.session[c].channels \ {ch},
           x.session[c].pending = w.session[c].pending,
           x.session[c].partOnJoin = w.session[c].partOnJoin
    PROVE  PairOK(x, c, ch) /\ (LeaveOK(w, c, ch) => LeaveOK(x, c, ch))
<1>q. PICK q0, q2 : q0 = Requests(w, c, ch) /\ q2 = Requests(x, c, ch)
  OBVIOUS
<1>a. PICK a0, a2 : a0 = Answers(w, c, ch) /\ a2 = Answers(x, c, ch)
  OBVIOUS
<1>0. /\ Dropped(a0, a, m) /\ Like(a, a2, c, ch) /\ Like(q0, q2, c, ch)
  BY <1>q, <1>a
<1>1. /\ ~NoMoves(a0, c, ch)
      /\ NoMoves(a, c, ch) => ~EndsIn(a0, c, ch)
      /\ ~NoMoves(a, c, ch) => (EndsIn(a, c, ch) <=> EndsIn(a0, c, ch))
  BY <1>0, DroppedView
<1>2. /\ NoMoves(a2, c, ch) <=> NoMoves(a, c, ch)
      /\ EndsIn(a2, c, ch) <=> EndsIn(a, c, ch)
  BY <1>0 DEF Like
<1>3. IsMember(x, c, ch) <=> IsMember(w, c, ch)
  BY DEF IsMember
<1>6. RecordOK(w, c, ch) => RecordOK(x, c, ch)
  BY <1>1, <1>2, <1>3, <1>a DEF RecordOK
<1>7. NameOK(w, c, ch) => NameOK(x, c, ch)
  BY <1>0, <1>3, <1>q DEF NameOK, Like
<1>8. GoneOK(w, c, ch) => GoneOK(x, c, ch)
  BY <1>0, <1>3, <1>q DEF GoneOK, Like
<1>9. LeaveOK(w, c, ch) => LeaveOK(x, c, ch)
  <2>1. Leaving(w, c, ch) => Leaving(x, c, ch)
    BY <1>0, <1>3, <1>q DEF Leaving, Like
  <2>2. (IsMember(w, c, ch) => EndsIn(a0, c, ch)) => (IsMember(x, c, ch) => EndsIn(a2, c, ch))
    BY <1>1, <1>2, <1>3
  <2> QED
    BY <1>a, <2>1, <2>2 DEF LeaveOK
<1> QED
  BY <1>6, <1>7, <1>8, <1>9 DEF PairOK

\* What is taken and followed by steps that move nobody.
LEMMA AnswerTaken ==
    ASSUME IsFrame(Now), Kept(Now), NEW s \in Shards, NEW t \in Shards, mail[s][t] # <<>>,
           NEW m, m = Msg(s, t), NEW c, NEW ch, Between(t, s, c, ch),
           \A d \in Conns, k \in Chans : ~(d = c /\ k = ch) => Idle(m, d, k),
           NEW v, v = Taken(s, t), NEW y, Calm(v, y)
    PROVE  /\ Moved(Now, y, c, ch) /\ IsFrame(y) /\ Kept(y)
           /\ Dropped(Answers(Now, c, ch), v.mail[s][t], m)
           /\ Like(v.mail[s][t], Answers(y, c, ch), c, ch)
           /\ Like(Requests(Now, c, ch), Requests(y, c, ch), c, ch)
           /\ SameSeat(Now.session[c], y.session[c]) /\ y.members = Now.members
<1>0. Now.session = session /\ Now.members = members /\ Now.mail = mail
  BY NowFields
<1>1. \A z : Requests(z, c, ch) = z.mail[t][s] /\ Answers(z, c, ch) = z.mail[s][t]
  BY BetweenQueues
<1>2. ~(s = t) /\ c \in Conns /\ ch \in Chans
  BY DEF Between
<1>4. /\ Moved(Now, v, c, ch) /\ v.session = session /\ v.members = members /\ Kept(v)
      /\ Dropped(mail[s][t], v.mail[s][t], m)
      /\ \A a, b \in Shards : ~(a = s /\ b = t) => v.mail[a][b] = mail[a][b]
  BY TakenMoves
<1>5. Stays(v, y, c, ch) /\ y.members = v.members /\ Moved(v, y, c, ch) /\ IsFrame(y)
  BY <1>2, CalmStays
<1>6. Kept(y)
  BY <1>4, CalmKept
<1>7. Moved(Now, y, c, ch)
  BY <1>4, <1>5, MovedChain
<1>8. /\ Like(Answers(v, c, ch), Answers(y, c, ch), c, ch)
      /\ Like(Requests(v, c, ch), Requests(y, c, ch), c, ch)
      /\ SameSeat(v.session[c], y.session[c])
  BY <1>5 DEF Stays
<1>9. /\ Answers(v, c, ch) = v.mail[s][t] /\ Answers(Now, c, ch) = mail[s][t]
      /\ Requests(v, c, ch) = Requests(Now, c, ch)
  BY <1>0, <1>1, <1>2, <1>4
<1> QED
  BY <1>0, <1>4, <1>5, <1>6, <1>7, <1>8, <1>9

LEMMA RemovedStep ==
    ASSUME HoldInv(Now), RecordInv(Now), LeaveInv(Now, asked), NEW s \in Shards, NEW t \in Shards,
           mail[s][t] # <<>>, NEW m, m = Msg(s, t), m.kind \in Inward,
           NEW c, c = m.conn, NEW ch, ch = m.chan, Moves(m, c, ch), ~IsIn(m, c, ch),
           NEW v, v = Taken(s, t), NEW y, Calm(v, y),
           NEW x, x = RecordPart(y, c, ch, "parted"), Become(x), asked' = asked
    PROVE  RecordInv(Now') /\ LeaveInv(Now', asked')
<1>f. IsFrame(Now) /\ Kept(Now)
  BY FrameNow DEF RecordInv
<1>1. /\ Between(t, s, c, ch) /\ c \in Conns /\ ch \in Chans
      /\ \A d \in Conns, k \in Chans : ~(d = c /\ k = ch) => Idle(m, d, k)
  BY <1>f, RequestBetween
<1>2. /\ Moved(Now, y, c, ch) /\ IsFrame(y) /\ Kept(y)
      /\ Dropped(Answers(Now, c, ch), v.mail[s][t], m)
      /\ Like(v.mail[s][t], Answers(y, c, ch), c, ch)
      /\ Like(Requests(Now, c, ch), Requests(y, c, ch), c, ch)
      /\ SameSeat(Now.session[c], y.session[c]) /\ y.members = Now.members
  <2>1. /\ Between(t, s, c, ch)
        /\ \A d \in Conns, k \in Chans : ~(d = c /\ k = ch) => Idle(m, d, k)
    BY <1>1
  <2> QED
    BY <1>f, <2>1, AnswerTaken
<1>3. /\ Moved(y, x, c, ch) /\ x.mail = y.mail /\ x.members = y.members
      /\ x.session[c].on = y.session[c].on /\ x.session[c].nick = y.session[c].nick
      /\ x.session[c].channels = y.session[c].channels \ {ch}
      /\ x.session[c].pending = y.session[c].pending
      /\ x.session[c].partOnJoin = y.session[c].partOnJoin
  BY <1>1, <1>2, RecordPartMoves
<1>4. Moved(Now, x, c, ch)
  BY <1>2, <1>3, MovedChain
<1>5. /\ Like(v.mail[s][t], Answers(x, c, ch), c, ch)
      /\ Like(Requests(Now, c, ch), Requests(x, c, ch), c, ch)
  <2>1. Answers(x, c, ch) = Answers(y, c, ch) /\ Requests(x, c, ch) = Requests(y, c, ch)
    BY <1>3 DEF Answers, Requests
  <2> QED
    BY <1>2, <2>1
<1>6. /\ x.session[c].on = Now.session[c].on /\ x.session[c].nick = Now.session[c].nick
      /\ x.session[c].channels = Now.session[c].channels \ {ch}
      /\ x.session[c].pending = Now.session[c].pending
      /\ x.session[c].partOnJoin = Now.session[c].partOnJoin
  BY <1>2, <1>3 DEF SameSeat
<1>7. PairOK(Now, c, ch)
  BY <1>1 DEF RecordInv
<1>8. x.members = Now.members /\ Dropped(Answers(Now, c, ch), v.mail[s][t], m)
  BY <1>2, <1>3
<1>9. PairOK(x, c, ch) /\ (LeaveOK(Now, c, ch) => LeaveOK(x, c, ch))
  BY <1>5, <1>6, <1>7, <1>8, RemovedPair
<1>10. x.session[c].on => Now.session[c].on
  BY <1>6
<1> QED
  BY <1>1, <1>4, <1>9, <1>10, PairKept

LEMMA SessionChannelRemovedRecords ==
    ASSUME HoldInv(Now), RecordInv(Now), LeaveInv(Now, asked), NEW s \in Shards, NEW t \in Shards,
           SessionChannelRemoved(s, t)
    PROVE  RecordInv(Now') /\ LeaveInv(Now', asked')
<1>m. PICK m : m = Msg(s, t)
  OBVIOUS
<1>v. PICK v : v = Taken(s, t)
  OBVIOUS
<1>c. PICK c, ch : c = m.conn /\ ch = m.chan
  OBVIOUS
<1>0. mail[s][t] # <<>> /\ m.kind = "SessionChannelRemoved" /\ asked' = asked
  BY <1>m DEF SessionChannelRemoved, Next1, Msg, Still
<1>x. PICK x : x = RecordPart(v, c, ch, "parted")
  OBVIOUS
<1>1. Become(x)
  BY <1>c, <1>m, <1>v, <1>x DEF SessionChannelRemoved
<1>2. m.kind \in Inward /\ Moves(m, c, ch) /\ ~IsIn(m, c, ch)
  BY <1>0, <1>c, AboutKinds DEF Inward
<1>f. IsFrame(Now) /\ Kept(Now)
  BY FrameNow DEF RecordInv
<1>3. \A d \in Conns, k \in Chans : ~(d = c /\ k = ch) => Idle(m, d, k)
  BY <1>0, <1>2, <1>c, <1>f, <1>m, RequestBetween
<1>4. IsFrame(v)
  BY <1>0, <1>3, <1>f, <1>m, <1>v, TakenMoves
<1>5. Calm(v, v)
  BY <1>4, CalmItself
<1> QED
  BY <1>0, <1>1, <1>2, <1>5, <1>c, <1>m, <1>v, <1>x, RemovedStep

LEMMA ChannelPartResultRecords ==
    ASSUME HoldInv(Now), RecordInv(Now), LeaveInv(Now, asked), NEW s \in Shards, NEW t \in Shards,
           ChannelPartResult(s, t)
    PROVE  RecordInv(Now') /\ LeaveInv(Now', asked')
<1>m. PICK m : m = Msg(s, t)
  OBVIOUS
<1>v. PICK v : v = Taken(s, t)
  OBVIOUS
<1>c. PICK c, ch : c = m.conn /\ ch = m.chan
  OBVIOUS
<1>0. mail[s][t] # <<>> /\ m.kind = "ChannelPartResult" /\ asked' = asked
  BY <1>m DEF ChannelPartResult, Next1, Msg, Still
<1>l. PICK lines : lines = PartLines(m.result, m.nick, ch)
  OBVIOUS
<1>y. PICK y : y = EmitDeferred(v, c, lines)
  OBVIOUS
<1>x. PICK x : x = RecordPart(y, c, ch, m.result)
  OBVIOUS
<1>1. Become(x)
  BY <1>c, <1>l, <1>m, <1>v, <1>x, <1>y DEF ChannelPartResult
<1>2. m.kind \in Inward /\ ~IsIn(m, c, ch) /\ (Moves(m, c, ch) <=> m.result = "parted")
  BY <1>0, <1>c, AboutKinds DEF Inward
<1>f. IsFrame(Now) /\ Kept(Now)
  BY FrameNow DEF RecordInv
<1>3. /\ c \in Conns
      /\ \A d \in Conns, k \in Chans : ~(d = c /\ k = ch) => Idle(m, d, k)
  BY <1>0, <1>2, <1>c, <1>f, <1>m, RequestBetween
<1>4. IsFrame(v) /\ Kept(v)
  <2>1. \A d \in Conns, k \in Chans : ~(d = c /\ k = ch) => Idle(m, d, k)
    BY <1>3
  <2> QED
    BY <1>0, <1>f, <1>m, <1>v, <2>1, TakenMoves
<1>5. Calm(v, y)
  BY <1>3, <1>4, <1>y, CalmEmit
<1>6. CASE m.result = "parted"
  <2>1. x = RecordPart(y, c, ch, "parted") /\ Moves(m, c, ch) /\ ~IsIn(m, c, ch)
    BY <1>2, <1>6, <1>x
  <2> QED
    BY <1>0, <1>1, <1>2, <1>5, <1>c, <1>m, <1>v, <2>1, RemovedStep
<1>7. CASE m.result # "parted"
  <2>1. x = y
    BY <1>7, <1>x DEF RecordPart
  <2>2. \A d, k : Idle(m, d, k)
    BY <1>0, <1>7 DEF Idle, Moves, IsIn, IsOut, IsJoin, IsPart, IsRename, IsQuit
  <2>3. Calm(Now, v)
    BY <1>0, <1>f, <1>m, <1>v, <2>2, CalmTaken
  <2>4. Calm(Now, x)
    BY <1>5, <2>1, <2>3, CalmChain
  <2> QED
    BY <1>0, <1>1, <2>4, CalmStep
<1> QED
  BY <1>6, <1>7

-----------------------------------------------------------------------------
\* PART.

\* A session and a channel of one shard agree at once.
LEMMA LocalPair ==
    ASSUME NEW w, AllPlaced(w), NEW c \in Conns, NEW ch \in Chans, Owner[ch] = Home[c],
           w.session[c].on = TRUE
    PROVE  PairOK(w, c, ch) <=>
               /\ IsMember(w, c, ch) <=> ch \in w.session[c].channels
               /\ IsMember(w, c, ch) => w.members[ch][c].nick = w.session[c].nick
<1>q. PICK q : q = Requests(w, c, ch)
  OBVIOUS
<1>1. /\ Answers(w, c, ch) = q /\ NoMoves(q, c, ch) /\ NoRenames(q, c, ch)
      /\ \A n : JoinsAs(q, c, ch, n) /\ RenamesTo(q, c, ch, n)
  BY <1>q, LocalQuiet
<1>2. RecordOK(w, c, ch) <=> (IsMember(w, c, ch) <=> ch \in w.session[c].channels)
  BY <1>1 DEF RecordOK
<1>3. NameOK(w, c, ch) <=> (IsMember(w, c, ch) => w.members[ch][c].nick = w.session[c].nick)
  BY <1>1, <1>q DEF NameOK
<1> QED
  BY <1>2, <1>3 DEF PairOK

LEMMA LocalLeaves ==
    ASSUME NEW w, AllPlaced(w), NEW c \in Conns, NEW ch \in Chans, Owner[ch] = Home[c],
           ~IsMember(w, c, ch)
    PROVE  Leaving(w, c, ch)
BY LocalQuiet DEF Leaving

\* A session asks.
LEMMA AskedMoves ==
    ASSUME NEW w, IsFrame(w), Kept(w), NEW s, NEW t, NEW c, NEW ch, Between(s, t, c, ch),
           NEW r, r.kind \in Outward, r.conn = c, r.chan = ch, NEW x, x = Route(w, s, t, r)
    PROVE  /\ Moved(w, x, c, ch) /\ IsFrame(x) /\ Kept(x) /\ x.session = w.session
           /\ x.members = w.members /\ Added(Requests(w, c, ch), Requests(x, c, ch), r)
           /\ Answers(x, c, ch) = Answers(w, c, ch)
<1>1. \A z : Requests(z, c, ch) = z.mail[s][t] /\ Answers(z, c, ch) = z.mail[t][s]
  BY BetweenQueues
<1>2. s \in Shards /\ t \in Shards /\ ~(s = t)
  BY DEF Between
<1>3. Placed(w.session, s, t, r)
      /\ \A d \in Conns, k \in Chans : ~(d = c /\ k = ch) => Idle(r, d, k)
  BY AnswerPlaced
<1>4. /\ Moved(w, x, c, ch) /\ IsFrame(x) /\ x.session = w.session
      /\ x.members = w.members
      /\ Added(w.mail[s][t], x.mail[s][t], r)
      /\ \A a, b \in Shards : ~(a = s /\ b = t) => x.mail[a][b] = w.mail[a][b]
  BY <1>2, <1>3, RouteMoves
<1>5. x.mail[t][s] = w.mail[t][s]
  BY <1>2, <1>4
<1>6. Kept(x)
  BY <1>4 DEF Moved
<1> QED
  BY <1>1, <1>4, <1>5, <1>6

LEMMA PartAskedPair ==
    ASSUME NEW w, NEW x, NEW c, NEW ch, w.session[c].on = TRUE, PairOK(w, c, ch),
           NEW r, IsPart(r, c, ch),
           Added(Requests(w, c, ch), Requests(x, c, ch), r), Answers(x, c, ch) = Answers(w, c, ch),
           x.members = w.members, x.session = w.session
    PROVE  PairOK(x, c, ch) /\ Leaving(x, c, ch)
<1>q. PICK q0, q2 : q0 = Requests(w, c, ch) /\ q2 = Requests(x, c, ch)
  OBVIOUS
<1>n. PICK n : n = w.session[c].nick
  OBVIOUS
<1>0. Added(q0, q2, r)
  BY <1>q
<1>k. ~IsJoin(r, c, ch) /\ ~IsRename(r, c, ch)
  BY DEF IsJoin, IsPart, IsRename
<1>1. /\ NoRenames(q2, c, ch) <=> NoRenames(q0, c, ch)
      /\ JoinsAs(q0, c, ch, n) => JoinsAs(q2, c, ch, n)
      /\ RenamesTo(q0, c, ch, n) => RenamesTo(q2, c, ch, n)
      /\ RenamesFirst(q0, c, ch) => RenamesFirst(q2, c, ch)
      /\ PartLast(q2, c, ch)
  BY <1>0, <1>k, AddedView
<1>2. RecordOK(w, c, ch) => RecordOK(x, c, ch)
  BY DEF RecordOK, IsMember
<1>3. NameOK(w, c, ch) => NameOK(x, c, ch)
  BY <1>1, <1>n, <1>q DEF NameOK, IsMember
<1> QED
  BY <1>1, <1>2, <1>3, <1>q DEF PairOK, Leaving

LEMMA CalmPair ==
    ASSUME NEW w, NEW x, Calm(w, x), NEW c \in Conns, NEW ch \in Chans
    PROVE  /\ PairOK(w, c, ch) => PairOK(x, c, ch)
           /\ x.session[c].on = w.session[c].on
           /\ LeaveOK(w, c, ch) => LeaveOK(x, c, ch)
<1>1. SamePair(w, x, c, ch) /\ SameMarks(w, x, c, ch)
  BY CalmMoves
<1> QED
  BY <1>1, SamePairOK, SameLeaveOK DEF SamePair

LEMMA PartCommandMoves ==
    ASSUME NEW w, IsFrame(w), Kept(w), NEW c \in Conns, NEW ch \in Chans,
           w.session[c].on = TRUE, PairOK(w, c, ch), NEW x, x = PartCommand(w, c, ch)
    PROVE  /\ Moved(w, x, c, ch) /\ Kept(x) /\ x.session[c].on = TRUE
           /\ PairOK(x, c, ch) /\ Leaving(x, c, ch)
<1>n. PICK n : n = w.session[c].nick
  OBVIOUS
<1>h. PICK s, t \in Shards : s = Home[c] /\ t = Owner[ch]
  BY HomeType, OwnerType
<1>1. CASE Owner[ch] # Home[c]
  <2>y. PICK y : y = Defer(w, c)
    OBVIOUS
  <2>r. PICK r : r = [kind |-> "ChannelPart", conn |-> c, nick |-> n, chan |-> ch]
    OBVIOUS
  <2>1. x = Route(y, s, t, r)
    BY <1>1, <1>h, <1>n, <2>y, <2>r DEF PartCommand
  <2>2. Between(s, t, c, ch)
    BY <1>1, <1>h DEF Between
  <2>3. Calm(w, y)
    BY <2>y, CalmDefer
  <2>4. Kept(y)
    BY <2>3, CalmKept
  <2>5. Moved(w, y, c, ch) /\ IsFrame(y)
    BY <2>3, CalmMoves
  <2>6. r.kind \in Outward /\ r.conn = c /\ r.chan = ch /\ r.kind = "ChannelPart"
    BY <2>r DEF Outward
  <2>7. /\ Moved(y, x, c, ch) /\ IsFrame(x) /\ Kept(x) /\ x.session = y.session
        /\ x.members = y.members /\ Added(Requests(y, c, ch), Requests(x, c, ch), r)
        /\ Answers(x, c, ch) = Answers(y, c, ch)
    BY <2>1, <2>2, <2>4, <2>5, <2>6, AskedMoves
  <2>8. PairOK(y, c, ch) /\ y.session[c].on = TRUE
    BY <2>3, CalmPair
  <2>9. IsPart(r, c, ch)
    BY <2>6, AboutKinds
  <2>10. PairOK(x, c, ch) /\ Leaving(x, c, ch)
    BY <2>7, <2>8, <2>9, PartAskedPair
  <2>11. Moved(w, x, c, ch)
    BY <2>5, <2>7, MovedChain
  <2> QED
    BY <2>7, <2>8, <2>10, <2>11
<1>2. CASE Owner[ch] = Home[c]
  <2>j. PICK j : j = PartOnOwner(w, c, n, ch)
    OBVIOUS
  <2>v. PICK v : v = j.w
    OBVIOUS
  <2>y. PICK y : y = IF j.result = "parted" THEN Send(v, c, LeftLine(n, ch)) ELSE v
    OBVIOUS
  <2>1. x = RecordPart(y, c, ch, j.result)
    BY <1>2, <1>n, <2>j, <2>v, <2>y DEF PartCommand
  <2>2. /\ Moved(w, v, c, ch) /\ Kept(v) /\ Stays(w, v, c, ch) /\ ~IsMember(v, c, ch)
        /\ j.result = "parted" <=> IsMember(w, c, ch)
        /\ j.result # "parted" => v = w
    BY <2>j, <2>v, PartOnOwnerMoves
  <2>3. IsFrame(v)
    BY <2>2 DEF Moved
  <2>4. Calm(v, y)
    BY <2>3, <2>y, CalmSendAll, CalmItself DEF Send
  <2>5. /\ Moved(v, y, c, ch) /\ IsFrame(y) /\ Stays(v, y, c, ch) /\ y.members = v.members
    BY <2>4, CalmStays
  <2>6. Kept(y)
    BY <2>2, <2>4, CalmKept
  <2>7. ~IsMember(y, c, ch) /\ y.session[c].on = TRUE
        /\ y.session[c].channels = w.session[c].channels
    <3>1. SameSeat(v.session[c], y.session[c]) /\ SameSeat(w.session[c], v.session[c])
      BY <2>2, <2>5 DEF Stays
    <3> QED
      BY <2>2, <2>5, <3>1 DEF SameSeat, IsMember
  <2>8. Moved(w, y, c, ch)
    BY <2>2, <2>5, MovedChain
  <2>9. CASE j.result = "parted"
    <3>1. x = RecordPart(y, c, ch, "parted")
      BY <2>1, <2>9
    <3>2. /\ Moved(y, x, c, ch) /\ Kept(x) /\ x.members = y.members
          /\ x.session[c].on = y.session[c].on
          /\ x.session[c].channels = y.session[c].channels \ {ch}
      BY <2>5, <2>6, <3>1, RecordPartMoves
    <3>3. ~IsMember(x, c, ch) /\ ch \notin x.session[c].channels /\ x.session[c].on = TRUE
      BY <2>7, <3>2 DEF IsMember
    <3>4. AllPlaced(x)
      BY <3>2 DEF Kept
    <3>5. PairOK(x, c, ch) /\ Leaving(x, c, ch)
      BY <1>2, <3>3, <3>4, LocalPair, LocalLeaves
    <3>6. Moved(w, x, c, ch)
      BY <2>8, <3>2, MovedChain
    <3> QED
      BY <3>2, <3>3, <3>5, <3>6
  <2>10. CASE j.result # "parted"
    <3>1. x = y
      BY <2>1, <2>10 DEF RecordPart
    <3>2. AllPlaced(w) /\ AllPlaced(y)
      BY <2>6 DEF Kept
    <3>3. ch \notin w.session[c].channels
      BY <1>2, <2>2, <2>10, <3>2, LocalPair
    <3>4. PairOK(y, c, ch) /\ Leaving(y, c, ch)
      BY <1>2, <2>7, <3>2, <3>3, LocalPair, LocalLeaves
    <3> QED
      BY <2>6, <2>7, <2>8, <3>1, <3>4
  <2> QED
    BY <2>9, <2>10
<1> QED
  BY <1>1, <1>2

LEMMA MovedRecords ==
    ASSUME NEW w, RecordInv(w), NEW x, NEW c, NEW ch, Moved(w, x, c, ch), PairOK(x, c, ch)
    PROVE  /\ RecordInv(x)
           /\ \A d \in Conns, k \in Chans : ~(d = c /\ k = ch) =>
                 /\ x.session[d].on = w.session[d].on
                 /\ LeaveOK(w, d, k) => LeaveOK(x, d, k)
<1>1. Kept(x) /\ OthersStay(w, x, c, ch)
  BY DEF RecordInv, Moved
<1>2. \A d \in Conns, k \in Chans :
         ~(d = c /\ k = ch) => SamePair(w, x, d, k) /\ SameMarks(w, x, d, k)
  BY <1>1 DEF OthersStay
<1>3. ASSUME NEW d \in Conns, NEW k \in Chans
      PROVE  PairOK(x, d, k)
  <2>1. PairOK(w, d, k)
    BY DEF RecordInv
  <2>2. CASE d = c /\ k = ch
    BY <2>2
  <2>3. CASE ~(d = c /\ k = ch)
    BY <1>2, <2>1, <2>3, SamePairOK
  <2> QED
    BY <2>2, <2>3
<1>4. ASSUME NEW d \in Conns, NEW k \in Chans, ~(d = c /\ k = ch)
      PROVE  x.session[d].on = w.session[d].on /\ (LeaveOK(w, d, k) => LeaveOK(x, d, k))
  <2>1. SamePair(w, x, d, k) /\ SameMarks(w, x, d, k)
    BY <1>2, <1>4
  <2> QED
    BY <2>1, SameLeaveOK DEF SamePair
<1> QED
  BY <1>1, <1>3, <1>4 DEF RecordInv

LEMMA AsksOne ==
    ASSUME IsAsked(asked), NEW c \in Conns, NEW ch \in Chans, NEW what, Asks(c, ch, what)
    PROVE  /\ IsAsked(asked') /\ asked'[c][ch] = what
           /\ \A d \in Conns, k \in Chans : ~(d = c /\ k = ch) => asked'[d][k] = asked[d][k]
<1>1. asked' = [asked EXCEPT ![c][ch] = what]
  BY DEF Asks
<1>2. asked = [d \in Conns |-> asked[d]] /\ \A d \in Conns : asked[d] = [k \in Chans |-> asked[d][k]]
  BY DEF IsAsked
<1>3. /\ asked' = [d \in Conns |-> asked'[d]]
      /\ \A d \in Conns : d # c => asked'[d] = asked[d]
      /\ asked'[c] = [asked[c] EXCEPT ![ch] = what]
  BY <1>1, <1>2
<1>4. /\ asked'[c] = [k \in Chans |-> asked'[c][k]] /\ asked'[c][ch] = what
      /\ \A k \in Chans : k # ch => asked'[c][k] = asked[c][k]
  BY <1>2, <1>3
<1> QED
  BY <1>2, <1>3, <1>4 DEF IsAsked

LEMMA PartRecords ==
    ASSUME HoldInv(Now), RecordInv(Now), LeaveInv(Now, asked), NEW c \in Conns, NEW ch \in Chans,
           Part(c, ch)
    PROVE  RecordInv(Now') /\ LeaveInv(Now', asked')
<1>x. PICK x : x = PartCommand(Now, c, ch)
  OBVIOUS
<1>0. IsFrame(Now) /\ Kept(Now) /\ PairOK(Now, c, ch) /\ Now.session = session
  BY FrameNow, NowFields DEF RecordInv
<1>1. Become(x) /\ Asks(c, ch, "out")
  BY <1>x DEF Part
<1>2. Now.session[c].on = TRUE
  BY <1>0, FrameNow DEF Part, Command
<1>3. Moved(Now, x, c, ch) /\ PairOK(x, c, ch) /\ Leaving(x, c, ch)
  BY <1>0, <1>2, <1>x, PartCommandMoves
<1>4. LeaveOK(x, c, ch)
  BY <1>3 DEF LeaveOK
<1>5. /\ IsAsked(asked')
      /\ \A d \in Conns, k \in Chans : ~(d = c /\ k = ch) => asked'[d][k] = asked[d][k]
  BY <1>1, AsksOne DEF LeaveInv
<1> QED
  BY <1>1, <1>3, <1>4, <1>5, PairStep

\* Every channel is in the order its PARTs are sent in.
LEMMA OrderCovers ==
    ASSUME NEW S, IsFiniteSet(S), NEW order \in Orders(S), NEW k \in S
    PROVE  \E i \in 1 .. Cardinality(S) : order[i] = k
<1>n. PICK n : n = Cardinality(S)
  OBVIOUS
<1>1. n \in Nat
  BY <1>n, FS_CardinalityType
<1>2. order \in [1 .. n -> S] /\ \A i, j \in 1 .. n : order[i] = order[j] => i = j
  BY <1>n DEF Orders
<1> SUFFICES ASSUME \A i \in 1 .. n : order[i] # k
             PROVE  FALSE
  BY <1>n
<1>3. IsFiniteSet(S \ {k}) /\ Cardinality(S \ {k}) = n - 1
  BY <1>n, FS_RemoveElement
<1>4. order \in [1 .. n -> S \ {k}]
  BY <1>2
<1>5. order \in Injection(1 .. n, S \ {k})
  BY <1>2, <1>4 DEF Injection, IsInjective
<1>6. Cardinality(1 .. n) <= n - 1
  BY <1>3, <1>5, FS_Injection
<1>7. Cardinality(1 .. n) = n
  BY <1>1, FS_Interval
<1> QED
  BY <1>1, <1>6, <1>7

LEMMA SeatOthers ==
    ASSUME NEW w, IsFrame(w), Kept(w), NEW c \in Conns, NEW r, NEW y, Reseated(w, y, c, r),
           r.on = w.session[c].on, ~r.on => r.channels = {}
    PROVE  /\ IsFrame(y) /\ Kept(y) /\ y.session[c] = r /\ y.members = w.members
           /\ \A d \in Conns, k \in Chans :
                 Requests(y, d, k) = Requests(w, d, k) /\ Answers(y, d, k) = Answers(w, d, k)
           /\ \A d \in Conns, k \in Chans : d # c => SamePair(w, y, d, k) /\ SameMarks(w, y, d, k)
<1>1. /\ IsFrame(y) /\ Kept(y) /\ y.session[c] = r /\ y.mail = w.mail /\ y.members = w.members
      /\ \A d \in Conns : d # c => y.session[d] = w.session[d]
  BY ReseatedKeeps
<1>2. \A d \in Conns, k \in Chans :
         Requests(y, d, k) = Requests(w, d, k) /\ Answers(y, d, k) = Answers(w, d, k)
  BY <1>1 DEF Requests, Answers
<1>3. ASSUME NEW d \in Conns, NEW k \in Chans, d # c
      PROVE  SamePair(w, y, d, k) /\ SameMarks(w, y, d, k)
  <2>1. y.session[d] = w.session[d]
    BY <1>1, <1>3
  <2>2. IsMember(y, d, k) <=> IsMember(w, d, k)
    BY <1>1 DEF IsMember
  <2> QED
    BY <1>1, <1>2, <2>1, <2>2, LikeItself DEF SamePair, SameMarks
<1> QED
  BY <1>1, <1>2, <1>3

LEMMA SeatMarked ==
    ASSUME NEW r, r = [k \in SessionFields |-> r[k]], NEW e, NEW x, x = [r EXCEPT !.partOnJoin = e]
    PROVE  /\ x = [k \in SessionFields |-> x[k]] /\ x.on = r.on /\ x.nick = r.nick
           /\ x.channels = r.channels /\ x.pending = r.pending /\ x.partOnJoin = e
BY DEF SessionFields

\* JOIN 0 marks the JOINs in flight.
Marked(w, c, e) == [w EXCEPT !.session[c].partOnJoin = e]
\* Of the other sessions, who was leaving is.
OthersLeave(w, x, c) ==
    \A d \in Conns, k \in Chans : d # c =>
        x.session[d].on = w.session[d].on /\ (LeaveOK(w, d, k) => LeaveOK(x, d, k))

LEMMA MarkedRecords ==
    ASSUME NEW w, IsFrame(w), RecordInv(w), NEW c \in Conns, w.session[c].on = TRUE,
           NEW y, y = Marked(w, c, w.session[c].pending)
    PROVE  /\ IsFrame(y) /\ RecordInv(y) /\ y.session[c].on = TRUE /\ OthersLeave(w, y, c)
           /\ \A k \in Chans : k \notin w.session[c].channels => LeaveOK(y, c, k)
<1>0. IsRec(w) /\ w.session = [d \in Conns |-> w.session[d]] /\ Kept(w)
  BY DEF IsFrame, RecordInv
<1>q. PICK q : q = w.session[c]
  OBVIOUS
<1>e. PICK e : e = q.pending
  OBVIOUS
<1>r. PICK r : r = [q EXCEPT !.partOnJoin = e]
  OBVIOUS
<1>p. q = [k \in SessionFields |-> q[k]]
  BY <1>q DEF IsFrame
<1>1. /\ r = [k \in SessionFields |-> r[k]] /\ r.on = q.on /\ r.nick = q.nick
      /\ r.channels = q.channels /\ r.pending = q.pending /\ r.partOnJoin = e
  BY <1>p, <1>r, SeatMarked
<1>y. y = [w EXCEPT !.session[c].partOnJoin = e]
  BY <1>e, <1>q DEF Marked
<1>2. SameCore(w, y) /\ y.members = w.members /\ y.memberships = w.memberships
  BY <1>0, <1>y DEF IsRec, WorldFields, SameCore
<1>3. y.session = [d \in Conns |-> IF d = c THEN r ELSE w.session[d]]
  BY <1>0, <1>y, <1>q, <1>r DEF IsRec, WorldFields
<1>4. r = [k \in SessionFields |-> r[k]] /\ r.channels = w.session[c].channels
  BY <1>1, <1>q
<1>5. Reseated(w, y, c, r)
  BY <1>0, <1>2, <1>3, <1>4, SeatSet
<1>6. r.on = w.session[c].on /\ (~r.on => r.channels = {}) /\ r.on = TRUE
  BY <1>1, <1>q
<1>7. /\ IsFrame(y) /\ Kept(y) /\ y.session[c] = r /\ y.members = w.members
      /\ \A d \in Conns, k \in Chans :
            Requests(y, d, k) = Requests(w, d, k) /\ Answers(y, d, k) = Answers(w, d, k)
      /\ \A d \in Conns, k \in Chans : d # c => SamePair(w, y, d, k) /\ SameMarks(w, y, d, k)
  BY <1>0, <1>5, <1>6, SeatOthers
<1>8. ASSUME NEW k \in Chans
      PROVE  SamePair(w, y, c, k) /\ CountOf(r.partOnJoin, k) = CountOf(r.pending, k)
  <2>1. IsMember(y, c, k) <=> IsMember(w, c, k)
    BY <1>7 DEF IsMember
  <2> QED
    BY <1>1, <1>7, <1>e, <1>q, <2>1, LikeItself DEF SamePair
<1>9. ASSUME NEW d \in Conns, NEW k \in Chans
      PROVE  PairOK(y, d, k)
  <2>1. SamePair(w, y, d, k)
    BY <1>7, <1>8
  <2>2. PairOK(w, d, k)
    BY DEF RecordInv
  <2> QED
    BY <2>1, <2>2, SamePairOK
<1>10. OthersLeave(w, y, c)
  <2> SUFFICES ASSUME NEW d \in Conns, NEW k \in Chans, d # c
               PROVE  y.session[d].on = w.session[d].on /\ (LeaveOK(w, d, k) => LeaveOK(y, d, k))
    BY DEF OthersLeave
  <2>1. SamePair(w, y, d, k) /\ SameMarks(w, y, d, k)
    BY <1>7
  <2> QED
    BY <2>1, SameLeaveOK DEF SamePair
<1>11. ASSUME NEW k \in Chans, k \notin w.session[c].channels
       PROVE  LeaveOK(y, c, k)
  <2>1. PairOK(w, c, k) /\ SamePair(w, y, c, k)
    BY <1>8 DEF RecordInv
  <2>2. RecordOK(w, c, k)
    BY <2>1 DEF PairOK
  <2>3. IsMember(w, c, k) => EndsIn(Answers(w, c, k), c, k)
    BY <1>11, <2>2 DEF RecordOK
  <2>4. IsMember(y, c, k) => EndsIn(Answers(y, c, k), c, k)
    BY <2>1, <2>3, <1>7 DEF SamePair
  <2>5. CountOf(y.session[c].partOnJoin, k) = CountOf(y.session[c].pending, k)
    BY <1>7, <1>8
  <2> QED
    BY <2>4, <2>5 DEF LeaveOK
<1> QED
  BY <1>6, <1>7, <1>9, <1>10, <1>11 DEF RecordInv

LEMMA OthersLeaveOn ==
    ASSUME NEW w, NEW x, NEW y, NEW c, OthersLeave(w, x, c), OthersLeave(x, y, c)
    PROVE  OthersLeave(w, y, c)
BY DEF OthersLeave

LEMMA PartEachRecords ==
    ASSUME NEW w, IsFrame(w), RecordInv(w), NEW c \in Conns, w.session[c].on = TRUE,
           NEW order \in Seq(Chans), NEW x, x = PartEach(w, c, order)
    PROVE  /\ IsFrame(x) /\ RecordInv(x) /\ OthersLeave(w, x, c)
           /\ \A k \in Chans :
                 LeaveOK(w, c, k) \/ (\E i \in 1 .. Len(order) : order[i] = k) => LeaveOK(x, c, k)
<1> DEFINE g == CHOOSE h : Parted(w, c, order, h)
           Left(n) == \A k \in Chans :
                LeaveOK(w, c, k) \/ (\E i \in 1 .. n : order[i] = k) => LeaveOK(g[n], c, k)
           Fit(n) == IsFrame(g[n]) /\ RecordInv(g[n]) /\ g[n].session[c].on = TRUE
                     /\ OthersLeave(w, g[n], c)
           S == {n \in 0 .. Len(order) : Fit(n) /\ Left(n)}
<1>1. x = g[Len(order)]
  BY DEF PartEach, Parted
<1>2. Parted(w, c, order, g)
  BY PartedExists, Zenon
<1>3. Len(order) \in Nat
  OBVIOUS
<1> HIDE DEF g
<1>4. 0 \in S
  <2>1. 0 \in 0 .. Len(order)
    BY <1>3
  <2>2. g[0] = w
    BY <1>2, <2>1 DEF Parted
  <2>3. OthersLeave(w, w, c)
    BY DEF OthersLeave
  <2>4. Left(0)
    BY <2>2
  <2> QED
    BY <2>1, <2>2, <2>3, <2>4
<1>5. ASSUME NEW n \in 0 .. (Len(order) - 1), n \in S
      PROVE  n + 1 \in S
  <2>1. n + 1 \in 0 .. Len(order) /\ n + 1 # 0 /\ (n + 1) - 1 = n /\ order[n + 1] \in Chans
    BY <1>3
  <2>b. PICK ch \in Chans : ch = order[n + 1]
    BY <2>1
  <2>c. PICK a, b : a = g[n] /\ b = g[n + 1]
    OBVIOUS
  <2>a. a = g[n] /\ b = g[n + 1] /\ ch = order[n + 1]
    BY <2>b, <2>c
  <2>2. b = PartCommand(a, c, ch)
    BY <1>2, <2>1, <2>a DEF Parted
  <2>3. IsFrame(a) /\ RecordInv(a) /\ a.session[c].on = TRUE /\ OthersLeave(w, a, c) /\ Left(n)
    BY <1>5, <2>a
  <2>4. Kept(a) /\ PairOK(a, c, ch)
    BY <2>3 DEF RecordInv
  <2>5. Moved(a, b, c, ch) /\ b.session[c].on = TRUE /\ PairOK(b, c, ch) /\ Leaving(b, c, ch)
    BY <2>2, <2>3, <2>4, PartCommandMoves
  <2>6. /\ RecordInv(b)
        /\ \A d \in Conns, k \in Chans : ~(d = c /\ k = ch) =>
              /\ b.session[d].on = a.session[d].on
              /\ LeaveOK(a, d, k) => LeaveOK(b, d, k)
    BY <2>3, <2>5, MovedRecords
  <2>7. OthersLeave(a, b, c)
    BY <2>6 DEF OthersLeave
  <2>8. OthersLeave(w, b, c)
    BY <2>3, <2>7, OthersLeaveOn
  <2>9. Left(n + 1)
    <3> SUFFICES ASSUME NEW k \in Chans,
                        LeaveOK(w, c, k) \/ (\E i \in 1 .. (n + 1) : order[i] = k)
                 PROVE  LeaveOK(b, c, k)
      BY <2>a
    <3>1. CASE k = ch
      BY <2>5, <3>1 DEF LeaveOK
    <3>2. CASE k # ch
      <4>1. LeaveOK(w, c, k) \/ (\E i \in 1 .. n : order[i] = k)
        BY <1>3, <2>a, <3>2
      <4>2. LeaveOK(a, c, k)
        BY <2>3, <2>a, <4>1
      <4> QED
        BY <2>6, <3>2, <4>2
    <3> QED
      BY <3>1, <3>2
  <2>10. IsFrame(b)
    BY <2>5 DEF Moved
  <2>11. Fit(n + 1)
    BY <2>5, <2>6, <2>8, <2>10, <2>a
  <2> QED
    BY <2>1, <2>9, <2>11
<1> HIDE DEF S
<1>6. \A n \in 0 .. Len(order) : n \in S
  BY <1>3, <1>4, <1>5, InductionUpTo
<1>7. Len(order) \in S
  BY <1>3, <1>6
<1> QED
  BY <1>1, <1>7 DEF S

LEMMA JoinZeroRecords ==
    ASSUME HoldInv(Now), RecordInv(Now), LeaveInv(Now, asked), NEW c \in Conns, JoinZero(c)
    PROVE  RecordInv(Now') /\ LeaveInv(Now', asked')
<1>0. IsFrame(Now) /\ Now.session = session /\ IsWorld(Now) /\ LimitOK(Now, c)
  BY FrameNow, NowFields DEF HoldInv
<1>y. PICK y : y = Marked(Now, c, Now.session[c].pending)
  OBVIOUS
<1>C. PICK C : C = session[c].channels
  OBVIOUS
<1>1. PICK order \in Orders(C) : Become(PartEach(y, c, order))
  BY <1>0, <1>y, <1>C DEF JoinZero, Marked
<1>x. PICK x : x = PartEach(y, c, order)
  OBVIOUS
<1>2. Now.session[c].on = TRUE
  BY <1>0, FrameNow DEF JoinZero, Command
<1>3. /\ IsFrame(y) /\ RecordInv(y) /\ y.session[c].on = TRUE /\ OthersLeave(Now, y, c)
      /\ \A k \in Chans : k \notin Now.session[c].channels => LeaveOK(y, c, k)
  BY <1>0, <1>2, <1>y, MarkedRecords
<1>4. C \subseteq Chans /\ IsFiniteSet(C)
  <2>1. IsSession(session[c])
    BY <1>0 DEF IsWorld
  <2>2. C \subseteq Chans /\ C \subseteq Involved(Now, c)
    BY <1>0, <1>C, <2>1 DEF IsSession, Involved
  <2> QED
    BY <1>0, <2>2, FS_Subset DEF LimitOK
<1>n. PICK n : n = Cardinality(C)
  OBVIOUS
<1>5. n \in Nat /\ order \in [1 .. n -> C]
  BY <1>4, <1>n, FS_CardinalityType DEF Orders
<1>6. order \in Seq(Chans) /\ Len(order) = n
  <2>1. order \in [1 .. n -> Chans]
    BY <1>4, <1>5
  <2> QED
    BY <1>5, <2>1
<1>7. \A k \in C : \E i \in 1 .. Len(order) : order[i] = k
  BY <1>4, <1>6, <1>n, OrderCovers
<1>8. /\ IsFrame(x) /\ RecordInv(x) /\ OthersLeave(y, x, c)
      /\ \A k \in Chans :
            LeaveOK(y, c, k) \/ (\E i \in 1 .. Len(order) : order[i] = k) => LeaveOK(x, c, k)
  BY <1>3, <1>6, <1>x, PartEachRecords
<1>9. \A k \in Chans : LeaveOK(x, c, k)
  BY <1>0, <1>3, <1>7, <1>8, <1>C
<1>10. OthersLeave(Now, x, c)
  BY <1>3, <1>8, OthersLeaveOn
<1>11. Now' = x
  BY <1>1, <1>8, <1>x, FrameStep
<1>12. /\ IsAsked(asked') /\ \A d \in Conns : d # c => asked'[d] = asked[d]
  <2>1. asked' = [asked EXCEPT ![c] = [ch \in Chans |-> "out"]]
    BY DEF JoinZero
  <2>2. asked = [d \in Conns |-> asked[d]] /\ \A d \in Conns : asked[d] = [k \in Chans |-> asked[d][k]]
    BY DEF LeaveInv, IsAsked
  <2>3. /\ asked' = [d \in Conns |-> asked'[d]] /\ asked'[c] = [ch \in Chans |-> "out"]
        /\ \A d \in Conns : d # c => asked'[d] = asked[d]
    BY <2>1, <2>2
  <2> QED
    BY <2>2, <2>3 DEF IsAsked
<1>13. ASSUME NEW d \in Conns, NEW k \in Chans, x.session[d].on, asked'[d][k] = "out"
       PROVE  LeaveOK(x, d, k)
  <2>1. CASE d = c
    BY <1>9, <2>1
  <2>2. CASE d # c
    <3>1. Now.session[d].on /\ asked[d][k] = "out"
      BY <1>10, <1>12, <1>13, <2>2 DEF OthersLeave
    <3>2. LeaveOK(Now, d, k)
      BY <3>1 DEF LeaveInv
    <3> QED
      BY <1>10, <2>2, <3>2 DEF OthersLeave
  <2> QED
    BY <2>1, <2>2
<1> QED
  BY <1>8, <1>11, <1>12, <1>13 DEF LeaveInv

-----------------------------------------------------------------------------
\* The answer to a JOIN.

LEMMA AdmittedPair ==
    ASSUME NEW w, NEW x, NEW c, NEW ch, w.session[c].on = TRUE, PairOK(w, c, ch),
           NEW m, NEW joined, IsIn(m, c, ch) <=> joined, Moves(m, c, ch) <=> joined,
           NEW a, Dropped(Answers(w, c, ch), a, m), Like(a, Answers(x, c, ch), c, ch),
           Like(Requests(w, c, ch), Requests(x, c, ch), c, ch),
           x.members = w.members, x.session[c].on = TRUE,
           x.session[c].nick = w.session[c].nick,
           ch \in x.session[c].channels <=> joined \/ ch \in w.session[c].channels
    PROVE  /\ PairOK(x, c, ch) /\ (Leaving(w, c, ch) => Leaving(x, c, ch))
           /\ IsMember(x, c, ch) <=> IsMember(w, c, ch)
           /\ ~joined => (EndsIn(Answers(x, c, ch), c, ch) <=> EndsIn(Answers(w, c, ch), c, ch))
<1>q. PICK q0, q2 : q0 = Requests(w, c, ch) /\ q2 = Requests(x, c, ch)
  OBVIOUS
<1>a. PICK a0, a2 : a0 = Answers(w, c, ch) /\ a2 = Answers(x, c, ch)
  OBVIOUS
<1>0. /\ Dropped(a0, a, m) /\ Like(a, a2, c, ch) /\ Like(q0, q2, c, ch)
  BY <1>q, <1>a
<1>1. /\ NoMoves(a0, c, ch) <=> NoMoves(a, c, ch) /\ ~joined
      /\ ~NoMoves(a, c, ch) \/ ~joined => (EndsIn(a, c, ch) <=> EndsIn(a0, c, ch))
      /\ NoMoves(a, c, ch) => (EndsIn(a0, c, ch) <=> joined)
  BY <1>0, DroppedView
<1>2. /\ NoMoves(a2, c, ch) <=> NoMoves(a, c, ch)
      /\ EndsIn(a2, c, ch) <=> EndsIn(a, c, ch)
  BY <1>0 DEF Like
<1>3. IsMember(x, c, ch) <=> IsMember(w, c, ch)
  BY DEF IsMember
<1>6. RecordOK(w, c, ch) => RecordOK(x, c, ch)
  BY <1>1, <1>2, <1>3, <1>a DEF RecordOK
<1>7. NameOK(w, c, ch) => NameOK(x, c, ch)
  BY <1>0, <1>3, <1>q DEF NameOK, Like
<1>9. Leaving(w, c, ch) => Leaving(x, c, ch)
  BY <1>0, <1>3, <1>q DEF Leaving, Like
<1> QED
  BY <1>1, <1>2, <1>3, <1>6, <1>7, <1>9, <1>a DEF PairOK

\* What a session that is there makes of it, up to the PART of a JOIN 0 sent since.
Admitted(v, c, ch, result, lines) ==
    EmitDeferred(RecordJoin(Answer(v, c, TakeOne(v.session[c].pending, ch),
                                   TakeOne(v.session[c].partOnJoin, ch)), c, ch, result), c, lines)

Admits(v, x, c, ch, result) ==
    /\ Moved(v, x, c, ch) /\ IsFrame(x) /\ Kept(x)
    /\ Like(Answers(v, c, ch), Answers(x, c, ch), c, ch)
    /\ Like(Requests(v, c, ch), Requests(x, c, ch), c, ch)
    /\ x.members = v.members /\ x.session[c].on = TRUE
    /\ x.session[c].nick = v.session[c].nick
    /\ ch \in x.session[c].channels <=> result = "joined" \/ ch \in v.session[c].channels
    /\ x.session[c].pending = TakeOne(v.session[c].pending, ch)
    /\ x.session[c].partOnJoin = TakeOne(v.session[c].partOnJoin, ch)

LEMMA AdmittedMoves ==
    ASSUME NEW v, IsFrame(v), Kept(v), NEW c \in Conns, NEW ch \in Chans, Alive(v, c),
           NEW result, NEW lines, NEW x, x = Admitted(v, c, ch, result, lines)
    PROVE  Admits(v, x, c, ch, result)
<1>e. PICK e, f : /\ e = TakeOne(v.session[c].pending, ch)
                  /\ f = TakeOne(v.session[c].partOnJoin, ch)
  OBVIOUS
<1>y. PICK y : y = Answer(v, c, e, f)
  OBVIOUS
<1>z. PICK z : z = RecordJoin(y, c, ch, result)
  OBVIOUS
<1>1. /\ Moved(v, y, c, ch) /\ Kept(y) /\ y.mail = v.mail /\ y.members = v.members
      /\ y.session[c].on = v.session[c].on /\ y.session[c].nick = v.session[c].nick
      /\ y.session[c].channels = v.session[c].channels
      /\ y.session[c].pending = e /\ y.session[c].partOnJoin = f
  <2>1. \A k : k # ch => CountOf(e, k) = CountOf(v.session[c].pending, k)
    BY <1>e, TakeOneCounts
  <2>2. \A k : k # ch => CountOf(f, k) = CountOf(v.session[c].partOnJoin, k)
    BY <1>e, TakeOneCounts
  <2> QED
    BY <1>y, <2>1, <2>2, AnswerMoves
<1>2. IsFrame(y) /\ y.session[c].on = TRUE
  BY <1>1 DEF Moved, Alive
<1>3. /\ Moved(v, z, c, ch) /\ IsFrame(z) /\ Kept(z) /\ z.mail = v.mail /\ z.members = v.members
      /\ z.session[c].on = TRUE /\ z.session[c].nick = v.session[c].nick
      /\ ch \in z.session[c].channels <=> result = "joined" \/ ch \in v.session[c].channels
      /\ z.session[c].pending = e /\ z.session[c].partOnJoin = f
  <2>1. CASE result = "joined"
    <3>1. z = RecordJoin(y, c, ch, "joined")
      BY <1>z, <2>1
    <3>2. /\ Moved(y, z, c, ch) /\ Kept(z) /\ z.mail = y.mail /\ z.members = y.members
          /\ z.session[c].on = y.session[c].on /\ z.session[c].nick = y.session[c].nick
          /\ z.session[c].channels = y.session[c].channels \cup {ch}
          /\ z.session[c].pending = y.session[c].pending
          /\ z.session[c].partOnJoin = y.session[c].partOnJoin
      <4>1. IsFrame(y) /\ Kept(y) /\ Alive(y, c)
        BY <1>1, <1>2 DEF Alive
      <4> QED
        BY <3>1, <4>1, RecordJoinMoves
    <3>3. Moved(v, z, c, ch)
      BY <1>1, <3>2, MovedChain
    <3>4. IsFrame(z)
      BY <3>3 DEF Moved
    <3> QED
      BY <1>1, <1>2, <2>1, <3>2, <3>3, <3>4
  <2>2. CASE result # "joined"
    <3>1. z = y
      BY <1>z, <2>2 DEF RecordJoin
    <3> QED
      BY <1>1, <1>2, <2>2, <3>1
  <2> QED
    BY <2>1, <2>2
<1>4. x = EmitDeferred(z, c, lines)
  BY <1>e, <1>y, <1>z DEF Admitted
<1>5. Calm(z, x)
  BY <1>3, <1>4, CalmEmit
<1>6. Stays(z, x, c, ch) /\ x.members = z.members /\ Moved(z, x, c, ch) /\ IsFrame(x)
  BY <1>5, CalmStays
<1>7. Kept(x)
  BY <1>3, <1>5, CalmKept
<1>8. Moved(v, x, c, ch)
  BY <1>3, <1>6, MovedChain
<1>9. /\ Like(Answers(v, c, ch), Answers(x, c, ch), c, ch)
      /\ Like(Requests(v, c, ch), Requests(x, c, ch), c, ch)
  <2>1. Answers(z, c, ch) = Answers(v, c, ch) /\ Requests(z, c, ch) = Requests(v, c, ch)
    BY <1>3 DEF Answers, Requests
  <2> QED
    BY <1>6, <2>1 DEF Stays
<1>10. SameSeat(z.session[c], x.session[c])
  BY <1>6 DEF Stays
<1>11. /\ x.session[c].on = TRUE /\ x.session[c].nick = v.session[c].nick
       /\ ch \in x.session[c].channels <=> result = "joined" \/ ch \in v.session[c].channels
       /\ x.session[c].pending = e /\ x.session[c].partOnJoin = f
  BY <1>3, <1>10 DEF SameSeat
<1> QED
  BY <1>3, <1>6, <1>7, <1>8, <1>9, <1>11, <1>e DEF Admits

\* The marks of JOIN 0 go down with the JOINs in flight.
LEMMA MarksDown ==
    ASSUME NEW p, NEW o, NEW ch, CountOf(p, ch) \in Nat \ {0}, CountOf(o, ch) = CountOf(p, ch),
           NEW e, e = TakeOne(p, ch), NEW f, f = TakeOne(o, ch)
    PROVE  CountOf(f, ch) = CountOf(e, ch) /\ ch \in DOMAIN o
<1>1. CountOf(e, ch) = CountOf(p, ch) - 1
  BY TakeOneCounts
<1>2. CountOf(f, ch) = CountOf(o, ch) - 1
  BY TakeOneCounts
<1>3. ch \in DOMAIN o
  BY DEF CountOf
<1> QED
  BY <1>1, <1>2, <1>3

LEMMA JoinAnsweredIs ==
    ASSUME NEW v, NEW m, NEW c, c = m.conn, NEW ch, ch = m.chan, NEW result, result = m.result,
           NEW lines, lines = JoinLines(m.result, ch, m.names),
           NEW y, y = Admitted(v, c, ch, result, lines)
    PROVE  JoinAnswered(v, m) = IF ch \in DOMAIN v.session[c].partOnJoin /\ m.result = "joined"
                                THEN PartCommand(y, c, ch) ELSE y
BY DEF JoinAnswered, Answer, Admitted

LEMMA JoinAnsweredRecords ==
    ASSUME HoldInv(Now), RecordInv(Now), LeaveInv(Now, asked), NEW s \in Shards, NEW t \in Shards,
           mail[s][t] # <<>>, NEW m, m = Msg(s, t), m.kind = "ChannelJoinResult",
           session[m.conn].on, NEW x, x = JoinAnswered(Taken(s, t), m), Become(x), asked' = asked
    PROVE  RecordInv(Now') /\ LeaveInv(Now', asked')
<1>v. PICK v : v = Taken(s, t)
  OBVIOUS
<1>c. PICK c, ch : c = m.conn /\ ch = m.chan
  OBVIOUS
<1>f. IsFrame(Now) /\ Kept(Now) /\ Now.session = session /\ Now.members = members
  BY FrameNow, NowFields DEF RecordInv
<1>0. m.kind \in Inward /\ m.kind \in HoldKinds /\ m.kind \in JoinKinds
  BY DEF Inward, HoldKinds, JoinKinds
<1>1. /\ Between(t, s, c, ch) /\ c \in Conns /\ ch \in Chans
      /\ \A d \in Conns, k \in Chans : ~(d = c /\ k = ch) => Idle(m, d, k)
  BY <1>0, <1>c, <1>f, RequestBetween
<1>2. IsFrame(v) /\ Kept(v) /\ v.session = session /\ v.members = members
  <2>1. \A d \in Conns, k \in Chans : ~(d = c /\ k = ch) => Idle(m, d, k)
    BY <1>1
  <2> QED
    BY <1>f, <1>v, <2>1, TakenMoves
<1>3. Calm(v, v)
  BY <1>2, CalmItself
<1>4. /\ Moved(Now, v, c, ch)
      /\ Dropped(Answers(Now, c, ch), v.mail[s][t], m)
      /\ Like(v.mail[s][t], Answers(v, c, ch), c, ch)
      /\ Like(Requests(Now, c, ch), Requests(v, c, ch), c, ch)
  <2>1. /\ Between(t, s, c, ch)
        /\ \A d \in Conns, k \in Chans : ~(d = c /\ k = ch) => Idle(m, d, k)
    BY <1>1
  <2> QED
    BY <1>3, <1>f, <1>v, <2>1, AnswerTaken
<1>5. Now.session[c].on = TRUE /\ v.session[c].on = TRUE
  BY <1>1, <1>2, <1>c, <1>f, FrameNow
<1>e. PICK e, f : /\ e = TakeOne(v.session[c].pending, ch)
                  /\ f = TakeOne(v.session[c].partOnJoin, ch)
  OBVIOUS
<1>l. PICK lines : lines = JoinLines(m.result, ch, m.names)
  OBVIOUS
<1>b. PICK result : result = m.result
  OBVIOUS
<1>y. PICK y : y = Admitted(v, c, ch, result, lines)
  OBVIOUS
<1>6. x = IF ch \in DOMAIN v.session[c].partOnJoin /\ m.result = "joined"
          THEN PartCommand(y, c, ch) ELSE y
  <2>1. x = JoinAnswered(v, m)
    BY <1>v
  <2> QED
    BY <1>b, <1>c, <1>l, <1>y, <2>1, JoinAnsweredIs
<1>7. /\ Moved(v, y, c, ch) /\ IsFrame(y) /\ Kept(y)
      /\ Like(Answers(v, c, ch), Answers(y, c, ch), c, ch)
      /\ Like(Requests(v, c, ch), Requests(y, c, ch), c, ch)
      /\ y.members = v.members /\ y.session[c].on = TRUE
      /\ y.session[c].nick = v.session[c].nick
      /\ ch \in y.session[c].channels <=> result = "joined" \/ ch \in v.session[c].channels
      /\ y.session[c].pending = TakeOne(v.session[c].pending, ch)
      /\ y.session[c].partOnJoin = TakeOne(v.session[c].partOnJoin, ch)
  <2>1. c \in Conns /\ ch \in Chans /\ IsFrame(v) /\ Kept(v) /\ Alive(v, c)
    BY <1>1, <1>2, <1>5 DEF Alive
  <2>2. Admits(v, y, c, ch, result)
    BY <1>y, <2>1, AdmittedMoves
  <2> QED
    BY <2>2 DEF Admits
<1>8. Moved(Now, y, c, ch)
  BY <1>4, <1>7, MovedChain
<1>9. /\ Like(v.mail[s][t], Answers(y, c, ch), c, ch)
      /\ Like(Requests(Now, c, ch), Requests(y, c, ch), c, ch)
  BY <1>4, <1>7, LikeChain
<1>j. PICK joined : joined = (m.result = "joined")
  OBVIOUS
<1>10. (IsIn(m, c, ch) <=> joined) /\ (Moves(m, c, ch) <=> joined)
  BY <1>c, <1>j, AboutKinds
<1>11. /\ PairOK(y, c, ch) /\ (Leaving(Now, c, ch) => Leaving(y, c, ch))
       /\ IsMember(y, c, ch) <=> IsMember(Now, c, ch)
       /\ ~joined => (EndsIn(Answers(y, c, ch), c, ch) <=> EndsIn(Answers(Now, c, ch), c, ch))
  <2>1. PairOK(Now, c, ch)
    BY <1>1 DEF RecordInv
  <2>2. y.members = Now.members /\ y.session[c].nick = Now.session[c].nick
        /\ y.session[c].on = TRUE
    BY <1>2, <1>7, <1>f
  <2>3. ch \in y.session[c].channels <=> joined \/ ch \in Now.session[c].channels
    BY <1>2, <1>7, <1>b, <1>f, <1>j
  <2>4. Dropped(Answers(Now, c, ch), v.mail[s][t], m) /\ Now.session[c].on = TRUE
    BY <1>4, <1>5
  <2> QED
    BY <1>9, <1>10, <2>1, <2>2, <2>3, <2>4, AdmittedPair
<1>12. CountOf(Now.session[c].pending, ch) \in Nat \ {0}
  <2>1. CountOf(session[c].pending, ch) # 0
    BY <1>0, <1>c, HeadAwaited
  <2>2. IsSession(session[c])
    BY <1>1, <1>f DEF HoldInv, IsWorld
  <2> QED
    BY <1>f, <2>1, <2>2, Counted0 DEF IsSession
<1>13. CASE ch \in DOMAIN v.session[c].partOnJoin /\ joined
  <2>1. x = PartCommand(y, c, ch)
    BY <1>6, <1>13, <1>j
  <2>2. Moved(y, x, c, ch) /\ PairOK(x, c, ch) /\ Leaving(x, c, ch)
    BY <1>1, <1>7, <1>11, <2>1, PartCommandMoves
  <2>3. Moved(Now, x, c, ch)
    BY <1>8, <2>2, MovedChain
  <2>4. LeaveOK(x, c, ch)
    BY <2>2 DEF LeaveOK
  <2> QED
    BY <1>1, <1>5, <2>2, <2>3, <2>4, PairKept
<1>14. CASE ~(ch \in DOMAIN v.session[c].partOnJoin /\ joined)
  <2>1. x = y
    BY <1>6, <1>14, <1>j
  <2>2. ASSUME LeaveOK(Now, c, ch)
        PROVE  LeaveOK(y, c, ch)
    <3>1. CASE Leaving(Now, c, ch)
      BY <1>11, <3>1 DEF LeaveOK
    <3>2. CASE ~Leaving(Now, c, ch)
      <4>p. PICK p, o : p = Now.session[c].pending /\ o = Now.session[c].partOnJoin
        OBVIOUS
      <4>1. /\ CountOf(o, ch) = CountOf(p, ch)
            /\ IsMember(Now, c, ch) => EndsIn(Answers(Now, c, ch), c, ch)
        BY <2>2, <3>2, <4>p DEF LeaveOK
      <4>2. e = TakeOne(p, ch) /\ f = TakeOne(o, ch) /\ CountOf(p, ch) \in Nat \ {0}
        BY <1>2, <1>12, <1>e, <1>f, <4>p
      <4>3. CountOf(f, ch) = CountOf(e, ch) /\ ch \in DOMAIN o
        BY <4>1, <4>2, MarksDown
      <4>4. ~joined
        BY <1>2, <1>14, <1>f, <4>3, <4>p
      <4>5. IsMember(y, c, ch) => EndsIn(Answers(y, c, ch), c, ch)
        BY <1>11, <4>1, <4>4
      <4>6. CountOf(y.session[c].partOnJoin, ch) = CountOf(y.session[c].pending, ch)
        BY <1>7, <1>e, <4>3
      <4> QED
        BY <4>5, <4>6 DEF LeaveOK
    <3> QED
      BY <3>1, <3>2
  <2>3. Moved(Now, x, c, ch) /\ PairOK(x, c, ch) /\ (LeaveOK(Now, c, ch) => LeaveOK(x, c, ch))
    BY <1>8, <1>11, <2>1, <2>2
  <2> QED
    BY <1>1, <1>5, <2>3, PairKept
<1> QED
  BY <1>13, <1>14

LEMMA ChannelJoinResultRecords ==
    ASSUME HoldInv(Now), RecordInv(Now), LeaveInv(Now, asked), NEW s \in Shards, NEW t \in Shards,
           ChannelJoinResult(s, t)
    PROVE  RecordInv(Now') /\ LeaveInv(Now', asked')
<1>m. PICK m : m = Msg(s, t)
  OBVIOUS
<1>v. PICK v : v = Taken(s, t)
  OBVIOUS
<1>c. PICK c, ch : c = m.conn /\ ch = m.chan
  OBVIOUS
<1>0. mail[s][t] # <<>> /\ m.kind = "ChannelJoinResult" /\ asked' = asked
  BY <1>m DEF ChannelJoinResult, Next1, Msg, Still
<1>f. IsFrame(Now) /\ Kept(Now) /\ Now.session = session
  BY FrameNow, NowFields DEF RecordInv
<1>1. m.kind \in Inward
  BY <1>0 DEF Inward
<1>2. /\ Between(t, s, c, ch) /\ c \in Conns /\ ch \in Chans
      /\ \A d \in Conns, k \in Chans : ~(d = c /\ k = ch) => Idle(m, d, k)
  BY <1>0, <1>1, <1>c, <1>f, <1>m, RequestBetween
<1>3. CASE session[m.conn].on
  <2>x. PICK x : x = JoinAnswered(Taken(s, t), m)
    OBVIOUS
  <2>1. Become(x)
    BY <1>3, <1>m, <2>x DEF ChannelJoinResult
  <2> QED
    BY <1>0, <1>3, <1>m, <2>x, <2>1, JoinAnsweredRecords
<1>4. CASE ~session[m.conn].on /\ m.result # "joined"
  <2>1. Become(v)
    BY <1>4, <1>m, <1>v DEF ChannelJoinResult
  <2>2. \A d, k : Idle(m, d, k)
    BY <1>0, <1>4 DEF Idle, Moves, IsIn, IsOut, IsJoin, IsPart, IsRename, IsQuit
  <2>3. Calm(Now, v)
    BY <1>0, <1>f, <1>m, <1>v, <2>2, CalmTaken
  <2> QED
    BY <1>0, <2>1, <2>3, CalmStep
<1>5. CASE ~session[m.conn].on /\ m.result = "joined"
  <2>r. PICK r : r = [kind |-> "ChannelMemberVanished", conn |-> c, chan |-> ch]
    OBVIOUS
  <2>g. PICK msgs : msgs = [k \in {s} |-> r]
    OBVIOUS
  <2>x. PICK x : x = RouteEach(v, t, msgs)
    OBVIOUS
  <2>1. Become(x)
    BY <1>5, <1>c, <1>m, <1>v, <2>r, <2>g, <2>x DEF ChannelJoinResult, Route
  <2>2. IsFrame(v) /\ Kept(v) /\ v.session = session
    <3>1. \A d \in Conns, k \in Chans : ~(d = c /\ k = ch) => Idle(m, d, k)
      BY <1>2
    <3> QED
      BY <1>0, <1>f, <1>m, <1>v, <3>1, TakenMoves
  <2>3. \A b \in Shards \cap DOMAIN msgs :
           Placed(v.session, t, b, msgs[b]) /\ \A d, k : Idle(msgs[b], d, k)
    <3>1. Placed(session, t, s, r)
      BY <1>2, <1>5, <1>c, <2>r DEF Placed, Outward, Inward, ReportKinds
    <3>2. \A d, k : Idle(r, d, k)
      BY <2>r DEF Idle, Moves, IsIn, IsOut, IsJoin, IsPart, IsRename, IsQuit
    <3> QED
      BY <2>2, <2>g, <3>1, <3>2
  <2>4. Calm(v, x)
    BY <2>2, <2>3, <2>x, CalmRouteEach
  <2>5. /\ Moved(Now, x, c, ch)
        /\ Like(Requests(Now, c, ch), Requests(x, c, ch), c, ch)
        /\ SameSeat(Now.session[c], x.session[c]) /\ x.members = Now.members
    <3>1. /\ Between(t, s, c, ch)
          /\ \A d \in Conns, k \in Chans : ~(d = c /\ k = ch) => Idle(m, d, k)
      BY <1>2
    <3> QED
      BY <1>0, <1>f, <1>m, <1>v, <2>4, <3>1, AnswerTaken
  <2>6. ~Now.session[c].on /\ ~x.session[c].on
    BY <1>5, <1>c, <1>f, <2>5 DEF SameSeat
  <2>7. GoneOK(Now, c, ch)
    BY <1>2, <2>6 DEF RecordInv, PairOK
  <2>8. GoneOK(x, c, ch)
    BY <2>5, <2>7 DEF GoneOK, IsMember, Like
  <2>9. PairOK(x, c, ch)
    BY <2>6, <2>8 DEF PairOK
  <2> QED
    BY <1>0, <1>2, <2>1, <2>5, <2>6, <2>9, PairKept
<1> QED
  BY <1>3, <1>4, <1>5

-----------------------------------------------------------------------------
\* JOIN.

LEMMA JoinAskedPair ==
    ASSUME NEW w, NEW x, NEW c, NEW ch, w.session[c].on = TRUE, PairOK(w, c, ch),
           NEW r, IsJoin(r, c, ch), r.nick = w.session[c].nick,
           Added(Requests(w, c, ch), Requests(x, c, ch), r), Answers(x, c, ch) = Answers(w, c, ch),
           x.members = w.members, x.session = w.session
    PROVE  PairOK(x, c, ch)
<1>q. PICK q0, q2 : q0 = Requests(w, c, ch) /\ q2 = Requests(x, c, ch)
  OBVIOUS
<1>n. PICK n : n = w.session[c].nick
  OBVIOUS
<1>0. Added(q0, q2, r) /\ r.nick = n
  BY <1>q, <1>n
<1>k. ~IsRename(r, c, ch)
  BY DEF IsJoin, IsRename
<1>1. /\ NoRenames(q2, c, ch) <=> NoRenames(q0, c, ch)
      /\ JoinsAs(q0, c, ch, n) => JoinsAs(q2, c, ch, n)
      /\ RenamesTo(q0, c, ch, n) => RenamesTo(q2, c, ch, n)
      /\ RenamesFirst(q0, c, ch) => RenamesFirst(q2, c, ch)
  BY <1>0, <1>k, AddedView
<1>2. RecordOK(w, c, ch) => RecordOK(x, c, ch)
  BY DEF RecordOK, IsMember
<1>3. NameOK(w, c, ch) => NameOK(x, c, ch)
  BY <1>1, <1>n, <1>q DEF NameOK, IsMember
<1> QED
  BY <1>2, <1>3 DEF PairOK

LEMMA JoinRecords ==
    ASSUME HoldInv(Now), RecordInv(Now), LeaveInv(Now, asked), NEW c \in Conns, NEW ch \in Chans,
           Join(c, ch)
    PROVE  RecordInv(Now') /\ LeaveInv(Now', asked')
<1>f. IsFrame(Now) /\ Kept(Now) /\ PairOK(Now, c, ch) /\ Now.session = session
  BY FrameNow, NowFields DEF RecordInv
<1>o. Now.session[c].on = TRUE
  BY <1>f, FrameNow DEF Join, Command
<1>a. Asks(c, ch, "in")
  BY DEF Join
<1>n. PICK n : n = session[c].nick
  OBVIOUS
<1>h. PICK s, t \in Shards : s = Home[c] /\ t = Owner[ch]
  BY HomeType, OwnerType
<1>1. ASSUME NEW x, Become(x), Moved(Now, x, c, ch), PairOK(x, c, ch)
      PROVE  RecordInv(Now') /\ LeaveInv(Now', asked')
  <2>1. /\ IsAsked(asked') /\ asked'[c][ch] = "in"
        /\ \A d \in Conns, k \in Chans : ~(d = c /\ k = ch) => asked'[d][k] = asked[d][k]
    BY <1>a, AsksOne DEF LeaveInv
  <2>2. x.session[c].on /\ asked'[c][ch] = "out" => LeaveOK(x, c, ch)
    BY <2>1
  <2> QED
    BY <1>1, <2>1, <2>2, PairStep
<1>2. CASE Owner[ch] = Home[c]
  <2>1. PICK admit \in BOOLEAN :
          LET local == JoinOnOwner(Now, c, n, ch, admit)
              said == IF local.result = "joined"
                      THEN Send(local.w, c, NamesLine(ch, local.names)) ELSE local.w
          IN  Become(RecordJoin(said, c, ch, local.result))
    BY <1>2, <1>n DEF Join
  <2>j. PICK j : j = JoinOnOwner(Now, c, n, ch, admit)
    OBVIOUS
  <2>v. PICK v : v = j.w
    OBVIOUS
  <2>y. PICK y : y = IF j.result = "joined" THEN Send(v, c, NamesLine(ch, j.names)) ELSE v
    OBVIOUS
  <2>x. PICK x : x = RecordJoin(y, c, ch, j.result)
    OBVIOUS
  <2>2. Become(x)
    BY <2>1, <2>j, <2>v, <2>y, <2>x
  <2>3. /\ Moved(Now, v, c, ch) /\ Kept(v) /\ Stays(Now, v, c, ch)
        /\ IF j.result = "joined"
           THEN ~IsMember(Now, c, ch) /\ IsMember(v, c, ch) /\ v.members[ch][c].nick = n
           ELSE v = Now
    BY <1>f, <2>j, <2>v, JoinOnOwnerMoves
  <2>4. CASE j.result # "joined"
    <3>1. x = Now /\ Moved(Now, Now, c, ch)
      BY <2>3, <2>4, <2>x, <2>y DEF RecordJoin
    <3> QED
      BY <1>1, <1>f, <2>2, <3>1
  <2>5. CASE j.result = "joined"
    <3>1. IsFrame(v) /\ y = SendAll(v, {c}, NamesLine(ch, j.names))
          /\ x = RecordJoin(y, c, ch, "joined")
      BY <2>3, <2>5, <2>x, <2>y DEF Moved, Send
    <3>2. Calm(v, y)
      BY <3>1, CalmSendAll
    <3>3. Stays(v, y, c, ch) /\ y.members = v.members /\ Moved(v, y, c, ch) /\ IsFrame(y)
      BY <3>2, CalmStays
    <3>4. Kept(y)
      BY <2>3, <3>2, CalmKept
    <3>5. SameSeat(Now.session[c], v.session[c]) /\ SameSeat(v.session[c], y.session[c])
      BY <2>3, <3>3 DEF Stays
    <3>6. y.session[c].on = TRUE /\ y.session[c].nick = n
      BY <1>f, <1>n, <1>o, <3>5 DEF SameSeat
    <3>7. Alive(y, c)
      BY <3>6 DEF Alive
    <3>8. /\ Moved(y, x, c, ch) /\ Kept(x) /\ x.members = y.members
          /\ x.session[c].on = y.session[c].on /\ x.session[c].nick = y.session[c].nick
          /\ x.session[c].channels = y.session[c].channels \cup {ch}
      <4>1. IsFrame(y) /\ Kept(y) /\ Alive(y, c)
        BY <3>3, <3>4, <3>7
      <4>2. x = RecordJoin(y, c, ch, "joined")
        BY <3>1
      <4> QED
        BY <4>1, <4>2, RecordJoinMoves
    <3>9. /\ IsMember(x, c, ch) /\ ch \in x.session[c].channels /\ x.session[c].on = TRUE
          /\ x.members[ch][c].nick = x.session[c].nick
      BY <2>3, <2>5, <3>3, <3>6, <3>8 DEF IsMember
    <3>10. AllPlaced(x)
      BY <3>8 DEF Kept
    <3>11. PairOK(x, c, ch)
      BY <1>2, <3>9, <3>10, LocalPair
    <3>12. Moved(Now, y, c, ch)
      BY <2>3, <3>3, MovedChain
    <3>13. Moved(Now, x, c, ch)
      BY <3>8, <3>12, MovedChain
    <3> QED
      BY <1>1, <2>2, <3>11, <3>13
  <2> QED
    BY <2>4, <2>5
<1>3. CASE Owner[ch] # Home[c]
  <2>e. PICK e : e = JoinSent(session[c].pending, ch)
    OBVIOUS
  <2>y. PICK y : y = Pended(Now, c, e)
    OBVIOUS
  <2>z. PICK z : z = Defer(y, c)
    OBVIOUS
  <2>r. PICK r : r = [kind |-> "ChannelJoin", conn |-> c, nick |-> n, chan |-> ch]
    OBVIOUS
  <2>x. PICK x : x = Route(z, s, t, r)
    OBVIOUS
  <2>1. Become(x)
    <3>1. [Now EXCEPT !.session[c].pending = JoinSent(@, ch)] = y
      BY <1>f, <2>e, <2>y DEF Pended
    <3> QED
      BY <1>3, <1>h, <1>n, <2>r, <2>x, <2>z, <3>1 DEF Join
  <2>2. \A k : k # ch => CountOf(e, k) = CountOf(Now.session[c].pending, k)
    <3>p. PICK p : p = session[c].pending
      OBVIOUS
    <3>1. IsCounts(p) /\ p = Now.session[c].pending
      BY <1>f, <3>p DEF HoldInv, IsWorld, IsSession
    <3>2. IsCounts(p) /\ e = JoinSent(p, ch)
      BY <2>e, <3>p, <3>1
    <3>3. /\ IsCounts(e) /\ DOMAIN e = DOMAIN p \cup {ch}
          /\ CountOf(e, ch) = CountOf(p, ch) + 1
          /\ \A d : d # ch => CountOf(e, d) = CountOf(p, d)
      BY <3>2, JoinSentIs
    <3> QED
      BY <3>1, <3>3
  <2>3. /\ Moved(Now, y, c, ch) /\ Kept(y) /\ y.mail = Now.mail /\ y.members = Now.members
        /\ y.session[c].on = Now.session[c].on /\ y.session[c].nick = Now.session[c].nick
        /\ y.session[c].channels = Now.session[c].channels
    BY <1>f, <2>2, <2>y, PendedMoves
  <2>4. IsFrame(y)
    BY <2>3 DEF Moved
  <2>5. PairOK(y, c, ch)
    <3>1. Requests(y, c, ch) = Requests(Now, c, ch) /\ Answers(y, c, ch) = Answers(Now, c, ch)
      BY <2>3 DEF Requests, Answers
    <3>2. SamePair(Now, y, c, ch)
      BY <2>3, <3>1, LikeItself DEF SamePair, IsMember
    <3> QED
      BY <1>f, <3>2, SamePairOK
  <2>6. Calm(y, z)
    BY <2>3, <2>4, <2>z, CalmDefer
  <2>7. PairOK(z, c, ch) /\ z.session[c].on = y.session[c].on
    BY <2>5, <2>6, CalmPair
  <2>8. Kept(z)
    BY <2>3, <2>6, CalmKept
  <2>9. IsFrame(z) /\ Moved(y, z, c, ch) /\ Stays(y, z, c, ch)
    BY <2>6, CalmStays
  <2>10. z.session[c].nick = n /\ z.session[c].on = TRUE
    BY <1>f, <1>n, <1>o, <2>3, <2>7, <2>9 DEF Stays, SameSeat
  <2>11. Between(s, t, c, ch)
    BY <1>3, <1>h DEF Between
  <2>12. r.kind \in Outward /\ r.conn = c /\ r.chan = ch /\ r.kind = "ChannelJoin" /\ r.nick = n
    BY <2>r DEF Outward
  <2>13. /\ Moved(z, x, c, ch) /\ x.session = z.session
         /\ x.members = z.members /\ Added(Requests(z, c, ch), Requests(x, c, ch), r)
         /\ Answers(x, c, ch) = Answers(z, c, ch)
    BY <2>8, <2>9, <2>11, <2>12, <2>x, AskedMoves
  <2>14. IsJoin(r, c, ch) /\ r.nick = z.session[c].nick
    BY <2>10, <2>12, AboutKinds
  <2>15. PairOK(x, c, ch)
    BY <2>7, <2>10, <2>13, <2>14, JoinAskedPair
  <2>16. Moved(Now, z, c, ch)
    BY <2>3, <2>9, MovedChain
  <2>17. Moved(Now, x, c, ch)
    BY <2>13, <2>16, MovedChain
  <2> QED
    BY <1>1, <2>1, <2>15, <2>17
<1> QED
  BY <1>2, <1>3

\* A member whose session ended before it was admitted.
Unlisted(w, c, ch) == [w EXCEPT !.memberships[c] = @ \ {ch}]
LEMMA SameMemberships ==
    ASSUME NEW w, IsRec(w), w.memberships = [d \in Conns |-> w.memberships[d]], NEW c \in Conns,
           w.memberships[c] = {}, NEW ch, NEW y, y = Unlisted(w, c, ch)
    PROVE  y = w
<1>1. y = [w EXCEPT !.memberships[c] = {}]
  BY DEF Unlisted
<1>2. [w.memberships EXCEPT ![c] = {}] = w.memberships
  OBVIOUS
<1> QED
  BY <1>1, <1>2 DEF IsRec, WorldFields

LEMMA VanishedIs ==
    ASSUME NEW s, NEW t, ChannelMemberVanished(s, t), NEW m, m = Msg(s, t), NEW v, v = Taken(s, t),
           NEW c, c = m.conn, NEW ch, ch = m.chan, NEW out, out = RemoveMember(v, ch, c),
           NEW y, y = Unlisted(out, c, ch)
    PROVE  /\ mail[s][t] # <<>> /\ m.kind = "ChannelMemberVanished" /\ asked' = asked
           /\ c \notin Members(v, ch) => Become(v)
           /\ c \in Members(v, ch) =>
                 Become(Deliver(y, t, Members(out, ch), LeftLine(v.members[ch][c].nick, ch)))
<1>1. Next1(s, t, "ChannelMemberVanished") /\ Still
  BY DEF ChannelMemberVanished
<1>2. mail[s][t] # <<>> /\ m.kind = "ChannelMemberVanished" /\ asked' = asked
  BY <1>1 DEF Next1, Msg, Still
<1>3. Become(IF c \notin Members(v, ch) THEN v
             ELSE Deliver(y, t, Members(out, ch), LeftLine(v.members[ch][c].nick, ch)))
  BY DEF ChannelMemberVanished, Unlisted
<1> QED
  BY <1>2, <1>3

LEMMA ChannelMemberVanishedRecords ==
    ASSUME HoldInv(Now), RecordInv(Now), LeaveInv(Now, asked), NEW s \in Shards, NEW t \in Shards,
           ChannelMemberVanished(s, t)
    PROVE  RecordInv(Now') /\ LeaveInv(Now', asked')
<1>m. PICK m : m = Msg(s, t)
  OBVIOUS
<1>v. PICK v : v = Taken(s, t)
  OBVIOUS
<1>c. PICK c, ch : c = m.conn /\ ch = m.chan
  OBVIOUS
<1>0. mail[s][t] # <<>> /\ m.kind = "ChannelMemberVanished" /\ asked' = asked
  BY <1>m, <1>v, <1>c, VanishedIs
<1>f. IsFrame(Now) /\ Kept(Now) /\ Now.session = session
  BY FrameNow, NowFields DEF RecordInv
<1>1. c \in Conns /\ ch \in Chans /\ ~session[c].on
  <2>1. Placed(session, s, t, m)
    BY <1>0, <1>f, <1>m, HeadPlaced
  <2> QED
    BY <1>0, <1>c, <2>1 DEF Placed
<1>2. \A d, k : Idle(m, d, k)
  BY <1>0 DEF Idle, Moves, IsIn, IsOut, IsJoin, IsPart, IsRename, IsQuit
<1>3. Calm(Now, v)
  BY <1>0, <1>2, <1>f, <1>m, <1>v, CalmTaken
<1>4. CASE c \notin Members(v, ch)
  <2>1. Become(v)
    BY <1>4, <1>c, <1>m, <1>v, VanishedIs
  <2> QED
    BY <1>0, <1>3, <2>1, CalmStep
<1>5. CASE c \in Members(v, ch)
  <2>o. PICK out : out = RemoveMember(v, ch, c)
    OBVIOUS
  <2>l. PICK line : line = LeftLine(v.members[ch][c].nick, ch)
    OBVIOUS
  <2>y. PICK y : y = Unlisted(out, c, ch)
    OBVIOUS
  <2>x. PICK x : x = Deliver(y, t, Members(out, ch), line)
    OBVIOUS
  <2>1. Become(x)
    BY <1>5, <1>c, <1>m, <1>v, <2>o, <2>l, <2>y, <2>x, VanishedIs, SMTT(30)
  <2>2. Kept(v)
    BY <1>3, <1>f, CalmKept
  <2>3. IsFrame(v) /\ Stays(Now, v, c, ch) /\ Moved(Now, v, c, ch)
    BY <1>1, <1>3, CalmStays
  <2>e. PICK e : e = Without(v.members[ch], c)
    OBVIOUS
  <2>4. IsMembers(e) /\ c \notin DOMAIN e /\ Alike(v.members[ch], e, c)
    BY <1>1, <2>2, <2>e, WithoutMembers DEF Kept
  <2>5. out = MembersSet(v, ch, e)
    BY <2>e, <2>o DEF RemoveMember, MembersSet
  <2>6. Moved(v, out, c, ch) /\ Kept(out) /\ Stays(v, out, c, ch) /\ out.members[ch] = e
    BY <1>1, <2>2, <2>3, <2>4, <2>5, SetMemberStays
  <2>7. SameSeat(Now.session[c], v.session[c]) /\ SameSeat(v.session[c], out.session[c])
    BY <2>3, <2>6 DEF Stays
  <2>8. ~out.session[c].on
    BY <1>1, <1>f, <2>7 DEF SameSeat
  <2>9. IsFrame(out) /\ IsRec(out)
    BY <2>6 DEF Moved, IsFrame
  <2>10. out.memberships = [d \in Conns |-> out.memberships[d]] /\ out.memberships[c] = {}
    BY <1>1, <2>6, <2>8 DEF Kept
  <2>11. y = out
    BY <1>1, <2>9, <2>10, <2>y, SameMemberships
  <2>12. Calm(y, x)
    BY <2>9, <2>11, <2>x, CalmDeliver
  <2>13. Stays(y, x, c, ch) /\ x.members = y.members /\ Moved(y, x, c, ch) /\ IsFrame(x)
    BY <1>1, <2>12, CalmStays
  <2>14. Stays(Now, out, c, ch)
    BY <2>3, <2>6, StaysChain
  <2>15. Stays(Now, x, c, ch)
    BY <2>11, <2>13, <2>14, StaysChain
  <2>16. Moved(Now, out, c, ch)
    BY <2>3, <2>6, MovedChain
  <2>17. Moved(Now, x, c, ch)
    BY <2>11, <2>13, <2>16, MovedChain
  <2>18. ~IsMember(x, c, ch)
    BY <2>4, <2>6, <2>11, <2>13 DEF IsMember
  <2>19. ~x.session[c].on /\ ~Now.session[c].on
    BY <1>1, <1>f, <2>15 DEF Stays, SameSeat
  <2>20. GoneOK(Now, c, ch)
    BY <1>1, <2>19 DEF RecordInv, PairOK
  <2>21. GoneOK(x, c, ch)
    BY <2>15, <2>18, <2>20 DEF GoneOK, Stays, Like
  <2>22. PairOK(x, c, ch)
    BY <2>19, <2>21 DEF PairOK
  <2> QED
    BY <1>0, <1>1, <2>1, <2>17, <2>19, <2>22, PairKept
<1> QED
  BY <1>4, <1>5

-----------------------------------------------------------------------------
\* Steps that keep every record: nobody begins or ends, and who was leaving is.

Carries(w, x) ==
    /\ IsFrame(x) /\ RecordInv(x)
    /\ \A d \in Conns, k \in Chans :
          /\ x.session[d].on = w.session[d].on
          /\ w.session[d].on /\ LeaveOK(w, d, k) => LeaveOK(x, d, k)

LEMMA CarriesItself ==
    ASSUME NEW w, IsFrame(w), RecordInv(w)
    PROVE  Carries(w, w)
BY DEF Carries

LEMMA CarriesChain ==
    ASSUME NEW w, NEW x, NEW y, Carries(w, x), Carries(x, y)
    PROVE  Carries(w, y)
BY DEF Carries

LEMMA CalmCarries ==
    ASSUME NEW w, RecordInv(w), NEW x, Calm(w, x)
    PROVE  Carries(w, x)
<1>1. IsFrame(x) /\ Kept(x)
  BY CalmKept DEF Calm, RecordInv
<1>2. \A d \in Conns, k \in Chans :
          /\ PairOK(x, d, k) /\ x.session[d].on = w.session[d].on
          /\ LeaveOK(w, d, k) => LeaveOK(x, d, k)
  BY CalmPair DEF RecordInv
<1> QED
  BY <1>1, <1>2 DEF Carries, RecordInv

LEMMA MovedCarries ==
    ASSUME NEW w, RecordInv(w), NEW x, NEW c, NEW ch, Moved(w, x, c, ch), PairOK(x, c, ch),
           x.session[c].on = w.session[c].on, LeaveOK(w, c, ch) => LeaveOK(x, c, ch)
    PROVE  Carries(w, x)
<1>1. /\ RecordInv(x)
      /\ \A d \in Conns, k \in Chans : ~(d = c /\ k = ch) =>
            /\ x.session[d].on = w.session[d].on
            /\ LeaveOK(w, d, k) => LeaveOK(x, d, k)
  BY MovedRecords
<1>2. IsFrame(x)
  BY DEF Moved
<1> QED
  BY <1>1, <1>2 DEF Carries

LEMMA CarriesStep ==
    ASSUME LeaveInv(Now, asked), NEW x, Become(x), Carries(Now, x), asked' = asked
    PROVE  RecordInv(Now') /\ LeaveInv(Now', asked')
<1>1. Now' = x
  BY FrameStep DEF Carries
<1>2. RecordInv(x) /\ LeaveInv(x, asked)
  BY DEF Carries, LeaveInv
<1> QED
  BY <1>1, <1>2

-----------------------------------------------------------------------------
\* KICK.

\* The victim is of the channel's shard.
LEMMA LocalOut ==
    ASSUME NEW w, AllPlaced(w), NEW c \in Conns, NEW ch \in Chans, Owner[ch] = Home[c],
           ~IsMember(w, c, ch), ch \notin w.session[c].channels
    PROVE  PairOK(w, c, ch) /\ LeaveOK(w, c, ch)
<1>q. PICK q : q = Requests(w, c, ch)
  OBVIOUS
<1>1. /\ Answers(w, c, ch) = q /\ NoMoves(q, c, ch) /\ NoJoins(q, c, ch)
      /\ \A n : JoinsAs(q, c, ch, n) /\ RenamesTo(q, c, ch, n)
  BY <1>q, LocalQuiet
<1>2. RecordOK(w, c, ch)
  BY <1>1 DEF RecordOK
<1>3. NameOK(w, c, ch)
  BY <1>1, <1>q DEF NameOK
<1>4. GoneOK(w, c, ch)
  BY <1>1, <1>q DEF GoneOK
<1>5. LeaveOK(w, c, ch)
  BY LocalLeaves DEF LeaveOK
<1> QED
  BY <1>2, <1>3, <1>4, <1>5 DEF PairOK

\* The victim's shard is told.
LEMMA KickedPair ==
    ASSUME NEW w, NEW x, NEW c, NEW ch, PairOK(w, c, ch), IsMember(w, c, ch),
           NEW a, Like(Answers(w, c, ch), a, c, ch), NEW r, Added(a, Answers(x, c, ch), r),
           Moves(r, c, ch), ~IsIn(r, c, ch),
           Like(Requests(w, c, ch), Requests(x, c, ch), c, ch),
           SameSeat(w.session[c], x.session[c]), ~IsMember(x, c, ch)
    PROVE  PairOK(x, c, ch) /\ (LeaveOK(w, c, ch) => LeaveOK(x, c, ch))
<1>1. ~NoMoves(Answers(x, c, ch), c, ch) /\ ~EndsIn(Answers(x, c, ch), c, ch)
  BY AddedView
<1>2. RecordOK(x, c, ch)
  BY <1>1 DEF RecordOK
<1>3. NameOK(w, c, ch) => NameOK(x, c, ch)
  BY DEF NameOK, Like, SameSeat
<1>4. GoneOK(w, c, ch) => GoneOK(x, c, ch)
  BY DEF GoneOK, Like
<1>5. LeaveOK(w, c, ch) => LeaveOK(x, c, ch)
  BY DEF LeaveOK, Leaving, Like, SameSeat
<1>6. x.session[c].on = w.session[c].on
  BY DEF SameSeat
<1> QED
  BY <1>2, <1>3, <1>4, <1>5, <1>6 DEF PairOK

Evicted(w, ch, d, cs, line) == RemoveMember(Deliver(w, Owner[ch], cs, line), ch, d)
RemovedMsg(d, ch) == [kind |-> "SessionChannelRemoved", conn |-> d, chan |-> ch]
LEMMA KickOnOwnerIs ==
    ASSUME NEW w, NEW c, NEW nick, NEW ch, NEW x, x = KickOnOwner(w, c, nick, ch).w
    PROVE  \/ x = w
           \/ \E d \in DOMAIN w.members[ch] : \E y, cs, line :
                 /\ y = Evicted(w, ch, d, cs, line)
                 /\ x = IF Home[d] = Owner[ch] THEN RecordPart(y, d, ch, "parted")
                        ELSE Route(y, Owner[ch], Home[d], RemovedMsg(d, ch))
<1> DEFINE victims == {d \in Members(w, ch) : w.members[ch][d].nick = nick}
           op == c \in Members(w, ch) /\ w.members[ch][c].op
           d == CHOOSE e \in victims : TRUE
           cs == Members(w, ch) \ {c}
           line == LeftLine(nick, ch)
           y == Evicted(w, ch, d, cs, line)
<1>1. CASE ~op \/ victims = {}
  <2>1. x = w
    BY <1>1 DEF KickOnOwner
  <2> QED
    BY <2>1
<1>2. CASE op /\ victims # {}
  <2>1. d \in victims
    BY <1>2
  <2>2. d \in DOMAIN w.members[ch]
    BY <2>1 DEF Members
  <2>3. KickOnOwner(w, c, nick, ch) =
            [w |-> IF Home[d] = Owner[ch] THEN RecordPart(y, d, ch, "parted")
                   ELSE Route(y, Owner[ch], Home[d], RemovedMsg(d, ch)),
             result |-> "kicked"]
    BY <1>2 DEF KickOnOwner, Evicted, RemovedMsg
  <2> HIDE DEF d, cs, line
  <2>4. x = IF Home[d] = Owner[ch] THEN RecordPart(y, d, ch, "parted")
            ELSE Route(y, Owner[ch], Home[d], RemovedMsg(d, ch))
    BY <2>3
  <2> QED
    BY <2>2, <2>4
<1> QED
  BY <1>1, <1>2

LEMMA EvictedMoves ==
    ASSUME NEW w, IsFrame(w), Kept(w), NEW c \in Conns, NEW ch \in Chans,
           NEW cs, NEW line, NEW x, x = Evicted(w, ch, c, cs, line)
    PROVE  Moved(w, x, c, ch) /\ Kept(x) /\ Stays(w, x, c, ch) /\ ~IsMember(x, c, ch)
BY RemoveMoves DEF Evicted

LEMMA KickOnOwnerCarries ==
    ASSUME NEW w, IsFrame(w), RecordInv(w), NEW c, NEW nick, NEW ch \in Chans,
           NEW x, x = KickOnOwner(w, c, nick, ch).w
    PROVE  Carries(w, x)
<1>1. CASE x = w
  BY <1>1, CarriesItself
<1>2. ASSUME NEW d \in DOMAIN w.members[ch], NEW y, NEW cs, NEW line,
             y = Evicted(w, ch, d, cs, line),
             x = IF Home[d] = Owner[ch] THEN RecordPart(y, d, ch, "parted")
                 ELSE Route(y, Owner[ch], Home[d], RemovedMsg(d, ch))
      PROVE  Carries(w, x)
  <2>k. Kept(w)
    BY DEF RecordInv
  <2>1. d \in Conns /\ IsMember(w, d, ch)
    BY <1>2, <2>k DEF Kept, IsMembers, IsMember
  <2>p. PairOK(w, d, ch)
    BY <2>1 DEF RecordInv
  <2>2. Moved(w, y, d, ch) /\ Kept(y) /\ Stays(w, y, d, ch) /\ ~IsMember(y, d, ch)
    BY <1>2, <2>1, <2>k, EvictedMoves
  <2>3. IsFrame(y)
    BY <2>2 DEF Moved
  <2>4. y.session[d].on = w.session[d].on
    BY <2>2 DEF Stays, SameSeat
  <2>5. CASE Home[d] = Owner[ch]
    <3>1. x = RecordPart(y, d, ch, "parted")
      BY <1>2, <2>5
    <3>2. /\ Moved(y, x, d, ch) /\ Kept(x) /\ x.members = y.members
          /\ x.session[d].on = y.session[d].on
          /\ x.session[d].channels = y.session[d].channels \ {ch}
      BY <2>1, <2>2, <2>3, <3>1, RecordPartMoves
    <3>3. ~IsMember(x, d, ch) /\ ch \notin x.session[d].channels /\ AllPlaced(x)
      BY <2>2, <3>2 DEF IsMember, Kept
    <3>4. PairOK(x, d, ch) /\ LeaveOK(x, d, ch)
      BY <2>1, <2>5, <3>3, LocalOut
    <3>5. Moved(w, x, d, ch)
      BY <2>2, <3>2, MovedChain
    <3>6. x.session[d].on = w.session[d].on
      BY <2>4, <3>2
    <3> QED
      BY <3>4, <3>5, <3>6, MovedCarries
  <2>6. CASE Home[d] # Owner[ch]
    <3>r. PICK r : r = RemovedMsg(d, ch)
      OBVIOUS
    <3>h. PICK s, t : s = Home[d] /\ t = Owner[ch]
      OBVIOUS
    <3>1. Between(s, t, d, ch)
      BY <2>1, <2>6, <3>h, HomeType, OwnerType DEF Between
    <3>2. x = Route(y, t, s, r)
      BY <1>2, <2>6, <3>r, <3>h
    <3>3. r.kind = "SessionChannelRemoved" /\ r.kind \in Inward /\ r.conn = d /\ r.chan = ch
      BY <3>r DEF RemovedMsg, Inward
    <3>4. ~IsIn(r, d, ch) /\ Moves(r, d, ch)
      BY <3>3, AboutKinds
    <3>5. /\ Placed(y.session, t, s, r)
          /\ \A e \in Conns, k \in Chans : ~(e = d /\ k = ch) => Idle(r, e, k)
      BY <3>1, <3>3, AnswerPlaced
    <3>6. s \in Shards /\ t \in Shards /\ s # t
      BY <3>1 DEF Between
    <3>7. /\ Moved(y, x, d, ch) /\ x.session = y.session /\ x.members = y.members
          /\ Added(y.mail[t][s], x.mail[t][s], r)
          /\ \A a, b \in Shards : ~(a = t /\ b = s) => x.mail[a][b] = y.mail[a][b]
      BY <2>3, <3>2, <3>5, <3>6, RouteMoves, SMTT(30)
    <3>8. /\ Added(Answers(y, d, ch), Answers(x, d, ch), r)
          /\ Requests(x, d, ch) = Requests(y, d, ch)
      BY <3>1, <3>6, <3>7, BetweenQueues
    <3>9. /\ Like(Requests(w, d, ch), Requests(x, d, ch), d, ch)
          /\ Like(Answers(w, d, ch), Answers(y, d, ch), d, ch)
          /\ SameSeat(w.session[d], x.session[d]) /\ ~IsMember(x, d, ch)
      BY <2>2, <3>7, <3>8 DEF Stays, IsMember
    <3>10. PairOK(x, d, ch) /\ (LeaveOK(w, d, ch) => LeaveOK(x, d, ch))
      BY <2>1, <2>p, <3>4, <3>8, <3>9, KickedPair
    <3>11. Moved(w, x, d, ch)
      BY <2>2, <3>7, MovedChain
    <3>12. x.session[d].on = w.session[d].on
      BY <2>4, <3>7
    <3> QED
      BY <3>10, <3>11, <3>12, MovedCarries
  <2> QED
    BY <2>5, <2>6
<1>3. \/ x = w
      \/ \E d \in DOMAIN w.members[ch] : \E y, cs, line :
            /\ y = Evicted(w, ch, d, cs, line)
            /\ x = IF Home[d] = Owner[ch] THEN RecordPart(y, d, ch, "parted")
                   ELSE Route(y, Owner[ch], Home[d], RemovedMsg(d, ch))
  BY KickOnOwnerIs
<1> QED
  BY <1>1, <1>2, <1>3

LEMMA RouteIdle ==
    ASSUME NEW w, IsFrame(w), NEW s \in Shards, NEW t, NEW r, Placed(w.session, s, t, r),
           \A d, k : Idle(r, d, k), NEW x, x = Route(w, s, t, r)
    PROVE  Calm(w, x)
<1>m. PICK msgs : msgs = [y \in {t} |-> r]
  OBVIOUS
<1>1. x = RouteEach(w, s, msgs)
  BY <1>m DEF Route
<1>2. \A b \in Shards \cap DOMAIN msgs :
          Placed(w.session, s, b, msgs[b]) /\ \A d, k : Idle(msgs[b], d, k)
  BY <1>m
<1> QED
  BY <1>1, <1>2, CalmRouteEach

LEMMA KickIdle ==
    ASSUME NEW m, m.kind = "ChannelKick"
    PROVE  /\ \A d, k : Idle(m, d, k)
           /\ m.chan \in Chans => \A se, s, t : Placed(se, s, t, m)
           /\ \A se, s, t : Placed(se, s, t, m) => m.chan \in Chans
BY DEF Idle, Placed, Moves, IsIn, IsOut, IsJoin, IsPart, IsRename, IsQuit, Outward,
       Inward, ReportKinds

LEMMA KickRecords ==
    ASSUME HoldInv(Now), RecordInv(Now), LeaveInv(Now, asked), NEW c \in Conns, NEW ch \in Chans,
           NEW nick, Kick(c, ch, nick)
    PROVE  RecordInv(Now') /\ LeaveInv(Now', asked')
<1>0. asked' = asked
  BY DEF Kick
<1>f. IsFrame(Now) /\ Kept(Now)
  BY FrameNow DEF RecordInv
<1>j. PICK j : j = KickOnOwner(Now, c, nick, ch)
  OBVIOUS
<1>v. PICK v : v = j.w
  OBVIOUS
<1>1. Carries(Now, v)
  BY <1>f, <1>j, <1>v, KickOnOwnerCarries
<1>2. CASE Owner[ch] = Home[c]
  <2>x. PICK x : x = IF j.result = "kicked" THEN Send(v, c, LeftLine(nick, ch)) ELSE v
    OBVIOUS
  <2>1. Become(x)
    BY <1>2, <1>j, <1>v, <2>x DEF Kick
  <2>2. IsFrame(v) /\ RecordInv(v)
    BY <1>1 DEF Carries
  <2>3. Calm(v, x)
    <3>1. CASE j.result # "kicked"
      BY <2>2, <2>x, <3>1, CalmItself
    <3>2. CASE j.result = "kicked"
      <4>1. x = SendAll(v, {c}, LeftLine(nick, ch))
        BY <2>x, <3>2 DEF Send
      <4> QED
        BY <2>2, <4>1, CalmSendAll
    <3> QED
      BY <3>1, <3>2
  <2>4. Carries(v, x)
    BY <2>2, <2>3, CalmCarries
  <2>5. Carries(Now, x)
    BY <1>1, <2>4, CarriesChain
  <2> QED
    BY <1>0, <2>1, <2>5, CarriesStep
<1>3. CASE Owner[ch] # Home[c]
  <2>y. PICK y : y = Defer(Now, c)
    OBVIOUS
  <2>r. PICK r : r = [kind |-> "ChannelKick", conn |-> c, chan |-> ch, nick |-> nick]
    OBVIOUS
  <2>x. PICK x : x = Route(y, Home[c], Owner[ch], r)
    OBVIOUS
  <2>1. Become(x)
    BY <1>3, <2>y, <2>r, <2>x DEF Kick
  <2>2. Calm(Now, y)
    BY <1>f, <2>y, CalmDefer
  <2>3. IsFrame(y) /\ Home[c] \in Shards /\ r.kind = "ChannelKick" /\ r.chan \in Chans
    BY <2>2, <2>r, HomeType DEF Calm
  <2>k. Placed(y.session, Home[c], Owner[ch], r) /\ \A d, k : Idle(r, d, k)
    BY <2>3, KickIdle
  <2>4. Calm(y, x)
    BY <2>3, <2>k, <2>x, RouteIdle
  <2>5. Calm(Now, x)
    BY <2>2, <2>4, CalmChain
  <2> QED
    BY <1>0, <2>1, <2>5, CalmStep
<1> QED
  BY <1>2, <1>3

LEMMA ChannelKickIs ==
    ASSUME NEW s, NEW t, ChannelKick(s, t), NEW m, m = Msg(s, t), NEW v, v = Taken(s, t),
           NEW j, j = KickOnOwner(v, m.conn, m.nick, m.chan)
    PROVE  /\ mail[s][t] # <<>> /\ m.kind = "ChannelKick" /\ asked' = asked
           /\ Become(Route(j.w, t, s, [kind |-> "ChannelKickResult", conn |-> m.conn,
                                       nick |-> m.nick, chan |-> m.chan, result |-> j.result]))
<1>1. Next1(s, t, "ChannelKick") /\ Still
  BY DEF ChannelKick
<1>2. mail[s][t] # <<>> /\ m.kind = "ChannelKick" /\ asked' = asked
  BY <1>1 DEF Next1, Msg, Still
<1> QED
  BY <1>2 DEF ChannelKick

LEMMA ChannelKickRecords ==
    ASSUME HoldInv(Now), RecordInv(Now), LeaveInv(Now, asked), NEW s \in Shards, NEW t \in Shards,
           ChannelKick(s, t)
    PROVE  RecordInv(Now') /\ LeaveInv(Now', asked')
<1>m. PICK m : m = Msg(s, t)
  OBVIOUS
<1>v. PICK v : v = Taken(s, t)
  OBVIOUS
<1>j. PICK j : j = KickOnOwner(v, m.conn, m.nick, m.chan)
  OBVIOUS
<1>y. PICK y : y = j.w
  OBVIOUS
<1>r. PICK r : r = [kind |-> "ChannelKickResult", conn |-> m.conn,
                    nick |-> m.nick, chan |-> m.chan, result |-> j.result]
  OBVIOUS
<1>x. PICK x : x = Route(y, t, s, r)
  OBVIOUS
<1>0. mail[s][t] # <<>> /\ m.kind = "ChannelKick" /\ asked' = asked /\ Become(x)
  BY <1>m, <1>v, <1>j, <1>y, <1>r, <1>x, ChannelKickIs
<1>f. IsFrame(Now) /\ Kept(Now)
  BY FrameNow DEF RecordInv
<1>2. Placed(session, s, t, m)
  BY <1>0, <1>f, <1>m, HeadPlaced
<1>3. m.chan \in Chans /\ \A d, k : Idle(m, d, k)
  BY <1>0, <1>2, KickIdle
<1>4. Calm(Now, v)
  BY <1>0, <1>3, <1>f, <1>m, <1>v, CalmTaken
<1>5. Carries(Now, v)
  BY <1>4, CalmCarries
<1>6. IsFrame(v) /\ RecordInv(v)
  BY <1>5 DEF Carries
<1>7. Carries(v, y)
  BY <1>3, <1>6, <1>j, <1>y, KickOnOwnerCarries
<1>8. IsFrame(y) /\ RecordInv(y) /\ r.kind \in Dull
  BY <1>7, <1>r DEF Carries, Dull
<1>i. Placed(y.session, t, s, r) /\ \A d, k : Idle(r, d, k)
  BY <1>8, DullIdle
<1>9. Calm(y, x)
  BY <1>8, <1>i, <1>x, RouteIdle
<1>10. Carries(y, x)
  BY <1>8, <1>9, CalmCarries
<1>11. Carries(Now, y)
  BY <1>5, <1>7, CarriesChain
<1>12. Carries(Now, x)
  BY <1>10, <1>11, CarriesChain
<1> QED
  BY <1>0, <1>12, CarriesStep

-----------------------------------------------------------------------------
\* A user event and the channels of one shard.

\* Nobody's seat and no promise of the mail changes.
Hushed(w, x) ==
    /\ IsFrame(x) /\ x.memberships = w.memberships
    /\ \A c \in Conns : SameSeat(w.session[c], x.session[c])
    /\ \A s, t \in Shards : \A c, ch : Like(w.mail[s][t], x.mail[s][t], c, ch)
    /\ \A se : PlacedIn(se, w) => PlacedIn(se, x)
MembersOK(ms) == ms = [ch \in Chans |-> ms[ch]] /\ \A ch \in Chans : IsMembers(ms[ch])

LEMMA HushedItself ==
    ASSUME NEW w, IsFrame(w)
    PROVE  Hushed(w, w)
BY LikeItself DEF Hushed, SameSeat

LEMMA HushedChain ==
    ASSUME NEW w, NEW x, NEW y, Hushed(w, x), Hushed(x, y)
    PROVE  Hushed(w, y)
<1>1. \A s, t \in Shards : \A c, ch : Like(w.mail[s][t], y.mail[s][t], c, ch)
  BY LikeChain DEF Hushed
<1>2. \A c \in Conns : SameSeat(w.session[c], y.session[c])
  BY DEF Hushed, SameSeat
<1> QED
  BY <1>1, <1>2 DEF Hushed

LEMMA HushedParts ==
    ASSUME NEW w, IsFrame(w), NEW s \in Shards, NEW event, NEW peers, NEW x,
           x = SendParts(w, s, event, peers)
    PROVE  Hushed(w, x) /\ x.members = w.members
<1>1. Calm(w, x) /\ \A se : PlacedIn(se, w) => PlacedIn(se, x)
  BY CalmSendParts
<1> QED
  BY <1>1 DEF Calm, CalmMail, Hushed

LEMMA PlacedBySame ==
    ASSUME NEW se, NEW w, PlacedIn(se, w), \A c \in Conns : w.session[c].on => se[c].on
    PROVE  AllPlaced(w)
<1>1. \A s, t, m : Placed(se, s, t, m) => Placed(w.session, s, t, m)
  BY PlacedStays
<1> QED
  BY <1>1 DEF PlacedIn, AllPlaced

LEMMA HushedKept ==
    ASSUME NEW w, Kept(w), NEW x, Hushed(w, x), MembersOK(x.members)
    PROVE  Kept(x)
<1>1. \A c \in Conns : /\ x.session[c].on = w.session[c].on
                       /\ x.session[c].channels = w.session[c].channels
  BY DEF Hushed, SameSeat
<1>2. PlacedIn(w.session, w)
  BY DEF Kept, AllPlaced, PlacedIn
<1>3. PlacedIn(w.session, x)
  BY <1>2 DEF Hushed
<1>4. AllPlaced(x)
  BY <1>1, <1>3, PlacedBySame
<1>5. x.memberships = w.memberships
  BY DEF Hushed
<1> QED
  BY <1>1, <1>4, <1>5 DEF Kept, MembersOK

LEMMA HushedPair ==
    ASSUME NEW w, NEW x, Hushed(w, x), NEW c \in Conns, NEW ch \in Chans
    PROVE  /\ Stays(w, x, c, ch)
           /\ SameMarks(w, x, c, ch)
           /\ (IsMember(x, c, ch) <=> IsMember(w, c, ch))
              /\ (IsMember(w, c, ch) => x.members[ch][c].nick = w.members[ch][c].nick)
                  => SamePair(w, x, c, ch)
<1>1. Home[c] \in Shards /\ Owner[ch] \in Shards
  BY HomeType, OwnerType
<1>2. /\ Like(Requests(w, c, ch), Requests(x, c, ch), c, ch)
      /\ Like(Answers(w, c, ch), Answers(x, c, ch), c, ch)
  BY <1>1 DEF Hushed, Requests, Answers
<1>3. SameSeat(w.session[c], x.session[c])
  BY DEF Hushed
<1> QED
  BY <1>2, <1>3 DEF SamePair, Stays, SameMarks, SameSeat

AllMembersSet(w, f) == [w EXCEPT !.members = f]
LEMMA HushedMembers ==
    ASSUME NEW w, IsFrame(w), NEW f, NEW y, y = AllMembersSet(w, f)
    PROVE  Hushed(w, y) /\ y.members = f
<1>1. IsRec(w)
  BY DEF IsFrame
<1>2. /\ IsRec(y) /\ y.session = w.session /\ y.members = f
      /\ y.memberships = w.memberships /\ y.mail = w.mail
  BY <1>1 DEF AllMembersSet, IsRec, WorldFields
<1>3. IsFrame(y)
  BY <1>2 DEF IsFrame
<1>4. \A se : PlacedIn(se, w) => PlacedIn(se, y)
  BY <1>2 DEF PlacedIn
<1> QED
  BY <1>2, <1>3, <1>4, LikeItself DEF Hushed, SameSeat

\* The members of every channel without c in chs, and with c under another nick.
QuitFrom(ms, c, chs) ==
    [k \in Chans |-> IF k \in chs /\ c \in DOMAIN ms[k] THEN Without(ms[k], c) ELSE ms[k]]
RenameIn(ms, c, chs, nick) ==
    [k \in Chans |-> IF k \in chs /\ c \in DOMAIN ms[k] THEN [ms[k] EXCEPT ![c].nick = nick]
                     ELSE ms[k]]

LEMMA QuitFromIs ==
    ASSUME NEW ms, MembersOK(ms), NEW c, NEW chs, NEW f, f = QuitFrom(ms, c, chs)
    PROVE  /\ MembersOK(f)
           /\ \A k \in Chans : /\ Alike(ms[k], f[k], c)
                               /\ k \in chs => c \notin DOMAIN f[k]
                               /\ k \notin chs => f[k] = ms[k]
<1>1. \A k \in Chans : f[k] = IF k \in chs /\ c \in DOMAIN ms[k] THEN Without(ms[k], c) ELSE ms[k]
  BY DEF QuitFrom
<1>2. f = [k \in Chans |-> f[k]]
  BY DEF QuitFrom
<1>3. \A k \in Chans : LET e == Without(ms[k], c) IN
          IsMembers(e) /\ c \notin DOMAIN e /\ Alike(ms[k], e, c)
  BY WithoutMembers DEF MembersOK
<1>4. \A g : Alike(g, g, c)
  BY DEF Alike
<1>5. \A k \in Chans : /\ IsMembers(f[k]) /\ Alike(ms[k], f[k], c)
                       /\ k \in chs => c \notin DOMAIN f[k]
                       /\ k \notin chs => f[k] = ms[k]
  BY <1>1, <1>3, <1>4 DEF MembersOK
<1> QED
  BY <1>2, <1>5 DEF MembersOK

RenamedMember(g, c, nick) == [g EXCEPT ![c].nick = nick]
LEMMA RenamedMembers ==
    ASSUME NEW g, IsMembers(g), NEW c \in DOMAIN g, NEW nick, NEW e, e = RenamedMember(g, c, nick)
    PROVE  IsMembers(e) /\ Alike(g, e, c) /\ c \in DOMAIN e /\ e[c].nick = nick
<1>0. /\ g = [d \in DOMAIN g |-> g[d]] /\ DOMAIN g \subseteq Conns
      /\ \A d \in DOMAIN g : g[d] = [nick |-> g[d].nick, op |-> g[d].op]
  BY DEF IsMembers
<1>r. PICK r : r = [nick |-> nick, op |-> g[c].op]
  OBVIOUS
<1>1. [g[c] EXCEPT !.nick = nick] = r
  <2>1. g[c] = [nick |-> g[c].nick, op |-> g[c].op]
    BY <1>0
  <2> QED
    BY <1>r, <2>1
<1>2. e = [d \in DOMAIN g |-> IF d = c THEN r ELSE g[d]]
  BY <1>0, <1>1 DEF RenamedMember
<1>3. DOMAIN e = DOMAIN g /\ e[c] = r /\ \A d \in DOMAIN g : d # c => e[d] = g[d]
  BY <1>2
<1>4. r = [nick |-> r.nick, op |-> r.op] /\ r.nick = nick
  BY <1>r
<1>5. Alike(g, e, c)
  BY <1>3 DEF Alike
<1>6. \A d \in DOMAIN e : e[d] = [nick |-> e[d].nick, op |-> e[d].op]
  BY <1>0, <1>3, <1>4
<1>7. e = [d \in DOMAIN e |-> e[d]]
  BY <1>2
<1> QED
  BY <1>0, <1>3, <1>4, <1>5, <1>6, <1>7 DEF IsMembers

LEMMA RenameInIs ==
    ASSUME NEW ms, MembersOK(ms), NEW c, NEW chs, NEW nick, NEW f, f = RenameIn(ms, c, chs, nick)
    PROVE  /\ MembersOK(f)
           /\ \A k \in Chans : /\ Alike(ms[k], f[k], c)
                               /\ c \in DOMAIN f[k] <=> c \in DOMAIN ms[k]
                               /\ k \in chs /\ c \in DOMAIN f[k] => f[k][c].nick = nick
                               /\ k \notin chs => f[k] = ms[k]
<1>1. \A k \in Chans : f[k] = IF k \in chs /\ c \in DOMAIN ms[k] THEN RenamedMember(ms[k], c, nick)
                              ELSE ms[k]
  BY DEF RenameIn, RenamedMember
<1>2. f = [k \in Chans |-> f[k]]
  BY DEF RenameIn
<1>3. \A k \in Chans : c \in DOMAIN ms[k] => LET e == RenamedMember(ms[k], c, nick) IN
          IsMembers(e) /\ Alike(ms[k], e, c) /\ c \in DOMAIN e /\ e[c].nick = nick
  BY RenamedMembers DEF MembersOK
<1>4. \A g : Alike(g, g, c)
  BY DEF Alike
<1>5. \A k \in Chans : /\ IsMembers(f[k]) /\ Alike(ms[k], f[k], c)
                       /\ c \in DOMAIN f[k] <=> c \in DOMAIN ms[k]
                       /\ k \in chs /\ c \in DOMAIN f[k] => f[k][c].nick = nick
                       /\ k \notin chs => f[k] = ms[k]
  BY <1>1, <1>3, <1>4 DEF MembersOK
<1> QED
  BY <1>2, <1>5 DEF MembersOK

LEMMA QuitMemberHushed ==
    ASSUME NEW w, IsFrame(w), NEW s \in Shards, NEW chs, NEW event, NEW c, c = event.subject,
           NEW x, x = QuitMember(w, s, chs, event)
    PROVE  Hushed(w, x) /\ x.members = QuitFrom(w.members, c, chs)
<1>f. PICK f : f = QuitFrom(w.members, c, chs)
  OBVIOUS
<1>y. PICK y : y = AllMembersSet(w, f)
  OBVIOUS
<1>1. PICK peers : x = SendParts(y, s, event, peers)
  BY <1>f, <1>y DEF QuitMember, AllMembersSet, QuitFrom, Members
<1>2. Hushed(w, y) /\ y.members = f
  BY <1>y, HushedMembers
<1>3. IsFrame(y)
  BY <1>2 DEF Hushed
<1>4. Hushed(y, x) /\ x.members = y.members
  BY <1>1, <1>3, HushedParts
<1>5. Hushed(w, x)
  BY <1>2, <1>4, HushedChain
<1> QED
  BY <1>f, <1>2, <1>4, <1>5

LEMMA UpdateMemberHushed ==
    ASSUME NEW w, IsFrame(w), NEW s \in Shards, NEW chs, NEW nick, NEW event,
           NEW c, c = event.subject, NEW x, x = UpdateMember(w, s, chs, nick, event)
    PROVE  Hushed(w, x) /\ x.members = RenameIn(w.members, c, chs, nick)
<1>f. PICK f : f = RenameIn(w.members, c, chs, nick)
  OBVIOUS
<1>y. PICK y : y = AllMembersSet(w, f)
  OBVIOUS
<1>1. PICK peers : x = SendParts(y, s, event, peers)
  BY <1>f, <1>y DEF UpdateMember, AllMembersSet, RenameIn, Members
<1>2. Hushed(w, y) /\ y.members = f
  BY <1>y, HushedMembers
<1>3. IsFrame(y)
  BY <1>2 DEF Hushed
<1>4. Hushed(y, x) /\ x.members = y.members
  BY <1>1, <1>3, HushedParts
<1>5. Hushed(w, x)
  BY <1>2, <1>4, HushedChain
<1> QED
  BY <1>f, <1>2, <1>4, <1>5

\* A report of a user event arrives.
LEMMA ReportIdle ==
    ASSUME NEW m, m.kind \in ReportKinds, NEW c, NEW k, ~(c = m.event.subject /\ k \in m.chans)
    PROVE  Idle(m, c, k)
BY DEF ReportKinds, Idle, Moves, IsIn, IsOut, IsJoin, IsPart, IsRename, IsQuit

LEMMA ReportTaken ==
    ASSUME IsFrame(Now), Kept(Now), NEW s \in Shards, NEW t \in Shards, mail[s][t] # <<>>,
           NEW m, m = Msg(s, t), m.kind \in ReportKinds, NEW c, c = m.event.subject,
           NEW v, v = Taken(s, t), NEW x, Hushed(v, x), NEW k \in m.chans
    PROVE  /\ Between(s, t, c, k)
           /\ Dropped(Requests(Now, c, k), v.mail[s][t], m)
           /\ Like(v.mail[s][t], Requests(x, c, k), c, k)
           /\ Like(Answers(Now, c, k), Answers(x, c, k), c, k)
           /\ SameSeat(Now.session[c], x.session[c]) /\ v.members = Now.members
<1>1. Placed(session, s, t, m)
  BY HeadPlaced
<1>2. c \in Conns /\ s = Home[c] /\ s # t /\ k \in Chans /\ t = Owner[k]
  BY <1>1 DEF Placed
<1>3. Between(s, t, c, k)
  BY <1>2 DEF Between
<1>4. \A z : Requests(z, c, k) = z.mail[s][t] /\ Answers(z, c, k) = z.mail[t][s]
  BY <1>3, BetweenQueues
<1>5. /\ v.session = session /\ v.members = members
      /\ Dropped(mail[s][t], v.mail[s][t], m)
      /\ \A a, b \in Shards : ~(a = s /\ b = t) => v.mail[a][b] = mail[a][b]
  BY TakenFrame
<1>6. Now.mail = mail /\ Now.session = session /\ Now.members = members
  BY NowFields
<1>7. SameSeat(Now.session[c], x.session[c])
  <2>1. c \in Conns
    BY <1>2
  <2>2. SameSeat(v.session[c], x.session[c])
    BY <2>1 DEF Hushed
  <2>3. v.session = session
    BY <1>5
  <2> QED
    BY <1>6, <2>2, <2>3
<1>8. Dropped(Requests(Now, c, k), v.mail[s][t], m)
  BY <1>4, <1>5, <1>6
<1>9. Like(v.mail[s][t], Requests(x, c, k), c, k)
  BY <1>4 DEF Hushed
<1>10. Like(Answers(Now, c, k), Answers(x, c, k), c, k)
  <2>1. v.mail[t][s] = mail[t][s]
    <3>1. s # t
      BY <1>2
    <3>2. \A a, b \in Shards : ~(a = s /\ b = t) => v.mail[a][b] = mail[a][b]
      BY <1>5
    <3> QED
      BY <3>1, <3>2
  <2>2. Like(v.mail[t][s], x.mail[t][s], c, k)
    BY DEF Hushed
  <2> QED
    BY <1>4, <1>6, <2>1, <2>2
<1> QED
  BY <1>3, <1>5, <1>6, <1>7, <1>8, <1>9, <1>10

LEMMA ReportRecords ==
    ASSUME HoldInv(Now), RecordInv(Now), LeaveInv(Now, asked), NEW s \in Shards, NEW t \in Shards,
           mail[s][t] # <<>>, NEW m, m = Msg(s, t), m.kind \in ReportKinds,
           NEW c, c = m.event.subject, NEW v, v = Taken(s, t), NEW x, Hushed(v, x),
           MembersOK(x.members), \A k \in Chans : Alike(v.members[k], x.members[k], c),
           \A k \in Chans : k \notin m.chans => x.members[k] = v.members[k],
           \A k \in m.chans : /\ PairOK(x, c, k)
                              /\ Now.session[c].on /\ LeaveOK(Now, c, k) => LeaveOK(x, c, k),
           Become(x), asked' = asked
    PROVE  RecordInv(Now') /\ LeaveInv(Now', asked')
<1>0. IsFrame(Now) /\ Kept(Now)
  BY FrameNow DEF RecordInv
<1>1. /\ Kept(v) /\ v.session = session
      /\ \A d \in Conns, k \in Chans :
            Idle(m, d, k) => SamePair(Now, v, d, k) /\ SameMarks(Now, v, d, k)
  BY <1>0, TakenFrame
<1>2. Kept(x)
  BY <1>1, HushedKept
<1>3. ASSUME NEW d \in Conns, NEW k \in Chans, ~(d = c /\ k \in m.chans)
      PROVE  /\ PairOK(x, d, k) /\ (LeaveOK(Now, d, k) => LeaveOK(x, d, k))
  <2>1. Idle(m, d, k)
    BY <1>3, ReportIdle
  <2>2. SamePair(Now, v, d, k) /\ SameMarks(Now, v, d, k)
    BY <1>1, <2>1
  <2>3. /\ IsMember(x, d, k) <=> IsMember(v, d, k)
        /\ IsMember(v, d, k) => x.members[k][d].nick = v.members[k][d].nick
    BY <1>3 DEF IsMember, Alike
  <2>4. SamePair(v, x, d, k) /\ SameMarks(v, x, d, k)
    BY <2>3, HushedPair
  <2>5. SamePair(Now, x, d, k)
    BY <2>2, <2>4, SamePairChain
  <2>6. SameMarks(Now, x, d, k)
    BY <2>2, <2>4 DEF SameMarks
  <2>7. PairOK(Now, d, k)
    BY DEF RecordInv
  <2> QED
    BY <2>5, <2>6, <2>7, SamePairOK, SameLeaveOK
<1>4. RecordInv(x)
  BY <1>2, <1>3 DEF RecordInv
<1>5. \A d \in Conns : x.session[d].on = Now.session[d].on
  BY <1>1, NowFields DEF Hushed, SameSeat
<1>6. IsFrame(x)
  BY DEF Hushed
<1>7. Carries(Now, x)
  BY <1>3, <1>4, <1>5, <1>6 DEF Carries
<1> QED
  BY <1>7, CarriesStep

\* The owner of the channel drops who has quit, and renames who has a new nick.
LEMMA QuitPair ==
    ASSUME NEW w, NEW x, NEW c, NEW k, PairOK(w, c, k), NEW m, IsQuit(m, c, k),
           NEW q, Dropped(Requests(w, c, k), q, m), Like(q, Requests(x, c, k), c, k),
           ~w.session[c].on, x.session[c].on = w.session[c].on, ~IsMember(x, c, k)
    PROVE  PairOK(x, c, k)
<1>1. GoneOK(w, c, k)
  BY DEF PairOK
<1>q. PICK q0 : q0 = Requests(w, c, k)
  OBVIOUS
<1>2. /\ NoJoins(q0, c, k) => NoJoins(q, c, k)
      /\ QuitLast(q0, c, k) /\ ~NoJoins(q, c, k) => QuitLast(q, c, k)
  BY <1>q, DroppedView
<1>3. GoneOK(x, c, k)
  BY <1>1, <1>2, <1>q DEF GoneOK, Like
<1> QED
  BY <1>3 DEF PairOK

LEMMA RenamedPair ==
    ASSUME NEW w, NEW x, NEW c, NEW k, PairOK(w, c, k), NEW m, IsRename(m, c, k),
           NEW q, Dropped(Requests(w, c, k), q, m), Like(q, Requests(x, c, k), c, k),
           Like(Answers(w, c, k), Answers(x, c, k), c, k),
           SameSeat(w.session[c], x.session[c]), IsMember(x, c, k) <=> IsMember(w, c, k),
           IsMember(x, c, k) => x.members[k][c].nick = m.nick
    PROVE  PairOK(x, c, k) /\ (LeaveOK(w, c, k) => LeaveOK(x, c, k))
<1>q. PICK q0, q2 : q0 = Requests(w, c, k) /\ q2 = Requests(x, c, k)
  OBVIOUS
<1>n. PICK n : n = w.session[c].nick
  OBVIOUS
<1>0. Dropped(q0, q, m) /\ Like(q, q2, c, k) /\ x.session[c].nick = n
  BY <1>q, <1>n DEF SameSeat
<1>k. ~IsJoin(m, c, k) /\ ~IsQuit(m, c, k) /\ ~IsPart(m, c, k)
  BY DEF IsRename, IsJoin, IsQuit, IsPart
<1>1. /\ NoJoins(q, c, k) <=> NoJoins(q0, c, k)
      /\ JoinsAs(q0, c, k, n) => JoinsAs(q, c, k, n)
      /\ RenamesTo(q0, c, k, n) =>
             RenamesTo(q, c, k, n) /\ (NoRenames(q, c, k) => m.nick = n)
      /\ RenamesFirst(q0, c, k) => RenamesFirst(q, c, k)
      /\ QuitLast(q0, c, k) => QuitLast(q, c, k)
      /\ PartLast(q0, c, k) => PartLast(q, c, k)
  BY <1>0, <1>k, DroppedView
<1>2. /\ NoJoins(q2, c, k) <=> NoJoins(q0, c, k)
      /\ JoinsAs(q0, c, k, n) => JoinsAs(q2, c, k, n)
      /\ RenamesTo(q0, c, k, n) =>
             RenamesTo(q2, c, k, n) /\ (NoRenames(q2, c, k) => m.nick = n)
      /\ RenamesFirst(q0, c, k) => RenamesFirst(q2, c, k)
      /\ QuitLast(q0, c, k) => QuitLast(q2, c, k)
      /\ PartLast(q0, c, k) => PartLast(q2, c, k)
  BY <1>0, <1>1 DEF Like
<1>3. RecordOK(w, c, k) => RecordOK(x, c, k)
  BY DEF RecordOK, Like, SameSeat
<1>4. NameOK(w, c, k) => NameOK(x, c, k)
  BY <1>0, <1>2, <1>n, <1>q DEF NameOK
<1>5. GoneOK(w, c, k) => GoneOK(x, c, k)
  BY <1>2, <1>q DEF GoneOK
<1>6. LeaveOK(w, c, k) => LeaveOK(x, c, k)
  BY <1>2, <1>q DEF LeaveOK, Leaving, Like, SameSeat
<1>7. x.session[c].on = w.session[c].on
  BY DEF SameSeat
<1> QED
  BY <1>3, <1>4, <1>5, <1>6, <1>7 DEF PairOK

LEMMA ChannelQuitRecords ==
    ASSUME HoldInv(Now), RecordInv(Now), LeaveInv(Now, asked), NEW s \in Shards, NEW t \in Shards,
           ChannelQuit(s, t)
    PROVE  RecordInv(Now') /\ LeaveInv(Now', asked')
<1>m. PICK m : m = Msg(s, t)
  OBVIOUS
<1>v. PICK v : v = Taken(s, t)
  OBVIOUS
<1>c. PICK c, chs, event : c = m.event.subject /\ chs = m.chans /\ event = m.event
  OBVIOUS
<1>x. PICK x : x = QuitMember(v, t, chs, event)
  OBVIOUS
<1>0. mail[s][t] # <<>> /\ m.kind = "ChannelQuit" /\ m.kind \in ReportKinds /\ asked' = asked
  BY <1>m DEF ChannelQuit, Next1, Msg, Still, ReportKinds
<1>1. Become(x)
  BY <1>c, <1>m, <1>v, <1>x DEF ChannelQuit
<1>f. IsFrame(Now) /\ Kept(Now)
  BY FrameNow DEF RecordInv
<1>2. Kept(v) /\ IsFrame(v)
  BY <1>0, <1>f, <1>m, <1>v, TakenFrame
<1>3. MembersOK(v.members)
  BY <1>2 DEF Kept, MembersOK
<1>e. PICK f : f = QuitFrom(v.members, c, chs)
  OBVIOUS
<1>4. Hushed(v, x) /\ x.members = f
  BY <1>2, <1>c, <1>e, <1>x, QuitMemberHushed
<1>5. /\ MembersOK(f)
      /\ \A k \in Chans : /\ Alike(v.members[k], f[k], c)
                          /\ k \in chs => c \notin DOMAIN f[k]
                          /\ k \notin chs => f[k] = v.members[k]
  BY <1>3, <1>e, QuitFromIs
<1>6. Placed(session, s, t, m)
  BY <1>0, <1>f, <1>m, HeadPlaced
<1>7. c \in Conns /\ ~session[c].on /\ chs \subseteq Chans
  BY <1>0, <1>6, <1>c DEF Placed
<1>8. ~Now.session[c].on
  BY <1>7, NowFields
<1>9. ASSUME NEW k \in m.chans
      PROVE  PairOK(x, c, k)
  <2>1. /\ Dropped(Requests(Now, c, k), v.mail[s][t], m)
        /\ Like(v.mail[s][t], Requests(x, c, k), c, k)
        /\ SameSeat(Now.session[c], x.session[c])
    BY <1>0, <1>4, <1>c, <1>f, <1>m, <1>v, ReportTaken
  <2>2. PairOK(Now, c, k) /\ k \in Chans /\ k \in chs
    BY <1>7, <1>c DEF RecordInv
  <2>3. ~IsMember(x, c, k)
    BY <1>4, <1>5, <2>2 DEF IsMember
  <2>4. IsQuit(m, c, k)
    BY <1>0, <1>c DEF IsQuit
  <2>5. x.session[c].on = Now.session[c].on
    BY <2>1 DEF SameSeat
  <2> QED
    BY <1>8, <2>1, <2>2, <2>3, <2>4, <2>5, QuitPair
<1>10. /\ MembersOK(x.members) /\ \A k \in Chans : Alike(v.members[k], x.members[k], c)
       /\ \A k \in Chans : k \notin m.chans => x.members[k] = v.members[k]
  BY <1>4, <1>5, <1>c
<1>11. \A k \in m.chans : /\ PairOK(x, c, k)
                          /\ Now.session[c].on /\ LeaveOK(Now, c, k) => LeaveOK(x, c, k)
  BY <1>8, <1>9
<1>12. c = m.event.subject
  BY <1>c
<1> QED
  BY <1>0, <1>1, <1>4, <1>10, <1>11, <1>12, <1>m, <1>v, ReportRecords

LEMMA ChannelMemberUpdateRecords ==
    ASSUME HoldInv(Now), RecordInv(Now), LeaveInv(Now, asked), NEW s \in Shards, NEW t \in Shards,
           ChannelMemberUpdate(s, t)
    PROVE  RecordInv(Now') /\ LeaveInv(Now', asked')
<1>m. PICK m : m = Msg(s, t)
  OBVIOUS
<1>v. PICK v : v = Taken(s, t)
  OBVIOUS
<1>c. PICK c, chs, event, nick :
        c = m.event.subject /\ chs = m.chans /\ event = m.event /\ nick = m.nick
  OBVIOUS
<1>x. PICK x : x = UpdateMember(v, t, chs, nick, event)
  OBVIOUS
<1>0. /\ mail[s][t] # <<>> /\ m.kind = "ChannelMemberUpdate" /\ m.kind \in ReportKinds
      /\ asked' = asked
  BY <1>m DEF ChannelMemberUpdate, Next1, Msg, Still, ReportKinds
<1>1. Become(x)
  BY <1>c, <1>m, <1>v, <1>x DEF ChannelMemberUpdate
<1>f. IsFrame(Now) /\ Kept(Now)
  BY FrameNow DEF RecordInv
<1>2. Kept(v) /\ IsFrame(v)
  BY <1>0, <1>f, <1>m, <1>v, TakenFrame
<1>3. MembersOK(v.members)
  BY <1>2 DEF Kept, MembersOK
<1>e. PICK f : f = RenameIn(v.members, c, chs, nick)
  OBVIOUS
<1>4. Hushed(v, x) /\ x.members = f
  BY <1>2, <1>c, <1>e, <1>x, UpdateMemberHushed
<1>5. /\ MembersOK(f)
      /\ \A k \in Chans : /\ Alike(v.members[k], f[k], c)
                          /\ c \in DOMAIN f[k] <=> c \in DOMAIN v.members[k]
                          /\ k \in chs /\ c \in DOMAIN f[k] => f[k][c].nick = nick
                          /\ k \notin chs => f[k] = v.members[k]
  BY <1>3, <1>e, RenameInIs
<1>6. Placed(session, s, t, m)
  BY <1>0, <1>f, <1>m, HeadPlaced
<1>7. c \in Conns /\ chs \subseteq Chans
  BY <1>0, <1>6, <1>c DEF Placed
<1>9. ASSUME NEW k \in m.chans
      PROVE  PairOK(x, c, k) /\ (LeaveOK(Now, c, k) => LeaveOK(x, c, k))
  <2>1. /\ Dropped(Requests(Now, c, k), v.mail[s][t], m)
        /\ Like(v.mail[s][t], Requests(x, c, k), c, k)
        /\ Like(Answers(Now, c, k), Answers(x, c, k), c, k)
        /\ SameSeat(Now.session[c], x.session[c]) /\ v.members = Now.members
    BY <1>0, <1>4, <1>c, <1>f, <1>m, <1>v, ReportTaken
  <2>2. PairOK(Now, c, k) /\ k \in Chans /\ k \in chs
    BY <1>7, <1>c DEF RecordInv
  <2>3. /\ IsMember(x, c, k) <=> IsMember(Now, c, k)
        /\ IsMember(x, c, k) => x.members[k][c].nick = m.nick
    BY <1>4, <1>5, <1>c, <2>1, <2>2 DEF IsMember
  <2>4. IsRename(m, c, k)
    BY <1>0, <1>c DEF IsRename
  <2> QED
    BY <2>1, <2>2, <2>3, <2>4, RenamedPair
<1>10. /\ MembersOK(x.members) /\ \A k \in Chans : Alike(v.members[k], x.members[k], c)
       /\ \A k \in Chans : k \notin m.chans => x.members[k] = v.members[k]
  BY <1>4, <1>5, <1>c
<1>11. \A k \in m.chans : /\ PairOK(x, c, k)
                          /\ Now.session[c].on /\ LeaveOK(Now, c, k) => LeaveOK(x, c, k)
  BY <1>9
<1>12. c = m.event.subject
  BY <1>c
<1> QED
  BY <1>0, <1>1, <1>4, <1>10, <1>11, <1>12, <1>m, <1>v, ReportRecords

-----------------------------------------------------------------------------
\* The session's shard reports a user event to the owners of its channels.

\* m is sent, with messages that move nobody before it and after it.
Sends(q, x, m) ==
    \E q0, q1 : /\ \A d, k : Like(q, q0, d, k)
                /\ Added(q0, q1, m)
                /\ \A d, k : Like(q1, x, d, k)

LEMMA SendsIdle ==
    ASSUME NEW q, NEW x, NEW m, Sends(q, x, m), NEW d, NEW k, Idle(m, d, k)
    PROVE  Like(q, x, d, k)
<1>1. PICK q0, q1 : /\ \A e, l : Like(q, q0, e, l)
                    /\ Added(q0, q1, m)
                    /\ \A e, l : Like(q1, x, e, l)
  BY DEF Sends
<1>2. Like(q, q0, d, k) /\ Like(q0, q1, d, k) /\ Like(q1, x, d, k)
  BY <1>1, AddedIdle
<1>3. Like(q, q1, d, k)
  BY <1>2, LikeChain
<1> QED
  BY <1>2, <1>3, LikeChain

Told(h, b, msgs) == b \in DOMAIN msgs /\ b # h
Reports(w, x, h, msgs) ==
    /\ \A a, b \in Shards : ~(a = h /\ Told(h, b, msgs)) =>
          \A d, k : Like(w.mail[a][b], x.mail[a][b], d, k)
    /\ \A b \in Shards : Told(h, b, msgs) => Sends(w.mail[h][b], x.mail[h][b], msgs[b])
    /\ \A se : (\A b \in Shards : Told(h, b, msgs) => Placed(se, h, b, msgs[b])) =>
          (PlacedIn(se, w) => PlacedIn(se, x))

LEMMA ReportsMade ==
    ASSUME NEW w, IsFrame(w), NEW h \in Shards, NEW msgs,
           NEW first, first = RouteEach(w, h, Below(msgs, h)), NEW here, Hushed(first, here),
           NEW x, x = RouteEach(here, h, Above(msgs, h))
    PROVE  /\ IsFrame(x) /\ Reports(w, x, h, msgs)
           /\ first.members = w.members /\ x.members = here.members
           /\ x.memberships = w.memberships
           /\ \A d \in Conns : SameSeat(w.session[d], x.session[d])
<1>lo. PICK lo : lo = Below(msgs, h)
  OBVIOUS
<1>hi. PICK hi : hi = Above(msgs, h)
  OBVIOUS
<1>1. \A b \in Shards : /\ b \in DOMAIN lo <=> b \in DOMAIN msgs /\ b < h
                        /\ b \in DOMAIN hi <=> b \in DOMAIN msgs /\ b > h
                        /\ b \in DOMAIN lo => lo[b] = msgs[b]
                        /\ b \in DOMAIN hi => hi[b] = msgs[b]
  BY <1>lo, <1>hi DEF Below, Above
<1>2. \A b \in Shards : (b # h <=> b < h \/ b > h) /\ ~(b < h /\ b > h)
  BY MembershipAssumption
<1>3. \A b \in Shards : /\ Told(h, b, msgs) <=> b \in DOMAIN lo \/ b \in DOMAIN hi
                        /\ ~(b \in DOMAIN lo /\ b \in DOMAIN hi)
  BY <1>1, <1>2 DEF Told
<1>4. /\ IsFrame(first) /\ first.session = w.session /\ first.members = w.members
      /\ first.memberships = w.memberships
      /\ \A a, b \in Shards : ~(a = h /\ b \in DOMAIN lo) => first.mail[a][b] = w.mail[a][b]
      /\ \A b \in Shards \cap DOMAIN lo : Added(w.mail[h][b], first.mail[h][b], lo[b])
  BY <1>lo, RouteFrame
<1>5. IsFrame(here) /\ here.memberships = first.memberships
      /\ \A d \in Conns : SameSeat(first.session[d], here.session[d])
  BY DEF Hushed
<1>l. ASSUME NEW a \in Shards, NEW b \in Shards
      PROVE  \A d, k : Like(first.mail[a][b], here.mail[a][b], d, k)
  BY DEF Hushed
<1>p. ASSUME NEW se, PlacedIn(se, first)
      PROVE  PlacedIn(se, here)
  BY <1>p DEF Hushed
<1>6. /\ IsFrame(x) /\ x.session = here.session /\ x.members = here.members
      /\ x.memberships = here.memberships
      /\ \A a, b \in Shards : ~(a = h /\ b \in DOMAIN hi) => x.mail[a][b] = here.mail[a][b]
      /\ \A b \in Shards \cap DOMAIN hi : Added(here.mail[h][b], x.mail[h][b], hi[b])
  BY <1>5, <1>hi, RouteFrame
<1>7. ASSUME NEW a \in Shards, NEW b \in Shards, ~(a = h /\ Told(h, b, msgs))
      PROVE  \A d, k : Like(w.mail[a][b], x.mail[a][b], d, k)
  <2>1. ~(a = h /\ b \in DOMAIN lo) /\ ~(a = h /\ b \in DOMAIN hi)
    BY <1>3, <1>7
  <2>2. first.mail[a][b] = w.mail[a][b] /\ x.mail[a][b] = here.mail[a][b]
    BY <1>4, <1>6, <2>1
  <2>3. \A d, k : Like(first.mail[a][b], here.mail[a][b], d, k)
    BY <1>l
  <2> QED
    BY <2>2, <2>3
<1>8. ASSUME NEW b \in Shards, Told(h, b, msgs)
      PROVE  Sends(w.mail[h][b], x.mail[h][b], msgs[b])
  <2>1. CASE b \in DOMAIN lo
    <3>1. b \notin DOMAIN hi /\ lo[b] = msgs[b]
      BY <1>1, <1>3, <2>1
    <3>2. Added(w.mail[h][b], first.mail[h][b], msgs[b])
      BY <1>4, <2>1, <3>1
    <3>3. \A d, k : Like(first.mail[h][b], x.mail[h][b], d, k)
      <4>1. x.mail[h][b] = here.mail[h][b]
        BY <1>6, <3>1
      <4>2. \A d, k : Like(first.mail[h][b], here.mail[h][b], d, k)
        BY <1>l
      <4> QED
        BY <4>1, <4>2
    <3>4. \A d, k : Like(w.mail[h][b], w.mail[h][b], d, k)
      BY LikeItself
    <3> QED
      BY <3>2, <3>3, <3>4 DEF Sends
  <2>2. CASE b \in DOMAIN hi
    <3>1. b \notin DOMAIN lo /\ hi[b] = msgs[b]
      BY <1>1, <1>3, <2>2
    <3>2. Added(here.mail[h][b], x.mail[h][b], msgs[b])
      BY <1>6, <2>2, <3>1
    <3>3. \A d, k : Like(w.mail[h][b], here.mail[h][b], d, k)
      <4>1. first.mail[h][b] = w.mail[h][b]
        BY <1>4, <3>1
      <4>2. \A d, k : Like(first.mail[h][b], here.mail[h][b], d, k)
        BY <1>l
      <4> QED
        BY <4>1, <4>2
    <3>4. \A d, k : Like(x.mail[h][b], x.mail[h][b], d, k)
      BY LikeItself
    <3> QED
      BY <3>2, <3>3, <3>4 DEF Sends
  <2> QED
    BY <1>3, <1>8, <2>1, <2>2
<1>9. ASSUME NEW se, \A b \in Shards : Told(h, b, msgs) => Placed(se, h, b, msgs[b]), PlacedIn(se, w)
      PROVE  PlacedIn(se, x)
  <2>1. \A b \in Shards \cap DOMAIN lo : Placed(se, h, b, lo[b])
    BY <1>1, <1>3, <1>9
  <2>2. first = RouteEach(w, h, lo)
    BY <1>lo
  <2>3. PlacedIn(se, first)
    BY <1>9, <2>1, <2>2, RoutePlaced
  <2>4. PlacedIn(se, here)
    BY <1>p, <2>3
  <2>5. \A b \in Shards \cap DOMAIN hi : Placed(se, h, b, hi[b])
    BY <1>1, <1>3, <1>9
  <2>6. x = RouteEach(here, h, hi) /\ IsFrame(here)
    BY <1>hi, <1>5
  <2> QED
    BY <2>4, <2>5, <2>6, RoutePlaced
<1>10. Reports(w, x, h, msgs)
  BY <1>7, <1>8, <1>9 DEF Reports
<1>11. \A d \in Conns : SameSeat(w.session[d], x.session[d])
  BY <1>4, <1>5, <1>6
<1> QED
  BY <1>4, <1>5, <1>6, <1>10, <1>11

\* The reports of an event of c to the owners of the channels I.
ReportsIn(msgs, c, I) ==
    /\ \A k \in I : Owner[k] \in DOMAIN msgs
    /\ \A b \in DOMAIN msgs :
          /\ msgs[b].kind \in ReportKinds /\ msgs[b].event.subject = c
          /\ \A k : k \in msgs[b].chans <=> k \in I /\ Owner[k] = b

\* What the reports are to everyone: nothing of another session, one message of c's.
Seen(w, x, c, h, I, msgs) ==
    /\ \A d \in Conns, k \in Chans :
          /\ Like(Answers(w, d, k), Answers(x, d, k), d, k)
          /\ ~(d = c /\ k \in I /\ Owner[k] # h) =>
                 Like(Requests(w, d, k), Requests(x, d, k), d, k)
    /\ \A k \in I : Owner[k] # h =>
          /\ Owner[k] \in DOMAIN msgs /\ k \in msgs[Owner[k]].chans
          /\ Sends(Requests(w, c, k), Requests(x, c, k), msgs[Owner[k]])
    /\ \A se : (\A b \in DOMAIN msgs : msgs[b].kind = "ChannelQuit" => ~se[c].on)
                   /\ PlacedIn(se, w) => PlacedIn(se, x)

LEMMA ReportsSeen ==
    ASSUME NEW w, NEW x, NEW c \in Conns, NEW h, h = Home[c], NEW I, I \subseteq Chans,
           NEW msgs, ReportsIn(msgs, c, I), Reports(w, x, h, msgs)
    PROVE  Seen(w, x, c, h, I, msgs)
<1>0. h \in Shards /\ \A d \in Conns : Home[d] \in Shards
  BY HomeType
<1>1. \A k \in Chans : Owner[k] \in Shards
  BY OwnerType
<1>2. ASSUME NEW d \in Conns, NEW k \in Chans, NEW a \in Shards, NEW b \in Shards,
             ~(d = c /\ k \in I /\ Owner[k] = b /\ b # h)
      PROVE  Like(w.mail[a][b], x.mail[a][b], d, k)
  <2>1. CASE ~(a = h /\ Told(h, b, msgs))
    BY <2>1 DEF Reports
  <2>2. CASE a = h /\ Told(h, b, msgs)
    <3>1. Sends(w.mail[a][b], x.mail[a][b], msgs[b])
      BY <2>2 DEF Reports
    <3>2. b \in DOMAIN msgs /\ b # h
      BY <2>2 DEF Told
    <3>3. msgs[b].kind \in ReportKinds /\ ~(d = msgs[b].event.subject /\ k \in msgs[b].chans)
      BY <1>2, <3>2 DEF ReportsIn
    <3>4. Idle(msgs[b], d, k)
      BY <3>3, ReportIdle
    <3> QED
      BY <3>1, <3>4, SendsIdle
  <2> QED
    BY <2>1, <2>2
<1>3. ASSUME NEW d \in Conns, NEW k \in Chans
      PROVE  Like(Answers(w, d, k), Answers(x, d, k), d, k)
  <2>1. Owner[k] \in Shards /\ Home[d] \in Shards
    BY <1>0, <1>1
  <2>2. ~(d = c /\ k \in I /\ Owner[k] = Home[d] /\ Home[d] # h)
    OBVIOUS
  <2> QED
    BY <1>2, <2>1, <2>2 DEF Answers
<1>4. ASSUME NEW d \in Conns, NEW k \in Chans, ~(d = c /\ k \in I /\ Owner[k] # h)
      PROVE  Like(Requests(w, d, k), Requests(x, d, k), d, k)
  <2>1. Owner[k] \in Shards /\ Home[d] \in Shards
    BY <1>0, <1>1
  <2>2. ~(d = c /\ k \in I /\ Owner[k] = Owner[k] /\ Owner[k] # h)
    BY <1>4
  <2> QED
    BY <1>2, <2>1, <2>2 DEF Requests
<1>5. ASSUME NEW k \in I, Owner[k] # h
      PROVE  /\ Owner[k] \in DOMAIN msgs /\ k \in msgs[Owner[k]].chans
             /\ Sends(Requests(w, c, k), Requests(x, c, k), msgs[Owner[k]])
  <2>1. Owner[k] \in DOMAIN msgs /\ k \in msgs[Owner[k]].chans
    BY <1>5 DEF ReportsIn
  <2>2. Told(h, Owner[k], msgs) /\ Owner[k] \in Shards
    BY <1>1, <1>5, <2>1 DEF Told
  <2>3. Sends(w.mail[h][Owner[k]], x.mail[h][Owner[k]], msgs[Owner[k]])
    BY <2>2 DEF Reports
  <2> QED
    BY <2>1, <2>3 DEF Requests
<1>6. ASSUME NEW se, \A b \in DOMAIN msgs : msgs[b].kind = "ChannelQuit" => ~se[c].on, PlacedIn(se, w)
      PROVE  PlacedIn(se, x)
  <2>1. ASSUME NEW b \in Shards, Told(h, b, msgs)
        PROVE  Placed(se, h, b, msgs[b])
    <3>1. b \in DOMAIN msgs /\ b # h
      BY <2>1 DEF Told
    <3>2. /\ msgs[b].kind \in ReportKinds /\ msgs[b].event.subject = c
          /\ \A k \in msgs[b].chans : k \in Chans /\ b = Owner[k]
      BY <3>1 DEF ReportsIn
    <3>3. msgs[b].kind = "ChannelQuit" => ~se[c].on
      BY <1>6, <3>1
    <3> QED
      BY <3>1, <3>2, <3>3 DEF Placed, ReportKinds, Outward, Inward
  <2> QED
    BY <1>6, <2>1 DEF Reports
<1> QED
  BY <1>3, <1>4, <1>5, <1>6 DEF Seen

\* What a session is neither in nor joining has nothing of it.
LEMMA Uninvolved ==
    ASSUME NEW w, HoldInv(w), NEW c \in Conns, NEW k \in Chans, PairOK(w, c, k),
           w.session[c].on, k \notin Involved(w, c)
    PROVE  ~IsMember(w, c, k) /\ NoJoins(Requests(w, c, k), c, k)
<1>1. k \notin w.session[c].channels /\ CountOf(w.session[c].pending, k) = 0
  BY DEF Involved, CountOf
<1>2. Owed(w.mail, JoinKey(c, k), 0)
  BY <1>1 DEF HoldInv, SessionOK
<1>3. Spots(w.mail, JoinKey(c, k)) = {}
  BY <1>2, FS_EmptySet DEF Owed
<1>4. IsMail(w.mail)
  BY DEF HoldInv, IsWorld
<1>5. ASSUME NEW s \in Shards, NEW t \in Shards, NEW i \in DOMAIN w.mail[s][t]
      PROVE  ~IsJoin(w.mail[s][t][i], c, k) /\ ~IsIn(w.mail[s][t][i], c, k)
  <2>m. PICK m : m = w.mail[s][t][i]
    OBVIOUS
  <2>1. i \in Nat
    BY <1>4, <1>5 DEF IsMail, IsQueue
  <2>2. ~Owes(t, m, JoinKey(c, k))
    <3>p. PICK p : p = <<s, t, i>>
      OBVIOUS
    <3>1. p \in Shards \X Shards \X Nat /\ p[1] = s /\ p[2] = t /\ p[3] = i
      BY <2>1, <3>p
    <3>2. p \notin Spots(w.mail, JoinKey(c, k))
      BY <1>3
    <3> QED
      BY <1>5, <2>m, <3>1, <3>2 DEF Spots
  <2>3. IsJoin(m, c, k) \/ IsIn(m, c, k) => m.kind \in HoldKinds /\ m.kind \in JoinKinds
                                            /\ m.conn = c /\ m.chan = k
    BY DEF IsJoin, IsIn, About, HoldKinds, JoinKinds
  <2>4. ~(IsJoin(m, c, k) \/ IsIn(m, c, k))
    BY <2>2, <2>3, HoldOwes
  <2> QED
    BY <2>m, <2>4
<1>6. Home[c] \in Shards /\ Owner[k] \in Shards
  BY HomeType, OwnerType
<1>7. NoJoins(Requests(w, c, k), c, k)
  BY <1>5, <1>6 DEF NoJoins, Requests
<1>8. ~EndsIn(Answers(w, c, k), c, k)
  BY <1>5, <1>6 DEF EndsIn, Answers
<1>9. ~IsMember(w, c, k)
  BY <1>1, <1>8 DEF PairOK, RecordOK
<1> QED
  BY <1>7, <1>9

-----------------------------------------------------------------------------
\* NICK.

\* Session c is called n, and is otherwise as it was.
SeatAs(w, x, c, n) ==
    /\ x.session[c].on = w.session[c].on /\ x.session[c].nick = n
    /\ x.session[c].channels = w.session[c].channels
    /\ x.session[c].pending = w.session[c].pending
    /\ x.session[c].partOnJoin = w.session[c].partOnJoin
Named(w, v, c, n) ==
    /\ IsFrame(v) /\ v.members = w.members /\ v.memberships = w.memberships /\ v.mail = w.mail
    /\ SeatAs(w, v, c, n)
    /\ \A d \in Conns : d # c => SameSeat(w.session[d], v.session[d])

LEMMA CountedSame ==
    ASSUME NEW w, IsFrame(w), NEW c, NEW x, x = Counted(w, c)
    PROVE  /\ IsFrame(x) /\ x.session = w.session /\ x.members = w.members
           /\ x.memberships = w.memberships /\ x.mail = w.mail
<1>1. IsRec(w)
  BY DEF IsFrame
<1>2. /\ IsRec(x) /\ x.session = w.session /\ x.members = w.members
      /\ x.memberships = w.memberships /\ x.mail = w.mail
  BY <1>1 DEF Counted, IsRec, WorldFields
<1> QED
  BY <1>2 DEF IsFrame

NickSetTo(w, c, n) == [w EXCEPT !.session[c].nick = n]
LEMMA NickWorld ==
    ASSUME NEW w, IsRec(w), w.session = [d \in Conns |-> w.session[d]], NEW c \in Conns,
           NEW n, NEW y, y = NickSetTo(w, c, n), NEW r, r = [w.session[c] EXCEPT !.nick = n]
    PROVE  /\ SameCore(w, y) /\ y.members = w.members /\ y.memberships = w.memberships
           /\ y.session = [d \in Conns |-> IF d = c THEN r ELSE w.session[d]]
<1>2. SameCore(w, y)
  BY DEF NickSetTo, IsRec, WorldFields, SameCore
<1>3. y.session = [d \in Conns |-> IF d = c THEN r ELSE w.session[d]]
  BY DEF NickSetTo, IsRec, WorldFields
<1>4. y.members = w.members /\ y.memberships = w.memberships
  BY DEF NickSetTo, IsRec, WorldFields
<1> QED
  BY <1>2, <1>3, <1>4

LEMMA NamedIs ==
    ASSUME NEW w, IsFrame(w), Kept(w), NEW c \in Conns, NEW n, NEW line,
           NEW u, u = Send(NickSetTo(w, c, n), c, line)
    PROVE  Named(w, u, c, n)
<1>0. IsRec(w) /\ w.session = [d \in Conns |-> w.session[d]]
      /\ w.session[c] = [k \in SessionFields |-> w.session[c][k]]
  BY DEF IsFrame
<1>r. PICK r : r = [w.session[c] EXCEPT !.nick = n]
  OBVIOUS
<1>y. PICK y : y = NickSetTo(w, c, n)
  OBVIOUS
<1>1. /\ r = [k \in SessionFields |-> r[k]] /\ r.on = w.session[c].on /\ r.nick = n
      /\ r.channels = w.session[c].channels /\ r.pending = w.session[c].pending
      /\ r.partOnJoin = w.session[c].partOnJoin
  BY <1>0, <1>r, SeatNick
<1>2. /\ SameCore(w, y) /\ y.members = w.members /\ y.memberships = w.memberships
      /\ y.session = [d \in Conns |-> IF d = c THEN r ELSE w.session[d]]
  BY <1>0, <1>r, <1>y, NickWorld
<1>3. Reseated(w, y, c, r)
  BY <1>1, <1>2, SeatSet
<1>4. ~r.on => r.channels = {}
  BY <1>1 DEF Kept
<1>5. /\ IsFrame(y) /\ y.session[c] = r /\ y.mail = w.mail
      /\ \A d \in Conns : d # c => y.session[d] = w.session[d]
  BY <1>1, <1>3, <1>4, ReseatedKeeps
<1>6. u = SendAll(y, {c}, line)
  BY <1>y DEF Send
<1>7. Calm(y, u)
  BY <1>5, <1>6, CalmSendAll
<1>8. u.mail = y.mail
  <2>1. IsRec(y)
    BY <1>5 DEF IsFrame
  <2>2. SameCore(y, SendAll(y, {c}, line))
    BY <2>1, SendAllIs
  <2> QED
    BY <1>6, <2>2 DEF SameCore
<1>9. /\ IsFrame(u) /\ u.members = y.members /\ u.memberships = y.memberships
      /\ \A d \in Conns : SameSeat(y.session[d], u.session[d])
  BY <1>7 DEF Calm
<1>10. SeatAs(w, u, c, n)
  BY <1>1, <1>5, <1>9 DEF SeatAs, SameSeat
<1>11. \A d \in Conns : d # c => SameSeat(w.session[d], u.session[d])
  BY <1>5, <1>9
<1> QED
  BY <1>2, <1>5, <1>8, <1>9, <1>10, <1>11 DEF Named

LEMMA LeaveLike ==
    ASSUME NEW w, NEW x, NEW c, NEW k, NEW n, SeatAs(w, x, c, n),
           Like(Requests(w, c, k), Requests(x, c, k), c, k),
           Like(Answers(w, c, k), Answers(x, c, k), c, k),
           IsMember(x, c, k) <=> IsMember(w, c, k), LeaveOK(w, c, k)
    PROVE  LeaveOK(x, c, k)
BY DEF SeatAs, LeaveOK, Leaving, Like

\* The channel is another shard's, and is told.
LEMMA NickTold ==
    ASSUME NEW w, NEW x, NEW c, NEW k, NEW n, w.session[c].on, PairOK(w, c, k),
           SeatAs(w, x, c, n), Like(Answers(w, c, k), Answers(x, c, k), c, k),
           NEW m, IsRename(m, c, k), m.nick = n, Sends(Requests(w, c, k), Requests(x, c, k), m),
           IsMember(x, c, k) <=> IsMember(w, c, k)
    PROVE  PairOK(x, c, k) /\ (LeaveOK(w, c, k) => LeaveOK(x, c, k))
<1>q. PICK q, p : q = Requests(w, c, k) /\ p = Requests(x, c, k)
  OBVIOUS
<1>1. PICK q0, q1 : Like(q, q0, c, k) /\ Added(q0, q1, m) /\ Like(q1, p, c, k)
  BY <1>q DEF Sends
<1>2. ~IsJoin(m, c, k)
  BY DEF IsRename, IsJoin
<1>3. /\ NoJoins(q1, c, k) <=> NoJoins(q0, c, k)
      /\ ~NoRenames(q1, c, k) /\ JoinsAs(q1, c, k, n) /\ RenamesTo(q1, c, k, n)
      /\ PartLast(q0, c, k) => PartLast(q1, c, k)
  BY <1>1, <1>2, AddedView
<1>4. /\ NoJoins(p, c, k) <=> NoJoins(q, c, k)
      /\ ~NoRenames(p, c, k) /\ JoinsAs(p, c, k, n) /\ RenamesTo(p, c, k, n)
      /\ PartLast(q, c, k) => PartLast(p, c, k)
  BY <1>1, <1>3 DEF Like
<1>5. x.session[c].nick = n /\ x.session[c].on = w.session[c].on
  BY DEF SeatAs
<1>6. NameOK(x, c, k)
  BY <1>4, <1>5, <1>q DEF NameOK
<1>7. RecordOK(w, c, k) => RecordOK(x, c, k)
  BY DEF RecordOK, Like, SeatAs
<1>8. LeaveOK(w, c, k) => LeaveOK(x, c, k)
  BY <1>4, <1>q DEF LeaveOK, Leaving, Like, SeatAs
<1> QED
  BY <1>5, <1>6, <1>7, <1>8 DEF PairOK

\* The session has nothing to do with the channel.
LEMMA NickUntold ==
    ASSUME NEW w, NEW x, NEW c, NEW k, NEW n, w.session[c].on, PairOK(w, c, k),
           SeatAs(w, x, c, n), Like(Requests(w, c, k), Requests(x, c, k), c, k),
           Like(Answers(w, c, k), Answers(x, c, k), c, k),
           ~IsMember(w, c, k), ~IsMember(x, c, k), NoJoins(Requests(w, c, k), c, k)
    PROVE  PairOK(x, c, k) /\ (LeaveOK(w, c, k) => LeaveOK(x, c, k))
<1>q. PICK p : p = Requests(x, c, k)
  OBVIOUS
<1>1. NoJoins(p, c, k)
  BY <1>q DEF Like
<1>2. RenamesFirst(p, c, k) /\ \A e : JoinsAs(p, c, k, e)
  BY <1>1 DEF NoJoins, RenamesFirst, JoinsAs
<1>3. NameOK(x, c, k)
  BY <1>2, <1>q DEF NameOK
<1>4. RecordOK(w, c, k) => RecordOK(x, c, k)
  BY DEF RecordOK, Like, SeatAs
<1>5. LeaveOK(w, c, k) => LeaveOK(x, c, k)
  BY LeaveLike
<1>6. x.session[c].on = w.session[c].on
  BY DEF SeatAs
<1> QED
  BY <1>3, <1>4, <1>5, <1>6 DEF PairOK

\* The channel is of the session's own shard.
LEMMA NickLocal ==
    ASSUME NEW w, AllPlaced(w), NEW x, AllPlaced(x), NEW c \in Conns, NEW k \in Chans,
           Owner[k] = Home[c], NEW n, w.session[c].on = TRUE, PairOK(w, c, k),
           SeatAs(w, x, c, n), Like(Requests(w, c, k), Requests(x, c, k), c, k),
           Like(Answers(w, c, k), Answers(x, c, k), c, k),
           IsMember(x, c, k) <=> IsMember(w, c, k),
           k \in w.session[c].channels /\ IsMember(x, c, k) => x.members[k][c].nick = n
    PROVE  PairOK(x, c, k) /\ (LeaveOK(w, c, k) => LeaveOK(x, c, k))
<1>1. IsMember(w, c, k) <=> k \in w.session[c].channels
  BY LocalPair
<1>2. /\ x.session[c].on = TRUE /\ x.session[c].nick = n
      /\ x.session[c].channels = w.session[c].channels
  BY DEF SeatAs
<1>3. /\ IsMember(x, c, k) <=> k \in x.session[c].channels
      /\ IsMember(x, c, k) => x.members[k][c].nick = x.session[c].nick
  BY <1>1, <1>2
<1>4. PairOK(x, c, k)
  BY <1>2, <1>3, LocalPair
<1>5. LeaveOK(w, c, k) => LeaveOK(x, c, k)
  BY LeaveLike
<1> QED
  BY <1>4, <1>5

\* What a step that reports an event of c leaves as it was: all mail but c's requests
\* to the owners it tells, all members but c.
OnlyTold(w, x, c, I) ==
    /\ \A d \in Conns, k \in Chans :
          /\ Like(Answers(w, d, k), Answers(x, d, k), d, k)
          /\ ~(d = c /\ k \in I /\ Owner[k] # Home[c]) =>
                 Like(Requests(w, d, k), Requests(x, d, k), d, k)
    /\ \A k \in Chans : Alike(w.members[k], x.members[k], c)

LEMMA OthersReported ==
    ASSUME NEW w, NEW x, NEW c, NEW I, OnlyTold(w, x, c, I), NEW d \in Conns, d # c,
           SameSeat(w.session[d], x.session[d]), NEW k \in Chans, PairOK(w, d, k)
    PROVE  PairOK(x, d, k) /\ (LeaveOK(w, d, k) => LeaveOK(x, d, k))
<1>1. /\ IsMember(x, d, k) <=> IsMember(w, d, k)
      /\ IsMember(w, d, k) => x.members[k][d].nick = w.members[k][d].nick
  BY DEF OnlyTold, Alike, IsMember
<1>2. /\ Like(Requests(w, d, k), Requests(x, d, k), d, k)
      /\ Like(Answers(w, d, k), Answers(x, d, k), d, k)
  BY DEF OnlyTold
<1>3. SamePair(w, x, d, k) /\ SameMarks(w, x, d, k)
  BY <1>1, <1>2 DEF SamePair, SameMarks, SameSeat
<1> QED
  BY <1>3, SamePairOK, SameLeaveOK

\* The owners of the channels of c hear that it is called n.
NickHeard(w, x, c, n, I, msgs) ==
    /\ \A k \in I : Owner[k] # Home[c] =>
          /\ IsRename(msgs[Owner[k]], c, k) /\ msgs[Owner[k]].nick = n
          /\ Sends(Requests(w, c, k), Requests(x, c, k), msgs[Owner[k]])
    /\ \A k \in Chans : IsMember(x, c, k) <=> IsMember(w, c, k)
    /\ \A k \in I : Owner[k] = Home[c] /\ IsMember(x, c, k) => x.members[k][c].nick = n
Passes(w, x, c, k) == PairOK(x, c, k) /\ (LeaveOK(w, c, k) => LeaveOK(x, c, k))
LEMMA NickPairs ==
    ASSUME NEW w, HoldInv(w), RecordInv(w), NEW c \in Conns, w.session[c].on = TRUE,
           NEW n, NEW I, I = Involved(w, c), NEW x, AllPlaced(x), OnlyTold(w, x, c, I),
           SeatAs(w, x, c, n), NEW msgs,
           NickHeard(w, x, c, n, I, msgs), NEW k \in Chans
    PROVE  Passes(w, x, c, k)
<1>0. PairOK(w, c, k) /\ AllPlaced(w)
  BY DEF RecordInv, Kept
<1>1. Like(Answers(w, c, k), Answers(x, c, k), c, k)
  BY DEF OnlyTold
<1>2. IsMember(x, c, k) <=> IsMember(w, c, k)
  BY DEF NickHeard
<1>3. ~(k \in I /\ Owner[k] # Home[c]) => Like(Requests(w, c, k), Requests(x, c, k), c, k)
  BY DEF OnlyTold
<1>4. CASE k \in I /\ Owner[k] # Home[c]
  <2>m. PICK m : m = msgs[Owner[k]]
    OBVIOUS
  <2>1. IsRename(m, c, k) /\ m.nick = n /\ Sends(Requests(w, c, k), Requests(x, c, k), m)
    BY <1>4, <2>m DEF NickHeard
  <2>2. w.session[c].on
    OBVIOUS
  <2> QED
    BY <1>0, <1>1, <1>2, <2>1, <2>2, NickTold DEF Passes
<1>5. CASE Owner[k] = Home[c]
  <2>1. Like(Requests(w, c, k), Requests(x, c, k), c, k)
    BY <1>3, <1>5
  <2>2. k \in w.session[c].channels => k \in I
    BY DEF Involved
  <2>3. k \in w.session[c].channels /\ IsMember(x, c, k) => x.members[k][c].nick = n
    BY <1>5, <2>2 DEF NickHeard
  <2> QED
    BY <1>0, <1>1, <1>2, <1>5, <2>1, <2>3, NickLocal DEF Passes
<1>6. CASE k \notin I
  <2>1. Like(Requests(w, c, k), Requests(x, c, k), c, k)
    BY <1>3, <1>6
  <2>2. w.session[c].on /\ k \notin Involved(w, c)
    BY <1>6
  <2>3. ~IsMember(w, c, k) /\ NoJoins(Requests(w, c, k), c, k)
    BY <1>0, <2>2, Uninvolved
  <2>4. ~IsMember(x, c, k)
    BY <1>2, <2>3
  <2> QED
    BY <1>0, <1>1, <2>1, <2>2, <2>3, <2>4, NickUntold DEF Passes
<1> QED
  BY <1>4, <1>5, <1>6

NickMsgs(msgs, n) ==
    \A b \in DOMAIN msgs : msgs[b].kind = "ChannelMemberUpdate" /\ msgs[b].nick = n
Own(chs, I, h) == \A k : k \in chs <=> k \in I /\ Owner[k] = h
LEMMA NickCarries ==
    ASSUME NEW w, HoldInv(w), IsFrame(w), RecordInv(w), NEW c \in Conns, w.session[c].on = TRUE,
           NEW n, NEW u, Named(w, u, c, n), NEW v, v = Counted(u, c), NEW h, h = Home[c],
           NEW I, I = Involved(w, c), NEW msgs, ReportsIn(msgs, c, I),
           NickMsgs(msgs, n), NEW first, first = RouteEach(v, h, Below(msgs, h)), NEW here, Hushed(first, here),
           NEW chs, Own(chs, I, h),
           here.members = RenameIn(first.members, c, chs, n),
           NEW x, x = RouteEach(here, h, Above(msgs, h))
    PROVE  Carries(w, x)
<1>0. Kept(w) /\ h \in Shards /\ \A d \in Conns, k \in Chans : PairOK(w, d, k)
  BY HomeType DEF RecordInv
<1>1. /\ IsFrame(u) /\ u.members = w.members /\ u.memberships = w.memberships /\ u.mail = w.mail
      /\ SeatAs(w, u, c, n) /\ \A d \in Conns : d # c => SameSeat(w.session[d], u.session[d])
  BY DEF Named
<1>2. /\ IsFrame(v) /\ v.session = u.session /\ v.members = u.members
      /\ v.memberships = u.memberships /\ v.mail = u.mail
  BY <1>1, CountedSame
<1>3. /\ IsFrame(x) /\ Reports(v, x, h, msgs)
      /\ first.members = v.members /\ x.members = here.members
      /\ x.memberships = v.memberships
      /\ \A d \in Conns : SameSeat(v.session[d], x.session[d])
  BY <1>0, <1>2, ReportsMade
<1>i. I \subseteq Chans
  BY DEF HoldInv, IsWorld, IsSession, IsCounts, Involved
<1>r. Reports(v, x, h, msgs)
  BY <1>3
<1>4s. Seen(v, x, c, h, I, msgs)
  BY <1>i, <1>r, ReportsSeen
<1>4. /\ \A d \in Conns, k \in Chans :
            /\ Like(Answers(v, d, k), Answers(x, d, k), d, k)
            /\ ~(d = c /\ k \in I /\ Owner[k] # h) =>
                   Like(Requests(v, d, k), Requests(x, d, k), d, k)
      /\ \A k \in I : Owner[k] # h =>
            /\ Owner[k] \in DOMAIN msgs /\ k \in msgs[Owner[k]].chans
            /\ Sends(Requests(v, c, k), Requests(x, c, k), msgs[Owner[k]])
      /\ \A se : (\A b \in DOMAIN msgs : msgs[b].kind = "ChannelQuit" => ~se[c].on)
                     /\ PlacedIn(se, v) => PlacedIn(se, x)
  BY <1>4s DEF Seen
<1>5. \A d, k : Answers(v, d, k) = Answers(w, d, k) /\ Requests(v, d, k) = Requests(w, d, k)
  BY <1>1, <1>2 DEF Answers, Requests
<1>m. PICK ms : ms = w.members
  OBVIOUS
<1>f. PICK f : f = x.members
  OBVIOUS
<1>6. MembersOK(ms) /\ f = RenameIn(ms, c, chs, n)
  BY <1>0, <1>1, <1>2, <1>3, <1>m, <1>f DEF Kept, MembersOK
<1>7. /\ MembersOK(f)
      /\ \A k \in Chans : /\ Alike(ms[k], f[k], c)
                          /\ c \in DOMAIN f[k] <=> c \in DOMAIN ms[k]
                          /\ k \in chs /\ c \in DOMAIN f[k] => f[k][c].nick = n
  BY <1>6, RenameInIs
<1>8. OnlyTold(w, x, c, I)
  BY <1>4, <1>5, <1>7, <1>m, <1>f DEF OnlyTold
<1>9. /\ SeatAs(w, x, c, n)
      /\ \A d \in Conns : d # c => SameSeat(w.session[d], x.session[d])
  BY <1>1, <1>2, <1>3, SMTT(30) DEF SeatAs, SameSeat
<1>10. \A d \in Conns : /\ x.session[d].on = w.session[d].on
                        /\ x.session[d].channels = w.session[d].channels
  BY <1>9 DEF SeatAs, SameSeat
<1>11. AllPlaced(x)
  <2>1. PlacedIn(w.session, v)
    BY <1>0, <1>1, <1>2 DEF Kept, AllPlaced, PlacedIn
  <2>2. \A b \in DOMAIN msgs : msgs[b].kind # "ChannelQuit"
    BY DEF NickMsgs
  <2>3. PlacedIn(w.session, x)
    BY <1>4, <2>1, <2>2
  <2> QED
    BY <1>10, <2>3, PlacedBySame
<1>12. x.memberships = w.memberships
  BY <1>1, <1>2, <1>3
<1>13. Kept(x)
  BY <1>0, <1>7, <1>10, <1>11, <1>12, <1>f DEF Kept, MembersOK
<1>14. \A k \in I : Owner[k] # Home[c] =>
           /\ IsRename(msgs[Owner[k]], c, k) /\ msgs[Owner[k]].nick = n
           /\ Sends(Requests(w, c, k), Requests(x, c, k), msgs[Owner[k]])
  BY <1>4, <1>5 DEF IsRename, NickMsgs, ReportsIn
<1>15. /\ \A k \in Chans : IsMember(x, c, k) <=> IsMember(w, c, k)
       /\ \A k \in I : Owner[k] = Home[c] /\ IsMember(x, c, k) => x.members[k][c].nick = n
  BY <1>7, <1>i, <1>m, <1>f DEF IsMember, Own
<1>16. \A k \in Chans : PairOK(x, c, k) /\ (LeaveOK(w, c, k) => LeaveOK(x, c, k))
  <2>1. SeatAs(w, x, c, n)
    BY <1>9
  <2>2. NickHeard(w, x, c, n, I, msgs)
    BY <1>14, <1>15 DEF NickHeard
  <2>3. ASSUME NEW k \in Chans
        PROVE  Passes(w, x, c, k)
    BY <1>8, <1>11, <2>1, <2>2, NickPairs
  <2> QED
    BY <2>3 DEF Passes
<1>17. \A d \in Conns, k \in Chans : d # c =>
           PairOK(x, d, k) /\ (LeaveOK(w, d, k) => LeaveOK(x, d, k))
  BY <1>0, <1>8, <1>9, OthersReported
<1>18. RecordInv(x)
  BY <1>13, <1>16, <1>17 DEF RecordInv
<1> QED
  BY <1>3, <1>10, <1>16, <1>17, <1>18 DEF Carries

LEMMA ReportsAre ==
    ASSUME NEW w, NEW c, NEW I, I = Involved(w, c), NEW O, O = Owners(w, c),
           NEW msgs, DOMAIN msgs = O,
           \A t \in O : /\ msgs[t].kind \in ReportKinds /\ msgs[t].event.subject = c
                        /\ msgs[t].chans = OwnedBy(w, c, t)
    PROVE  ReportsIn(msgs, c, I)
<1>1. \A k \in I : Owner[k] \in O
  BY DEF Owners
<1>2. \A t, k : k \in OwnedBy(w, c, t) <=> k \in I /\ Owner[k] = t
  BY DEF OwnedBy
<1> QED
  BY <1>1, <1>2 DEF ReportsIn

LEMMA RenameNone ==
    ASSUME NEW ms, MembersOK(ms), NEW c, NEW n, NEW chs, \A k : k \notin chs
    PROVE  RenameIn(ms, c, chs, n) = ms /\ QuitFrom(ms, c, chs) = ms
<1>1. RenameIn(ms, c, chs, n) = [k \in Chans |-> ms[k]]
  BY DEF RenameIn
<1>2. QuitFrom(ms, c, chs) = [k \in Chans |-> ms[k]]
  BY DEF QuitFrom
<1> QED
  BY <1>1, <1>2 DEF MembersOK

LEMMA NickRecords ==
    ASSUME HoldInv(Now), RecordInv(Now), LeaveInv(Now, asked), NEW c \in Conns, NEW n, Nick(c, n)
    PROVE  RecordInv(Now') /\ LeaveInv(Now', asked')
<1>h. PICK h : h = Home[c]
  OBVIOUS
<1>l. PICK line : line = NickLine(session[c].nick, n)
  OBVIOUS
<1>u. PICK u : u = Send(NickSetTo(Now, c, n), c, line)
  OBVIOUS
<1>v. PICK event : event = NewEvent(u, c, line)
  OBVIOUS
<1>o. PICK O : O = Owners(u, c)
  OBVIOUS
<1>g. PICK msgs : msgs = [t \in O |-> [kind |-> "ChannelMemberUpdate", chans |-> OwnedBy(u, c, t),
                                       nick |-> n, event |-> event]]
  OBVIOUS
<1>y. PICK y : y = Counted(u, c)
  OBVIOUS
<1>f. PICK first : first = RouteEach(y, h, Below(msgs, h))
  OBVIOUS
<1>s. PICK chs : chs = OwnedBy(u, c, h)
  OBVIOUS
<1>e. PICK here : here = IF h \notin O THEN first ELSE UpdateMember(first, h, chs, n, event)
  OBVIOUS
<1>x. PICK x : x = RouteEach(here, h, Above(msgs, h))
  OBVIOUS
<1>0. Become(x)
  BY <1>h, <1>l, <1>u, <1>v, <1>o, <1>g, <1>y, <1>f, <1>s, <1>e, <1>x DEF Nick, NickSetTo
<1>1. asked' = asked /\ session[c].on
  BY DEF Nick, Command
<1>2. IsFrame(Now) /\ Kept(Now) /\ Now.session[c].on = TRUE
  <2>1. IsFrame(Now) /\ session[c].on \in BOOLEAN
    BY FrameNow
  <2> QED
    BY <1>1, <2>1, NowFields DEF RecordInv
<1>3. Named(Now, u, c, n)
  BY <1>2, <1>u, NamedIs
<1>4. IsFrame(u) /\ u.members = Now.members
  BY <1>3 DEF Named
<1>i. PICK I : I = Involved(Now, c)
  OBVIOUS
<1>5. I = Involved(u, c)
  BY <1>3, <1>i DEF Named, SeatAs, Involved
<1>6. DOMAIN msgs = O /\ \A t \in O : /\ msgs[t].kind = "ChannelMemberUpdate" /\ msgs[t].nick = n
                                      /\ msgs[t].kind \in ReportKinds /\ msgs[t].event.subject = c
                                      /\ msgs[t].chans = OwnedBy(u, c, t)
  <2>1. event.subject = c
    BY <1>v DEF NewEvent
  <2> QED
    BY <1>g, <2>1 DEF ReportKinds
<1>7. ReportsIn(msgs, c, I)
  BY <1>5, <1>6, <1>o, ReportsAre
<1>8. \A k : k \in chs <=> k \in I /\ Owner[k] = h
  BY <1>5, <1>s DEF OwnedBy
<1>9. IsFrame(y) /\ y.members = u.members
  BY <1>4, <1>y, CountedSame
<1>10. IsFrame(first) /\ first.members = y.members
  <2>1. h \in Shards
    BY <1>h, HomeType
  <2>2. PICK lo : lo = Below(msgs, h)
    OBVIOUS
  <2>3. first = RouteEach(y, h, lo)
    BY <1>f, <2>2
  <2> QED
    BY <1>9, <2>1, <2>3, RouteFrame
<1>11. Hushed(first, here) /\ here.members = RenameIn(first.members, c, chs, n)
  <2>1. CASE h \notin O
    <3>1. here = first
      BY <1>e, <2>1
    <3>2. \A k : k \notin chs
      BY <1>8, <1>5, <1>o, <2>1 DEF Owners
    <3>3. MembersOK(first.members)
      BY <1>2, <1>4, <1>9, <1>10 DEF Kept, MembersOK
    <3>4. RenameIn(first.members, c, chs, n) = first.members
      BY <3>2, <3>3, RenameNone
    <3> QED
      BY <1>10, <3>1, <3>4, HushedItself
  <2>2. CASE h \in O
    <3>1. here = UpdateMember(first, h, chs, n, event)
      BY <1>e, <2>2
    <3>2. c = event.subject /\ h \in Shards
      BY <1>v, <1>h, HomeType DEF NewEvent
    <3> QED
      BY <1>10, <3>1, <3>2, UpdateMemberHushed
  <2> QED
    BY <2>1, <2>2
<1>12. NickMsgs(msgs, n) /\ Own(chs, I, h)
  BY <1>6, <1>8 DEF NickMsgs, Own
<1>13. Carries(Now, x)
  BY <1>2, <1>3, <1>7, <1>11, <1>12, <1>f, <1>h, <1>i, <1>x, <1>y, NickCarries
<1> QED
  BY <1>0, <1>1, <1>13, CarriesStep

-----------------------------------------------------------------------------
\* The end of a session.

Ended(x, c, r, u) == [x EXCEPT !.session[c] = r, !.memberships[c] = {}, !.view[c] = u]
LEMMA EndedWorld ==
    ASSUME NEW x, IsRec(x), x.session = [d \in Conns |-> x.session[d]],
           x.memberships = [d \in Conns |-> x.memberships[d]], NEW c \in Conns,
           NEW r, NEW u, NEW z, z = Ended(x, c, r, u)
    PROVE  /\ IsRec(z) /\ z.members = x.members /\ z.mail = x.mail
           /\ z.session = [d \in Conns |-> IF d = c THEN r ELSE x.session[d]]
           /\ z.memberships = [d \in Conns |-> IF d = c THEN {} ELSE x.memberships[d]]
<1>1. IsRec(z) /\ z.members = x.members /\ z.mail = x.mail
  BY DEF Ended, IsRec, WorldFields
<1>2. z.session = [d \in Conns |-> IF d = c THEN r ELSE x.session[d]]
  BY DEF Ended, IsRec, WorldFields
<1>3. z.memberships = [d \in Conns |-> IF d = c THEN {} ELSE x.memberships[d]]
  BY DEF Ended, IsRec, WorldFields
<1> QED
  BY <1>1, <1>2, <1>3

Blank(r) == r = [k \in SessionFields |-> r[k]] /\ r.on = FALSE /\ r.channels = {}
EndsAs(x, z, c) ==
    /\ IsFrame(z) /\ z.members = x.members /\ z.mail = x.mail
    /\ z.session[c].on = FALSE /\ z.session[c].channels = {}
    /\ \A d \in Conns : d # c => z.session[d] = x.session[d]
    /\ z.memberships = [d \in Conns |-> z.memberships[d]] /\ z.memberships[c] = {}
    /\ \A d \in Conns : d # c => z.memberships[d] = x.memberships[d]

LEMMA EndedIs ==
    ASSUME NEW x, IsFrame(x), x.memberships = [d \in Conns |-> x.memberships[d]], NEW c \in Conns,
           NEW r, Blank(r), NEW u, NEW z, z = Ended(x, c, r, u)
    PROVE  EndsAs(x, z, c)
<1>0. IsRec(x) /\ x.session = [d \in Conns |-> x.session[d]] /\ IsMail(x.mail)
  BY DEF IsFrame
<1>s. \A d \in Conns : x.session[d] = [k \in SessionFields |-> x.session[d][k]]
  BY DEF IsFrame
<1>1. r = [k \in SessionFields |-> r[k]] /\ r.on = FALSE /\ r.channels = {}
  BY DEF Blank
<1>2. /\ IsRec(z) /\ z.members = x.members /\ z.mail = x.mail
      /\ z.session = [d \in Conns |-> IF d = c THEN r ELSE x.session[d]]
      /\ z.memberships = [d \in Conns |-> IF d = c THEN {} ELSE x.memberships[d]]
  BY <1>0, EndedWorld
<1>3. /\ z.session = [d \in Conns |-> z.session[d]] /\ z.session[c] = r
      /\ \A d \in Conns : d # c => z.session[d] = x.session[d]
  BY <1>2
<1>4. /\ z.memberships = [d \in Conns |-> z.memberships[d]] /\ z.memberships[c] = {}
      /\ \A d \in Conns : d # c => z.memberships[d] = x.memberships[d]
  BY <1>2
<1>5. ASSUME NEW d \in Conns
      PROVE  z.session[d] = [k \in SessionFields |-> z.session[d][k]]
  <2>1. CASE d = c
    BY <1>1, <1>3, <2>1
  <2>2. CASE d # c
    BY <1>s, <1>3, <2>2
  <2> QED
    BY <2>1, <2>2
<1>6. IsFrame(z)
  BY <1>0, <1>2, <1>3, <1>5 DEF IsFrame
<1> QED
  BY <1>1, <1>2, <1>3, <1>4, <1>6 DEF EndsAs

\* The owners of the channels of c hear that it quits, its own shard at once.
QuitHeard(w, x, c, I, msgs) ==
    /\ \A k \in I : Owner[k] # Home[c] =>
          /\ IsQuit(msgs[Owner[k]], c, k)
          /\ Sends(Requests(w, c, k), Requests(x, c, k), msgs[Owner[k]])
    /\ \A k \in Chans : IsMember(x, c, k) => IsMember(w, c, k)
    /\ \A k \in I : Owner[k] = Home[c] => ~IsMember(x, c, k)

LEMMA QuitTold ==
    ASSUME NEW q, NEW x, NEW m, Sends(q, x, m), NEW c, NEW k, IsQuit(m, c, k)
    PROVE  QuitLast(x, c, k)
<1>1. PICK q0, q1 : Added(q0, q1, m) /\ Like(q1, x, c, k)
  BY DEF Sends
<1>2. QuitLast(q1, c, k)
  BY <1>1, AddedView
<1> QED
  BY <1>1, <1>2 DEF Like

LEMMA QuitPairs ==
    ASSUME NEW w, HoldInv(w), RecordInv(w), NEW c \in Conns, w.session[c].on = TRUE,
           NEW I, I = Involved(w, c), NEW x, AllPlaced(x), OnlyTold(w, x, c, I),
           x.session[c].on = FALSE, NEW msgs, QuitHeard(w, x, c, I, msgs), NEW k \in Chans
    PROVE  PairOK(x, c, k)
<1>0. PairOK(w, c, k)
  BY DEF RecordInv
<1>1. CASE k \in I /\ Owner[k] # Home[c]
  <2>m. PICK m : m = msgs[Owner[k]]
    OBVIOUS
  <2>1. IsQuit(m, c, k) /\ Sends(Requests(w, c, k), Requests(x, c, k), m)
    BY <1>1, <2>m DEF QuitHeard
  <2>2. QuitLast(Requests(x, c, k), c, k)
    BY <2>1, QuitTold
  <2> QED
    BY <2>2 DEF PairOK, GoneOK
<1>2. CASE k \in I /\ Owner[k] = Home[c]
  <2>1. ~IsMember(x, c, k)
    BY <1>2 DEF QuitHeard
  <2>2. NoJoins(Requests(x, c, k), c, k)
    BY <1>2, LocalQuiet
  <2> QED
    BY <2>1, <2>2 DEF PairOK, GoneOK
<1>3. CASE k \notin I
  <2>1. Like(Requests(w, c, k), Requests(x, c, k), c, k)
    BY <1>3 DEF OnlyTold
  <2>2. w.session[c].on /\ k \notin Involved(w, c)
    BY <1>3
  <2>3. ~IsMember(w, c, k) /\ NoJoins(Requests(w, c, k), c, k)
    BY <1>0, <2>2, Uninvolved
  <2>4. ~IsMember(x, c, k) /\ NoJoins(Requests(x, c, k), c, k)
    BY <2>1, <2>3 DEF QuitHeard, Like
  <2> QED
    BY <2>4 DEF PairOK, GoneOK
<1> QED
  BY <1>1, <1>2, <1>3

\* Everyone but c is where he was; c is gone.
OnlyGone(w, z, c) ==
    /\ IsFrame(z) /\ RecordInv(z) /\ z.session[c].on = FALSE
    /\ \A d \in Conns, k \in Chans : d # c =>
          /\ z.session[d].on = w.session[d].on
          /\ LeaveOK(w, d, k) => LeaveOK(z, d, k)
QuitMsgs(msgs) == \A b \in DOMAIN msgs : msgs[b].kind = "ChannelQuit"

LEMMA CloseCarries ==
    ASSUME NEW w, HoldInv(w), IsFrame(w), RecordInv(w), NEW c \in Conns, w.session[c].on = TRUE,
           NEW v, v = Counted(w, c), NEW h, h = Home[c],
           NEW I, I = Involved(w, c), NEW msgs, ReportsIn(msgs, c, I), QuitMsgs(msgs),
           NEW first, first = RouteEach(v, h, Below(msgs, h)), NEW here, Hushed(first, here),
           NEW chs, Own(chs, I, h), here.members = QuitFrom(first.members, c, chs),
           NEW x, x = RouteEach(here, h, Above(msgs, h)),
           NEW z, EndsAs(x, z, c)
    PROVE  OnlyGone(w, z, c)
<1>0. Kept(w) /\ h \in Shards /\ \A d \in Conns, k \in Chans : PairOK(w, d, k)
  BY HomeType DEF RecordInv
<1>2. /\ IsFrame(v) /\ v.session = w.session /\ v.members = w.members
      /\ v.memberships = w.memberships /\ v.mail = w.mail
  BY CountedSame
<1>3. /\ IsFrame(x) /\ Reports(v, x, h, msgs)
      /\ first.members = v.members /\ x.members = here.members
      /\ x.memberships = v.memberships
      /\ \A d \in Conns : SameSeat(v.session[d], x.session[d])
  BY <1>0, <1>2, ReportsMade
<1>i. I \subseteq Chans
  BY DEF HoldInv, IsWorld, IsSession, IsCounts, Involved
<1>r. Reports(v, x, h, msgs)
  BY <1>3
<1>4s. Seen(v, x, c, h, I, msgs)
  BY <1>i, <1>r, ReportsSeen
<1>4. /\ \A d \in Conns, k \in Chans :
            /\ Like(Answers(v, d, k), Answers(x, d, k), d, k)
            /\ ~(d = c /\ k \in I /\ Owner[k] # h) =>
                   Like(Requests(v, d, k), Requests(x, d, k), d, k)
      /\ \A k \in I : Owner[k] # h =>
            /\ Owner[k] \in DOMAIN msgs /\ k \in msgs[Owner[k]].chans
            /\ Sends(Requests(v, c, k), Requests(x, c, k), msgs[Owner[k]])
      /\ \A se : (\A b \in DOMAIN msgs : msgs[b].kind = "ChannelQuit" => ~se[c].on)
                     /\ PlacedIn(se, v) => PlacedIn(se, x)
  BY <1>4s DEF Seen
<1>f0. IsFrame(x) /\ x.memberships = w.memberships
  BY <1>2, <1>3
<1>z. /\ IsFrame(z) /\ z.members = x.members /\ z.mail = x.mail
      /\ z.session[c].on = FALSE /\ z.session[c].channels = {}
      /\ \A d \in Conns : d # c => z.session[d] = x.session[d]
      /\ z.memberships = [d \in Conns |-> z.memberships[d]] /\ z.memberships[c] = {}
      /\ \A d \in Conns : d # c => z.memberships[d] = x.memberships[d]
  BY DEF EndsAs
<1>5. \A d, k : /\ Answers(v, d, k) = Answers(w, d, k) /\ Requests(v, d, k) = Requests(w, d, k)
                /\ Answers(z, d, k) = Answers(x, d, k) /\ Requests(z, d, k) = Requests(x, d, k)
  BY <1>2, <1>z DEF Answers, Requests
<1>m. PICK ms : ms = w.members
  OBVIOUS
<1>f. PICK f : f = z.members
  OBVIOUS
<1>6. MembersOK(ms) /\ f = QuitFrom(ms, c, chs)
  BY <1>0, <1>2, <1>3, <1>z, <1>m, <1>f DEF Kept, MembersOK
<1>7. /\ MembersOK(f)
      /\ \A k \in Chans : /\ Alike(ms[k], f[k], c)
                          /\ k \in chs => c \notin DOMAIN f[k]
                          /\ k \notin chs => f[k] = ms[k]
  BY <1>6, QuitFromIs
<1>9. \A d \in Conns : d # c => SameSeat(w.session[d], z.session[d])
  BY <1>2, <1>3, <1>z
<1>10. \A d \in Conns : d # c => /\ z.session[d].on = w.session[d].on
                                 /\ z.session[d].channels = w.session[d].channels
                                 /\ z.memberships[d] = w.memberships[d]
  BY <1>9, <1>z, <1>f0 DEF SameSeat
<1>11. AllPlaced(z)
  <2>1. \A d \in Conns : z.session[d].on => w.session[d].on
    BY <1>10, <1>z
  <2>2. \A s, t, m : Placed(w.session, s, t, m) => Placed(z.session, s, t, m)
    BY <2>1, PlacedStays
  <2>3. PlacedIn(z.session, v)
    BY <1>0, <1>2, <2>2 DEF Kept, AllPlaced, PlacedIn
  <2>4. PlacedIn(z.session, x)
    BY <1>4, <1>z, <2>3
  <2> QED
    BY <1>z, <2>4 DEF AllPlaced, PlacedIn
<1>13. Kept(z)
  <2>1. z.members = [ch \in Chans |-> z.members[ch]] /\ \A ch \in Chans : IsMembers(z.members[ch])
    BY <1>7, <1>f DEF MembersOK
  <2>2. \A d \in Conns : /\ z.memberships[d] = z.session[d].channels
                         /\ ~z.session[d].on => z.session[d].channels = {}
    <3>1. \A d \in Conns : /\ w.memberships[d] = w.session[d].channels
                           /\ ~w.session[d].on => w.session[d].channels = {}
      BY <1>0 DEF Kept
    <3>2. z.memberships[c] = {} /\ z.session[c].channels = {}
      BY <1>z
    <3> QED
      BY <1>10, <3>1, <3>2
  <2>3. z.memberships = [d \in Conns |-> z.memberships[d]]
    BY <1>z
  <2> QED
    BY <1>11, <2>1, <2>2, <2>3 DEF Kept
<1>14. \A k \in I : Owner[k] # Home[c] =>
           /\ IsQuit(msgs[Owner[k]], c, k)
           /\ Sends(Requests(w, c, k), Requests(z, c, k), msgs[Owner[k]])
  BY <1>4, <1>5 DEF IsQuit, QuitMsgs, ReportsIn
<1>15. /\ \A k \in Chans : IsMember(z, c, k) => IsMember(w, c, k)
       /\ \A k \in I : Owner[k] = Home[c] => ~IsMember(z, c, k)
  BY <1>7, <1>i, <1>m, <1>f DEF IsMember, Own
<1>h. QuitHeard(w, z, c, I, msgs)
  BY <1>14, <1>15 DEF QuitHeard
<1>8. OnlyTold(w, z, c, I)
  BY <1>4, <1>5, <1>7, <1>m, <1>f DEF OnlyTold
<1>p. ASSUME NEW k \in Chans
      PROVE  PairOK(z, c, k)
  BY <1>8, <1>11, <1>z, <1>h, QuitPairs
<1>17. \A d \in Conns, k \in Chans : d # c =>
           PairOK(z, d, k) /\ (LeaveOK(w, d, k) => LeaveOK(z, d, k))
  BY <1>0, <1>8, <1>9, OthersReported
<1>18. RecordInv(z)
  BY <1>13, <1>p, <1>17 DEF RecordInv
<1> QED
  BY <1>10, <1>17, <1>18, <1>z DEF OnlyGone

LEMMA CloseStep ==
    ASSUME LeaveInv(Now, asked), NEW c \in Conns, NEW z, Become(z), OnlyGone(Now, z, c),
           asked' = [asked EXCEPT ![c] = [ch \in Chans |-> "out"]]
    PROVE  RecordInv(Now') /\ LeaveInv(Now', asked')
<1>1. Now' = z
  BY FrameStep DEF OnlyGone
<1>o. PICK out : out = [ch \in Chans |-> "out"]
  OBVIOUS
<1>a. PICK a, b : a = asked /\ b = asked'
  OBVIOUS
<1>2. /\ a = [d \in Conns |-> a[d]] /\ \A d \in Conns : a[d] = [ch \in Chans |-> a[d][ch]]
      /\ out = [ch \in Chans |-> out[ch]] /\ b = [a EXCEPT ![c] = out]
  BY <1>a, <1>o DEF LeaveInv, IsAsked
<1>3. /\ b = [d \in Conns |-> b[d]] /\ b[c] = out /\ \A d \in Conns : d # c => b[d] = a[d]
  BY <1>2
<1>4. IsAsked(b)
  <2>1. ASSUME NEW d \in Conns
        PROVE  b[d] = [ch \in Chans |-> b[d][ch]]
    BY <1>2, <1>3
  <2> QED
    BY <1>3, <2>1 DEF IsAsked
<1>5. ASSUME NEW d \in Conns, NEW k \in Chans, z.session[d].on, b[d][k] = "out"
      PROVE  LeaveOK(z, d, k)
  <2>1. d # c
    BY <1>5 DEF OnlyGone
  <2>2. a[d][k] = "out" /\ Now.session[d].on
    BY <1>3, <1>5, <2>1 DEF OnlyGone
  <2>3. LeaveOK(Now, d, k)
    BY <1>a, <2>2 DEF LeaveInv
  <2> QED
    BY <2>1, <2>3 DEF OnlyGone
<1>6. LeaveInv(z, b)
  BY <1>4, <1>5 DEF LeaveInv
<1>7. RecordInv(z)
  BY DEF OnlyGone
<1> QED
  BY <1>1, <1>6, <1>7, <1>a

LEMMA CloseRecords ==
    ASSUME HoldInv(Now), RecordInv(Now), LeaveInv(Now, asked), NEW c \in Conns, Close(c)
    PROVE  RecordInv(Now') /\ LeaveInv(Now', asked')
<1>h. PICK h : h = Home[c]
  OBVIOUS
<1>l. PICK line : line = QuitLine(session[c].nick)
  OBVIOUS
<1>v. PICK event : event = NewEvent(Now, c, line)
  OBVIOUS
<1>o. PICK O : O = Owners(Now, c)
  OBVIOUS
<1>g. PICK msgs : msgs = [t \in O |-> [kind |-> "ChannelQuit", chans |-> OwnedBy(Now, c, t),
                                       event |-> event]]
  OBVIOUS
<1>y. PICK y : y = Counted(Now, c)
  OBVIOUS
<1>f. PICK first : first = RouteEach(y, h, Below(msgs, h))
  OBVIOUS
<1>s. PICK chs : chs = OwnedBy(Now, c, h)
  OBVIOUS
<1>e. PICK here : here = IF h \notin O THEN first ELSE QuitMember(first, h, chs, event)
  OBVIOUS
<1>x. PICK x : x = RouteEach(here, h, Above(msgs, h))
  OBVIOUS
<1>r. PICK r : r = [FreshSession(c) EXCEPT !.on = FALSE]
  OBVIOUS
<1>u. PICK u : u = [own |-> FirstNick[c], chans |-> None]
  OBVIOUS
<1>z. PICK z : z = Ended(x, c, r, u)
  OBVIOUS
<1>0. Become(z)
  <2>1. Become([x EXCEPT !.session[c] = [FreshSession(c) EXCEPT !.on = FALSE],
                         !.memberships[c] = {},
                         !.view[c] = [own |-> FirstNick[c], chans |-> None]])
    BY <1>h, <1>l, <1>v, <1>o, <1>g, <1>y, <1>f, <1>s, <1>e, <1>x, ZenonT(60) DEF Close
  <2> QED
    BY <1>r, <1>u, <1>z, <2>1, Zenon DEF Ended
<1>1. session[c].on /\ asked' = [asked EXCEPT ![c] = [ch \in Chans |-> "out"]]
  BY DEF Close, Command
<1>2. IsFrame(Now) /\ Kept(Now) /\ Now.session[c].on = TRUE
  <2>1. IsFrame(Now) /\ session[c].on \in BOOLEAN
    BY FrameNow
  <2> QED
    BY <1>1, <2>1, NowFields DEF RecordInv
<1>i. PICK I : I = Involved(Now, c)
  OBVIOUS
<1>6. DOMAIN msgs = O /\ \A t \in O : /\ msgs[t].kind = "ChannelQuit"
                                      /\ msgs[t].kind \in ReportKinds /\ msgs[t].event.subject = c
                                      /\ msgs[t].chans = OwnedBy(Now, c, t)
  <2>1. event.subject = c
    BY <1>v DEF NewEvent
  <2> QED
    BY <1>g, <2>1 DEF ReportKinds
<1>7. ReportsIn(msgs, c, I)
  BY <1>6, <1>i, <1>o, ReportsAre
<1>8. \A k : k \in chs <=> k \in I /\ Owner[k] = h
  BY <1>i, <1>s DEF OwnedBy
<1>9. IsFrame(y) /\ y.members = Now.members /\ y.memberships = Now.memberships
  BY <1>2, <1>y, CountedSame
<1>j. h \in Shards
  BY <1>h, HomeType
<1>10. IsFrame(first) /\ first.members = y.members
  <2>2. PICK lo : lo = Below(msgs, h)
    OBVIOUS
  <2>3. first = RouteEach(y, h, lo)
    BY <1>f, <2>2
  <2> QED
    BY <1>9, <1>j, <2>3, RouteFrame
<1>11. Hushed(first, here) /\ here.members = QuitFrom(first.members, c, chs)
  <2>1. CASE h \notin O
    <3>1. here = first
      BY <1>e, <2>1
    <3>2. \A k : k \notin chs
      BY <1>8, <1>i, <1>o, <2>1 DEF Owners
    <3>3. MembersOK(first.members)
      BY <1>2, <1>9, <1>10 DEF Kept, MembersOK
    <3>4. QuitFrom(first.members, c, chs) = first.members
      BY <3>2, <3>3, RenameNone
    <3> QED
      BY <1>10, <3>1, <3>4, HushedItself
  <2>2. CASE h \in O
    <3>1. here = QuitMember(first, h, chs, event)
      BY <1>e, <2>2
    <3>2. c = event.subject
      BY <1>v DEF NewEvent
    <3> QED
      BY <1>10, <1>j, <3>1, <3>2, QuitMemberHushed
  <2> QED
    BY <2>1, <2>2
<1>12. QuitMsgs(msgs) /\ Own(chs, I, h)
  BY <1>6, <1>8 DEF QuitMsgs, Own
<1>a. Hushed(first, here)
  BY <1>11
<1>13. IsFrame(x) /\ x.memberships = y.memberships
  BY <1>9, <1>a, <1>f, <1>j, <1>x, ReportsMade
<1>14. Blank(r)
  BY <1>r DEF FreshSession, SessionFields, Blank
<1>15. x.memberships = [d \in Conns |-> x.memberships[d]]
  BY <1>2, <1>9, <1>13 DEF Kept
<1>16. EndsAs(x, z, c)
  BY <1>13, <1>14, <1>15, <1>z, EndedIs
<1>17. OnlyGone(Now, z, c)
  BY <1>2, <1>7, <1>11, <1>12, <1>16, <1>f, <1>h, <1>i, <1>x, <1>y, CloseCarries
<1> QED
  BY <1>0, <1>1, <1>17, CloseStep

-----------------------------------------------------------------------------
\* The invariant, and what it says when no event is on its way.

LEMMA EmptyQueue ==
    ASSUME NEW q, DOMAIN q = {}, NEW c, NEW ch
    PROVE  /\ NoMoves(q, c, ch) /\ ~EndsIn(q, c, ch) /\ NoJoins(q, c, ch) /\ NoRenames(q, c, ch)
           /\ \A n : JoinsAs(q, c, ch, n) /\ RenamesTo(q, c, ch, n)
           /\ ~QuitLast(q, c, ch) /\ ~PartLast(q, c, ch)
BY DEF NoMoves, EndsIn, NoJoins, NoRenames, JoinsAs, RenamesTo, QuitLast, PartLast

LEMMA QuietPair ==
    ASSUME Quiet, NEW c \in Conns, NEW ch \in Chans, NEW q, q = Requests(Now, c, ch),
           NEW a, a = Answers(Now, c, ch)
    PROVE  /\ NoMoves(a, c, ch) /\ ~EndsIn(a, c, ch)
           /\ NoJoins(q, c, ch) /\ NoRenames(q, c, ch)
           /\ \A n : JoinsAs(q, c, ch, n) /\ RenamesTo(q, c, ch, n)
           /\ ~QuitLast(q, c, ch) /\ ~PartLast(q, c, ch)
<1>1. Home[c] \in Shards /\ Owner[ch] \in Shards
  BY HomeType, OwnerType
<1>2. DOMAIN q = {} /\ DOMAIN a = {}
  BY <1>1, NowFields DEF Quiet, Requests, Answers
<1> QED
  BY <1>2, EmptyQueue

MembersInv == RecordInv(Now) /\ LeaveInv(Now, asked)

LEMMA MembersInvInit ==
    ASSUME MembershipInit
    PROVE  MembersInv
<1>0. Now.session = session /\ Now.members = members /\ Now.memberships = memberships
      /\ Now.mail = mail
  BY NowFields
<1>n. PICK none : none = None
  OBVIOUS
<1>1. DOMAIN none = {} /\ none = [i \in DOMAIN none |-> none[i]]
  BY <1>n DEF None
<1>2. ASSUME NEW c \in Conns
      PROVE  session[c].on = TRUE /\ session[c].channels = {} /\ memberships[c] = {}
  BY DEF MembershipInit, FreshSession
<1>3. ASSUME NEW ch \in Chans
      PROVE  members[ch] = none
  BY <1>n DEF MembershipInit
<1>q. Quiet
  BY DEF MembershipInit, Quiet
<1>4. Kept(Now)
  <2>1. members = [ch \in Chans |-> members[ch]] /\ memberships = [c \in Conns |-> memberships[c]]
    BY DEF MembershipInit
  <2>2. \A ch \in Chans : IsMembers(members[ch])
    BY <1>1, <1>3 DEF IsMembers
  <2>3. AllPlaced(Now)
    <3>1. \A s, t \in Shards : DOMAIN mail[s][t] = {}
      BY <1>q DEF Quiet
    <3> QED
      BY <1>0, <3>1 DEF AllPlaced
  <2> QED
    BY <1>0, <1>2, <2>1, <2>2, <2>3 DEF Kept
<1>5. ASSUME NEW c \in Conns, NEW ch \in Chans
      PROVE  PairOK(Now, c, ch) /\ LeaveOK(Now, c, ch)
  <2>q. PICK q, a : q = Requests(Now, c, ch) /\ a = Answers(Now, c, ch)
    OBVIOUS
  <2>1. /\ NoMoves(a, c, ch) /\ NoJoins(q, c, ch)
        /\ \A n : JoinsAs(q, c, ch, n) /\ RenamesTo(q, c, ch, n)
    BY <1>q, <2>q, QuietPair
  <2>2. ~IsMember(Now, c, ch)
    BY <1>0, <1>1, <1>3 DEF IsMember
  <2>3. RecordOK(Now, c, ch)
    BY <1>0, <1>2, <2>1, <2>2, <2>q DEF RecordOK
  <2>4. NameOK(Now, c, ch)
    BY <2>1, <2>2, <2>q DEF NameOK
  <2>5. Now.session[c].on
    BY <1>0, <1>2
  <2>6. LeaveOK(Now, c, ch)
    BY <2>1, <2>2, <2>q DEF LeaveOK, Leaving
  <2> QED
    BY <2>3, <2>4, <2>5, <2>6 DEF PairOK
<1>6. IsAsked(asked)
  BY DEF MembershipInit, IsAsked
<1> QED
  BY <1>4, <1>5, <1>6 DEF MembersInv, RecordInv, LeaveInv

LEMMA MembersInvStep ==
    ASSUME HoldInv(Now), RecordInv(Now), LeaveInv(Now, asked), [MembershipNext]_membershipVars
    PROVE  RecordInv(Now') /\ LeaveInv(Now', asked')
<1>1. ASSUME NEW c \in Conns, NEW ch \in Chans, Join(c, ch) \/ Part(c, ch)
      PROVE  RecordInv(Now') /\ LeaveInv(Now', asked')
  BY <1>1, JoinRecords, PartRecords
<1>2. ASSUME NEW c \in Conns, NEW ch \in Chans, NEW n \in Nicks, Kick(c, ch, n)
      PROVE  RecordInv(Now') /\ LeaveInv(Now', asked')
  BY <1>2, KickRecords
<1>3. ASSUME NEW c \in Conns, NEW n \in Nicks, Nick(c, n)
      PROVE  RecordInv(Now') /\ LeaveInv(Now', asked')
  BY <1>3, NickRecords
<1>4. ASSUME NEW c \in Conns, JoinZero(c)
      PROVE  RecordInv(Now') /\ LeaveInv(Now', asked')
  BY <1>4, JoinZeroRecords
<1>5. ASSUME NEW c \in Conns, Close(c)
      PROVE  RecordInv(Now') /\ LeaveInv(Now', asked')
  BY <1>5, CloseRecords
<1>6. ASSUME NEW s \in Shards, NEW t \in Shards, HandleOne(s, t)
      PROVE  RecordInv(Now') /\ LeaveInv(Now', asked')
  <2>1. CASE ChannelJoin(s, t)
    BY <2>1, ChannelJoinRecords
  <2>2. CASE ChannelJoinResult(s, t)
    BY <2>2, ChannelJoinResultRecords
  <2>3. CASE ChannelMemberVanished(s, t)
    BY <2>3, ChannelMemberVanishedRecords
  <2>4. CASE ChannelPart(s, t)
    BY <2>4, ChannelPartRecords
  <2>5. CASE ChannelPartResult(s, t)
    BY <2>5, ChannelPartResultRecords
  <2>6. CASE ChannelKick(s, t)
    BY <2>6, ChannelKickRecords
  <2>7. CASE ChannelKickResult(s, t) \/ UserEventPart(s, t) \/ Delivery(s, t)
    BY <2>7, DeliveryRecords
  <2>8. CASE SessionChannelRemoved(s, t)
    BY <2>8, SessionChannelRemovedRecords
  <2>9. CASE ChannelQuit(s, t)
    BY <2>9, ChannelQuitRecords
  <2>10. CASE ChannelMemberUpdate(s, t)
    BY <2>10, ChannelMemberUpdateRecords
  <2> QED
    BY <1>6, <2>1, <2>2, <2>3, <2>4, <2>5, <2>6, <2>7, <2>8, <2>9, <2>10 DEF HandleOne
<1>7. CASE UNCHANGED membershipVars
  <2>1. Now' = Now /\ asked' = asked
    BY <1>7 DEF membershipVars, Now
  <2> QED
    BY <2>1
<1>8. CASE ClientCommand
  BY <1>8, <1>1, <1>2, <1>3, <1>4, <1>5 DEF ClientCommand
<1> QED
  BY <1>6, <1>7, <1>8 DEF MembershipNext

\* The inductive invariant of the records: what a channel has and what a session
\* has differ by exactly the answers still on their way to the session, and by the
\* JOINs, NICKs and QUITs still on their way to the channel.
THEOREM MembersInvariant == MembershipSpec => []MembersInv
<1>1. MembershipInit => MembersInv
  BY MembersInvInit
<1>2. MembershipInv /\ MembersInv /\ [MembershipNext]_membershipVars => MembersInv'
  <2>1. MembershipInv => HoldInv(Now)
    BY DEF MembershipInv
  <2>2. MembersInv => RecordInv(Now) /\ LeaveInv(Now, asked)
    BY DEF MembersInv
  <2>3. MembersInv' <=> RecordInv(Now') /\ LeaveInv(Now', asked')
    BY DEF MembersInv
  <2> QED
    BY <2>1, <2>2, <2>3, MembersInvStep
<1> QED
  BY <1>1, <1>2, MembershipInvariant, PTL DEF MembershipSpec

\* However the JOINs, PARTs, KICKs, NICKs and QUITs of a session and the answers of
\* other shards crossed, the session's channels, the channel's members and nicks and
\* the membership directory agree as soon as no event is on its way (record_join,
\* record_part, emit_join_result, channel_quit).
THEOREM RecordsKept == MembershipSpec => []RecordsAgree
<1>1. MembersInv => RecordsAgree
  <2> SUFFICES ASSUME MembersInv, Quiet, NEW c \in Conns, NEW ch \in Chans
               PROVE  /\ (c \in DOMAIN members[ch]) <=>
                             (session[c].on /\ ch \in session[c].channels)
                      /\ (c \in DOMAIN members[ch]) <=> (ch \in memberships[c])
                      /\ c \in DOMAIN members[ch] => members[ch][c].nick = session[c].nick
    BY DEF RecordsAgree
  <2>0. Now.session = session /\ Now.members = members /\ Now.memberships = memberships
    BY NowFields
  <2>1. PairOK(Now, c, ch) /\ Kept(Now)
    BY DEF MembersInv, RecordInv
  <2>2. /\ memberships[c] = session[c].channels
        /\ ~session[c].on => session[c].channels = {}
    BY <2>0, <2>1 DEF Kept
  <2>q. PICK q, a : q = Requests(Now, c, ch) /\ a = Answers(Now, c, ch)
    OBVIOUS
  <2>3. NoMoves(a, c, ch) /\ NoRenames(q, c, ch) /\ ~QuitLast(q, c, ch)
    BY <2>q, QuietPair
  <2>4. CASE session[c].on
    <3>1. RecordOK(Now, c, ch) /\ NameOK(Now, c, ch)
      BY <2>0, <2>1, <2>4 DEF PairOK
    <3>2. IsMember(Now, c, ch) <=> ch \in session[c].channels
      BY <2>0, <2>3, <2>q, <3>1 DEF RecordOK
    <3>3. IsMember(Now, c, ch) => members[ch][c].nick = session[c].nick
      BY <2>0, <2>3, <2>q, <3>1 DEF NameOK
    <3> QED
      BY <2>0, <2>2, <2>4, <3>2, <3>3 DEF IsMember
  <2>5. CASE ~session[c].on
    <3>1. ~IsMember(Now, c, ch)
      BY <2>0, <2>1, <2>3, <2>5, <2>q DEF PairOK, GoneOK
    <3> QED
      BY <2>0, <2>2, <2>5, <3>1 DEF IsMember
  <2> QED
    BY <2>4, <2>5
<1> QED
  BY <1>1, MembersInvariant, PTL

\* Who last asked to leave a channel is not in it once no event is on its way: a
\* PART behind a JOIN, a JOIN 0 during one (part_on_join) and the end of the session
\* all get it out.
THEOREM LeaversStayOut == MembershipSpec => []LeftStaysLeft
<1>1. MembersInv => LeftStaysLeft
  <2> SUFFICES ASSUME MembersInv, Quiet, NEW c \in Conns, NEW ch \in Chans,
                      asked[c][ch] = "out"
               PROVE  c \notin DOMAIN members[ch]
    BY DEF LeftStaysLeft
  <2>0. Now.session = session /\ Now.members = members
    BY NowFields
  <2>1. PairOK(Now, c, ch) /\ (session[c].on => LeaveOK(Now, c, ch))
    BY <2>0 DEF MembersInv, RecordInv, LeaveInv
  <2>q. PICK q, a : q = Requests(Now, c, ch) /\ a = Answers(Now, c, ch)
    OBVIOUS
  <2>2. ~EndsIn(a, c, ch) /\ ~QuitLast(q, c, ch) /\ ~PartLast(q, c, ch)
    BY <2>q, QuietPair
  <2>3. CASE session[c].on
    <3>1. ~IsMember(Now, c, ch)
      BY <2>1, <2>2, <2>3, <2>q DEF LeaveOK, Leaving
    <3> QED
      BY <2>0, <3>1 DEF IsMember
  <2>4. CASE ~session[c].on
    <3>1. ~IsMember(Now, c, ch)
      BY <2>0, <2>1, <2>2, <2>4, <2>q DEF PairOK, GoneOK
    <3> QED
      BY <2>0, <3>1 DEF IsMember
  <2> QED
    BY <2>3, <2>4
<1> QED
  BY <1>1, MembersInvariant, PTL
=============================================================================
