# e6irc in TLA+

A model, checked with TLC and in large part proved with TLAPS, of the concurrent and
distributed core of e6irc: an IRC server (`crates/e6ircd`) whose core runs as
shards on several threads, whose clients may be served by separate edge
processes (`crates/e6irc-edge`), whose state lives in PostgreSQL under a serving
lease, and which is also a bouncer. Paths below are relative to the repository
(`src/` in `PROJECT.json`); `PROJECT.json` maps every definition to its lines.

## 1. Inventory

### Parts, their state and how they interact

| Part | State | Operations | Talks to |
|---|---|---|---|
| Work queue (`e6irc-queue`) | items and weights, mode, line of parked producers, wakers, sender count | `try_push`, `push`, `room_for`, `take_queued`, `pop`, clone, drops | between every two tasks of the server |
| `Progress` (`e6irc-queue`) | one atomic word: a count and an "armed" bit | `advance`, `arm` | session link |
| Session link (`e6irc-edge/link.rs`) | what was sent, the edge's buffer, bytes written, flags and wakes | `output`, `kill`, `poll_output`, `take`, `written`, drops | core shard ↔ connection writer |
| Core link (`edge_link.rs`, `core_link/remote.rs`) | edge: live sessions, credits; core: sessions, lines in flight, pumps | `Open`, `Line`, `Closed`, `Drained`, `Output`, `Kill`, `End`, `Credit` frames, tear-down | edge process ↔ core over TLS streams |
| Link registration (`edge_link.rs`, `db/roster.rs`) | slots, epochs, live registrations | `Hello`/`Welcome`, stream join, replace, end | core link, serving lease |
| Core shards (`core/mod.rs`) | per-shard queue, backlog to other shards, count of cross-shard events in flight, stop flags | handle an event, send backlog, drain, stop | each other; `net.rs` shutdown |
| Membership (`core/state.rs`, `core/handler/channel.rs`, `chanops.rs`) | a session's channels, JOINs in flight and held output on its shard; a channel's members on its own; two process-wide directories; who was told of a user event | JOIN, PART, KICK, NICK, QUIT and the requests, answers and deliveries between shards | shards, clients |
| Sign-in (`core/handler/sasl.rs`, `services.rs`, `registration.rs`, `admin.rs`) | a session's SASL state and outstanding checks, its login; a shard's suspension gate and verdict epochs | CAP END, AUTHENTICATE, IDENTIFY, REGISTER, LOGOUT, verdicts, ends of sessions | database worker, account authority |
| Other core state (`core/state.rs`, `core/handler/*`) | modes, topics, bans, history, monitors | IRC commands answered by one shard | shards, database worker |
| Serving lease (`serving_lease.rs`, migration 0098) | one row, a table of backends, each process's standing | acquire, renew, fence, release, stand by | PostgreSQL, connection pool, shutdown |
| Account authority (`account_authority.rs`, `bouncer/account_lease.rs`, `account_deletion.rs`, `db/announcements.rs`) | account row and generation, issued credentials, revocation epochs, tickets, leases, ledger, mutation lane, listener | attach, revoke, suspend, delete, follow announcements, resynchronize | PostgreSQL triggers, HTTP API, bouncer, core |
| Bouncer networks (`bouncer/serve.rs`, `bouncer/mod.rs`, `http/networks.rs`) | rows, the registry's slots and holds, the mutation lane, each run's driver and persistence task | create, edit, enable, disable, delete, hold, release, stop, attach | HTTP API, account authority, shutdown, database |
| Bouncer drivers and bridges (`bouncer/*_driver.rs`, `slack.rs`, ...) | an upstream session, channel views | connect, register, translate | upstream servers |
| Database worker (`db.rs`) | write batches, pools | queries and batched writes | core, HTTP |
| HTTP API, web sockets (`http/*`) | browser sessions, device grants | REST handlers | database, core, mutation lane |
| Protocol and client libraries | none, or a session's own | parsing, framing, masks, SASL, liveness | everything |

### What is hard in it

* *Wake-ups.* The queue, `Progress` and the session link hand-write their
  wakers; a lost one is a session that hangs for ever under load.
* *Bounds counted in two places.* The send queue is counted by the core (bytes
  not yet at the client's socket) and held by the edge (bytes in a buffer); line
  credits live in a semaphore, on the wire, and in a counter of the core.
* *Cancellation.* Futures are dropped by `select!` and time-outs at every await:
  a parked producer, a reader that has spent a credit, a renewal.
* *Ends that cross.* Either end of a session, its writer, its stream, its link,
  its shard or the whole core may go first.
* *Two clocks, one lease.* A holder must stop before another may start, with
  statements that are applied after they were given up on.
* *Authority that changes under a check.* A password is verified while the
  account changes, in this process or another, over a notification channel that
  may be down.
* *One user, several shards.* A session and the channels it is in live on
  different threads; a JOIN, a KICK, a NICK and a QUIT of one user cross, and
  every other client must still end up with the right list of members.
* *Operations made of awaits.* An edit of a network writes its row, waits for a
  driver that may be wedged and for a writer that may be behind, and starts
  another, with a shutdown or a lost answer possible at each of them.
* *Everyone waiting on everyone.* Shards with events for each other's full
  queues; a drain that must notice that nothing is on its way.

`PROJECT.json` lists the hazards at their lines with the properties for each.

## 2. Modules

| Module | Models | State ↔ code |
|---|---|---|
| `WorkQueue` | `e6irc-queue` | one action per lock section; a producer's future (`new`, parked, woken, served) is the `Push`/`Room` future; cancelling it is `Cancel` |
| `WorkQueueHistory` | the same with each event's sequence number and fate | history variables only: it constrains nothing `WorkQueue` does |
| `Progress` | the count-and-armed word | `advance` is two atomic operations and a notify, `arm` one |
| `OutputAccount` | what a session link promises its shard | `sent`, `written`, `open`: the abstract specification |
| `SessionLink` | `SessionLink` and `EdgeSession` on two threads, over `Progress` | one action per atomic operation of `poll_until`, `output`, `written` and the drops; implements `OutputAccount` |
| `CoreWorkers` | `CoreWorker`, `CrossShardTraffic`, `broadcast`, the core's part of `ShutdownHandle` | program counters between the awaits and atomic counters of `CoreWorker::run` |
| `ServingLease` | `serving_lease.rs`, migration 0098 | one clock; statements carry the `now()` of their transaction and may be applied later |
| `CoreLink` | Irc sessions of one stream, both ends, and `serve_conn` around the edge's | a frame per message in two FIFO sequences; tear-down keeps a prefix of what was on its way |
| `AccountAuthority` | one account's revocations, tickets and leases, the ledger, the lane, the watcher | one action per lock section or database statement; announcements are a sequence heard only while the listener is connected |
| `Membership` | JOIN, JOIN 0, PART, KICK, NICK and a connection's end over several shards | one action per command and per event a shard takes from another; a handler's effects on its own shard are part of its step (`Core::handle`) |
| `SignIn` | registration, SASL, IDENTIFY, REGISTER, LOGOUT and what ends a login | one action per command, per step of a credential check (queued, read, answered) and per event of a change on its way through the shards |
| `Networks` | the registry of running networks, its mutation lane, drivers, persistence tasks, one attaching client | one action per await of an operation, of a stop and of a persistence task |
| `Totals` | the total weight of a sequence (`State::load`'s definition) | a recursive function, so that the queue's, the links' and the credits' sums can be proved about |
| `SignInProofs`, `AccountAuthorityProofs`, `NetworksProofs` | theorems about the module of that name (§5) | |
| `IngressProofs` | theorems about `WorkQueue`, `WorkQueueHistory` and `CoreLink`: what comes into a shard, through its queue and over an edge's stream | |
| `ServingProofs` | theorems about `ServingLease` and `CoreWorkers`: the process that serves, and the shards it serves with | |
| `SessionProofs` | theorems about `SessionLink` and `Membership`: a session's link to its edge, and its channels | |
| `MembershipProofs` | theorems about `Membership`'s records, on top of `SessionProofs` | |
| `TotalsProofs` | the lemmas on totals, and the least-number principle they are proved by | |
| `MCServingLease`, `MCCoreLink`, `MCAccountAuthority`, `MCMembership`, `MCSignIn`, `MCNetworks` | instances, symmetry and views for TLC | |

Composition: `SessionLink` uses `Progress` (shared word) and implements
`OutputAccount` by

    written <- IF the session is killed or ended THEN sent ELSE count
    open    <- the session is neither killed nor ended

`CoreLink` is the transport a linked session's input crosses; its output side is
the next module of the plan.

`Membership` takes its mail as `CoreWorkers` shows it is delivered: each shard's
events to another in order (`DeliveredInOrder`), nothing ordered between senders.
`SignIn` is the core's half of what `AccountAuthority` does for attachments, and
`Networks` what the same operations do to the account's networks.

**ServingLease.** A process is one `HolderId`. A takeover has no time limit; a renewal is
given up on at its deadline and may still be applied. Time does not pass a due timer by
more than `TimerSlack`, nor `lock_timeout`. All processes share one database role
(`deploy/README.md:401-403`), so that a takeover sees and ends every recorded
connection.

**AccountAuthority.** A change is committed here (`SuspensionCommits`,
`PasswordCommits`, `DeletionCommits`), by `recover-administrator`, run as a process of
its own (`RecoverAdministrator`), or by SQL (`ChangedElsewhere`); a commit made here may
lose its answer, after which nothing of it is applied on the lane and only its
announcement tells. A standing may be set again that is set already, which counts no
generation but records the row (`Repeat`, `RecordOnly`). `passedOver` is history.

**Membership.** `session[c]` is what the session's shard keeps (channels,
`pending` JOINs, `part_on_join`, `deferred` answers, the lines `held` behind
them); `members[ch]` is the owner shard's channel; `memberships` and `nicks` are
the process-wide directories; `events` is `user_events_in_progress`. Every line
sent is folded at once into `view[c]`, the list a client keeps
(`ChannelViews::observe`), so "what the client thinks" is state. `Route` puts an
event in another shard's mail, or handles it in the same step when the target is
this shard. Bans, keys, invites and limits are one question the owner answers
either way (`Refusable`). A handler that is several changes in a row is a
function of the record `Now`, committed by `Become`.

**SignIn.** A `check` is queued with the shard's verdict epoch, read against
`store` at some later time, and answered later still. `Commit` changes the store;
the change travels through `due` to the first shard (`Apply`) and by `inbox` to
the others (`Applied`). A revocation is announced only while `listener` is up;
when it comes back it refuses the verdicts in flight on every shard, asks what
live sessions hold and reads whether that is still stored (`Reconnect`,
`RefuseVerdicts`, `ReadHeld`, `ReadStored`). A session that went through one of
`db_reply`'s early returns with its registration held is marked `skipped`
(history).

**Networks.** `lane` is the operation under way and the await it stands at. A
*run* is one start of a network: its driver (`up`, `parked`, `told`, `late`), its
persistence task (`feed`, the `queue` it has not read, what it `kept`) and the
task stopping both (`stop`). A statement commits, commits with its answer lost,
or is refused (`Commits`); a driver may outlive `SHUTDOWN_WAIT_DEADLINE` (`late`).
`excused` records the networks whose last operation answered with an error that
leaves them open: what runs and what is stored may then differ, and the account's
next operation on them settles it. The restart after a delete that was refused or
whose answer was lost settles nothing, and leaves an earlier excuse standing. A
plain network error is not an exemption for
any other network, nor for any other property.

Data is abstracted to what the properties tell apart: a line is a number, an
event a weight and a sequence number, a password or app password a model value.

## 3. Runs

`tlc -workers 2 -config X.cfg M` for each (run, module, cfg) of `PROJECT.json`.

| Run | Shows | Bounds, and why they are enough |
|---|---|---|
| `work_queue` | weight bound, no lost wake-up on either side, nothing lost, duplicated or overtaken (while never degraded), parked producers leave the line, senders-gone reported | two producers, weights 0, 2 and 4 of capacity 3, watermarks 1 and 3, four events: barging, parking, cancelling after being woken, the over-heavy event and both mode switches occur; with finitely many events barging ends |
| `session_link` | buffer never refuses what the account admits, no sleep past room, implements `OutputAccount`, every wait ends | capacity 3, lines of 1, 2 and 4 (one over the bound), 8 bytes in all |
| `core_workers` | events once and in order, a worker stops only when all is quiet, backlogs move, shutdown ends | two shards, queues of one, backlog limit two: both queues full at once, one shard giving up |
| `serving_lease` | an unfenced process is the holder or is about to fence itself, a fenced one resumes only as the holder, no connection outlives its holder's turn | two processes, five ticks with a TTL of three, fenced after one and with a slack of one: a takeover after expiry, one that outlasts its own fence and even the TTL, a release and two renewals in flight (1.7 million states) |
| `core_link` | credits add up to the window and the core never calls a well-behaved edge broken; shards hear Open, lines, Closed in order; no zombie session | two sessions share a window of one, two frames per direction, two lines: every wait for a credit and for room on the wire occurs |
| `core_link_credits` (violation) | a reader waits for a credit nobody returns | see Findings |
| `account_authority` | an attachment whose app password was revoked, or whose account changed, is always one whose end is on its way, but for those a turn here passed over | two clients (pruning of revocations needs one ticket outlasting another), one app password, two changes, one lost connection; every kind of change, by this server, by the administrator's recovery command or by an operator's SQL, a standing set again, an answer lost after its commit, a deletion refused. Two changes make any pair cross; four changes with one client pass too (5.7 million states). States that agree on which revocations came after which outstanding ticket are checked once (`View`) |
| `membership` | records agree when all is quiet, the channel limit counts JOINs in flight, nobody stays held, user events are told once and forgotten, who left stays left, lists are exact unless a change crossed an event | two shards, a session on each, one local and two remote channels (alike, hence the symmetry) and a limit of two: the first client pipelines three commands of six kinds, the second joins and kicks; a nick is free to be taken. Three commands reach every pair of crossings and JOIN, JOIN 0, JOIN |
| `membership_ghost` (violation) | a quit that crosses a JOIN leaves a ghost | the same with both sessions on one shard; see Findings |
| `sign_in` | no login outlives the change that crossed its check; a verdict answers its own attempt; held credentials are counted exactly; registration waits for nothing else | two clients of the second shard (changes arrive through the first): one registers with a password and has two attempts, the other has an issued credential, registers an account (REGISTER or NickServ's) or quits; two troubles (changes of the account, lost listener connections). Forgetting a change needs two checks outstanding at once, which two clients give (`View` leaves out checks answered to nobody). REGISTER before registration (`BeforeConnect`) is only reached with `Welcomed = {}` and `"connect"` added for the second client: 4.4 million states, the same properties hold |
| `sign_in_stuck` (violation) | a registration nothing completes | see Findings |
| `networks` | no two upstream sessions race, none is left behind, what runs is what is stored, no line for a deleted row, none lost unsaid, nobody waits for ever | one stored network, whose driver talks and whose client attaches, and one configured; two operations and one trouble (a passed deadline, a refused statement, a lost answer), a shutdown at any point, a broadcast that keeps one line: lagging, restoring late, a wedged predecessor and a shutdown between two awaits occur. `MaxRuns` is large enough never to bind within two operations |

Deadlock is not checked where the system may legitimately stop: clients that send
no more, a queue with no traffic, a clock at its bound.

### Fairness

`WorkQueue`, `SessionLink` and `CoreWorkers` have weak fairness on the steps a
woken tokio task takes by itself (a poll after a wake, the next atomic operation
of a running poll, the receiver's loop, a worker's loop, its next offer of an
event it was woken to have room for): the runtime polls every
woken task. No fairness is given to clients, to producers offering new events, to
failures, or to the choice of which producer is polled first. `SessionLink`
assumes the writer writes what it has taken or goes away, which
`DeadlineWriter`'s write deadline enforces. The other modules are checked for
safety only; their "is on its way" invariants say which step is owed, without
assuming when it runs. Two of them state a wait's end without fairness:
`HoldsEnd` (`Membership`) says that when no mail is left nobody is held, and each
message is handled by a finite chain of others; `NobodyWaitsForEver` (`Networks`)
says that while somebody waits some task's own step is enabled, and each task has
finitely many to take.

`TypeOK` is stated in `ServingLease`, `SessionLink`, `CoreWorkers` (`WorkersTypeOK`),
`CoreLink` and `AccountAuthority` and is part of no run; the proof modules prove it, or
the part of it their argument uses.

## 4. Findings

Three are `violation` runs whose property states what a comment or a document of
the repository says.

1. **Line credits leak** (`core_link_credits`). A line read for a session the
   core refused or already ended is dropped with its credit, as is a credit a
   reader had spent when `select!` dropped it. The window only shrinks; at zero
   every session of the stream stops being read until the link is replaced.
2. **Ghost member** (`membership_ghost`). A client in a local channel sends JOIN
   for another shard's and closes. A peer in both hears the QUIT at once, for the
   local channel, then the JOIN the other shard admitted; that shard's own QUIT
   is dropped as already told, and the peer's list keeps the user. The same list
   goes wrong when a peer that was told of a QUIT JOINs another channel of that
   user whose owner has yet to hear of it.
3. **Stuck registration** (`sign_in_stuck`). CAP END sent while a check is
   outstanding holds registration for the verdict; a verdict for an abandoned
   attempt, or one a suspension, password change or revocation crossed, returns
   from `db_reply` before the tail that completes it.

The following are stated in the modules and reproduced by a configuration of the
reader's own, not kept as a run.

4. **Queue line.** `try_push` and a first poll of `push` admit by load alone, so
   light producers pass a heavy one in line for ever; the comment of
   `take_admitted_waiters` says they cannot. `PROPERTY ParkedProducerIsServed`
   under `WorkQueue`'s `QueueFairSpec` with sizes {1, 2}, capacity 2, not adaptive.
5. **Slow takeover.** `acquire` reports `Held` however long its commit took (a
   statement may take `LEASE_STATEMENT_TIMEOUT`, 30 s, and each lingering connection
   `TERMINATION_WAIT`, 5 s, against a `FENCE_AFTER` of 10 s), also when the lease has
   run out meanwhile and another process has it. It says so until its renewal task
   first runs, finds the fence overdue and fences the process. `HeldIsHolder` states
   this as its one exception (`FenceIsNext`); without the exception TLC finds it with
   the constants of `ServingLease.cfg` and `MaxTime = 6`, `MaxInFlight = 1`. No
   connection of the process survives the other's takeover (`NoWriteAfterTakeover`).
6. **Deletion's window.** `delete_in_lane` revokes attachments some awaits before
   the row goes; a client signing in between stays attached, and the announcement
   of the deletion is ignored as already applied, although
   `account_deletion.rs:92` says a password checked meanwhile cannot open another.
   `INVARIANT AttachmentsEndWithTheAccount` with one client and `MaxChanges = 1`.
7. **A failed delete loses lines.** A delete stops the network discarding what its
   persistence task had not written and only then asks the database; refused, it
   restarts the network without those lines, although `http/networks.rs:2842`
   says "a failed delete leaves it as it was". `INVARIANT
   FailedDeleteKeepsBacklog` with the constants of `Networks.cfg`. A refused
   account deletion does the same.
8. **A delete whose answer is lost** restarts a network whose row is gone
   (`DeleteRow`, answer `"lost"`), although `http/networks.rs:2903` says "a
   network with no row must not run". It writes nothing: its buffer finds no row
   (`WriterHasItsRow` holds).

Other disagreements met while modelling:

* A password change made here may be applied twice, first by the watcher and then
  by its own turn on the lane (`http/mod.rs:818`), ending sessions opened with the
  new password.
* `AuthorityLedger::applied` records the whole row although only one change was
  applied: a reactivation here (also of an account that is active already) hides a
  change by another process that is still only announced (`http/mod.rs:911`). Changes
  read as one step from a suspended ledger end nothing (`account_authority.rs:163`).
  The clients that were signed in when a turn recorded such a change, and those that
  sign in during a deletion (finding 6), are in the history variable `passedOver`;
  `ChangeReaches` excuses them and nobody else, and fails for all `Clients`.
* An account created after boot is first
  compared at its first announced change (`:153`).
* A registration whose `Welcome` cannot be written stays among the live edges
  (`edge_link.rs:471`).
* Lists of members go wrong, besides the ghost, where lines held behind an answer
  cross lines sent at once: the echo of a KICK reaches its sender before the held
  JOIN of the user kicked, a user's own JOIN before the held KICK from it, a NICK
  crosses a KICK by the old nick, a nick is taken by somebody else while
  events of its last owner are on their way, and a channel is joined whose owner
  has yet to hear of a QUIT or a NICK (`Unheard`). `UncrossedViewsAreExact` leaves
  those histories out (`crossed`) and shows there are no others.
* JOIN, JOIN 0, JOIN of one channel in a burst: the PART the JOIN 0 owes is sent
  after the second JOIN was admitted and takes the user out again
  (`channel.rs:604`).
* An account a REGISTER creates is not held to the suspension gate when
  `AccountCreated` lands (`sasl.rs:576`); LOGOUT, or IDENTIFY to another account,
  on a protected nick starts no enforcement clock (`services.rs:153`).

## 5. Proofs

Checked with `tlapm M.tla`, for every value of the constants the named
assumptions allow: any number of processes, producers, clients, credentials,
networks and sessions, any capacity and any line weights. An invariant that a run
checks is seldom inductive; each module states what has to be added, as named
conjuncts, with a lemma for each action (or for each shape of action).

**Sums** (`TotalsProofs`). `TotalWeight` is a recursive function, and what it does
at `Append`, `Tail` and the last element needs induction over the length. The
library's induction theorems take an operator as a parameter, which the installed
provers cannot instantiate; the least-number principle (`LeastNatural`, from the
well-foundedness of `<` on the naturals) takes a set, and gives induction up to a
bound (`InductionUpTo`), from which the lemmas follow.

**Serving lease** (`ServingProofs`), from `LeaseAssumption` (a process is
fenced, with its timer's slack and the longest wait for the row's lock, within the
TTL):

* `TypeCorrect`: `Spec => []TypeOK`.
* `WritesAreFenced`: `NoWriteAfterTakeover`, without any assumption on how long a
  takeover takes. Every process connects as one database role, as
  `deploy/README.md:401-403` requires: over connections hidden from its role
  (`serving_lease.rs:459-466`) a takeover commits with a warning, and the property
  would not hold. A takeover's commit must know that the backends it listed were
  all there were, so the invariant adds that an open connection is recorded at the
  current epoch and that no one else can have connected while the row is locked
  (`LockInv`, `ConnInv`), which rest on where a renewal's answer can be awaited
  (`ReplyInv`).
* `FencedBeforeTaken`: `HeldIsHolder`, however slow takeovers and renewals are.
  `LeaseInv` adds: nothing is timed from the future and no renewal is awaited past its
  deadline and the slack (`TimeInv`); a renewal at the database is no staler than the
  lock timeout and is of its sender's epoch (`StmtInv`); and a process owns the row, at
  a time no earlier than the one it counts from, until its fence and the slack have
  passed (`Counts`, `OwnInv`). A takeover finds the row expired, and all the timers
  together contradict that for an owner that still counts. A process whose takeover
  outlasted its fence does not count: it awaits nothing, and `RenewDue` is closed to it.
* `FenceLiftedByHolder`: the action property `ResumesAsHolder`. An answer `renewed`
  still unread means the row is its asker's, at its epoch, though it may be as old as
  the deadline.

**Core shards** (`ServingProofs`), for any number of shards, any queue capacity and
any backlog limit:

* `EventsDelivered`: `DeliveredInOrder`. The invariant (`DeliveryInv`) says for each
  pair of shards which numbers are where: the backlog is the newest events sent,
  without a gap (`Held`), the queue those between the last one taken and the first
  held back (`Queued`), all of them unless one of the two shards has left
  (`Complete`: a queue whose shard is gone drops what it is sent), and the event in
  hand is the newest taken.
* `WorkersTypeCorrect`: `WorkersTypeOK`; `in_flight` is decremented for an event settled and for one a closed queue refuses, and
  that it never goes below zero, and that no worker is counted as stopping twice, are
  consequences of the counts and not of the assignments.
* `DrainIsOver`: `StoppedMeansQuiet`, and `InFlightIsExact`. `CountInv` counts the
  set of all events in hand, queued or held back between any two shards
  (`Unsettled`): it is `in_flight` while no shard has failed, and never more than it
  afterwards. `drained` loads `stopping` and then `in_flight`; `StopInv` says that a
  worker between the two loads, or past them, found every worker stopping, so that
  nothing new comes from outside, and `QuietInv` that once a worker has stopped
  nothing is left for good: an event can only be caused by one that is in hand, and
  that one is settled after its effects are counted.

**Work queue** (`IngressProofs`):

* `QueueInvariant`, `QueueBounded` (`BoundedByWeight`), `QueueLosesNoWake`
  (`NoLostWakeup`). The invariant adds that the line of parked producers holds each
  once and only who waits (`LineOK`), that an empty queue with a line has somebody
  on its way to use the room (`RoomIsUsed`: woken, or told of room and about to
  push), and when the receiver sleeps.
* `HistoryInvariant`, `DeliversInOrder` (`FifoDelivery`), `EventsAccounted`
  (`DeliveredOrReturned`): numbering the events, each buffered number is above every
  delivered one while the queue has never been degraded, and the places an event can
  be in exclude each other.

**Session link** (`SessionProofs`):

* `LinkInvariant`, `EdgeNeverOverrun` (`TypeOK` and `NoEdgeOverrun`), `NoLostWake`
  (`NoSleepPastRoom`). The buffer's total is what was sent and not taken, and the
  room seen by a wait is still there when it sends (`Accounted`); a core end past its
  arming is armed, or its bit was taken by an advance that has yet to notify, or the
  wake is there (`ArmedOrWoken`); what it saw absent has not come since without a wake
  (`SeenAbsent`).
* `LinkImplementsAccount`: every step of the two threads is a step of `OutputAccount`
  or leaves what it shows alone. `AccountBounded` proves the promise of the abstract
  account, and `LinkBounded` carries it over to the link.

**Sign-in** (`SignInProofs`):

* `SignInInvariant`, `LoginsStand` (`LoginStands`), `HeldStaysExact` (`HeldIsExact`),
  `RegistrationWaitsForAVerdict` (`CompletesUnlessDropped`), and `VerdictsAnswer`, the
  action property `VerdictAnswersItsAttempt`. Two layers: the sessions (each
  outstanding check is its session's, an attempt is numbered once, the holders are
  counted by cardinality), then the changes (a verdict that no longer stands belongs
  to an epoch that is over, or the change is still due, announced or to be re-read).

**Account authority** (`AccountAuthorityProofs`):

* `AuthorityInvariant`, `RevocationsReach` (`RevocationReaches`). The invariant adds
  the credentials checked but not yet leased (`VerifiedAnswered`): a ticket remembers
  every revocation newer than itself until it is spent, which is what
  `RevocationState::prune` must not forget.
* `ChangesReach` (`ChangeReaches`), whoever makes the changes and whichever answers
  are lost. `ChangeInv` speaks of what is *live*: an attachment or a checked credential
  that was not passed over and that no revocation of the account will refuse. Nothing
  live is newer than the row (`Current`) or older than what the ledger records
  (`Recorded`), and the ledger is behind the row, as is every password change that waits
  for its turn (`Waiting`); a row a turn has read is the row, or the row's change is
  still to be followed (`ReadTurn`); nothing is live in an account deleted here
  (`DeletedHere`); and if no change is coming, nothing live is outdated (`LiveReached`,
  which is the property with the checked credentials added).

**Networks** (`NetworksProofs`):

* `NetworksInvariant`, `OneSessionEach` (`OneUpstreamSession`), `NoDriverLeftBehind`
  (`NoStrayDriver`), `WritersHaveTheirRows` (`WriterHasItsRow`), `GapsAreTold`
  (`NoSilentGap`), `RunsWhatIsStored` (`RunsAsStored`). Layers: a run by itself
  (`Ordered`); slots and runs point at each other (`Registered`); the operation at each
  of its awaits (`LaneShape`, `LaneTakes`); the lines of a run, in its queue, kept, or
  counted as missed; and what the slots hold against what is stored.

**Membership** (`SessionProofs`, and `MembershipProofs` for the records), from
`MembershipAssumption` (shards are numbers, every session and channel has one; first
nicks differ), for any sets of sessions, channels and shards and any limit. Nothing
about ranks or admission is used, and of nicks only who bears which:

* `MembershipInvariant`, `LimitHeld` (`LimitHolds`), `HoldsEnded` (`HoldsEnd`),
  `EventsEnded` (`EventsForgotten`), `ToldOnlyOnce` (`ToldOnce`). None of these is
  inductive: they speak of quiet states, or of counts that are right only because of
  what is still in the mail. The invariant is bookkeeping over the mail. `Owes(t, m, k)`
  says that message `m` in the mail of shard `t` owes key `k` something; `Owed(mail, k,
  n)` that `n` places of the mail do. A place is `<<sender, receiver, index>>`, so the
  lemmas `SentMany` and `Took` give the new number after an `Append` or a
  `Tail` by a bijection of places.
* `HoldInv`: a session's `deferred` is the number of requests and answers of its own in
  the mail, and its `pending` count for a channel the number of JOINs and answers to
  JOINs of that channel (`SessionOK`); an ended session has none counted, and its
  answers find it gone. `LimitOK` bounds the channels a session is in together with
  those it has asked for, which is why `RoomForChannel` must count both.
* `EventInv`: for each user event, every shard is owed either all of its parts or what
  is left of them: parts heard and parts owed (reports still on their way to an owner,
  and parts on their way to the shard) add up to `parts`, and an event is forgotten
  exactly with its last part (`ShardOK`). Whoever was told is in `told` of that entry
  or nothing more is owed, hence nobody is told twice. The handlers of NICK and of a
  connection's end report to the owners below their own shard, handle their own
  report, then report to those above; between these the sum is short by the reports
  still to be sent, which `Owing` carries as a debt per shard (`Debt`) through the
  handler.
* `MembersInvariant`, `RecordsKept` (`RecordsAgree`), `LeaversStayOut`
  (`LeftStaysLeft`). Between quiet states the two shards' records of a session in a
  channel differ; the invariant says by what. A session and a channel of another shard
  write to each other in two queues, requests to the owner and answers to the home
  (`AllPlaced`: no message about them is anywhere else, and only ended sessions
  quit). `RecordOK`: the channel has the session as a member exactly when the last
  answer on its way that puts it in or out puts it in, or, with none on its way, when
  the session's own shard says so. `NameOK`: the member's nick, after the renames on
  their way, is the session's, and so is that of each JOIN on its way that no rename
  follows. `GoneOK`: if the channel still has an ended session, or will yet admit it,
  a QUIT is behind every JOIN of it. `LeaveOK`: if the last that was asked of a
  channel is to leave it, a PART is behind every JOIN, or there is none and the session
  is not a member, or every JOIN in flight is marked in `part_on_join` (this one needs
  `HoldInv`: the marks are as many as the JOINs). The lemmas look at a queue only
  through a few predicates of one session and channel (`NoMoves`, `EndsIn`, `JoinsAs`,
  `QuitLast`, ...): `AddedView` and `DroppedView` say what an `Append` and a `Tail` do
  to each, and `Like` that two queues agree in all. A handler is then shown to move one
  session in one channel at most (`Moved`), or nobody (`Calm`, `Hushed`).

**Edge link** (`IngressProofs`), from `CoreLinkAssumption` (finitely many sessions,
a window and a queue of at least one):

* `StreamInvariant`, `CreditsAddUp` (`CreditAccount`), `ShardHearsEach`
  (`ShardHearsInOrder`), `NoneLeftBehind` (`NoZombie`). The proof looks at a queue of
  frames only through what it holds of one session: the numbers of its Open (0) and
  lines, whether it says the session is over, and whether the frames are in order
  (`Nums`, `Ends`, `InOrder`); the lemmas on `Append`, `Tail` and prefixes are about
  these. Per session, `CoreOrder` says which number the shard is owed next and that
  none is missing behind it, `WireOrder` the same of the wire for as long as the core
  still expects the session's lines, and `ConnOrder` what its connection may still
  send. `CreditInv` adds that lines on the wire and in flight stay within the window
  even after the edge's end has gone. Order and credits need each other: a line the
  core took for a breach of the window would be missing from the order, and a session
  opened twice would be called a breach. `EndInv` says the core forgets a session only
  when its shard is told or has ended it, and that a Kill or an End on its way to the
  edge is true (`AnswersTrue`): the core never had and never will have the one, the
  shard has ended the other. That is what lets a connection drain without telling.

Only model-checked:

* all liveness (`LineDrains`, `SendersGoneIsReported`, `WaitsEnd`, `BacklogsMove`,
  `ShutdownEnds`): fairness is outside the prover's reach; and `NobodyWaitsForEver`,
  which speaks of `ENABLED`;
* of `Membership`, `UncrossedViewsAreExact`: what a client's list of a channel will be
  once all is quiet depends on lines of several shards, some of them held, and on what
  was crossed in the history so far;
* the numeric bounds of `CoreLink`'s `TypeOK`.

## 6. Plan

Done: the work queue, progress word, session link, core workers, serving lease,
the input side of the core link, account authority for attachments, membership
across shards, sign-in, the bouncer's networks; and the proofs of §5.

Next, in order:

1. `LinkedOutput`: `Output`, `Drained`, `DrainedWatch` and the pump between two
   session links; must implement `OutputAccount` end to end.
2. `LinkRegistry`: `Hello`/`Welcome`, streams joining, an edge linking again, the
   epoch fence against a superseded core, registrations that end.
3. `HotHistory` and read markers; batches of the database worker; secret
   rotation; paced replies and timers; the flood meter; nick regain; the client's
   liveness.
4. Pure operators against reference definitions: mask matching, case mapping,
   line framing.

## 7. Not modelled

Bytes: frame and message encodings, IRC grammar, replies' wording. SQL beyond the
statements whose interleaving matters. TLS, certificates and address parsing.
Configuration, telemetry, user interfaces, bridges to third-party services, load
and qualification tools. Each is a component of `PROJECT.json` with its reason.

Left out of the modules above:

* `Membership`: modes, topics, invites and away state; lists of targets (one
  command per target); labels.
* `SignIn`: SASL mechanisms (a payload carries a credential), rate limits by
  address, expiring tokens other than as a connection's end, nick protection.
  How the listener finds account changes is `AccountAuthority`'s.
* `Networks`: names held by both the configuration and an account (refused to
  every mutation), the notices about a network that cannot start, changes made by
  another process (`AccountAuthority`), an account deletion that finds no row,
  drivers that panic, and the lost answer of a suspension or a reactivation
  (`http/mod.rs:898-907`): it leaves the networks as they were until the watcher applies
  the change, which `AccountAuthority` models; here an account's change and its
  application are one operation. Errors the persistence task records while it restores
  (a failed read of the backlog or the case mapping, a failed trim,
  `bouncer/serve.rs:1210-1224`) change no line it keeps: it goes on, and only the error
  of opening the buffer ends it. The notice an error puts into the same broadcast
  (`record_error`) could make the task lag once more, after `error` is set already.
  `Quiet` waits for every run's stop where a restore waits for its own network's
  predecessor; they differ only after a shutdown, when nothing starts.
* `AccountAuthority`: a second account, sign-ins of the core (`SignIn`), and accounts
  created after boot.
* `ServingLease`: connections of another database role (see above).

The implementation is some 158,000 lines, most of it replies, SQL, parsing,
configuration and clients of third-party services without a protocol of their
own. The project models the protocols between tasks, shards and processes, which
are a small share of those lines.
