------------------------------ MODULE Networks ------------------------------
(***************************************************************************)
(* The bouncer's registry of running networks (bouncer/serve.rs) and what  *)
(* moves it: an account's own create, edit, enable, disable and delete     *)
(* (http/networks.rs), its suspension, reactivation and permanent deletion *)
(* (http/mod.rs, account_authority.rs, account_deletion.rs) and the        *)
(* process shutdown.                                                       *)
(*                                                                         *)
(* A network's definition is a row of the database; what runs of it is a   *)
(* driver task (the upstream session), a persistence task that writes the  *)
(* lines the driver says to the stored backlog, and clients attached to    *)
(* its handle.  The mutation lane serialises the transitions, but each is  *)
(* made of awaits: the database's answer, the driver's goodbye, the        *)
(* persistence task's last write.  Everything else runs in between.        *)
(*                                                                         *)
(* One account owns every network: Stored ones by their rows, Configured   *)
(* ones by the server's configuration (their names differ: a name the      *)
(* configuration holds is refused to every account-level mutation).  A     *)
(* "run" is one start of one network: its driver, its persistence task and *)
(* the task that stops them.                                               *)
(***************************************************************************)
EXTENDS Integers, Sequences, FiniteSets, SequencesExt

CONSTANTS
    Stored,       \* networks an account may create: a row each, when they exist
    Configured,   \* networks the configuration defines for the account
    Busy,         \* bound: the networks whose drivers say lines and clients attach to
    Cap,          \* lines a driver's broadcast keeps for a slow persistence task
    MaxRuns,      \* bound: drivers started
    MaxEvents,    \* bound: lines the drivers say and attachments clients make
    MaxOps,       \* bound: control-plane operations entered on the lane
    MaxTrouble    \* bound: deadlines passed and statements failed

ASSUME NetworksAssumption ==
    /\ IsFiniteSet(Stored) /\ IsFiniteSet(Configured)
    /\ Stored \cap Configured = {} /\ Busy \subseteq Stored \cup Configured
    /\ Cap \in Nat \ {0}
    /\ {MaxRuns, MaxEvents, MaxOps, MaxTrouble} \subseteq Nat

Nets == Stored \cup Configured
NoRun == 0
NoRow == [id |-> 0, ver |-> 0, on |-> FALSE]

VARIABLES
    row,        \* Stored -> the network's row: which creation, which edit, enabled
    owner,      \* the account's row: "active", "suspended" or "deleted"
    slot,       \* Nets -> the run registered under the key, or NoRun
    hold,       \* Configured -> the slot's OwnerHold: "no", "Suspended", "Deleted"
    replacing,  \* keys whose successor is being started
    closed,     \* a shutdown has closed the registry
    runs,       \* the runs started so far, in order
    lane,       \* the operation holding the mutation lane, or Free
    client,     \* one attaching client
    ops,        \* operations entered so far
    events,     \* lines and attachments so far
    trouble,    \* failures so far
    excused     \* networks whose operation ended in an error that says so

vars == <<row, owner, slot, hold, replacing, closed, runs, lane, client, ops,
          events, trouble, excused>>
database == <<row, owner>>
registry == <<slot, hold, replacing, closed>>

-----------------------------------------------------------------------------
(* The lane.                                                               *)

(* An operation under way: `phase` is the await it stands at, `todo` the   *)
(* networks it still has to start, `out` the configured slots it took out  *)
(* to hold, `answer` what its database statement said.                     *)
Free == [op |-> "free", phase |-> "free", net |-> {}, todo |-> {}, out |-> {},
         was |-> "active", answer |-> "none"]
Lane(op, phase, net) == [Free EXCEPT !.op = op, !.phase = phase, !.net = net]

(* A statement's outcome: committed, committed with the answer lost on the *)
(* way back, or refused.                                                   *)
Commits == {"ok", "lost"}
Failing(bad) == /\ bad => trouble < MaxTrouble
                /\ trouble' = IF bad THEN trouble + 1 ELSE trouble

MutQuiet == TRUE

(* Every task stopping a run has ended: what the lane awaits.              *)
Stopping(r) == r.stop \in {"tell", "wait", "join"}
Quiet == \A i \in DOMAIN runs : ~Stopping(runs[i])

-----------------------------------------------------------------------------
(* Starting and stopping.                                                  *)

RunOf(n) == [net |-> n, ver |-> IF n \in Stored THEN row[n].ver ELSE 0,
             row |-> 0,                          \* the row its buffer was opened on
             up |-> TRUE, parked |-> FALSE, told |-> FALSE, late |-> FALSE,
             said |-> 0, queue |-> <<>>, missed |-> 0, kept |-> {},
             feed |-> "restoring", left |-> 0, error |-> FALSE,
             stop |-> "no", unwritten |-> "none"]

(* Insert: refused once closed (every caller here knows the key is free).  *)
Insert(n) ==
    /\ ~closed
    /\ runs' = Append(runs, RunOf(n))
    /\ slot' = [slot EXCEPT ![n] = Len(runs) + 1]

MutTakeOut(S, unwritten) ==
    /\ runs' = runs
    /\ slot' = [n \in Nets |-> IF n \in S THEN NoRun ELSE slot[n]]

(* The runs registered under S begin to stop; the slots leave the registry.*)
TakeOut(S, unwritten) ==
    /\ runs' = [i \in DOMAIN runs |->
                  IF \E n \in S : slot[n] = i /\ runs[i].stop = "no"
                  THEN [runs[i] EXCEPT !.stop = "tell", !.unwritten = unwritten]
                  ELSE runs[i]]
    /\ slot' = [n \in Nets |-> IF n \in S THEN NoRun ELSE slot[n]]

(* ensure_running leaves a connected or still retrying driver alone.       *)
Working(n) == slot[n] # NoRun /\ ~runs[slot[n]].parked

-----------------------------------------------------------------------------
(* Operations entering the lane.  What they check of the database they     *)
(* read on the lane, so nothing moves it before they write.                *)

(* (No operation starts more runs than there are networks.)                *)
Enter == /\ lane = Free
         /\ ops < MaxOps /\ Len(runs) + Cardinality(Nets) <= MaxRuns
         /\ ops' = ops + 1

MutOwnerMayRun == owner # "deleted"

(* ActiveOwnerLane::enter                                                  *)
OwnerMayRun == owner = "active"

(* A statement that should be followed by `then` on the lane; when its     *)
(* answer is lost the caller reports an error and does no more.            *)
Write(s, new, then) ==
    \E answer \in Commits :
        /\ Failing(answer = "lost")
        /\ row' = [row EXCEPT ![s] = new]
        /\ IF answer = "ok" THEN lane' = then /\ UNCHANGED excused
           ELSE lane' = Free /\ excused' = excused \cup {s}

CreateNetwork(s) ==
    /\ Enter /\ OwnerMayRun /\ row[s] = NoRow
    /\ Write(s, [id |-> ops + 1, ver |-> ops + 1, on |-> TRUE],
             [Lane("create", "supersede", {s}) EXCEPT !.todo = {s}])
    /\ UNCHANGED <<owner, registry, runs, client, events>>

UpdateNetwork(s) ==
    /\ Enter /\ OwnerMayRun /\ row[s] # NoRow
    /\ Write(s, [row[s] EXCEPT !.ver = ops + 1],
             IF row[s].on THEN [Lane("update", "supersede", {s}) EXCEPT !.todo = {s}]
             ELSE Free)
    /\ UNCHANGED <<owner, registry, runs, client, events>>

EnableNetwork(s) ==
    /\ Enter /\ OwnerMayRun /\ row[s] # NoRow
    /\ Write(s, [row[s] EXCEPT !.on = TRUE],
             [Lane("enable", "ensure", {s}) EXCEPT !.todo = {s}])
    /\ UNCHANGED <<owner, registry, runs, client, events>>

DisableNetwork(s) ==
    /\ Enter /\ row[s] # NoRow
    /\ Write(s, [row[s] EXCEPT !.on = FALSE], Lane("disable", "remove", {s}))
    /\ UNCHANGED <<owner, registry, runs, client, events>>

(* The driver a refused delete restarts is built first; one whose row no   *)
(* longer builds is left stopped, and says so.                             *)
DeleteNetwork(s) ==
    /\ Enter /\ row[s] # NoRow
    /\ \E builds \in BOOLEAN :
          /\ Failing(~builds)
          /\ lane' = [Lane("delete", "remove", {s}) EXCEPT
                        !.todo = IF slot[s] # NoRun /\ builds THEN {s} ELSE {}]
          /\ excused' = IF builds THEN excused ELSE excused \cup {s}
    /\ UNCHANGED <<database, registry, runs, client, events>>

SuspendAccount ==
    /\ Enter /\ owner # "deleted"
    /\ owner' = "suspended"
    /\ lane' = Lane("suspend", "remove", Stored)
    /\ UNCHANGED <<row, registry, runs, client, events, trouble, excused>>

(* The core lifts its gate before anything starts; when it cannot, nothing *)
(* does, and the answer says the account was reactivated but not this.     *)
ReactivateAccount ==
    /\ Enter /\ owner # "deleted"
    /\ owner' = "active"
    /\ \E gated \in BOOLEAN :
          /\ Failing(gated)
          /\ IF gated THEN lane' = Free /\ excused' = Nets
             ELSE /\ lane' = [Lane("reactivate", "ensure", {}) EXCEPT
                                !.todo = {s \in Stored : row[s].on}]
                  /\ UNCHANGED excused
    /\ UNCHANGED <<row, registry, runs, client, events>>

DeleteAccount ==
    /\ Enter /\ owner # "deleted"
    /\ \E build \in SUBSET {s \in Stored : slot[s] # NoRun} :
          LET broken == {s \in Stored : slot[s] # NoRun} \ build IN
          /\ Failing(broken # {})
          /\ lane' = [Lane("delete account", "remove", Stored) EXCEPT
                        !.todo = build, !.was = owner]
          /\ excused' = excused \cup broken
    /\ UNCHANGED <<database, registry, runs, client, events>>

-----------------------------------------------------------------------------
(* The transitions on the lane.                                            *)

Unwritten == IF lane.op \in {"delete", "delete account"} THEN "Discard" ELSE "Store"

(* remove and remove_owner: out of the registry now, stopped concurrently. *)
RemoveSlots ==
    /\ lane.phase = "remove"
    /\ TakeOut(lane.net, Unwritten)
    /\ lane' = [lane EXCEPT !.phase = "stopping"]
    /\ UNCHANGED <<database, hold, replacing, closed, client, ops, events, trouble, excused>>

Stopped(op) == lane.op \in op /\ lane.phase = "stopping" /\ Quiet

Disabled ==
    /\ Stopped({"disable"})
    /\ lane' = Free
    /\ excused' = excused \ lane.net
    /\ UNCHANGED <<database, registry, runs, client, ops, events, trouble>>

(* hold_configured_owned(Suspended): each slot is taken out, its driver    *)
(* and persistence task stopped, and it is registered again as held.       *)
HoldConfigured ==
    /\ Stopped({"suspend", "delete account"})
    /\ LET owned == {g \in Configured : slot[g] # NoRun} IN
          /\ TakeOut(owned, "Store")
          /\ lane' = [lane EXCEPT !.phase = "holding",
                                  !.out = {<<g, slot[g]>> : g \in owned}]
    /\ UNCHANGED <<database, hold, replacing, closed, client, ops, events, trouble, excused>>

Held ==
    /\ lane.phase = "holding" /\ Quiet
    /\ slot' = [n \in Nets |-> IF \E p \in lane.out : p[1] = n
                               THEN (CHOOSE p \in lane.out : p[1] = n)[2] ELSE slot[n]]
    /\ hold' = [g \in Configured |-> IF \E p \in lane.out : p[1] = g
                                     THEN "Suspended" ELSE hold[g]]
    /\ lane' = IF lane.op = "suspend" THEN Free
               ELSE [lane EXCEPT !.phase = "delete account", !.out = {}]
    /\ UNCHANGED <<database, replacing, closed, runs, client, ops, events, trouble, excused>>

(* delete_bnc_network, the driver already stopped.  An error - a refusal,  *)
(* or a commit whose answer was lost - restarts what ran.                  *)
DeleteRow ==
    /\ Stopped({"delete"})
    /\ \E answer \in Commits \cup {"refused"} :
          LET s == CHOOSE s \in lane.net : TRUE IN
          /\ Failing(answer # "ok")
          /\ row' = IF answer = "refused" THEN row ELSE [row EXCEPT ![s] = NoRow]
          /\ lane' = IF answer = "ok" \/ lane.todo = {} THEN Free
                     ELSE [lane EXCEPT !.phase = "supersede", !.answer = answer]
          /\ excused' = CASE answer = "ok"   -> excused \ {s}
                          [] answer = "lost" -> excused \cup {s}
                          [] OTHER           -> excused
    /\ UNCHANGED <<owner, registry, runs, client, ops, events>>

(* delete_account_permanently and what follows each answer: the second     *)
(* hold, or the restart of exactly what ran.                               *)
DeleteAccountRow ==
    /\ lane.phase = "delete account"
    /\ \E answer \in Commits \cup {"refused"} :
          /\ Failing(answer # "ok")
          /\ IF answer = "refused" THEN UNCHANGED database
             ELSE owner' = "deleted" /\ row' = [s \in Stored |-> NoRow]
          /\ lane' = IF answer = "ok" THEN Free
                     ELSE [lane EXCEPT !.phase = "ensure", !.answer = answer]
          /\ hold' = [g \in Configured |-> IF answer = "ok" /\ slot[g] # NoRun
                                           THEN "Deleted" ELSE hold[g]]
          /\ excused' = IF answer = "lost" THEN Nets ELSE excused
    /\ UNCHANGED <<slot, replacing, closed, runs, client, ops, events>>

(* replace: refused once closed; the predecessor stops, keeping its lines. *)
Supersede(n) ==
    /\ \/ lane.phase = "supersede"
       \/ lane.phase = "ensure" /\ ~Working(n)
    /\ n \in lane.todo \ replacing
    /\ ~closed
    /\ TakeOut({n}, "Store")
    /\ replacing' = replacing \cup {n}
    /\ UNCHANGED <<database, hold, closed, lane, client, ops, events, trouble, excused>>

Start(n) ==
    /\ n \in lane.todo \cap replacing
    /\ Quiet
    /\ Insert(n)
    /\ replacing' = replacing \ {n}
    /\ lane' = [lane EXCEPT !.todo = @ \ {n}]
    /\ excused' = IF lane.answer = "none" THEN excused \ {n} ELSE excused
    /\ UNCHANGED <<database, hold, closed, client, ops, events, trouble>>

AlreadyWorking(n) ==
    /\ lane.phase = "ensure" /\ n \in lane.todo \ replacing /\ Working(n)
    /\ lane' = [lane EXCEPT !.todo = @ \ {n}]
    /\ UNCHANGED <<database, registry, runs, client, ops, events, trouble, excused>>

(* The registry closed before this operation had the lane: it starts       *)
(* nothing, and says so.                                                   *)
RefusedClosed ==
    /\ lane.phase \in {"supersede", "ensure"} /\ lane.todo # {} /\ closed
    /\ lane' = Free
    /\ UNCHANGED <<database, registry, runs, client, ops, events, trouble, excused>>

(* release_configured_owned, for a reactivation and for a deletion refused *)
(* of an account that was not suspended.                                   *)
Releases == \/ lane.op = "reactivate"
            \/ lane.op = "delete account" /\ lane.was = "active"

ReleaseConfigured ==
    /\ lane.phase = "ensure" /\ lane.todo = {} /\ Releases
    /\ \E g \in Configured :
          /\ hold[g] = "Suspended" /\ slot[g] # NoRun
          /\ Insert(g)
          /\ hold' = [hold EXCEPT ![g] = "no"]
    /\ UNCHANGED <<database, replacing, closed, lane, client, ops, events, trouble, excused>>

Finish ==
    /\ lane.phase \in {"supersede", "ensure"} /\ lane.todo = {}
    /\ Releases => closed \/ \A g \in Configured : hold[g] # "Suspended" \/ slot[g] = NoRun
    /\ lane' = Free
    /\ UNCHANGED <<database, registry, runs, client, ops, events, trouble, excused>>

(* stop_all_within: the shutdown takes the lane for the instant it closes  *)
(* the registry and takes every slot out.                                  *)
StopAll ==
    /\ lane = Free /\ ~closed
    /\ closed' = TRUE
    /\ replacing' = {}
    /\ TakeOut(Nets, "Store")
    /\ UNCHANGED <<database, hold, lane, client, ops, events, trouble, excused>>

-----------------------------------------------------------------------------
(* One run.                                                                *)

With(i, r) == runs' = [runs EXCEPT ![i] = r]
RunFrame == UNCHANGED <<database, registry, lane, client, ops, events, excused>>
Event == events < MaxEvents /\ events' = events + 1

(* The driver says a line: to the ring, and to the persistence task's      *)
(* bounded queue.  It says its goodbye after being told to stop.           *)
Say(i) ==
    LET r == runs[i]
        full == Len(r.queue) = Cap
    IN /\ r.up /\ r.net \in Busy
       /\ Event
       /\ With(i, [r EXCEPT !.said = @ + 1,
                            !.queue = IF r.feed = "ended" THEN <<>>
                                      ELSE Append(IF full THEN Tail(@) ELSE @, r.said + 1),
                            !.missed = IF full /\ r.feed # "ended" THEN @ + 1 ELSE @])
       /\ UNCHANGED <<database, registry, lane, client, ops, trouble, excused>>

(* The upstream refuses it for good: it stays, and tries no more.          *)
Park(i) ==
    /\ runs[i].up /\ ~runs[i].told /\ ~runs[i].parked /\ runs[i].net \in Stored
    /\ Failing(TRUE)
    /\ With(i, [runs[i] EXCEPT !.parked = TRUE])
    /\ RunFrame

Release(i) ==
    /\ runs[i].up /\ runs[i].told
    /\ With(i, [runs[i] EXCEPT !.up = FALSE])
    /\ RunFrame /\ UNCHANGED trouble

(* Slot::stop: tell the driver, wait for its release or the deadline, then *)
(* signal the persistence task and join it.                                *)
Tell(i) ==
    /\ runs[i].stop = "tell"
    /\ With(i, [runs[i] EXCEPT !.told = TRUE, !.stop = "wait"])
    /\ RunFrame /\ UNCHANGED trouble

Signal(i) ==
    /\ runs[i].stop = "wait"
    /\ Failing(runs[i].up)
    /\ With(i, [runs[i] EXCEPT !.stop = "join", !.late = runs[i].up])
    /\ RunFrame

MutJoin(i) ==
    /\ runs[i].stop = "join"
    /\ With(i, [runs[i] EXCEPT !.stop = "done"])
    /\ RunFrame /\ UNCHANGED trouble

(* Joined; or, in a shutdown, aborted at its deadline, which the report    *)
(* counts.                                                                 *)
Join(i) ==
    LET r == runs[i] IN
    /\ r.stop = "join"
    /\ r.feed # "ended" => closed
    /\ Failing(r.feed # "ended")
    /\ With(i, [r EXCEPT !.stop = "done", !.feed = "ended", !.queue = <<>>,
                         !.error = r.error \/ r.feed # "ended"])
    /\ RunFrame

(* The persistence task.  It restores the backlog and opens the buffer on  *)
(* the network's row; a stored network whose row is gone has none, and no  *)
(* line of it is written.                                                  *)
Restore(i) ==
    LET r == runs[i]
        rowId == IF r.net \in Stored THEN row[r.net].id ELSE 0
    IN /\ r.feed = "restoring"
       /\ \E fails \in BOOLEAN :
             LET opened == ~fails /\ (r.net \in Stored => rowId # 0) IN
             /\ Failing(fails)
             /\ With(i, [r EXCEPT !.feed = IF opened THEN "open" ELSE "ended",
                                  !.row = IF opened THEN rowId ELSE 0,
                                  !.queue = IF opened THEN @ ELSE <<>>,
                                  !.error = ~opened])
       /\ RunFrame

(* What it does with the event it received: a lag or a failed write is     *)
(* recorded on the network's runtime state.                                *)
Received(r, fails) ==
    IF r.missed > 0 THEN [r EXCEPT !.missed = 0, !.error = TRUE]
    ELSE [r EXCEPT !.queue = Tail(@), !.error = @ \/ fails,
                   !.kept = IF fails THEN @ ELSE @ \cup {Head(r.queue)}]

(* PersistenceFeed::next: a stop comes before the next event, and one that *)
(* keeps unwritten lines leaves exactly what is queued at that moment.     *)
Persist(i) ==
    LET r == runs[i] IN
    /\ r.feed = "open" /\ r.stop # "join" /\ r.queue # <<>>
    /\ \E fails \in BOOLEAN : Failing(fails /\ r.missed = 0) /\ With(i, Received(r, fails))
    /\ RunFrame

MutTakeStop(i) ==
    /\ runs[i].feed = "open" /\ runs[i].stop = "join"
    /\ With(i, [runs[i] EXCEPT !.feed = "ended", !.queue = <<>>])
    /\ RunFrame /\ UNCHANGED trouble

TakeStop(i) ==
    LET r == runs[i] IN
    /\ r.feed = "open" /\ r.stop = "join"
    /\ With(i, IF r.unwritten = "Store"
               THEN [r EXCEPT !.feed = "draining", !.left = Len(r.queue) + r.missed]
               ELSE [r EXCEPT !.feed = "ended", !.queue = <<>>])
    /\ RunFrame /\ UNCHANGED trouble

Drain(i) ==
    LET r == runs[i] IN
    /\ r.feed = "draining"
    /\ IF r.left = 0 \/ r.queue = <<>>
       THEN With(i, [r EXCEPT !.feed = "ended", !.queue = <<>>]) /\ UNCHANGED trouble
       ELSE \E fails \in BOOLEAN :
               /\ Failing(fails /\ r.missed = 0)
               /\ With(i, [Received(r, fails) EXCEPT !.left = @ - 1])
    /\ RunFrame

-----------------------------------------------------------------------------
(* A client attaching.  It resolves the handle, then - a handshake's or an *)
(* upgrade's wait later - subscribes to the handle's stop, and from then   *)
(* on is woken only by a change of it.                                     *)

Away == [at |-> NoRun, step |-> "away", seen |-> FALSE]
ClientFrame == UNCHANGED <<database, registry, runs, lane, ops, trouble, excused>>

Resolve(n) ==
    /\ client = Away /\ slot[n] # NoRun
    /\ client' = [Away EXCEPT !.at = slot[n], !.step = "resolved"]
    /\ Event /\ ClientFrame

MutSubscribe ==
    /\ client.step = "resolved"
    /\ client' = IF runs[client.at].feed = "restoring" THEN [client EXCEPT !.step = "waiting"]
                 ELSE [client EXCEPT !.step = "attached", !.seen = runs[client.at].told]
    /\ UNCHANGED events /\ ClientFrame

(* The stop is checked once, up front, when it is subscribed to.           *)
Subscribe ==
    /\ client.step = "resolved"
    /\ client' = IF runs[client.at].told THEN Away ELSE [client EXCEPT !.step = "waiting"]
    /\ UNCHANGED events /\ ClientFrame

(* wait_for_history: the stop, or the restored backlog.                    *)
Attach ==
    /\ client.step = "waiting"
    /\ \/ runs[client.at].told /\ client' = Away
       \/ /\ ~runs[client.at].told /\ runs[client.at].feed # "restoring"
          /\ client' = [client EXCEPT !.step = "attached"]
    /\ UNCHANGED events /\ ClientFrame

NetworkRemoved ==
    /\ client.step = "attached" /\ runs[client.at].told /\ ~client.seen
    /\ client' = Away
    /\ UNCHANGED events /\ ClientFrame

Leave ==
    /\ client.step = "attached" /\ client' = Away
    /\ UNCHANGED events /\ ClientFrame

-----------------------------------------------------------------------------
(* Booted: the configured networks run, and the stored ones whose row is   *)
(* enabled, their backlogs restored.                                       *)
Init ==
    \E rows \in SUBSET Stored :
        LET booted == SetToSeq(Configured \cup rows) IN
        /\ row = [s \in Stored |-> IF s \in rows THEN [NoRow EXCEPT !.id = MaxOps + 1, !.on = TRUE]
                                   ELSE NoRow]
        /\ owner = "active"
        /\ runs = [i \in DOMAIN booted |->
                     [RunOf(booted[i]) EXCEPT !.feed = "open",
                        !.row = IF booted[i] \in Stored THEN row[booted[i]].id ELSE 0]]
        /\ slot = [n \in Nets |-> IF \E i \in DOMAIN booted : booted[i] = n
                                  THEN CHOOSE i \in DOMAIN booted : booted[i] = n ELSE NoRun]
        /\ hold = [g \in Configured |-> "no"]
        /\ replacing = {} /\ closed = FALSE
        /\ lane = Free /\ client = Away
        /\ ops = 0 /\ events = 0 /\ trouble = 0 /\ excused = {}

Operation ==
    \/ \E s \in Stored : \/ CreateNetwork(s) \/ UpdateNetwork(s) \/ EnableNetwork(s)
                         \/ DisableNetwork(s) \/ DeleteNetwork(s)
    \/ SuspendAccount \/ ReactivateAccount \/ DeleteAccount

LaneStep ==
    \/ RemoveSlots \/ Disabled \/ HoldConfigured \/ Held \/ DeleteRow \/ DeleteAccountRow
    \/ \E n \in Nets : Supersede(n) \/ Start(n) \/ AlreadyWorking(n)
    \/ RefusedClosed \/ ReleaseConfigured \/ Finish

StopStep(i) == Tell(i) \/ Signal(i) \/ Join(i)
FeedStep(i) == Restore(i) \/ Persist(i) \/ TakeStop(i) \/ Drain(i)
ClientStep == Subscribe \/ Attach \/ NetworkRemoved

Next ==
    \/ Operation \/ LaneStep \/ StopAll
    \/ \E i \in DOMAIN runs : \/ StopStep(i) \/ FeedStep(i)
                              \/ Say(i) \/ Park(i) \/ Release(i)
    \/ \E n \in Busy : Resolve(n)
    \/ ClientStep \/ Leave

Spec == Init /\ [][Next]_vars

-----------------------------------------------------------------------------
(* Properties.                                                             *)

(* Two upstream sessions never race for one network: a start waits for the *)
(* predecessor's release.  Only one that outlived SHUTDOWN_WAIT_DEADLINE   *)
(* may still be there, and it has been told to stop (serve.rs `add`,       *)
(* `replace`).                                                             *)
OneUpstreamSession ==
    \A i, j \in DOMAIN runs :
        i < j /\ runs[i].net = runs[j].net /\ runs[i].up /\ runs[j].up
            => runs[i].told /\ runs[i].late

(* No driver is left behind: one that was not told to stop is registered   *)
(* under its key, or a stop of it is under way - after a shutdown too,     *)
(* whatever operation reaches the lane then (serve.rs `stop_all_within`).  *)
NoStrayDriver ==
    /\ \A i \in DOMAIN runs :
          runs[i].up /\ ~runs[i].told => slot[runs[i].net] = i \/ Stopping(runs[i])
    /\ closed => \A n \in Nets : slot[n] = NoRun

(* With the lane free, what runs is what is stored: an enabled row of an   *)
(* active owner runs, as last edited, and nothing else does; a configured  *)
(* network runs unless its owner's account holds it.  A network is exempt  *)
(* once an operation on it answered with an error that leaves it open.     *)
RunsAsStored ==
    lane = Free /\ ~closed =>
        /\ \A s \in Stored \ excused :
              IF row[s].on /\ owner = "active"
              THEN /\ slot[s] # NoRun
                   /\ ~runs[slot[s]].told /\ runs[slot[s]].ver = row[s].ver
              ELSE slot[s] = NoRun
        /\ \A g \in Configured \ excused :
              /\ slot[g] # NoRun
              /\ hold[g] = CASE owner = "active" -> "no"
                             [] owner = "suspended" -> "Suspended"
                             [] OTHER -> "Deleted"
              /\ runs[slot[g]].told <=> hold[g] # "no"

(* A line is never written for a row that is gone: while a persistence     *)
(* task may write, the row its buffer was opened on is there               *)
(* (http/networks.rs `delete_network_core`).                               *)
WriterHasItsRow ==
    \A i \in DOMAIN runs :
        runs[i].feed \in {"open", "draining"} /\ runs[i].net \in Stored
            => row[runs[i].net].id = runs[i].row

Complete(r) == \A k \in 1..r.said : k \in r.kept

(* A network stopped to keep its backlog keeps all of it - the driver's    *)
(* goodbye too - or its runtime state (or the shutdown's report) says a    *)
(* line is missing; a driver that outlived the deadline aside (serve.rs    *)
(* `PersistenceFeed`, `UnwrittenLines::Store`).                            *)
NoSilentGap ==
    \A i \in DOMAIN runs :
        LET r == runs[i] IN
        r.stop = "done" /\ r.unwritten = "Store" /\ ~r.late => Complete(r) \/ r.error

(* What the comment on a deletion says of one the database refuses: "a     *)
(* failed delete leaves it as it was".  The row stands, and so its backlog *)
(* should: every line its drivers said (http/networks.rs:2840).            *)
FailedDeleteKeepsBacklog ==
    lane = Free =>
        \A i \in DOMAIN runs :
            LET r == runs[i] IN
            /\ r.stop = "done" /\ ~r.late
            /\ r.net \in Stored /\ r.row # 0 /\ row[r.net].id = r.row
            => Complete(r) \/ r.error

(* The steps the process's own tasks take, asked by nobody: the lane's,    *)
(* each stop's, each persistence task's, the client's, and a told driver's *)
(* goodbye.                                                                *)
Work == \/ LaneStep \/ ClientStep
        \/ \E i \in DOMAIN runs : StopStep(i) \/ FeedStep(i) \/ Release(i)

(* Nobody waits for ever: while an operation has the lane, a run is being  *)
(* stopped, or a client is on a network told to stop, some task can move.  *)
(* Each has finitely many steps to take, so the lane is given back, every  *)
(* stop ends and no client lingers on a stopped network, whenever it       *)
(* resolved the handle (bouncer/mod.rs `relay_attached`).                  *)
NobodyWaitsForEver ==
    \/ lane # Free
    \/ \E i \in DOMAIN runs : Stopping(runs[i])
    \/ client # Away /\ runs[client.at].told
    => ENABLED Work
=============================================================================
