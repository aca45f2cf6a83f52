----------------------------- MODULE Heartbeat -----------------------------
(* The heartbeat of a project and what it tells: a daemon that is started,  *)
(* stopped and found again by the pid in daemon.json, whose every beat tries *)
(* the adapters when their last trial is old (adapter-observability.mjs),    *)
(* queues a notification of a failure and delivers what is queued            *)
(* (notifications.mjs).  Nothing here holds a lock: outbox.json is read at   *)
(* the beginning of a command and written whole, time and again, from what   *)
(* was read.                                                                 *)
EXTENDS Integers, FiniteSets

CONSTANTS
  Daemon,       \* the processes a start may spawn, one after the other
  User,         \* people at the command line
  MaxNotes,     \* bound on the notifications
  MaxAttempts,  \* delivery.max_attempts of the policy
  Agenda,       \* bounds: how many commands of each kind users begin, how many
                \* notifications are made, and how often something is killed or
                \* an event cannot be appended
  NoDaemon, NoBox

Proc == Daemon \cup User
Note == 1 .. MaxNotes

\* What is told: the trial failed, or could not be made.
Key == {"failed", "refresh"}

Item == [status : {"none", "queued", "delivering", "delivered", "failed", "dead", "acknowledged"},
         attempts : Nat, key : Key \cup {"none"}]

Kinds == {"start", "stop", "refresh", "dispatch", "acknowledge", "notification", "trouble"}

ASSUME HeartbeatAssumption ==
  /\ Daemon \cap User = {} /\ NoDaemon \notin Proc
  /\ NoBox \notin [Note -> Item]
  /\ MaxNotes \in Nat /\ MaxAttempts \in Nat \ {0}
  /\ Agenda \subseteq [Kinds -> Nat]
  /\ \A a \in Agenda : a["notification"] <= MaxNotes

VARIABLES
  outbox,    \* notifications/outbox.json
  made,      \* how many notifications were ever queued
  recent,    \* those within the window of deduplication
  due,       \* the failures <<n, attempts>> whose delay has passed
  sink,      \* delivered.jsonl: how often each was delivered
  trial,     \* the last live trial of the adapters is "fresh" or "old"
  daemon,    \* daemon.json
  running,   \* the daemons that run
  pc,        \* of a user's command, or of the heartbeat a daemon waits for
  mem,       \* what the process has in memory
  left,      \* what is left of the agenda
  stale,     \* outbox.json was written from a reading others had changed since
  unlogged,  \* the event of a delivery could not be appended
  raced      \* a start was cut off, or was not alone, between its look at
             \* daemon.json and its write

notes == <<outbox, made, recent, due, sink>>
daemons == <<daemon, running, raced>>
heartbeatVars == <<notes, trial, daemons, pc, mem, left, stale, unlogged>>

Absent == [status |-> "none", attempts |-> 0, key |-> "none"]
Nothing == [box |-> NoBox, note |-> 0, key |-> "none", force |-> FALSE,
            outdated |-> FALSE, target |-> NoDaemon]

HeartbeatInit ==
  /\ outbox = [n \in Note |-> Absent]
  /\ made = 0 /\ recent = {} /\ due = {}
  /\ sink = [n \in Note |-> 0]
  /\ trial = "old"
  /\ daemon = NoDaemon /\ running = {} /\ raced = FALSE
  /\ pc = [p \in Proc |-> "idle"]
  /\ mem = [p \in Proc |-> Nothing]
  /\ left \in Agenda
  /\ stale = FALSE /\ unlogged = FALSE

\* One more of this kind.
Spend(kind) == left[kind] > 0 /\ left' = [left EXCEPT ![kind] = @ - 1]

\* Process p goes on at s with the memory m; an idle one has forgotten all.
Goto(p, s, m) ==
  /\ pc' = [pc EXCEPT ![p] = s]
  /\ mem' = [mem EXCEPT ![p] = IF s = "idle" THEN Nothing ELSE m]

\* It writes the outbox, and whoever holds another reading of it is outdated.
WriteBox(p, box, s, m) ==
  /\ outbox' = box
  /\ stale' = (stale \/ mem[p].outdated)
  /\ pc' = [pc EXCEPT ![p] = s]
  /\ mem' = [q \in Proc |->
       IF q = p THEN IF s = "idle" THEN Nothing ELSE [m EXCEPT !.box = box]
       ELSE IF mem[q].box # NoBox /\ box # outbox
            THEN [mem[q] EXCEPT !.outdated = TRUE] ELSE mem[q]]

-----------------------------------------------------------------------------
(* Trials of the adapters and their notifications.                          *)

\* A heartbeat that has told of a failed trial goes on to deliver it; one that
\* could not make the trial ends.
AfterTelling(key) == IF key = "failed" THEN "dispatch" ELSE "idle"

Known(key) == \E n \in recent : outbox[n].key = key

\* refreshStaleAdapterSmoke: a report makes the trial fresh before anything is
\* queued; an error leaves it old, and is thrown when it has been told. Either
\* is told by what is read now.
Refresh(p) ==
  /\ pc[p] = "refresh"
  /\ \/ /\ trial' = "fresh"
        /\ Goto(p, "dispatch", Nothing)
        /\ UNCHANGED left
     \/ /\ trial = "old"
        /\ \E key \in Key :
             /\ trial' = IF key = "failed" THEN "fresh" ELSE "old"
             /\ IF Known(key)
                THEN Goto(p, AfterTelling(key), Nothing) /\ UNCHANGED left
                ELSE /\ Spend("notification")
                     /\ Goto(p, "queue", [Nothing EXCEPT !.key = key, !.box = outbox])
  /\ UNCHANGED <<notes, daemons, stale, unlogged>>

\* enqueueNotification writes what it has read, and its own.
Queue(p) ==
  /\ pc[p] = "queue"
  /\ made' = made + 1
  /\ recent' = recent \cup {made'}
  /\ WriteBox(p, [mem[p].box EXCEPT ![made'] =
                    [status |-> "queued", attempts |-> 0, key |-> mem[p].key]],
              AfterTelling(mem[p].key), Nothing)
  /\ UNCHANGED <<due, sink, trial, daemons, left, unlogged>>

-----------------------------------------------------------------------------
(* dispatchNotifications.                                                    *)

DispatchRead(p) ==
  /\ pc[p] = "dispatch"
  /\ Goto(p, "next", [mem[p] EXCEPT !.box = outbox, !.outdated = FALSE])
  /\ UNCHANGED <<notes, trial, daemons, left, stale, unlogged>>

\* A mistake: what has failed is not tried again.
DeliverableOnce(p, n) == n > mem[p].note /\ mem[p].box[n].status = "queued"

Deliverable(p, n) ==
  LET item == mem[p].box[n] IN
  /\ n > mem[p].note
  /\ item.status \in {"queued", "failed"}
  /\ item.status = "failed" /\ ~mem[p].force => <<n, item.attempts>> \in due

\* A mistake: the mark is made in memory only.
MarkInMemory(p) ==
  /\ pc[p] = "next"
  /\ \E n \in Note :
       /\ Deliverable(p, n)
       /\ \A o \in Note : Deliverable(p, o) => n <= o
       /\ Goto(p, "deliver", [mem[p] EXCEPT !.box[n].status = "delivering",
                                            !.box[n].attempts = @ + 1, !.note = n])
  /\ UNCHANGED <<notes, trial, daemons, left, stale, unlogged>>

\* The next notification of what was read at first is marked and written ...
MarkDelivering(p) ==
  /\ pc[p] = "next"
  /\ \E n \in Note :
       /\ Deliverable(p, n)
       /\ \A o \in Note : Deliverable(p, o) => n <= o
       /\ WriteBox(p, [mem[p].box EXCEPT ![n].status = "delivering",
                                         ![n].attempts = @ + 1],
                   "deliver", [mem[p] EXCEPT !.note = n])
  /\ UNCHANGED <<made, recent, due, sink, trial, daemons, left, unlogged>>

AllDispatched(p) ==
  /\ pc[p] = "next"
  /\ \A n \in Note : ~Deliverable(p, n)
  /\ Goto(p, "idle", Nothing)
  /\ UNCHANGED <<notes, trial, daemons, left, stale, unlogged>>

Failed(item) ==
  [item EXCEPT !.status = IF item.attempts >= MaxAttempts THEN "dead" ELSE "failed"]

\* ... is appended to the sink, or is not, and the event of it is appended. If
\* that throws after the delivery, the delivery counts as failed; if it throws
\* for a failure, the command ends and the mark stays.
Deliver(p) ==
  LET n == mem[p].note
      item == mem[p].box[n]
      Settle(new) == Goto(p, "settle", [mem[p] EXCEPT !.box[n] = new])
  IN /\ pc[p] = "deliver"
     /\ \E delivered, logged \in BOOLEAN :
          /\ sink' = IF delivered THEN [sink EXCEPT ![n] = IF @ = 0 THEN 1 ELSE 2] ELSE sink
          /\ IF logged THEN UNCHANGED <<left, unlogged>>
                       ELSE Spend("trouble") /\ unlogged' = TRUE
          /\ \/ /\ delivered \/ logged
                /\ Settle(IF delivered /\ logged THEN [item EXCEPT !.status = "delivered"]
                                                 ELSE Failed(item))
             \/ /\ ~logged
                /\ Goto(p, "idle", Nothing)
     /\ UNCHANGED <<outbox, made, recent, due, trial, daemons, stale>>

\* ... and what became of it is written.
Settle(p) ==
  /\ pc[p] = "settle"
  /\ WriteBox(p, mem[p].box, "next", mem[p])
  /\ UNCHANGED <<made, recent, due, sink, trial, daemons, left, unlogged>>

-----------------------------------------------------------------------------
(* Commands of users.                                                        *)

\* acknowledgeNotification: read, and written without a look in between.
Acknowledge(u) ==
  /\ pc[u] = "acknowledge"
  /\ WriteBox(u, [mem[u].box EXCEPT ![mem[u].note].status = "acknowledged"],
              "idle", Nothing)
  /\ UNCHANGED <<made, recent, due, sink, trial, daemons, left, unlogged>>

\* startHeartbeatDaemon spawns a daemon unless that of daemon.json is alive ...
Spawn(u) ==
  /\ pc[u] = "spawn"
  /\ Daemon \ (running \cup {daemon}) # {}
  /\ LET d == CHOOSE d \in Daemon \ (running \cup {daemon}) : TRUE IN
       /\ running' = running \cup {d}
       /\ Goto(u, "record", [Nothing EXCEPT !.target = d])
  /\ UNCHANGED <<notes, trial, daemon, raced, left, stale, unlogged>>

\* ... and then writes its pid.
RecordDaemon(u) ==
  /\ pc[u] = "record"
  /\ daemon' = mem[u].target
  /\ Goto(u, "idle", Nothing)
  /\ UNCHANGED <<notes, trial, running, raced, left, stale, unlogged>>

\* stopHeartbeatDaemon: SIGTERM ends the heartbeat in the daemon's group, and
\* not the daemon, whose loop never comes to handle it; SIGKILL ends both.
Terminate(u) ==
  LET d == mem[u].target IN
  /\ pc[u] = "terminate"
  /\ pc' = [pc EXCEPT ![u] = "kill", ![d] = "idle"]
  /\ mem' = [mem EXCEPT ![d] = Nothing]
  /\ UNCHANGED <<notes, trial, daemons, left, stale, unlogged>>

KillDaemon(u) ==
  LET d == mem[u].target IN
  /\ pc[u] = "kill"
  /\ running' = running \ {d}
  /\ pc' = [pc EXCEPT ![u] = "idle", ![d] = "idle"]
  /\ mem' = [mem EXCEPT ![u] = Nothing, ![d] = Nothing]
  /\ UNCHANGED <<notes, trial, daemon, raced, left, stale, unlogged>>

\* A mistake: nobody asks.
NotAsked == FALSE

\* processAlive of the pid in daemon.json.
Alive == daemon \in running

Starting(u) == pc[u] \in {"spawn", "record"}

Begin(u) ==
  /\ pc[u] = "idle"
  /\ \/ /\ \/ /\ Spend("refresh")
              /\ Goto(u, "refresh", Nothing)
           \/ /\ Spend("dispatch")
              /\ \E force \in BOOLEAN :
                   Goto(u, "dispatch", [Nothing EXCEPT !.force = force])
           \/ /\ Spend("acknowledge")
              /\ \E n \in Note :
                   /\ outbox[n].status \notin {"none", "acknowledged"}
                   /\ Goto(u, "acknowledge", [Nothing EXCEPT !.box = outbox, !.note = n])
           \/ /\ Spend("stop")
              /\ Alive
              /\ Goto(u, "terminate", [Nothing EXCEPT !.target = daemon])
        /\ UNCHANGED raced
     \/ /\ Spend("start")
        /\ ~Alive
        /\ Goto(u, "spawn", Nothing)
        /\ raced' = (raced \/ \E v \in User : Starting(v))
  /\ UNCHANGED <<notes, trial, daemon, running, stale, unlogged>>

-----------------------------------------------------------------------------
(* The daemon, time, and kills.                                              *)

Beat(d) ==
  /\ d \in running /\ pc[d] = "idle"
  /\ Goto(d, "refresh", Nothing)
  /\ UNCHANGED <<notes, trial, daemons, left, stale, unlogged>>

DelayPasses ==
  /\ \E n \in Note :
       /\ outbox[n].status = "failed" /\ <<n, outbox[n].attempts>> \notin due
       /\ due' = due \cup {<<n, outbox[n].attempts>>}
  /\ UNCHANGED <<outbox, made, recent, sink, trial, daemons, pc, mem, left,
                 stale, unlogged>>

WindowPasses ==
  /\ recent # {}
  /\ recent' = {}
  /\ UNCHANGED <<outbox, made, due, sink, trial, daemons, pc, mem, left,
                 stale, unlogged>>

TrialAges ==
  /\ trial = "fresh"
  /\ trial' = "old"
  /\ UNCHANGED <<notes, daemons, pc, mem, left, stale, unlogged>>

\* Of a user's command, or of the heartbeat a daemon waits for.
Kill(p) ==
  /\ pc[p] # "idle"
  /\ Spend("trouble")
  /\ raced' = (raced \/ pc[p] = "record")
  /\ Goto(p, "idle", Nothing)
  /\ UNCHANGED <<notes, trial, daemon, running, stale, unlogged>>

Step(p) ==
  \/ Refresh(p) \/ Queue(p)
  \/ DispatchRead(p) \/ MarkDelivering(p) \/ AllDispatched(p) \/ Deliver(p) \/ Settle(p)

UserStep(u) ==
  \/ Step(u) \/ Acknowledge(u) \/ Spawn(u) \/ RecordDaemon(u)
  \/ Terminate(u) \/ KillDaemon(u)

HeartbeatNext ==
  \/ \E d \in Daemon : Beat(d) \/ Step(d)
  \/ \E u \in User : Begin(u) \/ UserStep(u)
  \/ DelayPasses \/ WindowPasses \/ TrialAges
  \/ \E p \in Proc : Kill(p)

\* A process goes on, a daemon beats, and a delay passes. Nobody need begin a
\* command, and an adapter may fail for ever.
HeartbeatFairness ==
  /\ \A d \in Daemon : WF_heartbeatVars(Beat(d) \/ Step(d))
  /\ \A u \in User : WF_heartbeatVars(UserStep(u))
  /\ WF_heartbeatVars(DelayPasses)

HeartbeatSpec == HeartbeatInit /\ [][HeartbeatNext]_heartbeatVars /\ HeartbeatFairness

-----------------------------------------------------------------------------
(* Properties.                                                              *)

\* As long as nobody writes the outbox from an old reading of it, and the
\* events can be appended, every notification is delivered once at most and
\* its status says so, whatever is killed and whenever.
OnlyRacesSpoilTheOutbox ==
  ~(stale \/ unlogged) =>
    \A n \in 1 .. made :
      /\ outbox[n].status # "none"
      /\ sink[n] <= 1
      /\ outbox[n].status = "delivered" => sink[n] = 1
      /\ outbox[n].status \in {"queued", "failed", "dead"} => sink[n] = 0

\* Two daemons run, or one that nobody can stop, only after a start was cut
\* off, or was not alone, between its look at daemon.json and its write.
OneDaemon ==
  ~raced => /\ Cardinality(running) <= 1
            /\ running \subseteq {daemon} \cup {mem[u].target : u \in User}

Handled(n) == \E p \in Proc : pc[p] \in {"deliver", "settle"} /\ mem[p].note = n

\* Delivered, given up, or seen by somebody.
Over(n) == outbox[n].status \in {"delivered", "dead", "acknowledged"}

\* Marked as being delivered by a process that is no more; or overwritten.
CutOff(n) == outbox[n].status = "delivering" /\ ~Handled(n)
Overwritten(n) == outbox[n].status = "none"

\* As long as a daemon runs, every notification comes to its end, or is cut
\* off or overwritten; but a heartbeat that cannot try the adapters ends
\* before it delivers, also the notification of just that.
NotificationsEnd ==
  <>[](\/ running = {} \/ trial = "old"
       \/ \A n \in 1 .. made : Over(n) \/ CutOff(n) \/ Overwritten(n))
=============================================================================
