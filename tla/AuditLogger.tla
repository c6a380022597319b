----------------------------- MODULE AuditLogger -----------------------------
(***************************************************************************)
(* OrderAuditLogger (execution/audit.py): reports are queued without       *)
(* blocking and a background task writes them to SQLite.  start, stop and  *)
(* flush serialise on an asyncio.Lock; only stop awaits while it holds it  *)
(* (for the background task to end), so everything else between taking and *)
(* releasing the lock is one step.                                         *)
(*                                                                         *)
(* SQLite is the environment: an insert or a commit may fail, and what was *)
(* inserted before stays in the open transaction unless that is rolled     *)
(* back.  The process may crash.                                           *)
(***************************************************************************)
EXTENDS Naturals, Sequences

CONSTANTS
  Reports,
  Callers,    \* tasks calling start, stop or flush
  OpOf,       \* caller -> "start", "stop" or "flush"
  MaxQueue,   \* max_queue_size
  MaxFaults,  \* bound: database failures and crashes
  NoHolder

ASSUME AuditAssumption ==
  /\ OpOf \in [Callers -> {"start", "stop", "flush"}]
  /\ MaxQueue \in Nat \ {0} /\ MaxFaults \in Nat
  /\ NoHolder \notin Callers

VARIABLES
  queue,    \* _queue
  running,  \* _is_running
  open,     \* _conn is not None
  loops,    \* live _flush_loop tasks
  lock,     \* the caller whose stop holds _lock across its await, or None
  caller,   \* idle, waiting (for the lock) or stopping
  tx,       \* rows inserted on the connection and not committed
  db        \* rows committed

(* History.                                                                *)
VARIABLES
  accepted,  \* reports log_report took
  late,      \* those it took while no connection was open
  discarded,   \* those lost to a database failure or a crash
  faults

volatile == <<queue, running, open, loops, lock, caller, tx>>
history  == <<accepted, late, discarded, faults>>
auditVars == <<volatile, db, history>>

Queued == {queue[k] : k \in 1..Len(queue)}

AuditInit ==
  /\ queue = <<>>
  /\ running = FALSE /\ open = FALSE
  /\ loops = 0
  /\ lock = NoHolder
  /\ caller = [c \in Callers |-> "idle"]
  /\ tx = {} /\ db = {}
  /\ accepted = {} /\ late = {} /\ discarded = {}
  /\ faults = 0

Fault == faults < MaxFaults /\ faults' = faults + 1

-----------------------------------------------------------------------------
(* log_report: refused (QueueFull) when the queue is full, whether or not  *)
(* the logger runs.                                                        *)
LogReport(r) ==
  /\ r \notin accepted
  /\ Len(queue) < MaxQueue
  /\ queue' = Append(queue, r)
  /\ accepted' = accepted \cup {r}
  /\ late' = IF open THEN late ELSE late \cup {r}
  /\ UNCHANGED <<running, open, loops, lock, caller, tx, db, discarded, faults>>

-----------------------------------------------------------------------------
(* What writing the drained queue does to the database.                    *)
Written ==
  /\ queue' = <<>>
  /\ db' = db \cup tx \cup Queued
  /\ tx' = {}
  /\ UNCHANGED <<discarded, faults>>

(* The first k rows went in before an insert or the commit failed; the     *)
(* drained reports are not queued again.                                   *)
WriteFailed ==
  /\ Fault
  /\ queue' = <<>>
  /\ \E k \in 0..Len(queue) :
       LET inserted == tx \cup {queue[j] : j \in 1..k}
       IN  \/ tx' = inserted /\ discarded' = discarded \cup (Queued \ inserted)
           \/ tx' = {} /\ discarded' = discarded \cup tx \cup Queued
  /\ UNCHANGED db

(* flush under the lock.                                                   *)
FlushBody ==
  /\ \/ /\ ~open \/ queue = <<>>
        /\ UNCHANGED <<queue, tx, db, discarded, faults>>
     \/ open /\ queue # <<>> /\ (Written \/ WriteFailed)
  /\ UNCHANGED <<running, open, lock, accepted, late>>

(* One round of _flush_loop; its exceptions are swallowed.  (Faulty variant*)
(* first: it waits for a full queue.)                                      *)
WorkerFlushBatched ==
  /\ loops > 0 /\ lock = NoHolder /\ running
  /\ open /\ Len(queue) >= MaxQueue
  /\ FlushBody
  /\ UNCHANGED <<loops, caller>>

WorkerFlush ==
  /\ loops > 0 /\ lock = NoHolder /\ running
  /\ open /\ queue # <<>>
  /\ FlushBody
  /\ UNCHANGED <<loops, caller>>

-----------------------------------------------------------------------------
(* The calls: the unlocked fast paths of start and stop, or the lock.      *)
NothingToDo(c) ==
  \/ OpOf[c] = "start" /\ running /\ open
  \/ OpOf[c] = "stop" /\ ~running /\ ~open

Call(c) ==
  /\ caller[c] = "idle"
  /\ ~NothingToDo(c)
  /\ caller' = [caller EXCEPT ![c] = "waiting"]
  /\ UNCHANGED <<queue, running, open, loops, lock, tx, db, history>>

Locking(c, op) == caller[c] = "waiting" /\ OpOf[c] = op /\ lock = NoHolder

Return(c) == caller' = [caller EXCEPT ![c] = "idle"]

(* The lock came too late: somebody else did it.                           *)
Skip(c) ==
  /\ Locking(c, "start") \/ Locking(c, "stop")
  /\ NothingToDo(c)
  /\ Return(c)
  /\ UNCHANGED <<queue, running, open, loops, lock, tx, db, history>>

(* A connection left open by a failed stop is replaced, and closed by the  *)
(* garbage collector without a commit.                                     *)
StartNoRecheck(c) ==
  /\ Locking(c, "start")
  /\ running' = TRUE /\ open' = TRUE
  /\ loops' = loops + 1
  /\ tx' = {} /\ discarded' = discarded \cup tx
  /\ late' = {}
  /\ Return(c)
  /\ UNCHANGED <<queue, lock, db, accepted, faults>>

Start(c) ==
  /\ Locking(c, "start") /\ ~NothingToDo(c)
  /\ running' = TRUE /\ open' = TRUE
  /\ loops' = loops + 1
  /\ tx' = {} /\ discarded' = discarded \cup tx
  /\ late' = {}
  /\ Return(c)
  /\ UNCHANGED <<queue, lock, db, accepted, faults>>

Flush(c) ==
  /\ Locking(c, "flush")
  /\ FlushBody
  /\ Return(c)
  /\ UNCHANGED loops

-----------------------------------------------------------------------------
(* The end of stop: write what is queued; commit, even if that fails; and  *)
(* close.  If writing fails the connection stays open.                     *)
DrainAndClose ==
  /\ \/ queue # <<>> /\ Written /\ open' = FALSE
     \/ queue # <<>> /\ WriteFailed /\ UNCHANGED open
     \/ /\ queue = <<>>
        /\ tx' = {}
        /\ \/ db' = db \cup tx /\ UNCHANGED <<discarded, faults>>
           \/ tx # {} /\ Fault /\ discarded' = discarded \cup tx /\ UNCHANGED db
        /\ open' = FALSE
        /\ UNCHANGED queue
  /\ UNCHANGED <<accepted, late>>

(* The background task is cancelled and awaited.                           *)
BeginStop(c) ==
  /\ Locking(c, "stop") /\ ~NothingToDo(c)
  /\ loops > 0
  /\ running' = FALSE
  /\ lock' = c
  /\ caller' = [caller EXCEPT ![c] = "stopping"]
  /\ UNCHANGED <<queue, open, loops, tx, db, history>>

FinishStop(c) ==
  /\ lock = c
  /\ loops' = loops - 1
  /\ DrainAndClose
  /\ lock' = NoHolder
  /\ Return(c)
  /\ UNCHANGED running

(* No background task to wait for: an earlier stop failed.                 *)
StopAgain(c) ==
  /\ Locking(c, "stop") /\ ~NothingToDo(c)
  /\ loops = 0
  /\ running' = FALSE
  /\ DrainAndClose
  /\ Return(c)
  /\ UNCHANGED <<loops, lock>>

-----------------------------------------------------------------------------
Crash ==
  /\ Fault
  /\ queue' = <<>>
  /\ running' = FALSE /\ open' = FALSE
  /\ loops' = 0
  /\ lock' = NoHolder
  /\ caller' = [c \in Callers |-> "idle"]
  /\ tx' = {}
  /\ discarded' = discarded \cup tx \cup Queued
  /\ UNCHANGED <<db, accepted, late>>

AuditNext ==
  \/ \E r \in Reports : LogReport(r)
  \/ WorkerFlush
  \/ \E c \in Callers : \/ Call(c) \/ Skip(c) \/ Start(c) \/ Flush(c)
                        \/ BeginStop(c) \/ FinishStop(c) \/ StopAgain(c)
  \/ Crash

AuditSpec == AuditInit /\ [][AuditNext]_auditVars

(* The event loop runs every ready task: the background task wakes up every*)
(* flush interval, and a stop that waits for it is resumed.                *)
AuditFairness ==
  /\ WF_auditVars(WorkerFlush)
  /\ \A c \in Callers : WF_auditVars(FinishStop(c))

FairAuditSpec == AuditSpec /\ AuditFairness

-----------------------------------------------------------------------------
AuditTypeOK ==
  /\ queue \in Seq(Reports) /\ Len(queue) <= MaxQueue
  /\ running \in BOOLEAN /\ open \in BOOLEAN
  /\ loops \in Nat
  /\ lock \in Callers \cup {NoHolder}
  /\ caller \in [Callers -> {"idle", "waiting", "stopping"}]
  /\ tx \subseteq Reports /\ db \subseteq Reports
  /\ accepted \subseteq Reports /\ late \subseteq Reports /\ discarded \subseteq Reports
  /\ faults \in 0..MaxFaults

(* No report vanishes unless the database failed or the process crashed:   *)
(* what log_report accepted is queued, inserted, committed or accounted for*)
(* as dropped, across any interleaving of flushes, stops and restarts.     *)
Accounted == accepted = Queued \cup tx \cup db \cup discarded

(* stop "drains all queued reports": once the connection is closed, the    *)
(* only reports still waiting are those logged after it was closed, and no *)
(* row is left in an open transaction.                                     *)
StoppedMeansDurable == ~open => Queued \subseteq late /\ tx = {}

(* "double-start handled gracefully without multiple [...] workers", and a *)
(* running logger has one: start and stop racing never leave two, or none. *)
OneWorker ==
  /\ loops <= 1
  /\ running => loops = 1 /\ open
  /\ loops = 1 => running \/ lock # NoHolder

(* The audit trail loses nothing silently, is durable once stopped, and    *)
(* has one writer.                                                         *)
TrailSound ==
  /\ AuditTypeOK
  /\ Accounted
  /\ StoppedMeansDurable
  /\ OneWorker

(* "preserve worker liveness": a report queued while the logger runs is    *)
(* eventually written, or dropped by a failure; a failed flush does not    *)
(* stop the background task.                                               *)
EventuallyWritten ==
  \A r \in Reports :
    (running /\ r \in Queued) ~> r \in tx \cup db \cup discarded
=============================================================================
