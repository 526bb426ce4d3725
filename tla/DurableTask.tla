----------------------------- MODULE DurableTask -----------------------------
(***************************************************************************)
(* Durable background tasks: rows of the tasks table                       *)
(* (repositories/task_repository.py), their execution by ARQ workers       *)
(* (services/task_service.py: process_task, TaskContext, _heartbeat_task)  *)
(* and the periodic reconciler (services/task_queue_service.py).           *)
(*                                                                         *)
(* A task is an intent in PostgreSQL; a job of ARQ only wakes a worker up, *)
(* may be lost and may be delivered several times.  Every repository call  *)
(* is one transaction that locks the row, and one action here.             *)
(***************************************************************************)
EXTENDS Naturals, FiniteSets

CONSTANTS Tasks,         \* identities of rows
          LegacyTasks,   \* pending rows of a handler version no longer there
          UnknownTasks,  \* pending rows of a type no longer there
          Workers,       \* executions of process_task: fresh owner tokens
          Keys,          \* values of dedupe_key
          NoWorker, NoTask, NoKey,
          MaxRunning,    \* DURABLE_TASK_MAX_RUNNING
          Keep,          \* prune_terminal(keep)
          MaxWrites      \* bound: checkpoints of one task

VARIABLES
  rows,     \* the tasks table
  procs,    \* executions of process_task, and the reconciling loop
  outside,  \* tasks for which a job is in the ARQ queue
  ghost     \* per task: the dedupe key it was created with, and how many
            \* checkpoints of its handler were committed

vars == <<rows, procs, outside, ghost>>

Terminals == {"success", "failed", "cancelled"}
Terminal(t) == rows[t].status \in Terminals
Active(t) == rows[t].status \in {"pending", "running"}
Running == {t \in Tasks : rows[t].status = "running"}
Pending == {t \in Tasks : rows[t].status = "pending"}
Current(t) == t \notin LegacyTasks \cup UnknownTasks

Idle == [pc |-> "idle", at |-> NoTask, verdict |-> "none"]

Init ==
  /\ rows = [t \in Tasks |->
       [status |-> IF Current(t) THEN "absent" ELSE "pending",
        cancel |-> FALSE, owner |-> NoWorker, live |-> FALSE, key |-> NoKey,
        attempts |-> 0, hook |-> "open"]]
  /\ procs = [execs |-> [w \in Workers |-> Idle], loop |-> "leases"]
  /\ outside = {}
  /\ ghost = [t \in Tasks |-> [intent |-> NoKey, writes |-> 0]]

-----------------------------------------------------------------------------
(* Submitting, cancelling and deleting.                                    *)

\* Tasker._enqueue_task: a task with a dedupe key that another row holds is
\* not created; after the commit the wake-up may be lost.
Enqueue(t, k) ==
  /\ rows[t].status = "absent"
  /\ k # NoKey => \A o \in Tasks : rows[o].key # k
  /\ rows' = [rows EXCEPT ![t].status = "pending", ![t].key = k]
  /\ ghost' = [ghost EXCEPT ![t].intent = k]
  /\ outside' \in {outside, outside \cup {t}}
  /\ UNCHANGED procs

\* get_failure_task_definition: a type that is gone has no failure hook.
FailureHook(t) == IF t \in UnknownTasks THEN rows[t].hook ELSE "failed"

\* The row ends: _clear_execution, the terminal status and the domain hook.
EndedRow(t, s, h) ==
  [rows[t] EXCEPT !.status = s, !.owner = NoWorker, !.live = FALSE,
                  !.key = NoKey, !.hook = h]

\* The tasks T fail, or are cancelled, with their hooks.
GivenUp(T, s) ==
  rows' = [t \in Tasks |-> IF t \in T THEN EndedRow(t, s, FailureHook(t))
                           ELSE rows[t]]

\* cancel_task: a task that does not run yet is cancelled at once, with its
\* failure hook; a running one is asked to stop.
CancelTask(t) ==
  /\ Active(t) /\ t \notin UnknownTasks
  /\ rows' = [rows EXCEPT ![t] =
       [IF rows[t].status = "pending"
          THEN EndedRow(t, "cancelled", FailureHook(t))
          ELSE rows[t] EXCEPT !.cancel = TRUE]]
  /\ UNCHANGED <<procs, outside, ghost>>

DeleteTask(t) ==
  /\ Terminal(t)
  /\ rows' = [rows EXCEPT ![t].status = "gone"]
  /\ UNCHANGED <<procs, outside, ghost>>

-----------------------------------------------------------------------------
(* process_task.                                                           *)

Pc(w) == procs.execs[w].pc
At(w) == procs.execs[w].at
Verdict(w) == procs.execs[w].verdict
Becomes(w, e) == procs' = [procs EXCEPT !.execs[w] = e]

Fresh(w) == Pc(w) = "idle" /\ \A t \in Tasks : rows[t].owner # w

\* Faulty variant: the last slot is never given.
HasSlotStrict(t) ==
  /\ rows[t].status = "pending" /\ Current(t)
  /\ Cardinality(Running) + 1 < MaxRunning

\* claim: under the advisory lock, a pending task and a free slot.
HasSlot(t) ==
  /\ rows[t].status = "pending" /\ Current(t)
  /\ Cardinality(Running) < MaxRunning

\* A pending row is never marked for cancellation (TasksAgree), so the
\* branch of claim that cancels one has nothing to do.
Claimed(t, w) ==
  [rows[t] EXCEPT !.status = "running", !.owner = w, !.live = TRUE,
                  !.attempts = @ + 1]

\* A job starts.  What process_task reads before the claim the claim checks
\* again; a task that is over, unknown or without a slot is let be.  Other
\* jobs for the same task may be left in the queue.
StartJob(w, t) ==
  /\ Fresh(w)
  /\ t \in outside
  /\ outside' \in {outside, outside \ {t}}
  /\ IF HasSlot(t)
       THEN /\ rows' = [rows EXCEPT ![t] = Claimed(t, w)]
            /\ Becomes(w, [Idle EXCEPT !.pc = "run", !.at = t])
       ELSE UNCHANGED <<rows, procs>>
  /\ UNCHANGED ghost

\* Faulty variant: the owner is not asked whether its lease still runs.
LiveOwnerNoLease(w, t) == rows[t].status = "running" /\ rows[t].owner = w

LiveOwner(w, t) == /\ rows[t].status = "running" /\ rows[t].owner = w
                   /\ rows[t].live

\* The handler has ended one way or other; v is to be recorded.
Decide(w, v) ==
  /\ Becomes(w, [procs.execs[w] EXCEPT !.pc = "finish", !.verdict = v])
  /\ UNCHANGED <<rows, outside, ghost>>

\* The handler returns, raises, runs out of time, or fails to load.
HandlerEnds(w, v) ==
  /\ Pc(w) = "run"
  /\ v \in {"success", "failed"}
  /\ Decide(w, v)

\* The worker shuts down and cancels the job.
Shutdown(w) == Pc(w) = "run" /\ Decide(w, "release")

\* _heartbeat_task: renew_lease; the owner stops when its lease is lost or
\* when the task is to be cancelled.  An error counts as a lost lease.  The
\* same answers come from raise_if_cancelled between two files.
Heartbeat(w) ==
  /\ Pc(w) = "run"
  /\ \/ LiveOwner(w, At(w)) /\ rows[At(w)].cancel /\ Decide(w, "cancelled")
     \/ Decide(w, "lost")

\* run_owned_transaction and update_owned look at the lease again before
\* they commit.
Owned(w) == Pc(w) = "run" /\ LiveOwner(w, At(w))

\* A progress, a result, or a checkpoint of the domain; one that finds the
\* lease lost ends the execution.
Checkpoint(w) ==
  \/ /\ Owned(w)
     /\ ghost[At(w)].writes < MaxWrites
     /\ ghost' = [ghost EXCEPT ![At(w)].writes = @ + 1]
     /\ UNCHANGED <<rows, procs, outside>>
  \/ Pc(w) = "run" /\ ~Owned(w) /\ Decide(w, "lost")

\* finish_owned records a cancellation if one was requested, whatever the
\* handler did; release_interrupted_owner fails the task.
Outcome(t, v) ==
  IF v = "release" THEN "failed"
  ELSE IF rows[t].cancel THEN "cancelled" ELSE v

\* finish_owned with the success or the failure hook in one transaction;
\* without the lease nothing is recorded.
Finish(w) ==
  LET t == At(w)
      s == Outcome(t, Verdict(w))
  IN /\ Pc(w) = "finish"
     /\ IF Verdict(w) # "lost" /\ LiveOwner(w, t)
          THEN rows' = [rows EXCEPT ![t] =
                 EndedRow(t, s, IF s = "success" THEN "done"
                                ELSE FailureHook(t))]
          ELSE UNCHANGED rows
     /\ Becomes(w, [procs.execs[w] EXCEPT !.pc = "relay"])
     /\ UNCHANGED <<outside, ghost>>

\* publish_pending_tasks over the pending tasks P, all of them up to a
\* limit, or the ones before an error: what cannot be executed any more
\* fails.
Publish(P) ==
  /\ GivenUp({t \in P : ~Current(t)}, "failed")
  /\ outside' = outside \cup {t \in P : Current(t)}

\* _publish_pending_after_slot_release: the free slot is passed on.
Relay(w) ==
  /\ Pc(w) = "relay"
  /\ \E P \in SUBSET Pending : Publish(P)
  /\ Becomes(w, Idle)
  /\ UNCHANGED ghost

\* The worker process dies.
Crash(w) ==
  /\ Pc(w) # "idle"
  /\ Becomes(w, Idle)
  /\ UNCHANGED <<rows, outside, ghost>>

\* Time passes without a heartbeat.
Lapse(t) ==
  /\ rows[t].live
  /\ rows' = [rows EXCEPT ![t].live = FALSE]
  /\ UNCHANGED <<procs, outside, ghost>>

-----------------------------------------------------------------------------
(* reconcile_and_publish_tasks, every 30 seconds in each worker process.   *)

Expired == {t \in Running : ~rows[t].live}

LoopAt(here, then) == /\ procs.loop = here
                      /\ procs' = [procs EXCEPT !.loop = then]

\* Faulty variant: a lost task is queued again.
FailExpiredRetry(T) ==
  rows' = [t \in Tasks |-> IF t \in T THEN [rows[t] EXCEPT
             !.status = "pending", !.owner = NoWorker] ELSE rows[t]]

\* The side effects of a lost execution are unknown: it fails, with its
\* hook.
FailExpired(T) == GivenUp(T, "failed")

\* reconcile_expired_leases: rows locked by somebody else are skipped.
ReconcileLeases ==
  /\ LoopAt("leases", "publish")
  /\ \E T \in SUBSET Expired : FailExpired(T)
  /\ UNCHANGED <<outside, ghost>>

PublishPending ==
  /\ LoopAt("publish", "prune")
  /\ \E P \in SUBSET Pending : Publish(P)
  /\ UNCHANGED ghost

\* prune_terminal keeps the newest ones; which these are is left open.
PruneTerminal ==
  LET over == {t \in Tasks : Terminal(t)}
  IN /\ LoopAt("prune", "leases")
     /\ \E T \in SUBSET over :
          /\ Cardinality(T) = IF Cardinality(over) > Keep
                                THEN Cardinality(over) - Keep ELSE 0
          /\ rows' = [t \in Tasks |->
               IF t \in T THEN [rows[t] EXCEPT !.status = "gone"] ELSE rows[t]]
     /\ UNCHANGED <<outside, ghost>>

WorkerNext(w) ==
  \/ \E t \in Tasks : StartJob(w, t)
  \/ \E v \in {"success", "failed"} : HandlerEnds(w, v)
  \/ Shutdown(w) \/ Heartbeat(w) \/ Checkpoint(w) \/ Finish(w) \/ Relay(w)
  \/ Crash(w)

Next ==
  \/ \E t \in Tasks :
       \/ \E k \in Keys \cup {NoKey} : Enqueue(t, k)
       \/ CancelTask(t) \/ DeleteTask(t) \/ Lapse(t)
  \/ \E w \in Workers : WorkerNext(w)
  \/ ReconcileLeases \/ PublishPending \/ PruneTerminal

Spec == Init /\ [][Next]_vars

\* A lease that nobody renews runs out.
Abandoned(t) == rows[t].live /\ \A w \in Workers : At(w) # t

\* The steps that happen if they stay, or keep becoming, possible: a loop
\* that comes round sees every row sooner or later, a handler ends by its
\* timeout, an execution goes on while its process lives.
LapseDue(t) == Abandoned(t) /\ Lapse(t)
SeenExpired(t) == /\ ReconcileLeases
                  /\ rows[t].status = "running" /\ rows'[t].status = "failed"
SeenPending(t) == /\ PublishPending /\ rows[t].status = "pending"
                  /\ t \in outside' \/ rows'[t].status = "failed"
TakenUp(t) == \E w \in Workers : HasSlot(t) /\ StartJob(w, t)
LoopGoesOn == ReconcileLeases \/ PublishPending \/ PruneTerminal
HandlerReturns(w) == \E v \in {"success", "failed"} : HandlerEnds(w, v)

-----------------------------------------------------------------------------
(* What holds of tasks.                                                    *)

\* No more tasks run than there are slots, whichever worker claims them.
SlotsRespected == Cardinality(Running) <= MaxRunning

\* A handler is started once at most, however often its job is delivered
\* and whatever happens to its worker: its side effects are not repeated.
ExecutedOnce == \A t \in Tasks : rows[t].attempts <= 1

\* Two tasks for the same thing are never both waiting or running, and one
\* that is over does not stand in the way of a new one.
OneActivePerIntent ==
  /\ \A t, o \in Tasks :
       /\ Active(t) /\ Active(o) /\ t # o /\ ghost[t].intent # NoKey
       => ghost[t].intent # ghost[o].intent
  /\ \A t \in Tasks : rows[t].key # NoKey => Active(t)

\* The domain rows of a task are settled in the transaction that ends it,
\* the way it ended; only a task of an unknown type leaves them alone.  A
\* task whose cancellation was accepted neither succeeds nor waits.
TasksAgree ==
  \A t \in Tasks :
    /\ Active(t) => rows[t].hook = "open"
    /\ rows[t].status = "success" => rows[t].hook = "done"
    /\ rows[t].status \in {"failed", "cancelled"} =>
         rows[t].hook = IF t \in UnknownTasks THEN "open" ELSE "failed"
    /\ rows[t].cancel => rows[t].status \notin {"success", "pending"}

\* Nothing of a task changes after its end, although an execution that has
\* lost its lease may still be going on.
QuietStep ==
  \A t \in Tasks : Terminal(t) =>
    /\ rows'[t].status \in {rows[t].status, "gone"}
    /\ rows'[t].hook = rows[t].hook /\ ghost'[t].writes = ghost[t].writes

LeaseOf == [t \in Tasks |-> [st |-> rows[t].status, by |-> rows[t].owner,
                              on |-> rows[t].live]]
TL == INSTANCE TaskLease WITH lease <- LeaseOf

\* Tasks are what KnowledgeFiles and its like take them for.
LeaseStep == TL!TaskNext \/ UNCHANGED LeaseOf

=============================================================================
