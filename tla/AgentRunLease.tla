---------------------------- MODULE AgentRunLease ----------------------------
(***************************************************************************)
(* The AgentRuns of one conversation: their rows in PostgreSQL             *)
(* (repositories/agent_run_repository.py), the worker that executes them   *)
(* (services/run_worker.py: process_agent_run) and the reconciler of the   *)
(* worker process.                                                         *)
(*                                                                         *)
(* Every repository call locks the run's row and commits, so one           *)
(* transaction is one action.  What lies between two transactions of       *)
(* process_agent_run is a value of pc: the worker may be suspended, lose   *)
(* its lease or die there.                                                 *)
(*                                                                         *)
(* A member of Workers is one execution of one ARQ job.  Its owner token   *)
(* is fresh (worker identity plus uuid), which Fresh says: the token of a  *)
(* finished execution is used again only when nothing mentions it.         *)
(***************************************************************************)
EXTENDS Naturals, FiniteSets

CONSTANTS Runs,         \* identities of AgentRun rows
          Workers,      \* executions of ARQ jobs, with their owner tokens
          Reconcilers,  \* periodic reconcilers, one per worker process
          NoRun,
          NoWorker,
          MaxTries,     \* WorkerSettings.max_tries
          MaxFaults,    \* bound: crashes, retries and provisioner failures
          KeepRuntime   \* the scope's sandbox is persistent or resident

ASSUME LeaseAssumption ==
  /\ NoRun \notin Runs
  /\ NoWorker \notin Workers
  /\ Workers \cap Reconcilers = {}
  /\ MaxTries \in Nat \ {0}
  /\ MaxFaults \in Nat
  /\ KeepRuntime \in BOOLEAN

VARIABLES
  status,      \* agent_runs.status, "absent" while there is no row
  kind,        \* agent_runs.run_type
  creator,     \* agent_runs.created_by_run_id
  latest,      \* the newest chat or resume run of the conversation
  owner,       \* agent_runs.worker_id
  live,        \* agent_runs.lease_expires_at is in the future
  started,     \* agent_runs.started_at is set
  cleanup,     \* agent_runs.runtime_cleanup_pending
  output,      \* agent_runs.output_message_id names a matching message
  open,        \* agent_run_attempts without finished_at
  outcome,     \* outcome of the last attempt that was finished
  job,         \* the ARQ job run:{run_id}
  tries,       \* how often ARQ has started that job
  pc,          \* where an execution or a reconciler is
  at,          \* the run it is at
  mode,        \* what it does next: publish the end, be quiet, retry the job
  jobTry,      \* ctx["job_try"] of an execution
  ended,       \* runs whose "end" event is in the Redis stream
  userCancel,  \* history: runs that a user's cancel request covered
  faults       \* bound: faults injected so far

rowVars  == <<status, kind, creator, latest, owner, live, started, cleanup,
              output, open, outcome>>
jobVars  == <<job, tries>>
procVars == <<pc, at, mode, jobTry>>
vars == <<rowVars, jobVars, procVars, ended, userCancel, faults>>

Procs == Workers \cup Reconcilers

TerminalStatuses == {"completed", "failed", "cancelled", "interrupted"}
Statuses == {"absent", "pending", "running", "cancel_requested"}
              \cup TerminalStatuses
Kinds    == {"chat", "resume", "subagent"}
Outcomes == {"none", "retry_released", "lease_expired"} \cup TerminalStatuses
PCs      == {"idle", "reap", "pre", "preDelete", "claim", "exec",
             "post", "postDelete", "settle", "rec", "recDelete"}
Modes    == {"quiet", "publish", "retry"}

Terminal(r) == status[r] \in TerminalStatuses
Active(r)   == status[r] \in {"pending", "running", "cancel_requested"}
TopLevel(r) == kind[r] # "subagent"

(***************************************************************************)
(* A run holds its scope until it is terminal and its runtime is cleaned   *)
(* up.  Subagent runs share the sandbox of their creator, but their rows   *)
(* are of threads of their own (runtime_scope_id is the child's thread).   *)
(***************************************************************************)
HoldsScope(r)  == Active(r) \/ cleanup[r]
HoldsThread(r) == TopLevel(r) /\ HoldsScope(r)
\* Faulty variant: the fence is not looked at.
ThreadIdleUnfenced == \A r \in Runs : ~(TopLevel(r) /\ Active(r))

ThreadIdle == \A r \in Runs : ~HoldsThread(r)

Init ==
  /\ status  = [r \in Runs |-> "absent"]
  /\ kind    = [r \in Runs |-> "chat"]
  /\ creator = [r \in Runs |-> NoRun]
  /\ latest  = NoRun
  /\ owner   = [r \in Runs |-> NoWorker]
  /\ live    = [r \in Runs |-> FALSE]
  /\ started = [r \in Runs |-> FALSE]
  /\ cleanup = [r \in Runs |-> FALSE]
  /\ output  = [r \in Runs |-> FALSE]
  /\ open    = [r \in Runs |-> {}]
  /\ outcome = [r \in Runs |-> "none"]
  /\ job     = [r \in Runs |-> "none"]
  /\ tries   = [r \in Runs |-> 0]
  /\ pc      = [p \in Procs |-> "idle"]
  /\ at      = [p \in Procs |-> NoRun]
  /\ mode    = [p \in Procs |-> "quiet"]
  /\ jobTry  = [p \in Procs |-> 0]
  /\ ended   = {}
  /\ userCancel = {}
  /\ faults  = 0

-----------------------------------------------------------------------------
(* The ARQ queue (a library): one job per run, at-least-once delivery.     *)

\* enqueue_job with _job_id run:{id} does nothing while the job exists.
Enqueued(r) == [job EXCEPT ![r] = IF @ = "none" THEN "queued" ELSE @]

\* dispatch_next_request on a thread whose active run is pending; the
\* enqueue may be lost.
Redispatched(j) ==
  {j, [r \in Runs |-> IF TopLevel(r) /\ status[r] = "pending" /\ j[r] = "none"
                        THEN "queued" ELSE j[r]]}

\* The function ends; after a completed run it has also dispatched the
\* thread's next request.
JobLeft(r, label, dispatch) ==
  LET j == [job EXCEPT ![r] = label]
  IN job' \in IF dispatch THEN Redispatched(j) ELSE {j}

\* It returned: the job and its try count are gone.
JobDone(r, dispatch) ==
  JobLeft(r, "none", dispatch) /\ tries' = [tries EXCEPT ![r] = 0]

\* It raised a retry or was cancelled: the job is queued again.
JobRetried(r, dispatch) == JobLeft(r, "queued", dispatch) /\ UNCHANGED tries

\* Faulty variant: one try too many.
TriesLeftOffByOne(r) == tries[r] <= MaxTries

TriesLeft(r) == tries[r] < MaxTries

\* ARQ drops a job whose tries are used up without calling the function.
DropJob(r) ==
  /\ job[r] = "queued"
  /\ ~TriesLeft(r)
  /\ JobDone(r, FALSE)
  /\ UNCHANGED <<rowVars, procVars, ended, userCancel, faults>>

-----------------------------------------------------------------------------
(* Creating rows.                                                          *)

NewRow(r, k, p) ==
  /\ status[r] = "absent"
  /\ status' = [status EXCEPT ![r] = "pending"]
  /\ kind' = [kind EXCEPT ![r] = k]
  /\ creator' = [creator EXCEPT ![r] = p]
  /\ latest' = IF k = "subagent" THEN latest ELSE r
  /\ UNCHANGED <<owner, live, started, cleanup, output, open, outcome>>

\* The row is committed before the job is enqueued; the enqueue may be lost.
EnqueueAfterCommit(r) ==
  /\ job' \in {Enqueued(r), job}
  /\ UNCHANGED <<tries, procVars, ended, userCancel, faults>>

\* Faulty variant: a run that waits for its user is stepped over.
DispatchOverInterrupted(r) ==
  ThreadIdle /\ NewRow(r, "chat", NoRun) /\ EnqueueAfterCommit(r)

\* The queue's head becomes a run: nothing holds the thread and the newest
\* run is not waiting for an answer.  Module RequestQueue has the queue.
DispatchRun(r) ==
  /\ ThreadIdle
  /\ latest # NoRun => status[latest] # "interrupted"
  /\ NewRow(r, "chat", NoRun)
  /\ EnqueueAfterCommit(r)

\* create_resume_run_view: continue the interrupted run p, if it is still
\* the newest one.
CreateResume(r, p) ==
  /\ status[p] = "interrupted"
  /\ latest = p
  /\ ThreadIdle
  /\ NewRow(r, "resume", p)
  /\ EnqueueAfterCommit(r)

\* SubagentRunService.start, called by a tool of an execution of run p: p's
\* row is locked and must be running.
StartSubagent(c, p) ==
  /\ \E w \in Workers : pc[w] = "exec" /\ at[w] = p
  /\ status[p] = "running"
  /\ TopLevel(p)
  /\ NewRow(c, "subagent", p)
  /\ EnqueueAfterCommit(c)

\* recover_pending_dispatches: the periodic scan enqueues a pending run.
RecoverPending(r) ==
  /\ status[r] = "pending"
  /\ job[r] = "none"
  /\ job' = Enqueued(r)
  /\ UNCHANGED <<rowVars, tries, procVars, ended, userCancel, faults>>

-----------------------------------------------------------------------------
(* Cancelling: a run that never started is cancelled at once, any other    *)
(* active run is asked to stop.                                            *)

\* Faulty variant: a run between two attempts counts as one never started.
NeverStartedByStatus(r) == status[r] = "pending"

NeverStarted(r) ==
  status[r] = "pending" /\ owner[r] = NoWorker /\ ~started[r]

CancelTarget(r) == IF NeverStarted(r) THEN "cancelled" ELSE "cancel_requested"

\* Faulty variant: the walk stops at the children.
OwnChildren(r) == {c \in Runs : creator[c] = r /\ Active(c) /\ TopLevel(r)}

\* cancel_active_execution_tree_descendants walks created_by_run_id over
\* rows that are not terminal.  A subagent creates nothing, so two levels
\* are all there is.
Children(R) == {c \in Runs : creator[c] \in R /\ Active(c)}
ActiveDescendants(r) ==
  IF ~TopLevel(r) THEN {}
  ELSE Children({r}) \cup Children(Children({r}))

\* The statuses after r becomes s and its descendants are told to stop.
TreeClosed(r, s) ==
  [x \in Runs |-> IF x = r THEN s
                  ELSE IF x \in ActiveDescendants(r) THEN CancelTarget(x)
                  ELSE status[x]]

\* request_cancel_agent_run with its cascade.
RequestCancel(r) ==
  LET covered == ActiveDescendants(r) \cup {x \in {r} : Active(x)}
  IN /\ covered \ {x \in Runs : status[x] = "cancel_requested"} # {}
     /\ status' = TreeClosed(r, IF Active(r) THEN CancelTarget(r)
                                             ELSE status[r])
     /\ cleanup' = [cleanup EXCEPT ![r] = @ /\ ~NeverStarted(r)]
     /\ userCancel' = userCancel \cup covered
     /\ UNCHANGED <<kind, creator, latest, owner, live, started, output,
                    open, outcome, jobVars, procVars, ended, faults>>

-----------------------------------------------------------------------------
(* A job of ARQ calls process_agent_run.                                   *)

Goto(p, label, m) == /\ pc' = [pc EXCEPT ![p] = label]
                     /\ mode' = [mode EXCEPT ![p] = m]
                     /\ UNCHANGED <<at, jobTry>>

Leave(p) == /\ pc' = [pc EXCEPT ![p] = "idle"]
            /\ mode' = [mode EXCEPT ![p] = "quiet"]
            /\ at' = [at EXCEPT ![p] = NoRun]
            /\ jobTry' = [jobTry EXCEPT ![p] = 0]

Fault == faults < MaxFaults /\ faults' = faults + 1
NoFault == UNCHANGED faults

Fresh(w) == /\ pc[w] = "idle"
            /\ \A r \in Runs : owner[r] # w /\ w \notin open[r]

\* The snapshot that process_agent_run reads first decides where it goes: a
\* terminal run is reaped, a fenced one cleaned up, any other one claimed.
StartJob(w, r) ==
  /\ Fresh(w)
  /\ job[r] = "queued"
  /\ TriesLeft(r)
  /\ job' = [job EXCEPT ![r] = "running"]
  /\ tries' = [tries EXCEPT ![r] = @ + 1]
  /\ at' = [at EXCEPT ![w] = r]
  /\ jobTry' = [jobTry EXCEPT ![w] = tries[r] + 1]
  /\ pc' = [pc EXCEPT ![w] = IF Terminal(r) THEN "reap"
                             ELSE IF cleanup[r] THEN "pre" ELSE "claim"]
  /\ mode' = [mode EXCEPT ![w] = IF Terminal(r) /\ cleanup[r] THEN "publish"
                                 ELSE "quiet"]
  /\ UNCHANGED <<rowVars, ended, userCancel, faults>>

\* A delivery of a terminal run stops its descendants once more.
Reap(w) ==
  LET r == at[w]
  IN /\ pc[w] = "reap"
     /\ status' = TreeClosed(r, status[r])
     /\ IF mode[w] = "publish"
          THEN Goto(w, "pre", "publish") /\ UNCHANGED jobVars
          ELSE Leave(w) /\ JobDone(r, status[r] = "completed")
     /\ UNCHANGED <<kind, creator, latest, owner, live, started, cleanup,
                    output, open, outcome, ended, userCancel, faults>>

-----------------------------------------------------------------------------
(* _release_runtime_if_idle: a transaction that checks the fence, the      *)
(* external deletion of the sandbox, a transaction that lifts the fence.   *)
(* It is called before a claim (pre), after the end of an execution (post) *)
(* and by the reconciler (rec).                                            *)

AtCheck(p)  == pc[p] \in {"pre", "post", "rec"}
AtDelete(p) == pc[p] \in {"preDelete", "postDelete", "recDelete"}

Deleting(label) == CASE label = "pre"  -> "preDelete"
                     [] label = "post" -> "postDelete"
                     [] label = "rec"  -> "recDelete"

\* Faulty variant: subagents do not count as users of the sandbox.
BusyTopLevel(r) == \E x \in Runs \ {r} : TopLevel(x) /\ Active(x)

\* Another run of the execution scope is not terminal.
Busy(r) == \E x \in Runs \ {r} : Active(x)

\* What the caller does when the runtime is clean: a worker that came for a
\* terminal run publishes its end, one that came for a retried run claims
\* it, one that ended its run goes on to settle.
CleanupOk(p, r) ==
  /\ ended' = IF mode[p] = "publish" THEN ended \cup {r} ELSE ended
  /\ \/ /\ pc[p] \in {"pre", "preDelete"} /\ mode[p] = "publish"
        /\ Leave(p)
        /\ JobDone(r, status[r] = "completed")
     \/ /\ pc[p] \in {"pre", "preDelete"} /\ mode[p] = "quiet"
        /\ Goto(p, "claim", "quiet")
        /\ UNCHANGED jobVars
     \/ /\ pc[p] \in {"post", "postDelete"}
        /\ Goto(p, "settle", IF mode[p] = "retry" THEN "retry" ELSE "quiet")
        /\ UNCHANGED jobVars
     \/ /\ pc[p] \in {"rec", "recDelete"}
        /\ Leave(p)
        /\ job' \in IF mode[p] = "retry" \/ status[r] = "completed"
                      THEN Redispatched(job) ELSE {job}
        /\ UNCHANGED tries

\* RuntimeCleanupPendingError: ARQ runs the job again; the fence stays.
CleanupFail(p, r) ==
  /\ \/ pc[p] \in {"pre", "preDelete"} /\ Leave(p) /\ JobRetried(r, FALSE)
     \/ pc[p] \in {"post", "postDelete"} /\ Goto(p, "settle", "retry")
                                         /\ UNCHANGED jobVars
     \/ pc[p] \in {"rec", "recDelete"} /\ Leave(p) /\ UNCHANGED jobVars
  /\ UNCHANGED <<rowVars, ended>>

RowsButCleanup == <<status, kind, creator, latest, owner, live, started,
                    output, open, outcome>>

\* Faulty variant: the second transaction is not committed.
LiftFenceUnsaved(p, r) == CleanupOk(p, r) /\ UNCHANGED rowVars

LiftFence(p, r) ==
  /\ cleanup' = [cleanup EXCEPT ![r] = FALSE]
  /\ CleanupOk(p, r)
  /\ UNCHANGED RowsButCleanup

\* The first transaction.  A persistent or resident sandbox is left to its
\* supervisor; otherwise the whole execution tree has to be terminal.
CheckCleanup(p) ==
  LET r == at[p]
  IN /\ AtCheck(p)
     /\ \/ ~cleanup[r] /\ CleanupOk(p, r) /\ UNCHANGED rowVars
        \/ cleanup[r] /\ KeepRuntime /\ LiftFence(p, r)
        \/ cleanup[r] /\ ~KeepRuntime /\ Busy(r) /\ CleanupFail(p, r)
        \/ /\ cleanup[r] /\ ~KeepRuntime /\ ~Busy(r)
           /\ Goto(p, Deleting(pc[p]), mode[p])
           /\ UNCHANGED <<rowVars, jobVars, ended>>
     /\ UNCHANGED <<userCancel, faults>>

\* The provider has deleted the sandbox; the second transaction.
FinishDelete(p) ==
  LET r == at[p]
  IN /\ AtDelete(p)
     /\ \/ ~cleanup[r] /\ CleanupOk(p, r) /\ UNCHANGED rowVars
        \/ cleanup[r] /\ Busy(r) /\ CleanupFail(p, r)
        \/ cleanup[r] /\ ~Busy(r) /\ LiftFence(p, r)
     /\ UNCHANGED <<userCancel, faults>>

\* The deletion fails or times out, or the cleaner is cancelled.
AbortCleanup(p) ==
  /\ AtCheck(p) \/ AtDelete(p)
  /\ Fault
  /\ CleanupFail(p, at[p])
  /\ UNCHANGED userCancel

-----------------------------------------------------------------------------
(* Ownership.                                                              *)

\* Faulty variant: the fence is not looked at.
CanClaimFenced(r) ==
  \/ status[r] = "pending"
  \/ status[r] = "cancel_requested" /\ owner[r] = NoWorker

\* mark_running: a pending run, or one that was asked to stop while no
\* worker had it.  Its caller has a fresh token, so it never meets a lease
\* of its own.
CanClaim(r) ==
  /\ ~cleanup[r]
  /\ \/ status[r] = "pending"
     \/ status[r] = "cancel_requested" /\ owner[r] = NoWorker

\* An attempt still open is closed as lost before the new one is opened.
Claim(w) ==
  LET r == at[w]
  IN /\ pc[w] = "claim"
     /\ \/ /\ CanClaim(r)
           /\ status' = [status EXCEPT ![r] = IF @ = "pending" THEN "running"
                                              ELSE @]
           /\ owner' = [owner EXCEPT ![r] = w]
           /\ live' = [live EXCEPT ![r] = TRUE]
           /\ started' = [started EXCEPT ![r] = TRUE]
           /\ outcome' = [outcome EXCEPT ![r] = IF open[r] = {} THEN @
                                                ELSE "lease_expired"]
           /\ open' = [open EXCEPT ![r] = {w}]
           /\ Goto(w, "exec", "quiet")
           /\ UNCHANGED <<kind, creator, latest, cleanup, output, jobVars>>
        \/ /\ ~CanClaim(r)
           /\ Leave(w)
           /\ JobDone(r, FALSE)
           /\ UNCHANGED rowVars
     /\ UNCHANGED <<ended, userCancel, faults>>

\* The row names this token and the lease has not run out.
OwnsLease(w, r) == owner[r] = w /\ live[r]

\* Faulty variant: a completion overrides the user's request.
MayEndAsAny(r, s) == status[r] \in {"running", "cancel_requested"}

\* A user's cancel request may only end as cancelled, and only such a run
\* may.
MayEndAs(r, s) == IF status[r] = "cancel_requested" THEN s = "cancelled"
                  ELSE status[r] = "running" /\ s # "cancelled"

\* Faulty variant: the attempt of the old owner is forgotten.
AttemptForgotten(w, r, o) == UNCHANGED <<open, outcome>>

\* _finish_open_attempt: the attempt of w, if it is open, ends with o.
AttemptEnds(w, r, o) ==
  /\ outcome' = [outcome EXCEPT ![r] = IF w \in open[r] THEN o ELSE @]
  /\ open' = [open EXCEPT ![r] = @ \ {w}]

\* set_terminal_status with the cancellation of the descendants, which its
\* callers make in the same transaction.
Terminate(w, r, s) ==
  /\ status' = TreeClosed(r, s)
  /\ owner' = [owner EXCEPT ![r] = NoWorker]
  /\ live' = [live EXCEPT ![r] = FALSE]
  /\ cleanup' = [cleanup EXCEPT ![r] = TopLevel(r)]
  /\ AttemptEnds(w, r, s)
  /\ UNCHANGED <<kind, creator, latest, started>>

\* _finish_run: on to the cleanup when the row is terminal, whoever ended
\* it; the end is published by the one who did.
TryFinish(w, r, s) ==
  \/ /\ OwnsLease(w, r) /\ MayEndAs(r, s)
     /\ Terminate(w, r, s)
     /\ Goto(w, "post", "publish")
     /\ UNCHANGED output
  \/ /\ ~(OwnsLease(w, r) /\ MayEndAs(r, s))
     /\ Goto(w, IF Terminal(r) THEN "post" ELSE "settle", "quiet")
     /\ UNCHANGED rowVars

\* release_lease_for_retry: the run is pending again, behind a fence.
Release(w, r) ==
  /\ OwnsLease(w, r) /\ status[r] = "running"
  /\ status' = TreeClosed(r, "pending")
  /\ owner' = [owner EXCEPT ![r] = NoWorker]
  /\ live' = [live EXCEPT ![r] = FALSE]
  /\ cleanup' = [cleanup EXCEPT ![r] = TopLevel(r)]
  /\ AttemptEnds(w, r, "retry_released")
  /\ UNCHANGED <<kind, creator, latest, started, output>>

CannotRelease(w, r) ==
  /\ ~(OwnsLease(w, r) /\ status[r] = "running")
  /\ UNCHANGED rowVars

-----------------------------------------------------------------------------
(* While the stream of the agent runs.                                     *)

NoJobChange == UNCHANGED <<jobVars, ended, userCancel>>

\* An assistant message is saved and bound to the run.
WriteOutput(w) ==
  LET r == at[w]
  IN /\ pc[w] = "exec"
     /\ OwnsLease(w, r) /\ status[r] = "running"
     /\ ~output[r]
     /\ output' = [output EXCEPT ![r] = TRUE]
     /\ UNCHANGED <<status, kind, creator, latest, owner, live, started,
                    cleanup, open, outcome, jobVars, procVars, ended,
                    userCancel, faults>>

\* The final message and the terminal status in one transaction.
CommitOutput(w, s) ==
  LET r == at[w]
  IN /\ pc[w] = "exec"
     /\ OwnsLease(w, r) /\ status[r] = "running"
     /\ Terminate(w, r, s)
     /\ output' = [output EXCEPT ![r] = TRUE]
     /\ Goto(w, "post", "publish")
     /\ NoJobChange /\ NoFault

\* _finish_run.  A completion without a bound output message raises, and
\* ends as a failure.
FinishRun(w, s) ==
  LET r == at[w]
  IN /\ pc[w] = "exec"
     /\ s = "completed" /\ OwnsLease(w, r) /\ status[r] = "running" => output[r]
     /\ TryFinish(w, r, s)
     /\ NoJobChange /\ NoFault

\* An input that cannot be executed: the run fails at once and neither the
\* cleanup nor the end event is tried here.
RejectInput(w) ==
  LET r == at[w]
  IN /\ pc[w] = "exec"
     /\ \/ OwnsLease(w, r) /\ MayEndAs(r, "failed")
           /\ Terminate(w, r, "failed") /\ UNCHANGED output
        \/ ~(OwnsLease(w, r) /\ MayEndAs(r, "failed")) /\ UNCHANGED rowVars
     /\ Goto(w, "settle", "quiet")
     /\ NoJobChange /\ NoFault

\* The execution learns of the cancel request, by the Redis signal or by
\* polling the row: _finish_user_cancel.
UserCancelSeen(w) ==
  LET r == at[w]
  IN /\ pc[w] = "exec"
     /\ status[r] = "cancel_requested"
     /\ \/ /\ OwnsLease(w, r)
           /\ Terminate(w, r, "cancelled")
           /\ UNCHANGED output
           /\ Goto(w, "post", "publish")
        \/ /\ ~OwnsLease(w, r)
           /\ UNCHANGED rowVars
           /\ Goto(w, "post", "quiet")
     /\ NoJobChange /\ NoFault

\* Cancelled by ARQ: a shutdown runs the job again, a job timeout does not.
InfraCancel(w) ==
  LET r == at[w]
  IN /\ pc[w] \in {"exec", "post"}
     /\ status[r] # "cancel_requested"
     /\ Fault
     /\ Release(w, r) \/ CannotRelease(w, r)
     /\ \E m \in {"retry", "quiet"} : Goto(w, "settle", m)
     /\ NoJobChange

\* A retryable exception: give the run back for another try, or fail it on
\* the last one.
RetryableError(w) ==
  LET r == at[w]
  IN /\ pc[w] = "exec"
     /\ status[r] # "cancel_requested"
     /\ Fault
     /\ IF jobTry[w] >= MaxTries
          THEN TryFinish(w, r, "failed")
          ELSE \/ Release(w, r) /\ Goto(w, "post", "retry")
               \/ CannotRelease(w, r) /\ Goto(w, "settle", "quiet")
     /\ NoJobChange

\* The heartbeat finds that the lease is gone and stops the execution.
LoseLease(w) ==
  /\ pc[w] = "exec"
  /\ ~OwnsLease(w, at[w]) /\ NoFault
  /\ Goto(w, "settle", "quiet")
  /\ UNCHANGED rowVars
  /\ NoJobChange

\* The heartbeat cannot reach the database and gives a good lease up.
GiveUpLease(w) ==
  /\ pc[w] = "exec"
  /\ OwnsLease(w, at[w]) /\ Fault
  /\ Goto(w, "settle", "quiet")
  /\ UNCHANGED rowVars
  /\ NoJobChange

\* The finally of process_agent_run.
Settle(w) ==
  LET r == at[w]
  IN /\ pc[w] = "settle"
     /\ status' = IF Terminal(r) THEN TreeClosed(r, status[r]) ELSE status
     /\ Leave(w)
     /\ LET dispatch == status[r] = "completed" /\ ~cleanup[r]
        IN IF mode[w] = "retry" THEN JobRetried(r, dispatch)
                                ELSE JobDone(r, dispatch)
     /\ UNCHANGED <<kind, creator, latest, owner, live, started, cleanup,
                    output, open, outcome, ended, userCancel, faults>>

\* The process dies: nothing more of this execution happens, and ARQ runs
\* its job again.
Crash(w) ==
  /\ pc[w] # "idle"
  /\ Fault
  /\ Leave(w)
  /\ job' = [job EXCEPT ![at[w]] = IF @ = "running" THEN "queued" ELSE @]
  /\ UNCHANGED <<rowVars, tries, ended, userCancel>>

\* ARQ believes the process dead and delivers the job a second time.
Redeliver(r) ==
  /\ job[r] = "running"
  /\ Fault
  /\ JobRetried(r, FALSE)
  /\ UNCHANGED <<rowVars, procVars, ended, userCancel>>

-----------------------------------------------------------------------------
(* The reconciler of a worker process.                                     *)

\* A lease is not renewed in time (renew_lease is the heartbeat of a live
\* one and leaves it live).
Expire(r) ==
  /\ live[r]
  /\ live' = [live EXCEPT ![r] = FALSE]
  /\ UNCHANGED <<status, kind, creator, latest, owner, started, cleanup,
                 output, open, outcome, jobVars, procVars, ended, userCancel,
                 faults>>

\* Faulty variants: a clause without its status; no clause for a request to
\* stop that nobody owns; no clause for requests to stop at all.
LostAnyStatus(r) ==
  \/ status[r] = "running" /\ ~live[r]
  \/ owner[r] = NoWorker /\ started[r]
LostOwned(r) ==
  \/ status[r] = "running" /\ ~live[r]
  \/ status[r] = "cancel_requested" /\ owner[r] # NoWorker /\ ~live[r]
LostRunning(r) == status[r] = "running" /\ ~live[r]

\* The rows that reconcile_expired_leases selects.
Lost(r) ==
  \/ status[r] = "running" /\ ~live[r]
  \/ status[r] = "cancel_requested" /\ owner[r] # NoWorker /\ ~live[r]
  \/ status[r] = "cancel_requested" /\ owner[r] = NoWorker /\ started[r]

\* One row of the scan, which skips the rows that others have locked.
Reconcile(r) ==
  /\ Lost(r)
  /\ status' = TreeClosed(r, "failed")
  /\ owner' = [owner EXCEPT ![r] = NoWorker]
  /\ live' = [live EXCEPT ![r] = FALSE]
  /\ cleanup' = [cleanup EXCEPT ![r] = TopLevel(r)]
  /\ outcome' = [outcome EXCEPT ![r] = IF open[r] = {} THEN @
                                       ELSE "lease_expired"]
  /\ open' = [open EXCEPT ![r] = {}]
  /\ UNCHANGED <<kind, creator, latest, started, output, jobVars, procVars,
                 ended, userCancel, faults>>

\* reconcile_pending_runtime_cleanups takes a snapshot of a fenced run: the
\* end of a terminal one is published, a pending one is enqueued again.
ListCleanup(c, r) ==
  /\ pc[c] = "idle"
  /\ cleanup[r] /\ TopLevel(r)
  /\ pc' = [pc EXCEPT ![c] = "rec"]
  /\ at' = [at EXCEPT ![c] = r]
  /\ mode' = [mode EXCEPT ![c] = IF Terminal(r) THEN "publish"
                                 ELSE IF status[r] = "pending" THEN "retry"
                                 ELSE "quiet"]
  /\ UNCHANGED <<rowVars, jobVars, jobTry, ended, userCancel, faults>>

-----------------------------------------------------------------------------
\* What ends an execution without a fault.
ExecEnds(w) ==
  \/ \E s \in {"completed", "interrupted"} : CommitOutput(w, s)
  \/ \E s \in {"completed", "failed", "interrupted"} : FinishRun(w, s)
  \/ RejectInput(w)
  \/ UserCancelSeen(w)
  \/ LoseLease(w)

WorkerStep(w) ==
  \/ Reap(w) \/ CheckCleanup(w) \/ FinishDelete(w) \/ Claim(w)
  \/ ExecEnds(w) \/ Settle(w)

WorkerFault(w) ==
  \/ InfraCancel(w) \/ RetryableError(w) \/ GiveUpLease(w) \/ Crash(w)
  \/ AbortCleanup(w)

ReconcilerStep(c) == CheckCleanup(c) \/ FinishDelete(c)

Next ==
  \/ \E r \in Runs : \/ DispatchRun(r) \/ RequestCancel(r)
                     \/ RecoverPending(r) \/ DropJob(r) \/ Redeliver(r)
                     \/ Expire(r) \/ Reconcile(r)
  \/ \E r, p \in Runs : CreateResume(r, p) \/ StartSubagent(r, p)
  \/ \E w \in Workers : \/ WorkerStep(w) \/ WriteOutput(w) \/ WorkerFault(w)
                        \/ \E r \in Runs : StartJob(w, r)
  \/ \E c \in Reconcilers : \/ ReconcilerStep(c) \/ AbortCleanup(c)
                            \/ \E r \in Runs : ListCleanup(c, r)

Spec == Init /\ [][Next]_vars

\* Nobody renews the lease: the execution that holds it is over.
Abandoned(r) == \A w \in Workers : pc[w] = "exec" /\ at[w] = r => owner[r] # w

\* Executions end (ARQ's job_timeout bounds them), ARQ starts every queued
\* job in the end, and the reconciler's loop comes to every row.  Users and
\* faults owe nothing.
Fairness ==
  /\ \A w \in Workers : WF_vars(WorkerStep(w))
  /\ \A c \in Reconcilers : WF_vars(ReconcilerStep(c))
  /\ \A r \in Runs :
       /\ SF_vars(\E w \in Workers : StartJob(w, r))
       /\ SF_vars(\E c \in Reconcilers : ListCleanup(c, r))
       /\ WF_vars(DropJob(r))
       /\ WF_vars(RecoverPending(r))
       /\ WF_vars(Abandoned(r) /\ Expire(r))
       /\ WF_vars(Reconcile(r))

FairSpec == Spec /\ Fairness

-----------------------------------------------------------------------------
(* What holds of every reachable state.                                    *)

TypeOK ==
  /\ status \in [Runs -> Statuses]
  /\ kind \in [Runs -> Kinds]
  /\ creator \in [Runs -> Runs \cup {NoRun}]
  /\ latest \in Runs \cup {NoRun}
  /\ owner \in [Runs -> Workers \cup {NoWorker}]
  /\ live \in [Runs -> BOOLEAN]
  /\ started \in [Runs -> BOOLEAN]
  /\ cleanup \in [Runs -> BOOLEAN]
  /\ output \in [Runs -> BOOLEAN]
  /\ open \in [Runs -> SUBSET Workers]
  /\ outcome \in [Runs -> Outcomes]
  /\ job \in [Runs -> {"none", "queued", "running"}]
  /\ tries \in [Runs -> 0 .. MaxTries]
  /\ pc \in [Procs -> PCs]
  /\ at \in [Procs -> Runs \cup {NoRun}]
  /\ mode \in [Procs -> Modes]
  /\ jobTry \in [Procs -> 0 .. MaxTries]
  /\ ended \in SUBSET Runs
  /\ userCancel \in SUBSET Runs
  /\ faults \in 0 .. MaxFaults

\* The shape of a row: a running run has an owner, and only a run that is
\* running or asked to stop has one, whichever of the worker, the user and
\* the reconciler wrote last.
LeaseShape ==
  \A r \in Runs :
    /\ status[r] = "running" => owner[r] # NoWorker
    /\ owner[r] # NoWorker => status[r] \in {"running", "cancel_requested"}
    /\ live[r] => owner[r] # NoWorker

\* The attempts of a run agree with its lease: an attempt is open exactly
\* while its worker owns the run, so that lost, released and finished
\* attempts are all closed.
AttemptLedger ==
  \A r \in Runs : open[r] = {owner[r]} \ {NoWorker}

\* How a run ended is how its last attempt ended, but for failures, which
\* the reconciler may declare of a lost or of a released attempt.
OutcomeAgrees ==
  \A r \in Runs :
    /\ status[r] \in {"completed", "interrupted"} => outcome[r] = status[r]
    /\ status[r] = "cancelled" /\ started[r] => outcome[r] = "cancelled"
    /\ status[r] = "failed" =>
         outcome[r] \in {"failed", "lease_expired", "retry_released"}

\* No attempt executes in a runtime that is still to be deleted: a run with
\* a fence has no owner.
FenceExcludesOwner ==
  \A r \in Runs : cleanup[r] => owner[r] = NoWorker

\* The conversation's own thread has one run at a time, counting a run
\* whose runtime is not cleaned up yet.
OneThreadHolder ==
  \A r, q \in Runs : HoldsThread(r) /\ HoldsThread(q) => r = q

\* A subagent that may still execute unasked has a creator that is running:
\* whatever ends or releases the creator has told it to stop, whenever it
\* was started.
NoOrphanSubagent ==
  \A c \in Runs :
    kind[c] = "subagent" /\ status[c] \in {"pending", "running"}
      => status[creator[c]] = "running"

\* Once the fence of an ended run is lifted, its sandbox is deleted, and
\* none of its subagents can be executing in it.
QuietBehindFence ==
  \A c \in Runs :
    kind[c] = "subagent" /\ Active(c) /\ Terminal(creator[c]) /\ ~KeepRuntime
      => cleanup[creator[c]]

\* A client that sees the end of a run may send the next request: the run
\* is terminal and its runtime is cleaned up.
EndBehindFence ==
  \A r \in ended : Terminal(r) /\ ~cleanup[r]

\* A terminal status and the outcome of its last attempt are never
\* rewritten, not by a stale owner, a second delivery or the reconciler.
TerminalIsFinal ==
  [][\A r \in Runs : Terminal(r) => /\ status'[r] = status[r]
                                    /\ outcome'[r] = outcome[r]
                                    /\ owner'[r] = NoWorker]_vars

\* A run that was asked to stop ends as cancelled or failed: it neither
\* completes nor runs again.
CancelHonoured ==
  [][\A r \in Runs : status[r] = "cancel_requested" =>
       status'[r] \in {"cancel_requested", "cancelled", "failed"}]_vars

\* Only a request of the user cancels a resumed run.
ResumeSurvives ==
  \A r \in Runs :
    kind[r] = "resume" /\ status[r] \in {"cancel_requested", "cancelled"}
      => r \in userCancel

\* The fence covers the whole external deletion: while the sandbox of the
\* scope is being deleted no run of the scope is owned.
DeleteExcludesOwner ==
  \A p \in Procs : AtDelete(p) => \A r \in Runs : owner[r] = NoWorker

\* Whatever crashes, retries and cancel requests it meets, a run that holds
\* the conversation's thread ends, has its runtime cleaned up and gives the
\* thread back.
ThreadReleased ==
  \A r \in Runs : HoldsThread(r) ~> ~HoldsThread(r)

\* So does every subagent: it ends, even when the worker that should have
\* seen the request to stop is gone.
SubagentEnds ==
  \A r \in Runs : kind[r] = "subagent" /\ Active(r) ~> Terminal(r)

-----------------------------------------------------------------------------
(* The thread's own runs are runs of ThreadRuns, which the request queue   *)
(* is written against.                                                     *)

TR == INSTANCE ThreadRuns
        WITH status <- [r \in Runs |-> IF TopLevel(r) THEN status[r]
                                       ELSE "absent"],
             fenced <- cleanup,
             newest <- latest,
             parent <- [r \in Runs |-> IF TopLevel(r) THEN creator[r]
                                       ELSE NoRun]

\* Workers, retries, reconcilers and the cascade from parents to children
\* show to the queue as one run at a time that begins, may be given back,
\* ends once and then has its fence lifted.
ImplementsThreadRuns == TR!Spec

=============================================================================
