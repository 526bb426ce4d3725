------------------------- MODULE AgentRunLeaseProofs -------------------------
(***************************************************************************)
(* Proofs about AgentRunLease for any set of runs, of executions and of    *)
(* reconcilers and any bound on faults.                                    *)
(***************************************************************************)
EXTENDS AgentRunLease, TLAPS

\* A process that is not idle is at a run.
AtRun == \A p \in Procs : pc[p] # "idle" => at[p] \in Runs

TypeInv == TypeOK /\ AtRun

RowType ==
  /\ status \in [Runs -> Statuses]
  /\ kind \in [Runs -> Kinds]
  /\ creator \in [Runs -> Runs \cup {NoRun}]
  /\ latest \in Runs \cup {NoRun}
  /\ owner \in [Runs -> Workers \cup {NoWorker}]
  /\ live \in [Runs -> BOOLEAN]
  /\ started \in [Runs -> BOOLEAN]
  /\ cleanup \in [Runs -> BOOLEAN]
  /\ output \in [Runs -> BOOLEAN]
  /\ open \in [Runs -> SUBSET Workers]
  /\ outcome \in [Runs -> Outcomes]

JobType ==
  /\ job \in [Runs -> {"none", "queued", "running"}]
  /\ tries \in [Runs -> 0 .. MaxTries]

ProcType ==
  /\ pc \in [Procs -> PCs]
  /\ at \in [Procs -> Runs \cup {NoRun}]
  /\ mode \in [Procs -> Modes]
  /\ jobTry \in [Procs -> 0 .. MaxTries]
  /\ AtRun

RestType ==
  /\ ended \in SUBSET Runs
  /\ userCancel \in SUBSET Runs
  /\ faults \in 0 .. MaxFaults

\* The type invariant falls into four parts, by the variables that the
\* actions change together.
LEMMA TypeParts == TypeInv <=> RowType /\ JobType /\ ProcType /\ RestType
  BY DEF TypeInv, TypeOK, RowType, JobType, ProcType, RestType

-----------------------------------------------------------------------------
(* What the helpers of the actions do.                                     *)

\* TreeClosed gives r the status s and touches no run that is terminal or
\* absent; any other run keeps its status or is told to stop.
LEMMA TreeClosedShape ==
  ASSUME RowType, NEW r \in Runs, NEW s \in Statuses
  PROVE  /\ TreeClosed(r, s) \in [Runs -> Statuses]
         /\ TreeClosed(r, s)[r] = s
         /\ \A x \in Runs \ {r} :
              \/ TreeClosed(r, s)[x] = status[x]
              \/ Active(x) /\ TreeClosed(r, s)[x] = CancelTarget(x)
  BY DEF TreeClosed, RowType, Statuses, TerminalStatuses, CancelTarget,
         ActiveDescendants, Children

LEMMA JobLeftType ==
  ASSUME JobType, NEW r \in Runs, NEW l \in {"none", "queued", "running"},
         NEW d, JobLeft(r, l, d)
  PROVE  job' \in [Runs -> {"none", "queued", "running"}]
  BY DEF JobType, JobLeft, Redispatched

LEMMA JobDoneType ==
  ASSUME JobType, NEW r \in Runs, NEW d, JobDone(r, d)
  PROVE  JobType'
<1>1. job' \in [Runs -> {"none", "queued", "running"}]
  BY JobLeftType DEF JobDone
<1>2. tries' \in [Runs -> 0 .. MaxTries]
  BY LeaseAssumption DEF JobDone, JobType, LeaseAssumption
<1> QED
  BY <1>1, <1>2 DEF JobType

LEMMA JobRetriedType ==
  ASSUME JobType, NEW r \in Runs, NEW d, JobRetried(r, d)
  PROVE  JobType'
<1>1. job' \in [Runs -> {"none", "queued", "running"}]
  BY JobLeftType DEF JobRetried
<1> QED
  BY <1>1 DEF JobType, JobRetried

LEMMA GotoType ==
  ASSUME ProcType, NEW p \in Procs, NEW l \in PCs, NEW m \in Modes,
         at[p] \in Runs, Goto(p, l, m)
  PROVE  ProcType'
  BY DEF ProcType, Goto, AtRun

LEMMA LeaveType ==
  ASSUME ProcType, NEW p \in Procs, Leave(p)
  PROVE  ProcType'
  BY LeaseAssumption DEF ProcType, Leave, AtRun, PCs, Modes, LeaseAssumption

LEMMA FaultType ==
  ASSUME RestType, Fault \/ UNCHANGED faults, UNCHANGED <<ended, userCancel>>
  PROVE  RestType'
  BY LeaseAssumption DEF RestType, Fault, LeaseAssumption

-----------------------------------------------------------------------------
(* Type correctness.                                                       *)

\* The four parts of the type invariant.
Typed == RowType /\ JobType /\ ProcType /\ RestType

LEMMA TypeInit == Init => Typed
  BY LeaseAssumption
  DEF Init, Typed, RowType, JobType, ProcType, RestType, AtRun, Statuses,
      TerminalStatuses, Kinds, Outcomes, PCs, Modes, LeaseAssumption

\* Terminate, Release and the like keep the rows typed.
LEMMA TerminateType ==
  ASSUME RowType, NEW w \in Workers, NEW r \in Runs,
         NEW s \in TerminalStatuses, Terminate(w, r, s),
         output' \in [Runs -> BOOLEAN]
  PROVE  RowType'
<1>1. TreeClosed(r, s) \in [Runs -> Statuses]
  BY TreeClosedShape DEF Statuses
<1> QED
  BY <1>1 DEF RowType, Terminate, AttemptEnds, Outcomes, TopLevel

LEMMA ReleaseType ==
  ASSUME RowType, NEW w \in Workers, NEW r \in Runs, Release(w, r)
  PROVE  RowType'
<1>1. TreeClosed(r, "pending") \in [Runs -> Statuses]
  BY TreeClosedShape DEF Statuses
<1> QED
  BY <1>1 DEF RowType, Release, AttemptEnds, Outcomes, TopLevel

LEMMA RowUnchanged ==
  ASSUME RowType, UNCHANGED rowVars
  PROVE  RowType'
  BY DEF RowType, rowVars

LEMMA JobUnchanged ==
  ASSUME JobType, UNCHANGED jobVars
  PROVE  JobType'
  BY DEF JobType, jobVars

LEMMA ProcUnchanged ==
  ASSUME ProcType, UNCHANGED procVars
  PROVE  ProcType'
  BY DEF ProcType, procVars, AtRun

LEMMA RestUnchanged ==
  ASSUME RestType, UNCHANGED <<ended, userCancel, faults>>
  PROVE  RestType'
  BY DEF RestType

LEMMA NewRowType ==
  ASSUME Typed, NEW r \in Runs, NEW k \in Kinds,
         NEW p \in Runs \cup {NoRun}, NewRow(r, k, p), EnqueueAfterCommit(r)
  PROVE  Typed'
<1>1. RowType'
  BY DEF Typed, NewRow, RowType, Statuses
<1>2. JobType'
  BY DEF Typed, EnqueueAfterCommit, Enqueued, JobType
<1>3. ProcType' /\ RestType'
  BY ProcUnchanged, RestUnchanged DEF Typed, EnqueueAfterCommit
<1> QED
  BY <1>1, <1>2, <1>3 DEF Typed

LEMMA CleanupOkType ==
  ASSUME Typed, NEW p \in Procs, at[p] \in Runs, CleanupOk(p, at[p]),
         UNCHANGED <<userCancel, faults>>
  PROVE  JobType' /\ ProcType' /\ RestType'
<1>1. RestType'
  BY DEF Typed, RestType, CleanupOk
<1>2. CASE /\ pc[p] \in {"pre", "preDelete"} /\ mode[p] = "publish"
           /\ Leave(p)
           /\ JobDone(at[p], status[at[p]] = "completed")
  BY <1>1, <1>2, LeaveType, JobDoneType DEF Typed
<1>3. CASE Goto(p, "claim", "quiet") /\ UNCHANGED jobVars
  BY <1>1, <1>3, GotoType, JobUnchanged DEF Typed, PCs, Modes
<1>4. CASE /\ Goto(p, "settle", IF mode[p] = "retry" THEN "retry" ELSE "quiet")
           /\ UNCHANGED jobVars
  BY <1>1, <1>4, GotoType, JobUnchanged DEF Typed, PCs, Modes
<1>5. CASE /\ Leave(p)
           /\ job' \in IF mode[p] = "retry" \/ status[at[p]] = "completed"
                         THEN Redispatched(job) ELSE {job}
           /\ UNCHANGED tries
  <2>1. JobType'
    BY <1>5 DEF Typed, JobType, Redispatched
  <2> QED
    BY <1>1, <1>5, <2>1, LeaveType DEF Typed
<1> QED
  BY <1>2, <1>3, <1>4, <1>5 DEF CleanupOk

LEMMA CleanupFailType ==
  ASSUME Typed, NEW p \in Procs, at[p] \in Runs, CleanupFail(p, at[p])
  PROVE  RowType' /\ JobType' /\ ProcType'
<1>1. RowType'
  BY RowUnchanged DEF Typed, CleanupFail
<1>2. CASE Leave(p) /\ JobRetried(at[p], FALSE)
  BY <1>1, <1>2, LeaveType, JobRetriedType DEF Typed
<1>3. CASE Goto(p, "settle", "retry") /\ UNCHANGED jobVars
  BY <1>1, <1>3, GotoType, JobUnchanged DEF Typed, PCs, Modes
<1>4. CASE Leave(p) /\ UNCHANGED jobVars
  BY <1>1, <1>4, LeaveType, JobUnchanged DEF Typed
<1> QED
  BY <1>2, <1>3, <1>4 DEF CleanupFail

LEMMA LiftFenceType ==
  ASSUME Typed, NEW p \in Procs, at[p] \in Runs, LiftFence(p, at[p]),
         UNCHANGED <<userCancel, faults>>
  PROVE  Typed'
<1>1. RowType'
  BY DEF Typed, RowType, LiftFence, RowsButCleanup
<1> QED
  BY <1>1, CleanupOkType DEF Typed, LiftFence

LEMMA CheckCleanupType ==
  ASSUME Typed, NEW p \in Procs, at[p] \in Runs, CheckCleanup(p)
  PROVE  Typed'
<1>1. UNCHANGED <<userCancel, faults>>
  BY DEF CheckCleanup
<1>2. CASE CleanupOk(p, at[p]) /\ UNCHANGED rowVars
  BY <1>1, <1>2, CleanupOkType, RowUnchanged DEF Typed
<1>3. CASE LiftFence(p, at[p])
  BY <1>1, <1>3, LiftFenceType
<1>4. CASE CleanupFail(p, at[p])
  <2>1. RestType'
    BY <1>1, <1>4, RestUnchanged DEF CleanupFail, Typed
  <2> QED
    BY <1>4, <2>1, CleanupFailType DEF Typed
<1>5. CASE /\ Goto(p, Deleting(pc[p]), mode[p])
           /\ UNCHANGED <<rowVars, jobVars, ended>>
  <2>1. Deleting(pc[p]) \in PCs
    BY DEF CheckCleanup, AtCheck, Deleting, PCs
  <2>2. mode[p] \in Modes
    BY DEF Typed, ProcType
  <2> QED
    BY <1>1, <1>5, <2>1, <2>2, GotoType, RowUnchanged, JobUnchanged,
       RestUnchanged
    DEF Typed
<1> QED
  BY <1>2, <1>3, <1>4, <1>5 DEF CheckCleanup

LEMMA FinishDeleteType ==
  ASSUME Typed, NEW p \in Procs, at[p] \in Runs, FinishDelete(p)
  PROVE  Typed'
<1>1. UNCHANGED <<userCancel, faults>>
  BY DEF FinishDelete
<1>2. CASE CleanupOk(p, at[p]) /\ UNCHANGED rowVars
  BY <1>1, <1>2, CleanupOkType, RowUnchanged DEF Typed
<1>3. CASE LiftFence(p, at[p])
  BY <1>1, <1>3, LiftFenceType
<1>4. CASE CleanupFail(p, at[p])
  <2>1. RestType'
    BY <1>1, <1>4, RestUnchanged DEF CleanupFail, Typed
  <2> QED
    BY <1>4, <2>1, CleanupFailType DEF Typed
<1> QED
  BY <1>2, <1>3, <1>4 DEF FinishDelete

\* _finish_run and its refusal, for any terminal status.
LEMMA TryFinishType ==
  ASSUME Typed, NEW w \in Workers, at[w] \in Runs,
         NEW s \in TerminalStatuses, TryFinish(w, at[w], s)
  PROVE  RowType' /\ ProcType'
<1>1. w \in Procs
  BY DEF Procs
<1>2. CASE /\ Terminate(w, at[w], s)
           /\ Goto(w, "post", "publish")
           /\ UNCHANGED output
  <2>1. output' \in [Runs -> BOOLEAN]
    BY <1>2 DEF Typed, RowType
  <2> QED
    BY <1>1, <1>2, <2>1, TerminateType, GotoType DEF Typed, PCs, Modes
<1>3. CASE /\ Goto(w, IF Terminal(at[w]) THEN "post" ELSE "settle", "quiet")
           /\ UNCHANGED rowVars
  BY <1>1, <1>3, RowUnchanged, GotoType DEF Typed, PCs, Modes
<1> QED
  BY <1>2, <1>3 DEF TryFinish

\* The steps of an execution, of the cleanup and of its end.
LEMMA WorkerStepType ==
  ASSUME Typed, NEW w \in Workers, WorkerStep(w)
  PROVE  Typed'
<1> USE DEF Typed
<1>1. w \in Procs
  BY DEF Procs
<1>2. at[w] \in Runs
  BY <1>1 DEF WorkerStep, Reap, CheckCleanup, AtCheck, FinishDelete, AtDelete,
              Claim, ExecEnds, CommitOutput, FinishRun, RejectInput,
              UserCancelSeen, LoseLease, Settle, ProcType, AtRun
<1>3. status[at[w]] \in Statuses
  BY <1>2 DEF RowType
<1>4. TreeClosed(at[w], status[at[w]]) \in [Runs -> Statuses]
  BY <1>2, <1>3, TreeClosedShape
<1>5. CASE Reap(w)
  <2>1. RowType' /\ RestType'
    BY <1>4, <1>5 DEF Reap, RowType, RestType
  <2>2. JobType' /\ ProcType'
    BY <1>1, <1>2, <1>5, GotoType, LeaveType, JobDoneType, JobUnchanged
    DEF Reap, PCs, Modes
  <2> QED
    BY <2>1, <2>2
<1>6. CASE CheckCleanup(w)
  BY <1>1, <1>2, <1>6, CheckCleanupType
<1>7. CASE FinishDelete(w)
  BY <1>1, <1>2, <1>7, FinishDeleteType
<1>8. CASE Claim(w)
  <2>1. CASE CanClaim(at[w])
    <3>1. RowType'
      <4>1. /\ status' = [status EXCEPT ![at[w]] = IF @ = "pending"
                                                   THEN "running" ELSE @]
            /\ owner' = [owner EXCEPT ![at[w]] = w]
            /\ live' = [live EXCEPT ![at[w]] = TRUE]
            /\ started' = [started EXCEPT ![at[w]] = TRUE]
            /\ outcome' = [outcome EXCEPT ![at[w]] = IF open[at[w]] = {} THEN @
                                                     ELSE "lease_expired"]
            /\ open' = [open EXCEPT ![at[w]] = {w}]
            /\ UNCHANGED <<kind, creator, latest, cleanup, output>>
        BY <1>8, <2>1 DEF Claim
      <4>2. status' \in [Runs -> Statuses]
        BY <1>2, <4>1 DEF RowType, Statuses
      <4>3. outcome' \in [Runs -> Outcomes]
        BY <1>2, <4>1 DEF RowType, Outcomes
      <4>4. /\ owner' \in [Runs -> Workers \cup {NoWorker}]
            /\ open' \in [Runs -> SUBSET Workers]
        BY <1>2, <4>1 DEF RowType
      <4> QED
        BY <1>2, <4>1, <4>2, <4>3, <4>4 DEF RowType
    <3>2. JobType' /\ ProcType' /\ RestType'
      BY <1>1, <1>2, <1>8, <2>1, GotoType, JobUnchanged, RestUnchanged
      DEF Claim, PCs, Modes
    <3> QED
      BY <3>1, <3>2
  <2>2. CASE ~CanClaim(at[w])
    BY <1>1, <1>2, <1>8, <2>2, LeaveType, JobDoneType, RowUnchanged,
       RestUnchanged
    DEF Claim
  <2> QED
    BY <2>1, <2>2
<1>9. CASE ExecEnds(w)
  <2>1. JobType' /\ RestType'
    BY <1>9, JobUnchanged, RestUnchanged
    DEF ExecEnds, CommitOutput, FinishRun, RejectInput, UserCancelSeen,
        LoseLease, NoJobChange, NoFault
  <2>2. ASSUME NEW s \in {"completed", "interrupted"}, CommitOutput(w, s)
        PROVE  RowType' /\ ProcType'
    <3>1. output' \in [Runs -> BOOLEAN]
      BY <2>2 DEF CommitOutput, RowType
    <3> QED
      BY <1>1, <1>2, <2>2, <3>1, TerminateType, GotoType
      DEF CommitOutput, TerminalStatuses, PCs, Modes
  <2>3. ASSUME NEW s \in {"completed", "failed", "interrupted"},
               FinishRun(w, s)
        PROVE  RowType' /\ ProcType'
    BY <1>2, <2>3, TryFinishType DEF FinishRun, TerminalStatuses
  <2>4. CASE RejectInput(w)
    <3>1. ProcType'
      BY <1>1, <1>2, <2>4, GotoType DEF RejectInput, PCs, Modes
    <3>2. CASE Terminate(w, at[w], "failed") /\ UNCHANGED output
      <4>1. output' \in [Runs -> BOOLEAN]
        BY <3>2 DEF RowType
      <4> QED
        BY <1>2, <2>1, <3>1, <3>2, <4>1, TerminateType DEF TerminalStatuses
    <3>3. CASE UNCHANGED rowVars
      BY <2>1, <3>1, <3>3, RowUnchanged
    <3> QED
      BY <2>4, <3>2, <3>3 DEF RejectInput
  <2>5. CASE UserCancelSeen(w)
    <3>1. ProcType'
      BY <1>1, <1>2, <2>5, GotoType DEF UserCancelSeen, PCs, Modes
    <3>2. CASE Terminate(w, at[w], "cancelled") /\ UNCHANGED output
      <4>1. output' \in [Runs -> BOOLEAN]
        BY <3>2 DEF RowType
      <4> QED
        BY <1>2, <2>1, <3>1, <3>2, <4>1, TerminateType DEF TerminalStatuses
    <3>3. CASE UNCHANGED rowVars
      BY <2>1, <3>1, <3>3, RowUnchanged
    <3> QED
      BY <2>5, <3>2, <3>3 DEF UserCancelSeen
  <2>6. CASE LoseLease(w)
    BY <1>1, <1>2, <2>1, <2>6, RowUnchanged, GotoType
    DEF LoseLease, PCs, Modes
  <2> QED
    BY <1>9, <2>1, <2>2, <2>3, <2>4, <2>5, <2>6 DEF ExecEnds
<1>10. CASE Settle(w)
  <2>1. RowType' /\ RestType'
    BY <1>4, <1>10 DEF Settle, RowType, RestType
  <2>2. JobType' /\ ProcType'
    BY <1>1, <1>2, <1>10, LeaveType, JobDoneType, JobRetriedType DEF Settle
  <2> QED
    BY <2>1, <2>2
<1> QED
  BY <1>5, <1>6, <1>7, <1>8, <1>9, <1>10 DEF WorkerStep

\* Crashes, cancellations, errors and lost heartbeats.
LEMMA AbortCleanupType ==
  ASSUME Typed, NEW p \in Procs, AbortCleanup(p)
  PROVE  Typed'
<1>1. at[p] \in Runs
  BY DEF Typed, AbortCleanup, AtCheck, AtDelete, ProcType, AtRun
<1>2. RestType'
  BY FaultType DEF Typed, AbortCleanup, CleanupFail
<1> QED
  BY <1>1, <1>2, CleanupFailType DEF Typed, AbortCleanup

LEMMA WorkerFaultType ==
  ASSUME Typed, NEW w \in Workers, WorkerFault(w)
  PROVE  Typed'
<1> USE DEF Typed
<1>1. w \in Procs
  BY DEF Procs
<1>2. at[w] \in Runs
  BY <1>1 DEF WorkerFault, InfraCancel, RetryableError, GiveUpLease, Crash,
              AbortCleanup, AtCheck, AtDelete, ProcType, AtRun
<1>3. CASE InfraCancel(w)
  <2>1. RowType'
    BY <1>2, <1>3, ReleaseType, RowUnchanged DEF InfraCancel, CannotRelease
  <2>2. ProcType'
    BY <1>1, <1>2, <1>3, GotoType DEF InfraCancel, PCs, Modes
  <2>3. JobType' /\ RestType'
    BY <1>3, JobUnchanged, FaultType DEF InfraCancel, NoJobChange
  <2> QED
    BY <2>1, <2>2, <2>3
<1>4. CASE RetryableError(w)
  <2>1. JobType' /\ RestType'
    BY <1>4, JobUnchanged, FaultType DEF RetryableError, NoJobChange
  <2>2. CASE TryFinish(w, at[w], "failed")
    BY <1>2, <2>1, <2>2, TryFinishType DEF TerminalStatuses
  <2>3. CASE Release(w, at[w]) /\ Goto(w, "post", "retry")
    BY <1>1, <1>2, <2>1, <2>3, ReleaseType, GotoType DEF PCs, Modes
  <2>4. CASE CannotRelease(w, at[w]) /\ Goto(w, "settle", "quiet")
    BY <1>1, <1>2, <2>1, <2>4, RowUnchanged, GotoType
    DEF CannotRelease, PCs, Modes
  <2> QED
    BY <1>4, <2>2, <2>3, <2>4 DEF RetryableError
<1>5. CASE GiveUpLease(w)
  <2>1. JobType' /\ RestType'
    BY <1>5, JobUnchanged, FaultType DEF GiveUpLease, NoJobChange
  <2> QED
    BY <1>1, <1>2, <1>5, <2>1, RowUnchanged, GotoType
    DEF GiveUpLease, PCs, Modes
<1>6. CASE Crash(w)
  <2>1. JobType'
    BY <1>2, <1>6 DEF Crash, JobType
  <2> QED
    BY <1>1, <1>6, <2>1, RowUnchanged, LeaveType, FaultType DEF Crash
<1>7. CASE AbortCleanup(w)
  BY <1>1, <1>7, AbortCleanupType
<1> QED
  BY <1>3, <1>4, <1>5, <1>6, <1>7 DEF WorkerFault

\* What users, the queue, ARQ, time and the scan of expired leases do.
LEMMA RunActionType ==
  ASSUME Typed, NEW r \in Runs,
         \/ DispatchRun(r) \/ RequestCancel(r)
         \/ RecoverPending(r) \/ DropJob(r) \/ Redeliver(r)
         \/ Expire(r) \/ Reconcile(r)
  PROVE  Typed'
<1> USE DEF Typed
<1>1. CASE DispatchRun(r)
  BY <1>1, NewRowType DEF DispatchRun, Kinds
<1>2. CASE RequestCancel(r)
  <2>1. (IF Active(r) THEN CancelTarget(r) ELSE status[r]) \in Statuses
    BY DEF CancelTarget, RowType, Statuses, TerminalStatuses
  <2>2. status' \in [Runs -> Statuses]
    BY <1>2, <2>1, TreeClosedShape DEF RequestCancel
  <2>3. RowType'
    BY <1>2, <2>2 DEF RequestCancel, RowType
  <2>4. JobType' /\ ProcType'
    BY <1>2, JobUnchanged, ProcUnchanged DEF RequestCancel
  <2>5. RestType'
    BY <1>2 DEF RequestCancel, RestType, ActiveDescendants, Children
  <2> QED
    BY <2>3, <2>4, <2>5
<1>3. CASE RecoverPending(r)
  <2>1. JobType'
    BY <1>3 DEF RecoverPending, Enqueued, JobType
  <2> QED
    BY <1>3, <2>1, RowUnchanged, ProcUnchanged, RestUnchanged
    DEF RecoverPending
<1>4. CASE DropJob(r)
  BY <1>4, JobDoneType, RowUnchanged, ProcUnchanged, RestUnchanged
  DEF DropJob
<1>5. CASE Redeliver(r)
  BY <1>5, JobRetriedType, RowUnchanged, ProcUnchanged, FaultType
  DEF Redeliver
<1>6. CASE Expire(r)
  <2>1. RowType'
    BY <1>6 DEF Expire, RowType
  <2> QED
    BY <1>6, <2>1, JobUnchanged, ProcUnchanged, RestUnchanged DEF Expire
<1>7. CASE Reconcile(r)
  <2>1. TreeClosed(r, "failed") \in [Runs -> Statuses]
    BY TreeClosedShape DEF Statuses, TerminalStatuses
  <2>2. RowType'
    BY <1>7, <2>1 DEF Reconcile, RowType, Outcomes, TopLevel
  <2> QED
    BY <1>7, <2>2, JobUnchanged, ProcUnchanged, RestUnchanged DEF Reconcile
<1> QED
  BY <1>1, <1>2, <1>3, <1>4, <1>5, <1>6, <1>7

LEMMA StartJobType ==
  ASSUME Typed, NEW w \in Workers, NEW r \in Runs, StartJob(w, r)
  PROVE  Typed'
<1> USE DEF Typed
<1>1. JobType'
  BY LeaseAssumption DEF StartJob, TriesLeft, JobType, LeaseAssumption
<1>2. ProcType'
  BY LeaseAssumption
  DEF StartJob, TriesLeft, JobType, ProcType, AtRun, Procs, PCs, Modes,
      LeaseAssumption
<1> QED
  BY <1>1, <1>2, RowUnchanged, RestUnchanged DEF StartJob

LEMMA ListCleanupType ==
  ASSUME Typed, NEW c \in Reconcilers, NEW r \in Runs, ListCleanup(c, r)
  PROVE  Typed'
<1> USE DEF Typed
<1>1. ProcType'
  BY DEF ListCleanup, ProcType, AtRun, Procs, PCs, Modes
<1> QED
  BY <1>1, RowUnchanged, JobUnchanged, RestUnchanged DEF ListCleanup

LEMMA TypeNext == Typed /\ [Next]_vars => Typed'
<1> SUFFICES ASSUME Typed, [Next]_vars PROVE Typed'
  OBVIOUS
<1>1. ASSUME NEW r \in Runs,
             \/ DispatchRun(r) \/ RequestCancel(r)
             \/ RecoverPending(r) \/ DropJob(r) \/ Redeliver(r)
             \/ Expire(r) \/ Reconcile(r)
      PROVE  Typed'
  BY <1>1, RunActionType
<1>2. ASSUME NEW r \in Runs, NEW p \in Runs,
             CreateResume(r, p) \/ StartSubagent(r, p)
      PROVE  Typed'
  BY <1>2, NewRowType DEF CreateResume, StartSubagent, Kinds
<1>3. ASSUME NEW w \in Workers, WorkerStep(w)
      PROVE  Typed'
  BY <1>3, WorkerStepType
<1>4. ASSUME NEW w \in Workers, WriteOutput(w)
      PROVE  Typed'
  <2>1. RowType'
    BY <1>4 DEF WriteOutput, RowType, Typed
  <2> QED
    BY <1>4, <2>1, JobUnchanged, ProcUnchanged, RestUnchanged
    DEF WriteOutput, Typed
<1>5. ASSUME NEW w \in Workers, WorkerFault(w)
      PROVE  Typed'
  BY <1>5, WorkerFaultType
<1>6. ASSUME NEW w \in Workers, NEW r \in Runs, StartJob(w, r)
      PROVE  Typed'
  BY <1>6, StartJobType
<1>7. ASSUME NEW c \in Reconcilers, ReconcilerStep(c)
      PROVE  Typed'
  <2>1. c \in Procs
    BY DEF Procs
  <2>2. at[c] \in Runs
    BY <1>7, <2>1 DEF ReconcilerStep, CheckCleanup, FinishDelete, AtCheck,
                      AtDelete, Typed, ProcType, AtRun
  <2> QED
    BY <1>7, <2>1, <2>2, CheckCleanupType, FinishDeleteType
    DEF ReconcilerStep
<1>8. ASSUME NEW c \in Reconcilers, AbortCleanup(c)
      PROVE  Typed'
  BY <1>8, AbortCleanupType DEF Procs
<1>9. ASSUME NEW c \in Reconcilers, NEW r \in Runs, ListCleanup(c, r)
      PROVE  Typed'
  BY <1>9, ListCleanupType
<1>10. CASE UNCHANGED vars
  BY <1>10, RowUnchanged, JobUnchanged, ProcUnchanged, RestUnchanged
  DEF vars, Typed
<1> QED
  BY <1>1, <1>2, <1>3, <1>4, <1>5, <1>6, <1>7, <1>8, <1>9, <1>10 DEF Next

\* Type correctness of AgentRunLease: the rows, jobs and processes keep
\* their shapes under every operation of the API, the workers, ARQ and the
\* reconcilers.
THEOREM TypeCorrect == Spec => []TypeOK
<1>1. Init => Typed
  BY TypeInit
<1>2. Typed /\ [Next]_vars => Typed'
  BY TypeNext
<1>3. Typed => TypeOK
  BY TypeParts DEF Typed, TypeInv
<1> QED
  BY <1>1, <1>2, <1>3, PTL DEF Spec

-----------------------------------------------------------------------------
(* Leases, attempts and fences.  The invariant is a conjunction over the   *)
(* rows; what TLC checks about a row needs two facts more: that an owned   *)
(* run has started, and that an active run which has started and is not    *)
(* owned was released by its last attempt.                                 *)

RowOK(x) ==
  /\ status[x] = "running" => owner[x] # NoWorker
  /\ owner[x] # NoWorker => status[x] \in {"running", "cancel_requested"}
  /\ live[x] => owner[x] # NoWorker
  /\ open[x] = {owner[x]} \ {NoWorker}
  /\ cleanup[x] => owner[x] = NoWorker
  /\ status[x] \in {"completed", "interrupted"} => outcome[x] = status[x]
  /\ status[x] = "cancelled" /\ started[x] => outcome[x] = "cancelled"
  /\ status[x] = "failed" =>
       outcome[x] \in {"failed", "lease_expired", "retry_released"}
  /\ owner[x] # NoWorker => started[x]
  /\ status[x] = "absent" => ~started[x]
  /\ Active(x) /\ started[x] /\ owner[x] = NoWorker
       => outcome[x] = "retry_released"

RowsOK == \A x \in Runs : RowOK(x)

\* What a step may do to a row: keep it in shape, leave a terminal one
\* alone, and let one that was asked to stop end only as cancelled or as
\* failed.
StepOK(x) ==
  /\ RowOK(x)'
  /\ Terminal(x) => /\ status'[x] = status[x]
                    /\ outcome'[x] = outcome[x]
                    /\ owner'[x] = NoWorker
  /\ status[x] = "cancel_requested" =>
       status'[x] \in {"cancel_requested", "cancelled", "failed"}

\* No step but the creation of a row makes a run hold the scope.
NoNewHolder(x) == kind'[x] = kind[x] /\ (HoldsScope(x)' => HoldsScope(x))

\* The part of a row that the predicates above read.
SameRow(x) ==
  /\ owner'[x] = owner[x] /\ live'[x] = live[x] /\ open'[x] = open[x]
  /\ cleanup'[x] = cleanup[x] /\ outcome'[x] = outcome[x]
  /\ started'[x] = started[x] /\ kind'[x] = kind[x]

LEMMA SameRowStep ==
  ASSUME RowType, RowsOK, NEW x \in Runs, SameRow(x), status'[x] = status[x]
  PROVE  StepOK(x) /\ NoNewHolder(x)
  BY DEF RowsOK, RowOK, StepOK, NoNewHolder, SameRow, Terminal, HoldsScope,
         Active, TerminalStatuses

\* A run whose parent ends is told to stop, if it has not ended itself.
LEMMA ToldToStop ==
  ASSUME RowType, RowsOK, NEW x \in Runs, SameRow(x), Active(x),
         status'[x] = CancelTarget(x)
  PROVE  StepOK(x) /\ NoNewHolder(x)
  BY DEF RowsOK, RowOK, StepOK, NoNewHolder, SameRow, Terminal, HoldsScope,
         Active, TerminalStatuses, CancelTarget, NeverStarted

LEMMA OtherRuns ==
  ASSUME RowType, RowsOK, NEW r \in Runs, NEW s \in Statuses,
         status' = TreeClosed(r, s), NEW x \in Runs \ {r}, SameRow(x)
  PROVE  StepOK(x) /\ NoNewHolder(x)
  BY TreeClosedShape, SameRowStep, ToldToStop

LEMMA RowsUnchangedStep ==
  ASSUME RowType, RowsOK, UNCHANGED rowVars
  PROVE  \A x \in Runs : StepOK(x) /\ NoNewHolder(x)
  BY SameRowStep DEF rowVars, SameRow

\* The transactions that end, release, claim and reconcile a run.
LEMMA TerminateStep ==
  ASSUME RowType, RowsOK, NEW w \in Workers, NEW r \in Runs,
         NEW s \in TerminalStatuses, OwnsLease(w, r), MayEndAs(r, s),
         Terminate(w, r, s)
  PROVE  \A x \in Runs : StepOK(x) /\ NoNewHolder(x)
<1>1. s \in Statuses
  BY DEF Statuses
<1>2. ASSUME NEW x \in Runs \ {r}
      PROVE  StepOK(x) /\ NoNewHolder(x)
  <2>1. SameRow(x)
    BY DEF Terminate, AttemptEnds, SameRow, RowType
  <2> QED
    BY <1>1, <2>1, OtherRuns DEF Terminate
<1>3. /\ status'[r] = s /\ owner'[r] = NoWorker /\ live'[r] = FALSE
      /\ open'[r] = {} /\ outcome'[r] = s /\ started'[r] = started[r]
      /\ kind'[r] = kind[r]
  <2>1. status'[r] = s
    BY <1>1, TreeClosedShape DEF Terminate
  <2>2. open[r] = {w}
    BY LeaseAssumption DEF RowsOK, RowOK, OwnsLease, LeaseAssumption
  <2> QED
    BY <2>1, <2>2 DEF Terminate, AttemptEnds, RowType
<1>4. status[r] \in {"running", "cancel_requested"}
  BY DEF MayEndAs
<1>5. status[r] = "cancel_requested" => s = "cancelled"
  BY DEF MayEndAs
<1>6. RowOK(r)'
  BY <1>3 DEF RowOK, Active, TerminalStatuses
<1>7. StepOK(r) /\ NoNewHolder(r)
  BY <1>3, <1>4, <1>5, <1>6
  DEF StepOK, NoNewHolder, HoldsScope, Active, Terminal, TerminalStatuses
<1> QED
  BY <1>2, <1>7

LEMMA ReleaseStep ==
  ASSUME RowType, RowsOK, NEW w \in Workers, NEW r \in Runs, Release(w, r)
  PROVE  \A x \in Runs : StepOK(x) /\ NoNewHolder(x)
<1>1. "pending" \in Statuses
  BY DEF Statuses
<1>2. ASSUME NEW x \in Runs \ {r}
      PROVE  StepOK(x) /\ NoNewHolder(x)
  <2>1. SameRow(x)
    BY DEF Release, AttemptEnds, SameRow, RowType
  <2> QED
    BY <1>1, <2>1, OtherRuns DEF Release
<1>3. /\ status'[r] = "pending" /\ owner'[r] = NoWorker /\ live'[r] = FALSE
      /\ open'[r] = {} /\ outcome'[r] = "retry_released"
      /\ started'[r] = started[r] /\ kind'[r] = kind[r]
  <2>1. status'[r] = "pending"
    BY <1>1, TreeClosedShape DEF Release
  <2>2. open[r] = {w}
    BY LeaseAssumption DEF RowsOK, RowOK, Release, OwnsLease, LeaseAssumption
  <2> QED
    BY <2>1, <2>2 DEF Release, AttemptEnds, RowType
<1>4. status[r] = "running"
  BY DEF Release
<1>5. RowOK(r)'
  BY <1>3 DEF RowOK, Active
<1>6. StepOK(r) /\ NoNewHolder(r)
  BY <1>3, <1>4, <1>5
  DEF StepOK, NoNewHolder, HoldsScope, Active, Terminal, TerminalStatuses
<1> QED
  BY <1>2, <1>6

LEMMA ReconcileStep ==
  ASSUME RowType, RowsOK, NEW r \in Runs, Reconcile(r)
  PROVE  \A x \in Runs : StepOK(x) /\ NoNewHolder(x)
<1>1. "failed" \in Statuses
  BY DEF Statuses, TerminalStatuses
<1>2. ASSUME NEW x \in Runs \ {r}
      PROVE  StepOK(x) /\ NoNewHolder(x)
  <2>1. SameRow(x)
    BY DEF Reconcile, SameRow, RowType
  <2> QED
    BY <1>1, <2>1, OtherRuns DEF Reconcile
<1>3. status[r] \in {"running", "cancel_requested"}
  BY DEF Reconcile, Lost
<1>4. /\ status'[r] = "failed" /\ owner'[r] = NoWorker /\ live'[r] = FALSE
      /\ open'[r] = {} /\ started'[r] = started[r] /\ kind'[r] = kind[r]
      /\ outcome'[r] = IF open[r] = {} THEN outcome[r] ELSE "lease_expired"
  <2>1. status'[r] = "failed"
    BY <1>1, TreeClosedShape DEF Reconcile
  <2> QED
    BY <2>1 DEF Reconcile, RowType
<1>5. outcome'[r] \in {"lease_expired", "retry_released"}
  <2>1. CASE open[r] = {}
    <3>1. owner[r] = NoWorker
      BY <2>1 DEF RowsOK, RowOK
    <3>2. status[r] = "cancel_requested" /\ started[r]
      BY <3>1 DEF Reconcile, Lost, RowsOK, RowOK
    <3> QED
      BY <1>4, <2>1, <3>1, <3>2 DEF RowsOK, RowOK, Active
  <2>2. CASE open[r] # {}
    BY <1>4, <2>2
  <2> QED
    BY <2>1, <2>2
<1>6. RowOK(r)'
  BY <1>4, <1>5 DEF RowOK, Active
<1>7. StepOK(r) /\ NoNewHolder(r)
  BY <1>3, <1>4, <1>6
  DEF StepOK, NoNewHolder, HoldsScope, Active, Terminal, TerminalStatuses
<1> QED
  BY <1>2, <1>7

LEMMA ClaimStep ==
  ASSUME RowType, RowsOK, NEW w \in Workers, NEW r \in Runs, at[w] = r,
         Claim(w)
  PROVE  \A x \in Runs : StepOK(x) /\ NoNewHolder(x)
<1>1. CASE ~CanClaim(r)
  BY <1>1, RowsUnchangedStep DEF Claim
<1>2. CASE CanClaim(r)
  <2>1. /\ status' = [status EXCEPT ![r] = IF @ = "pending"
                                               THEN "running" ELSE @]
        /\ owner' = [owner EXCEPT ![r] = w]
        /\ live' = [live EXCEPT ![r] = TRUE]
        /\ started' = [started EXCEPT ![r] = TRUE]
        /\ outcome' = [outcome EXCEPT ![r] = IF open[r] = {} THEN @
                                                 ELSE "lease_expired"]
        /\ open' = [open EXCEPT ![r] = {w}]
        /\ UNCHANGED <<kind, creator, latest, cleanup, output>>
    BY <1>2 DEF Claim
  <2>2. ASSUME NEW x \in Runs \ {r}
        PROVE  StepOK(x) /\ NoNewHolder(x)
    <3>1. SameRow(x) /\ status'[x] = status[x]
      BY <2>1 DEF SameRow, RowType
    <3> QED
      BY <3>1, SameRowStep
  <2>3. /\ status'[r] \in {"running", "cancel_requested"}
        /\ status[r] = "cancel_requested"
             => status'[r] = "cancel_requested"
        /\ status[r] \in {"pending", "cancel_requested"}
        /\ owner'[r] = w /\ w # NoWorker
        /\ open'[r] = {w} /\ started'[r] = TRUE
        /\ cleanup'[r] = FALSE /\ kind'[r] = kind[r]
    BY <1>2, <2>1, LeaseAssumption DEF CanClaim, RowType, LeaseAssumption
  <2>4. RowOK(r)'
    BY <2>3 DEF RowOK, Active
  <2>5. StepOK(r) /\ NoNewHolder(r)
    BY <2>3, <2>4
    DEF StepOK, NoNewHolder, HoldsScope, Active, Terminal, TerminalStatuses
  <2> QED
    BY <2>2, <2>5
<1> QED
  BY <1>1, <1>2

LEMMA RequestCancelStep ==
  ASSUME RowType, RowsOK, NEW r \in Runs, RequestCancel(r)
  PROVE  \A x \in Runs : StepOK(x) /\ NoNewHolder(x)
<1> DEFINE s == IF Active(r) THEN CancelTarget(r) ELSE status[r]
<1>1. s \in Statuses
  BY DEF CancelTarget, RowType, Statuses, TerminalStatuses
<1>2. status' = TreeClosed(r, s)
  BY DEF RequestCancel
<1>3. /\ cleanup' = [cleanup EXCEPT ![r] = @ /\ ~NeverStarted(r)]
      /\ UNCHANGED <<kind, owner, live, started, open, outcome>>
  BY DEF RequestCancel
<1> HIDE DEF s
<1>4. ASSUME NEW x \in Runs \ {r}
      PROVE  StepOK(x) /\ NoNewHolder(x)
  <2>1. SameRow(x)
    BY <1>3 DEF SameRow, RowType
  <2> QED
    BY <1>1, <1>2, <2>1, OtherRuns
<1>5. status'[r] = s
  BY <1>1, <1>2, TreeClosedShape
<1>6. cleanup'[r] => cleanup[r]
  BY <1>3 DEF RowType
<1>7. s = IF Active(r) THEN CancelTarget(r) ELSE status[r]
  BY DEF s
<1>8. StepOK(r) /\ NoNewHolder(r)
  <2>1. CASE Active(r)
    BY <1>3, <1>5, <1>6, <1>7, <2>1
    DEF RowsOK, RowOK, StepOK, NoNewHolder, Terminal, HoldsScope, Active,
        TerminalStatuses, CancelTarget, NeverStarted
  <2>2. CASE ~Active(r)
    BY <1>3, <1>5, <1>6, <1>7, <2>2
    DEF RowsOK, RowOK, StepOK, NoNewHolder, Terminal, HoldsScope, Active,
        TerminalStatuses
  <2> QED
    BY <2>1, <2>2
<1> QED
  BY <1>4, <1>8

\* A terminal run that is reaped or settled keeps its own row.
LEMMA ReapStep ==
  ASSUME RowType, RowsOK, NEW r \in Runs, status' = TreeClosed(r, status[r]),
         UNCHANGED <<kind, owner, live, started, cleanup, open, outcome>>
  PROVE  \A x \in Runs : StepOK(x) /\ NoNewHolder(x)
<1>1. status[r] \in Statuses
  BY DEF RowType
<1>2. \A x \in Runs : SameRow(x)
  BY DEF SameRow
<1>3. status'[r] = status[r]
  BY <1>1, TreeClosedShape
<1> QED
  BY <1>1, <1>2, <1>3, SameRowStep, OtherRuns

\* Lifting a fence changes nothing else of the row.
LEMMA LiftFenceStep ==
  ASSUME RowType, RowsOK, NEW p \in Procs, NEW r \in Runs, LiftFence(p, r)
  PROVE  \A x \in Runs : StepOK(x) /\ NoNewHolder(x)
<1> TAKE x \in Runs
<1>1. /\ UNCHANGED <<status, kind, owner, live, started, open, outcome>>
      /\ cleanup'[x] => cleanup[x]
  BY DEF LiftFence, RowsButCleanup, RowType
<1> QED
  BY <1>1 DEF RowsOK, RowOK, StepOK, NoNewHolder, Terminal, HoldsScope, Active,
              TerminalStatuses

LEMMA ExpireStep ==
  ASSUME RowType, RowsOK, NEW r \in Runs, Expire(r)
  PROVE  \A x \in Runs : StepOK(x) /\ NoNewHolder(x)
<1> TAKE x \in Runs
<1>1. /\ UNCHANGED <<status, kind, owner, started, cleanup, open, outcome>>
      /\ live'[x] => live[x]
  BY DEF Expire, RowType
<1> QED
  BY <1>1 DEF RowsOK, RowOK, StepOK, NoNewHolder, Terminal, HoldsScope, Active,
              TerminalStatuses

LEMMA TryFinishStep ==
  ASSUME RowType, RowsOK, NEW w \in Workers, NEW r \in Runs,
         NEW s \in TerminalStatuses, TryFinish(w, r, s)
  PROVE  \A x \in Runs : StepOK(x) /\ NoNewHolder(x)
  BY TerminateStep, RowsUnchangedStep DEF TryFinish

\* A new row is in shape, and no other run comes to hold the scope.
LEMMA NewRowStep ==
  ASSUME RowType, RowsOK, NEW r \in Runs, NEW k \in Kinds, NEW p,
         NewRow(r, k, p)
  PROVE  /\ \A x \in Runs : StepOK(x)
         /\ \A x \in Runs \ {r} : NoNewHolder(x)
         /\ kind'[r] = k
<1>1. ASSUME NEW x \in Runs \ {r}
      PROVE  StepOK(x) /\ NoNewHolder(x)
  <2>1. SameRow(x) /\ status'[x] = status[x]
    BY DEF NewRow, SameRow, RowType
  <2> QED
    BY <2>1, SameRowStep
<1>2. /\ status[r] = "absent" /\ status'[r] = "pending" /\ kind'[r] = k
      /\ UNCHANGED <<owner, live, started, cleanup, open, outcome>>
  BY DEF NewRow, RowType
<1>3. StepOK(r)
  BY <1>2 DEF RowsOK, RowOK, StepOK, Terminal, Active, TerminalStatuses
<1> QED
  BY <1>1, <1>2, <1>3

\* What a process does to the rows, whichever of its steps it takes.
LEMMA CleanupStep ==
  ASSUME Typed, RowsOK, NEW p \in Procs,
         CheckCleanup(p) \/ FinishDelete(p) \/ AbortCleanup(p)
  PROVE  \A x \in Runs : StepOK(x) /\ NoNewHolder(x)
<1>1. at[p] \in Runs
  BY DEF CheckCleanup, FinishDelete, AbortCleanup, AtCheck, AtDelete, Typed,
         ProcType, AtRun
<1>2. UNCHANGED rowVars \/ LiftFence(p, at[p])
  BY DEF CheckCleanup, FinishDelete, AbortCleanup, CleanupFail
<1> QED
  BY <1>1, <1>2, RowsUnchangedStep, LiftFenceStep DEF Typed

LEMMA WorkerStepRows ==
  ASSUME Typed, RowsOK, NEW w \in Workers,
         WorkerStep(w) \/ WriteOutput(w) \/ WorkerFault(w)
  PROVE  \A x \in Runs : StepOK(x) /\ NoNewHolder(x)
<1>1. w \in Procs /\ RowType
  BY DEF Procs, Typed
<1>2. PICK r : r = at[w]
  OBVIOUS
<1>3. CASE WriteOutput(w)
  BY <1>1, <1>3, SameRowStep DEF WriteOutput, SameRow
<1>4. CASE CheckCleanup(w) \/ FinishDelete(w) \/ AbortCleanup(w)
  BY <1>1, <1>4, CleanupStep
<1>5. CASE LoseLease(w) \/ GiveUpLease(w) \/ Crash(w)
  BY <1>1, <1>5, RowsUnchangedStep DEF LoseLease, GiveUpLease, Crash
<1>6. ASSUME \/ Reap(w) \/ Claim(w) \/ Settle(w)
             \/ \E s \in {"completed", "interrupted"} : CommitOutput(w, s)
             \/ \E s \in {"completed", "failed", "interrupted"} :
                  FinishRun(w, s)
             \/ RejectInput(w) \/ UserCancelSeen(w)
             \/ InfraCancel(w) \/ RetryableError(w)
      PROVE  r \in Runs
  BY <1>1, <1>2, <1>6
  DEF Reap, Claim, Settle, CommitOutput, FinishRun, RejectInput,
      UserCancelSeen, InfraCancel, RetryableError, Typed, ProcType, AtRun
<1>7. CASE Reap(w)
  BY <1>1, <1>2, <1>6, <1>7, ReapStep DEF Reap
<1>8. CASE Claim(w)
  BY <1>1, <1>2, <1>6, <1>8, ClaimStep
<1>9. CASE Settle(w)
  <2>1. CASE Terminal(r)
    BY <1>1, <1>2, <1>6, <1>9, <2>1, ReapStep DEF Settle
  <2>2. CASE ~Terminal(r)
    BY <1>1, <1>2, <1>9, <2>2, SameRowStep DEF Settle, SameRow
  <2> QED
    BY <2>1, <2>2
<1>10. ASSUME NEW s \in {"completed", "interrupted"}, CommitOutput(w, s)
       PROVE  \A x \in Runs : StepOK(x) /\ NoNewHolder(x)
  <2>1. s \in TerminalStatuses /\ s # "cancelled"
    BY DEF TerminalStatuses
  <2>2. OwnsLease(w, r) /\ MayEndAs(r, s) /\ Terminate(w, r, s)
    BY <1>2, <1>10, <2>1 DEF CommitOutput, MayEndAs
  <2> QED
    BY <1>1, <1>6, <1>10, <2>1, <2>2, TerminateStep
<1>11. ASSUME NEW s \in {"completed", "failed", "interrupted"},
              FinishRun(w, s)
       PROVE  \A x \in Runs : StepOK(x) /\ NoNewHolder(x)
  BY <1>1, <1>2, <1>6, <1>11, TryFinishStep DEF FinishRun, TerminalStatuses
<1>12. CASE RejectInput(w)
  <2>1. "failed" \in TerminalStatuses
    BY DEF TerminalStatuses
  <2> QED
    BY <1>1, <1>2, <1>6, <1>12, <2>1, TerminateStep, RowsUnchangedStep
    DEF RejectInput
<1>13. CASE UserCancelSeen(w)
  <2>1. "cancelled" \in TerminalStatuses
    BY DEF TerminalStatuses
  <2>2. MayEndAs(r, "cancelled")
    BY <1>2, <1>13 DEF UserCancelSeen, MayEndAs
  <2> QED
    BY <1>1, <1>2, <1>6, <1>13, <2>1, <2>2, TerminateStep, RowsUnchangedStep
    DEF UserCancelSeen
<1>14. CASE InfraCancel(w)
  BY <1>1, <1>2, <1>6, <1>14, ReleaseStep, RowsUnchangedStep
  DEF InfraCancel, CannotRelease
<1>15. CASE RetryableError(w)
  <2>1. "failed" \in TerminalStatuses
    BY DEF TerminalStatuses
  <2>2. TryFinish(w, r, "failed") \/ Release(w, r) \/ UNCHANGED rowVars
    BY <1>2, <1>15 DEF RetryableError, CannotRelease
  <2> QED
    BY <1>1, <1>6, <1>15, <2>1, <2>2, TryFinishStep, ReleaseStep,
       RowsUnchangedStep
<1> QED
  BY <1>3, <1>4, <1>5, <1>7, <1>8, <1>9, <1>10, <1>11, <1>12, <1>13, <1>14,
     <1>15
  DEF WorkerStep, WorkerFault, ExecEnds

\* Some step creates a row; every other one leaves the scope to the runs
\* that hold it.
Creates ==
  \/ \E r \in Runs : DispatchRun(r)
  \/ \E r, p \in Runs : CreateResume(r, p) \/ StartSubagent(r, p)

LEMMA OtherStepRows ==
  ASSUME Typed, RowsOK, [Next]_vars
  PROVE  Creates \/ \A x \in Runs : StepOK(x) /\ NoNewHolder(x)
<1>1. RowType
  BY DEF Typed
<1>2. ASSUME NEW r \in Runs,
             \/ RequestCancel(r) \/ RecoverPending(r) \/ DropJob(r)
             \/ Redeliver(r) \/ Expire(r) \/ Reconcile(r)
      PROVE  \A x \in Runs : StepOK(x) /\ NoNewHolder(x)
  <2>1. CASE RequestCancel(r)
    BY <1>1, <2>1, RequestCancelStep
  <2>2. CASE RecoverPending(r) \/ DropJob(r) \/ Redeliver(r)
    BY <1>1, <2>2, RowsUnchangedStep DEF RecoverPending, DropJob, Redeliver
  <2>3. CASE Expire(r)
    BY <1>1, <2>3, ExpireStep
  <2>4. CASE Reconcile(r)
    BY <1>1, <2>4, ReconcileStep
  <2> QED
    BY <1>2, <2>1, <2>2, <2>3, <2>4
<1>3. ASSUME NEW w \in Workers,
             WorkerStep(w) \/ WriteOutput(w) \/ WorkerFault(w)
      PROVE  \A x \in Runs : StepOK(x) /\ NoNewHolder(x)
  BY <1>3, WorkerStepRows
<1>4. ASSUME NEW c \in Reconcilers, ReconcilerStep(c) \/ AbortCleanup(c)
      PROVE  \A x \in Runs : StepOK(x) /\ NoNewHolder(x)
  BY <1>4, CleanupStep DEF ReconcilerStep, Procs
<1>5. ASSUME NEW p \in Procs, NEW r \in Runs, StartJob(p, r) \/ ListCleanup(p, r)
      PROVE  \A x \in Runs : StepOK(x) /\ NoNewHolder(x)
  BY <1>1, <1>5, RowsUnchangedStep DEF StartJob, ListCleanup
<1>6. CASE UNCHANGED vars
  BY <1>1, <1>6, RowsUnchangedStep DEF vars
<1> QED
  BY <1>2, <1>3, <1>4, <1>5, <1>6 DEF Next, Creates, Procs

LEMMA CreateStepRows ==
  ASSUME Typed, RowsOK, Creates
  PROVE  /\ \A x \in Runs : StepOK(x)
         /\ OneThreadHolder => OneThreadHolder'
<1>1. PICK r \in Runs, k \in Kinds, p \in Runs \cup {NoRun} :
        NewRow(r, k, p) /\ (k = "subagent" \/ ThreadIdle)
  BY DEF Creates, DispatchRun, CreateResume, StartSubagent, Kinds
<1>2. /\ \A x \in Runs : StepOK(x)
      /\ \A x \in Runs \ {r} : NoNewHolder(x)
      /\ kind'[r] = k
  BY <1>1, NewRowStep DEF Typed
<1>3. ASSUME NEW x \in Runs \ {r}, HoldsThread(x)'
      PROVE  HoldsThread(x)
  BY <1>2, <1>3 DEF NoNewHolder, HoldsThread, TopLevel
<1>4. ASSUME k = "subagent"
      PROVE  ~HoldsThread(r)'
  BY <1>2, <1>4 DEF HoldsThread, TopLevel
<1> QED
  BY <1>1, <1>2, <1>3, <1>4 DEF OneThreadHolder, ThreadIdle

\* The invariant of the rows, and what every step does to each of them.
LEMMA RowsInit == Init => RowsOK
  BY DEF Init, RowsOK, RowOK, Active

LEMMA RowsNext ==
  ASSUME Typed, RowsOK, [Next]_vars
  PROVE  /\ \A x \in Runs : StepOK(x)
         /\ RowsOK'
         /\ OneThreadHolder => OneThreadHolder'
<1>1. CASE Creates
  BY <1>1, CreateStepRows DEF StepOK, RowsOK
<1>2. CASE \A x \in Runs : StepOK(x) /\ NoNewHolder(x)
  BY <1>2 DEF StepOK, RowsOK, NoNewHolder, OneThreadHolder, HoldsThread,
              TopLevel
<1> QED
  BY <1>1, <1>2, OtherStepRows

\* For any number of runs, workers and reconcilers, a row has an owner
\* exactly when it may, its attempts agree with its lease, its outcome with
\* its status, and no fenced run is owned.
THEOREM LeaseCorrect ==
  Spec => [](LeaseShape /\ AttemptLedger /\ OutcomeAgrees
               /\ FenceExcludesOwner)
<1>1. Init => Typed /\ RowsOK
  BY TypeInit, RowsInit
<1>2. Typed /\ RowsOK /\ [Next]_vars => (Typed /\ RowsOK)'
  BY TypeNext, RowsNext
<1>3. RowsOK => LeaseShape /\ AttemptLedger /\ OutcomeAgrees
                  /\ FenceExcludesOwner
  BY DEF RowsOK, RowOK, LeaseShape, AttemptLedger, OutcomeAgrees,
         FenceExcludesOwner
<1> QED
  BY <1>1, <1>2, <1>3, PTL DEF Spec

\* No step of anyone rewrites a terminal status, its outcome or its owner.
THEOREM TerminalStays == Spec => TerminalIsFinal
<1>1. Init => Typed /\ RowsOK
  BY TypeInit, RowsInit
<1>2. Typed /\ RowsOK /\ [Next]_vars => (Typed /\ RowsOK)'
  BY TypeNext, RowsNext
<1>3. Typed /\ RowsOK /\ [Next]_vars =>
        [\A r \in Runs : Terminal(r) => /\ status'[r] = status[r]
                                        /\ outcome'[r] = outcome[r]
                                        /\ owner'[r] = NoWorker]_vars
  BY RowsNext DEF StepOK
<1> QED
  BY <1>1, <1>2, <1>3, PTL DEF Spec, TerminalIsFinal

\* A run that was asked to stop neither completes nor runs again.
THEOREM CancelIsHonoured == Spec => CancelHonoured
<1>1. Init => Typed /\ RowsOK
  BY TypeInit, RowsInit
<1>2. Typed /\ RowsOK /\ [Next]_vars => (Typed /\ RowsOK)'
  BY TypeNext, RowsNext
<1>3. Typed /\ RowsOK /\ [Next]_vars =>
        [\A r \in Runs : status[r] = "cancel_requested" =>
           status'[r] \in {"cancel_requested", "cancelled", "failed"}]_vars
  BY RowsNext DEF StepOK
<1> QED
  BY <1>1, <1>2, <1>3, PTL DEF Spec, CancelHonoured

\* One run at a time has the conversation's thread.
THEOREM OneHolder == Spec => []OneThreadHolder
<1>1. Init => Typed /\ RowsOK /\ OneThreadHolder
  <2>1. Init => OneThreadHolder
    BY DEF Init, OneThreadHolder, HoldsThread, HoldsScope, Active
  <2> QED
    BY <2>1, TypeInit, RowsInit
<1>2. Typed /\ RowsOK /\ OneThreadHolder /\ [Next]_vars
        => (Typed /\ RowsOK /\ OneThreadHolder)'
  BY TypeNext, RowsNext
<1> QED
  BY <1>1, <1>2, PTL DEF Spec

-----------------------------------------------------------------------------
(* The runs of one scope together: subagents and those who created them,   *)
(* the fence and the end event, and the thread as the request queue sees   *)
(* it.                                                                     *)

(***************************************************************************)
(* Who created whom.  A resume run has an interrupted creator, so that     *)
(* what an active run has created are subagents, and these create nothing: *)
(* the two levels of ActiveDescendants reach everything.  A run with a     *)
(* fence, and one with subagents, has started: it is never cancelled       *)
(* without a fence.                                                        *)
(***************************************************************************)
TreeOK ==
  \A x \in Runs :
    /\ status[x] = "absent" => kind[x] = "chat"
    /\ kind[x] = "chat" => creator[x] = NoRun
    /\ kind[x] = "resume" =>
         creator[x] \in Runs /\ status[creator[x]] = "interrupted"
    /\ kind[x] = "subagent" =>
         /\ creator[x] \in Runs
         /\ TopLevel(creator[x]) /\ started[creator[x]]
    /\ cleanup[x] => TopLevel(x) /\ started[x]

-----------------------------------------------------------------------------
(* What a step does to the statuses and fences of the runs.                *)

\* A pending run, or one that was asked to stop, is claimed.
Claims(r) ==
  /\ ~cleanup[r]
  /\ status[r] \in {"pending", "cancel_requested"}
  /\ status' = [status EXCEPT ![r] = IF @ = "pending" THEN "running" ELSE @]
  /\ cleanup' = cleanup

\* An execution ends as s or is given back, behind a fence.
Closes(r, s) ==
  /\ started[r]
  /\ \/ status[r] = "running"
        /\ s \in {"completed", "failed", "interrupted", "pending"}
     \/ status[r] = "cancel_requested" /\ s \in {"cancelled", "failed"}
  /\ status' = TreeClosed(r, s)
  /\ cleanup' = [cleanup EXCEPT ![r] = TopLevel(r)]

\* A run, or only what it created, is told to stop.
Tells(r, s) ==
  /\ s = status[r] \/ (Active(r) /\ s = CancelTarget(r))
  /\ status' = TreeClosed(r, s)
  /\ cleanup' = cleanup

Lifts(r) ==
  /\ cleanup[r]
  /\ KeepRuntime \/ ~Busy(r)
  /\ status' = status
  /\ cleanup' = [cleanup EXCEPT ![r] = FALSE]

\* A step that creates no row.
RowStep ==
  /\ UNCHANGED <<kind, creator, latest>>
  /\ \A x \in Runs : started[x] => started'[x]
  /\ \/ UNCHANGED <<status, cleanup>>
     \/ \E r \in Runs : Claims(r) \/ Lifts(r)
     \/ \E r \in Runs, s \in Statuses : Closes(r, s) \/ Tells(r, s)

LEMMA TerminateShape ==
  ASSUME Typed, RowsOK, NEW w \in Workers, NEW r \in Runs,
         NEW s \in TerminalStatuses, OwnsLease(w, r), MayEndAs(r, s),
         Terminate(w, r, s)
  PROVE  RowStep
<1>1. started[r]
  BY LeaseAssumption DEF RowsOK, RowOK, OwnsLease, LeaseAssumption
<1>2. Closes(r, s)
  BY <1>1 DEF Closes, Terminate, MayEndAs, TerminalStatuses
<1>3. UNCHANGED <<kind, creator, latest, started>>
  BY DEF Terminate
<1> QED
  BY <1>2, <1>3 DEF RowStep, Statuses

LEMMA ReleaseShape ==
  ASSUME Typed, RowsOK, NEW w \in Workers, NEW r \in Runs, Release(w, r)
  PROVE  RowStep
<1>1. started[r]
  BY LeaseAssumption DEF RowsOK, RowOK, OwnsLease, Release, LeaseAssumption
<1>2. Closes(r, "pending")
  BY <1>1 DEF Closes, Release
<1>3. UNCHANGED <<kind, creator, latest, started>>
  BY DEF Release
<1> QED
  BY <1>2, <1>3 DEF RowStep, Statuses

LEMMA SameShape ==
  ASSUME UNCHANGED <<status, kind, creator, latest, started, cleanup>>
  PROVE  RowStep
  BY DEF RowStep

LEMMA TryFinishShape ==
  ASSUME Typed, RowsOK, NEW w \in Workers, NEW r \in Runs,
         NEW s \in TerminalStatuses, TryFinish(w, r, s)
  PROVE  RowStep
  BY TerminateShape, SameShape DEF TryFinish, rowVars

LEMMA CleanupShape ==
  ASSUME Typed, NEW p \in Procs,
         CheckCleanup(p) \/ FinishDelete(p) \/ AbortCleanup(p)
  PROVE  RowStep
<1>1. at[p] \in Runs
  BY DEF CheckCleanup, FinishDelete, AbortCleanup, AtCheck, AtDelete, Typed,
         ProcType, AtRun
<1>2. CASE UNCHANGED rowVars
  BY <1>2, SameShape DEF rowVars
<1>3. CASE ~UNCHANGED rowVars
  <2>1. /\ LiftFence(p, at[p]) /\ cleanup[at[p]]
        /\ KeepRuntime \/ ~Busy(at[p])
    BY <1>3 DEF CheckCleanup, FinishDelete, AbortCleanup, CleanupFail
  <2>2. Lifts(at[p]) /\ UNCHANGED <<kind, creator, latest, started>>
    BY <2>1 DEF LiftFence, RowsButCleanup, Lifts
  <2> QED
    BY <1>1, <2>2 DEF RowStep
<1> QED
  BY <1>2, <1>3

LEMMA WorkerShape ==
  ASSUME Typed, RowsOK, NEW w \in Workers,
         WorkerStep(w) \/ WriteOutput(w) \/ WorkerFault(w)
  PROVE  RowStep
<1>1. w \in Procs /\ RowType
  BY DEF Procs, Typed
<1>2. PICK r : r = at[w]
  OBVIOUS
<1>3. CASE WriteOutput(w)
  BY <1>3, SameShape DEF WriteOutput
<1>4. CASE CheckCleanup(w) \/ FinishDelete(w) \/ AbortCleanup(w)
  BY <1>1, <1>4, CleanupShape
<1>5. CASE LoseLease(w) \/ GiveUpLease(w) \/ Crash(w)
  BY <1>5, SameShape DEF LoseLease, GiveUpLease, Crash, rowVars
<1>6. ASSUME \/ Reap(w) \/ Claim(w) \/ Settle(w)
             \/ \E s \in {"completed", "interrupted"} : CommitOutput(w, s)
             \/ \E s \in {"completed", "failed", "interrupted"} :
                  FinishRun(w, s)
             \/ RejectInput(w) \/ UserCancelSeen(w)
             \/ InfraCancel(w) \/ RetryableError(w)
      PROVE  r \in Runs
  BY <1>1, <1>2, <1>6
  DEF Reap, Claim, Settle, CommitOutput, FinishRun, RejectInput,
      UserCancelSeen, InfraCancel, RetryableError, Typed, ProcType, AtRun
<1>7. ASSUME r \in Runs, status' = TreeClosed(r, status[r]),
             UNCHANGED <<kind, creator, latest, started, cleanup>>
      PROVE  RowStep
  <2>1. Tells(r, status[r]) /\ status[r] \in Statuses
    BY <1>1, <1>7 DEF Tells, RowType
  <2> QED
    BY <1>7, <2>1 DEF RowStep
<1>8. CASE Reap(w)
  BY <1>2, <1>6, <1>7, <1>8 DEF Reap
<1>9. CASE Settle(w)
  <2>1. CASE Terminal(r)
    BY <1>2, <1>6, <1>7, <1>9, <2>1 DEF Settle
  <2>2. CASE ~Terminal(r)
    BY <1>2, <1>9, <2>2, SameShape DEF Settle
  <2> QED
    BY <2>1, <2>2
<1>10. CASE Claim(w)
  <2>1. CASE CanClaim(r)
    <3>1. Claims(r) /\ UNCHANGED <<kind, creator, latest>>
      BY <1>2, <1>10, <2>1 DEF Claim, Claims, CanClaim
    <3>2. started' = [started EXCEPT ![r] = TRUE]
      BY <1>2, <1>10, <2>1 DEF Claim
    <3> QED
      BY <1>1, <1>6, <1>10, <3>1, <3>2 DEF RowStep, RowType
  <2>2. CASE ~CanClaim(r)
    BY <1>2, <1>10, <2>2, SameShape DEF Claim, rowVars
  <2> QED
    BY <2>1, <2>2
<1>11. ASSUME NEW s \in {"completed", "interrupted"}, CommitOutput(w, s)
       PROVE  RowStep
  <2>1. s \in TerminalStatuses /\ s # "cancelled"
    BY DEF TerminalStatuses
  <2>2. OwnsLease(w, r) /\ MayEndAs(r, s) /\ Terminate(w, r, s)
    BY <1>2, <1>11, <2>1 DEF CommitOutput, MayEndAs
  <2> QED
    BY <1>6, <1>11, <2>1, <2>2, TerminateShape
<1>12. ASSUME NEW s \in {"completed", "failed", "interrupted"},
              FinishRun(w, s)
       PROVE  RowStep
  BY <1>2, <1>6, <1>12, TryFinishShape DEF FinishRun, TerminalStatuses
<1>13. CASE RejectInput(w)
  <2>1. "failed" \in TerminalStatuses
    BY DEF TerminalStatuses
  <2>2. \/ OwnsLease(w, r) /\ MayEndAs(r, "failed") /\ Terminate(w, r, "failed")
        \/ UNCHANGED rowVars
    BY <1>2, <1>13 DEF RejectInput
  <2> QED
    BY <1>6, <1>13, <2>1, <2>2, TerminateShape, SameShape DEF rowVars
<1>14. CASE UserCancelSeen(w)
  <2>1. "cancelled" \in TerminalStatuses
    BY DEF TerminalStatuses
  <2>2. \/ /\ OwnsLease(w, r) /\ MayEndAs(r, "cancelled")
           /\ Terminate(w, r, "cancelled")
        \/ UNCHANGED rowVars
    BY <1>2, <1>14 DEF UserCancelSeen, MayEndAs
  <2> QED
    BY <1>6, <1>14, <2>1, <2>2, TerminateShape, SameShape DEF rowVars
<1>15. CASE InfraCancel(w)
  BY <1>2, <1>6, <1>15, ReleaseShape, SameShape
  DEF InfraCancel, CannotRelease, rowVars
<1>16. CASE RetryableError(w)
  <2>1. "failed" \in TerminalStatuses
    BY DEF TerminalStatuses
  <2>2. TryFinish(w, r, "failed") \/ Release(w, r) \/ UNCHANGED rowVars
    BY <1>2, <1>16 DEF RetryableError, CannotRelease
  <2> QED
    BY <1>6, <1>16, <2>1, <2>2, TryFinishShape, ReleaseShape, SameShape
    DEF rowVars
<1> QED
  BY <1>3, <1>4, <1>5, <1>8, <1>9, <1>10, <1>11, <1>12, <1>13, <1>14, <1>15,
     <1>16
  DEF WorkerStep, WorkerFault, ExecEnds

\* Every step creates a row or has one of the shapes.
LEMMA RowStepShape ==
  ASSUME Typed, RowsOK, TreeOK, [Next]_vars
  PROVE  Creates \/ RowStep
<1>1. ASSUME NEW r \in Runs, RequestCancel(r)
      PROVE  RowStep
  <2> DEFINE s == IF Active(r) THEN CancelTarget(r) ELSE status[r]
  <2>1. s \in Statuses
    BY DEF CancelTarget, Typed, RowType, Statuses, TerminalStatuses
  <2>2. cleanup[r] => ~NeverStarted(r)
    BY DEF TreeOK, NeverStarted
  <2>3. cleanup' = cleanup
    BY <1>1, <2>2 DEF RequestCancel, Typed, RowType
  <2>4. Tells(r, s)
    BY <1>1, <2>3 DEF RequestCancel, Tells
  <2>5. UNCHANGED <<kind, creator, latest, started>>
    BY <1>1 DEF RequestCancel
  <2> HIDE DEF s
  <2> QED
    BY <2>1, <2>4, <2>5 DEF RowStep
<1>2. ASSUME NEW r \in Runs, Reconcile(r)
      PROVE  RowStep
  <2>1. started[r] /\ status[r] \in {"running", "cancel_requested"}
    BY <1>2 DEF Reconcile, Lost, RowsOK, RowOK
  <2>2. Closes(r, "failed") /\ UNCHANGED <<kind, creator, latest, started>>
    BY <1>2, <2>1 DEF Reconcile, Closes
  <2> QED
    BY <2>2 DEF RowStep, Statuses, TerminalStatuses
<1>3. ASSUME NEW r \in Runs,
             RecoverPending(r) \/ DropJob(r) \/ Redeliver(r) \/ Expire(r)
      PROVE  RowStep
  BY <1>3, SameShape DEF RecoverPending, DropJob, Redeliver, Expire, rowVars
<1>4. ASSUME NEW w \in Workers,
             WorkerStep(w) \/ WriteOutput(w) \/ WorkerFault(w)
      PROVE  RowStep
  BY <1>4, WorkerShape
<1>5. ASSUME NEW c \in Reconcilers, ReconcilerStep(c) \/ AbortCleanup(c)
      PROVE  RowStep
  BY <1>5, CleanupShape DEF ReconcilerStep, Procs
<1>6. ASSUME NEW p \in Procs, NEW r \in Runs, StartJob(p, r) \/ ListCleanup(p, r)
      PROVE  RowStep
  BY <1>6, SameShape DEF StartJob, ListCleanup, rowVars
<1>7. CASE UNCHANGED vars
  BY <1>7, SameShape DEF vars, rowVars
<1> QED
  BY <1>1, <1>2, <1>3, <1>4, <1>5, <1>6, <1>7 DEF Next, Creates, Procs

-----------------------------------------------------------------------------
(* The tree of runs.                                                       *)

\* A status other than that of r changes only where the cascade reaches.
LEMMA Reached ==
  ASSUME Typed, NEW r \in Runs, NEW s \in Statuses,
         status' = TreeClosed(r, s), NEW x \in Runs \ {r}
  PROVE  IF x \in ActiveDescendants(r)
           THEN Active(x) /\ status'[x] = CancelTarget(x)
           ELSE status'[x] = status[x]
  BY DEF TreeClosed, ActiveDescendants, Children

\* A terminal status stays, and no run but a new one becomes active.
LEMMA NoRevival ==
  ASSUME Typed, RowsOK, RowStep, NEW x \in Runs
  PROVE  /\ Terminal(x) => status'[x] = status[x]
         /\ status'[x] = "absent" <=> status[x] = "absent"
         /\ Active(x)' => Active(x)
         /\ status'[x] \in {"pending", "running"}
              => status[x] \in {"pending", "running"}
<1> USE DEF Terminal, TerminalStatuses, Active
<1>1. ASSUME NEW r \in Runs, Claims(r) \/ Lifts(r)
      PROVE  /\ Terminal(x) => status'[x] = status[x]
             /\ status'[x] = "absent" <=> status[x] = "absent"
             /\ Active(x)' => Active(x)
             /\ status'[x] \in {"pending", "running"}
                  => status[x] \in {"pending", "running"}
  BY <1>1 DEF Claims, Lifts, Typed, RowType
<1>2. ASSUME NEW r \in Runs, NEW s \in Statuses, Closes(r, s) \/ Tells(r, s)
      PROVE  /\ Terminal(x) => status'[x] = status[x]
             /\ status'[x] = "absent" <=> status[x] = "absent"
             /\ Active(x)' => Active(x)
             /\ status'[x] \in {"pending", "running"}
                  => status[x] \in {"pending", "running"}
  <2>1. status' = TreeClosed(r, s)
    BY <1>2 DEF Closes, Tells
  <2>2. status'[r] = s
    BY <2>1, TreeClosedShape DEF Typed
  <2>3. CASE x = r
    BY <1>2, <2>2, <2>3 DEF Closes, Tells, CancelTarget
  <2>4. CASE x # r
    BY <2>1, <2>4, Reached DEF CancelTarget
  <2> QED
    BY <2>3, <2>4
<1>3. CASE UNCHANGED <<status, cleanup>>
  BY <1>3
<1> QED
  BY <1>1, <1>2, <1>3 DEF RowStep

\* No fence is put up but by the end of an execution that had started.
LEMMA FenceOfStarted ==
  ASSUME Typed, TreeOK, RowStep, NEW x \in Runs, cleanup'[x]
  PROVE  TopLevel(x) /\ started[x]
<1>1. CASE cleanup[x]
  BY <1>1 DEF TreeOK
<1>2. CASE ~cleanup[x]
  <2>1. PICK r \in Runs, s \in Statuses : Closes(r, s)
    BY <1>2 DEF RowStep, Claims, Lifts, Tells, Typed, RowType
  <2> QED
    BY <1>2, <2>1 DEF Closes, Typed, RowType
<1> QED
  BY <1>1, <1>2

LEMMA TreeKept ==
  ASSUME Typed, RowsOK, TreeOK, RowStep
  PROVE  TreeOK'
<1> SUFFICES ASSUME NEW x \in Runs
             PROVE  /\ status'[x] = "absent" => kind'[x] = "chat"
                    /\ kind'[x] = "chat" => creator'[x] = NoRun
                    /\ kind'[x] = "resume" =>
                         /\ creator'[x] \in Runs
                         /\ status'[creator'[x]] = "interrupted"
                    /\ kind'[x] = "subagent" =>
                         /\ creator'[x] \in Runs
                         /\ kind'[creator'[x]] # "subagent"
                         /\ started'[creator'[x]]
                    /\ cleanup'[x] => kind'[x] # "subagent" /\ started'[x]
  BY DEF TreeOK, TopLevel
<1>1. UNCHANGED <<kind, creator>> /\ \A y \in Runs : started[y] => started'[y]
  BY DEF RowStep
<1>2. status'[x] = "absent" => kind'[x] = "chat"
  BY <1>1, NoRevival DEF TreeOK
<1>3. kind'[x] = "resume" =>
        creator'[x] \in Runs /\ status'[creator'[x]] = "interrupted"
  BY <1>1, NoRevival DEF TreeOK, Terminal, TerminalStatuses
<1>4. kind'[x] = "subagent" =>
        /\ creator'[x] \in Runs
        /\ kind'[creator'[x]] # "subagent"
        /\ started'[creator'[x]]
  BY <1>1 DEF TreeOK, TopLevel
<1>5. cleanup'[x] => kind'[x] # "subagent" /\ started'[x]
  BY <1>1, FenceOfStarted DEF TopLevel
<1> QED
  BY <1>1, <1>2, <1>3, <1>4, <1>5 DEF TreeOK

\* The newest run is one of the thread's own.
LatestOK ==
  latest # NoRun => TopLevel(latest) /\ status[latest] # "absent"

\* The new row of a chat, of a resume run or of a subagent.
LEMMA CreatesShape ==
  ASSUME Typed, RowsOK, Creates
  PROVE  \E r \in Runs, k \in Kinds, p \in Runs \cup {NoRun} :
           /\ NewRow(r, k, p)
           /\ \/ k = "chat" /\ p = NoRun /\ ThreadIdle
                 /\ (latest # NoRun => status[latest] # "interrupted")
              \/ k = "resume" /\ p = latest /\ ThreadIdle
                 /\ p \in Runs /\ status[p] = "interrupted"
              \/ k = "subagent" /\ p \in Runs /\ TopLevel(p)
                 /\ status[p] = "running"
<1>1. CASE \E r \in Runs : DispatchRun(r)
  BY <1>1 DEF DispatchRun, Kinds
<1>2. CASE \E r, p \in Runs : CreateResume(r, p)
  BY <1>2 DEF CreateResume, Kinds
<1>3. CASE \E r, p \in Runs : StartSubagent(r, p)
  BY <1>3 DEF StartSubagent, Kinds
<1> QED
  BY <1>1, <1>2, <1>3 DEF Creates

LEMMA TreeCreates ==
  ASSUME Typed, RowsOK, TreeOK, Creates
  PROVE  TreeOK'
<1>1. PICK r \in Runs, k \in Kinds, p \in Runs \cup {NoRun} :
           /\ NewRow(r, k, p)
           /\ \/ k = "chat" /\ p = NoRun
              \/ k = "resume" /\ p \in Runs /\ status[p] = "interrupted"
              \/ k = "subagent" /\ p \in Runs /\ TopLevel(p)
                 /\ status[p] = "running"
  BY CreatesShape
<1>2. /\ status[r] = "absent" /\ status' = [status EXCEPT ![r] = "pending"]
      /\ kind' = [kind EXCEPT ![r] = k] /\ creator' = [creator EXCEPT ![r] = p]
      /\ UNCHANGED <<started, cleanup>>
  BY <1>1 DEF NewRow
<1>3. ~started[r] /\ ~cleanup[r]
  BY <1>2 DEF RowsOK, RowOK, TreeOK
<1>4. k = "subagent" => p # r /\ started[p]
  BY <1>1, <1>2 DEF RowsOK, RowOK
<1>5. k = "resume" => p # r
  BY <1>1, <1>2
<1> SUFFICES ASSUME NEW x \in Runs
             PROVE  /\ status'[x] = "absent" => kind'[x] = "chat"
                    /\ kind'[x] = "chat" => creator'[x] = NoRun
                    /\ kind'[x] = "resume" =>
                         /\ creator'[x] \in Runs
                         /\ status'[creator'[x]] = "interrupted"
                    /\ kind'[x] = "subagent" =>
                         /\ creator'[x] \in Runs
                         /\ kind'[creator'[x]] # "subagent"
                         /\ started'[creator'[x]]
                    /\ cleanup'[x] => kind'[x] # "subagent" /\ started'[x]
  BY DEF TreeOK, TopLevel
<1>6. CASE x = r
  BY <1>1, <1>2, <1>3, <1>4, <1>5, <1>6 DEF Typed, RowType, TopLevel
<1>7. CASE x # r
  <2>1. kind[x] = "subagent" => creator[x] # r
    BY <1>3 DEF TreeOK
  <2>2. kind[x] = "resume" => creator[x] # r
    BY <1>2 DEF TreeOK
  <2> QED
    BY <1>2, <1>7, <2>1, <2>2 DEF TreeOK, TopLevel, Typed, RowType
<1> QED
  BY <1>6, <1>7

LEMMA LatestKept ==
  ASSUME Typed, RowsOK, LatestOK, Creates \/ RowStep
  PROVE  LatestOK'
<1>1. CASE RowStep
  <2>1. latest' = latest /\ kind' = kind
    BY <1>1 DEF RowStep
  <2>2. latest # NoRun => status'[latest] # "absent"
    BY <1>1, NoRevival DEF LatestOK, Typed, RowType
  <2> QED
    BY <2>1, <2>2 DEF LatestOK, TopLevel
<1>2. CASE Creates
  <2>1. PICK r \in Runs, k \in Kinds, p \in Runs \cup {NoRun} : NewRow(r, k, p)
    BY <1>2, CreatesShape
  <2> QED
    BY <2>1 DEF NewRow, LatestOK, TopLevel, Typed, RowType
<1> QED
  BY <1>1, <1>2

-----------------------------------------------------------------------------
(* Subagents.                                                              *)

\* When a run with subagents stops running, they are told to stop.
LEMMA OrphansToldToStop ==
  ASSUME Typed, RowsOK, TreeOK, NoOrphanSubagent,
         NEW r \in Runs, NEW s \in Statuses, Closes(r, s) \/ Tells(r, s),
         UNCHANGED <<kind, creator>>,
         NEW c \in Runs, kind[c] = "subagent",
         status'[c] \in {"pending", "running"},
         status[c] \in {"pending", "running"}
  PROVE  status'[creator[c]] = "running"
<1> DEFINE p == creator[c]
<1>1. /\ p \in Runs /\ TopLevel(p) /\ status[p] = "running" /\ p # c
  BY DEF TreeOK, NoOrphanSubagent, TopLevel
<1>2. status' = TreeClosed(r, s)
  BY DEF Closes, Tells
<1>3. Active(c)
  BY DEF Active
<1>4. CASE c = r
  <2>1. ActiveDescendants(r) = {}
    BY <1>4 DEF ActiveDescendants, TopLevel
  <2> QED
    BY <1>1, <1>2, <1>4, <2>1, Reached
<1>5. CASE c # r
  <2>1. c \notin ActiveDescendants(r)
    BY <1>2, <1>5, Reached DEF CancelTarget
  <2>2. p # r
    BY <1>1, <1>3, <2>1 DEF ActiveDescendants, Children
  <2>3. CASE ~TopLevel(r)
    BY <1>1, <1>2, <2>2, <2>3, Reached DEF ActiveDescendants
  <2>4. CASE TopLevel(r)
    <3>1. p \notin Children({r})
      BY <1>1, <1>3, <2>1, <2>4 DEF ActiveDescendants, Children
    <3>2. p \notin Children(Children({r}))
      <4>1. SUFFICES ASSUME p \in Children(Children({r})) PROVE FALSE
        OBVIOUS
      <4>2. creator[p] \in Runs /\ Active(creator[p])
        BY <4>1 DEF Children
      <4>3. kind[p] \in {"chat", "resume"}
        BY <1>1 DEF Typed, RowType, Kinds, TopLevel
      <4>4. kind[p] = "resume"
        BY <1>1, <4>2, <4>3, LeaseAssumption DEF TreeOK, LeaseAssumption
      <4> QED
        BY <1>1, <4>2, <4>4 DEF TreeOK, Active
    <3>3. p \notin ActiveDescendants(r)
      BY <2>4, <3>1, <3>2 DEF ActiveDescendants
    <3> QED
      BY <1>1, <1>2, <2>2, <3>3, Reached
  <2> QED
    BY <2>3, <2>4
<1> QED
  BY <1>4, <1>5

LEMMA NoOrphanKept ==
  ASSUME Typed, RowsOK, TreeOK, NoOrphanSubagent, Creates \/ RowStep
  PROVE  NoOrphanSubagent'
<1>1. CASE RowStep
  <2>1. SUFFICES ASSUME NEW c \in Runs, kind[c] = "subagent",
                        status'[c] \in {"pending", "running"}
                 PROVE  status'[creator[c]] = "running"
    BY <1>1 DEF RowStep, NoOrphanSubagent
  <2>2. status[c] \in {"pending", "running"}
    BY <1>1, <2>1, NoRevival
  <2>3. creator[c] \in Runs /\ status[creator[c]] = "running"
    BY <2>1, <2>2 DEF TreeOK, NoOrphanSubagent
  <2>4. ASSUME NEW r \in Runs, Claims(r) \/ Lifts(r)
        PROVE  status'[creator[c]] = "running"
    BY <2>3, <2>4 DEF Claims, Lifts, Typed, RowType
  <2>5. ASSUME NEW r \in Runs, NEW s \in Statuses, Closes(r, s) \/ Tells(r, s)
        PROVE  status'[creator[c]] = "running"
    BY <1>1, <2>1, <2>2, <2>5, OrphansToldToStop DEF RowStep
  <2> QED
    BY <1>1, <2>3, <2>4, <2>5 DEF RowStep
<1>2. CASE Creates
  <2>1. PICK r \in Runs, k \in Kinds, p \in Runs \cup {NoRun} :
           /\ NewRow(r, k, p)
           /\ k = "subagent" => p \in Runs /\ status[p] = "running"
    BY <1>2, CreatesShape
  <2>2. /\ status[r] = "absent" /\ status' = [status EXCEPT ![r] = "pending"]
        /\ kind' = [kind EXCEPT ![r] = k] /\ creator' = [creator EXCEPT ![r] = p]
    BY <2>1 DEF NewRow
  <2> SUFFICES ASSUME NEW c \in Runs, kind'[c] = "subagent",
                      status'[c] \in {"pending", "running"}
               PROVE  status'[creator'[c]] = "running"
    BY DEF NoOrphanSubagent
  <2>3. CASE c = r
    BY <2>1, <2>2, <2>3 DEF Typed, RowType
  <2>4. CASE c # r
    <3>1. creator[c] \in Runs /\ status[creator[c]] = "running"
      BY <2>2, <2>4 DEF Typed, RowType, TreeOK, NoOrphanSubagent
    <3> QED
      BY <2>2, <2>4, <3>1 DEF Typed, RowType
  <2> QED
    BY <2>3, <2>4
<1> QED
  BY <1>1, <1>2

LEMMA QuietKept ==
  ASSUME Typed, RowsOK, TreeOK, QuietBehindFence, Creates \/ RowStep
  PROVE  QuietBehindFence'
<1>1. CASE RowStep
  <2>1. SUFFICES ASSUME NEW c \in Runs, kind[c] = "subagent", Active(c)',
                        status'[creator[c]] \in TerminalStatuses, ~KeepRuntime
                 PROVE  cleanup'[creator[c]]
    BY <1>1 DEF RowStep, QuietBehindFence, Terminal
  <2>2. PICK p : p = creator[c]
    OBVIOUS
  <2>3. /\ p \in Runs /\ TopLevel(p) /\ started[p] /\ p # c
        /\ Active(c) /\ status'[p] \in TerminalStatuses
    BY <1>1, <2>1, <2>2, NoRevival DEF TreeOK, TopLevel, Terminal
  <2>4. ASSUME Terminal(p)
        PROVE  cleanup[p]
    BY <2>1, <2>2, <2>3, <2>4 DEF QuietBehindFence
  <2>5. ASSUME NEW r \in Runs, Claims(r)
        PROVE  cleanup'[p]
    BY <2>3, <2>4, <2>5 DEF Claims, Terminal, TerminalStatuses, Typed, RowType
  <2>6. ASSUME NEW r \in Runs, Lifts(r)
        PROVE  cleanup'[p]
    <3>1. p # r
      BY <2>1, <2>3, <2>6 DEF Lifts, Busy
    <3> QED
      BY <2>3, <2>4, <2>6, <3>1 DEF Lifts, Terminal, Typed, RowType
  <2>7. ASSUME NEW r \in Runs, NEW s \in Statuses, Closes(r, s)
        PROVE  cleanup'[p]
    <3>1. CASE p = r
      BY <2>3, <2>7, <3>1 DEF Closes, Typed, RowType
    <3>2. CASE p # r
      <4>1. Terminal(p)
        BY <2>3, <2>7, <3>2, Reached
        DEF Closes, CancelTarget, NeverStarted, Terminal, TerminalStatuses
      <4> QED
        BY <2>3, <2>4, <2>7, <3>2, <4>1 DEF Closes, Typed, RowType
    <3> QED
      BY <3>1, <3>2
  <2>8. ASSUME NEW r \in Runs, NEW s \in Statuses, Tells(r, s)
        PROVE  cleanup'[p]
    <3>1. Terminal(p)
      <4>1. CASE p = r
        <5>1. status'[r] = s
          BY <2>8, TreeClosedShape DEF Tells, Typed
        <5> QED
          BY <2>3, <2>8, <4>1, <5>1
          DEF Tells, CancelTarget, NeverStarted, Terminal, TerminalStatuses
      <4>2. CASE p # r
        BY <2>3, <2>8, <4>2, Reached
        DEF Tells, CancelTarget, NeverStarted, Terminal, TerminalStatuses
      <4> QED
        BY <4>1, <4>2
    <3> QED
      BY <2>4, <2>8, <3>1 DEF Tells
  <2>9. CASE UNCHANGED <<status, cleanup>>
    BY <2>2, <2>3, <2>4, <2>9 DEF Terminal
  <2> QED
    BY <1>1, <2>2, <2>5, <2>6, <2>7, <2>8, <2>9 DEF RowStep
<1>2. CASE Creates
  <2>1. PICK r \in Runs, k \in Kinds, p \in Runs \cup {NoRun} :
           /\ NewRow(r, k, p)
           /\ k = "subagent" => p \in Runs /\ status[p] = "running"
    BY <1>2, CreatesShape
  <2>2. /\ status[r] = "absent" /\ status' = [status EXCEPT ![r] = "pending"]
        /\ kind' = [kind EXCEPT ![r] = k] /\ creator' = [creator EXCEPT ![r] = p]
        /\ cleanup' = cleanup
    BY <2>1 DEF NewRow
  <2> SUFFICES ASSUME NEW c \in Runs, kind'[c] = "subagent", Active(c)',
                      status'[creator'[c]] \in TerminalStatuses, ~KeepRuntime
               PROVE  cleanup'[creator'[c]]
    BY DEF QuietBehindFence, Terminal
  <2>3. CASE c = r
    BY <2>1, <2>2, <2>3 DEF Typed, RowType, Terminal, TerminalStatuses
  <2>4. CASE c # r
    <3>1. creator'[c] = creator[c] /\ kind[c] = "subagent" /\ Active(c)
      BY <2>2, <2>4 DEF Typed, RowType, Active
    <3>2. creator[c] \in Runs /\ Terminal(creator[c])
      BY <2>2, <3>1 DEF Typed, RowType, TreeOK, Terminal, TerminalStatuses
    <3> QED
      BY <2>2, <3>1, <3>2 DEF QuietBehindFence
  <2> QED
    BY <2>3, <2>4
<1> QED
  BY <1>1, <1>2

-----------------------------------------------------------------------------
(* The end event.                                                          *)

\* Whoever is to publish the end of a run has seen it terminal.
Publishes ==
  \A p \in Procs : mode[p] = "publish" => at[p] \in Runs /\ Terminal(at[p])

\* What a step does to the processes: one of them changes, and it comes to
\* publish the end of a run that is terminal from then on.
ProcStep ==
  \A p \in Procs : mode'[p] = "publish" =>
    \/ mode[p] = "publish" /\ at'[p] = at[p]
    \/ at'[p] \in Runs /\ status'[at'[p]] \in TerminalStatuses

LEMMA GotoSteps ==
  ASSUME Typed, NEW p \in Procs, NEW l, NEW m, Goto(p, l, m),
         m = "publish" =>
           mode[p] = "publish"
             \/ (at[p] \in Runs /\ status'[at[p]] \in TerminalStatuses)
  PROVE  ProcStep
  BY DEF ProcStep, Goto, Typed, ProcType

LEMMA LeaveSteps ==
  ASSUME Typed, NEW p \in Procs, Leave(p)
  PROVE  ProcStep
  BY DEF ProcStep, Leave, Typed, ProcType

LEMMA StaySteps ==
  ASSUME UNCHANGED procVars
  PROVE  ProcStep
  BY DEF ProcStep, procVars

LEMMA TerminatesRun ==
  ASSUME Typed, NEW w \in Workers, NEW r \in Runs, NEW s \in TerminalStatuses,
         Terminate(w, r, s)
  PROVE  status'[r] \in TerminalStatuses
  BY TreeClosedShape DEF Terminate, Typed, Statuses

LEMMA TryFinishSteps ==
  ASSUME Typed, NEW w \in Workers, at[w] \in Runs, NEW s \in TerminalStatuses,
         TryFinish(w, at[w], s)
  PROVE  ProcStep
<1>1. w \in Procs
  BY DEF Procs
<1>2. CASE Terminate(w, at[w], s) /\ Goto(w, "post", "publish")
  BY <1>1, <1>2, TerminatesRun, GotoSteps
<1>3. CASE Goto(w, IF Terminal(at[w]) THEN "post" ELSE "settle", "quiet")
  BY <1>1, <1>3, GotoSteps
<1> QED
  BY <1>2, <1>3 DEF TryFinish

LEMMA CleanupSteps ==
  ASSUME Typed, NEW p \in Procs,
         CheckCleanup(p) \/ FinishDelete(p) \/ AbortCleanup(p)
  PROVE  ProcStep
<1>1. \/ CleanupOk(p, at[p]) \/ CleanupFail(p, at[p])
      \/ Goto(p, Deleting(pc[p]), mode[p])
  BY DEF CheckCleanup, FinishDelete, AbortCleanup, LiftFence
<1>2. \/ Leave(p) \/ Goto(p, "claim", "quiet") \/ Goto(p, "settle", "retry")
      \/ Goto(p, "settle", "quiet") \/ Goto(p, Deleting(pc[p]), mode[p])
  BY <1>1 DEF CleanupOk, CleanupFail
<1> QED
  BY <1>2, LeaveSteps, GotoSteps

LEMMA WorkerSteps ==
  ASSUME Typed, NEW w \in Workers,
         WorkerStep(w) \/ WriteOutput(w) \/ WorkerFault(w)
  PROVE  ProcStep
<1>1. w \in Procs
  BY DEF Procs
<1>2. CASE WriteOutput(w)
  BY <1>2, StaySteps DEF WriteOutput
<1>3. CASE CheckCleanup(w) \/ FinishDelete(w) \/ AbortCleanup(w)
  BY <1>1, <1>3, CleanupSteps
<1>4. CASE Reap(w)
  BY <1>1, <1>4, LeaveSteps, GotoSteps DEF Reap
<1>5. CASE Claim(w) \/ Settle(w) \/ Crash(w)
  BY <1>1, <1>5, LeaveSteps, GotoSteps DEF Claim, Settle, Crash
<1>6. CASE RejectInput(w) \/ LoseLease(w) \/ GiveUpLease(w) \/ InfraCancel(w)
  BY <1>1, <1>6, GotoSteps DEF RejectInput, LoseLease, GiveUpLease, InfraCancel
<1>7. ASSUME pc[w] = "exec"
      PROVE  at[w] \in Runs
  BY <1>1, <1>7 DEF Typed, ProcType, AtRun
<1>8. ASSUME NEW s \in {"completed", "interrupted"}, CommitOutput(w, s)
      PROVE  ProcStep
  <2>1. /\ s \in TerminalStatuses /\ pc[w] = "exec"
        /\ Terminate(w, at[w], s) /\ Goto(w, "post", "publish")
    BY <1>8 DEF CommitOutput, TerminalStatuses
  <2> QED
    BY <1>1, <1>7, <2>1, TerminatesRun, GotoSteps
<1>9. ASSUME NEW s \in {"completed", "failed", "interrupted"}, FinishRun(w, s)
      PROVE  ProcStep
  BY <1>7, <1>9, TryFinishSteps DEF FinishRun, TerminalStatuses
<1>10. CASE UserCancelSeen(w)
  <2>1. pc[w] = "exec" /\ "cancelled" \in TerminalStatuses
    BY <1>10 DEF UserCancelSeen, TerminalStatuses
  <2>2. \/ Terminate(w, at[w], "cancelled") /\ Goto(w, "post", "publish")
        \/ Goto(w, "post", "quiet")
    BY <1>10 DEF UserCancelSeen
  <2> QED
    BY <1>1, <1>7, <2>1, <2>2, TerminatesRun, GotoSteps
<1>11. CASE RetryableError(w)
  <2>1. pc[w] = "exec" /\ "failed" \in TerminalStatuses
    BY <1>11 DEF RetryableError, TerminalStatuses
  <2>2. \/ TryFinish(w, at[w], "failed") \/ Goto(w, "post", "retry")
        \/ Goto(w, "settle", "quiet")
    BY <1>11 DEF RetryableError
  <2> QED
    BY <1>1, <1>7, <2>1, <2>2, TryFinishSteps, GotoSteps
<1> QED
  BY <1>2, <1>3, <1>4, <1>5, <1>6, <1>8, <1>9, <1>10, <1>11
  DEF WorkerStep, WorkerFault, ExecEnds

LEMMA ProcSteps ==
  ASSUME Typed, [Next]_vars
  PROVE  ProcStep
<1>1. ASSUME NEW r \in Runs,
             \/ DispatchRun(r) \/ RequestCancel(r) \/ RecoverPending(r)
             \/ DropJob(r) \/ Redeliver(r) \/ Expire(r) \/ Reconcile(r)
      PROVE  ProcStep
  BY <1>1, StaySteps DEF DispatchRun, EnqueueAfterCommit, RequestCancel,
     RecoverPending, DropJob, Redeliver, Expire, Reconcile
<1>2. ASSUME NEW r \in Runs, NEW p \in Runs,
             CreateResume(r, p) \/ StartSubagent(r, p)
      PROVE  ProcStep
  BY <1>2, StaySteps DEF CreateResume, StartSubagent, EnqueueAfterCommit
<1>3. ASSUME NEW w \in Workers,
             WorkerStep(w) \/ WriteOutput(w) \/ WorkerFault(w)
      PROVE  ProcStep
  BY <1>3, WorkerSteps
<1>4. ASSUME NEW w \in Workers, NEW r \in Runs, StartJob(w, r)
      PROVE  ProcStep
  <2>1. w \in Procs
    BY DEF Procs
  <2>2. /\ at' = [at EXCEPT ![w] = r] /\ status' = status
        /\ mode' = [mode EXCEPT ![w] = IF Terminal(r) /\ cleanup[r]
                                         THEN "publish" ELSE "quiet"]
    BY <1>4 DEF StartJob, rowVars
  <2> QED
    BY <2>1, <2>2 DEF ProcStep, Terminal, Typed, ProcType
<1>5. ASSUME NEW c \in Reconcilers, ReconcilerStep(c) \/ AbortCleanup(c)
      PROVE  ProcStep
  BY <1>5, CleanupSteps DEF ReconcilerStep, Procs
<1>6. ASSUME NEW c \in Reconcilers, NEW r \in Runs, ListCleanup(c, r)
      PROVE  ProcStep
  <2>1. c \in Procs
    BY DEF Procs
  <2>2. /\ at' = [at EXCEPT ![c] = r] /\ status' = status
        /\ mode' = [mode EXCEPT ![c] = IF Terminal(r) THEN "publish"
                                       ELSE IF status[r] = "pending" THEN "retry"
                                       ELSE "quiet"]
    BY <1>6 DEF ListCleanup, rowVars
  <2> QED
    BY <2>1, <2>2 DEF ProcStep, Terminal, Typed, ProcType
<1>7. CASE UNCHANGED vars
  BY <1>7, StaySteps DEF vars
<1> QED
  BY <1>1, <1>2, <1>3, <1>4, <1>5, <1>6, <1>7 DEF Next

\* The event of a run is added only where its runtime is clean, by one who
\* is to publish it.
EndAdded ==
  \/ ended' = ended
  \/ \E p \in Procs : /\ mode[p] = "publish"
                      /\ ended' = ended \cup {at[p]}
                      /\ ~cleanup'[at[p]]

LEMMA EndAddedStep ==
  ASSUME Typed, [Next]_vars
  PROVE  EndAdded
<1>1. ASSUME NEW p \in Procs, at[p] \in Runs, CleanupOk(p, at[p]),
             ~cleanup'[at[p]]
      PROVE  EndAdded
  BY <1>1 DEF EndAdded, CleanupOk
<1>2. ASSUME NEW p \in Procs,
             CheckCleanup(p) \/ FinishDelete(p) \/ AbortCleanup(p)
      PROVE  EndAdded
  <2>1. at[p] \in Runs
    BY <1>2 DEF CheckCleanup, FinishDelete, AbortCleanup, AtCheck, AtDelete,
                Typed, ProcType, AtRun
  <2>2. CASE CleanupFail(p, at[p]) \/ ended' = ended
    BY <2>2 DEF CleanupFail, EndAdded
  <2>3. CASE ~cleanup[at[p]] /\ CleanupOk(p, at[p]) /\ UNCHANGED rowVars
    BY <1>1, <2>1, <2>3 DEF rowVars
  <2>4. CASE LiftFence(p, at[p])
    <3>1. ~cleanup'[at[p]]
      BY <2>1, <2>4 DEF LiftFence, Typed, RowType
    <3> QED
      BY <1>1, <2>1, <2>4, <3>1 DEF LiftFence
  <2> QED
    BY <1>2, <2>2, <2>3, <2>4 DEF CheckCleanup, FinishDelete, AbortCleanup
<1>3. ASSUME ended' = ended
      PROVE  EndAdded
  BY <1>3 DEF EndAdded
<1>4. ASSUME NEW w \in Workers,
             WorkerStep(w) \/ WriteOutput(w) \/ WorkerFault(w)
      PROVE  EndAdded
  <2>1. CASE CheckCleanup(w) \/ FinishDelete(w) \/ AbortCleanup(w)
    BY <1>2, <2>1 DEF Procs
  <2>2. CASE ~(CheckCleanup(w) \/ FinishDelete(w) \/ AbortCleanup(w))
    <3>1. ended' = ended
      BY <1>4, <2>2 DEF WorkerStep, WorkerFault, ExecEnds, WriteOutput, Reap,
         Claim, Settle, CommitOutput, FinishRun, RejectInput, UserCancelSeen,
         LoseLease, GiveUpLease, InfraCancel, RetryableError, Crash,
         NoJobChange
    <3> QED
      BY <1>3, <3>1
  <2> QED
    BY <2>1, <2>2
<1>5. ASSUME NEW r \in Runs,
             \/ DispatchRun(r) \/ RequestCancel(r) \/ RecoverPending(r)
             \/ DropJob(r) \/ Redeliver(r) \/ Expire(r) \/ Reconcile(r)
      PROVE  EndAdded
  BY <1>3, <1>5 DEF DispatchRun, EnqueueAfterCommit, RequestCancel,
     RecoverPending, DropJob, Redeliver, Expire, Reconcile
<1>6. ASSUME NEW r \in Runs, NEW p \in Runs,
             CreateResume(r, p) \/ StartSubagent(r, p)
      PROVE  EndAdded
  BY <1>3, <1>6 DEF CreateResume, StartSubagent, EnqueueAfterCommit
<1>7. ASSUME NEW p, NEW r \in Runs, StartJob(p, r) \/ ListCleanup(p, r)
      PROVE  EndAdded
  BY <1>3, <1>7 DEF StartJob, ListCleanup
<1>8. ASSUME NEW c \in Reconcilers, ReconcilerStep(c) \/ AbortCleanup(c)
      PROVE  EndAdded
  BY <1>2, <1>8 DEF ReconcilerStep, Procs
<1>9. CASE UNCHANGED vars
  BY <1>3, <1>9 DEF vars
<1> QED
  BY <1>4, <1>5, <1>6, <1>7, <1>8, <1>9 DEF Next

\* A terminal run gets no fence.
LEMMA FenceStaysDown ==
  ASSUME Typed, RowsOK, [Next]_vars, NEW x \in Runs, Terminal(x)
  PROVE  /\ status'[x] = status[x]
         /\ ~cleanup[x] => ~cleanup'[x]
<1>1. StepOK(x)
  BY RowsNext
<1>2. CASE \A y \in Runs : StepOK(y) /\ NoNewHolder(y)
  BY <1>1, <1>2 DEF StepOK, NoNewHolder, HoldsScope, Active, Terminal,
                    TerminalStatuses
<1>3. CASE Creates
  BY <1>1, <1>3, CreatesShape DEF StepOK, NewRow
<1> QED
  BY <1>2, <1>3, OtherStepRows

LEMMA EndKept ==
  ASSUME Typed, RowsOK, Publishes, EndBehindFence, [Next]_vars
  PROVE  Publishes' /\ EndBehindFence'
<1>1. Publishes'
  <2> SUFFICES ASSUME NEW p \in Procs, mode'[p] = "publish"
               PROVE  at'[p] \in Runs /\ status'[at'[p]] \in TerminalStatuses
    BY DEF Publishes, Terminal
  <2>1. CASE mode[p] = "publish" /\ at'[p] = at[p]
    BY <2>1, FenceStaysDown DEF Publishes, Terminal
  <2> QED
    BY <2>1, ProcSteps DEF ProcStep
<1>2. ASSUME NEW r \in ended'
      PROVE  status'[r] \in TerminalStatuses /\ ~cleanup'[r]
  <2>1. CASE r \in ended
    BY <2>1, FenceStaysDown DEF EndBehindFence, Terminal, Typed, RestType
  <2>2. CASE r \notin ended
    <3>1. PICK p \in Procs : mode[p] = "publish" /\ r = at[p] /\ ~cleanup'[r]
      BY <2>2, <1>2, EndAddedStep DEF EndAdded
    <3> QED
      BY <3>1, FenceStaysDown DEF Publishes, Terminal
  <2> QED
    BY <2>1, <2>2
<1> QED
  BY <1>1, <1>2 DEF EndBehindFence, Terminal

-----------------------------------------------------------------------------
(* The thread as the request queue sees it.                                *)

\* The refinement mapping.
SeenStatus == [r \in Runs |-> IF TopLevel(r) THEN status[r] ELSE "absent"]
SeenParent == [r \in Runs |-> IF TopLevel(r) THEN creator[r] ELSE NoRun]

\* A step of the thread's own run r, from its status to s.
LEMMA SeenChange ==
  ASSUME Typed, NEW r \in Runs, NEW s, TopLevel(r),
         UNCHANGED <<kind, creator, latest>>, status'[r] = s,
         \A x \in Runs \ {r} : TopLevel(x) => status'[x] = status[x]
  PROVE  /\ SeenStatus' = [SeenStatus EXCEPT ![r] = s]
         /\ SeenStatus[r] = status[r]
         /\ SeenParent' = SeenParent
  BY DEF SeenStatus, SeenParent, TopLevel, Typed, RowType

LEMMA SeenSame ==
  ASSUME Typed, UNCHANGED <<kind, creator, latest, cleanup>>,
         \A x \in Runs : TopLevel(x) => status'[x] = status[x]
  PROVE  UNCHANGED TR!threadVars
  BY DEF TR!threadVars, TopLevel

\* One run holds the thread, so that the cascade of r stops at most one
\* other run of the thread, and none when r itself holds it.
LEMMA ToldAlone ==
  ASSUME Typed, OneThreadHolder, NEW r \in Runs, NEW s \in Statuses,
         status' = TreeClosed(r, s), NEW x \in Runs \ {r}, TopLevel(x),
         status'[x] # status[x]
  PROVE  /\ Active(x) /\ status'[x] = CancelTarget(x)
         /\ \A y \in Runs \ {r, x} : TopLevel(y) => status'[y] = status[y]
         /\ TopLevel(r) => ~Active(r)
  BY Reached DEF OneThreadHolder, HoldsThread, HoldsScope

\* A run of the thread is told to stop: it is cancelled when it never
\* began, and asked to stop otherwise.
LEMMA TellRefines ==
  ASSUME Typed, TreeOK, NEW x \in Runs, TopLevel(x), Active(x),
         UNCHANGED <<kind, creator, latest, cleanup>>,
         status'[x] = CancelTarget(x),
         \A y \in Runs \ {x} : TopLevel(y) => status'[y] = status[y]
  PROVE  [TR!Next]_(TR!threadVars)
<1>1. CASE status[x] = "cancel_requested"
  BY <1>1, SeenSame DEF CancelTarget, NeverStarted
<1>2. CASE NeverStarted(x)
  <2>1. ~cleanup[x] /\ status[x] = "pending" /\ status'[x] = "cancelled"
    BY <1>2 DEF NeverStarted, CancelTarget, TreeOK
  <2>2. TR!CancelUnbegun(x)
    BY <2>1, SeenChange DEF TR!CancelUnbegun, SeenStatus, SeenParent
  <2> QED
    BY <2>2 DEF TR!Next
<1>3. CASE ~NeverStarted(x) /\ status[x] # "cancel_requested"
  <2>1. /\ status'[x] = "cancel_requested"
        /\ status[x] \in {"pending", "running"}
    BY <1>3 DEF CancelTarget, Active
  <2>2. TR!AskToStop(x)
    BY <2>1, SeenChange DEF TR!AskToStop, SeenStatus, SeenParent
  <2> QED
    BY <2>2 DEF TR!Next
<1> QED
  BY <1>1, <1>2, <1>3

LEMMA TellsRefines ==
  ASSUME Typed, TreeOK, OneThreadHolder, NEW r \in Runs, NEW s \in Statuses,
         Tells(r, s), UNCHANGED <<kind, creator, latest>>
  PROVE  [TR!Next]_(TR!threadVars)
<1>1. status' = TreeClosed(r, s) /\ cleanup' = cleanup
  BY DEF Tells
<1>2. status'[r] = s
  BY <1>1, TreeClosedShape DEF Typed
<1>3. CASE \E x \in Runs \ {r} : TopLevel(x) /\ status'[x] # status[x]
  <2>1. PICK x \in Runs \ {r} : TopLevel(x) /\ status'[x] # status[x]
    BY <1>3
  <2>2. /\ Active(x) /\ status'[x] = CancelTarget(x)
        /\ \A y \in Runs \ {r, x} : TopLevel(y) => status'[y] = status[y]
        /\ TopLevel(r) => ~Active(r)
    BY <1>1, <2>1, ToldAlone
  <2>3. TopLevel(r) => status'[r] = status[r]
    BY <1>2, <2>2 DEF Tells
  <2> QED
    BY <1>1, <2>1, <2>2, <2>3, TellRefines
<1>4. CASE \A x \in Runs \ {r} : TopLevel(x) => status'[x] = status[x]
  <2>1. CASE TopLevel(r) /\ s # status[r]
    BY <1>1, <1>2, <1>4, <2>1, TellRefines DEF Tells
  <2>2. CASE ~(TopLevel(r) /\ s # status[r])
    BY <1>1, <1>2, <1>4, <2>2, SeenSame
  <2> QED
    BY <2>1, <2>2
<1> QED
  BY <1>3, <1>4

\* An execution of the thread's run ends or is given back; that of a
\* subagent does not show.
LEMMA ClosesRefines ==
  ASSUME Typed, TreeOK, OneThreadHolder, NEW r \in Runs, NEW s \in Statuses,
         Closes(r, s), UNCHANGED <<kind, creator, latest>>
  PROVE  [TR!Next]_(TR!threadVars)
<1>1. /\ status' = TreeClosed(r, s) /\ status'[r] = s /\ Active(r)
      /\ cleanup' = [cleanup EXCEPT ![r] = TopLevel(r)]
  BY TreeClosedShape DEF Closes, Active, Typed
<1>2. CASE ~TopLevel(r)
  <2>1. ActiveDescendants(r) = {}
    BY <1>2 DEF ActiveDescendants
  <2>2. \A x \in Runs : TopLevel(x) => status'[x] = status[x]
    BY <1>1, <1>2, <2>1, Reached
  <2>3. cleanup' = cleanup
    <3>1. cleanup[r] = FALSE
      BY <1>2 DEF TreeOK, Typed, RowType
    <3>2. cleanup' = [cleanup EXCEPT ![r] = FALSE]
      BY <1>1, <1>2 DEF TopLevel
    <3> QED
      BY <3>1, <3>2 DEF Typed, RowType
  <2> QED
    BY <2>2, <2>3, SeenSame
<1>3. CASE TopLevel(r)
  <2>1. \A x \in Runs \ {r} : TopLevel(x) => status'[x] = status[x]
    BY <1>1, <1>3, ToldAlone
  <2>2. /\ SeenStatus' = [SeenStatus EXCEPT ![r] = s]
        /\ SeenStatus[r] = status[r] /\ SeenParent' = SeenParent
        /\ cleanup' = [cleanup EXCEPT ![r] = TRUE] /\ latest' = latest
    BY <1>1, <1>3, <2>1, SeenChange
  <2>3. CASE s = "pending"
    <3>1. TR!GiveBack(r)
      BY <2>2, <2>3 DEF Closes, TR!GiveBack, SeenStatus, SeenParent
    <3> QED
      BY <3>1 DEF TR!Next
  <2>4. CASE s # "pending"
    <3>1. s \in TR!EndsOf(status[r])
      BY <2>4 DEF Closes, TR!EndsOf
    <3>2. TR!End(r, s)
      BY <2>2, <3>1 DEF TR!End, SeenStatus, SeenParent
    <3>3. s \in {"completed", "failed", "cancelled", "interrupted"}
      BY <2>4 DEF Closes
    <3> QED
      BY <3>2, <3>3 DEF TR!Next
  <2> QED
    BY <2>3, <2>4
<1> QED
  BY <1>2, <1>3

LEMMA RowStepRefines ==
  ASSUME Typed, TreeOK, OneThreadHolder, RowStep
  PROVE  [TR!Next]_(TR!threadVars)
<1>1. UNCHANGED <<kind, creator, latest>>
  BY DEF RowStep
<1>2. ASSUME NEW r \in Runs, Claims(r)
      PROVE  [TR!Next]_(TR!threadVars)
  <2>1. CASE status[r] = "pending" /\ TopLevel(r)
    <3>1. /\ status'[r] = "running"
          /\ \A x \in Runs \ {r} : TopLevel(x) => status'[x] = status[x]
      BY <1>2, <2>1 DEF Claims, Typed, RowType
    <3>2. TR!Begin(r)
      BY <1>1, <1>2, <2>1, <3>1, SeenChange
      DEF Claims, TR!Begin, SeenStatus, SeenParent
    <3> QED
      BY <3>2 DEF TR!Next
  <2>2. CASE ~(status[r] = "pending" /\ TopLevel(r))
    <3>1. \A x \in Runs : TopLevel(x) => status'[x] = status[x]
      BY <1>2, <2>2 DEF Claims, Typed, RowType
    <3> QED
      BY <1>1, <1>2, <3>1, SeenSame DEF Claims
  <2> QED
    BY <2>1, <2>2
<1>3. ASSUME NEW r \in Runs, Lifts(r)
      PROVE  [TR!Next]_(TR!threadVars)
  <2>1. TR!LiftFence(r)
    BY <1>1, <1>3 DEF Lifts, TR!LiftFence, TopLevel
  <2> QED
    BY <2>1 DEF TR!Next
<1>4. CASE UNCHANGED <<status, cleanup>>
  BY <1>1, <1>4, SeenSame
<1> QED
  BY <1>1, <1>2, <1>3, <1>4, ClosesRefines, TellsRefines DEF RowStep

LEMMA CreatesRefines ==
  ASSUME Typed, RowsOK, TreeOK, LatestOK, Creates
  PROVE  [TR!Next]_(TR!threadVars)
<1>1. PICK r \in Runs, k \in Kinds, p \in Runs \cup {NoRun} :
           /\ NewRow(r, k, p)
           /\ \/ k = "chat" /\ p = NoRun /\ ThreadIdle
                 /\ (latest # NoRun => status[latest] # "interrupted")
              \/ k = "resume" /\ p = latest /\ ThreadIdle
                 /\ p \in Runs /\ status[p] = "interrupted"
              \/ k = "subagent" /\ p \in Runs /\ TopLevel(p)
                 /\ status[p] = "running"
  BY CreatesShape
<1>2. /\ status[r] = "absent" /\ status' = [status EXCEPT ![r] = "pending"]
      /\ kind' = [kind EXCEPT ![r] = k] /\ creator' = [creator EXCEPT ![r] = p]
      /\ latest' = IF k = "subagent" THEN latest ELSE r
      /\ cleanup' = cleanup
  BY <1>1 DEF NewRow
<1>3. kind[r] = "chat" /\ creator[r] = NoRun
  BY <1>2 DEF TreeOK
<1>4. CASE k = "subagent"
  <2>1. SeenStatus' = SeenStatus /\ SeenParent' = SeenParent
    BY <1>2, <1>3, <1>4 DEF SeenStatus, SeenParent, TopLevel, Typed, RowType
  <2> QED
    BY <1>2, <1>4, <2>1 DEF TR!threadVars, SeenStatus, SeenParent
<1>5. CASE k # "subagent"
  <2>1. /\ SeenStatus' = [SeenStatus EXCEPT ![r] = "pending"]
        /\ SeenParent' = [SeenParent EXCEPT ![r] = p]
        /\ SeenStatus[r] = "absent"
    BY <1>2, <1>3, <1>5 DEF SeenStatus, SeenParent, TopLevel, Typed, RowType
  <2>2. ThreadIdle
    BY <1>1, <1>5 DEF ThreadIdle
  <2>3. \A x \in Runs : /\ SeenStatus[x] \notin {"pending", "running", "cancel_requested"}
                        /\ ~cleanup[x]
    BY <2>2 DEF ThreadIdle, HoldsThread, HoldsScope, Active, SeenStatus, TreeOK
  <2>4. TR!ThreadFree
    BY <2>3 DEF TR!ThreadFree, TR!Holds, TR!ActiveStatuses, SeenStatus
  <2>5. TR!Create(r, p)
    BY <1>2, <1>5, <2>1, <2>4 DEF TR!Create, SeenStatus, SeenParent
  <2>6. CASE k = "chat"
    <3>1. ~TR!Interrupted
      BY <1>1, <2>6 DEF TR!Interrupted, Typed, RowType
    <3>2. TR!CreateChat(r)
      BY <1>1, <2>5, <2>6, <3>1 DEF TR!CreateChat
    <3> QED
      BY <3>2 DEF TR!Next
  <2>7. CASE k = "resume"
    <3>1. p = latest /\ p \in Runs /\ status[p] = "interrupted" /\ TopLevel(p)
      BY <1>1, <2>7, LeaseAssumption DEF LatestOK, LeaseAssumption
    <3>2. TR!Interrupted
      BY <3>1, LeaseAssumption DEF TR!Interrupted, LeaseAssumption
    <3>3. TR!Create(r, latest)
      BY <2>5, <3>1 DEF TR!Create
    <3>4. TR!CreateResume(r)
      BY <3>2, <3>3 DEF TR!CreateResume
    <3> QED
      BY <3>4 DEF TR!Next
  <2> QED
    BY <1>5, <2>6, <2>7 DEF Kinds
<1> QED
  BY <1>4, <1>5

-----------------------------------------------------------------------------
(* The theorems.                                                           *)

ScopeInv ==
  /\ Typed
  /\ RowsOK
  /\ OneThreadHolder
  /\ TreeOK
  /\ LatestOK
  /\ NoOrphanSubagent
  /\ QuietBehindFence
  /\ Publishes
  /\ EndBehindFence

LEMMA ScopeInit == Init => ScopeInv
<1> SUFFICES ASSUME Init PROVE ScopeInv
  OBVIOUS
<1>1. Typed /\ RowsOK
  BY TypeInit, RowsInit
<1>2. /\ OneThreadHolder /\ TreeOK /\ LatestOK
      /\ NoOrphanSubagent /\ QuietBehindFence
  BY DEF Init, OneThreadHolder, HoldsThread, HoldsScope, Active, TreeOK, LatestOK,
         NoOrphanSubagent, QuietBehindFence
<1>3. Publishes /\ EndBehindFence
  BY DEF Init, Publishes, EndBehindFence
<1> QED
  BY <1>1, <1>2, <1>3 DEF ScopeInv

LEMMA ScopeNext == ScopeInv /\ [Next]_vars => ScopeInv'
<1> SUFFICES ASSUME ScopeInv, [Next]_vars PROVE ScopeInv'
  OBVIOUS
<1> USE DEF ScopeInv
<1>1. Typed' /\ RowsOK' /\ OneThreadHolder'
  BY TypeNext, RowsNext
<1>2. Creates \/ RowStep
  BY RowStepShape
<1>3. TreeOK' /\ LatestOK'
  BY <1>2, TreeKept, TreeCreates, LatestKept
<1>4. NoOrphanSubagent' /\ QuietBehindFence'
  BY <1>2, NoOrphanKept, QuietKept
<1>5. Publishes' /\ EndBehindFence'
  BY EndKept
<1> QED
  BY <1>1, <1>3, <1>4, <1>5

LEMMA ScopeHolds == Spec => []ScopeInv
  BY ScopeInit, ScopeNext, PTL DEF Spec

\* An attempt is open exactly while its worker owns the run, whoever of
\* worker, user and reconciler ends it (agent_run_attempts).
THEOREM AttemptsAgree == Spec => []AttemptLedger
<1>1. RowsOK => AttemptLedger
  BY DEF RowsOK, RowOK, AttemptLedger
<1> QED
  BY <1>1, ScopeHolds, PTL DEF ScopeInv

\* How a run ended is how its last attempt ended, but for failures that the
\* reconciler declared.
THEOREM OutcomesAgree == Spec => []OutcomeAgrees
<1>1. RowsOK => OutcomeAgrees
  BY DEF RowsOK, RowOK, OutcomeAgrees
<1> QED
  BY <1>1, ScopeHolds, PTL DEF ScopeInv

\* cancel_active_execution_tree_descendants leaves no orphan: a subagent
\* that was not told to stop has a creator that is running, whatever ended
\* or released the creator and whenever the subagent was started.
THEOREM NoOrphans == Spec => []NoOrphanSubagent
  BY ScopeHolds, PTL DEF ScopeInv

\* _release_runtime_if_idle lifts the fence of an ended run only when none
\* of its subagents can still be executing in the sandbox.
THEOREM QuietWhenLifted == Spec => []QuietBehindFence
  BY ScopeHolds, PTL DEF ScopeInv

\* The end event of a run is published behind its terminal status and
\* behind the cleanup of its runtime, by worker and reconciler alike.
THEOREM EndAfterCleanup == Spec => []EndBehindFence
  BY ScopeHolds, PTL DEF ScopeInv

\* For any number of runs, executions, retries and faults the thread's own
\* runs behave as ThreadRuns says, which the request queue is written
\* against: one at a time, begun, given back, asked to stop, ended once and
\* then cleaned up.
THEOREM ThreadRunsImplemented == Spec => ImplementsThreadRuns
<1>1. Init => TR!ThreadInit
  BY DEF Init, TR!ThreadInit, TopLevel
<1>2. ScopeInv /\ [Next]_vars => [TR!Next]_(TR!threadVars)
  BY RowStepShape, RowStepRefines, CreatesRefines DEF ScopeInv
<1> QED
  BY <1>1, <1>2, ScopeHolds, PTL DEF Spec, ImplementsThreadRuns, TR!Spec
=============================================================================
