-------------------------- MODULE DurableTaskProofs --------------------------
(***************************************************************************)
(* Durable tasks keep their promises for every set of rows, executions and *)
(* dedupe keys and every number of slots: proofs of what DurableTask       *)
(* states, and that it implements TaskLease.  So do the datasets and the   *)
(* evaluations of knowledge bases, which are such tasks: proofs of what    *)
(* Evaluation, as EV, states.                                              *)
(***************************************************************************)
EXTENDS DurableTask, Sequences, FiniteSetTheorems, TLAPS

CONSTANTS Jobs, Runners, Total, Batch, Every, Ops  \* as Evaluation has them

VARIABLE lease

EV == INSTANCE Evaluation WITH Tasks <- Jobs, Workers <- Runners

\* What the proofs need of the constants.  PostgreSQL holds finitely many
\* rows; DURABLE_TASK_MAX_RUNNING is a number.
TaskConstants == IsFiniteSet(Tasks) /\ MaxRunning \in Nat

\* A few tasks are finitely many.
LEMMA FewTasks ==
  \A a, b, c : IsFiniteSet({a}) /\ IsFiniteSet({a, b})
                 /\ IsFiniteSet({a, b, c})
<1> SUFFICES ASSUME NEW a, NEW b, NEW c
             PROVE  IsFiniteSet({a}) /\ IsFiniteSet({a, b})
                      /\ IsFiniteSet({a, b, c})
  OBVIOUS
<1>1. IsFiniteSet({a})
  BY FS_Singleton
<1>2. {a} \cup {b} = {a, b} /\ {a, b} \cup {c} = {a, b, c}
  OBVIOUS
<1>3. IsFiniteSet({a, b})
  BY <1>1, <1>2, FS_AddElement
<1>4. IsFiniteSet({a, b, c})
  BY <1>2, <1>3, FS_AddElement
<1> QED BY <1>1, <1>3, <1>4

Statuses == Terminals \cup {"absent", "pending", "running", "gone"}
Verdicts == {"success", "failed", "release", "cancelled", "lost"}

RowSet ==
  [status : Statuses, cancel : BOOLEAN, owner : Workers \cup {NoWorker},
   live : BOOLEAN, key : Keys \cup {NoKey}, attempts : Nat,
   hook : {"open", "done", "failed"}]

ExecSet ==
  [pc : {"idle", "run", "finish", "relay"}, at : Tasks \cup {NoTask},
   verdict : Verdicts \cup {"none"}]

GhostSet == [intent : Keys \cup {NoKey}, writes : Nat]

Typed ==
  /\ rows \in [Tasks -> RowSet]
  /\ procs \in [execs : [Workers -> ExecSet],
                loop : {"leases", "publish", "prune"}]
  /\ ghost \in [Tasks -> GhostSet]

\* An execution that is not idle works on a task, and one that is about to
\* record an end knows which.
Busy ==
  \A w \in Workers :
    /\ Pc(w) # "idle" => At(w) \in Tasks
    /\ Pc(w) = "finish" => Verdict(w) \in Verdicts

\* Only a running row has an owner and a lease, only an active one holds
\* its dedupe key, and only one that was claimed has an attempt.
RowShape ==
  \A t \in Tasks :
    /\ rows[t].status # "running" =>
         rows[t].owner = NoWorker /\ ~rows[t].live
    /\ rows[t].key = IF Active(t) THEN ghost[t].intent ELSE NoKey
    /\ rows[t].status \in {"absent", "pending"} => rows[t].attempts = 0
    /\ rows[t].status = "absent" => rows[t].hook = "open" /\ ~rows[t].cancel

\* The unique index of dedupe_key.
KeysUnique ==
  \A t, o \in Tasks :
    rows[t].key # NoKey /\ rows[t].key = rows[o].key => t = o

TaskInv ==
  /\ Typed /\ Busy /\ RowShape /\ KeysUnique /\ TasksAgree /\ ExecutedOnce
  /\ SlotsRespected

-----------------------------------------------------------------------------
(* The ways in which a step changes the rows.                              *)

Submitted(t, k) ==
  /\ rows[t].status = "absent"
  /\ k # NoKey => \A o \in Tasks : rows[o].key # k
  /\ rows' = [rows EXCEPT ![t] = [@ EXCEPT !.status = "pending", !.key = k]]
  /\ ghost' = [ghost EXCEPT ![t] = [@ EXCEPT !.intent = k]]

Taken(t, w) ==
  /\ HasSlot(t)
  /\ rows' = [rows EXCEPT ![t] = Claimed(t, w)]
  /\ ghost' = ghost

HeldEnd(t, w, s) ==
  /\ LiveOwner(w, t)
  /\ s \in Terminals
  /\ s = "success" => ~rows[t].cancel
  /\ rows' = [rows EXCEPT ![t] =
       EndedRow(t, s, IF s = "success" THEN "done" ELSE FailureHook(t))]
  /\ ghost' = ghost

CancelledEarly(t) ==
  /\ rows[t].status = "pending"
  /\ t \notin UnknownTasks
  /\ rows' = [rows EXCEPT ![t] =
       [EndedRow(t, "cancelled", FailureHook(t)) EXCEPT !.cancel = TRUE]]
  /\ ghost' = ghost

Marked(t) ==
  /\ rows[t].status = "running"
  /\ rows' = [rows EXCEPT ![t] = [@ EXCEPT !.cancel = TRUE]]
  /\ ghost' = ghost

RanOut(t) ==
  /\ rows[t].live
  /\ rows' = [rows EXCEPT ![t] = [@ EXCEPT !.live = FALSE]]
  /\ ghost' = ghost

\* Each row stays, or fails for want of an executor, or is forgotten.
Swept ==
  /\ rows' = [t \in Tasks |-> rows'[t]]
  /\ \A t \in Tasks :
       \/ rows'[t] = rows[t]
       \/ /\ \/ rows[t].status = "pending"
             \/ rows[t].status = "running" /\ ~rows[t].live
          /\ rows'[t] = EndedRow(t, "failed", FailureHook(t))
       \/ Terminal(t) /\ rows'[t] = [rows[t] EXCEPT !.status = "gone"]
  /\ ghost' = ghost

Written(w) ==
  /\ Owned(w)
  /\ rows' = rows
  /\ ghost' = [ghost EXCEPT ![At(w)].writes = @ + 1]

RowsChange ==
  \/ rows' = rows /\ ghost' = ghost
  \/ \E t \in Tasks :
       \/ \E k \in Keys \cup {NoKey} : Submitted(t, k)
       \/ CancelledEarly(t) \/ Marked(t) \/ RanOut(t)
       \/ \E w \in Workers : Taken(t, w) \/ \E s \in Terminals : HeldEnd(t, w, s)
  \/ \E w \in Workers : Written(w)
  \/ Swept

-----------------------------------------------------------------------------

USE DEF Terminals, Statuses, Verdicts

\* A typed execution enters its next phase, and the rest is as before.
LEMMA BecomesTyped ==
  ASSUME Typed, Busy, NEW w \in Workers, NEW e \in ExecSet, Becomes(w, e),
         e.pc # "idle" => e.at \in Tasks,
         e.pc = "finish" => e.verdict \in Verdicts
  PROVE  /\ procs' \in [execs : [Workers -> ExecSet],
                        loop : {"leases", "publish", "prune"}]
         /\ Busy'
<1> DEFINE execs == [procs.execs EXCEPT ![w] = e]
<1>1. procs' = [procs EXCEPT !.execs = execs]
  BY DEF Becomes, Typed
<1>2. execs \in [Workers -> ExecSet]
  BY DEF Typed
<1>3. procs'.execs = execs /\ procs'.loop = procs.loop
  BY <1>1 DEF Typed
<1>4. procs' \in [execs : [Workers -> ExecSet],
                  loop : {"leases", "publish", "prune"}]
  BY <1>1, <1>2 DEF Typed
<1>5. Busy'
  BY <1>2, <1>3 DEF Busy, Pc, At, Verdict, Typed
<1> QED BY <1>4, <1>5

\* Nothing but the executions and the loop moves.
LEMMA DecideTyped ==
  ASSUME Typed, Busy, NEW w \in Workers, NEW v \in Verdicts, Decide(w, v),
         Pc(w) = "run"
  PROVE  /\ procs' \in [execs : [Workers -> ExecSet],
                        loop : {"leases", "publish", "prune"}]
         /\ Busy'
         /\ rows' = rows /\ ghost' = ghost
<1> DEFINE e == [procs.execs[w] EXCEPT !.pc = "finish", !.verdict = v]
<1>1. e \in ExecSet /\ e.pc = "finish" /\ e.verdict = v /\ e.at = At(w)
  BY DEF Typed, ExecSet, At
<1>2. At(w) \in Tasks
  BY DEF Busy
<1>3. Becomes(w, e) /\ rows' = rows /\ ghost' = ghost
  BY DEF Decide
<1> HIDE DEF e
<1> QED BY <1>1, <1>2, <1>3, BecomesTyped

\* What a step of the system does to the rows, and that executions stay
\* well-formed.
LEMMA StepShape ==
  ASSUME TaskInv, Next
  PROVE  /\ RowsChange
         /\ procs' \in [execs : [Workers -> ExecSet],
                        loop : {"leases", "publish", "prune"}]
         /\ Busy'
<1> USE DEF TaskInv
<1> DEFINE P == procs' \in [execs : [Workers -> ExecSet],
                            loop : {"leases", "publish", "prune"}]
<1>0. procs' = procs => P /\ Busy'
  BY DEF Typed, Busy, Pc, At, Verdict
<1>1. ASSUME NEW t \in Tasks, NEW k \in Keys \cup {NoKey}, Enqueue(t, k)
      PROVE  RowsChange /\ P /\ Busy'
  <2>1. Submitted(t, k)
    BY <1>1 DEF Enqueue, Submitted, Typed, RowSet, GhostSet
  <2> QED BY <1>0, <1>1, <2>1 DEF Enqueue, RowsChange
<1>2. ASSUME NEW t \in Tasks, CancelTask(t)
      PROVE  RowsChange /\ P /\ Busy'
  <2>1. CancelledEarly(t) \/ Marked(t)
    BY <1>2 DEF CancelTask, CancelledEarly, Marked, Active
  <2> QED BY <1>0, <1>2, <2>1 DEF CancelTask, RowsChange
<1>3. ASSUME NEW t \in Tasks, DeleteTask(t)
      PROVE  RowsChange /\ P /\ Busy'
  <2>1. Swept
    BY <1>3 DEF DeleteTask, Swept, Typed, RowSet
  <2> QED BY <1>0, <1>3, <2>1 DEF DeleteTask, RowsChange
<1>4. ASSUME NEW t \in Tasks, Lapse(t)
      PROVE  RowsChange /\ P /\ Busy'
  <2>1. RanOut(t)
    BY <1>4 DEF Lapse, RanOut, Typed, RowSet
  <2> QED BY <1>0, <1>4, <2>1 DEF Lapse, RowsChange
<1>5. ASSUME NEW w \in Workers, NEW t \in Tasks, StartJob(w, t)
      PROVE  RowsChange /\ P /\ Busy'
  <2>1. CASE HasSlot(t)
    <3> DEFINE e == [Idle EXCEPT !.pc = "run", !.at = t]
    <3>1. Taken(t, w) /\ Becomes(w, e)
      BY <1>5, <2>1 DEF StartJob, Taken
    <3>2. e \in ExecSet /\ e.pc = "run" /\ e.at = t
      BY DEF Idle, ExecSet
    <3> HIDE DEF e
    <3>3. P /\ Busy'
      BY <3>1, <3>2, BecomesTyped
    <3> QED BY <3>1, <3>3 DEF RowsChange
  <2>2. CASE ~HasSlot(t)
    BY <1>0, <1>5, <2>2 DEF StartJob, RowsChange
  <2> QED BY <2>1, <2>2
<1>6. ASSUME NEW w \in Workers, NEW v \in {"success", "failed"},
             HandlerEnds(w, v)
      PROVE  RowsChange /\ P /\ Busy'
  BY <1>6, DecideTyped DEF HandlerEnds, RowsChange
<1>7. ASSUME NEW w \in Workers, Shutdown(w) \/ Heartbeat(w)
      PROVE  RowsChange /\ P /\ Busy'
  BY <1>7, DecideTyped DEF Shutdown, Heartbeat, RowsChange
<1>8. ASSUME NEW w \in Workers, Checkpoint(w)
      PROVE  RowsChange /\ P /\ Busy'
  <2>1. CASE Pc(w) = "run" /\ ~Owned(w) /\ Decide(w, "lost")
    BY <2>1, DecideTyped DEF RowsChange
  <2>2. CASE ~(Pc(w) = "run" /\ ~Owned(w) /\ Decide(w, "lost"))
    <3>1. Owned(w) /\ rows' = rows /\ procs' = procs
      BY <1>8, <2>2 DEF Checkpoint
    <3>2. At(w) \in Tasks
      BY <3>1 DEF Owned, Busy
    <3>3. Written(w)
      BY <1>8, <2>2, <3>1, <3>2 DEF Checkpoint, Written, Typed, GhostSet
    <3> QED BY <1>0, <3>1, <3>3 DEF RowsChange
  <2> QED BY <2>1, <2>2
<1>9. ASSUME NEW w \in Workers, Finish(w)
      PROVE  RowsChange /\ P /\ Busy'
  <2> DEFINE t == At(w)
             s == Outcome(t, Verdict(w))
             e == [procs.execs[w] EXCEPT !.pc = "relay"]
  <2>1. e \in ExecSet /\ e.pc = "relay" /\ e.at = t
    BY DEF Typed, ExecSet, At
  <2>2. t \in Tasks /\ Verdict(w) \in Verdicts
    BY <1>9 DEF Finish, Busy
  <2>3. Becomes(w, e) /\ ghost' = ghost
    BY <1>9 DEF Finish
  <2>4. P /\ Busy'
    <3> HIDE DEF e
    <3> QED BY <2>1, <2>2, <2>3, BecomesTyped
  <2>5. CASE Verdict(w) # "lost" /\ LiveOwner(w, t)
    <3>1. s \in Terminals /\ (s = "success" => ~rows[t].cancel)
      BY <2>2, <2>5 DEF Outcome
    <3>2. HeldEnd(t, w, s)
      BY <1>9, <2>3, <2>5, <3>1 DEF Finish, HeldEnd
    <3> QED BY <2>2, <2>4, <3>1, <3>2 DEF RowsChange
  <2>6. CASE ~(Verdict(w) # "lost" /\ LiveOwner(w, t))
    <3>1. rows' = rows
      BY <1>9, <2>6 DEF Finish
    <3> QED BY <2>3, <2>4, <3>1 DEF RowsChange
  <2> QED BY <2>5, <2>6
<1>10. ASSUME NEW Q \in SUBSET Pending, Publish(Q), ghost' = ghost
       PROVE  RowsChange
  BY <1>10 DEF Publish, GivenUp, Pending, Swept, RowsChange
<1>11. ASSUME NEW w \in Workers, Relay(w)
       PROVE  RowsChange /\ P /\ Busy'
  <2>1. Idle \in ExecSet /\ Idle.pc = "idle"
    BY DEF Idle, ExecSet
  <2>2. P /\ Busy'
    BY <1>11, <2>1, BecomesTyped DEF Relay
  <2> QED BY <1>10, <1>11, <2>2 DEF Relay
<1>12. ASSUME NEW w \in Workers, Crash(w)
       PROVE  RowsChange /\ P /\ Busy'
  <2>1. Idle \in ExecSet /\ Idle.pc = "idle"
    BY DEF Idle, ExecSet
  <2> QED BY <1>12, <2>1, BecomesTyped DEF Crash, RowsChange
<1>13. ASSUME NEW here, NEW then \in {"leases", "publish", "prune"},
              LoopAt(here, then)
       PROVE  P /\ Busy'
  BY <1>13 DEF LoopAt, Typed, Busy, Pc, At, Verdict
<1>14. ASSUME ReconcileLeases
       PROVE  RowsChange /\ P /\ Busy'
  <2>1. Swept
    BY <1>14 DEF ReconcileLeases, FailExpired, GivenUp, Expired, Running,
                 Swept
  <2> QED BY <1>13, <1>14, <2>1 DEF ReconcileLeases, RowsChange
<1>15. ASSUME PublishPending
       PROVE  RowsChange /\ P /\ Busy'
  BY <1>10, <1>13, <1>15 DEF PublishPending
<1>16. ASSUME PruneTerminal
       PROVE  RowsChange /\ P /\ Busy'
  <2>1. Swept
    BY <1>16 DEF PruneTerminal, Swept
  <2> QED BY <1>13, <1>16, <2>1 DEF PruneTerminal, RowsChange
<1> QED
  BY <1>1, <1>2, <1>3, <1>4, <1>5, <1>6, <1>7, <1>8, <1>9, <1>11, <1>12,
     <1>14, <1>15, <1>16 DEF Next, WorkerNext

-----------------------------------------------------------------------------
(* The invariant is kept by each of these ways.                            *)

\* What happens to the row of one task, and to its ghost.
RowChange(t) ==
  \/ rows'[t] = rows[t] /\ ghost'[t] = ghost[t]
  \/ \E k \in Keys \cup {NoKey} :
       /\ rows[t].status = "absent"
       /\ rows'[t] = [rows[t] EXCEPT !.status = "pending", !.key = k]
       /\ ghost'[t] = [ghost[t] EXCEPT !.intent = k]
  \/ /\ rows[t].status = "pending" /\ ghost'[t] = ghost[t]
     /\ \E w \in Workers : rows'[t] = Claimed(t, w)
  \/ /\ rows[t].status = "running" /\ ~rows[t].cancel
     /\ rows'[t] = EndedRow(t, "success", "done") /\ ghost'[t] = ghost[t]
  \/ /\ Active(t) /\ ghost'[t] = ghost[t]
     /\ \E s \in {"failed", "cancelled"} :
          rows'[t] = EndedRow(t, s, FailureHook(t))
  \/ /\ rows[t].status = "pending" /\ ghost'[t] = ghost[t]
     /\ rows'[t] = [EndedRow(t, "cancelled", FailureHook(t)) EXCEPT
                      !.cancel = TRUE]
  \/ /\ rows[t].status = "running" /\ ghost'[t] = ghost[t]
     /\ rows'[t] \in {[rows[t] EXCEPT !.cancel = TRUE],
                      [rows[t] EXCEPT !.live = FALSE]}
  \/ /\ rows[t].status = "running" /\ rows'[t] = rows[t]
     /\ ghost'[t] = [ghost[t] EXCEPT !.writes = @ + 1]
  \/ /\ Terminal(t) /\ ghost'[t] = ghost[t]
     /\ rows'[t] = [rows[t] EXCEPT !.status = "gone"]

LEMMA EachRow ==
  ASSUME TaskInv, RowsChange
  PROVE  /\ \A t \in Tasks : RowChange(t)
         /\ rows' = [t \in Tasks |-> rows'[t]]
         /\ ghost' = [t \in Tasks |-> ghost'[t]]
<1> USE DEF TaskInv
<1>0. rows \in [Tasks -> RowSet] /\ ghost \in [Tasks -> GhostSet]
  BY DEF Typed
<1>1. CASE rows' = rows /\ ghost' = ghost
  BY <1>0, <1>1 DEF RowChange
<1>2. ASSUME NEW o \in Tasks, NEW k \in Keys \cup {NoKey}, Submitted(o, k)
      PROVE  /\ \A t \in Tasks : RowChange(t)
             /\ rows' = [t \in Tasks |-> rows'[t]]
             /\ ghost' = [t \in Tasks |-> ghost'[t]]
  BY <1>0, <1>2 DEF Submitted, RowChange
<1>3. ASSUME NEW o \in Tasks, CancelledEarly(o)
      PROVE  /\ \A t \in Tasks : RowChange(t)
             /\ rows' = [t \in Tasks |-> rows'[t]]
             /\ ghost' = [t \in Tasks |-> ghost'[t]]
  BY <1>0, <1>3 DEF CancelledEarly, RowChange
<1>4. ASSUME NEW o \in Tasks, Marked(o)
      PROVE  /\ \A t \in Tasks : RowChange(t)
             /\ rows' = [t \in Tasks |-> rows'[t]]
             /\ ghost' = [t \in Tasks |-> ghost'[t]]
  BY <1>0, <1>4 DEF Marked, RowChange
<1>5. ASSUME NEW o \in Tasks, RanOut(o)
      PROVE  /\ \A t \in Tasks : RowChange(t)
             /\ rows' = [t \in Tasks |-> rows'[t]]
             /\ ghost' = [t \in Tasks |-> ghost'[t]]
  <2>1. rows[o].status = "running"
    BY <1>5 DEF RanOut, RowShape
  <2> QED BY <1>0, <1>5, <2>1 DEF RanOut, RowChange
<1>6. ASSUME NEW o \in Tasks, NEW w \in Workers, Taken(o, w)
      PROVE  /\ \A t \in Tasks : RowChange(t)
             /\ rows' = [t \in Tasks |-> rows'[t]]
             /\ ghost' = [t \in Tasks |-> ghost'[t]]
  BY <1>0, <1>6 DEF Taken, HasSlot, RowChange
<1>7. ASSUME NEW o \in Tasks, NEW w \in Workers, NEW s \in Terminals,
             HeldEnd(o, w, s)
      PROVE  /\ \A t \in Tasks : RowChange(t)
             /\ rows' = [t \in Tasks |-> rows'[t]]
             /\ ghost' = [t \in Tasks |-> ghost'[t]]
  <2>1. ASSUME NEW t \in Tasks PROVE RowChange(t)
    <3>1. CASE t # o
      BY <1>0, <1>7, <3>1 DEF HeldEnd, RowChange
    <3>2. CASE t = o /\ s = "success"
      BY <1>0, <1>7, <3>2 DEF HeldEnd, LiveOwner, RowChange
    <3>3. CASE t = o /\ s # "success"
      BY <1>0, <1>7, <3>3 DEF HeldEnd, LiveOwner, RowChange, Active
    <3> QED BY <3>1, <3>2, <3>3
  <2> QED BY <1>0, <1>7, <2>1 DEF HeldEnd
<1>8. ASSUME NEW w \in Workers, Written(w)
      PROVE  /\ \A t \in Tasks : RowChange(t)
             /\ rows' = [t \in Tasks |-> rows'[t]]
             /\ ghost' = [t \in Tasks |-> ghost'[t]]
  <2>1. rows[At(w)].status = "running"
    BY <1>8 DEF Written, Owned, LiveOwner
  <2> QED BY <1>0, <1>8, <2>1 DEF Written, RowChange
<1>9. ASSUME Swept
      PROVE  /\ \A t \in Tasks : RowChange(t)
             /\ rows' = [t \in Tasks |-> rows'[t]]
             /\ ghost' = [t \in Tasks |-> ghost'[t]]
  BY <1>0, <1>9 DEF Swept, RowChange, Active
<1> QED
  BY <1>1, <1>2, <1>3, <1>4, <1>5, <1>6, <1>7, <1>8, <1>9 DEF RowsChange

\* Everything that is said of one row and its ghost alone.
RowOK(t) ==
  /\ rows[t] \in RowSet /\ ghost[t] \in GhostSet
  /\ rows[t].status # "running" => rows[t].owner = NoWorker /\ ~rows[t].live
  /\ rows[t].key = IF Active(t) THEN ghost[t].intent ELSE NoKey
  /\ rows[t].status \in {"absent", "pending"} => rows[t].attempts = 0
  /\ rows[t].attempts <= 1
  /\ rows[t].status \in {"absent", "pending", "running"} =>
       rows[t].hook = "open"
  /\ rows[t].status = "success" => rows[t].hook = "done"
  /\ rows[t].status \in {"failed", "cancelled"} =>
       rows[t].hook = IF t \in UnknownTasks THEN "open" ELSE "failed"
  /\ rows[t].cancel => rows[t].status \notin {"absent", "success", "pending"}

LEMMA RowsOK ==
  TaskInv <=> /\ rows = [t \in Tasks |-> rows[t]]
              /\ ghost = [t \in Tasks |-> ghost[t]]
              /\ \A t \in Tasks : RowOK(t)
              /\ procs \in [execs : [Workers -> ExecSet],
                            loop : {"leases", "publish", "prune"}]
              /\ Busy /\ KeysUnique /\ SlotsRespected
<1>1. ASSUME TaskInv, NEW t \in Tasks PROVE RowOK(t)
  BY <1>1 DEF TaskInv, Typed, RowShape, TasksAgree, ExecutedOnce, RowOK,
              Active
<1>2. ASSUME rows = [t \in Tasks |-> rows[t]],
             ghost = [t \in Tasks |-> ghost[t]], \A t \in Tasks : RowOK(t)
      PROVE  /\ rows \in [Tasks -> RowSet] /\ ghost \in [Tasks -> GhostSet]
             /\ RowShape /\ TasksAgree /\ ExecutedOnce
  <2>1. rows \in [Tasks -> RowSet] /\ ghost \in [Tasks -> GhostSet]
    BY <1>2 DEF RowOK
  <2>2. RowShape /\ TasksAgree /\ ExecutedOnce
    BY <1>2 DEF RowOK, RowShape, TasksAgree, ExecutedOnce, Active
  <2> QED BY <2>1, <2>2
<1> QED BY <1>1, <1>2 DEF TaskInv, Typed

\* A row stays in order whatever happens to it.
LEMMA RowKept ==
  ASSUME NEW t \in Tasks, RowOK(t), RowChange(t)
  PROVE  RowOK(t)'
<1> USE DEF RowOK, RowSet, GhostSet, Active, Terminal
<1>1. CASE rows'[t] = rows[t] /\ ghost'[t] = ghost[t]
  BY <1>1
<1>2. ASSUME NEW k \in Keys \cup {NoKey}, rows[t].status = "absent",
             rows'[t] = [rows[t] EXCEPT !.status = "pending", !.key = k],
             ghost'[t] = [ghost[t] EXCEPT !.intent = k]
      PROVE  RowOK(t)'
  BY <1>2
<1>3. ASSUME NEW w \in Workers, rows[t].status = "pending",
             ghost'[t] = ghost[t], rows'[t] = Claimed(t, w)
      PROVE  RowOK(t)'
  <2>1. rows[t].attempts + 1 = 1
    BY <1>3
  <2>2. rows'[t] = [rows[t] EXCEPT !.status = "running", !.owner = w,
                                   !.live = TRUE, !.attempts = 1]
    BY <1>3, <2>1 DEF Claimed
  <2>3. rows'[t] \in RowSet
    <3>1. rows[t] \in RowSet /\ 1 \in Nat
      OBVIOUS
    <3> HIDE DEF RowOK, GhostSet, Active, Terminal
    <3> QED BY <2>2, <3>1
  <2>4. /\ rows'[t].status = "running" /\ rows'[t].attempts = 1
        /\ rows'[t].key = rows[t].key /\ rows'[t].hook = rows[t].hook
    BY <1>3, <2>2
  <2> QED BY <1>3, <2>3, <2>4
<1>4. CASE /\ rows[t].status = "running" /\ ~rows[t].cancel
           /\ rows'[t] = EndedRow(t, "success", "done")
           /\ ghost'[t] = ghost[t]
  BY <1>4 DEF EndedRow
<1>5. ASSUME NEW s \in {"failed", "cancelled"}, Active(t),
             ghost'[t] = ghost[t],
             rows'[t] = EndedRow(t, s, FailureHook(t))
      PROVE  RowOK(t)'
  BY <1>5 DEF EndedRow, FailureHook
<1>6. CASE /\ rows[t].status = "pending" /\ ghost'[t] = ghost[t]
           /\ rows'[t] = [EndedRow(t, "cancelled", FailureHook(t)) EXCEPT
                            !.cancel = TRUE]
  BY <1>6 DEF EndedRow, FailureHook
<1>7. CASE /\ rows[t].status = "running" /\ ghost'[t] = ghost[t]
           /\ rows'[t] \in {[rows[t] EXCEPT !.cancel = TRUE],
                            [rows[t] EXCEPT !.live = FALSE]}
  <2>1. rows'[t] \in RowSet
    BY <1>7
  <2>2. /\ rows'[t].status = "running"
        /\ rows'[t].attempts = rows[t].attempts
        /\ rows'[t].key = rows[t].key /\ rows'[t].hook = rows[t].hook
    BY <1>7
  <2> QED BY <1>7, <2>1, <2>2
<1>8. CASE /\ rows[t].status = "running" /\ rows'[t] = rows[t]
           /\ ghost'[t] = [ghost[t] EXCEPT !.writes = @ + 1]
  <2>1. ghost'[t] \in GhostSet /\ ghost'[t].intent = ghost[t].intent
    BY <1>8
  <2> QED BY <1>8, <2>1
<1>9. CASE /\ Terminal(t) /\ ghost'[t] = ghost[t]
           /\ rows'[t] = [rows[t] EXCEPT !.status = "gone"]
  BY <1>9
<1> QED
  BY <1>1, <1>2, <1>3, <1>4, <1>5, <1>6, <1>7, <1>8, <1>9 DEF RowChange

\* Only a submission gives a row a key, and it looked for the key first.
LEMMA KeysStayUnique ==
  ASSUME TaskInv, RowsChange
  PROVE  KeysUnique'
<1> USE DEF TaskInv
<1>0. rows \in [Tasks -> RowSet]
  BY DEF Typed
<1>1. ASSUME NEW o \in Tasks, NEW k \in Keys \cup {NoKey}, Submitted(o, k)
      PROVE  KeysUnique'
  <2>1. rows'[o].key = k
    BY <1>0, <1>1 DEF Submitted, RowSet
  <2>2. \A t \in Tasks \ {o} : rows'[t] = rows[t]
    BY <1>0, <1>1 DEF Submitted
  <2> QED BY <1>1, <2>1, <2>2 DEF Submitted, KeysUnique
<1>2. CASE ~\E o \in Tasks, k \in Keys \cup {NoKey} : Submitted(o, k)
  <2>1. ASSUME NEW t \in Tasks PROVE rows'[t].key \in {rows[t].key, NoKey}
    <3>1. \/ rows'[t] = rows[t]
          \/ \E w \in Workers : rows'[t] = Claimed(t, w)
          \/ \E s \in Terminals, h \in {"open", "done", "failed"} :
               \/ rows'[t] = EndedRow(t, s, h)
               \/ rows'[t] = [EndedRow(t, s, h) EXCEPT !.cancel = TRUE]
          \/ rows'[t] \in {[rows[t] EXCEPT !.cancel = TRUE],
                           [rows[t] EXCEPT !.live = FALSE],
                           [rows[t] EXCEPT !.status = "gone"]}
      <4>1. FailureHook(t) \in {"open", "done", "failed"}
        BY <1>0 DEF FailureHook, RowSet
      <4> QED BY <1>0, <1>2, <4>1 DEF RowsChange, CancelledEarly, Marked,
                 RanOut, Taken, HeldEnd, Written, Swept
    <3> QED BY <1>0, <3>1 DEF Claimed, EndedRow, RowSet
  <2> QED BY <2>1 DEF KeysUnique
<1> QED BY <1>1, <1>2

\* The slots are counted under the lock that gives one away.
LEMMA SlotsStayRespected ==
  ASSUME TaskConstants, TaskInv, RowsChange
  PROVE  SlotsRespected'
<1> USE DEF TaskInv
<1>0. rows \in [Tasks -> RowSet] /\ IsFiniteSet(Running)
  BY FS_Subset DEF Typed, TaskConstants, Running
<1>1. ASSUME NEW o \in Tasks, NEW w \in Workers, Taken(o, w)
      PROVE  SlotsRespected'
  <2>1. Running' = Running \cup {o} /\ o \notin Running
    BY <1>0, <1>1 DEF Taken, HasSlot, Claimed, Running, RowSet
  <2>2. Cardinality(Running') = Cardinality(Running) + 1
    BY <1>0, <2>1, FS_AddElement
  <2>3. Cardinality(Running) < MaxRunning /\ Cardinality(Running) \in Nat
    BY <1>0, <1>1, FS_CardinalityType DEF Taken, HasSlot
  <2> QED BY <2>2, <2>3 DEF SlotsRespected, TaskConstants
<1>2. CASE ~\E o \in Tasks, w \in Workers : Taken(o, w)
  <2>1. Running' \subseteq Running
    <3> SUFFICES ASSUME NEW t \in Tasks, rows'[t].status = "running"
                 PROVE  rows[t].status = "running"
      BY DEF Running
    <3>1. ASSUME NEW o \in Tasks, NEW k \in Keys \cup {NoKey},
                 Submitted(o, k)
          PROVE  rows[t].status = "running"
      BY <1>0, <3>1 DEF Submitted, RowSet
    <3>2. ASSUME NEW o \in Tasks,
                 CancelledEarly(o) \/ Marked(o) \/ RanOut(o)
          PROVE  rows[t].status = "running"
      BY <1>0, <3>2 DEF CancelledEarly, Marked, RanOut, EndedRow, RowSet
    <3>3. ASSUME NEW o \in Tasks, NEW w \in Workers, NEW s \in Terminals,
                 HeldEnd(o, w, s)
          PROVE  rows[t].status = "running"
      BY <1>0, <3>3 DEF HeldEnd, LiveOwner, EndedRow, RowSet
    <3>4. CASE Swept
      BY <1>0, <3>4 DEF Swept, EndedRow, RowSet
    <3> QED BY <1>2, <3>1, <3>2, <3>3, <3>4 DEF RowsChange, Written
  <2>2. Cardinality(Running') <= Cardinality(Running)
    BY <1>0, <2>1, FS_Subset
  <2>3. Cardinality(Running) \in Nat /\ Cardinality(Running') \in Nat
    BY <1>0, <2>1, FS_Subset, FS_CardinalityType
  <2> QED BY <2>2, <2>3 DEF SlotsRespected, TaskConstants
<1> QED BY <1>1, <1>2

-----------------------------------------------------------------------------
(* The theorems.                                                           *)

LEMMA InitInv ==
  ASSUME TaskConstants, Init PROVE TaskInv
<1>1. ASSUME NEW t \in Tasks PROVE RowOK(t)
  BY DEF Init, RowOK, RowSet, GhostSet, Active
<1>2. procs \in [execs : [Workers -> ExecSet],
                 loop : {"leases", "publish", "prune"}]
  BY DEF Init, Idle, ExecSet
<1>3. Busy
  BY DEF Init, Idle, Busy, Pc
<1>4. KeysUnique
  BY DEF Init, KeysUnique
<1>5. SlotsRespected
  <2>1. Running = {}
    BY DEF Init, Running
  <2> QED BY <2>1, FS_EmptySet DEF SlotsRespected, TaskConstants
<1>6. /\ rows = [t \in Tasks |-> rows[t]]
      /\ ghost = [t \in Tasks |-> ghost[t]]
  BY DEF Init
<1> QED BY <1>1, <1>2, <1>3, <1>4, <1>5, <1>6, RowsOK

LEMMA StepInv ==
  ASSUME TaskConstants, TaskInv, [Next]_vars PROVE TaskInv'
<1>1. CASE Next
  <2>1. /\ RowsChange /\ Busy'
        /\ procs' \in [execs : [Workers -> ExecSet],
                       loop : {"leases", "publish", "prune"}]
    BY <1>1, StepShape
  <2>2. /\ \A t \in Tasks : RowOK(t)'
        /\ rows' = [t \in Tasks |-> rows'[t]]
        /\ ghost' = [t \in Tasks |-> ghost'[t]]
    BY <2>1, EachRow, RowsOK, RowKept
  <2>3. KeysUnique' /\ SlotsRespected'
    BY <2>1, KeysStayUnique, SlotsStayRespected
  <2>4. (/\ rows = [t \in Tasks |-> rows[t]]
         /\ ghost = [t \in Tasks |-> ghost[t]]
         /\ \A t \in Tasks : RowOK(t)
         /\ procs \in [execs : [Workers -> ExecSet],
                       loop : {"leases", "publish", "prune"}]
         /\ Busy /\ KeysUnique /\ SlotsRespected)'
    BY <2>1, <2>2, <2>3
  <2> QED BY <2>4, RowsOK, PTL
<1>2. CASE UNCHANGED vars
  BY <1>2 DEF vars, TaskInv, Typed, Busy, RowShape, KeysUnique, TasksAgree,
    ExecutedOnce, SlotsRespected, Running, Active, Pc, At, Verdict
<1> QED BY <1>1, <1>2

\* The invariant that carries the results below: rows, executions and the
\* unique index of dedupe_key (repositories/task_repository.py).
THEOREM TaskInvHolds == TaskConstants => (Spec => []TaskInv)
<1> SUFFICES ASSUME TaskConstants PROVE Spec => []TaskInv
  OBVIOUS
<1>1. Init => TaskInv
  BY InitInv
<1>2. TaskInv /\ [Next]_vars => TaskInv'
  BY StepInv
<1> QED BY <1>1, <1>2, PTL DEF Spec

\* However many workers claim at once, no more tasks run than
\* DURABLE_TASK_MAX_RUNNING.
THEOREM SlotsHold == TaskConstants => (Spec => []SlotsRespected)
BY TaskInvHolds, PTL DEF TaskInv

\* A handler is started at most once: no order of lost workers, repeated
\* deliveries, late heartbeats and reconciliations repeats its side effects.
THEOREM ExecutedAtMostOnce == TaskConstants => (Spec => []ExecutedOnce)
BY TaskInvHolds, PTL DEF TaskInv

\* A task and its domain rows end together and the same way, and an
\* accepted cancellation is not overtaken by success.
THEOREM DomainAgrees == TaskConstants => (Spec => []TasksAgree)
BY TaskInvHolds, PTL DEF TaskInv

\* The dedupe key keeps a second task for the same thing out exactly as
\* long as the first one waits or runs.
THEOREM IntentsUnique == TaskConstants => (Spec => []OneActivePerIntent)
<1>1. TaskInv => OneActivePerIntent
  BY DEF TaskInv, Typed, RowShape, KeysUnique, OneActivePerIntent
<1> QED BY <1>1, TaskInvHolds, PTL

LEMMA QuietKept ==
  ASSUME TaskConstants, TaskInv, [Next]_vars PROVE [QuietStep]_vars
<1>1. CASE UNCHANGED vars
  BY <1>1
<1>2. CASE Next
  <2> SUFFICES ASSUME NEW t \in Tasks, Terminal(t)
               PROVE  /\ rows'[t].status \in {rows[t].status, "gone"}
                      /\ rows'[t].hook = rows[t].hook
                      /\ ghost'[t].writes = ghost[t].writes
    BY DEF QuietStep
  <2>1. RowChange(t) /\ RowOK(t)
    BY <1>2, StepShape, EachRow, RowsOK
  <2>2. \/ rows'[t] = rows[t] /\ ghost'[t] = ghost[t]
        \/ /\ ghost'[t] = ghost[t]
           /\ rows'[t] = [rows[t] EXCEPT !.status = "gone"]
    BY <2>1 DEF RowChange, Terminal, Active
  <2> QED BY <2>1, <2>2 DEF RowOK, RowSet
<1> QED BY <1>1, <1>2

\* After its end nothing of a task changes any more, whatever an execution
\* that has lost its lease still tries.
THEOREM QuietAfterEnd == TaskConstants => (Spec => [][QuietStep]_vars)
<1> SUFFICES ASSUME TaskConstants PROVE Spec => [][QuietStep]_vars
  OBVIOUS
<1>1. TaskInv /\ [Next]_vars => [QuietStep]_vars
  BY QuietKept
<1> QED BY <1>1, TaskInvHolds, PTL DEF Spec

LEMMA LeaseKept ==
  ASSUME TaskConstants, TaskInv, [Next]_vars
  PROVE  [TL!TaskNext]_LeaseOf
<1> USE DEF TaskInv
<1>0. rows \in [Tasks -> RowSet]
  BY DEF Typed
<1>1. CASE UNCHANGED vars
  BY <1>1 DEF vars, LeaseOf
<1>2. CASE Next
  <2>1. RowsChange
    BY <1>2, StepShape
  <2>2. CASE rows' = rows
    BY <2>2 DEF LeaseOf
  <2>3. ASSUME NEW t \in Tasks, NEW k \in Keys \cup {NoKey},
               Submitted(t, k)
        PROVE  TL!Submit(t)
    <3>1. rows[t].owner = NoWorker /\ ~rows[t].live
      BY <2>3 DEF Submitted, RowShape
    <3> QED BY <1>0, <2>3, <3>1 DEF Submitted, LeaseOf, TL!Submit,
               TL!TaskIn, RowSet
  <2>4. ASSUME NEW t \in Tasks, CancelledEarly(t)
        PROVE  TL!GivenUp(t)
    BY <1>0, <2>4 DEF CancelledEarly, EndedRow, LeaseOf, TL!GivenUp,
      TL!Ended, TL!TaskIn, RowSet
  <2>5. ASSUME NEW t \in Tasks, Marked(t)
        PROVE  UNCHANGED LeaseOf
    BY <1>0, <2>5 DEF Marked, LeaseOf, RowSet
  <2>6. ASSUME NEW t \in Tasks, RanOut(t)
        PROVE  TL!LeaseRunsOut(t)
    BY <1>0, <2>6 DEF RanOut, LeaseOf, TL!LeaseRunsOut, RowSet
  <2>7. ASSUME NEW t \in Tasks, NEW w \in Workers, Taken(t, w)
        PROVE  TL!Take(t, w)
    BY <1>0, <2>7 DEF Taken, HasSlot, Claimed, LeaseOf, TL!Take, RowSet
  <2>8. ASSUME NEW t \in Tasks, NEW w \in Workers, NEW s \in Terminals,
               HeldEnd(t, w, s)
        PROVE  TL!HolderEnds(t, w, s)
    BY <1>0, <2>8 DEF HeldEnd, LiveOwner, EndedRow, LeaseOf,
      TL!HolderEnds, TL!HoldsLease, TL!Ended, TL!TaskIn, RowSet
  <2>9. ASSUME Swept
        PROVE  TL!ManyGivenUp
    <3>1. DOMAIN LeaseOf' = Tasks
      BY DEF LeaseOf
    <3>2. ASSUME NEW t \in Tasks
          PROVE  \/ LeaseOf'[t] = LeaseOf[t]
                 \/ TL!Unheld(t) /\ LeaseOf'[t] = TL!TaskIn("failed")
                 \/ /\ LeaseOf[t].st = "pending"
                    /\ LeaseOf'[t] = TL!TaskIn("failed")
                 \/ /\ LeaseOf[t].st \in TL!EndStatuses
                    /\ LeaseOf'[t] = TL!TaskIn("gone")
      <4>1. CASE rows'[t] = rows[t]
        BY <4>1 DEF LeaseOf
      <4>2. CASE /\ \/ rows[t].status = "pending"
                    \/ rows[t].status = "running" /\ ~rows[t].live
                 /\ rows'[t] = EndedRow(t, "failed", FailureHook(t))
        BY <1>0, <4>2 DEF EndedRow, LeaseOf, TL!Unheld, TL!TaskIn, RowSet
      <4>3. CASE /\ Terminal(t)
                 /\ rows'[t] = [rows[t] EXCEPT !.status = "gone"]
        BY <1>0, <4>3 DEF Terminal, RowShape, LeaseOf, TL!TaskIn,
          TL!EndStatuses, RowSet
      <4> QED BY <2>9, <4>1, <4>2, <4>3 DEF Swept
    <3> QED BY <3>1, <3>2 DEF TL!ManyGivenUp
  <2> QED
    BY <2>1, <2>2, <2>3, <2>4, <2>5, <2>6, <2>7, <2>8, <2>9
    DEF RowsChange, Written, TL!TaskNext, TL!EndStatuses
<1> QED BY <1>1, <1>2

\* Tasks are what KnowledgeFiles, KnowledgeGraph and Evaluation take them
\* for: every step of the rows is one that TaskLease allows, or none at all.
THEOREM LeaseImplemented == TaskConstants => (Spec => TL!TaskSpec)
<1> SUFFICES ASSUME TaskConstants PROVE Spec => TL!TaskSpec
  OBVIOUS
<1>1. Init => TL!TaskInit
  <2> SUFFICES ASSUME Init, NEW t \in Tasks
               PROVE  [st |-> rows[t].status, by |-> rows[t].owner,
                       on |-> rows[t].live]
                        \in {TL!TaskIn("absent"), TL!TaskIn("pending")}
    BY DEF LeaseOf, TL!TaskInit
  <2>1. /\ rows[t].status \in {"absent", "pending"}
        /\ rows[t].owner = NoWorker /\ rows[t].live = FALSE
    BY DEF Init
  <2> QED BY <2>1 DEF TL!TaskIn
<1>2. TaskInv /\ [Next]_vars => [TL!TaskNext]_LeaseOf
  BY LeaseKept
<1> QED BY <1>1, <1>2, TaskInvHolds, PTL DEF Spec, TL!TaskSpec

-----------------------------------------------------------------------------
(* Datasets and evaluations, which run as durable tasks.                   *)

\* Tasks are numbered in the order in which they are used; a dataset is asked
\* for, or uploaded with, one question at least, and a batch has at least one
\* (GenerateDatasetRequest.count, _parse_jsonl_questions,
\* DATASET_PERSIST_BATCH_SIZE).
EvaluationConstants ==
  Jobs \subseteq Nat \ {0} /\ Total \in Nat \ {0} /\ Batch \in Nat \ {0}

Leases ==
  [st : {"absent", "pending", "running", "success", "failed", "cancelled",
         "gone"},
   by : Runners \cup {NoWorker}, on : BOOLEAN]
Metas ==
  [st : {"absent", "gone", "pending", "running", "completed", "failed"},
   task : Jobs \cup {0}]
Figures == [hits : Nat, of : Nat]
RunRows ==
  [st : {"absent", "gone", "running", "completed", "failed"}, done : Nat,
   items : SUBSET (Nat \X EV!Results), recall : Figures, score : Figures]
EvaluationRows ==
  [md : Metas, made : BOOLEAN, count : Nat, items : SUBSET Nat,
   use : [Jobs -> {"none", "generate", "evaluate"}], run : [Jobs -> RunRows]]
Handlers ==
  [pc : {"idle", "count", "open", "items", "last", "salvage", "load", "ask",
         "note", "end", "fail"},
   at : Jobs \cup {0}, next : Nat, buf : Nat, got : Seq(EV!Results)]
Resumptions == [pc : {"no", "count", "attach"}, md : Metas]
Readers ==
  [pc : {"no", "task", "pending", "running", "completed", "failed", "run",
         "run failed"},
   md : Metas, t : Jobs \cup {0}]
EvaluationProcs ==
  [ex : [Runners -> Handlers], resume : Resumptions, look : Readers]
EvaluationGhosts ==
  [stale : BOOLEAN, late : SUBSET Jobs, done : [Jobs -> BOOLEAN]]
EvaluationTyped ==
  /\ lease \in [Jobs -> Leases] /\ rows \in EvaluationRows
  /\ procs \in EvaluationProcs /\ ghost \in EvaluationGhosts

\* What a task is for is known from the moment it is there.
Purposes ==
  /\ \A t \in Jobs :
       /\ rows.use[t] = "none" <=> lease[t].st = "absent"
       /\ rows.use[t] = "evaluate" <=> rows.run[t].st # "absent"
  /\ rows.md.st = "absent" =>
       ~rows.made /\ \A t \in Jobs : rows.use[t] = "none"

\* The task a dataset, or a copy of its row, names is one that generates it.
NamesTask(m) ==
  /\ m.task # 0 => rows.use[m.task] = "generate"
  /\ m.st \in {"pending", "running", "failed"} => m.task # 0
NamesTasks ==
  /\ NamesTask(rows.md) /\ NamesTask(procs.resume.md)
  /\ NamesTask(procs.look.md)
  /\ procs.look.pc \in {"task", "pending", "running", "completed", "failed"} =>
       procs.look.md.st \in {"pending", "running"}
  /\ procs.look.pc \in {"run", "run failed"} =>
       procs.look.t \in Jobs /\ rows.use[procs.look.t] = "evaluate"
  /\ procs.look.pc = "run failed" =>
       lease[procs.look.t].st \in {"failed", "cancelled", "gone"}

\* Items are numbered from zero and counted, none is beyond those asked for.
Items ==
  /\ rows.items = IF EV!Dataset THEN 0 .. (rows.count - 1) ELSE {}
  /\ EV!Dataset => rows.count <= Total
  /\ rows.md.st = "absent" => rows.count = 0

\* All are there once the dataset was completed.
AllThere ==
  /\ rows.md.st = "completed" => rows.count = Total
  /\ EV!Dataset /\ procs.look.pc = "completed" => rows.count = Total
  /\ \A t \in Jobs :
       EV!Dataset /\ (rows.use[t] = "evaluate" \/ lease[t].st = "success") =>
         rows.count = Total

\* What an execution knows of the items, or of the results.
Answers(g) == {<<i - 1, g[i]>> : i \in 1 .. Len(g)}
Generates(e) ==
  /\ e.next + e.buf <= Total
  /\ EV!Dataset => e.next <= rows.count
  /\ e.pc = "count" => e.next = 0 /\ e.buf = 0
  /\ e.pc = "end" => e.next = Total
Evaluates(w, e) ==
  /\ e.pc = "load" => e.got = <<>> /\ e.next = 0
  /\ e.pc \in {"ask", "note", "end"} => e.buf = Total
  /\ e.next = Len(e.got) /\ e.next <= Total
  /\ e.pc = "ask" => e.next < Total
  /\ e.pc = "end" => e.next = Total
  /\ EV!HoldsLease(e.at, w) /\ EV!RunThere(e.at) =>
       rows.run[e.at].items = Answers(e.got)
AtTask(w, e) ==
  /\ e.pc # "idle" =>
       e.at \in Jobs /\ lease[e.at].st \notin {"absent", "pending"}
  /\ e.pc \in {"count", "open", "items", "last", "salvage"} =>
       rows.use[e.at] = "generate"
  /\ e.pc \in {"load", "ask", "note"} => rows.use[e.at] = "evaluate"
  /\ e.pc \notin {"idle", "fail"} =>
       IF rows.use[e.at] = "generate" THEN Generates(e) ELSE Evaluates(w, e)
AtTasks == \A w \in Runners : AtTask(w, EV!Ex(w))

\* A run whose task has not begun has no results, and one that succeeded
\* stays known as such.
NotBegun ==
  \A t \in Jobs :
    /\ lease[t].st \in {"absent", "pending"} => rows.run[t].items = {}
    /\ ghost.done[t] => lease[t].st \in {"success", "gone"}

EvaluationInv ==
  /\ EvaluationTyped /\ Purposes /\ NamesTasks /\ Items /\ AllThere /\ AtTasks
  /\ NotBegun /\ EV!StatusFollowsTask /\ EV!RunsAgree /\ EV!FiguresAgree

-----------------------------------------------------------------------------
\* The definition of FiniteSets as the instance has it.
LEMMA ItemsCounted == \A S : EV!Cardinality(S) = Cardinality(S)
BY DEF EV!Cardinality, Cardinality

LEMMA EvaluationInit ==
  ASSUME EvaluationConstants, EV!Init PROVE EvaluationInv
<1>1. EvaluationTyped
  BY DEF EvaluationConstants, EV!Init, EV!TaskIn, EV!Meta, EV!NoRun, EV!Idle,
         EV!NoFigure, EvaluationTyped, Leases, Metas, Figures, RunRows,
         EvaluationRows, Handlers, Resumptions, Readers, EvaluationProcs,
         EvaluationGhosts
<1>2. Purposes /\ NamesTasks
  BY DEF EV!Init, EV!TaskIn, EV!Meta, EV!NoRun, Purposes, NamesTasks, NamesTask
<1>3. Items /\ AllThere
  BY DEF EV!Init, EV!TaskIn, EV!Meta, EV!Dataset, Items, AllThere
<1>4. AtTasks
  BY DEF EV!Init, EV!Idle, EV!Ex, AtTasks, AtTask
<1>5. NotBegun /\ EV!StatusFollowsTask /\ EV!RunsAgree /\ EV!FiguresAgree
  BY DEF EV!Init, EV!TaskIn, EV!Meta, EV!NoRun, EV!Active, NotBegun,
         EV!StatusFollowsTask, EV!RunsAgree, EV!FiguresAgree
<1> QED BY <1>1, <1>2, <1>3, <1>4, <1>5 DEF EvaluationInv

\* How many items are stored.
LEMMA StoredIs ==
  ASSUME EvaluationConstants, EvaluationInv
  PROVE  /\ EV!Stored \in Nat /\ EV!Stored <= Total
         /\ EV!Stored = IF EV!Dataset THEN rows.count ELSE 0
<1>1. EV!Stored = Cardinality(rows.items)
  BY ItemsCounted DEF EV!Stored
<1>2. rows.count \in Nat /\ Total \in Nat
  BY DEF EvaluationConstants, EvaluationInv, EvaluationTyped, EvaluationRows
<1>3. CASE EV!Dataset
  <2>1. rows.items = 0 .. (rows.count - 1) /\ rows.count <= Total
    BY <1>3 DEF EvaluationInv, Items
  <2>2. Cardinality(0 .. (rows.count - 1)) = rows.count
    BY <1>2, FS_Interval
  <2> QED BY <1>1, <1>2, <1>3, <2>1, <2>2
<1>4. CASE ~EV!Dataset
  BY <1>1, <1>2, <1>4, FS_EmptySet DEF EvaluationInv, Items
<1> QED BY <1>3, <1>4

-----------------------------------------------------------------------------
\* What a step leaves of what an execution knows.
Undisturbed(v) ==
  /\ \A t \in Jobs :
       /\ lease[t].st \notin {"absent", "pending"} =>
            lease'[t].st \notin {"absent", "pending"}
       /\ rows.use[t] # "none" => rows'.use[t] = rows.use[t]
       /\ EV!HoldsLease(t, v)' /\ EV!RunThere(t)' =>
            /\ EV!HoldsLease(t, v) /\ EV!RunThere(t)
            /\ rows'.run[t].items = rows.run[t].items
  /\ EV!Dataset' =>
       rows.md.st = "absent" \/ (EV!Dataset /\ rows.count <= rows'.count)

LEMMA StaysAtTask ==
  ASSUME EvaluationConstants, EvaluationInv, EvaluationTyped',
         NEW v \in Runners, NEW e \in Handlers, AtTask(v, e), Undisturbed(v)
  PROVE  AtTask(v, e)'
<1> DEFINE t == e.at
<1>1. CASE e.pc = "idle"
  BY <1>1 DEF AtTask
<1>2. CASE e.pc # "idle"
  <2>1. /\ t \in Jobs /\ lease[t].st \notin {"absent", "pending"}
        /\ rows.use[t] # "none" /\ rows.md.st # "absent"
    BY <1>2 DEF AtTask, EvaluationInv, Purposes
  <2>2. /\ lease'[t].st \notin {"absent", "pending"}
        /\ rows'.use[t] = rows.use[t]
        /\ EV!HoldsLease(t, v)' /\ EV!RunThere(t)' =>
            /\ EV!HoldsLease(t, v) /\ EV!RunThere(t)
            /\ rows'.run[t].items = rows.run[t].items
        /\ EV!Dataset' => EV!Dataset /\ rows.count <= rows'.count
    BY <2>1 DEF Undisturbed
  <2>3. rows.count \in Nat /\ rows'.count \in Nat /\ e.next \in Nat
    BY DEF EvaluationInv, EvaluationTyped, EvaluationRows, Handlers
  <2>4. Generates(e) => Generates(e)'
    BY <2>2, <2>3 DEF Generates
  <2>5. Evaluates(v, e) => Evaluates(v, e)'
    BY <2>2 DEF Evaluates
  <2> QED BY <2>1, <2>2, <2>4, <2>5 DEF AtTask
<1> QED BY <1>1, <1>2

LEMMA ProcsWritten ==
  ASSUME procs \in EvaluationProcs, NEW w \in Runners, NEW e \in Handlers,
         procs' = [procs EXCEPT !.ex[w] = e]
  PROVE  /\ procs' \in EvaluationProcs
         /\ procs'.resume = procs.resume /\ procs'.look = procs.look
         /\ procs'.ex[w] = e
         /\ \A v \in Runners : v # w => procs'.ex[v] = procs.ex[v]
BY DEF EvaluationProcs

\* An execution goes on, and nothing else changes.
LEMMA HandlerGoesOn ==
  ASSUME EvaluationConstants, EvaluationInv, NEW w \in Runners,
         NEW e \in Handlers, AtTask(w, e), EV!Becomes(w, e),
         UNCHANGED <<lease, rows, ghost>>
  PROVE  EvaluationInv'
<1>1. /\ procs' \in EvaluationProcs
      /\ procs'.resume = procs.resume /\ procs'.look = procs.look
      /\ procs'.ex[w] = e
      /\ \A v \in Runners : v # w => procs'.ex[v] = procs.ex[v]
  BY ProcsWritten DEF EvaluationInv, EvaluationTyped, EV!Becomes
<1>2. EvaluationTyped'
  BY <1>1 DEF EvaluationInv, EvaluationTyped
<1>3. /\ Purposes' /\ NamesTasks' /\ Items' /\ AllThere' /\ NotBegun'
      /\ EV!StatusFollowsTask' /\ EV!RunsAgree' /\ EV!FiguresAgree'
  <2>1. Purposes' /\ NotBegun'
    BY DEF EvaluationInv, Purposes, NotBegun
  <2>2. NamesTasks'
    BY <1>1 DEF EvaluationInv, NamesTasks, NamesTask
  <2>3. Items' /\ AllThere'
    BY <1>1 DEF EvaluationInv, Items, AllThere, EV!Dataset
  <2>4. EV!StatusFollowsTask' /\ EV!RunsAgree' /\ EV!FiguresAgree'
    BY DEF EvaluationInv, EV!StatusFollowsTask, EV!RunsAgree, EV!FiguresAgree,
           EV!Active
  <2> QED BY <2>1, <2>2, <2>3, <2>4
<1>4. AtTasks'
  <2> SUFFICES ASSUME NEW v \in Runners PROVE AtTask(v, EV!Ex(v))'
    BY DEF AtTasks
  <2>1. PICK f \in Handlers : f = procs'.ex[v] /\ AtTask(v, f)
    BY <1>1 DEF EvaluationInv, AtTasks, EV!Ex, EvaluationProcs
  <2>2. AtTask(v, f)'
    BY <2>1 DEF AtTask, Generates, Evaluates, EV!Dataset, EV!HoldsLease,
                EV!RunThere
  <2> QED BY <2>1, <2>2 DEF EV!Ex
<1> QED BY <1>2, <1>3, <1>4 DEF EvaluationInv

\* The steps of an execution that change nothing else.
LEMMA GoesKept ==
  ASSUME EvaluationConstants, EvaluationInv, NEW w \in Runners, NEW p,
         EV!Ex(w).pc # "idle", EV!Goes(w, p),
         \/ p = "fail"
         \/ /\ p \in {"last", "salvage"}
            /\ EV!Ex(w).pc \in {"open", "items"}
  PROVE  EvaluationInv'
<1> DEFINE e == EV!Ex(w)
           f == [e EXCEPT !.pc = p]
<1>1. e \in Handlers /\ AtTask(w, e)
  BY DEF EvaluationInv, EvaluationTyped, EvaluationProcs, AtTasks, EV!Ex
<1>2. f \in Handlers
  BY <1>1 DEF Handlers
<1>3. f.pc = p /\ f.at = e.at /\ f.next = e.next /\ f.buf = e.buf
  BY <1>1 DEF Handlers
<1>4. AtTask(w, f)
  BY <1>1, <1>3 DEF AtTask, Generates
<1> QED BY <1>2, <1>4, HandlerGoesOn DEF EV!Goes

LEMMA BecomesIdle ==
  ASSUME EvaluationConstants, EvaluationInv, NEW w \in Runners,
         EV!Crash(w) \/ EV!Lost(w)
  PROVE  EvaluationInv'
<1>1. EV!Idle \in Handlers /\ AtTask(w, EV!Idle)
  BY DEF Handlers, EV!Idle, AtTask
<1> QED BY <1>1, HandlerGoesOn DEF EV!Crash, EV!Lost

LEMMA CountsItems ==
  ASSUME EvaluationConstants, EvaluationInv, NEW w \in Runners,
         EV!CountItems(w)
  PROVE  EvaluationInv'
<1> DEFINE e == EV!Ex(w)
           f == [e EXCEPT !.next = EV!Stored,
                          !.pc = IF EV!Stored >= Total THEN "end" ELSE "open"]
<1>1. e \in Handlers /\ AtTask(w, e) /\ e.pc = "count"
  BY DEF EvaluationInv, EvaluationTyped, EvaluationProcs, AtTasks, EV!Ex,
         EV!CountItems
<1>2. f \in Handlers
  BY <1>1, StoredIs DEF Handlers
<1>3. /\ f.pc = IF EV!Stored >= Total THEN "end" ELSE "open"
      /\ f.at = e.at /\ f.next = EV!Stored /\ f.buf = e.buf
  BY <1>1 DEF Handlers
<1>4. e.buf = 0 /\ rows.use[e.at] = "generate"
  BY <1>1 DEF AtTask, Generates
<1>5. Generates(f)
  BY <1>3, <1>4, StoredIs DEF Generates, EvaluationConstants
<1>6. AtTask(w, f)
  BY <1>1, <1>3, <1>4, <1>5 DEF AtTask
<1> QED BY <1>2, <1>6, HandlerGoesOn DEF EV!CountItems

LEMMA Generating ==
  ASSUME EvaluationConstants, EvaluationInv, NEW w \in Runners,
         EV!Question(w)
  PROVE  EvaluationInv'
<1> DEFINE e == EV!Ex(w)
           f == [e EXCEPT !.buf = @ + 1]
<1>1. e \in Handlers /\ AtTask(w, e) /\ e.pc = "items"
  BY DEF EvaluationInv, EvaluationTyped, EvaluationProcs, AtTasks, EV!Ex,
         EV!Question
<1>2. f \in Handlers
  BY <1>1 DEF Handlers
<1>3. f.pc = e.pc /\ f.at = e.at /\ f.next = e.next /\ f.buf = e.buf + 1
  BY <1>1 DEF Handlers
<1>4. e.next + e.buf < Total
  BY DEF EV!Question
<1>5. Generates(f)
  BY <1>1, <1>3, <1>4 DEF AtTask, Generates, Handlers, EvaluationConstants
<1>6. AtTask(w, f)
  BY <1>1, <1>3, <1>5 DEF AtTask
<1> QED BY <1>2, <1>6, HandlerGoesOn DEF EV!Question

LEMMA LoadsItems ==
  ASSUME EvaluationConstants, EvaluationInv, NEW w \in Runners,
         EV!LoadItems(w)
  PROVE  EvaluationInv'
<1> DEFINE e == EV!Ex(w)
           f == [e EXCEPT !.pc = "ask", !.buf = EV!Stored]
<1>1. e \in Handlers /\ AtTask(w, e) /\ e.pc = "load"
  BY DEF EvaluationInv, EvaluationTyped, EvaluationProcs, AtTasks, EV!Ex,
         EV!LoadItems
<1>2. CASE EV!Stored = 0
  BY <1>1, <1>2, GoesKept DEF EV!LoadItems
<1>3. CASE EV!Stored # 0
  <2>1. f \in Handlers
    BY <1>1, StoredIs DEF Handlers
  <2>2. f.pc = "ask" /\ f.at = e.at /\ f.next = e.next /\ f.buf = EV!Stored
          /\ f.got = e.got
    BY <1>1 DEF Handlers
  <2>3. e.at \in Jobs /\ rows.use[e.at] = "evaluate" /\ Evaluates(w, e)
    BY <1>1 DEF AtTask
  <2>4. EV!Stored = Total
    BY <1>3, <2>3, StoredIs DEF EvaluationInv, AllThere
  <2>5. Evaluates(w, f)
    BY <1>1, <2>2, <2>3, <2>4 DEF Evaluates, EvaluationConstants
  <2>6. AtTask(w, f)
    BY <1>1, <2>2, <2>3, <2>5 DEF AtTask
  <2> QED BY <1>3, <2>1, <2>6, HandlerGoesOn DEF EV!LoadItems
<1> QED BY <1>2, <1>3

-----------------------------------------------------------------------------
\* Requests and readers that have read and not yet written.
LEMMA ReadersGoOn ==
  ASSUME EvaluationConstants, EvaluationInv, NEW r \in Resumptions,
         NEW l \in Readers,
         procs' = [procs EXCEPT !.resume = r, !.look = l],
         UNCHANGED <<lease, rows, ghost>>,
         NamesTask(r.md), NamesTask(l.md),
         l.pc \in {"task", "pending", "running", "completed", "failed"} =>
           l.md.st \in {"pending", "running"},
         l.pc \in {"run", "run failed"} =>
           l.t \in Jobs /\ rows.use[l.t] = "evaluate",
         l.pc = "run failed" =>
           lease[l.t].st \in {"failed", "cancelled", "gone"},
         EV!Dataset /\ l.pc = "completed" => rows.count = Total
  PROVE  EvaluationInv'
<1>1. /\ procs' \in EvaluationProcs
      /\ procs'.resume = r /\ procs'.look = l /\ procs'.ex = procs.ex
  BY DEF EvaluationInv, EvaluationTyped, EvaluationProcs
<1>2. EvaluationTyped'
  BY <1>1 DEF EvaluationInv, EvaluationTyped
<1>3. Purposes' /\ NotBegun'
  BY DEF EvaluationInv, Purposes, NotBegun
<1>4. NamesTasks'
  BY <1>1 DEF EvaluationInv, NamesTasks, NamesTask
<1>5. Items' /\ AllThere'
  BY <1>1 DEF EvaluationInv, Items, AllThere, EV!Dataset
<1>6. EV!StatusFollowsTask' /\ EV!RunsAgree' /\ EV!FiguresAgree'
  BY DEF EvaluationInv, EV!StatusFollowsTask, EV!RunsAgree, EV!FiguresAgree,
         EV!Active
<1>7. AtTasks'
  <2> SUFFICES ASSUME NEW v \in Runners PROVE AtTask(v, EV!Ex(v))'
    BY DEF AtTasks
  <2>1. PICK f \in Handlers : f = procs'.ex[v] /\ AtTask(v, f)
    BY <1>1 DEF EvaluationInv, AtTasks, EV!Ex, EvaluationProcs
  <2>2. AtTask(v, f)'
    BY <2>1 DEF AtTask, Generates, Evaluates, EV!Dataset, EV!HoldsLease,
                EV!RunThere
  <2> QED BY <2>1, <2>2 DEF EV!Ex
<1> QED BY <1>2, <1>3, <1>4, <1>5, <1>6, <1>7 DEF EvaluationInv

LEMMA ProcsAre ==
  ASSUME EvaluationInv
  PROVE  /\ procs.resume \in Resumptions /\ procs.look \in Readers
         /\ \A r : [procs EXCEPT !.resume = r] =
                     [procs EXCEPT !.resume = r, !.look = procs.look]
         /\ \A l : [procs EXCEPT !.look = l] =
                     [procs EXCEPT !.resume = procs.resume, !.look = l]
         /\ \A p : [procs EXCEPT !.look.pc = p] =
                     [procs EXCEPT !.look = [procs.look EXCEPT !.pc = p]]
         /\ EV!Meta("absent", 0) \in Metas /\ NamesTask(EV!Meta("absent", 0))
         /\ rows.md \in Metas
<1>1. procs \in EvaluationProcs /\ rows.md \in Metas
  BY DEF EvaluationInv, EvaluationTyped, EvaluationRows
<1>2. EV!Meta("absent", 0) \in Metas /\ NamesTask(EV!Meta("absent", 0))
  BY DEF EV!Meta, Metas, NamesTask
<1> QED BY <1>1, <1>2 DEF EvaluationProcs

LEMMA ResumptionReads ==
  ASSUME EvaluationConstants, EvaluationInv,
         NEW p \in {"no", "count", "attach"},
         NEW m \in Metas, NamesTask(m), EV!Resumes(p, m),
         UNCHANGED <<lease, rows, ghost>>
  PROVE  EvaluationInv'
<1> DEFINE r == [pc |-> p, md |-> m]
<1>1. r \in Resumptions /\ r.md = m
  BY DEF Resumptions
<1>2. procs' = [procs EXCEPT !.resume = r, !.look = procs.look]
  BY ProcsAre DEF EV!Resumes
<1> QED
  BY <1>1, <1>2, ProcsAre, ReadersGoOn DEF EvaluationInv, NamesTasks, AllThere

LEMMA ReaderEnds ==
  ASSUME EvaluationConstants, EvaluationInv, EV!LookEnds,
         UNCHANGED <<lease, rows, ghost>>
  PROVE  EvaluationInv'
<1> DEFINE l == [pc |-> "no", md |-> EV!Meta("absent", 0), t |-> 0]
<1>1. l \in Readers /\ l.pc = "no" /\ l.md = EV!Meta("absent", 0)
  BY ProcsAre DEF Readers
<1>2. procs' = [procs EXCEPT !.resume = procs.resume, !.look = l]
  BY ProcsAre DEF EV!LookEnds, EV!Looks
<1> QED BY <1>1, <1>2, ProcsAre, ReadersGoOn DEF EvaluationInv, NamesTasks

LEMMA ReaderReads ==
  ASSUME EvaluationConstants, EvaluationInv,
         \/ EV!LookAtDataset \/ EV!LookAtTask \/ EV!LookAtRunTask
         \/ \E t \in Jobs : EV!LookAtRun(t)
  PROVE  EvaluationInv'
<1>0. NamesTask(rows.md) /\ NamesTask(procs.resume.md)
        /\ NamesTask(procs.look.md)
  BY DEF EvaluationInv, NamesTasks
<1>1. CASE EV!LookAtDataset
  <2> DEFINE l == [pc |-> "task", md |-> rows.md, t |-> 0]
  <2>1. l \in Readers /\ l.pc = "task" /\ l.md = rows.md
    BY ProcsAre DEF Readers
  <2>2. procs' = [procs EXCEPT !.resume = procs.resume, !.look = l]
    BY <1>1, ProcsAre DEF EV!LookAtDataset, EV!Looks
  <2> QED BY <1>0, <1>1, <2>1, <2>2, ProcsAre, ReadersGoOn DEF EV!LookAtDataset
<1>2. CASE EV!LookAtTask
  <2> DEFINE l == procs.look
             new == EV!Projected(lease[l.md.task].st)
             k == [l EXCEPT !.pc = new]
  <2>1. CASE new = l.md.st
    BY <1>2, <2>1, ReaderEnds DEF EV!LookAtTask
  <2>2. CASE new # l.md.st
    <3>1. l \in Readers /\ l.md.st \in {"pending", "running"}
      BY <1>2, ProcsAre DEF EvaluationInv, NamesTasks, EV!LookAtTask
    <3>2. l.md.task \in Jobs
      BY <1>0, <3>1 DEF NamesTask, Readers, Metas
    <3>3. new \in {"pending", "running", "completed", "failed"}
      BY DEF EV!Projected
    <3>4. k \in Readers /\ k.pc = new /\ k.md = l.md
      BY <3>1, <3>3 DEF Readers
    <3>5. EV!Dataset /\ new = "completed" => rows.count = Total
      BY <3>2 DEF EvaluationInv, AllThere, EV!Projected
    <3>6. procs' = [procs EXCEPT !.resume = procs.resume, !.look = k]
      BY <1>2, <2>2, ProcsAre DEF EV!LookAtTask
    <3> QED
      BY <1>0, <1>2, <3>1, <3>3, <3>4, <3>5, <3>6, ProcsAre, ReadersGoOn
         DEF EV!LookAtTask
  <2> QED BY <2>1, <2>2
<1>3. CASE EV!LookAtRunTask
  <2> DEFINE l == procs.look
             k == [l EXCEPT !.pc = "run failed"]
  <2>1. CASE lease[l.t].st \notin {"failed", "cancelled", "gone"}
    BY <1>3, <2>1, ReaderEnds DEF EV!LookAtRunTask
  <2>2. CASE lease[l.t].st \in {"failed", "cancelled", "gone"}
    <3>1. l \in Readers /\ l.t \in Jobs /\ rows.use[l.t] = "evaluate"
      BY <1>3, ProcsAre DEF EvaluationInv, NamesTasks, EV!LookAtRunTask
    <3>2. k \in Readers /\ k.pc = "run failed" /\ k.md = l.md /\ k.t = l.t
      BY <3>1 DEF Readers
    <3>3. procs' = [procs EXCEPT !.resume = procs.resume, !.look = k]
      BY <1>3, <2>2, ProcsAre DEF EV!LookAtRunTask
    <3> QED
      BY <1>0, <1>3, <2>2, <3>1, <3>2, <3>3, ProcsAre, ReadersGoOn
         DEF EV!LookAtRunTask
  <2> QED BY <2>1, <2>2
<1>4. ASSUME NEW t \in Jobs, EV!LookAtRun(t) PROVE EvaluationInv'
  <2> DEFINE l == [pc |-> "run", md |-> EV!Meta("absent", 0), t |-> t]
  <2>1. l \in Readers /\ l.pc = "run" /\ l.t = t /\ l.md = EV!Meta("absent", 0)
    BY ProcsAre DEF Readers
  <2>2. procs' = [procs EXCEPT !.resume = procs.resume, !.look = l]
    BY <1>4, ProcsAre DEF EV!LookAtRun, EV!Looks
  <2>3. rows.use[t] = "evaluate"
    BY <1>4 DEF EV!LookAtRun, EvaluationInv, Purposes
  <2> QED
    BY <1>0, <1>4, <2>1, <2>2, <2>3, ProcsAre, ReadersGoOn DEF EV!LookAtRun
<1> QED BY <1>1, <1>2, <1>3, <1>4

-----------------------------------------------------------------------------
\* Executions know what they knew, whatever else a step does.
LEMMA StayAtTasks ==
  ASSUME EvaluationConstants, EvaluationInv, EvaluationTyped',
         \A v \in Runners : Undisturbed(v) /\ AtTask(v, procs'.ex[v])
  PROVE  AtTasks'
<1> SUFFICES ASSUME NEW v \in Runners PROVE AtTask(v, EV!Ex(v))'
  BY DEF AtTasks
<1>1. PICK e \in Handlers : e = procs'.ex[v] /\ AtTask(v, e)
  BY DEF EvaluationTyped, EvaluationProcs
<1>2. AtTask(v, e)'
  BY <1>1, StaysAtTask
<1> QED BY <1>1, <1>2 DEF EV!Ex

\* Runs, their figures and their tasks stay.
LEMMA RunsStay ==
  ASSUME EvaluationInv, UNCHANGED <<rows.run, rows.use>>,
         ghost'.late = ghost.late, ghost'.done = ghost.done,
         \A t \in Jobs : rows.use[t] = "evaluate" =>
           \/ lease'[t].st = lease[t].st
           \/ EV!Active(t) /\ EV!Active(t)'
           \/ lease[t].st \in EV!EndStatuses /\ lease'[t].st = "gone",
         \A t \in Jobs : lease'[t].st \in {"absent", "pending"} =>
                           lease[t].st \in {"absent", "pending"},
         \A t \in Jobs : lease[t].st \in {"success", "gone"} =>
                           lease'[t].st \in {"success", "gone"}
  PROVE  NotBegun' /\ EV!RunsAgree' /\ EV!FiguresAgree'
<1>1. NotBegun'
  BY DEF EvaluationInv, NotBegun
<1>2. EV!RunsAgree'
  BY DEF EvaluationInv, Purposes, NotBegun, EV!RunsAgree, EV!Active,
         EV!EndStatuses
<1>3. EV!FiguresAgree'
  BY DEF EvaluationInv, EV!FiguresAgree
<1> QED BY <1>1, <1>2, <1>3

\* Tasks go on the way tasks do, and one succeeds only once all items are
\* there; items stay, and the row of the dataset is written with what is true.
TasksGoOn ==
  \A t \in Jobs :
    /\ lease[t].st = "absent" <=> lease'[t].st = "absent"
    /\ lease'[t].st = "pending" => lease[t].st = "pending"
    /\ EV!Active(t)' => EV!Active(t)
    /\ lease'[t].st = "success" /\ EV!Dataset =>
         lease[t].st = "success" \/ rows.count = Total
    /\ lease[t].st \in {"failed", "cancelled", "gone"} =>
         lease'[t].st \in {"failed", "cancelled", "gone"}
    /\ lease[t].st \in {"success", "gone"} =>
         lease'[t].st \in {"success", "gone"}
RowsGoOn ==
  /\ UNCHANGED <<rows.made, rows.use, rows.count, rows.items>>
  /\ \A t \in Jobs : rows'.run[t].st = "absent" <=> rows.run[t].st = "absent"
  /\ \/ rows'.md = rows.md
     \/ /\ EV!Dataset /\ rows'.md.st \notin {"absent", "gone"}
        /\ NamesTask(rows'.md)
        /\ rows'.md.st = "completed" => rows.count = Total
RunUntouched(v) ==
  \A t \in Jobs : EV!HoldsLease(t, v)' /\ EV!RunThere(t)' =>
    /\ EV!HoldsLease(t, v) /\ EV!RunThere(t)
    /\ rows'.run[t].items = rows.run[t].items
ReadersGone ==
  /\ NamesTask(procs'.resume.md)
  /\ procs'.look \in {procs.look, [pc |-> "no", md |-> EV!Meta("absent", 0),
                                   t |-> 0]}

LEMMA GoesOn ==
  ASSUME EvaluationConstants, EvaluationInv, EvaluationTyped',
         TasksGoOn, RowsGoOn, ReadersGone
  PROVE  /\ Purposes' /\ NamesTasks' /\ Items' /\ AllThere'
         /\ \A v \in Runners : RunUntouched(v) => Undisturbed(v)
<1>1. EV!Dataset' <=> EV!Dataset
  BY DEF RowsGoOn, EV!Dataset
<1>2. Purposes'
  BY DEF EvaluationInv, Purposes, TasksGoOn, RowsGoOn, EV!Dataset
<1>3. \A m : NamesTask(m)' <=> NamesTask(m)
  BY DEF NamesTask, RowsGoOn
<1>4. NamesTasks'
  <2>1. NamesTask(rows.md)' /\ NamesTask(procs.resume.md)'
    BY <1>3 DEF EvaluationInv, NamesTasks, NamesTask, RowsGoOn, ReadersGone
  <2>2. CASE procs'.look = procs.look
    <3>1. procs.look.t \in Jobs /\
            lease[procs.look.t].st \in {"failed", "cancelled", "gone"} =>
            lease'[procs.look.t].st \in {"failed", "cancelled", "gone"}
      BY DEF TasksGoOn
    <3>2. NamesTask(procs.look.md)'
      BY <1>3, <2>2 DEF EvaluationInv, NamesTasks, NamesTask, RowsGoOn
    <3>3. rows'.use = rows.use
      BY DEF RowsGoOn
    <3> QED BY <2>1, <2>2, <3>1, <3>2, <3>3 DEF EvaluationInv, NamesTasks
  <2>3. CASE procs'.look = [pc |-> "no", md |-> EV!Meta("absent", 0), t |-> 0]
    BY <2>1, <2>3 DEF NamesTasks, NamesTask, EV!Meta
  <2> QED BY <2>2, <2>3 DEF ReadersGone
<1>5. Items'
  BY <1>1 DEF EvaluationInv, Items, RowsGoOn, EV!Dataset
<1>6. AllThere'
  BY <1>1 DEF EvaluationInv, AllThere, RowsGoOn, TasksGoOn, ReadersGone,
              EV!Dataset
<1>7. ASSUME NEW v \in Runners, RunUntouched(v) PROVE Undisturbed(v)
  <2>1. rows.count \in Nat
    BY DEF EvaluationInv, EvaluationTyped, EvaluationRows
  <2> QED
    BY <1>1, <1>7, <2>1 DEF RunUntouched, Undisturbed, TasksGoOn, RowsGoOn
<1> QED BY <1>2, <1>4, <1>5, <1>6, <1>7

\* The row of the dataset is written, and nothing else of it.
LEMMA MetaWritten ==
  ASSUME EvaluationConstants, EvaluationInv, NEW m \in Metas, EV!Dataset,
         m.st \notin {"absent", "gone"}, NamesTask(m),
         m.st = "completed" => rows.count = Total,
         rows' = [rows EXCEPT !.md = m], lease' = lease,
         ghost' \in EvaluationGhosts, ghost'.late = ghost.late,
         ghost'.done = ghost.done,
         procs' \in EvaluationProcs, ReadersGone,
         \A v \in Runners : AtTask(v, procs'.ex[v]),
         ~ghost'.stale =>
           /\ m.st \in {"pending", "running"} => EV!Active(m.task)
           /\ m.st = "failed" =>
                \A t \in Jobs : rows.use[t] = "generate" => ~EV!Active(t)
  PROVE  EvaluationInv'
<1>1. /\ rows' \in EvaluationRows /\ rows'.md = m
      /\ rows'.run = rows.run /\ rows'.use = rows.use
      /\ UNCHANGED <<rows.made, rows.count, rows.items>>
  BY DEF EvaluationInv, EvaluationTyped, EvaluationRows
<1>2. EvaluationTyped'
  BY <1>1 DEF EvaluationInv, EvaluationTyped
<1>3. TasksGoOn
  BY DEF TasksGoOn, EV!Active
<1>4. RowsGoOn
  BY <1>1 DEF RowsGoOn
<1>5. \A v \in Runners : RunUntouched(v)
  BY <1>1 DEF RunUntouched, EV!HoldsLease, EV!RunThere
<1>6. Purposes' /\ NamesTasks' /\ Items' /\ AllThere' /\ AtTasks'
  BY <1>2, <1>3, <1>4, <1>5, GoesOn, StayAtTasks
<1>7. NotBegun' /\ EV!RunsAgree' /\ EV!FiguresAgree'
  BY <1>1, RunsStay
<1>8. EV!StatusFollowsTask'
  BY <1>1 DEF EvaluationInv, EV!StatusFollowsTask, EV!Active
<1> QED BY <1>2, <1>6, <1>7, <1>8 DEF EvaluationInv

LEMMA ResumesKept ==
  ASSUME EvaluationConstants, EvaluationInv,
         NEW p \in {"no", "count", "attach"},
         NEW m \in Metas, NamesTask(m), EV!Resumes(p, m)
  PROVE  /\ procs' \in EvaluationProcs /\ ReadersGone
         /\ \A v \in Runners : AtTask(v, procs'.ex[v])
<1>1. /\ procs' \in EvaluationProcs /\ procs'.look = procs.look
      /\ procs'.resume.md = m /\ procs'.ex = procs.ex
  BY DEF EvaluationInv, EvaluationTyped, EvaluationProcs, EV!Resumes,
         Resumptions
<1> QED BY <1>1 DEF ReadersGone, EvaluationInv, AtTasks, EV!Ex

LEMMA LookEndsKept ==
  ASSUME EvaluationConstants, EvaluationInv, EV!LookEnds
  PROVE  /\ procs' \in EvaluationProcs /\ ReadersGone
         /\ \A v \in Runners : AtTask(v, procs'.ex[v])
<1>1. /\ procs' \in EvaluationProcs /\ procs'.resume = procs.resume
      /\ procs'.look = [pc |-> "no", md |-> EV!Meta("absent", 0), t |-> 0]
      /\ procs'.ex = procs.ex
  BY DEF EvaluationInv, EvaluationTyped, EvaluationProcs, EV!LookEnds,
         EV!Looks, Readers, EV!Meta, Metas
<1> QED BY <1>1 DEF ReadersGone, EvaluationInv, AtTasks, EV!Ex, NamesTasks

LEMMA BecomesKept ==
  ASSUME EvaluationConstants, EvaluationInv, NEW w \in Runners,
         NEW e \in Handlers, AtTask(w, e), EV!Becomes(w, e)
  PROVE  /\ procs' \in EvaluationProcs /\ ReadersGone
         /\ \A v \in Runners : AtTask(v, procs'.ex[v])
<1>1. /\ procs' \in EvaluationProcs
      /\ procs'.resume = procs.resume /\ procs'.look = procs.look
      /\ procs'.ex[w] = e
      /\ \A v \in Runners : v # w => procs'.ex[v] = procs.ex[v]
  BY ProcsWritten DEF EvaluationInv, EvaluationTyped, EV!Becomes
<1> QED BY <1>1 DEF ReadersGone, EvaluationInv, AtTasks, EV!Ex, NamesTasks

LEMMA GhostsStay ==
  ASSUME EvaluationInv, NEW b \in BOOLEAN,
         ghost' = [ghost EXCEPT !.stale = b] \/ ghost' = ghost
  PROVE  /\ ghost' \in EvaluationGhosts /\ ghost'.late = ghost.late
         /\ ghost'.done = ghost.done
         /\ ghost' = ghost \/ ghost'.stale = b
BY DEF EvaluationInv, EvaluationTyped, EvaluationGhosts

LEMMA Resuming ==
  ASSUME EvaluationConstants, EvaluationInv, EV!Resume \/ EV!ResumeCounts
  PROVE  EvaluationInv'
<1>0. /\ NamesTask(rows.md) /\ NamesTask(procs.resume.md) /\ rows.md \in Metas
      /\ procs.resume.md \in Metas
  BY ProcsAre DEF EvaluationInv, NamesTasks, Resumptions
<1>1. CASE EV!Resume
  BY <1>0, <1>1, ResumptionReads DEF EV!Resume
<1>2. CASE EV!ResumeCounts /\ ~(EV!Stored >= Total)
  BY <1>0, <1>2, ResumptionReads DEF EV!ResumeCounts
<1>3. CASE EV!ResumeCounts /\ EV!Stored >= Total
  <2> DEFINE m == EV!Meta("completed", procs.resume.md.task)
  <2>1. /\ m \in Metas /\ m.st = "completed"
        /\ m.task = procs.resume.md.task
    BY <1>0 DEF EV!Meta, Metas
  <2>2. EV!Dataset /\ EV!Stored = rows.count /\ rows.count = Total
    BY <1>3, StoredIs DEF EvaluationConstants
  <2>3. rows' = [rows EXCEPT !.md = m]
    BY <1>3, <2>2 DEF EV!ResumeCounts, EvaluationInv, EvaluationTyped,
                      EvaluationRows
  <2>4. NamesTask(m)
    BY <1>0, <2>1 DEF NamesTask
  <2>5. /\ ghost' \in EvaluationGhosts /\ ghost'.late = ghost.late
        /\ ghost'.done = ghost.done
    <3>1. ghost' = [ghost EXCEPT !.stale =
                      ghost.stale \/ rows.md # procs.resume.md]
      BY <1>3 DEF EV!ResumeCounts
    <3> QED BY <3>1 DEF EvaluationInv, EvaluationTyped, EvaluationGhosts
  <2>6. /\ procs' \in EvaluationProcs /\ ReadersGone
        /\ \A v \in Runners : AtTask(v, procs'.ex[v])
    BY <1>0, <1>3, ResumesKept DEF EV!ResumeCounts
  <2> QED
    BY <1>3, <2>1, <2>2, <2>3, <2>4, <2>5, <2>6, MetaWritten
       DEF EV!ResumeCounts
<1> QED BY <1>1, <1>2, <1>3

LEMMA ReaderWrites ==
  ASSUME EvaluationConstants, EvaluationInv, EV!LookWrites
  PROVE  EvaluationInv'
<1> DEFINE l == procs.look
           m == EV!Meta(l.pc, l.md.task)
<1>1. /\ l \in Readers /\ l.md.st \in {"pending", "running"}
      /\ l.pc \in {"pending", "running", "completed", "failed"}
      /\ NamesTask(l.md)
  BY ProcsAre DEF EvaluationInv, NamesTasks, EV!LookWrites
<1>2. l.md.task \in Jobs /\ rows.use[l.md.task] = "generate"
  BY <1>1 DEF NamesTask, Readers, Metas
<1>3. m \in Metas /\ m.st = l.pc /\ m.task = l.md.task
  BY <1>1, <1>2 DEF EV!Meta, Metas
<1>4. /\ procs' \in EvaluationProcs /\ ReadersGone
      /\ \A v \in Runners : AtTask(v, procs'.ex[v])
  BY LookEndsKept DEF EV!LookWrites
<1> DEFINE b == \/ ghost.stale \/ rows.md # l.md
                \/ EV!Projected(lease[rows.md.task].st) # l.pc
<1>5. /\ ghost' \in EvaluationGhosts /\ ghost'.late = ghost.late
      /\ ghost'.done = ghost.done /\ ghost'.stale = b
  <2>1. ghost' = [ghost EXCEPT !.stale = b]
    BY DEF EV!LookWrites
  <2> QED BY <2>1 DEF EvaluationInv, EvaluationTyped, EvaluationGhosts
<1>6. CASE EV!Dataset
  <2>1. NamesTask(m)
    BY <1>2, <1>3 DEF NamesTask, EvaluationConstants
  <2>2. m.st = "completed" => rows.count = Total
    BY <1>3, <1>6 DEF EvaluationInv, AllThere
  <2>3. ASSUME ~b
        PROVE  /\ m.st \in {"pending", "running"} => EV!Active(m.task)
               /\ m.st # "failed"
    <3>1. rows.md = l.md /\ EV!Projected(lease[l.md.task].st) = l.pc
            /\ ~ghost.stale
      BY <2>3
    <3>2. EV!Active(l.md.task)
      BY <1>1, <3>1 DEF EvaluationInv, EV!StatusFollowsTask
    <3> QED BY <1>3, <3>1, <3>2 DEF EV!Active, EV!Projected
  <2>4. rows' = [rows EXCEPT !.md = m]
    BY <1>6 DEF EV!LookWrites
  <2>5. m.st \notin {"absent", "gone"} /\ lease' = lease
    BY <1>1, <1>3 DEF EV!LookWrites
  <2> HIDE DEF b
  <2> QED BY <1>3, <1>4, <1>5, <1>6, <2>1, <2>2, <2>3, <2>4, <2>5, MetaWritten
<1>7. CASE ~EV!Dataset
  <2>1. rows' = rows /\ lease' = lease
    BY <1>7 DEF EV!LookWrites
  <2>2. EvaluationTyped'
    BY <1>4, <1>5, <2>1 DEF EvaluationInv, EvaluationTyped
  <2>3. TasksGoOn /\ RowsGoOn
    BY <2>1 DEF TasksGoOn, RowsGoOn, EV!Active
  <2>4. \A v \in Runners : RunUntouched(v)
    BY <2>1 DEF RunUntouched, EV!HoldsLease, EV!RunThere
  <2>5. Purposes' /\ NamesTasks' /\ Items' /\ AllThere' /\ AtTasks'
    BY <1>4, <2>2, <2>3, <2>4, GoesOn, StayAtTasks
  <2>6. NotBegun' /\ EV!RunsAgree' /\ EV!FiguresAgree'
    BY <1>5, <2>1, RunsStay
  <2>7. EV!StatusFollowsTask'
    BY <1>5, <1>7, <2>1 DEF EvaluationInv, EV!StatusFollowsTask, EV!Active,
                            EV!Dataset
  <2> QED BY <2>2, <2>5, <2>6, <2>7 DEF EvaluationInv
<1> QED BY <1>6, <1>7

LEMMA ReportKept ==
  ASSUME EvaluationConstants, EvaluationInv, NEW w \in Runners, EV!Report(w)
  PROVE  EvaluationInv'
<1> DEFINE e == EV!Ex(w)
           f == [e EXCEPT !.pc = "items"]
           m == EV!Meta("running", e.at)
<1>1. e \in Handlers /\ AtTask(w, e) /\ e.pc \in {"open", "items"}
  BY DEF EvaluationInv, EvaluationTyped, EvaluationProcs, AtTasks, EV!Ex,
         EV!Report
<1>2. CASE ~EV!Dataset
  BY <1>1, <1>2, GoesKept DEF EV!Report
<1>3. CASE EV!Dataset
  <2>1. f \in Handlers
    BY <1>1 DEF Handlers
  <2>2. f.pc = "items" /\ f.at = e.at /\ f.next = e.next /\ f.buf = e.buf
    BY <1>1 DEF Handlers
  <2>3. AtTask(w, f)
    BY <1>1, <2>2 DEF AtTask, Generates
  <2>4. /\ procs' \in EvaluationProcs /\ ReadersGone
        /\ \A v \in Runners : AtTask(v, procs'.ex[v])
    BY <1>3, <2>1, <2>3, BecomesKept DEF EV!Report
  <2>5. e.at \in Jobs /\ rows.use[e.at] = "generate"
    BY <1>1 DEF AtTask
  <2>6. m \in Metas /\ m.st = "running" /\ m.task = e.at
    BY <2>5 DEF EV!Meta, Metas
  <2>7. NamesTask(m)
    BY <2>5, <2>6 DEF NamesTask, EvaluationConstants
  <2>8. EV!Active(e.at)
    BY DEF EV!Report, EV!Mine, EV!HoldsLease, EV!Active
  <2>9. /\ ghost' \in EvaluationGhosts /\ ghost'.late = ghost.late
        /\ ghost'.done = ghost.done
    BY <1>3, GhostsStay DEF EV!Report
  <2>10. rows' = [rows EXCEPT !.md = m] /\ lease' = lease
    BY <1>3 DEF EV!Report
  <2> QED
    BY <1>3, <2>4, <2>6, <2>7, <2>8, <2>9, <2>10, MetaWritten
<1> QED BY <1>2, <1>3


-----------------------------------------------------------------------------
\* A task that is not there yet is submitted.
LEMMA TaskSubmitted ==
  ASSUME EvaluationInv, NEW t \in Jobs, EV!Submit(t)
  PROVE  /\ lease' \in [Jobs -> Leases] /\ lease[t].st = "absent"
         /\ lease'[t] = EV!TaskIn("pending") /\ lease'[t].st = "pending"
         /\ \A o \in Jobs : o # t => lease'[o] = lease[o]
         /\ rows.use[t] = "none" /\ rows.run[t].st = "absent"
         /\ rows.run[t].items = {} /\ ~ghost.done[t]
<1>1. lease' \in [Jobs -> Leases] /\ lease[t].st = "absent"
  BY DEF EvaluationInv, EvaluationTyped, EV!Submit, EV!TaskIn, Leases
<1>2. rows.use[t] = "none" /\ rows.run[t].st = "absent"
  BY <1>1 DEF EvaluationInv, Purposes, EvaluationTyped, EvaluationRows
<1>3. rows.run[t].items = {} /\ ~ghost.done[t]
  BY <1>1 DEF EvaluationInv, NotBegun
<1> QED
  BY <1>1, <1>2, <1>3 DEF EvaluationInv, EvaluationTyped, EV!Submit, EV!TaskIn

LEMMA StillNamed ==
  ASSUME EvaluationInv, EvaluationTyped', ReadersGone, NamesTask(rows.md)',
         \A t \in Jobs :
           /\ rows.use[t] # "none" => rows'.use[t] = rows.use[t]
           /\ lease[t].st \in {"failed", "cancelled", "gone"} =>
                lease'[t].st \in {"failed", "cancelled", "gone"}
  PROVE  NamesTasks'
<1>1. ASSUME NEW n \in Metas, NamesTask(n) PROVE NamesTask(n)'
  BY <1>1 DEF NamesTask, Metas
<1>2. NamesTask(procs.resume.md)'
  <2>1. PICK n \in Metas : n = procs'.resume.md
    BY DEF EvaluationTyped, EvaluationProcs, Resumptions
  <2> QED BY <1>1, <2>1 DEF ReadersGone, NamesTask
<1>3. CASE procs'.look = procs.look
  <2>1. NamesTask(procs.look.md)'
    <3>1. PICK n \in Metas : n = procs.look.md
      BY ProcsAre DEF Readers
    <3>2. NamesTask(n)'
      BY <1>1, <3>1 DEF EvaluationInv, NamesTasks
    <3> QED BY <1>3, <3>1, <3>2 DEF NamesTask
  <2> QED BY <1>2, <1>3, <2>1 DEF EvaluationInv, NamesTasks
<1>4. CASE procs'.look = [pc |-> "no", md |-> EV!Meta("absent", 0), t |-> 0]
  BY <1>2, <1>4 DEF NamesTasks, NamesTask, EV!Meta
<1> QED BY <1>3, <1>4 DEF ReadersGone

\* Generations: of a new dataset, and of one that is resumed.
LEMMA GenerationSubmitted ==
  ASSUME EvaluationConstants, EvaluationInv, NEW t \in Jobs, EV!Submit(t),
         NEW b \in BOOLEAN, rows.md.st \notin {"gone", "completed"},
         \A o \in Jobs : rows.use[o] = "generate" => ~EV!Active(o),
         rows' = [rows EXCEPT !.md = EV!Meta("pending", t), !.made = b,
                              !.use[t] = "generate"],
         ghost' \in EvaluationGhosts, ghost'.late = ghost.late,
         ghost'.done = ghost.done,
         procs' \in EvaluationProcs, ReadersGone,
         \A v \in Runners : AtTask(v, procs'.ex[v])
  PROVE  EvaluationInv'
<1> DEFINE m == EV!Meta("pending", t)
<1>1. m \in Metas /\ m.st = "pending" /\ m.task = t /\ t # 0
  BY DEF EV!Meta, Metas, EvaluationConstants
<1>2. /\ rows' \in EvaluationRows /\ rows'.md = m
      /\ UNCHANGED <<rows.run, rows.count, rows.items>>
      /\ rows'.use[t] = "generate"
      /\ \A o \in Jobs : o # t => rows'.use[o] = rows.use[o]
  BY <1>1 DEF EvaluationInv, EvaluationTyped, EvaluationRows
<1> HIDE DEF m
<1>3. EvaluationTyped'
  BY <1>2, TaskSubmitted DEF EvaluationInv, EvaluationTyped
<1>4. \A o \in Jobs : rows.use[o] # "none" => rows'.use[o] = rows.use[o]
  BY <1>2, TaskSubmitted
<1>5. Purposes'
  BY <1>1, <1>2, TaskSubmitted DEF EvaluationInv, Purposes
<1>6. NamesTasks'
  <2>1. NamesTask(rows.md)'
    BY <1>1, <1>2 DEF NamesTask
  <2> QED BY <1>3, <1>4, <2>1, StillNamed, TaskSubmitted
<1>7. EV!Dataset' /\ (EV!Dataset \/ rows.md.st = "absent")
  BY <1>1, <1>2 DEF EV!Dataset
<1>8. Items'
  BY <1>1, <1>2, <1>7 DEF EvaluationInv, Items, EvaluationConstants
<1>9. AllThere'
  <2>1. CASE EV!Dataset
    BY <1>1, <1>2, <2>1, TaskSubmitted DEF EvaluationInv, AllThere, ReadersGone
  <2>2. CASE rows.md.st = "absent"
    <3>1. \A o \in Jobs : o # t => rows'.use[o] = "none"
                                     /\ lease'[o].st = "absent"
      BY <1>2, <2>2, TaskSubmitted DEF EvaluationInv, Purposes
    <3>2. procs'.look.pc # "completed"
      <4>1. procs.look.pc = "completed" => procs.look.md.task \in Jobs
        BY ProcsAre DEF EvaluationInv, NamesTasks, NamesTask, Readers, Metas
      <4>2. procs.look.pc # "completed"
        BY <2>2, <4>1 DEF EvaluationInv, NamesTasks, NamesTask, Purposes,
                          EvaluationConstants
      <4> QED BY <4>2 DEF ReadersGone
    <3> QED BY <1>1, <1>2, <3>1, <3>2, TaskSubmitted DEF AllThere
  <2> QED BY <1>7, <2>1, <2>2
<1>10. AtTasks'
  <2>1. rows.count \in Nat
    BY DEF EvaluationInv, EvaluationTyped, EvaluationRows
  <2>2. ASSUME NEW v \in Runners PROVE Undisturbed(v)
    <3>1. ~EV!HoldsLease(t, v)'
      BY TaskSubmitted DEF EV!HoldsLease
    <3> QED BY <1>2, <1>4, <1>7, <2>1, <3>1, TaskSubmitted
            DEF Undisturbed, EV!HoldsLease, EV!RunThere
  <2> QED BY <1>3, <2>2, StayAtTasks
<1>11. NotBegun' /\ EV!RunsAgree' /\ EV!FiguresAgree'
  <2>1. NotBegun'
    BY <1>2, TaskSubmitted DEF EvaluationInv, NotBegun
  <2>2. EV!RunsAgree'
    BY <1>2, TaskSubmitted DEF EvaluationInv, EV!RunsAgree, EV!Active
  <2>3. EV!FiguresAgree'
    BY <1>2 DEF EvaluationInv, EV!FiguresAgree
  <2> QED BY <2>1, <2>2, <2>3
<1>12. EV!StatusFollowsTask'
  BY <1>1, <1>2, TaskSubmitted DEF EvaluationInv, EV!StatusFollowsTask,
                                   EV!Active
<1> QED
  BY <1>3, <1>5, <1>6, <1>8, <1>9, <1>10, <1>11, <1>12 DEF EvaluationInv

LEMMA GenerateKept ==
  ASSUME EvaluationConstants, EvaluationInv, NEW t \in Jobs, EV!Generate(t)
  PROVE  EvaluationInv'
<1>1. /\ rows.md.st = "absent" /\ EV!Submit(t) /\ procs' = procs
      /\ ghost' = ghost
      /\ rows' = [rows EXCEPT !.md = EV!Meta("pending", t), !.made = TRUE,
                              !.use[t] = "generate"]
  BY DEF EV!Generate
<1>2. \A o \in Jobs : rows.use[o] # "generate"
  BY <1>1 DEF EvaluationInv, Purposes
<1>3. /\ ReadersGone /\ procs' \in EvaluationProcs
      /\ \A v \in Runners : AtTask(v, procs'.ex[v])
  BY <1>1 DEF ReadersGone, EvaluationInv, EvaluationTyped, NamesTasks, AtTasks,
              EV!Ex
<1>4. ghost' \in EvaluationGhosts
  BY <1>1 DEF EvaluationInv, EvaluationTyped
<1> QED BY <1>1, <1>2, <1>3, <1>4, GenerationSubmitted

LEMMA ResumptionAttaches ==
  ASSUME EvaluationConstants, EvaluationInv, EV!ResumeAttaches
  PROVE  EvaluationInv'
<1> DEFINE active == {t \in Jobs : rows.use[t] = "generate" /\ EV!Active(t)}
<1>0. EV!Resumes("no", rows.md) /\ NamesTask(rows.md) /\ rows.md \in Metas
  BY ProcsAre DEF EV!ResumeAttaches, EvaluationInv, NamesTasks
<1>1. CASE ~EV!Dataset \/ (active = {} /\ rows.md.st = "completed")
  BY <1>0, <1>1, ResumptionReads DEF EV!ResumeAttaches
<1>2. CASE EV!Dataset /\ active # {}
  <2>1. PICK t \in active : rows' = EV!Attached(t)
    BY <1>2 DEF EV!ResumeAttaches
  <2>2. lease' = lease /\ ghost' = ghost
    BY <1>2 DEF EV!ResumeAttaches
  <2>3. CASE rows.md.st = "completed" \/ rows.md.task = t
    BY <1>0, <2>1, <2>2, <2>3, ResumptionReads DEF EV!Attached
  <2>4. CASE ~(rows.md.st = "completed" \/ rows.md.task = t)
    <3> DEFINE m == EV!Meta("pending", t)
    <3>1. m \in Metas /\ m.st = "pending" /\ m.task = t
      BY <2>1 DEF EV!Meta, Metas
    <3>2. rows' = [rows EXCEPT !.md = m]
      BY <2>1, <2>4 DEF EV!Attached, EvaluationInv, EvaluationTyped,
                        EvaluationRows
    <3>3. NamesTask(m) /\ EV!Active(t)
      BY <2>1, <3>1 DEF NamesTask, EvaluationConstants
    <3>4. /\ procs' \in EvaluationProcs /\ ReadersGone
          /\ \A v \in Runners : AtTask(v, procs'.ex[v])
      BY <1>0, ResumesKept
    <3>5. ghost' \in EvaluationGhosts
      BY <2>2 DEF EvaluationInv, EvaluationTyped
    <3> QED BY <1>2, <2>2, <3>1, <3>2, <3>3, <3>4, <3>5, MetaWritten
  <2> QED BY <2>3, <2>4
<1>3. CASE EV!Dataset /\ active = {} /\ rows.md.st # "completed"
  <2>1. PICK t \in Jobs : /\ EV!Submit(t) /\ rows' = EV!Attached(t)
                          /\ ghost' = [ghost EXCEPT !.stale = FALSE]
    BY <1>3 DEF EV!ResumeAttaches
  <2>2. rows.md.task # t
    BY <1>0, <2>1, TaskSubmitted DEF NamesTask, EvaluationConstants
  <2>3. /\ rows.made \in BOOLEAN
        /\ rows' = [rows EXCEPT !.md = EV!Meta("pending", t),
                                !.made = rows.made, !.use[t] = "generate"]
    BY <1>3, <2>1, <2>2 DEF EV!Attached, EvaluationInv, EvaluationTyped,
                            EvaluationRows
  <2>4. /\ procs' \in EvaluationProcs /\ ReadersGone
        /\ \A v \in Runners : AtTask(v, procs'.ex[v])
    BY <1>0, ResumesKept
  <2>5. /\ ghost' \in EvaluationGhosts /\ ghost'.late = ghost.late
        /\ ghost'.done = ghost.done
    BY <2>1, GhostsStay
  <2>6. rows.md.st \notin {"gone", "completed"}
    BY <1>3 DEF EV!Dataset
  <2> QED BY <1>3, <2>1, <2>3, <2>4, <2>5, <2>6, GenerationSubmitted
<1> QED BY <1>1, <1>2, <1>3

LEMMA EvaluateKept ==
  ASSUME EvaluationConstants, EvaluationInv, NEW t \in Jobs, EV!Evaluate(t)
  PROVE  EvaluationInv'
<1> DEFINE r == [EV!NoRun EXCEPT !.st = "running"]
<1>1. /\ rows.md.st = "completed" /\ EV!Submit(t) /\ procs' = procs
      /\ ghost' = ghost
      /\ rows' = [rows EXCEPT !.use[t] = "evaluate", !.run[t] = r]
  BY DEF EV!Evaluate
<1>2. r \in RunRows /\ r.st = "running" /\ r.items = {}
  BY DEF EV!NoRun, EV!NoFigure, RunRows, Figures
<1> HIDE DEF r
<1>3. /\ rows' \in EvaluationRows
      /\ UNCHANGED <<rows.md, rows.made, rows.count, rows.items>>
      /\ rows'.use[t] = "evaluate" /\ rows'.run[t] = r
      /\ \A o \in Jobs : o # t => /\ rows'.use[o] = rows.use[o]
                                  /\ rows'.run[o] = rows.run[o]
  BY <1>1, <1>2 DEF EvaluationInv, EvaluationTyped, EvaluationRows
<1>4. EvaluationTyped'
  BY <1>1, <1>3, TaskSubmitted DEF EvaluationInv, EvaluationTyped
<1>5. /\ \A o \in Jobs : rows.use[o] # "none" => rows'.use[o] = rows.use[o]
      /\ (EV!Dataset' <=> EV!Dataset) /\ EV!Dataset
      /\ rows.count = Total
  BY <1>1, <1>3, TaskSubmitted DEF EV!Dataset, EvaluationInv, AllThere
<1>6. ReadersGone /\ \A v \in Runners : AtTask(v, procs'.ex[v])
  BY <1>1 DEF ReadersGone, EvaluationInv, NamesTasks, AtTasks, EV!Ex
<1>7. Purposes'
  BY <1>1, <1>2, <1>3, TaskSubmitted DEF EvaluationInv, Purposes
<1>8. NamesTasks'
  <2>1. NamesTask(rows.md)'
    BY <1>3, <1>5, ProcsAre DEF EvaluationInv, NamesTasks, NamesTask, Metas
  <2> QED BY <1>1, <1>4, <1>5, <1>6, <2>1, StillNamed, TaskSubmitted
<1>9. Items' /\ AllThere'
  BY <1>1, <1>3, <1>5 DEF EvaluationInv, Items, AllThere
<1>10. AtTasks'
  <2>1. rows.count \in Nat
    BY DEF EvaluationInv, EvaluationTyped, EvaluationRows
  <2>2. ASSUME NEW v \in Runners PROVE Undisturbed(v)
    <3>1. ~EV!HoldsLease(t, v)'
      BY <1>1, TaskSubmitted DEF EV!HoldsLease
    <3> QED BY <1>1, <1>3, <1>5, <2>1, <3>1, TaskSubmitted
            DEF Undisturbed, EV!HoldsLease, EV!RunThere
  <2> QED BY <1>4, <1>6, <2>2, StayAtTasks
<1>11. NotBegun'
  BY <1>1, <1>2, <1>3, TaskSubmitted DEF EvaluationInv, NotBegun
<1>12. EV!RunsAgree'
  BY <1>1, <1>2, <1>3, TaskSubmitted DEF EvaluationInv, EV!RunsAgree, EV!Active
<1>13. EV!FiguresAgree'
  BY <1>2, <1>3 DEF EvaluationInv, EV!FiguresAgree
<1>14. EV!StatusFollowsTask'
  BY <1>1, <1>3, TaskSubmitted DEF EvaluationInv, EV!StatusFollowsTask,
                                   EV!Active
<1> QED
  BY <1>4, <1>7, <1>8, <1>9, <1>10, <1>11, <1>12, <1>13, <1>14
     DEF EvaluationInv

-----------------------------------------------------------------------------
\* A dataset is uploaded, or goes.
LEMMA UploadKept ==
  ASSUME EvaluationConstants, EvaluationInv, EV!Upload
  PROVE  EvaluationInv'
<1> DEFINE m == EV!Meta("completed", 0)
<1>1. m \in Metas /\ m.st = "completed" /\ m.task = 0
  BY DEF EV!Meta, Metas
<1>2. 0 .. (Total - 1) \subseteq Nat /\ Total \in Nat
  BY DEF EvaluationConstants
<1>3. /\ rows' \in EvaluationRows /\ rows'.md = m /\ rows'.count = Total
      /\ rows'.items = 0 .. (Total - 1)
      /\ UNCHANGED <<rows.made, rows.use, rows.run>>
  BY <1>1, <1>2 DEF EV!Upload, EvaluationInv, EvaluationTyped, EvaluationRows
<1>4. rows.md.st = "absent" /\ lease' = lease /\ procs' = procs
        /\ ghost' = ghost
  BY DEF EV!Upload
<1> HIDE DEF m
<1>5. EvaluationTyped'
  BY <1>3, <1>4 DEF EvaluationInv, EvaluationTyped
<1>6. EV!Dataset' /\ ~EV!Dataset
  BY <1>1, <1>3, <1>4 DEF EV!Dataset
<1>7. Purposes' /\ NamesTasks'
  BY <1>1, <1>3, <1>4 DEF EvaluationInv, Purposes, NamesTasks, NamesTask
<1>8. Items' /\ AllThere'
  BY <1>1, <1>2, <1>3, <1>4, <1>6 DEF Items, AllThere
<1>9. AtTasks'
  <2>0. \A v \in Runners, t \in Jobs :
          EV!HoldsLease(t, v)' /\ EV!RunThere(t)' =>
            EV!HoldsLease(t, v) /\ EV!RunThere(t)
    BY <1>3, <1>4 DEF EV!HoldsLease, EV!RunThere
  <2>1. \A v \in Runners : Undisturbed(v)
    BY <1>3, <1>4, <2>0 DEF Undisturbed
  <2>2. \A v \in Runners : AtTask(v, procs'.ex[v])
    BY <1>4 DEF EvaluationInv, AtTasks, EV!Ex
  <2> QED BY <1>5, <2>1, <2>2, StayAtTasks
<1>10. NotBegun' /\ EV!RunsAgree' /\ EV!FiguresAgree'
  BY <1>3, <1>4, RunsStay
<1>11. EV!StatusFollowsTask'
  BY <1>1, <1>3, <1>4 DEF EvaluationInv, EV!StatusFollowsTask, EV!Active
<1> QED BY <1>5, <1>7, <1>8, <1>9, <1>10, <1>11 DEF EvaluationInv

LEMMA DatasetGoes ==
  ASSUME EvaluationConstants, EvaluationInv, EV!DeleteDataset
  PROVE  EvaluationInv'
<1> DEFINE m == EV!Meta("gone", 0)
<1>1. m \in Metas /\ m.st = "gone" /\ m.task = 0
  BY DEF EV!Meta, Metas
<1>2. /\ rows' \in EvaluationRows /\ rows'.md = m /\ rows'.items = {}
      /\ UNCHANGED <<rows.made, rows.count, rows.use, rows.run>>
  BY <1>1 DEF EV!DeleteDataset, EvaluationInv, EvaluationTyped, EvaluationRows
<1>3. EV!Dataset /\ lease' = lease /\ procs' = procs /\ ghost' = ghost
  BY DEF EV!DeleteDataset
<1> HIDE DEF m
<1>4. EvaluationTyped'
  BY <1>2, <1>3 DEF EvaluationInv, EvaluationTyped
<1>5. ~EV!Dataset'
  BY <1>1, <1>2 DEF EV!Dataset
<1>6. Purposes' /\ NamesTasks'
  <2>1. Purposes'
    BY <1>1, <1>2, <1>3 DEF EvaluationInv, Purposes
  <2>2. NamesTasks'
    BY <1>1, <1>2, <1>3 DEF EvaluationInv, NamesTasks, NamesTask
  <2> QED BY <2>1, <2>2
<1>7. Items' /\ AllThere'
  BY <1>1, <1>2, <1>5 DEF Items, AllThere
<1>8. AtTasks'
  <2>1. \A v \in Runners : Undisturbed(v)
    BY <1>2, <1>3, <1>5 DEF Undisturbed, EV!HoldsLease, EV!RunThere
  <2>2. \A v \in Runners : AtTask(v, procs'.ex[v])
    BY <1>3 DEF EvaluationInv, AtTasks, EV!Ex
  <2> QED BY <1>4, <2>1, <2>2, StayAtTasks
<1>9. NotBegun' /\ EV!RunsAgree' /\ EV!FiguresAgree'
  BY <1>2, <1>3, RunsStay
<1>10. EV!StatusFollowsTask'
  BY <1>1, <1>2, <1>3 DEF EvaluationInv, EV!StatusFollowsTask, EV!Active
<1> QED BY <1>4, <1>6, <1>7, <1>8, <1>9, <1>10 DEF EvaluationInv

-----------------------------------------------------------------------------
\* Leases run out, and tasks that have ended are forgotten.
LEMMA LeaseGoesOn ==
  ASSUME EvaluationConstants, EvaluationInv, NEW t \in Jobs,
         EV!Lapse(t) \/ EV!Prune(t)
  PROVE  EvaluationInv'
<1>1. rows' = rows /\ procs' = procs /\ ghost' = ghost
  BY DEF EV!Lapse, EV!Prune
<1>2. /\ lease' \in [Jobs -> Leases]
      /\ \A o \in Jobs : o # t => lease'[o] = lease[o]
      /\ \/ lease'[t].st = lease[t].st
         \/ lease[t].st \in EV!EndStatuses /\ lease'[t].st = "gone"
      /\ lease'[t].on = FALSE
  <2>1. lease \in [Jobs -> Leases]
    BY DEF EvaluationInv, EvaluationTyped
  <2>2. CASE EV!Lapse(t)
    <3>1. lease' = [lease EXCEPT ![t] = [lease[t] EXCEPT !.on = FALSE]]
      BY <2>2 DEF EV!Lapse, EV!LeaseRunsOut
    <3> QED BY <2>1, <3>1 DEF Leases
  <2>3. CASE EV!Prune(t)
    BY <2>1, <2>3 DEF EV!Prune, EV!Forget, EV!Ended, EV!TaskIn, Leases
  <2> QED BY <2>2, <2>3
<1>3. EvaluationTyped'
  BY <1>1, <1>2 DEF EvaluationInv, EvaluationTyped
<1>4. TasksGoOn /\ RowsGoOn
  BY <1>1, <1>2 DEF TasksGoOn, RowsGoOn, EV!Active, EV!EndStatuses
<1>5. \A v \in Runners : RunUntouched(v) /\ AtTask(v, procs'.ex[v])
  <2>1. \A v \in Runners, o \in Jobs :
          EV!HoldsLease(o, v)' => EV!HoldsLease(o, v)
    <3> SUFFICES ASSUME NEW v \in Runners, NEW o \in Jobs, EV!HoldsLease(o, v)'
                 PROVE  EV!HoldsLease(o, v)
      OBVIOUS
    <3>1. lease'[o] = [st |-> "running", by |-> v, on |-> TRUE]
      BY DEF EV!HoldsLease
    <3>2. o # t
      BY <1>2, <3>1
    <3> QED BY <1>2, <3>1, <3>2 DEF EV!HoldsLease
  <2>2. \A o \in Jobs : EV!RunThere(o)' => EV!RunThere(o)
    BY <1>1 DEF EV!RunThere
  <2> QED BY <1>1, <2>1, <2>2 DEF RunUntouched, EvaluationInv, AtTasks, EV!Ex
<1>6. ReadersGone
  BY <1>1 DEF ReadersGone, EvaluationInv, NamesTasks
<1>7. Purposes' /\ NamesTasks' /\ Items' /\ AllThere' /\ AtTasks'
  BY <1>3, <1>4, <1>5, <1>6, GoesOn, StayAtTasks
<1>8. NotBegun' /\ EV!RunsAgree' /\ EV!FiguresAgree'
  BY <1>1, <1>2, RunsStay DEF EV!EndStatuses
<1>9. EV!StatusFollowsTask'
  <2>1. \A o \in Jobs : EV!Active(o)' <=> EV!Active(o)
    BY <1>2 DEF EV!Active, EV!EndStatuses
  <2>2. rows.md.st \in {"pending", "running"} => rows.md.task \in Jobs
    BY ProcsAre DEF EvaluationInv, NamesTasks, NamesTask, Metas
  <2> QED BY <1>1, <2>1, <2>2 DEF EvaluationInv, EV!StatusFollowsTask
<1> QED BY <1>3, <1>7, <1>8, <1>9 DEF EvaluationInv

\* As StayAtTasks, but for one execution of which it is known.
LEMMA OthersStayAtTasks ==
  ASSUME EvaluationConstants, EvaluationInv, EvaluationTyped',
         NEW w \in Runners, AtTask(w, EV!Ex(w))',
         \A v \in Runners : v # w => Undisturbed(v) /\ AtTask(v, procs'.ex[v])
  PROVE  AtTasks'
<1> SUFFICES ASSUME NEW v \in Runners, v # w PROVE AtTask(v, EV!Ex(v))'
  BY DEF AtTasks
<1>1. PICK e \in Handlers : e = procs'.ex[v] /\ AtTask(v, e)
  BY DEF EvaluationTyped, EvaluationProcs
<1>2. AtTask(v, e)'
  BY <1>1, StaysAtTask
<1> QED BY <1>1, <1>2 DEF EV!Ex

LEMMA StartKept ==
  ASSUME EvaluationConstants, EvaluationInv, NEW t \in Jobs, NEW w \in Runners,
         EV!Start(t, w)
  PROVE  EvaluationInv'
<1> DEFINE h == [EV!Idle EXCEPT !.at = t, !.pc =
                   IF rows.use[t] = "generate" THEN "count" ELSE "load"]
<1>0. h \in Handlers
  <2>1. <<>> \in Seq(EV!Results)
    OBVIOUS
  <2> QED BY <2>1 DEF Handlers, EV!Idle
<1>3. PICK f \in Handlers : f = h
  BY <1>0
<1>1. rows' = rows /\ ghost' = ghost /\ procs' = [procs EXCEPT !.ex[w] = f]
        /\ lease[t].st = "pending"
  BY <1>3 DEF EV!Start, EV!Becomes, EV!Take
<1>2. /\ lease' \in [Jobs -> Leases]
      /\ lease'[t] = [st |-> "running", by |-> w, on |-> TRUE]
      /\ \A o \in Jobs : o # t => lease'[o] = lease[o]
  BY DEF EV!Start, EV!Take, EvaluationInv, EvaluationTyped, Leases
<1>4. /\ f.pc = IF rows.use[t] = "generate" THEN "count" ELSE "load"
      /\ f.at = t /\ f.next = 0 /\ f.buf = 0 /\ f.got = <<>>
  BY <1>3 DEF EV!Idle
<1>5. /\ procs' \in EvaluationProcs
      /\ procs'.resume = procs.resume /\ procs'.look = procs.look
      /\ procs'.ex[w] = f
      /\ \A v \in Runners : v # w => procs'.ex[v] = procs.ex[v]
  BY <1>1, <1>3, ProcsWritten DEF EvaluationInv, EvaluationTyped
<1>6. EvaluationTyped'
  BY <1>1, <1>2, <1>5 DEF EvaluationInv, EvaluationTyped
<1>7. TasksGoOn /\ RowsGoOn
  BY <1>1, <1>2 DEF TasksGoOn, RowsGoOn, EV!Active
<1>8. ReadersGone
  BY <1>5 DEF ReadersGone, EvaluationInv, NamesTasks
<1>9. \A v \in Runners : v # w => RunUntouched(v) /\ AtTask(v, procs'.ex[v])
  <2>1. \A v \in Runners, o \in Jobs :
          v # w /\ EV!HoldsLease(o, v)' => EV!HoldsLease(o, v)
    <3> SUFFICES ASSUME NEW v \in Runners, NEW o \in Jobs, v # w,
                        EV!HoldsLease(o, v)'
                 PROVE  EV!HoldsLease(o, v)
      OBVIOUS
    <3>1. lease'[o] = [st |-> "running", by |-> v, on |-> TRUE]
      BY DEF EV!HoldsLease
    <3>2. o # t
      BY <1>2, <3>1
    <3> QED BY <1>2, <3>1, <3>2 DEF EV!HoldsLease
  <2>2. \A o \in Jobs : EV!RunThere(o)' => EV!RunThere(o)
    BY <1>1 DEF EV!RunThere
  <2> QED
    BY <1>1, <1>5, <2>1, <2>2 DEF RunUntouched, EvaluationInv, AtTasks, EV!Ex
<1>10. AtTask(w, f)'
  <2>1. rows.use[t] \in {"generate", "evaluate"}
    BY <1>1 DEF EvaluationInv, Purposes, EvaluationTyped, EvaluationRows
  <2>2. rows.run[t].items = {} /\ Answers(<<>>) = {}
    BY <1>1 DEF EvaluationInv, NotBegun, Answers
  <2>3. rows.count \in Nat
    BY DEF EvaluationInv, EvaluationTyped, EvaluationRows
  <2>4. rows.use[t] = "generate" => Generates(f)'
    BY <1>1, <1>4, <2>3 DEF Generates, EvaluationConstants
  <2>5. rows.use[t] = "evaluate" => Evaluates(w, f)'
    BY <1>1, <1>4, <2>2 DEF Evaluates, EvaluationConstants
  <2> QED BY <1>1, <1>2, <1>4, <2>1, <2>4, <2>5 DEF AtTask
<1>11. AtTask(w, EV!Ex(w))'
  BY <1>5, <1>10 DEF EV!Ex
<1>12. Purposes' /\ NamesTasks' /\ Items' /\ AllThere' /\ AtTasks'
  BY <1>6, <1>7, <1>8, <1>9, <1>11, GoesOn, OthersStayAtTasks
<1>13. \A o \in Jobs : EV!Active(o)' <=> EV!Active(o)
  BY <1>1, <1>2 DEF EV!Active
<1>14. NotBegun' /\ EV!RunsAgree' /\ EV!FiguresAgree'
  BY <1>1, <1>2, <1>13, RunsStay DEF EV!Active
<1>15. EV!StatusFollowsTask'
  <2>1. rows.md.st \in {"pending", "running"} => rows.md.task \in Jobs
    BY ProcsAre DEF EvaluationInv, NamesTasks, NamesTask, Metas
  <2> QED BY <1>1, <1>13, <2>1 DEF EvaluationInv, EV!StatusFollowsTask
<1> QED BY <1>6, <1>12, <1>14, <1>15 DEF EvaluationInv

-----------------------------------------------------------------------------
\* A task in progress ends.
LEMMA TaskEnded ==
  ASSUME EvaluationInv, NEW t \in Jobs, NEW s \in EV!EndStatuses,
         EV!Ended(t, s), EV!Active(t)
  PROVE  /\ lease' \in [Jobs -> Leases]
         /\ lease'[t].st = s /\ lease[t].st \in {"pending", "running"}
         /\ \A o \in Jobs : o # t => lease'[o] = lease[o]
         /\ \A v \in Runners, o \in Jobs :
              EV!HoldsLease(o, v)' => EV!HoldsLease(o, v)
         /\ \A o \in Jobs : EV!Active(o)' <=> o # t /\ EV!Active(o)
<1>1. /\ lease' \in [Jobs -> Leases] /\ lease'[t] = EV!TaskIn(s)
      /\ lease'[t].st = s /\ lease'[t].on = FALSE
      /\ \A o \in Jobs : o # t => lease'[o] = lease[o]
  BY DEF EvaluationInv, EvaluationTyped, EV!Ended, EV!TaskIn, EV!EndStatuses,
         Leases
<1>2. \A v \in Runners, o \in Jobs :
        EV!HoldsLease(o, v)' => EV!HoldsLease(o, v)
  <2> SUFFICES ASSUME NEW v \in Runners, NEW o \in Jobs, EV!HoldsLease(o, v)'
               PROVE  EV!HoldsLease(o, v)
    OBVIOUS
  <2>1. lease'[o] = [st |-> "running", by |-> v, on |-> TRUE]
    BY DEF EV!HoldsLease
  <2>2. o # t
    BY <1>1, <2>1
  <2> QED BY <1>1, <2>1, <2>2 DEF EV!HoldsLease
<1>3. \A o \in Jobs : EV!Active(o)' <=> o # t /\ EV!Active(o)
  BY <1>1 DEF EV!Active, EV!EndStatuses
<1> QED BY <1>1, <1>2, <1>3 DEF EV!Active

\* A generation ends, and what it knows of the dataset is written with it.
LEMMA GenerationEnded ==
  ASSUME EvaluationConstants, EvaluationInv, NEW t \in Jobs,
         NEW s \in EV!EndStatuses, EV!Ended(t, s), EV!Active(t),
         rows.use[t] = "generate",
         s = "success" /\ EV!Dataset => rows.count = Total,
         NEW m \in Metas, rows' = [rows EXCEPT !.md = m],
         m = rows.md \/ /\ EV!Dataset /\ NamesTask(m)
                        /\ m.st \in {"completed", "failed"}
                        /\ m.st = "completed" => rows.count = Total,
         m.st \notin {"pending", "running"},
         ghost' \in EvaluationGhosts, ghost'.late = ghost.late,
         ghost'.done = ghost.done,
         procs' \in EvaluationProcs, ReadersGone,
         \A v \in Runners : AtTask(v, procs'.ex[v])
  PROVE  EvaluationInv'
<1>1. /\ rows' \in EvaluationRows /\ rows'.md = m
      /\ rows'.run = rows.run /\ rows'.use = rows.use
      /\ UNCHANGED <<rows.made, rows.count, rows.items>>
  BY DEF EvaluationInv, EvaluationTyped, EvaluationRows
<1>2. EvaluationTyped'
  BY <1>1, TaskEnded DEF EvaluationInv, EvaluationTyped
<1>3. TasksGoOn
  BY TaskEnded DEF TasksGoOn, EV!EndStatuses
<1>4. RowsGoOn
  BY <1>1 DEF RowsGoOn
<1>5. \A v \in Runners : RunUntouched(v)
  <2>1. \A o \in Jobs : EV!RunThere(o)' => EV!RunThere(o)
    BY <1>1 DEF EV!RunThere
  <2> QED BY <1>1, <2>1, TaskEnded DEF RunUntouched
<1>6. Purposes' /\ NamesTasks' /\ Items' /\ AllThere' /\ AtTasks'
  BY <1>2, <1>3, <1>4, <1>5, GoesOn, StayAtTasks
<1>7. NotBegun' /\ EV!RunsAgree' /\ EV!FiguresAgree'
  <2>1. \A o \in Jobs : rows.use[o] = "evaluate" => lease'[o].st = lease[o].st
    BY TaskEnded
  <2>2. \A o \in Jobs : lease'[o].st \in {"absent", "pending"} =>
                          lease[o].st \in {"absent", "pending"}
    BY <1>3 DEF TasksGoOn
  <2>3. \A o \in Jobs : lease[o].st \in {"success", "gone"} =>
                          lease'[o].st \in {"success", "gone"}
    BY <1>3 DEF TasksGoOn
  <2> QED BY <1>1, <2>1, <2>2, <2>3, RunsStay
<1>8. EV!StatusFollowsTask'
  <2>1. \A o \in Jobs : rows.use[o] = "generate" => ~EV!Active(o)'
    BY TaskEnded DEF EvaluationInv, EV!StatusFollowsTask
  <2> QED BY <1>1, <2>1 DEF EV!StatusFollowsTask
<1> QED BY <1>2, <1>6, <1>7, <1>8 DEF EvaluationInv

-----------------------------------------------------------------------------
\* A run is written as its task has it.
RunRight(t, r) ==
  /\ r.st = "running" => EV!Active(t)'
  /\ r.st = "failed" =>
       \/ lease'[t].st \in {"failed", "cancelled"}
       \/ lease'[t].st = "gone" /\ (ghost'.done[t] => t \in ghost'.late)
  /\ r.st = "completed" =>
       /\ lease'[t].st \in {"success", "gone"}
       /\ {p[1] : p \in r.items} = 0 .. (Total - 1)
       /\ r.done = Total
       /\ r.score.hits = EV!Cardinality({p \in r.items : p[2] = "hit"})
       /\ r.recall # r.score => \E p \in r.items : p[2] = "nothing"
       /\ r.recall = EV!NoFigure => <<0, "nothing">> \in r.items

LEMMA RunWritten ==
  ASSUME EvaluationConstants, EvaluationInv, NEW t \in Jobs, NEW r \in RunRows,
         rows.run[t].st # "absent", r.st # "absent",
         r.st # "gone" => rows.run[t].st # "gone"
                            /\ r.items = rows.run[t].items,
         r.items \in {{}, rows.run[t].items},
         rows' = [rows EXCEPT !.run[t] = r], RunRight(t, r),
         lease' \in [Jobs -> Leases], TasksGoOn,
         \A o \in Jobs : o # t => lease'[o] = lease[o],
         \A v \in Runners, o \in Jobs :
           EV!HoldsLease(o, v)' => EV!HoldsLease(o, v),
         ghost' \in EvaluationGhosts, ghost'.stale = ghost.stale,
         ghost'.late = ghost.late \/ ghost'.late = ghost.late \cup {t},
         \A o \in Jobs : o # t => ghost'.done[o] = ghost.done[o],
         ghost'.done[t] => lease'[t].st \in {"success", "gone"},
         procs' \in EvaluationProcs, ReadersGone,
         \A v \in Runners : AtTask(v, procs'.ex[v])
  PROVE  EvaluationInv'
<1>1. /\ rows' \in EvaluationRows /\ rows'.run[t] = r
      /\ \A o \in Jobs : o # t => rows'.run[o] = rows.run[o]
      /\ UNCHANGED <<rows.md, rows.made, rows.count, rows.items, rows.use>>
  BY DEF EvaluationInv, EvaluationTyped, EvaluationRows
<1>2. EvaluationTyped'
  BY <1>1 DEF EvaluationInv, EvaluationTyped
<1>3. RowsGoOn
  BY <1>1 DEF RowsGoOn
<1>4. \A v \in Runners : RunUntouched(v)
  <2>1. \A o \in Jobs : EV!RunThere(o)' =>
          EV!RunThere(o) /\ rows'.run[o].items = rows.run[o].items
    BY <1>1 DEF EV!RunThere
  <2> QED BY <2>1 DEF RunUntouched
<1>5. Purposes' /\ NamesTasks' /\ Items' /\ AllThere' /\ AtTasks'
  BY <1>2, <1>3, <1>4, GoesOn, StayAtTasks
<1>6. NotBegun'
  <2>1. \A o \in Jobs : lease'[o].st \in {"absent", "pending"} =>
                          lease[o].st \in {"absent", "pending"}
    BY DEF TasksGoOn
  <2> QED BY <1>1, <2>1 DEF EvaluationInv, NotBegun
<1>7. EV!RunsAgree'
  <2> SUFFICES ASSUME NEW o \in Jobs
               PROVE  /\ rows'.run[o].st = "running" => EV!Active(o)'
                      /\ rows'.run[o].st = "failed" =>
                           \/ lease'[o].st \in {"failed", "cancelled"}
                           \/ lease'[o].st = "gone"
                                /\ (ghost'.done[o] => o \in ghost'.late)
                      /\ rows'.run[o].st = "completed" =>
                           /\ lease'[o].st \in {"success", "gone"}
                           /\ {p[1] : p \in rows'.run[o].items} =
                                0 .. (Total - 1)
                           /\ rows'.run[o].done = Total
    BY DEF EV!RunsAgree
  <2>1. CASE o = t
    BY <1>1, <2>1 DEF RunRight
  <2>2. CASE o # t
    BY <1>1, <2>2 DEF EvaluationInv, EV!RunsAgree, EV!Active
  <2> QED BY <2>1, <2>2
<1>8. EV!FiguresAgree'
  <2> SUFFICES ASSUME NEW o \in Jobs, rows'.run[o].st = "completed"
               PROVE  LET run == rows'.run[o]
                      IN /\ run.score.hits =
                              EV!Cardinality({p \in run.items : p[2] = "hit"})
                         /\ run.recall # run.score =>
                              \E p \in run.items : p[2] = "nothing"
                         /\ run.recall = EV!NoFigure =>
                              <<0, "nothing">> \in run.items
    BY DEF EV!FiguresAgree, EV!NoFigure
  <2>1. CASE o = t
    BY <1>1, <2>1 DEF RunRight
  <2>2. CASE o # t
    BY <1>1, <2>2 DEF EvaluationInv, EV!FiguresAgree
  <2> QED BY <2>1, <2>2
<1>9. EV!StatusFollowsTask'
  <2>1. rows.use[t] = "evaluate"
    BY DEF EvaluationInv, Purposes
  <2>2. \A o \in Jobs : rows.use[o] = "generate" =>
          (EV!Active(o)' <=> EV!Active(o))
    BY <2>1 DEF EV!Active
  <2>3. rows.md.st \in {"pending", "running"} =>
          rows.md.task \in Jobs /\ rows.use[rows.md.task] = "generate"
    BY ProcsAre DEF EvaluationInv, NamesTasks, NamesTask, Metas
  <2> QED BY <1>1, <2>2, <2>3 DEF EvaluationInv, EV!StatusFollowsTask
<1> QED BY <1>2, <1>5, <1>6, <1>7, <1>8, <1>9 DEF EvaluationInv

\* The figures of the results an execution has are those of the results it
\* stored.
LEMMA FiguresOfAnswers ==
  ASSUME EvaluationConstants, NEW g \in Seq(EV!Results), Len(g) = Total
  PROVE  LET items == Answers(g)
             mean == EV!MeanRecall(g)
             score == EV!OverallScore(g)
         IN /\ mean \in Figures /\ score \in Figures
            /\ {p[1] : p \in items} = 0 .. (Total - 1)
            /\ score.hits = EV!Cardinality({p \in items : p[2] = "hit"})
            /\ mean # score => \E p \in items : p[2] = "nothing"
            /\ mean = EV!NoFigure => <<0, "nothing">> \in items
<1> DEFINE items == Answers(g)
           Places(R) == {i \in DOMAIN g : g[i] \in R}
<1>1. DOMAIN g = 1 .. Total /\ Total \in Nat /\ Total >= 1
  BY DEF EvaluationConstants
<1>2. \A i \in 1 .. Total : g[i] \in EV!Results
  BY <1>1
<1>3. items = {<<i - 1, g[i]>> : i \in 1 .. Total}
  BY DEF Answers
<1>4. {p[1] : p \in items} = 0 .. (Total - 1)
  <2>1. ASSUME NEW n \in 0 .. (Total - 1) PROVE n \in {p[1] : p \in items}
    <3>1. n + 1 \in 1 .. Total /\ (n + 1) - 1 = n
      BY <1>1
    <3>2. <<n, g[n + 1]>> \in items
      BY <1>3, <3>1
    <3> QED BY <3>2
  <2>2. ASSUME NEW p \in items PROVE p[1] \in 0 .. (Total - 1)
    BY <1>1, <1>3
  <2> QED BY <2>1, <2>2
<1>5. \A R : IsFiniteSet(Places(R)) /\ Cardinality(Places(R)) \in Nat
               /\ Cardinality(Places(R)) <= Total
               /\ EV!CountOf(g, R) = Cardinality(Places(R))
  <2> TAKE R
  <2>1. IsFiniteSet(1 .. Total) /\ Cardinality(1 .. Total) = Total
    BY <1>1, FS_Interval
  <2>2. Places(R) \subseteq 1 .. Total
    BY <1>1
  <2>3. EV!CountOf(g, R) = Cardinality(Places(R))
    BY ItemsCounted DEF EV!CountOf
  <2> QED BY <2>1, <2>2, <2>3, FS_Subset, FS_CardinalityType
<1>6. Cardinality(Places({"hit"})) = Cardinality({p \in items : p[2] = "hit"})
  <2> DEFINE S == Places({"hit"})
             T == {p \in items : p[2] = "hit"}
             f == [i \in S |-> <<i - 1, g[i]>>]
  <2>1. f \in [S -> T]
    BY <1>1, <1>3
  <2>2. \A i, j \in S : f[i] = f[j] => i = j
    BY <1>1
  <2>3. \A p \in T : \E i \in S : f[i] = p
    BY <1>1, <1>3
  <2> HIDE DEF f, S, T
  <2>4. f \in Bijection(S, T)
    BY <2>1, <2>2, <2>3 DEF Bijection, Injection, Surjection, IsInjective
  <2>5. ExistsBijection(S, T)
    BY <2>4 DEF ExistsBijection
  <2>6. IsFiniteSet(S)
    BY <1>5 DEF S
  <2> QED BY <2>5, <2>6, FS_Bijection DEF S, T
<1> DEFINE mean == EV!MeanRecall(g)
           score == EV!OverallScore(g)
           h == EV!CountOf(g, {"hit"})
           n == EV!CountOf(g, {"hit", "miss"})
<1>7. score = [hits |-> h, of |-> n] /\ h \in Nat /\ n \in Nat
  BY <1>5 DEF EV!OverallScore
<1>8. mean = IF g[1] = "nothing" THEN EV!NoFigure
             ELSE [hits |-> h, of |-> Total]
  BY DEF EV!MeanRecall
<1>9. <<0, g[1]>> \in items
  BY <1>1, <1>3
<1>10. ASSUME \A p \in items : p[2] # "nothing"
       PROVE  n = Total /\ g[1] # "nothing"
  <2>1. ASSUME NEW i \in 1 .. Total PROVE g[i] # "nothing"
    <3>1. <<i - 1, g[i]>> \in items /\ <<i - 1, g[i]>>[2] = g[i]
      BY <1>3
    <3> QED BY <1>10, <3>1
  <2>2. Places({"hit", "miss"}) = 1 .. Total
    BY <1>1, <1>2, <2>1 DEF EV!Results
  <2>3. n = Cardinality(1 .. Total)
    BY <1>5, <2>2
  <2> QED BY <1>1, <2>1, <2>3, FS_Interval
<1>11. score.hits = EV!Cardinality({p \in items : p[2] = "hit"})
  BY <1>5, <1>6, <1>7, ItemsCounted
<1> HIDE DEF items, mean, score, h, n, Places
<1>12. mean \in Figures /\ score \in Figures
  BY <1>1, <1>7, <1>8 DEF Figures, EV!NoFigure
<1>13. mean # score => \E p \in items : p[2] = "nothing"
  BY <1>7, <1>8, <1>10
<1>14. mean = EV!NoFigure => <<0, "nothing">> \in items
  BY <1>1, <1>7, <1>8, <1>9 DEF EV!NoFigure
<1> QED BY <1>4, <1>11, <1>12, <1>13, <1>14 DEF items, mean, score

-----------------------------------------------------------------------------
\* What becomes of the dataset, or the run, of a task that fails.
LEMMA TaskFailsKept ==
  ASSUME EvaluationConstants, EvaluationInv, NEW t \in Jobs,
         NEW s \in {"failed", "cancelled"}, EV!Active(t), EV!TaskFails(t, s),
         procs' \in EvaluationProcs, ReadersGone,
         \A v \in Runners : AtTask(v, procs'.ex[v])
  PROVE  EvaluationInv'
<1>1. EV!Ended(t, s) /\ s \in EV!EndStatuses
  BY DEF EV!TaskFails, EV!EndStatuses
<1>2. rows.use[t] \in {"generate", "evaluate"}
  BY DEF EvaluationInv, Purposes, EvaluationTyped, EvaluationRows, EV!Active
<1>3. CASE rows.use[t] = "generate"
  <2>1. /\ ghost' \in EvaluationGhosts /\ ghost'.late = ghost.late
        /\ ghost'.done = ghost.done
    BY <1>3, GhostsStay DEF EV!TaskFails
  <2>2. CASE ~EV!Dataset \/ rows.md.st = "completed"
    <3>1. rows' = [rows EXCEPT !.md = rows.md] /\ rows.md \in Metas
      BY <1>3, <2>2 DEF EV!TaskFails, EV!FailedRows, EvaluationInv,
                        EvaluationTyped, EvaluationRows
    <3>2. rows.md.st \notin {"pending", "running", "failed"}
      BY <2>2 DEF EV!Dataset
    <3> QED BY <1>1, <1>3, <2>1, <3>1, <3>2, GenerationEnded
  <2>3. CASE EV!Dataset /\ rows.md.st # "completed"
    <3> DEFINE m == EV!Meta("failed", t)
    <3>1. m \in Metas /\ m.st = "failed" /\ m.task = t
      BY DEF EV!Meta, Metas
    <3>2. rows' = [rows EXCEPT !.md = m]
      BY <1>3, <2>3 DEF EV!TaskFails, EV!FailedRows
    <3>3. NamesTask(m)
      BY <1>3, <3>1 DEF NamesTask, EvaluationConstants
    <3> HIDE DEF m
    <3> QED BY <1>1, <1>3, <2>1, <2>3, <3>1, <3>2, <3>3, GenerationEnded
  <2> QED BY <2>2, <2>3
<1>4. CASE rows.use[t] = "evaluate"
  <2> DEFINE r == IF rows.run[t].st = "gone" THEN rows.run[t]
                  ELSE [rows.run[t] EXCEPT !.st = "failed"]
  <2>1. /\ rows.run[t] \in RunRows /\ rows.run[t].st # "absent"
        /\ rows.run[t].st # "completed"
    <3>1. rows.run[t] \in RunRows /\ rows.run[t].st # "absent"
      BY <1>4 DEF EvaluationInv, EvaluationTyped, EvaluationRows, Purposes
    <3>2. rows.run[t].st # "completed"
      BY DEF EvaluationInv, EV!RunsAgree, EV!Active
    <3> QED BY <3>1, <3>2
  <2>2. /\ r \in RunRows /\ r.items = rows.run[t].items
        /\ r.st \in {"gone", "failed"}
        /\ r.st = "gone" <=> rows.run[t].st = "gone"
    BY <2>1 DEF RunRows
  <2>3. rows' = [rows EXCEPT !.run[t] = r]
    <3>1. CASE rows.run[t].st = "gone"
      <4>1. rows' = rows
        BY <1>4, <3>1 DEF EV!TaskFails, EV!FailedRows
      <4> QED BY <3>1, <4>1 DEF EvaluationInv, EvaluationTyped, EvaluationRows
    <3>2. CASE rows.run[t].st # "gone"
      <4>1. rows' = [rows EXCEPT !.run[t].st = "failed"]
        BY <1>4, <2>1, <3>2 DEF EV!TaskFails, EV!FailedRows
      <4> QED BY <3>2, <4>1 DEF EvaluationInv, EvaluationTyped, EvaluationRows
    <3> QED BY <3>1, <3>2
  <2> HIDE DEF r
  <2>4. /\ lease' \in [Jobs -> Leases] /\ lease'[t].st = s
        /\ \A o \in Jobs : o # t => lease'[o] = lease[o]
        /\ \A v \in Runners, o \in Jobs :
             EV!HoldsLease(o, v)' => EV!HoldsLease(o, v)
    BY <1>1, TaskEnded
  <2>5. TasksGoOn
    BY <1>1, TaskEnded DEF TasksGoOn, EV!EndStatuses
  <2>6. ghost' = ghost /\ ghost' \in EvaluationGhosts
    BY <1>4 DEF EV!TaskFails, EvaluationInv, EvaluationTyped
  <2>7. ~ghost.done[t]
    BY DEF EvaluationInv, NotBegun, EV!Active
  <2>8. RunRight(t, r)
    BY <2>2, <2>4 DEF RunRight
  <2> QED
    BY <2>1, <2>2, <2>3, <2>4, <2>5, <2>6, <2>7, <2>8, RunWritten
<1> QED BY <1>2, <1>3, <1>4

LEMMA NobodyMoves ==
  ASSUME EvaluationInv, procs' = procs
  PROVE  /\ procs' \in EvaluationProcs /\ ReadersGone
         /\ \A v \in Runners : AtTask(v, procs'.ex[v])
BY DEF ReadersGone, EvaluationInv, EvaluationTyped, NamesTasks, AtTasks, EV!Ex

LEMMA FailuresKept ==
  ASSUME EvaluationConstants, EvaluationInv,
         \/ \E t \in Jobs : EV!GiveUpTask(t) \/ EV!CancelPending(t)
         \/ \E w \in Runners : EV!Fails(w)
  PROVE  EvaluationInv'
<1>1. ASSUME NEW t \in Jobs, EV!GiveUpTask(t) \/ EV!CancelPending(t)
      PROVE  EvaluationInv'
  <2>1. procs' = procs /\ EV!Active(t)
    BY <1>1 DEF EV!GiveUpTask, EV!CancelPending, EV!Unheld, EV!Active
  <2>2. EV!TaskFails(t, "failed") \/ EV!TaskFails(t, "cancelled")
    BY <1>1 DEF EV!GiveUpTask, EV!CancelPending
  <2> QED BY <2>1, <2>2, NobodyMoves, TaskFailsKept
<1>2. ASSUME NEW w \in Runners, EV!Fails(w) PROVE EvaluationInv'
  <2> DEFINE t == EV!Ex(w).at
  <2>1. t \in Jobs
    BY <1>2 DEF EvaluationInv, AtTasks, AtTask, EV!Fails
  <2>2. EV!Active(t) /\ EV!TaskFails(t, "failed") /\ EV!Becomes(w, EV!Idle)
    BY <1>2 DEF EV!Fails, EV!Mine, EV!HoldsLease, EV!Active
  <2>3. EV!Idle \in Handlers /\ AtTask(w, EV!Idle)
    BY DEF Handlers, EV!Idle, AtTask
  <2>4. /\ procs' \in EvaluationProcs /\ ReadersGone
        /\ \A v \in Runners : AtTask(v, procs'.ex[v])
    BY <2>2, <2>3, BecomesKept
  <2> QED BY <2>1, <2>2, <2>4, TaskFailsKept
<1> QED BY <1>1, <1>2

-----------------------------------------------------------------------------
\* Runs are deleted, failed by readers, noted and completed.
LEMMA TasksStay ==
  ASSUME EvaluationInv, lease' = lease
  PROVE  /\ TasksGoOn /\ lease' \in [Jobs -> Leases]
         /\ \A o \in Jobs : lease'[o] = lease[o]
         /\ \A v \in Runners, o \in Jobs :
              EV!HoldsLease(o, v)' => EV!HoldsLease(o, v)
BY DEF TasksGoOn, EV!Active, EV!HoldsLease, EvaluationInv, EvaluationTyped

LEMMA DeleteRunKept ==
  ASSUME EvaluationConstants, EvaluationInv, NEW t \in Jobs, EV!DeleteRun(t)
  PROVE  EvaluationInv'
<1> DEFINE r == [EV!NoRun EXCEPT !.st = "gone"]
<1>1. r \in RunRows /\ r.st = "gone" /\ r.items = {}
  BY DEF EV!NoRun, EV!NoFigure, RunRows, Figures
<1>2. /\ rows' = [rows EXCEPT !.run[t] = r] /\ rows.run[t].st # "absent"
      /\ lease' = lease /\ procs' = procs /\ ghost' = ghost
  BY DEF EV!DeleteRun, EV!RunThere
<1> HIDE DEF r
<1>3. RunRight(t, r)
  BY <1>1 DEF RunRight
<1>4. ghost'.done[t] => lease'[t].st \in {"success", "gone"}
  BY <1>2 DEF EvaluationInv, NotBegun
<1>5. ghost' \in EvaluationGhosts
  BY <1>2 DEF EvaluationInv, EvaluationTyped
<1> QED
  BY <1>1, <1>2, <1>3, <1>4, <1>5, TasksStay, NobodyMoves, RunWritten

LEMMA ReaderFailsRun ==
  ASSUME EvaluationConstants, EvaluationInv, EV!LookFailsRun
  PROVE  EvaluationInv'
<1>0. PICK t \in Jobs : t = procs.look.t
  BY DEF EV!LookFailsRun, EvaluationInv, NamesTasks
<1> DEFINE r == IF EV!RunThere(t) THEN [rows.run[t] EXCEPT !.st = "failed"]
                ELSE rows.run[t]
<1>1. t \in Jobs /\ lease[t].st \in {"failed", "cancelled", "gone"}
  BY <1>0 DEF EV!LookFailsRun, EvaluationInv, NamesTasks
<1>2. rows.run[t] \in RunRows /\ rows \in EvaluationRows
  BY <1>1 DEF EvaluationInv, EvaluationTyped, EvaluationRows
<1>3. /\ r \in RunRows /\ r.items = rows.run[t].items
      /\ r.st = IF EV!RunThere(t) THEN "failed" ELSE rows.run[t].st
  BY <1>2 DEF RunRows
<1>4. rows' = [rows EXCEPT !.run[t] = r]
  <2>1. CASE EV!RunThere(t)
    <3>1. rows' = [rows EXCEPT !.run[t].st = "failed"]
      BY <1>0, <2>1 DEF EV!LookFailsRun
    <3> QED BY <1>1, <1>2, <2>1, <3>1 DEF EvaluationRows
  <2>2. CASE ~EV!RunThere(t)
    <3>1. rows' = rows
      BY <1>0, <2>2 DEF EV!LookFailsRun
    <3> QED BY <1>1, <1>2, <2>2, <3>1 DEF EvaluationRows
  <2> QED BY <2>1, <2>2
<1>5. /\ ghost' \in EvaluationGhosts /\ ghost'.stale = ghost.stale
      /\ ghost'.done = ghost.done
      /\ ghost'.late = IF rows.run[t].st = "completed" THEN ghost.late \cup {t}
                       ELSE ghost.late
  <2>1. ghost' = [ghost EXCEPT !.late =
                    IF rows.run[t].st = "completed" THEN ghost.late \cup {t}
                    ELSE ghost.late]
    BY <1>0 DEF EV!LookFailsRun
  <2> QED BY <1>1, <2>1 DEF EvaluationInv, EvaluationTyped, EvaluationGhosts
<1>6. lease' = lease
  BY DEF EV!LookFailsRun
<1>7. /\ procs' \in EvaluationProcs /\ ReadersGone
      /\ \A v \in Runners : AtTask(v, procs'.ex[v])
  BY LookEndsKept DEF EV!LookFailsRun
<1>8. rows.run[t].st # "absent"
  BY <1>0, <1>1 DEF EV!LookFailsRun, EvaluationInv, NamesTasks, Purposes
<1>9. RunRight(t, r)
  <2>1. rows.run[t].st \in {"running", "failed"} =>
          (ghost.done[t] /\ lease[t].st = "gone" => t \in ghost.late)
    BY <1>1 DEF EvaluationInv, EV!RunsAgree, EV!Active
  <2>2. r.st \in {"gone", "failed"}
    BY <1>3, <1>8 DEF EV!RunThere
  <2>3. r.st = "failed" =>
          rows.run[t].st \in {"running", "failed", "completed"}
    BY <1>2, <1>3, <1>8 DEF EV!RunThere, RunRows
  <2> HIDE DEF r
  <2> QED BY <1>1, <1>5, <1>6, <2>1, <2>2, <2>3 DEF RunRight
<1>10. ghost'.done[t] => lease'[t].st \in {"success", "gone"}
  BY <1>1, <1>5, <1>6 DEF EvaluationInv, NotBegun
<1>11. /\ r.st # "absent"
       /\ r.st # "gone" => rows.run[t].st # "gone"
  BY <1>3, <1>8 DEF EV!RunThere
<1> HIDE DEF r
<1> QED
  BY <1>1, <1>3, <1>4, <1>5, <1>6, <1>7, <1>8, <1>9, <1>10, <1>11, TasksStay,
     RunWritten

LEMMA NoteKept ==
  ASSUME EvaluationConstants, EvaluationInv, NEW w \in Runners, EV!Note(w)
  PROVE  EvaluationInv'
<1> DEFINE e == EV!Ex(w)
           f == [e EXCEPT !.pc = IF e.next = e.buf THEN "end" ELSE "ask"]
<1>1. e \in Handlers /\ AtTask(w, e) /\ e.pc = "note"
  BY DEF EvaluationInv, EvaluationTyped, EvaluationProcs, AtTasks, EV!Ex,
         EV!Note
<1>0. PICK t \in Jobs : t = e.at
  BY <1>1 DEF AtTask
<1> DEFINE r == [rows.run[t] EXCEPT !.done = e.next]
<1>2. CASE ~EV!RunThere(t)
  BY <1>0, <1>1, <1>2, GoesKept DEF EV!Note
<1>3. CASE EV!RunThere(t)
  <2>1. t \in Jobs /\ rows.use[t] = "evaluate" /\ Evaluates(w, e)
    BY <1>0, <1>1 DEF AtTask
  <2>2. f \in Handlers
    BY <1>1 DEF Handlers
  <2>3. /\ f.pc = IF e.next = e.buf THEN "end" ELSE "ask"
        /\ f.at = t /\ f.next = e.next /\ f.buf = e.buf /\ f.got = e.got
    BY <1>0, <1>1 DEF Handlers
  <2>4. Evaluates(w, f)
    BY <1>0, <1>1, <2>1, <2>3 DEF Evaluates, EvaluationConstants, Handlers
  <2>5. AtTask(w, f)
    BY <1>0, <1>1, <2>1, <2>3, <2>4 DEF AtTask
  <2>6. /\ procs' \in EvaluationProcs /\ ReadersGone
        /\ \A v \in Runners : AtTask(v, procs'.ex[v])
    BY <1>0, <1>3, <2>2, <2>5, BecomesKept DEF EV!Note
  <2>7. rows.run[t] \in RunRows /\ rows \in EvaluationRows /\ e.next \in Nat
    BY <1>1, <2>1 DEF EvaluationInv, EvaluationTyped, EvaluationRows, Handlers
  <2>8. /\ r \in RunRows /\ r.items = rows.run[t].items
        /\ r.st = rows.run[t].st
    BY <2>7 DEF RunRows
  <2>9. rows' = [rows EXCEPT !.run[t] = r]
    <3>1. rows' = [rows EXCEPT !.run[t].done = e.next]
      BY <1>0, <1>3 DEF EV!Note
    <3> QED BY <2>1, <2>7, <3>1 DEF EvaluationRows
  <2>10. lease' = lease /\ ghost' = ghost /\ EV!Active(t)
    BY <1>0, <1>3 DEF EV!Note, EV!Mine, EV!HoldsLease, EV!Active
  <2>11. rows.run[t].st = "running"
    BY <1>3, <2>1, <2>7, <2>10 DEF EvaluationInv, EV!RunsAgree, EV!RunThere,
                                   EV!Active, RunRows
  <2>12. RunRight(t, r)
    BY <2>8, <2>10, <2>11 DEF RunRight, EV!Active
  <2>13. ghost' \in EvaluationGhosts /\ ~ghost'.done[t]
    BY <2>1, <2>10 DEF EvaluationInv, EvaluationTyped, NotBegun, EV!Active
  <2> HIDE DEF r, f
  <2> QED
    BY <2>1, <2>6, <2>8, <2>9, <2>10, <2>11, <2>12, <2>13, TasksStay,
       RunWritten
<1> QED BY <1>2, <1>3

LEMMA SucceedsKept ==
  ASSUME EvaluationConstants, EvaluationInv, NEW w \in Runners, EV!Succeeds(w)
  PROVE  EvaluationInv'
<1> DEFINE e == EV!Ex(w)
<1>1. e \in Handlers /\ AtTask(w, e) /\ e.pc = "end"
  BY DEF EvaluationInv, EvaluationTyped, EvaluationProcs, AtTasks, EV!Ex,
         EV!Succeeds
<1>2. PICK t \in Jobs : t = e.at
  BY <1>1 DEF AtTask
<1>3. EV!HoldsLease(t, w) /\ EV!Active(t)
  BY <1>2 DEF EV!Succeeds, EV!Mine, EV!HoldsLease, EV!Active
<1>4. rows.use[t] \in {"generate", "evaluate"}
  BY <1>3 DEF EvaluationInv, Purposes, EvaluationTyped, EvaluationRows,
              EV!Active
<1>5. EV!Idle \in Handlers /\ AtTask(w, EV!Idle)
  BY DEF Handlers, EV!Idle, AtTask
<1>6. "success" \in EV!EndStatuses
  BY DEF EV!EndStatuses
<1>7. CASE rows.use[t] = "generate" /\ EV!Dataset
  <2> DEFINE m == EV!Meta("completed", t)
  <2>1. m \in Metas /\ m.st = "completed" /\ m.task = t
    BY DEF EV!Meta, Metas
  <2>2. /\ rows' = [rows EXCEPT !.md = m, !.count = e.next]
        /\ ghost' = [ghost EXCEPT !.stale = FALSE]
        /\ EV!Ended(t, "success") /\ EV!Becomes(w, EV!Idle)
    BY <1>2, <1>7 DEF EV!Succeeds
  <2>3. rows.count = Total /\ e.next = Total
    <3>1. Generates(e) /\ e.next = Total
      BY <1>1, <1>2, <1>7 DEF AtTask, Generates
    <3>2. rows.count \in Nat /\ rows.count <= Total /\ e.next <= rows.count
      BY <1>7, <3>1 DEF EvaluationInv, EvaluationTyped, EvaluationRows, Items,
                        Generates
    <3> QED BY <3>1, <3>2 DEF EvaluationConstants
  <2>4. rows' = [rows EXCEPT !.md = m]
    BY <2>2, <2>3 DEF EvaluationInv, EvaluationTyped, EvaluationRows
  <2>5. NamesTask(m)
    BY <1>7, <2>1 DEF NamesTask
  <2>6. /\ ghost' \in EvaluationGhosts /\ ghost'.late = ghost.late
        /\ ghost'.done = ghost.done
    BY <2>2, GhostsStay
  <2>7. /\ procs' \in EvaluationProcs /\ ReadersGone
        /\ \A v \in Runners : AtTask(v, procs'.ex[v])
    BY <1>5, <2>2, BecomesKept
  <2> HIDE DEF m
  <2> QED BY <1>3, <1>6, <1>7, <2>1, <2>2, <2>3, <2>4, <2>5, <2>6, <2>7,
             GenerationEnded
<1>8. CASE rows.use[t] = "evaluate" /\ EV!RunThere(t)
  <2> DEFINE g == e.got
             r == [rows.run[t] EXCEPT !.st = "completed", !.done = e.next,
                     !.recall = EV!MeanRecall(g), !.score = EV!OverallScore(g)]
  <2>1. /\ rows' = [rows EXCEPT !.run[t].st = "completed",
                                !.run[t].done = e.next,
                                !.run[t].recall = EV!MeanRecall(g),
                                !.run[t].score = EV!OverallScore(g)]
        /\ EV!Ended(t, "success") /\ EV!Becomes(w, EV!Idle)
        /\ ghost' = [ghost EXCEPT !.done[t] = TRUE]
    BY <1>2, <1>8 DEF EV!Succeeds
  <2>2. /\ e.next = Total /\ Len(g) = Total /\ g \in Seq(EV!Results)
        /\ rows.run[t].items = Answers(g)
    BY <1>1, <1>2, <1>3, <1>8 DEF AtTask, Evaluates, Handlers
  <2>3. rows.run[t] \in RunRows /\ rows \in EvaluationRows /\ Total \in Nat
    BY DEF EvaluationInv, EvaluationTyped, EvaluationRows, EvaluationConstants
  <2>4. EV!MeanRecall(g) \in Figures /\ EV!OverallScore(g) \in Figures
    BY <2>2, FiguresOfAnswers
  <2>5. /\ r \in RunRows /\ r.items = Answers(g) /\ r.st = "completed"
        /\ r.done = Total /\ r.recall = EV!MeanRecall(g)
        /\ r.score = EV!OverallScore(g)
    BY <2>2, <2>3, <2>4 DEF RunRows
  <2>6. rows' = [rows EXCEPT !.run[t] = r]
    BY <2>1, <2>3 DEF EvaluationRows
  <2> HIDE DEF r
  <2>7. /\ lease' \in [Jobs -> Leases] /\ lease'[t].st = "success"
        /\ \A o \in Jobs : o # t => lease'[o] = lease[o]
        /\ \A v \in Runners, o \in Jobs :
             EV!HoldsLease(o, v)' => EV!HoldsLease(o, v)
    BY <1>3, <1>6, <2>1, TaskEnded
  <2>8. TasksGoOn
    <3>1. EV!Dataset => rows.count = Total
      BY <1>8 DEF EvaluationInv, AllThere
    <3> QED BY <1>3, <1>6, <2>1, <3>1, TaskEnded DEF TasksGoOn
  <2>9. RunRight(t, r)
    BY <2>2, <2>5, <2>7, FiguresOfAnswers DEF RunRight
  <2>10. /\ ghost' \in EvaluationGhosts /\ ghost'.stale = ghost.stale
         /\ ghost'.late = ghost.late
         /\ \A o \in Jobs : o # t => ghost'.done[o] = ghost.done[o]
    BY <2>1 DEF EvaluationInv, EvaluationTyped, EvaluationGhosts
  <2>11. /\ procs' \in EvaluationProcs /\ ReadersGone
         /\ \A v \in Runners : AtTask(v, procs'.ex[v])
    BY <1>5, <2>1, BecomesKept
  <2>12. rows.run[t].st \notin {"absent", "gone"}
    BY <1>8 DEF EV!RunThere
  <2> QED
    BY <2>2, <2>5, <2>6, <2>7, <2>8, <2>9, <2>10, <2>11, <2>12, RunWritten
<1>9. CASE ~(rows.use[t] = "generate" /\ EV!Dataset)
             /\ ~(rows.use[t] = "evaluate" /\ EV!RunThere(t))
  BY <1>1, <1>2, <1>4, <1>9, GoesKept DEF EV!Succeeds
<1> QED BY <1>7, <1>8, <1>9

\* A question is answered and its result stored.
LEMMA AskKept ==
  ASSUME EvaluationConstants, EvaluationInv, NEW w \in Runners, EV!Ask(w)
  PROVE  EvaluationInv'
<1> DEFINE e == EV!Ex(w)
<1>1. e \in Handlers /\ AtTask(w, e) /\ e.pc = "ask"
  BY DEF EvaluationInv, EvaluationTyped, EvaluationProcs, AtTasks, EV!Ex,
         EV!Ask
<1>2. PICK t \in Jobs : t = e.at
  BY <1>1 DEF AtTask
<1>3. CASE EV!Goes(w, "fail")
  BY <1>1, <1>3, GoesKept
<1>4. CASE ~EV!Goes(w, "fail")
  <2>1. PICK a \in EV!Results :
          /\ EV!Mine(w) /\ EV!RunThere(t)
          /\ rows' = [rows EXCEPT !.run[t].items = EV!Noted(@, e.next, a)]
          /\ LET n == e.next + 1
             IN EV!Becomes(w,
                  [e EXCEPT !.next = n, !.got = Append(@, a), !.pc =
                     IF n % Every = 0 \/ n = e.buf THEN "note" ELSE "ask"])
          /\ UNCHANGED <<lease, ghost>>
    BY <1>2, <1>4 DEF EV!Ask
  <2> DEFINE h == [e EXCEPT !.next = e.next + 1, !.got = Append(e.got, a),
                     !.pc = IF (e.next + 1) % Every = 0 \/ e.next + 1 = e.buf
                              THEN "note" ELSE "ask"]
             r == [rows.run[t] EXCEPT !.items =
                     EV!Noted(rows.run[t].items, e.next, a)]
  <2>2. /\ e.next \in Nat /\ e.got \in Seq(EV!Results) /\ e.next < Total
        /\ e.next = Len(e.got) /\ e.buf = Total /\ Total \in Nat
        /\ rows.run[t].items = Answers(e.got) /\ rows.use[t] = "evaluate"
    <3>1. EV!HoldsLease(t, w)
      BY <1>2, <2>1 DEF EV!Mine
    <3>2. Evaluates(w, e) /\ rows.use[t] = "evaluate"
      BY <1>1, <1>2 DEF AtTask
    <3> QED BY <1>1, <1>2, <2>1, <3>1, <3>2
            DEF Evaluates, Handlers, EvaluationConstants
  <2>3. h \in Handlers
    <3>1. Append(e.got, a) \in Seq(EV!Results) /\ e.next + 1 \in Nat
      BY <2>2
    <3> DEFINE c == (e.next + 1) % Every = 0 \/ e.next + 1 = e.buf
    <3> HIDE DEF c
    <3>2. [e EXCEPT !.next = e.next + 1, !.got = Append(e.got, a),
                    !.pc = IF c THEN "note" ELSE "ask"] \in Handlers
      BY <1>1, <3>1 DEF Handlers
    <3> QED BY <3>2 DEF c
  <2>4. PICK f \in Handlers : f = h
    BY <2>3
  <2>5. /\ f.at = t /\ f.next = e.next + 1 /\ f.buf = Total
        /\ f.got = Append(e.got, a) /\ f.pc \in {"note", "ask"}
        /\ f.pc = "ask" => f.next < Total
    BY <1>1, <1>2, <2>2, <2>4 DEF Handlers
  <2>6. EV!Becomes(w, f)
    BY <2>1, <2>4
  <2>7. /\ procs' \in EvaluationProcs
        /\ procs'.resume = procs.resume /\ procs'.look = procs.look
        /\ procs'.ex[w] = f
        /\ \A v \in Runners : v # w => procs'.ex[v] = procs.ex[v]
    BY <2>6, ProcsWritten DEF EvaluationInv, EvaluationTyped, EV!Becomes
  <2>8. EV!Noted(Answers(e.got), e.next, a) = Answers(f.got)
    <3> DEFINE g == e.got
               n == Len(g)
    <3>1. /\ f.got = Append(g, a) /\ Len(f.got) = n + 1 /\ n \in Nat
          /\ \A i \in 1 .. n : f.got[i] = g[i]
          /\ f.got[n + 1] = a
      BY <2>2, <2>5
    <3>2. Answers(g) = {<<i - 1, g[i]>> : i \in 1 .. n}
      BY DEF Answers
    <3>3. Answers(f.got) = {<<i - 1, f.got[i]>> : i \in 1 .. n + 1}
      BY <3>1 DEF Answers
    <3>4. \A p \in Answers(g) : p[1] # n
      BY <3>1, <3>2
    <3>5. EV!Noted(Answers(g), n, a) = Answers(g) \cup {<<n, a>>}
      BY <3>4 DEF EV!Noted
    <3>6. Answers(g) \cup {<<n, a>>} \subseteq Answers(f.got)
      <4>1. ASSUME NEW i \in 1 .. n PROVE <<i - 1, g[i]>> \in Answers(f.got)
        BY <3>1, <3>3
      <4>2. <<n, a>> \in Answers(f.got)
        <5>1. n + 1 \in 1 .. n + 1 /\ (n + 1) - 1 = n
          BY <3>1
        <5> QED BY <3>1, <3>3, <5>1
      <4> QED BY <3>2, <4>1, <4>2
    <3>7. Answers(f.got) \subseteq Answers(g) \cup {<<n, a>>}
      <4>1. ASSUME NEW i \in 1 .. n + 1
            PROVE  <<i - 1, f.got[i]>> \in Answers(g) \cup {<<n, a>>}
        <5>1. CASE i = n + 1
          BY <3>1, <5>1
        <5>2. CASE i # n + 1
          <6>1. i \in 1 .. n
            BY <3>1, <5>2
          <6> QED BY <3>1, <3>2, <6>1
        <5> QED BY <5>1, <5>2
      <4> QED BY <3>3, <4>1
    <3> QED BY <2>2, <3>5, <3>6, <3>7
  <2>9. r.items = Answers(f.got) /\ r.st = rows.run[t].st /\ r \in RunRows
    <3>1. rows.run[t] \in RunRows
      BY DEF EvaluationInv, EvaluationTyped, EvaluationRows
    <3>2. EV!Noted(rows.run[t].items, e.next, a) \subseteq Nat \X EV!Results
      BY <2>2, <3>1 DEF EV!Noted, RunRows
    <3> QED BY <2>2, <2>8, <3>1, <3>2 DEF RunRows
  <2>10. rows' = [rows EXCEPT !.run[t] = r]
    BY <2>1 DEF EvaluationInv, EvaluationTyped, EvaluationRows
  <2> HIDE DEF r, h
  <2>11. /\ rows' \in EvaluationRows /\ rows'.run[t] = r
         /\ \A o \in Jobs : o # t => rows'.run[o] = rows.run[o]
         /\ UNCHANGED <<rows.md, rows.made, rows.count, rows.items, rows.use>>
    BY <2>9, <2>10 DEF EvaluationInv, EvaluationTyped, EvaluationRows
  <2>12. EvaluationTyped'
    BY <2>1, <2>7, <2>11 DEF EvaluationInv, EvaluationTyped
  <2>13. TasksGoOn /\ RowsGoOn /\ ReadersGone
    <3>1. TasksGoOn
      BY <2>1, TasksStay
    <3>2. RowsGoOn
      BY <2>9, <2>11 DEF RowsGoOn
    <3>3. ReadersGone
      BY <2>7 DEF ReadersGone, EvaluationInv, NamesTasks
    <3> QED BY <3>1, <3>2, <3>3
  <2>14. lease' = lease /\ lease[t].st = "running" /\ lease[t].by = w
    BY <1>2, <2>1 DEF EV!Mine, EV!HoldsLease
  <2>15. \A v \in Runners : v # w => RunUntouched(v) /\ AtTask(v, procs'.ex[v])
    <3>1. \A v \in Runners, o \in Jobs :
            EV!HoldsLease(o, v)' => EV!HoldsLease(o, v)
      BY <2>1, TasksStay
    <3>2. \A v \in Runners : v # w => ~EV!HoldsLease(t, v)
      BY <2>14 DEF EV!HoldsLease
    <3>3. \A o \in Jobs : o # t /\ EV!RunThere(o)' => EV!RunThere(o)
      BY <2>11 DEF EV!RunThere
    <3> QED BY <2>7, <2>11, <3>1, <3>2, <3>3 DEF RunUntouched, EvaluationInv,
                                                 AtTasks, EV!Ex
  <2>16. AtTask(w, EV!Ex(w))'
    <3>1. Len(f.got) = f.next /\ f.next <= Total /\ f.next \in Nat
      BY <2>2, <2>5
    <3>2. Evaluates(w, f)'
      BY <2>5, <2>9, <2>11, <3>1 DEF Evaluates
    <3>3. rows'.use[t] = "evaluate"
      BY <2>2, <2>11
    <3>4. AtTask(w, f)'
      BY <2>5, <2>14, <3>2, <3>3 DEF AtTask
    <3> QED BY <2>7, <3>4 DEF EV!Ex
  <2>17. Purposes' /\ NamesTasks' /\ Items' /\ AllThere' /\ AtTasks'
    BY <2>12, <2>13, <2>15, <2>16, GoesOn, OthersStayAtTasks
  <2>18. NotBegun'
    BY <2>1, <2>11, <2>14 DEF EvaluationInv, NotBegun
  <2>19. rows.run[t].st # "completed" /\ rows'.run[t].st = rows.run[t].st
    BY <2>9, <2>11, <2>14 DEF EvaluationInv, EV!RunsAgree
  <2>20. EV!RunsAgree'
    BY <2>1, <2>11, <2>19 DEF EvaluationInv, EV!RunsAgree, EV!Active
  <2>21. EV!FiguresAgree'
    BY <2>11, <2>19 DEF EvaluationInv, EV!FiguresAgree
  <2>22. EV!StatusFollowsTask'
    BY <2>1, <2>11 DEF EvaluationInv, EV!StatusFollowsTask, EV!Active
  <2> QED BY <2>12, <2>17, <2>18, <2>20, <2>21, <2>22 DEF EvaluationInv
<1> QED BY <1>3, <1>4

-----------------------------------------------------------------------------
\* A flush, after which the execution knows of it, or does not.
LEMMA FlushedKept ==
  ASSUME EvaluationConstants, EvaluationInv, NEW w \in Runners,
         NEW f \in Handlers, EV!Ex(w).pc \in {"items", "last", "salvage"},
         EV!Ex(w).buf # 0, EV!Flushable(w), rows' = EV!FlushedRows(w),
         EV!Becomes(w, f), UNCHANGED <<lease, ghost>>,
         f.at = EV!Ex(w).at,
         f.pc \in {"items", "last", "salvage", "fail", "end"},
         f.next + f.buf <= Total, f.next <= EV!Ex(w).next + EV!Ex(w).buf,
         f.pc = "end" => f.next = Total
  PROVE  EvaluationInv'
<1> DEFINE e == EV!Ex(w)
           t == e.at
           n == e.next + e.buf
           New == e.next .. (n - 1)
<1>1. e \in Handlers /\ AtTask(w, e)
  BY DEF EvaluationInv, EvaluationTyped, EvaluationProcs, AtTasks, EV!Ex
<1>2. /\ t \in Jobs /\ rows.use[t] = "generate" /\ n <= Total
      /\ EV!Dataset /\ e.next <= rows.count /\ e.next \in Nat /\ e.buf \in Nat
      /\ lease[t].st \notin {"absent", "pending"}
  BY <1>1 DEF AtTask, Generates, EV!Flushable, Handlers
<1>3. rows.count \in Nat /\ Total \in Nat /\ rows.items = 0 .. (rows.count - 1)
  BY <1>2 DEF EvaluationInv, EvaluationTyped, EvaluationRows,
              EvaluationConstants, Items
<1>4. e.next = rows.count
  <2>1. New \cap rows.items = {}
    BY <1>2 DEF EV!Flushable, EV!New
  <2>2. e.next \in New
    BY <1>2
  <2> QED BY <1>2, <1>3, <2>1, <2>2
<1>5. rows.count < n /\ n \in Nat /\ rows.count # Total
  BY <1>2, <1>3, <1>4
<1>6. rows.items \cup New = 0 .. (n - 1)
  BY <1>2, <1>3, <1>4
<1>7. /\ rows' \in EvaluationRows /\ rows'.count = n
      /\ rows'.items = 0 .. (n - 1)
      /\ UNCHANGED <<rows.md, rows.made, rows.use, rows.run>>
  <2>1. rows' = [rows EXCEPT !.items = 0 .. (n - 1), !.count = n]
    <3>1. EV!New(w) = New
      BY <1>2 DEF EV!New
    <3>2. rows' = [rows EXCEPT !.items = rows.items \cup EV!New(w),
                               !.count = n]
      BY DEF EV!FlushedRows
    <3> QED BY <1>6, <3>1, <3>2
  <2>2. 0 .. (n - 1) \subseteq Nat
    BY <1>5
  <2> HIDE DEF n
  <2> QED
    BY <1>5, <2>1, <2>2 DEF EvaluationInv, EvaluationTyped, EvaluationRows
<1>8. /\ procs' \in EvaluationProcs
      /\ procs'.resume = procs.resume /\ procs'.look = procs.look
      /\ procs'.ex[w] = f
      /\ \A v \in Runners : v # w => procs'.ex[v] = procs.ex[v]
  BY ProcsWritten DEF EvaluationInv, EvaluationTyped, EV!Becomes
<1>9. EvaluationTyped'
  BY <1>7, <1>8 DEF EvaluationInv, EvaluationTyped
<1>10. Purposes' /\ NamesTasks'
  <2>1. Purposes'
    BY <1>7 DEF EvaluationInv, Purposes
  <2>2. NamesTasks'
    BY <1>7, <1>8 DEF EvaluationInv, NamesTasks, NamesTask
  <2> QED BY <2>1, <2>2
<1>11. EV!Dataset'
  BY <1>2, <1>7 DEF EV!Dataset
<1>12. Items'
  BY <1>2, <1>5, <1>7, <1>11 DEF Items, EV!Dataset
<1>13. AllThere'
  BY <1>2, <1>5, <1>7, <1>8 DEF EvaluationInv, AllThere
<1>14. AtTasks'
  <2>1. \A v \in Runners, o \in Jobs :
          EV!HoldsLease(o, v)' => EV!HoldsLease(o, v)
    BY TasksStay
  <2>2. \A o \in Jobs : EV!RunThere(o)' => EV!RunThere(o)
    BY <1>7 DEF EV!RunThere
  <2>3. \A v \in Runners : Undisturbed(v)
    BY <1>2, <1>3, <1>5, <1>7, <2>1, <2>2 DEF Undisturbed
  <2>4. \A v \in Runners : v # w => AtTask(v, procs'.ex[v])
    BY <1>8 DEF EvaluationInv, AtTasks, EV!Ex
  <2>5. Generates(f)'
    <3>1. f.next <= rows'.count /\ f.pc # "count"
      BY <1>7
    <3> QED BY <3>1 DEF Generates
  <2>6. /\ f.at \in Jobs /\ lease'[f.at].st \notin {"absent", "pending"}
        /\ rows'.use[f.at] = "generate"
    BY <1>2, <1>7
  <2>7. AtTask(w, f)'
    BY <2>5, <2>6 DEF AtTask
  <2>8. AtTask(w, EV!Ex(w))'
    BY <1>8, <2>7 DEF EV!Ex
  <2> QED BY <1>9, <2>3, <2>4, <2>8, OthersStayAtTasks
<1>15. NotBegun' /\ EV!RunsAgree' /\ EV!FiguresAgree'
  BY <1>7, RunsStay
<1>16. EV!StatusFollowsTask'
  BY <1>7 DEF EvaluationInv, EV!StatusFollowsTask, EV!Active
<1> QED
  BY <1>9, <1>10, <1>12, <1>13, <1>14, <1>15, <1>16 DEF EvaluationInv

LEMMA FlushedIs ==
  ASSUME NEW w, EV!Ex(w) \in Handlers
  PROVE  EV!Flushed(w) \in Handlers
<1>1. ASSUME NEW e \in Handlers, NEW n \in Nat
      PROVE  [e EXCEPT !.next = n, !.buf = 0] \in Handlers
  BY DEF Handlers
<1>2. EV!Ex(w).next + EV!Ex(w).buf \in Nat
  BY DEF Handlers
<1> QED BY <1>1, <1>2 DEF EV!Flushed

\* The flushes of a full buffer, of the last one, and of what is left.
LEMMA BatchFlushed ==
  ASSUME EvaluationConstants, EvaluationInv, NEW w \in Runners,
         EV!FlushBatch(w)
  PROVE  EvaluationInv'
<1> DEFINE e == EV!Ex(w)
           k == EV!Flushed(w)
           u == IF e.next + e.buf < Total
                  THEN [e EXCEPT !.buf = @ + 1] ELSE [e EXCEPT !.pc = "last"]
<1>1. e \in Handlers /\ AtTask(w, e) /\ e.pc = "items"
  BY DEF EvaluationInv, EvaluationTyped, EvaluationProcs, AtTasks, EV!Ex,
         EV!FlushBatch
<1>2. /\ e.next \in Nat /\ e.buf \in Nat /\ e.buf # 0 /\ Total \in Nat
      /\ e.next + e.buf <= Total /\ rows.use[e.at] = "generate"
      /\ Generates(e)
  BY <1>1 DEF AtTask, Generates, Handlers, EvaluationConstants, EV!FlushBatch
<1>3. k \in Handlers /\ u \in Handlers
  <2>1. k \in Handlers
    BY <1>1, FlushedIs
  <2>2. [e EXCEPT !.buf = e.buf + 1] \in Handlers
          /\ [e EXCEPT !.pc = "last"] \in Handlers
    BY <1>1, <1>2 DEF Handlers
  <2> QED BY <2>1, <2>2
<1>4. /\ k.at = e.at /\ k.pc = "items" /\ k.next = e.next + e.buf /\ k.buf = 0
  BY <1>1 DEF Handlers, EV!Flushed
<1>5. /\ u.at = e.at /\ u.pc \in {"items", "last"} /\ u.next = e.next
      /\ u.next + u.buf <= Total /\ u.buf \in Nat
  BY <1>1, <1>2 DEF Handlers
<1>6. /\ EV!Flush(w, k, u) /\ UNCHANGED <<lease, ghost>>
  BY DEF EV!FlushBatch
<1> HIDE DEF k, u
<1>7. CASE EV!Flushable(w) /\ rows' = EV!FlushedRows(w) /\ EV!Becomes(w, k)
  BY <1>1, <1>2, <1>3, <1>4, <1>6, <1>7, FlushedKept
<1>8. CASE EV!Flushable(w) /\ rows' = EV!FlushedRows(w) /\ EV!Becomes(w, u)
  BY <1>1, <1>2, <1>3, <1>5, <1>6, <1>8, FlushedKept
<1>9. CASE UNCHANGED rows /\ EV!Becomes(w, u)
  <2>1. AtTask(w, u)
    BY <1>1, <1>2, <1>5 DEF AtTask, Generates
  <2> QED BY <1>3, <1>6, <1>9, <2>1, HandlerGoesOn
<1> QED BY <1>6, <1>7, <1>8, <1>9 DEF EV!Flush

LEMMA LastFlushed ==
  ASSUME EvaluationConstants, EvaluationInv, NEW w \in Runners,
         EV!LastFlush(w)
  PROVE  EvaluationInv'
<1> DEFINE e == EV!Ex(w)
           k == [EV!Flushed(w) EXCEPT !.pc =
                   IF e.next + e.buf < Total THEN "fail" ELSE "end"]
           u == [e EXCEPT !.pc = "salvage"]
<1>1. e \in Handlers /\ AtTask(w, e) /\ e.pc = "last"
  BY DEF EvaluationInv, EvaluationTyped, EvaluationProcs, AtTasks, EV!Ex,
         EV!LastFlush
<1>2. /\ e.next \in Nat /\ e.buf \in Nat /\ Total \in Nat
      /\ e.next + e.buf <= Total /\ rows.use[e.at] = "generate"
      /\ Generates(e)
  BY <1>1 DEF AtTask, Generates, Handlers, EvaluationConstants
<1>3. k \in Handlers /\ u \in Handlers
  <2>1. EV!Flushed(w) \in Handlers
    BY <1>1, FlushedIs
  <2>2. k \in Handlers
    BY <2>1 DEF Handlers
  <2>3. u \in Handlers
    BY <1>1 DEF Handlers
  <2> QED BY <2>2, <2>3
<1>4. /\ k.at = e.at /\ k.next = e.next + e.buf /\ k.buf = 0
      /\ k.pc = IF e.next + e.buf < Total THEN "fail" ELSE "end"
  BY <1>1 DEF Handlers, EV!Flushed
<1>5. u.at = e.at /\ u.pc = "salvage" /\ u.next = e.next /\ u.buf = e.buf
  BY <1>1 DEF Handlers
<1>6. /\ IF e.buf = 0 THEN EV!Becomes(w, k) /\ UNCHANGED rows
         ELSE EV!Flush(w, k, u)
      /\ UNCHANGED <<lease, ghost>>
  BY DEF EV!LastFlush
<1> HIDE DEF k, u
<1>7. CASE e.buf # 0 /\ EV!Flushable(w) /\ rows' = EV!FlushedRows(w)
             /\ EV!Becomes(w, k)
  BY <1>1, <1>2, <1>3, <1>4, <1>6, <1>7, FlushedKept
<1>8. CASE e.buf # 0 /\ EV!Flushable(w) /\ rows' = EV!FlushedRows(w)
             /\ EV!Becomes(w, u)
  BY <1>1, <1>2, <1>3, <1>5, <1>6, <1>8, FlushedKept
<1>9. CASE UNCHANGED rows /\ EV!Becomes(w, u)
  <2>1. AtTask(w, u)
    BY <1>1, <1>2, <1>5 DEF AtTask, Generates
  <2> QED BY <1>3, <1>6, <1>9, <2>1, HandlerGoesOn
<1>10. CASE e.buf = 0
  <2>1. AtTask(w, k)
    BY <1>1, <1>2, <1>4, <1>10 DEF AtTask, Generates
  <2> QED BY <1>3, <1>6, <1>10, <2>1, HandlerGoesOn
<1> QED BY <1>6, <1>7, <1>8, <1>9, <1>10 DEF EV!Flush

LEMMA Salvaged ==
  ASSUME EvaluationConstants, EvaluationInv, NEW w \in Runners, EV!Salvage(w)
  PROVE  EvaluationInv'
<1> DEFINE e == EV!Ex(w)
           k == [e EXCEPT !.pc = "fail", !.buf = 0]
<1>1. e \in Handlers /\ AtTask(w, e) /\ e.pc = "salvage"
  BY DEF EvaluationInv, EvaluationTyped, EvaluationProcs, AtTasks, EV!Ex,
         EV!Salvage
<1>2. /\ e.next \in Nat /\ e.buf \in Nat /\ Total \in Nat
      /\ e.next + e.buf <= Total
  BY <1>1 DEF AtTask, Generates, Handlers, EvaluationConstants
<1>3. k \in Handlers
  BY <1>1, <1>2 DEF Handlers
<1>4. k.at = e.at /\ k.next = e.next /\ k.buf = 0 /\ k.pc = "fail"
  BY <1>1 DEF Handlers
<1>5. /\ EV!Becomes(w, k) /\ UNCHANGED <<lease, ghost>>
      /\ \/ UNCHANGED rows
         \/ e.buf # 0 /\ EV!Flushable(w) /\ rows' = EV!FlushedRows(w)
  BY DEF EV!Salvage, EV!Flush
<1> HIDE DEF k
<1>6. CASE UNCHANGED rows
  <2>1. AtTask(w, k)
    BY <1>1, <1>4 DEF AtTask
  <2> QED BY <1>3, <1>5, <1>6, <2>1, HandlerGoesOn
<1>7. CASE e.buf # 0 /\ EV!Flushable(w) /\ rows' = EV!FlushedRows(w)
  BY <1>1, <1>2, <1>3, <1>4, <1>5, <1>7, FlushedKept
<1> QED BY <1>5, <1>6, <1>7

-----------------------------------------------------------------------------
LEMMA ExecutionKept ==
  ASSUME EvaluationConstants, EvaluationInv, NEW w \in Runners, EV!Executes(w)
  PROVE  EvaluationInv'
<1>1. CASE EV!GenerationEnds(w)
  BY <1>1, GoesKept DEF EV!GenerationEnds
<1> QED
  BY <1>1, CountsItems, ReportKept, Generating, BatchFlushed, LastFlushed,
     Salvaged, LoadsItems, AskKept, NoteKept, SucceedsKept, FailuresKept,
     BecomesIdle DEF EV!Executes

LEMMA EvaluationKept ==
  ASSUME EvaluationConstants, EvaluationInv, [EV!Next]_(EV!vars)
  PROVE  EvaluationInv'
<1>1. CASE UNCHANGED EV!vars
  <2>1. UNCHANGED <<lease, rows, procs, ghost>>
    BY <1>1 DEF EV!vars
  <2>2. procs' = [procs EXCEPT !.resume = procs.resume, !.look = procs.look]
    BY <2>1 DEF EvaluationInv, EvaluationTyped, EvaluationProcs
  <2> QED
    BY <2>1, <2>2, ProcsAre, ReadersGoOn
       DEF EvaluationInv, NamesTasks, AllThere
<1>2. ASSUME NEW t \in Jobs,
             \/ EV!Generate(t) \/ EV!Evaluate(t) \/ EV!DeleteRun(t)
             \/ EV!LookAtRun(t) \/ EV!GiveUpTask(t) \/ EV!CancelPending(t)
             \/ EV!Lapse(t) \/ EV!Prune(t)
             \/ \E w \in Runners : EV!Start(t, w)
      PROVE  EvaluationInv'
  BY <1>2, GenerateKept, EvaluateKept, DeleteRunKept, ReaderReads,
     FailuresKept, LeaseGoesOn, StartKept
<1>3. CASE \/ EV!Upload \/ EV!DeleteDataset
           \/ EV!Resume \/ EV!ResumeCounts \/ EV!ResumeAttaches
           \/ EV!LookAtDataset \/ EV!LookAtTask \/ EV!LookWrites
           \/ EV!LookAtRunTask \/ EV!LookFailsRun
  BY <1>3, UploadKept, DatasetGoes, Resuming, ResumptionAttaches, ReaderReads,
     ReaderWrites, ReaderFailsRun
<1> QED BY <1>1, <1>2, <1>3, ExecutionKept DEF EV!Next

LEMMA EvaluationSafe ==
  ASSUME EvaluationConstants, EvaluationInv
  PROVE  /\ EV!ItemsContiguous /\ EV!CompletedHasAll /\ EV!StatusFollowsTask
         /\ EV!RunsAgree /\ EV!FiguresAgree
<1>1. EV!ItemsContiguous
  BY StoredIs DEF EvaluationInv, Items, EV!ItemsContiguous
<1>2. EV!CompletedHasAll
  BY StoredIs DEF EvaluationInv, AllThere, EV!CompletedHasAll, EV!Dataset
<1> QED BY <1>1, <1>2 DEF EvaluationInv

\* A dataset's items are numbered without a gap and counted, a completed one
\* has all; a dataset and a run are what their task is, and the figures of a
\* completed run are those of its results, for any number of questions, tasks
\* and executions (knowledge/eval/service.py, benchmark_generation.py).
THEOREM EvaluationsSafe ==
  EvaluationConstants =>
    (EV!Spec => [](EV!ItemsContiguous /\ EV!CompletedHasAll
                     /\ EV!StatusFollowsTask /\ EV!RunsAgree
                     /\ EV!FiguresAgree))
<1> SUFFICES ASSUME EvaluationConstants
             PROVE  EV!Spec => [](EV!ItemsContiguous /\ EV!CompletedHasAll
                                    /\ EV!StatusFollowsTask /\ EV!RunsAgree
                                    /\ EV!FiguresAgree)
  OBVIOUS
<1>1. EV!Init => EvaluationInv
  BY EvaluationInit
<1>2. EvaluationInv /\ [EV!Next]_(EV!vars) => EvaluationInv'
  BY EvaluationKept
<1>3. EvaluationInv => EV!ItemsContiguous /\ EV!CompletedHasAll
                         /\ EV!StatusFollowsTask /\ EV!RunsAgree
                         /\ EV!FiguresAgree
  BY EvaluationSafe
<1> QED BY <1>1, <1>2, <1>3, PTL DEF EV!Spec

-----------------------------------------------------------------------------
\* What a module that instantiates this one cites.
LEMMA TasksKept ==
  /\ TaskConstants =>
       /\ Init => TaskInv
       /\ TaskInv /\ [Next]_vars =>
            TaskInv' /\ [QuietStep]_vars /\ LeaseStep
       /\ TaskInv => SlotsRespected /\ ExecutedOnce /\ TasksAgree
                       /\ OneActivePerIntent
  /\ EvaluationConstants =>
       /\ EV!Init => EvaluationInv
       /\ EvaluationInv /\ [EV!Next]_(EV!vars) => EvaluationInv'
       /\ EvaluationInv => EV!ItemsContiguous /\ EV!CompletedHasAll
                             /\ EV!StatusFollowsTask /\ EV!RunsAgree
                             /\ EV!FiguresAgree
<1>1. TaskInv => SlotsRespected /\ ExecutedOnce /\ TasksAgree
  BY DEF TaskInv
<1>2. TaskInv => OneActivePerIntent
  BY DEF TaskInv, Typed, RowShape, KeysUnique, OneActivePerIntent
<1>3. TaskConstants =>
        /\ Init => TaskInv
        /\ TaskInv /\ [Next]_vars =>
             TaskInv' /\ [QuietStep]_vars /\ LeaseStep
  BY InitInv, StepInv, QuietKept, LeaseKept DEF LeaseStep
<1>4. EvaluationConstants =>
        /\ EV!Init => EvaluationInv
        /\ EvaluationInv /\ [EV!Next]_(EV!vars) => EvaluationInv'
        /\ EvaluationInv => EV!ItemsContiguous /\ EV!CompletedHasAll
                              /\ EV!StatusFollowsTask /\ EV!RunsAgree
                              /\ EV!FiguresAgree
  BY EvaluationInit, EvaluationKept, EvaluationSafe
<1> QED BY <1>1, <1>2, <1>3, <1>4
=============================================================================
