------------------------------ MODULE TaskLease ------------------------------
(***************************************************************************)
(* What a durable background task promises to the code that works under    *)
(* it, and no more: who may write while it runs, and that it ends once.    *)
(* DurableTask implements this module; KnowledgeFiles, KnowledgeGraph and  *)
(* Evaluation build on it.                                                 *)
(***************************************************************************)
CONSTANTS Tasks,     \* identities of rows of the tasks table
          Workers,   \* executions of process_task, with their owner tokens
          NoWorker

VARIABLE
  lease  \* per task: st, its status ("absent" before there is a row and
         \* "gone" after); by, its worker_id; on, its lease has not run out

EndStatuses == {"success", "failed", "cancelled"}

TaskIn(s) == [st |-> s, by |-> NoWorker, on |-> FALSE]

TaskInit == lease \in [Tasks -> {TaskIn("absent"), TaskIn("pending")}]

Submit(t) == /\ lease[t].st = "absent"
             /\ lease' = [lease EXCEPT ![t] = TaskIn("pending")]

Take(t, w) ==
  /\ lease[t].st = "pending"
  /\ lease' = [lease EXCEPT ![t] = [st |-> "running", by |-> w, on |-> TRUE]]

\* Nobody renews the lease in time.
LeaseRunsOut(t) == lease[t].on /\ lease' = [lease EXCEPT ![t].on = FALSE]

HoldsLease(t, w) == lease[t] = [st |-> "running", by |-> w, on |-> TRUE]

Ended(t, s) == lease' = [lease EXCEPT ![t] = TaskIn(s)]

\* The holder ends its task; the only way to success.
HolderEnds(t, w, s) == HoldsLease(t, w) /\ Ended(t, s)

Unheld(t) == lease[t].st = "running" /\ ~lease[t].on

\* A task whose lease has run out is failed, by anyone, as is one that
\* never started and cannot or shall not.
GivenUp(t) ==
  \/ Unheld(t) /\ Ended(t, "failed")
  \/ lease[t].st = "pending" /\ \E s \in {"failed", "cancelled"} : Ended(t, s)

Forget(t) == lease[t].st \in EndStatuses /\ Ended(t, "gone")

\* Several rows may change in one transaction of the reconciler.
ManyGivenUp ==
  /\ DOMAIN lease' = Tasks
  /\ \A t \in Tasks :
       \/ lease'[t] = lease[t]
       \/ Unheld(t) /\ lease'[t] = TaskIn("failed")
       \/ lease[t].st = "pending" /\ lease'[t] = TaskIn("failed")
       \/ lease[t].st \in EndStatuses /\ lease'[t] = TaskIn("gone")

TaskNext ==
  \/ \E t \in Tasks :
       \/ Submit(t) \/ LeaseRunsOut(t) \/ GivenUp(t) \/ Forget(t)
       \/ \E w \in Workers :
            Take(t, w) \/ \E s \in EndStatuses : HolderEnds(t, w, s)
  \/ ManyGivenUp

TaskSpec == TaskInit /\ [][TaskNext]_lease

=============================================================================
