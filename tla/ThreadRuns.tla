------------------------------ MODULE ThreadRuns ------------------------------
(***************************************************************************)
(* What the runs of one conversation thread look like to the request       *)
(* queue: chat and resume runs, one at a time, without workers, leases,    *)
(* attempts or subagents.  AgentRunLease implements this specification     *)
(* and RequestQueue is built on it.                                        *)
(***************************************************************************)
CONSTANTS Runs,   \* identities of AgentRun rows
          NoRun

VARIABLES
  status,  \* agent_runs.status, "absent" while there is no row
  fenced,  \* agent_runs.runtime_cleanup_pending
  newest,  \* get_latest_chat_or_resume_run
  parent   \* agent_runs.created_by_run_id of a resume run

threadVars == <<status, fenced, newest, parent>>

ActiveStatuses == {"pending", "running", "cancel_requested"}

\* get_active_run_by_thread_for_user: not terminal, or not cleaned up.
Holds(r) == status[r] \in ActiveStatuses \/ fenced[r]

\* Faulty variant: the fence is not looked at.
ThreadFreeUnfenced == \A r \in Runs : status[r] \notin ActiveStatuses

ThreadFree == \A r \in Runs : ~Holds(r)

\* Faulty variant: the run counts only until it is cleaned up.
InterruptedFenced ==
  newest # NoRun /\ status[newest] = "interrupted" /\ fenced[newest]

Interrupted == newest # NoRun /\ status[newest] = "interrupted"

ThreadInit ==
  /\ status = [r \in Runs |-> "absent"]
  /\ fenced = [r \in Runs |-> FALSE]
  /\ newest = NoRun
  /\ parent = [r \in Runs |-> NoRun]

\* A new row, as the newest one of a free thread; p is the run it resumes.
Create(r, p) ==
  /\ ThreadFree
  /\ status[r] = "absent"
  /\ status' = [status EXCEPT ![r] = "pending"]
  /\ newest' = r
  /\ parent' = [parent EXCEPT ![r] = p]
  /\ UNCHANGED fenced

\* A chat run never steps over a run that waits for its user.
CreateChat(r) == ~Interrupted /\ Create(r, NoRun)
CreateResume(r) == Interrupted /\ Create(r, newest)

\* A worker claims a run whose runtime is clean.
Begin(r) ==
  /\ status[r] = "pending" /\ ~fenced[r]
  /\ status' = [status EXCEPT ![r] = "running"]
  /\ UNCHANGED <<fenced, newest, parent>>

\* The run is given back for another try and its runtime has to go.
GiveBack(r) ==
  /\ status[r] = "running"
  /\ status' = [status EXCEPT ![r] = "pending"]
  /\ fenced' = [fenced EXCEPT ![r] = TRUE]
  /\ UNCHANGED <<newest, parent>>

AskToStop(r) ==
  /\ status[r] \in {"pending", "running"}
  /\ status' = [status EXCEPT ![r] = "cancel_requested"]
  /\ UNCHANGED <<fenced, newest, parent>>

\* A run that has not begun has no runtime and needs no fence.
CancelUnbegun(r) ==
  /\ status[r] = "pending" /\ ~fenced[r]
  /\ status' = [status EXCEPT ![r] = "cancelled"]
  /\ UNCHANGED <<fenced, newest, parent>>

\* How an execution may end, by its status before.
EndsOf(s) == CASE s = "running" -> {"completed", "failed", "interrupted"}
               [] s = "cancel_requested" -> {"cancelled", "failed"}
               [] OTHER -> {}

End(r, s) ==
  /\ s \in EndsOf(status[r])
  /\ status' = [status EXCEPT ![r] = s]
  /\ fenced' = [fenced EXCEPT ![r] = TRUE]
  /\ UNCHANGED <<newest, parent>>

LiftFence(r) ==
  /\ fenced[r]
  /\ fenced' = [fenced EXCEPT ![r] = FALSE]
  /\ UNCHANGED <<status, newest, parent>>

Next ==
  \E r \in Runs :
    \/ CreateChat(r) \/ CreateResume(r)
    \/ Begin(r) \/ GiveBack(r)
    \/ AskToStop(r) \/ CancelUnbegun(r)
    \/ \E s \in {"completed", "failed", "cancelled", "interrupted"} : End(r, s)
    \/ LiftFence(r)

Spec == ThreadInit /\ [][Next]_threadVars

=============================================================================
