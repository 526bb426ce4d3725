---------------------------- MODULE ScheduledAgents ----------------------------
(***************************************************************************)
(* The scheduled tasks of a user: services/scheduled_agent_service.py and  *)
(* repositories/scheduled_agent_repository.py.                             *)
(*                                                                         *)
(* A due task is claimed under its row lock, which writes the record of    *)
(* one occurrence; the record is then dispatched: an agent request with an *)
(* id made from the occurrence is submitted, in a transaction of its own,  *)
(* and the record marked in the next one.  Whoever finds a record still    *)
(* dispatching (a claim, a repeated "run now", the recovery of a worker)   *)
(* dispatches it again.                                                    *)
(***************************************************************************)
EXTENDS Naturals, FiniteSets

CONSTANTS Workers,    \* executions: workers' loops and requests of the user
          MaxOcc,     \* bound: scheduled occurrences
          Manual,     \* request ids the user runs the task with: numbers
                      \*   above MaxOcc
          MayEnd      \* what may go: subset of {"project", "user"}

VARIABLES
  rows,     \* job: "none", "live" or "deleted"; on: enabled; alive: the
            \*   project and the user are; run: the status per record; req:
            \*   the agent request of each
  procs,    \* per execution: what it does next, with which record
  outside,  \* due: next_run_at has passed; next: the occurrence it stands for
  ghost     \* lost: a record was cancelled whose request was there

vars == <<rows, procs, outside, ghost>>

Occurrences == (1 .. MaxOcc) \cup Manual
Idle == [pc |-> "idle", o |-> 0, terminal |-> FALSE]

Init ==
  /\ rows = [job |-> "none", on |-> FALSE, alive |-> {"project", "user"},
             run |-> [o \in Occurrences |-> "none"],
             req |-> [o \in Occurrences |-> "none"]]
  /\ procs = [w \in Workers |-> Idle]
  /\ outside = [due |-> FALSE, next |-> 1]
  /\ ghost = [lost |-> FALSE]

Goes(w, pc, o) ==
  procs' = [procs EXCEPT ![w] = [pc |-> pc, o |-> o, terminal |-> FALSE]]
Over(w) == procs' = [procs EXCEPT ![w] = Idle]

\* has_active_run: a record that is being dispatched, or whose request has
\* not ended; the requests of records that were cancelled do not count.
HasActiveRun ==
  \E o \in Occurrences : \/ rows.run[o] = "dispatching"
                         \/ rows.run[o] = "submitted" /\ rows.req[o] # "over"

\* _new_scheduled_run: the task has one execution at a time.
NewRun == IF HasActiveRun THEN "skipped" ELSE "dispatching"

-----------------------------------------------------------------------------
(* The task.                                                               *)

\* create_scheduled_job: the same request id is the same task.
CreateJob ==
  /\ rows.job = "none" /\ rows.alive = {"project", "user"}
  /\ \E on \in BOOLEAN : rows' = [rows EXCEPT !.job = "live", !.on = on]
  /\ UNCHANGED <<procs, outside, ghost>>

\* update_scheduled_job: the next run is counted from now when the plan is
\* another one or the task is switched on.
UpdateJob ==
  /\ rows.job = "live"
  /\ \E on, newPlan \in BOOLEAN :
       /\ rows' = [rows EXCEPT !.on = on]
       /\ outside' = [outside EXCEPT !.due =
                        @ /\ ~newPlan /\ (on => rows.on)]
  /\ UNCHANGED <<procs, ghost>>

DeleteJob ==
  /\ rows.job = "live"
  /\ rows' = [rows EXCEPT !.job = "deleted", !.on = FALSE]
  /\ UNCHANGED <<procs, outside, ghost>>

TimePasses ==
  /\ rows.job = "live" /\ ~outside.due /\ outside.next <= MaxOcc
  /\ outside' = [outside EXCEPT !.due = TRUE]
  /\ UNCHANGED <<rows, procs, ghost>>

\* The project is archived, or the user deleted.
Ends ==
  /\ \E e \in MayEnd \cap rows.alive : rows' = [rows EXCEPT !.alive = @ \ {e}]
  /\ UNCHANGED <<procs, outside, ghost>>

-----------------------------------------------------------------------------
(* Occurrences.                                                            *)

\* claim_due_job.
Due == rows.on /\ "user" \in rows.alive /\ outside.due

ClaimDue(w) ==
  LET o == outside.next
  IN /\ procs[w] = Idle /\ Due
     /\ rows' = [rows EXCEPT !.run[o] = NewRun]
     /\ outside' = [due |-> FALSE, next |-> o + 1]
     /\ IF rows'.run[o] = "dispatching" THEN Goes(w, "dispatch", o) ELSE Over(w)
     /\ UNCHANGED ghost

\* A plan without a next date switches the task off.
ClaimUnusable(w) ==
  /\ procs[w] = Idle /\ Due
  /\ rows' = [rows EXCEPT !.on = FALSE]
  /\ UNCHANGED <<procs, outside, ghost>>

\* run_scheduled_job_now: the same request id is the same record.
RunNow(w, o) ==
  /\ procs[w] = Idle /\ rows.job = "live"
  /\ \/ /\ rows.run[o] = "none" /\ rows.alive = {"project", "user"}
        /\ rows' = [rows EXCEPT !.run[o] = NewRun]
     \/ rows.run[o] # "none" /\ UNCHANGED rows
  /\ IF rows'.run[o] = "dispatching" THEN Goes(w, "dispatch", o) ELSE Over(w)
  /\ UNCHANGED <<outside, ghost>>

\* recover_scheduled_dispatches takes up every record that is thirty seconds
\* old, whoever may be at it.
Recover(w, o) ==
  /\ procs[w] = Idle /\ rows.run[o] = "dispatching"
  /\ Goes(w, "dispatch", o)
  /\ UNCHANGED <<rows, outside, ghost>>

-----------------------------------------------------------------------------
(* dispatch_scheduled_run, under the lock of the record.                   *)

\* A scheduled record of a task that is off by now; one the user asked for
\* is dispatched anyway.
SwitchedOff(o) == "user" \notin rows.alive \/ (o \notin Manual /\ ~rows.on)

\* Somebody else has dispatched it, or the task is off.
DispatchNot(w) ==
  LET o == procs[w].o
  IN /\ procs[w].pc = "dispatch"
     /\ \/ rows.run[o] # "dispatching" /\ UNCHANGED <<rows, ghost>>
        \/ /\ rows.run[o] = "dispatching" /\ SwitchedOff(o)
           /\ rows' = [rows EXCEPT !.run[o] = "cancelled"]
           /\ ghost' = [ghost EXCEPT !.lost = @ \/ rows.req[o] # "none"]
     /\ Over(w)
     /\ UNCHANGED outside

MayDispatch(o) == rows.run[o] = "dispatching" /\ ~SwitchedOff(o)

\* submit_agent_request commits the new request, and the lock is gone.
Submit(w) ==
  LET o == procs[w].o
  IN /\ procs[w].pc = "dispatch" /\ MayDispatch(o)
     /\ "project" \in rows.alive /\ rows.req[o] = "none"
     /\ rows' = [rows EXCEPT !.req[o] = "active"]
     /\ Goes(w, "mark", o)
     /\ UNCHANGED <<outside, ghost>>

\* The request is there already: nothing is committed before the record is.
SubmitAgain(w) ==
  LET o == procs[w].o
  IN /\ procs[w].pc = "dispatch" /\ MayDispatch(o)
     /\ "project" \in rows.alive /\ rows.req[o] # "none"
     /\ rows' = [rows EXCEPT !.run[o] = "submitted"]
     /\ Over(w)
     /\ UNCHANGED <<outside, ghost>>

\* A refusal (HTTPException), or anything else that goes wrong, also after
\* the commit, when the run is put on the queue.
SubmitFails(w) ==
  /\ \/ procs[w].pc = "dispatch" /\ MayDispatch(procs[w].o)
     \/ procs[w].pc = "mark"
  /\ \E terminal \in (IF "project" \in rows.alive THEN BOOLEAN ELSE {TRUE}) :
       procs' = [procs EXCEPT ![w].pc = "settle", ![w].terminal = terminal]
  /\ UNCHANGED <<rows, outside, ghost>>

\* The record is written as it was read, whatever it has become.
Mark(w) ==
  /\ procs[w].pc = "mark"
  /\ rows' = [rows EXCEPT !.run[procs[w].o] = "submitted"]
  /\ Over(w)
  /\ UNCHANGED <<outside, ghost>>

\* Faulty variant: a refusal ends the record without another look.
FoundNot(o) == FALSE

\* get_request_and_run: the request is there although the submission failed.
Found(o) == rows.req[o] # "none"

\* _settle_dispatch_error.
Settle(w) ==
  LET o == procs[w].o
  IN /\ procs[w].pc = "settle"
     /\ rows' = IF rows.run[o] = "dispatching" /\ Found(o)
                  THEN [rows EXCEPT !.run[o] = "submitted"]
                ELSE IF rows.run[o] = "dispatching" /\ procs[w].terminal
                  THEN [rows EXCEPT !.run[o] = "failed"]
                ELSE rows
     /\ Over(w)
     /\ UNCHANGED <<outside, ghost>>

\* The agent run of the request ends, or the request is cancelled.
RequestEnds(o) ==
  /\ rows.req[o] = "active"
  /\ rows' = [rows EXCEPT !.req[o] = "over"]
  /\ UNCHANGED <<procs, outside, ghost>>

Crash(w) ==
  /\ procs[w] # Idle /\ Over(w)
  /\ UNCHANGED <<rows, outside, ghost>>

Next ==
  \/ CreateJob \/ UpdateJob \/ DeleteJob \/ TimePasses \/ Ends
  \/ \E o \in Occurrences : RequestEnds(o)
  \/ \E w \in Workers :
       \/ ClaimDue(w) \/ ClaimUnusable(w) \/ DispatchNot(w) \/ Submit(w)
       \/ SubmitAgain(w) \/ SubmitFails(w) \/ Mark(w) \/ Settle(w) \/ Crash(w)
       \/ \E o \in Manual : RunNow(w, o)
       \/ \E o \in Occurrences : Recover(w, o)

Spec == Init /\ [][Next]_vars

-----------------------------------------------------------------------------
(* What holds of scheduled tasks.                                          *)

\* A task has one execution at a time; unless a record was cancelled whose
\* request somebody who died had submitted.
NoOverlap ==
  ghost.lost \/ Cardinality({o \in Occurrences : rows.req[o] = "active"}) <= 1

\* As documented, and not so: executions of a task never overlap.
NeverOverlap ==
  Cardinality({o \in Occurrences : rows.req[o] = "active"}) <= 1

\* A record that was skipped, refused or cancelled has no agent request, and
\* one that was submitted has; whichever executions dispatched it and died.
RecordIsTrue ==
  \A o \in Occurrences :
    /\ rows.run[o] \in {"none", "skipped", "failed"} => rows.req[o] = "none"
    /\ rows.run[o] = "cancelled" => rows.req[o] = "none" \/ ghost.lost
    /\ rows.run[o] = "submitted" => rows.req[o] # "none"

=============================================================================
