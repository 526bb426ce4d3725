---------------------------- MODULE CodingSessions ----------------------------
(***************************************************************************)
(* A coding session and its turns: services/coding_session_service.py (the *)
(* states), coding_execution_service.py (turns run by an agent run or by a *)
(* job, the reconciler) and agents/toolkits/buildin/coding_tools.py (what  *)
(* an agent may ask).                                                      *)
(*                                                                         *)
(* A turn is run at once by the agent run that asks for it, or queued for  *)
(* a job that waits for the lease of the sandbox.  The queue may lose a    *)
(* job and the reconciler puts it there again and again, so a turn may     *)
(* have several jobs.  A job writes its result only while it holds the     *)
(* lease; the reconciler fails a turn nobody holds.                        *)
(***************************************************************************)
EXTENDS Naturals, Sequences

CONSTANTS Workers,  \* workers that run jobs
          NoOne,
          Budget,   \* max_turns of the session
          Modes,    \* how turns are asked for: subset of {"sync", "async"}
          MaxTurns  \* bound: turns of the session

VARIABLES
  rows,     \* s: coding_sessions.status; turns: status and mode of each turn;
            \*   marker: pending_turn in policy_json, 0: none; owner, live, of:
            \*   the sandbox's lease and the turn its owner id is made from
  procs,    \* run: an agent run has the conversation; call: the turn it is
            \*   running; ctl: a call to cancel; job: per worker; old: turns
            \*   that started longer ago than a command may take
  outside,  \* queue: turns with a job; signal: the cancel signal in Redis
  ghost     \* ran: commands started per turn; again: an ended turn was ended
            \*   again; asked: turns a cancellation was asked for; late: a
            \*   signal outlived its turn; blind: a cancellation went by a
            \*   status that had changed

vars == <<rows, procs, outside, ghost>>

Turns == 1 .. MaxTurns
SessionTerminal == {"completed", "failed", "cancelled"}
Active == {"pending", "running"}
IdleJob == [pc |-> "idle", t |-> 0]
NoCtl == [pc |-> "none", saw |-> "none"]

Init ==
  /\ rows = [s |-> "none", turns |-> <<>>, marker |-> 0,
             owner |-> NoOne, live |-> FALSE, of |-> 0]
  /\ procs = [run |-> FALSE, call |-> 0, ctl |-> NoCtl,
              job |-> [w \in Workers |-> IdleJob], old |-> {}]
  /\ outside = [queue |-> {}, signal |-> FALSE]
  /\ ghost = [ran |-> [t \in Turns |-> 0], again |-> FALSE, asked |-> {},
              late |-> FALSE, blind |-> FALSE]

Status(t) == rows.turns[t].st
ActiveTurns == {t \in DOMAIN rows.turns : Status(t) \in Active}
Job(w) == procs.job[w]

\* The row after turn t has ended as st; the session as ss, the pending turn
\* forgotten if it is t and the step forgets.
EndsTurn(t, st, ss, forgets) ==
  /\ rows' = [rows EXCEPT !.turns[t].st = st, !.s = ss, !.marker =
                IF forgets /\ @ = t THEN 0 ELSE @]
  /\ ghost' = [ghost EXCEPT !.again = @ \/ Status(t) \notin Active]

\* The same, with the lease given back by worker w.
Released(w, r) ==
  IF r.owner = w THEN [r EXCEPT !.owner = NoOne, !.live = FALSE, !.of = 0]
                 ELSE r

-----------------------------------------------------------------------------
(* The agent run.                                                          *)

LeaseFree == rows.owner = NoOne \/ ~rows.live

RunStarts ==
  /\ ~procs.run /\ LeaseFree
  /\ rows' = [rows EXCEPT !.owner = "run", !.live = TRUE, !.of = 0]
  /\ procs' = [procs EXCEPT !.run = TRUE]
  /\ UNCHANGED <<outside, ghost>>

RunEnds ==
  /\ procs.run /\ procs.call = 0 /\ procs.ctl = NoCtl
  /\ procs' = [procs EXCEPT !.run = FALSE]
  /\ rows' = Released("run", rows)
  /\ UNCHANGED <<outside, ghost>>

\* The process dies, with the turn it was running.
RunDies ==
  /\ procs.run
  /\ procs' = [procs EXCEPT !.run = FALSE, !.call = 0, !.ctl = NoCtl]
  /\ UNCHANGED <<rows, outside, ghost>>

MayBegin == rows.s \in {"none", "idle"} /\ Len(rows.turns) < MaxTurns

\* run_turn: the session is made or taken, the sandbox made ready, the turn
\* written, all in one transaction; then the command.
RunTurn ==
  /\ "sync" \in Modes /\ procs.run /\ procs.call = 0
  /\ \/ /\ rows.s = "idle" /\ Len(rows.turns) >= Budget
        /\ rows' = [rows EXCEPT !.s = "failed"]
        /\ UNCHANGED <<procs, ghost>>
     \/ /\ MayBegin /\ Len(rows.turns) < Budget
        /\ LET t == Len(rows.turns) + 1
           IN /\ rows' = [rows EXCEPT !.s = "running", !.turns =
                            Append(@, [st |-> "running", mode |-> "sync"])]
              /\ procs' = [procs EXCEPT !.call = t]
              /\ ghost' = [ghost EXCEPT !.ran[t] = @ + 1]
  /\ UNCHANGED outside

\* _queue_turn, which does not look at the budget; a delegation queues the
\* first turn of a session without a run.  The job may not reach the queue.
QueueTurn ==
  /\ "async" \in Modes /\ MayBegin /\ (rows.s = "none" \/ procs.run)
  /\ LET t == Len(rows.turns) + 1
     IN /\ rows' = [rows EXCEPT !.s = "running", !.marker = t, !.turns =
                      Append(@, [st |-> "pending", mode |-> "async"])]
        /\ \E sent \in {{t}, {}} :
             outside' = [outside EXCEPT !.queue = @ \cup sent]
  /\ UNCHANGED <<procs, ghost>>

\* What the events an adapter finds in the output of a command come to.
Outcomes == {"completed", "failed"}

\* The end of _execute_turn_tail.  The session is the one read when the turn
\* began, in state running; the signal is asked for, and taken away, if Redis
\* answers.
TurnTail(t, r) ==
  \E cancelled, keeps \in {outside.signal, FALSE}, o \in Outcomes :
    LET st == IF cancelled THEN "cancelled" ELSE o
        ss == IF st = "completed" THEN "idle" ELSE st
    IN /\ rows' = [r EXCEPT !.turns[t].st = st, !.s = ss, !.marker =
                     IF ~cancelled /\ @ = t THEN 0 ELSE @]
       /\ ghost' = [ghost EXCEPT !.again = @ \/ Status(t) \notin Active,
                                 !.late = @ \/ keeps]
       /\ outside' = [outside EXCEPT !.signal = keeps]

TurnReturns ==
  /\ procs.call # 0 /\ TurnTail(procs.call, rows)
  /\ procs' = [procs EXCEPT !.call = 0]

-----------------------------------------------------------------------------
(* Cancelling: coding_session_control.                                     *)

\* The session is read ...
ControlReads ==
  /\ procs.run /\ procs.ctl = NoCtl /\ rows.s \in {"idle", "running"}
  /\ procs' = [procs EXCEPT !.ctl = [pc |-> "act", saw |-> rows.s]]
  /\ UNCHANGED <<rows, outside, ghost>>

\* ... a running one gets the signal, if Redis takes it ...
ControlSignals ==
  /\ procs.ctl.pc = "act" /\ procs.ctl.saw = "running"
  /\ outside' = [outside EXCEPT !.signal = TRUE]
  /\ ghost' = [ghost EXCEPT !.asked = @ \cup ActiveTurns,
                            !.late = @ \/ ActiveTurns = {}]
  /\ procs' = [procs EXCEPT !.ctl = NoCtl]
  /\ UNCHANGED rows

\* ... another one is cancelled, under its lock but as it was read.
ControlCancels ==
  /\ procs.ctl.pc = "act" /\ procs.ctl.saw = "idle"
  /\ rows' = [rows EXCEPT !.s = "cancelled"]
  /\ ghost' = [ghost EXCEPT !.blind = @ \/ rows.s # "idle"]
  /\ procs' = [procs EXCEPT !.ctl = NoCtl]
  /\ UNCHANGED outside

SignalExpires ==
  /\ outside.signal /\ outside' = [outside EXCEPT !.signal = FALSE]
  /\ UNCHANGED <<rows, procs, ghost>>

-----------------------------------------------------------------------------
(* run_coding_turn_job.                                                    *)

JobGoes(w, pc) == procs' = [procs EXCEPT !.job[w].pc = pc]
JobOver(w) == procs' = [procs EXCEPT !.job[w] = IdleJob]

\* The turn is looked at without a lock; a session that is over ends it.
TakeJob(w) ==
  \E t \in outside.queue :
    /\ Job(w) = IdleJob
    /\ outside' = [outside EXCEPT !.queue = @ \ {t}]
    /\ CASE Status(t) # "pending" -> UNCHANGED <<rows, procs, ghost>>
         [] Status(t) = "pending" /\ rows.s \in SessionTerminal ->
              EndsTurn(t, "cancelled", rows.s, TRUE) /\ UNCHANGED procs
         [] OTHER -> /\ procs' = [procs EXCEPT !.job[w] =
                                    [pc |-> "acquire", t |-> t]]
                     /\ UNCHANGED <<rows, ghost>>

AcquireLease(w) ==
  /\ Job(w).pc = "acquire" /\ LeaseFree
  /\ rows' = [rows EXCEPT !.owner = w, !.live = TRUE, !.of = Job(w).t]
  /\ JobGoes(w, "leased")
  /\ UNCHANGED <<outside, ghost>>

\* SandboxBusyError: the reconciler sends another job.
Busy(w) ==
  /\ Job(w).pc = "acquire" /\ ~LeaseFree /\ JobOver(w)
  /\ UNCHANGED <<rows, outside, ghost>>

\* The turn under its lock, once the lease is there.
StillPending(t) == Status(t) = "pending"

MarkRunning(w) ==
  LET t == Job(w).t
  IN /\ Job(w).pc = "leased"
     /\ \/ /\ ~StillPending(t)
           /\ JobOver(w) /\ rows' = Released(w, rows) /\ UNCHANGED ghost
        \/ /\ StillPending(t) /\ rows.s \in SessionTerminal
           /\ rows' = Released(w, [rows EXCEPT !.turns[t].st = "cancelled",
                            !.marker = IF @ = t THEN 0 ELSE @])
           /\ JobOver(w) /\ UNCHANGED ghost
        \/ /\ StillPending(t) /\ rows.s \notin SessionTerminal
           /\ rows' = [rows EXCEPT !.turns[t].st = "running"]
           /\ JobGoes(w, "started") /\ UNCHANGED ghost
     /\ UNCHANGED outside

\* cancel_queued_turn.
CancelledBefore(w) ==
  LET t == Job(w).t
  IN /\ Job(w).pc = "started" /\ outside.signal
     /\ rows' = Released(w, [rows EXCEPT !.turns[t].st = "cancelled",
                  !.s = "cancelled", !.marker = IF @ = t THEN 0 ELSE @])
     /\ outside' = [outside EXCEPT !.signal = FALSE]
     /\ ghost' = [ghost EXCEPT !.again = @ \/ Status(t) # "running"]
     /\ JobOver(w)

\* The sandbox is made ready and the command started; a signal may not have
\* been read.
Execute(w) ==
  /\ Job(w).pc = "started"
  /\ ghost' = [ghost EXCEPT !.ran[Job(w).t] = @ + 1]
  /\ JobGoes(w, "exec")
  /\ UNCHANGED <<rows, outside>>

\* Faulty variant: the result is written whoever has the lease.
OwnsTurnAlways(w) == TRUE

\* _owns_coding_turn_lease, which locks the lease until the result is there.
OwnsTurn(w) == rows.owner = w /\ rows.live

Finish(w) ==
  /\ Job(w).pc = "exec" /\ OwnsTurn(w)
  /\ TurnTail(Job(w).t, Released(w, rows))
  /\ JobOver(w)

\* The lease was lost, or a heartbeat failed: nothing is written.
LostOwnership(w) ==
  /\ Job(w).pc = "exec" /\ JobOver(w)
  /\ rows' = Released(w, rows)
  /\ UNCHANGED <<outside, ghost>>

\* _fail_owned_coding_turn, after any exception.
FailOwned(w) ==
  LET t == Job(w).t
  IN /\ Job(w).pc \in {"started", "exec"} /\ JobOver(w)
     /\ rows' = Released(w,
          IF OwnsTurn(w) /\ Status(t) = "running"
            THEN [rows EXCEPT !.turns[t].st = "failed",
                    !.marker = IF @ = t THEN 0 ELSE @,
                    !.s = IF @ = "running" THEN "failed" ELSE @]
            ELSE rows)
     /\ UNCHANGED <<outside, ghost>>

Crash(w) ==
  /\ Job(w) # IdleJob /\ JobOver(w)
  /\ UNCHANGED <<rows, outside, ghost>>

LeaseEnds ==
  /\ rows.live /\ rows' = [rows EXCEPT !.live = FALSE]
  /\ UNCHANGED <<procs, outside, ghost>>

-----------------------------------------------------------------------------
(* reconcile_coding_turns.                                                 *)

\* A command that takes longer than it may, or whose process is gone: the
\* limit is its timeout and five minutes, the steps before it are short.
GetsOld(t) ==
  /\ t \in DOMAIN rows.turns \ procs.old /\ Status(t) = "running"
  /\ procs.call # t /\ \A w \in Workers : Job(w).t = t => Job(w).pc = "exec"
  /\ procs' = [procs EXCEPT !.old = @ \cup {t}]
  /\ UNCHANGED <<rows, outside, ghost>>

Republish(t) ==
  /\ t \in DOMAIN rows.turns /\ Status(t) = "pending"
  /\ outside' = [outside EXCEPT !.queue = @ \cup {t}]
  /\ UNCHANGED <<rows, procs, ghost>>

\* owns_active_prefix: some job of this turn holds the lease.
Held(t) == rows.live /\ rows.of = t

FailLost(t) ==
  /\ t \in procs.old /\ Status(t) = "running" /\ ~Held(t)
  /\ EndsTurn(t, "failed", IF rows.s = "running" THEN "failed" ELSE rows.s,
              TRUE)
  /\ UNCHANGED <<procs, outside>>

Next ==
  \/ RunStarts \/ RunEnds \/ RunDies \/ RunTurn \/ QueueTurn
  \/ TurnReturns
  \/ ControlReads \/ ControlSignals \/ ControlCancels \/ SignalExpires
  \/ LeaseEnds
  \/ \E w \in Workers :
       TakeJob(w) \/ AcquireLease(w) \/ Busy(w) \/ MarkRunning(w)
         \/ CancelledBefore(w) \/ Execute(w) \/ Finish(w) \/ LostOwnership(w)
         \/ FailOwned(w) \/ Crash(w)
  \/ \E t \in Turns : GetsOld(t) \/ Republish(t) \/ FailLost(t)

Spec == Init /\ [][Next]_vars

-----------------------------------------------------------------------------
(* What holds of coding sessions.                                          *)

\* The command of a turn is started at most once, however many jobs the turn
\* has and whichever of them die.
StartedOnce == \A t \in Turns : ghost.ran[t] <= 1

\* A turn that has ended is never ended again: the reconciler, a job that
\* comes back late and a cancellation do not overwrite each other.
EndedOnce == ~ghost.again

\* A session is running while one of its turns is, and only then; unless a
\* cancellation went by a status that had changed.
SessionFollowsTurns ==
  /\ \A t, u \in ActiveTurns : t = u \/ ghost.blind
  /\ ~ghost.blind => (rows.s = "running" <=> ActiveTurns # {})

\* Only what was asked for is cancelled; unless a signal outlived the turn
\* it was meant for.
CancelledWasAsked ==
  \A t \in DOMAIN rows.turns :
    Status(t) = "cancelled" /\ ~ghost.late /\ ~ghost.blind => t \in ghost.asked

=============================================================================
