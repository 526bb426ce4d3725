----------------------------- MODULE MessageAudit -----------------------------
(***************************************************************************)
(* What a run leaves in the conversation: the rows that record each model  *)
(* and tool operation while the stream runs, the ToolCall rows the history *)
(* shows, and the final save that reconciles them with the checkpoint.     *)
(* One conversation with a chat run and the run that follows it: a resume  *)
(* that answers it, or the next chat run.                                  *)
(***************************************************************************)
EXTENDS Naturals, Sequences, FiniteSets, SequencesExt

CONSTANTS Workers,    \* executions of the runs
          NoWorker,
          MaxOps,     \* bound: model operations in the conversation
          MaxRetries  \* bound: releases for a retry

VARIABLES
  rows,     \* AgentRun, Message and ToolCall rows
  procs,    \* per execution: where the stream is
  outside,  \* the checkpoint of the thread (LangGraph)
  ghost     \* operations and retries so far, and closed facts that changed

vars == <<rows, procs, outside, ghost>>

Runs == {"first", "second"}
Ops == 1 .. MaxOps
Terminal == {"completed", "failed", "interrupted", "cancelled"}

\* The message of a run with is_error (save_partial_message).
ErrorRow == MaxOps + 1

\* out: output_message_id, an operation or the error row (0: none).
NewRun == [st |-> "none", owner |-> NoWorker, live |-> FALSE, out |-> 0]

\* The row of a model operation: run; execution_status ("none": no audit row,
\* the final save has inserted it as text); asks: its metadata names the tool
\* call the message contains; visible: ordinary history; proven:
\* state_reconciled.
NoModel == [run |-> "none", st |-> "none", asks |-> FALSE, visible |-> FALSE,
            proven |-> FALSE]

\* The tool call of operation o is named o too.  A tool row belongs to a run
\* and a call; "awaiting" is running with awaiting_run_terminal.
Init ==
  /\ rows = [run |-> [r \in Runs |-> IF r = "first" THEN
                        [NewRun EXCEPT !.st = "pending"] ELSE NewRun],
             kind |-> "none", model |-> [o \in Ops |-> NoModel],
             tool |-> [r \in Runs |-> [o \in Ops |-> "none"]],
             call |-> [o \in Ops |-> "none"], errors |-> {}]
  /\ procs = [w \in Workers |-> [pc |-> "idle", run |-> "none", op |-> 0]]
  /\ outside = [ai |-> <<>>, asks |-> {}, answered |-> {}, errors |-> {}]
  /\ ghost = [ops |-> 0, retries |-> 0]

Pc(w) == procs[w].pc
R(w) == procs[w].run
Op(w) == procs[w].op
Run(w) == rows.run[R(w)]
To(w, p) == procs' = [procs EXCEPT ![w].pc = p]

\* lock_output_persistence.
Owns(w) == /\ Run(w).st = "running" /\ Run(w).owner = w /\ Run(w).live

-----------------------------------------------------------------------------
(* Claims, cancellation, lapses: the part of the run protocol that matters *)
(* here; AgentRunLease has all of it.                                      *)

IsResume(r) == r = "second" /\ rows.kind = "resume"

\* What an execution does first: a resume goes back into the tool that has
\* interrupted the run, if the checkpoint still waits for it.
Waiting == LET n == Len(outside.ai)
           IN n # 0 /\ outside.ai[n] \in outside.asks \ outside.answered

Claim(w, r) ==
  /\ Pc(w) = "idle" /\ rows.run[r].st = "pending"
  /\ rows' = [rows EXCEPT !.run[r].st = "running", !.run[r].owner = w,
                          !.run[r].live = TRUE]
  /\ procs' = [procs EXCEPT ![w] =
       [pc |-> IF IsResume(r) /\ Waiting THEN "tool" ELSE "model",
        run |-> r, op |-> IF outside.ai = <<>> THEN 0 ELSE Last(outside.ai)]]
  /\ UNCHANGED <<outside, ghost>>

\* create_resume_run, or the next request once the run is over.
CreateSecond ==
  /\ rows.run["first"].st \in Terminal /\ rows.run["second"].st = "none"
  /\ rows' = [rows EXCEPT !.run["second"].st = "pending",
       !.kind = IF rows.run["first"].st = "interrupted" THEN "resume"
                ELSE "chat"]
  /\ UNCHANGED <<procs, outside, ghost>>

RequestCancel(r) ==
  /\ rows.run[r].st = "running"
  /\ rows' = [rows EXCEPT !.run[r].st = "cancel_requested"]
  /\ UNCHANGED <<procs, outside, ghost>>

Lapse(r) ==
  /\ rows.run[r].live
  /\ rows' = [rows EXCEPT !.run[r].live = FALSE]
  /\ UNCHANGED <<procs, outside, ghost>>

Crash(w) ==
  /\ Pc(w) # "idle"
  /\ To(w, "idle")
  /\ UNCHANGED <<rows, outside, ghost>>

-----------------------------------------------------------------------------
(* The end of a run.                                                       *)

AuditStatus(st) == CASE st = "completed" -> "abandoned"
                     [] st = "failed" -> "failed"
                     [] OTHER -> "interrupted"

\* Faulty variant: an interrupted run closes its tool calls like any other.
KeepsCallsNever(st) == FALSE

\* preserve_pending_tool_calls: a resume goes on with them.
KeepsCalls(st) == st = "interrupted"

Open(s) == s \in {"running", "awaiting"}

\* _close_running_audits; a published row is no audit row any more.
ClosedAudits(d, r, to, keep) ==
  [d EXCEPT
     !.model = [o \in Ops |-> IF /\ d.model[o].run = r /\ ~d.model[o].visible
                                 /\ d.model[o].st = "running"
                              THEN [d.model[o] EXCEPT !.st = to]
                              ELSE d.model[o]],
     !.tool[r] = [o \in Ops |-> IF Open(@[o]) THEN to ELSE @[o]],
     !.call = [o \in Ops |-> IF Open(d.tool[r][o]) /\ ~keep THEN "error"
                             ELSE d.call[o]]]

\* set_terminal_status.
Ended(d, r, st) ==
  ClosedAudits([d EXCEPT !.run[r] = [@ EXCEPT !.st = st, !.owner = NoWorker,
                                              !.live = FALSE]],
               r, AuditStatus(st), KeepsCalls(st))

\* reconcile_expired_leases.
Reconcile(r) ==
  /\ rows.run[r].st \in {"running", "cancel_requested"} /\ ~rows.run[r].live
  /\ rows' = ClosedAudits([rows EXCEPT !.run[r] = [@ EXCEPT !.st = "failed",
                             !.owner = NoWorker]], r, "abandoned", FALSE)
  /\ UNCHANGED <<procs, outside, ghost>>

\* The worker notices the cancellation; an expired lease and it leaves the
\* run to the reconciler.
Cancelled(w) ==
  /\ Pc(w) # "idle" /\ Run(w).st = "cancel_requested"
  /\ rows' = IF Run(w).owner = w /\ Run(w).live
               THEN Ended(rows, R(w), "cancelled") ELSE rows
  /\ To(w, "idle")
  /\ UNCHANGED <<outside, ghost>>

-----------------------------------------------------------------------------
(* ModelMessageAuditCollector, and what the graph does around it.          *)

StartedModel(r, o) ==
  [rows EXCEPT !.model[o] = [NoModel EXCEPT !.run = r, !.st = "running"]]

FinishedModel(o, asks) ==
  [rows EXCEPT !.model[o].st = "completed", !.model[o].asks = asks]

ModelStart(w) ==
  /\ Pc(w) = "model" /\ ghost.ops < MaxOps
  /\ LET o == ghost.ops + 1
     IN IF Owns(w)
          THEN /\ rows' = StartedModel(R(w), o)
               /\ ghost' = [ghost EXCEPT !.ops = o]
               /\ procs' = [procs EXCEPT ![w] = [pc |-> "reply", run |-> R(w),
                                                 op |-> o]]
          ELSE To(w, "raise") /\ UNCHANGED <<rows, ghost>>
  /\ UNCHANGED outside

\* message-finish with the reply: a text, or a tool call.
ModelFinish(w, asks) ==
  /\ Pc(w) = "reply"
  /\ IF Owns(w)
       THEN /\ rows' = FinishedModel(Op(w), asks)
            /\ To(w, IF asks THEN "save_ask" ELSE "save_text")
       ELSE To(w, "raise") /\ UNCHANGED rows
  /\ UNCHANGED <<outside, ghost>>

\* A reply that no message-start announces has no lifecycle at all.
ModelUnseen(w, asks) ==
  /\ Pc(w) = "model" /\ ghost.ops < MaxOps
  /\ ghost' = [ghost EXCEPT !.ops = @ + 1]
  /\ procs' = [procs EXCEPT ![w] =
       [pc |-> IF asks THEN "save_ask" ELSE "save_text", run |-> R(w),
        op |-> ghost.ops + 1]]
  /\ UNCHANGED <<rows, outside>>

\* The model fails for good in the middle of its reply.
ModelError(w) ==
  /\ Pc(w) = "reply"
  /\ To(w, "raise")
  /\ UNCHANGED <<rows, outside, ghost>>

\* A model that is not streamed has no message-finish.
ModelSilent(w) ==
  /\ Pc(w) = "reply"
  /\ To(w, "save_text")
  /\ UNCHANGED <<rows, outside, ghost>>

\* The superstep ends: the reply is in the checkpoint, which no lease
\* guards.
Checkpoint(w) ==
  /\ Pc(w) \in {"save_ask", "save_text"}
  /\ outside' = [outside EXCEPT !.ai = Append(@, Op(w)),
       !.asks = IF Pc(w) = "save_ask" THEN @ \cup {Op(w)} ELSE @]
  /\ To(w, IF Pc(w) = "save_ask" THEN "tool" ELSE "end")
  /\ UNCHANGED <<rows, ghost>>

-----------------------------------------------------------------------------
(* ToolMessageAuditCollector.                                              *)

\* _source_run_ids and _find_source_model_message.
Sources(r) == IF IsResume(r) THEN Runs ELSE {r}

HasSource(w) == LET m == rows.model[Op(w)]
                IN m.run \in Sources(R(w)) /\ m.asks /\ ~m.visible

StartedTool(r, o) ==
  [rows EXCEPT !.tool[r][o] = "running", !.call[o] = "pending"]

FinishedTool(r, o, st) ==
  [rows EXCEPT !.tool[r][o] = st,
               !.call[o] = IF st = "completed" THEN "success" ELSE "error"]

ErrorSeen(r, o) ==
  IF Open(rows.tool[r][o]) THEN [rows EXCEPT !.tool[r][o] = "awaiting"]
  ELSE rows

\* start: created; again, with the same sequence or another; refused.
ToolStart(w) ==
  /\ Pc(w) = "tool"
  /\ LET t == rows.tool[R(w)][Op(w)]
         fresh == /\ Owns(w) /\ t = "none" /\ HasSource(w)
                  /\ rows.call[Op(w)] \in {"none", "pending"}
     IN \/ /\ fresh
           /\ rows' = StartedTool(R(w), Op(w))
           /\ To(w, "run")
        \/ Owns(w) /\ t # "none" /\ To(w, "run") /\ UNCHANGED rows
        \/ ~fresh /\ To(w, "raise") /\ UNCHANGED rows
  /\ UNCHANGED <<outside, ghost>>

Answered(w, error) ==
  outside' = [outside EXCEPT !.answered = @ \cup {Op(w)},
                !.errors = IF error THEN @ \cup {Op(w)} ELSE @ \ {Op(w)}]

\* _finish: the same terminal fact again, or a first one; the answer of the
\* tool is "completed" or "failed".
ToolFinish(w, st) ==
  /\ Pc(w) = "run"
  /\ LET t == rows.tool[R(w)][Op(w)]
     IN \/ /\ Owns(w) /\ Open(t)
           /\ rows' = FinishedTool(R(w), Op(w), st)
           /\ Answered(w, st = "failed") /\ To(w, "model")
        \/ /\ Owns(w) /\ t = st
           /\ Answered(w, st = "failed") /\ To(w, "model") /\ UNCHANGED rows
        \/ ~(Owns(w) /\ Open(t)) /\ To(w, "raise") /\ UNCHANGED <<rows, outside>>
  /\ UNCHANGED ghost

\* observe_error: tool-error is also how a tool that waits for the user
\* leaves; then: interrupt, an error message in the state, or an exception.
ToolError(w) ==
  /\ Pc(w) = "run"
  /\ LET t == rows.tool[R(w)][Op(w)]
     IN \/ /\ Owns(w)
           /\ rows' = ErrorSeen(R(w), Op(w))
           /\ \/ To(w, "ask") /\ UNCHANGED outside
              \/ Answered(w, TRUE) /\ To(w, "model")
              \/ To(w, "raise") /\ UNCHANGED outside
        \/ ~(Owns(w) /\ Open(t)) /\ To(w, "raise") /\ UNCHANGED <<rows, outside>>
  /\ UNCHANGED ghost

-----------------------------------------------------------------------------
(* save_messages_from_langgraph_state and save_partial_message.            *)

InState == Range(outside.ai)

\* _reconcile_model_audit_message for the run's operations in the state, and
\* _project_ai_tool_calls.
Reconciled(d, r) ==
  LET mine == {o \in InState : d.model[o].run = r}
  IN [d EXCEPT
        !.model = [o \in Ops |-> IF o \notin mine THEN d.model[o] ELSE
                     [d.model[o] EXCEPT !.proven = TRUE,
                        !.st = IF @ = "running" THEN "completed" ELSE @]],
        !.call = [o \in Ops |-> IF /\ o \in mine \cap outside.asks
                                   /\ d.call[o] = "none"
                                THEN "pending" ELSE d.call[o]]]

\* _should_reconcile_tool_state: errors that were left open.
ErrorsSettled(d, r) ==
  LET late == {o \in outside.errors : d.tool[r][o] = "awaiting"}
  IN [d EXCEPT !.tool[r] = [o \in Ops |-> IF o \in late THEN "failed" ELSE @[o]],
               !.call = [o \in Ops |-> IF o \in late THEN "error" ELSE @[o]]]

\* list_for_run: operations with a lifecycle in this run.
Audits(d, r) == {o \in Ops : d.model[o].run = r /\ d.model[o].st # "none"}

\* A run without any: the AIMessages of the state whose ids no row has are
\* inserted as they are, without ToolCall rows.
Unsaved(d, r) == IF Audits(d, r) # {} THEN {}
                 ELSE {o \in InState : d.model[o].run = "none"}

Inserted(d, r) ==
  [d EXCEPT !.model = [o \in Ops |-> IF o \notin Unsaved(d, r) THEN d.model[o]
     ELSE [NoModel EXCEPT !.run = r, !.asks = o \in outside.asks,
                          !.visible = TRUE]]]

\* last_ai_message: the last reply of the state if this run has its
\* lifecycle, the last one inserted if the run has none.
LastReply(d, r) ==
  LET s == SelectSeq(outside.ai, LAMBDA o : o \in Unsaved(d, r))
  IN CASE Last(outside.ai) \in Audits(d, r) -> Last(outside.ai)
       [] s # <<>> -> Last(s)
       [] OTHER -> 0

\* publish_assistant_output and set_output_message.
Published(d, r, o, show) ==
  IF o = 0 THEN d
  ELSE [d EXCEPT !.model[o].visible = @ \/ show, !.run[r].out = o]

\* The messages and the output of save_messages_from_langgraph_state.
Saved(d, r, all) ==
  LET o == LastReply(d, r)
  IN Published(Inserted(Reconciled(d, r), r), r, o, all \/ o \notin outside.asks)

\* complete_run: all in one transaction, or nothing; a last reply without a
\* lifecycle is refused when the run has others.
Complete(w) ==
  /\ Pc(w) = "end"
  /\ IF Owns(w) /\ (Audits(rows, R(w)) # {} => LastReply(rows, R(w)) # 0)
       THEN /\ rows' = Ended(ErrorsSettled(Saved(rows, R(w), TRUE), R(w)), R(w),
                             "completed")
            /\ To(w, "idle")
       ELSE To(w, "fail") /\ UNCHANGED rows
  /\ UNCHANGED <<outside, ghost>>

\* interrupt_run: a message with tool calls is not published, and a resume
\* that interrupts again may have no message of its own.
Interrupt(w) ==
  /\ Pc(w) = "ask"
  /\ IF Owns(w) THEN /\ rows' = Ended(Saved(rows, R(w), FALSE), R(w), "interrupted")
                     /\ To(w, "idle")
     ELSE To(w, "fail") /\ UNCHANGED rows
  /\ UNCHANGED <<outside, ghost>>

\* An exception in the stream: save_partial_message inserts the text so far
\* as a message of its own, marked is_error, if the execution still may.
Raise(w) ==
  /\ Pc(w) = "raise"
  /\ rows' = IF Owns(w) THEN [rows EXCEPT !.run[R(w)].out = ErrorRow,
                                          !.errors = @ \cup {R(w)}]
             ELSE rows
  /\ To(w, "fail")
  /\ UNCHANGED <<outside, ghost>>

\* The worker ends the run, or releases it for a retry: then audit rows of
\* this attempt stay open.
Fail(w) ==
  /\ Pc(w) = "fail"
  /\ \/ rows' = (IF Owns(w) THEN Ended(rows, R(w), "failed") ELSE rows)
        /\ UNCHANGED ghost
     \/ /\ Owns(w) /\ ghost.retries < MaxRetries
        /\ rows' = [rows EXCEPT !.run[R(w)] = [@ EXCEPT !.st = "pending",
                                  !.owner = NoWorker, !.live = FALSE]]
        /\ ghost' = [ghost EXCEPT !.retries = @ + 1]
  /\ To(w, "idle")
  /\ UNCHANGED outside

\* get_messages: every row that is no audit row, and rows with tool calls
\* once the state has proved them and the run is over.
History ==
  LET shown == {o \in Ops : LET m == rows.model[o]
                             IN \/ m.visible
                                \/ /\ m.proven /\ rows.call[o] # "none"
                                   /\ rows.run[m.run].st \in Terminal}
  IN {[run |-> rows.model[o].run, reply |-> o] : o \in shown}
       \cup {[run |-> r, reply |-> ErrorRow] : r \in rows.errors}

Next ==
  \/ CreateSecond
  \/ \E r \in Runs : RequestCancel(r) \/ Lapse(r) \/ Reconcile(r)
  \/ \E w \in Workers :
       \/ \E r \in Runs : Claim(w, r)
       \/ Crash(w) \/ Cancelled(w) \/ ModelStart(w) \/ ModelSilent(w)
       \/ ModelError(w)
       \/ \E a \in BOOLEAN : ModelFinish(w, a) \/ ModelUnseen(w, a)
       \/ Checkpoint(w) \/ ToolStart(w) \/ ToolError(w)
       \/ \E st \in {"completed", "failed"} : ToolFinish(w, st)
       \/ Complete(w) \/ Interrupt(w) \/ Raise(w) \/ Fail(w)

Spec == Init /\ [][Next]_vars

-----------------------------------------------------------------------------
(* What holds of the records.                                              *)

\* Nothing of a run that is over is still running, whatever attempts,
\* cancellations and lost workers it had.
AuditsClosed ==
  \A r \in Runs : rows.run[r].st \in Terminal =>
    \A o \in Ops : /\ ~Open(rows.tool[r][o])
                   /\ rows.model[o].run = r => rows.model[o].st # "running"

\* The tool call an interrupted run waits in can be started by the resume:
\* it is still pending, and its declaration can still be found.
ResumeFindsCall ==
  /\ rows.run["first"].st = "interrupted"
  /\ rows.run["second"].st = "none"
  => \A o \in Ops : rows.tool["first"][o] = "interrupted" =>
       /\ rows.call[o] = "pending"
       /\ rows.model[o].asks /\ ~rows.model[o].visible

\* The ToolCall the history shows says what the last run that executed it
\* has recorded.
CallAgrees ==
  \A o \in Ops :
    LET used == {r \in Runs : rows.tool[r][o] # "none"}
        r == IF "second" \in used THEN "second" ELSE "first"
        t == rows.tool[r][o]
    IN used # {} =>
         rows.call[o] = CASE Open(t) -> "pending"
                          [] t = "completed" -> "success"
                          [] t = "interrupted" /\ rows.run[r].st = "interrupted"
                               -> "pending"
                          [] OTHER -> "error"

\* A completed run shows a reply of its own as its output, whatever error
\* rows its earlier attempts have left, and of the operations it recorded no
\* other is published.
OutputIsOwn ==
  \A r \in Runs : rows.run[r].st = "completed" =>
    LET o == rows.run[r].out
    IN /\ o \in Ops /\ rows.model[o].run = r /\ rows.model[o].visible
       /\ {p \in Audits(rows, r) : rows.model[p].visible} \subseteq {o}

\* What the history shows and the checkpoint of the thread, the next run's
\* input, does not contain is an error row; and a run whose output is one
\* has not completed.
HistoryProven ==
  /\ \A m \in History : m.reply # ErrorRow => m.reply \in InState
  /\ \A r \in Runs : rows.run[r].out = ErrorRow =>
       [run |-> r, reply |-> ErrorRow] \in History
         /\ rows.run[r].st # "completed"

=============================================================================
