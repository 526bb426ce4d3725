------------------------------ MODULE Evaluation ------------------------------
(***************************************************************************)
(* Evaluation datasets and runs of a knowledge base:                       *)
(* knowledge/eval/service.py, benchmark_generation.py, evaluator.py and    *)
(* repositories/evaluation_repository.py.  Generating a dataset and        *)
(* evaluating one are durable tasks (TaskLease); readers project the state *)
(* of the task into the row they read, without a lock in between.          *)
(***************************************************************************)
EXTENDS TaskLease, Naturals, Sequences, FiniteSets

CONSTANTS Total,  \* questions a dataset is to have
          Batch,  \* DATASET_PERSIST_BATCH_SIZE
          Every,  \* questions between two notes of completed_items
          Ops     \* what users do: "generate", "upload", "resume", "look",
                  \* "evaluate", "delete"

VARIABLES
  rows,     \* the dataset, its items, what each task is for, the runs; the
            \* run of a task is named by the task
  procs,    \* executions of tasks; a request to resume; a reader
  outside,  \* nothing
  ghost     \* stale: a reader or a resumption wrote over what it had not
            \*   seen; late: completed runs a reader failed for want of
            \*   their task; done: tasks that succeeded

vars == <<lease, rows, procs, outside, ghost>>

Meta(s, t) == [st |-> s, task |-> t]
NoFigure == [hits |-> 0, of |-> 0]
\* items: <<item_index, what became of the question>>.
NoRun == [st |-> "absent", done |-> 0, items |-> {},
          recall |-> NoFigure, score |-> NoFigure]
\* buf: questions generated, or to evaluate; got: all_retrieval_metrics.
Idle == [pc |-> "idle", at |-> 0, next |-> 0, buf |-> 0, got |-> <<>>]

Init ==
  /\ lease = [t \in Tasks |-> TaskIn("absent")]
  /\ rows = [md |-> Meta("absent", 0), made |-> FALSE, count |-> 0,
             items |-> {}, use |-> [t \in Tasks |-> "none"],
             run |-> [t \in Tasks |-> NoRun]]
  /\ procs = [ex |-> [w \in Workers |-> Idle],
              resume |-> [pc |-> "no", md |-> Meta("absent", 0)],
              look |-> [pc |-> "no", md |-> Meta("absent", 0), t |-> 0]]
  /\ outside = {}
  /\ ghost = [stale |-> FALSE, late |-> {}, done |-> [t \in Tasks |-> FALSE]]

Ex(w) == procs.ex[w]
Becomes(w, e) == procs' = [procs EXCEPT !.ex[w] = e]
Dataset == rows.md.st \notin {"absent", "gone"}
Stored == Cardinality(rows.items)
Active(t) == lease[t].st \in {"pending", "running"}
Unused(t) == /\ lease[t].st = "absent"
             /\ \A o \in Tasks : o < t => lease[o].st # "absent"

-----------------------------------------------------------------------------
(* Requests.                                                               *)

\* generate_dataset: task and dataset in one transaction.
Generate(t) ==
  /\ "generate" \in Ops /\ rows.md.st = "absent"
  /\ Unused(t) /\ Submit(t)
  /\ rows' = [rows EXCEPT !.md = Meta("pending", t), !.made = TRUE,
                          !.use[t] = "generate"]
  /\ UNCHANGED <<procs, outside, ghost>>

\* upload_dataset: the dataset and its items in one transaction.
Upload ==
  /\ "upload" \in Ops /\ rows.md.st = "absent"
  /\ rows' = [rows EXCEPT !.md = Meta("completed", 0), !.count = Total,
                          !.items = 0..(Total - 1)]
  /\ UNCHANGED <<lease, procs, outside, ghost>>

\* delete_dataset; the items go with it, runs stay.
DeleteDataset ==
  /\ "delete" \in Ops /\ Dataset
  /\ rows' = [rows EXCEPT !.md = Meta("gone", 0), !.items = {}]
  /\ UNCHANGED <<lease, procs, outside, ghost>>

Resumes(p, md) == procs' = [procs EXCEPT !.resume = [pc |-> p, md |-> md]]

\* resume_dataset_generation reads the row, ...
Resume ==
  /\ "resume" \in Ops /\ procs.resume.pc = "no"
  /\ Dataset /\ rows.made
  /\ Resumes("count", rows.md)
  /\ UNCHANGED <<lease, rows, outside, ghost>>

\* ... counts the items: if all are there it completes the row as it was ...
ResumeCounts ==
  /\ procs.resume.pc = "count"
  /\ IF Stored >= Total
       THEN /\ rows' = [rows EXCEPT
                 !.md = Meta("completed", procs.resume.md.task),
                 !.count = Stored]
            /\ ghost' = [ghost EXCEPT !.stale =
                 @ \/ rows.md # procs.resume.md]
            /\ Resumes("no", rows.md)
       ELSE Resumes("attach", procs.resume.md) /\ UNCHANGED <<rows, ghost>>
  /\ UNCHANGED <<lease, outside>>

\* attach_dataset_generation_task_in_session.
Attached(t) ==
  IF rows.md.st = "completed" \/ rows.md.task = t THEN rows
  ELSE [rows EXCEPT !.md = Meta("pending", t), !.use[t] = "generate"]

\* ... and else joins the active task of the dataset or creates one, in the
\* transaction that attaches it; a completed or deleted dataset undoes it.
ResumeAttaches ==
  /\ procs.resume.pc = "attach"
  /\ Resumes("no", rows.md)
  /\ LET active == {t \in Tasks : rows.use[t] = "generate" /\ Active(t)}
     IN IF ~Dataset \/ (active = {} /\ rows.md.st = "completed")
          THEN UNCHANGED <<lease, rows, ghost>>
        ELSE IF active # {}
          THEN /\ \E t \in active : rows' = Attached(t)
               /\ UNCHANGED <<lease, ghost>>
        ELSE \E t \in Tasks : /\ Unused(t) /\ Submit(t)
                              /\ rows' = Attached(t)
                              /\ ghost' = [ghost EXCEPT !.stale = FALSE]
  /\ UNCHANGED outside

\* run_evaluation, of a completed dataset.
Evaluate(t) ==
  /\ "evaluate" \in Ops /\ rows.md.st = "completed"
  /\ Unused(t) /\ Submit(t)
  /\ rows' = [rows EXCEPT !.use[t] = "evaluate",
                          !.run[t] = [NoRun EXCEPT !.st = "running"]]
  /\ UNCHANGED <<procs, outside, ghost>>

RunThere(t) == rows.run[t].st \notin {"absent", "gone"}

\* delete_run: its items, then itself, in one transaction.
DeleteRun(t) ==
  /\ "delete" \in Ops /\ RunThere(t)
  /\ rows' = [rows EXCEPT !.run[t] = [NoRun EXCEPT !.st = "gone"]]
  /\ UNCHANGED <<lease, procs, outside, ghost>>

-----------------------------------------------------------------------------
(* Readers: list_datasets, get_dataset_detail, list_runs, get_run_results. *)

Looks(p, md, t) ==
  procs' = [procs EXCEPT !.look = [pc |-> p, md |-> md, t |-> t]]
LookEnds == Looks("no", Meta("absent", 0), 0)

\* A generated dataset in progress is read, then its task ...
LookAtDataset ==
  /\ "look" \in Ops /\ procs.look.pc = "no"
  /\ rows.made /\ rows.md.st \in {"pending", "running"}
  /\ Looks("task", rows.md, 0)
  /\ UNCHANGED <<lease, rows, outside, ghost>>

\* What _sync_dataset_build_metadata makes of the state of a task.
Projected(s) == IF s = "success" THEN "completed"
                ELSE IF s \in {"pending", "running"} THEN s ELSE "failed"

LookAtTask ==
  /\ procs.look.pc = "task"
  /\ LET md == procs.look.md
         new == Projected(lease[md.task].st)
     IN IF new = md.st THEN LookEnds
        ELSE procs' = [procs EXCEPT !.look.pc = new]
  /\ UNCHANGED <<lease, rows, outside, ghost>>

\* ... and what was read, brought up to date, is written back.
LookWrites ==
  /\ procs.look.pc \in {"pending", "running", "completed", "failed"}
  /\ rows' = IF Dataset
               THEN [rows EXCEPT !.md = Meta(procs.look.pc, procs.look.md.task)]
               ELSE rows
  /\ ghost' = [ghost EXCEPT !.stale =
       @ \/ rows.md # procs.look.md
         \/ Projected(lease[rows.md.task].st) # procs.look.pc]
  /\ LookEnds
  /\ UNCHANGED <<lease, outside>>

LookAtRun(t) ==
  /\ "look" \in Ops /\ procs.look.pc = "no" /\ rows.run[t].st = "running"
  /\ Looks("run", Meta("absent", 0), t)
  /\ UNCHANGED <<lease, rows, outside, ghost>>

\* _sync_evaluation_run: a task that failed, or is not there although the
\* run is not new, fails the run.
LookAtRunTask ==
  /\ procs.look.pc = "run"
  /\ IF lease[procs.look.t].st \in {"failed", "cancelled", "gone"}
       THEN procs' = [procs EXCEPT !.look.pc = "run failed"] ELSE LookEnds
  /\ UNCHANGED <<lease, rows, outside, ghost>>

LookFailsRun ==
  LET t == procs.look.t
  IN /\ procs.look.pc = "run failed"
     /\ rows' = IF RunThere(t) THEN [rows EXCEPT !.run[t].st = "failed"]
                ELSE rows
     /\ ghost' = [ghost EXCEPT !.late =
          IF rows.run[t].st = "completed" THEN @ \cup {t} ELSE @]
     /\ LookEnds
     /\ UNCHANGED <<lease, outside>>

-----------------------------------------------------------------------------
(* Executions.                                                             *)

Start(t, w) ==
  /\ Ex(w).pc = "idle" /\ \A o \in Tasks : lease[o].by # w
  /\ Take(t, w)
  /\ Becomes(w, [Idle EXCEPT !.at = t, !.pc =
       IF rows.use[t] = "generate" THEN "count" ELSE "load"])
  /\ UNCHANGED <<rows, outside, ghost>>

Mine(w) == HoldsLease(Ex(w).at, w)

\* fail_dataset_generation_task and fail_rag_evaluation_task, with the task.
FailedRows(t) ==
  IF rows.use[t] = "evaluate"
    THEN IF rows.run[t].st \in {"absent", "gone", "completed"} THEN rows
         ELSE [rows EXCEPT !.run[t].st = "failed"]
    ELSE IF ~Dataset \/ rows.md.st = "completed" THEN rows
         ELSE [rows EXCEPT !.md = Meta("failed", t)]

TaskFails(t, s) ==
  /\ Ended(t, s)
  /\ rows' = FailedRows(t)
  /\ ghost' = IF rows.use[t] = "generate" THEN [ghost EXCEPT !.stale = FALSE]
              ELSE ghost

GiveUpTask(t) ==
  /\ Unheld(t) /\ TaskFails(t, "failed") /\ UNCHANGED <<procs, outside>>
CancelPending(t) ==
  /\ lease[t].st = "pending" /\ TaskFails(t, "cancelled")
  /\ UNCHANGED <<procs, outside>>
Lapse(t) == LeaseRunsOut(t) /\ UNCHANGED <<rows, procs, outside, ghost>>
Prune(t) == Forget(t) /\ UNCHANGED <<rows, procs, outside, ghost>>
Crash(w) == /\ Ex(w).pc # "idle"
            /\ Becomes(w, Idle)
            /\ UNCHANGED <<lease, rows, outside, ghost>>

\* An execution without the lease learns of it and records nothing.
Lost(w) == /\ Ex(w).pc # "idle" /\ ~Mine(w)
           /\ Becomes(w, Idle)
           /\ UNCHANGED <<lease, rows, outside, ghost>>

Goes(w, p) == /\ Becomes(w, [Ex(w) EXCEPT !.pc = p])
              /\ UNCHANGED <<lease, rows, outside, ghost>>

\* The handler raised, or its success hook did.
Fails(w) ==
  /\ Ex(w).pc = "fail" /\ Mine(w)
  /\ TaskFails(Ex(w).at, "failed")
  /\ Becomes(w, Idle)
  /\ UNCHANGED outside

\* _generate_dataset_task counts the items, none of which is lost by a
\* failed attempt, and goes on after them.
CountItems(w) ==
  /\ Ex(w).pc = "count"
  /\ Becomes(w, [Ex(w) EXCEPT !.next = Stored,
                              !.pc = IF Stored >= Total THEN "end" ELSE "open"])
  /\ UNCHANGED <<lease, rows, outside, ghost>>

\* persist_build_metadata, in an owned transaction: at the beginning and
\* with every progress.
Report(w) ==
  /\ Ex(w).pc \in {"open", "items"} /\ Mine(w)
  /\ IF Dataset
       THEN /\ rows' = [rows EXCEPT !.md = Meta("running", Ex(w).at)]
            /\ ghost' = [ghost EXCEPT !.stale = FALSE]
            /\ Becomes(w, [Ex(w) EXCEPT !.pc = "items"])
            /\ UNCHANGED <<lease, outside>>
       ELSE Goes(w, "salvage")

\* flush_items: the buffer and item_count in one owned transaction; an index
\* is stored once (uq_evaluation_dataset_items_dataset_index).
New(w) == Ex(w).next..(Ex(w).next + Ex(w).buf - 1)
Flushable(w) == Mine(w) /\ Dataset /\ New(w) \cap rows.items = {}
FlushedRows(w) == [rows EXCEPT !.items = @ \cup New(w),
                               !.count = Ex(w).next + Ex(w).buf]
Flushed(w) == [Ex(w) EXCEPT !.next = @ + Ex(w).buf, !.buf = 0]

\* A flush comes to pass, with or without the worker learning of it, or not.
Flush(w, known, unknown) ==
  \/ Flushable(w) /\ rows' = FlushedRows(w) /\ Becomes(w, known)
  \/ Flushable(w) /\ rows' = FlushedRows(w) /\ Becomes(w, unknown)
  \/ UNCHANGED rows /\ Becomes(w, unknown)

\* iter_generated_benchmark_items yields one more question, in the order of
\* the attempts.
Question(w) ==
  /\ Ex(w).pc = "items" /\ Ex(w).buf < Batch
  /\ Ex(w).next + Ex(w).buf < Total
  /\ Becomes(w, [Ex(w) EXCEPT !.buf = @ + 1])
  /\ UNCHANGED <<lease, rows, outside, ghost>>

\* flush_items_best_effort, of a full buffer; a buffer that could not be
\* stored grows with the next question.
FlushBatch(w) ==
  /\ Ex(w).pc = "items" /\ Ex(w).buf >= Batch
  /\ Flush(w, Flushed(w),
           IF Ex(w).next + Ex(w).buf < Total
             THEN [Ex(w) EXCEPT !.buf = @ + 1] ELSE [Ex(w) EXCEPT !.pc = "last"])
  /\ UNCHANGED <<lease, outside, ghost>>

\* Enough questions, or no attempts left; an error or a cancellation.
GenerationEnds(w) ==
  /\ Ex(w).pc = "items"
  /\ Goes(w, "last") \/ Goes(w, "salvage")

\* The last flush must succeed, and all questions be there.
LastFlush(w) ==
  /\ Ex(w).pc = "last"
  /\ LET after == [Flushed(w) EXCEPT !.pc =
                     IF Ex(w).next + Ex(w).buf < Total THEN "fail" ELSE "end"]
     IN IF Ex(w).buf = 0 THEN Becomes(w, after) /\ UNCHANGED rows
        ELSE Flush(w, after, [Ex(w) EXCEPT !.pc = "salvage"])
  /\ UNCHANGED <<lease, outside, ghost>>

\* What the buffer holds is kept for the next attempt if possible.
Salvage(w) ==
  /\ Ex(w).pc = "salvage"
  /\ LET after == [Ex(w) EXCEPT !.pc = "fail", !.buf = 0]
     IN IF Ex(w).buf = 0 THEN Becomes(w, after) /\ UNCHANGED rows
        ELSE Flush(w, after, after)
  /\ UNCHANGED <<lease, outside, ghost>>

\* _run_evaluation_task loads the items.
LoadItems(w) ==
  /\ Ex(w).pc = "load"
  /\ IF Stored = 0 THEN Goes(w, "fail")
     ELSE /\ Becomes(w, [Ex(w) EXCEPT !.pc = "ask", !.buf = Stored])
          /\ UNCHANGED <<lease, rows, outside, ghost>>

\* evaluate_question: the query retrieves the gold chunk, other chunks, or
\* nothing, and then has no figures.  Datasets without gold answers only:
\* with a judge the score is its share of right answers.
Results == {"hit", "miss", "nothing"}

\* upsert_run_item_in_session.
Noted(items, i, r) == {p \in items : p[1] # i} \cup {<<i, r>>}

\* A question is evaluated (or cannot be, or the task is cancelled), and its
\* result stored, in an owned transaction; the result refers to the run and
\* to the item.
Ask(w) ==
  /\ Ex(w).pc = "ask"
  /\ \/ Goes(w, "fail")
     \/ \E r \in Results :
        /\ Mine(w) /\ RunThere(Ex(w).at) /\ Ex(w).next \in rows.items
        /\ rows' = [rows EXCEPT !.run[Ex(w).at].items =
                      Noted(@, Ex(w).next, r)]
        /\ LET n == Ex(w).next + 1
           IN Becomes(w, [Ex(w) EXCEPT !.next = n, !.got = Append(@, r), !.pc =
                IF n % Every = 0 \/ n = Ex(w).buf THEN "note" ELSE "ask"])
        /\ UNCHANGED <<lease, outside, ghost>>

\* persist_completed_items.
Note(w) ==
  /\ Ex(w).pc = "note" /\ Mine(w)
  /\ IF RunThere(Ex(w).at)
       THEN /\ rows' = [rows EXCEPT !.run[Ex(w).at].done = Ex(w).next]
            /\ Becomes(w, [Ex(w) EXCEPT !.pc =
                 IF Ex(w).next = Ex(w).buf THEN "end" ELSE "ask"])
            /\ UNCHANGED <<lease, outside, ghost>>
       ELSE Goes(w, "fail")

CountOf(g, R) == Cardinality({i \in DOMAIN g : g[i] \in R})

\* aggregate_metrics: the figures the first question has, over all of them.
MeanRecall(g) == IF g[1] = "nothing" THEN NoFigure
                 ELSE [hits |-> CountOf(g, {"hit"}), of |-> Len(g)]

\* calculate_overall_score: over the questions that have figures.
OverallScore(g) == [hits |-> CountOf(g, {"hit"}),
                    of |-> CountOf(g, {"hit", "miss"})]

\* finish_dataset_generation_task and finish_rag_evaluation_task, in the
\* transaction in which the task succeeds; without their row they raise.
Succeeds(w) ==
  /\ Ex(w).pc = "end" /\ Mine(w)
  /\ LET t == Ex(w).at
         made == rows.use[t] = "generate"
     IN IF made /\ Dataset
          THEN /\ rows' = [rows EXCEPT !.md = Meta("completed", t),
                                       !.count = Ex(w).next]
               /\ ghost' = [ghost EXCEPT !.stale = FALSE]
               /\ Ended(t, "success") /\ Becomes(w, Idle)
               /\ UNCHANGED outside
        ELSE IF ~made /\ RunThere(t)
          THEN /\ rows' = [rows EXCEPT !.run[t].st = "completed",
                                       !.run[t].done = Ex(w).next,
                                       !.run[t].recall = MeanRecall(Ex(w).got),
                                       !.run[t].score = OverallScore(Ex(w).got)]
               /\ Ended(t, "success") /\ Becomes(w, Idle)
               /\ ghost' = [ghost EXCEPT !.done[t] = TRUE]
               /\ UNCHANGED outside
        ELSE Goes(w, "fail")

Executes(w) ==
  \/ CountItems(w) \/ Report(w) \/ Question(w) \/ FlushBatch(w)
  \/ GenerationEnds(w) \/ LastFlush(w) \/ Salvage(w)
  \/ LoadItems(w) \/ Ask(w) \/ Note(w) \/ Succeeds(w) \/ Fails(w)
  \/ Lost(w) \/ Crash(w)

Next ==
  \/ Upload \/ DeleteDataset
  \/ Resume \/ ResumeCounts \/ ResumeAttaches
  \/ LookAtDataset \/ LookAtTask \/ LookWrites
  \/ LookAtRunTask \/ LookFailsRun
  \/ \E t \in Tasks :
       \/ Generate(t) \/ Evaluate(t) \/ DeleteRun(t) \/ LookAtRun(t)
       \/ GiveUpTask(t) \/ CancelPending(t) \/ Lapse(t) \/ Prune(t)
       \/ \E w \in Workers : Start(t, w)
  \/ \E w \in Workers : Executes(w)

Spec == Init /\ [][Next]_vars

-----------------------------------------------------------------------------
(* What holds of evaluations.                                              *)

\* However often a generation fails, is lost and is resumed, and whatever it
\* learns of its flushes: the items are numbered without a gap and
\* item_count is their number.
ItemsContiguous ==
  Dataset => rows.items = 0..(Stored - 1) /\ rows.count = Stored

\* A dataset that may be evaluated and exported has all its items.
CompletedHasAll == rows.md.st = "completed" => Stored = Total

\* The state users see is that of the task: one in progress has an active
\* task, of a failed one nothing runs; unless a reader or a resumption wrote
\* what it had read earlier over it, and until the next step of the task.
StatusFollowsTask ==
  /\ ~ghost.stale =>
       /\ rows.md.st \in {"pending", "running"} => Active(rows.md.task)
       /\ rows.md.st = "failed" =>
            \A t \in Tasks : rows.use[t] = "generate" => ~Active(t)
  /\ \A t, o \in Tasks :
       t # o /\ rows.use[t] = "generate" /\ rows.use[o] = "generate"
         => ~(Active(t) /\ Active(o))

\* A run ends with its task and the way its task ends, a completed one with
\* a result for every question; unless a reader that had seen it running
\* failed it because the task had been completed and removed meanwhile.
RunsAgree ==
  \A t \in Tasks :
    /\ rows.run[t].st = "running" => Active(t)
    /\ rows.run[t].st = "failed" =>
         \/ lease[t].st \in {"failed", "cancelled"}
         \/ lease[t].st = "gone" /\ (ghost.done[t] => t \in ghost.late)
    /\ rows.run[t].st = "completed" =>
         /\ lease[t].st \in {"success", "gone"}
         /\ {p[1] : p \in rows.run[t].items} = 0..(Total - 1)
         /\ rows.run[t].done = Total

\* The figures of a completed run are those of its stored results, and its
\* two figures for the recall are the same; unless a question retrieved
\* nothing: then the score leaves it out, and without the first question
\* the mean is missing.
FiguresAgree ==
  \A t \in Tasks : rows.run[t].st = "completed" =>
    LET run == rows.run[t]
        hits == Cardinality({p \in run.items : p[2] = "hit"})
    IN /\ run.score.hits = hits
       /\ run.recall # run.score =>
            \E p \in run.items : p[2] = "nothing"
       /\ run.recall = NoFigure => <<0, "nothing">> \in run.items

=============================================================================
