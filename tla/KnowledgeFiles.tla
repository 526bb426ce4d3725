---------------------------- MODULE KnowledgeFiles ----------------------------
(***************************************************************************)
(* Files of a knowledge base and the durable tasks that process them:      *)
(* knowledge/base.py (records, parsing, deletion, repair of statistics),   *)
(* knowledge/implementations/milvus.py (indexing),                         *)
(* repositories/knowledge_file_repository.py and                           *)
(* services/knowledge_task_service.py (the handlers).                      *)
(*                                                                         *)
(* A task behaves as TaskLease says.  The row of a file is fenced by the   *)
(* lease of the task that processes it; MinIO, PostgreSQL chunks and       *)
(* vectors are not, so an execution that has lost its task goes on writing *)
(* to them until its next fenced write.                                    *)
(***************************************************************************)
EXTENDS TaskLease, Naturals, FiniteSets

CONSTANTS Files,      \* files, numbered in the order of their ids
          MaxChunks,  \* bound: chunks of one file
          NoTask,
          Kinds,      \* the tasks users submit: "ingest", "parse", "index",
                      \* "parse_pending", "index_pending"
          Before,     \* states of the files before the first of these tasks
          MayDelete,  \* files that users may delete
          MayRepair   \* files whose statistics users may have repaired

VARIABLES
  rows,     \* knowledge_files and knowledge_chunks; the payload of a task
  procs,    \* executions of handlers, deletions, repairs
  outside,  \* vectors in Milvus: which task wrote the chunk, per index
  ghost     \* how often a task took a file up; which task marked it indexed;
            \* whether someone without the file wrote its chunks or count

vars == <<lease, rows, procs, outside, ghost>>

InProgress == {"parsing", "indexing"}
NoChunks == [i \in 1 .. MaxChunks |-> NoTask]
St(f) == rows.file[f].st
Exists(f) == St(f) \notin {"absent", "gone"}

\* st: status ("absent" before the row, "gone" after); pt, po: processing
\* task and owner; md: markdown_file is set; n: chunk_count; pg: the rows of
\* knowledge_chunks, as vectors.
NewFile(s) == [st |-> s, pt |-> NoTask, po |-> NoWorker, md |-> s = "parsed",
               n |-> 0, pg |-> NoChunks]

\* todo: files of the batch still to look at; carry: files of an ingestion
\* that came through the current stage; cursor: after_file_id; cur: the file
\* it works on; upto: chunks it was split into; next: the one to store next.
Idle == [pc |-> "idle", at |-> NoTask, todo |-> {}, carry |-> {}, cursor |-> 0,
         cur |-> 0, upto |-> 0, next |-> 0]

Init ==
  /\ lease = [t \in Tasks |-> TaskIn("absent")]
  /\ \E s \in [Files -> Before] :
       rows = [file |-> [f \in Files |-> NewFile(s[f])],
               kind |-> [t \in Tasks |-> "none"]]
  /\ procs = [ex |-> [w \in Workers |-> Idle],
              del |-> [f \in Files |-> "no"], fix |-> [f \in Files |-> {}]]
  /\ outside = [f \in Files |-> NoChunks]
  /\ ghost = [tries |-> [t \in Tasks |-> [f \in Files |-> 0]],
              last |-> [f \in Files |-> NoTask],
              alien |-> [f \in Files |-> FALSE]]

Ex(w) == procs.ex[w]
Kind(w) == rows.kind[Ex(w).at]
Becomes(w, e) == procs' = [procs EXCEPT !.ex[w] = e]
Write(f, r) == rows' = [rows EXCEPT !.file[f] = r]

-----------------------------------------------------------------------------
(* Tasks: submitting, starting, ending.                                    *)

\* add_documents, parse/index and their -pending forms: there is one active
\* task for the pending files of a base and an action.
Enqueue(t, k) ==
  /\ Submit(t)
  /\ k \in {"parse_pending", "index_pending"} =>
       \A o \in Tasks :
         rows.kind[o] = k => lease[o].st \notin {"pending", "running"}
  /\ rows' = [rows EXCEPT !.kind[t] = k]
  /\ UNCHANGED <<procs, outside, ghost>>

\* The files a handler starts with: those of the payload, those it is to
\* add, or none before the first batch of pending ones.
StartsWith(k, T) ==
  CASE k \in {"parse", "index"} -> T # {} /\ \A f \in T : St(f) # "absent"
    [] k = "ingest" -> T # {} /\ \A f \in T : St(f) = "absent"
    [] OTHER -> T = {}

\* process_task has claimed t and starts its handler.
StartHandler(t, w) ==
  /\ Ex(w).pc = "idle" /\ \A o \in Tasks : lease[o].by # w
  /\ Take(t, w)
  /\ \E T \in SUBSET Files :
       /\ StartsWith(rows.kind[t], T)
       /\ Becomes(w, [Idle EXCEPT !.at = t, !.todo = T, !.pc =
            CASE rows.kind[t] = "ingest" -> "add"
              [] rows.kind[t] \in {"parse", "index"} -> rows.kind[t]
              [] OTHER -> "list"])
  /\ UNCHANGED <<rows, outside, ghost>>

\* The file leaves its in-progress state.
Settled(f, s) == [rows.file[f] EXCEPT !.st = s, !.pt = NoTask, !.po = NoWorker]

ErrorOf(s) == IF s = "parsing" THEN "error_parsing" ELSE "error_indexing"

\* Faulty variant: only the files that are being parsed are settled.
SettledByParsingOnly(t, f) == rows.file[f].pt = t /\ St(f) = "parsing"

\* fail_task_processing_in_session: which files the failure of t settles.
SettledBy(t, f) == rows.file[f].pt = t /\ St(f) \in InProgress

\* fail_knowledge_file_task, in the transaction that fails the task.
FailureHook(t) ==
  rows' = [rows EXCEPT !.file = [f \in Files |->
             IF SettledBy(t, f) THEN Settled(f, ErrorOf(St(f)))
             ELSE rows.file[f]]]

\* The execution ends its task with s, or finds that it is not its task any
\* more.
EndTask(w, s) ==
  /\ Becomes(w, Idle)
  /\ IF HoldsLease(Ex(w).at, w)
       THEN /\ Ended(Ex(w).at, s)
            /\ IF s = "success" THEN UNCHANGED rows ELSE FailureHook(Ex(w).at)
       ELSE UNCHANGED <<lease, rows>>
  /\ UNCHANGED <<outside, ghost>>

\* The reconciler gives up a task that lost its owner; a waiting one is
\* cancelled.
GiveUpTask(t) ==
  /\ GivenUp(t)
  /\ FailureHook(t)
  /\ UNCHANGED <<procs, outside, ghost>>

Lapse(t) == LeaseRunsOut(t) /\ UNCHANGED <<rows, procs, outside, ghost>>

Crash(w) == /\ Ex(w).pc # "idle"
            /\ Becomes(w, Idle)
            /\ UNCHANGED <<lease, rows, outside, ghost>>

-----------------------------------------------------------------------------
(* The loops of the handlers.                                              *)

Foremost(w) == {f \in Ex(w).todo : \A o \in Ex(w).todo : f <= o}

\* run_knowledge_ingest, first stage: a record per item, or none when it
\* fails.
AddRecord(w) ==
  /\ Ex(w).pc = "add"
  /\ \E f \in Foremost(w) :
       /\ St(f) = "absent"
       /\ \/ Becomes(w, [Ex(w) EXCEPT !.todo = @ \ {f}]) /\ UNCHANGED rows
          \/ /\ Write(f, NewFile("uploaded"))
             /\ Becomes(w, [Ex(w) EXCEPT !.todo = @ \ {f},
                                         !.carry = @ \cup {f}])
  /\ UNCHANGED <<lease, outside, ghost>>

PendingStatuses(w) == IF Kind(w) = "parse_pending"
                        THEN {"uploaded", "error_parsing"}
                        ELSE {"parsed", "error_indexing"}

\* list_file_ids_by_exact_statuses.
AfterCursor(w) == {f \in Files : /\ St(f) \in PendingStatuses(w)
                                 /\ f > Ex(w).cursor}

GoOn(w, p, T) ==
  /\ Becomes(w, [Ex(w) EXCEPT !.pc = p, !.todo = T, !.carry = {}])
  /\ UNCHANGED <<lease, rows, outside, ghost>>

\* The next batch of pending files; none left, and the handler returns.
ListBatch(w) ==
  /\ Ex(w).pc = "list"
  /\ IF AfterCursor(w) = {} THEN EndTask(w, "success")
     ELSE GoOn(w, IF Kind(w) = "parse_pending" THEN "parse" ELSE "index",
               AfterCursor(w))

\* A stage is through: the next batch of pending files, the next stage of
\* an ingestion with what came through this one, or the end.  An ingestion
\* with a file that failed is a failed task.
StageDone(w) ==
  /\ Ex(w).pc \in {"add", "parse", "index"} /\ Ex(w).todo = {}
  /\ \/ /\ Kind(w) \in {"parse_pending", "index_pending"}
        /\ GoOn(w, "list", {})
     \/ Kind(w) \in {"parse", "index"} /\ EndTask(w, "success")
     \/ /\ Kind(w) = "ingest"
        /\ \/ Ex(w).pc = "add" /\ GoOn(w, "parse", Ex(w).carry)
           \/ Ex(w).pc = "parse" /\ GoOn(w, "index", Ex(w).carry)
           \/ /\ Ex(w).pc # "add"
              /\ EndTask(w, "success") \/ EndTask(w, "failed")

\* raise_if_cancelled and the heartbeat between two files: a user's cancel
\* request, or a shutdown of the worker.
Interrupted(w) ==
  /\ Ex(w).pc \in {"add", "parse", "index", "list", "cancelled"}
  /\ \E s \in {"cancelled", "failed"} : EndTask(w, s)

-----------------------------------------------------------------------------
(* Taking up a file, and giving it back.                                   *)

\* allowed_statuses of parse_file and index_file.
MayClaim(f, stage) ==
  St(f) \in IF stage = "parse" THEN {"uploaded", "error_parsing"}
            ELSE {"parsed", "error_indexing", "indexed"}

\* The claim of parse_file or index_file, fenced by the task.  A file that
\* cannot be claimed is a failed item and the loop goes on.
ClaimFile(w) ==
  /\ Ex(w).pc \in {"parse", "index"}
  /\ \E f \in Foremost(w) :
       IF MayClaim(f, Ex(w).pc) /\ HoldsLease(Ex(w).at, w)
         THEN /\ Write(f, [rows.file[f] EXCEPT
                   !.st = IF Ex(w).pc = "parse" THEN "parsing" ELSE "indexing",
                   !.pt = Ex(w).at, !.po = w])
              /\ ghost' = [ghost EXCEPT !.alien[f] = FALSE,
                                        !.tries[Ex(w).at][f] = @ + 1]
              /\ Becomes(w, [Ex(w) EXCEPT !.todo = @ \ {f}, !.cursor = f,
                   !.cur = f,
                   !.pc = IF @ = "parse" THEN "convert" ELSE "split"])
         ELSE /\ Becomes(w, [Ex(w) EXCEPT !.todo = @ \ {f}, !.cursor = f])
              /\ UNCHANGED <<rows, ghost>>
  /\ UNCHANGED <<lease, outside>>

\* update_fields_if_status with the owner filter: the task runs, is the
\* caller's, and its lease is not over when the row is written.
OwnsFile(w, f, s) == /\ St(f) = s
                     /\ rows.file[f].pt = Ex(w).at /\ rows.file[f].po = w
                     /\ HoldsLease(Ex(w).at, w)

Working == {"convert", "split", "wipe_vec", "wipe_pg", "wipe_count",
            "store_pg", "store_vec", "publish"}
Doing(w) == IF Ex(w).pc = "convert" THEN "parsing" ELSE "indexing"
Owns(w) == Ex(w).pc \in Working /\ OwnsFile(w, Ex(w).cur, Doing(w))
BackToLoop(w) ==
  [Ex(w) EXCEPT !.pc = IF @ = "convert" THEN "parse" ELSE "index",
                !.cur = 0, !.upto = 0, !.next = 0]

\* "File processing owner was lost": CancelledError passes every handler of
\* exceptions of the loop, so the task ends as an interrupted one.  That is
\* also what becomes of a task whose current file is deleted.
OwnerLost(w) == Ex(w).pc \in Working /\ ~Owns(w) /\ EndTask(w, "failed")

\* An error of a file, or a cancellation: error_* if it is still ours; then
\* on to the next file, or to the end of the task.
FileFails(w) ==
  /\ Owns(w)
  /\ Write(Ex(w).cur, Settled(Ex(w).cur, ErrorOf(Doing(w))))
  /\ \/ Becomes(w, BackToLoop(w))
     \/ Becomes(w, [BackToLoop(w) EXCEPT !.pc = "cancelled", !.todo = {}])
  /\ UNCHANGED <<lease, outside, ghost>>

-----------------------------------------------------------------------------
(* Parsing and indexing one file.                                          *)

\* parse_document, _save_markdown_to_minio, and the row.
Parsed(w) ==
  /\ Owns(w) /\ Ex(w).pc = "convert"
  /\ Write(Ex(w).cur, [Settled(Ex(w).cur, "parsed") EXCEPT !.md = TRUE])
  /\ Becomes(w, [BackToLoop(w) EXCEPT !.carry = @ \cup {Ex(w).cur}])
  /\ UNCHANGED <<lease, outside, ghost>>

\* Read the markdown and split it into n chunks; a file without one goes
\* back to "uploaded".
Split(w) ==
  /\ Ex(w).pc = "split"
  /\ IF rows.file[Ex(w).cur].md
       THEN /\ \E n \in 0 .. MaxChunks :
                 Becomes(w, [Ex(w) EXCEPT !.pc = "wipe_vec", !.upto = n,
                                          !.next = 1])
            /\ UNCHANGED rows
       ELSE /\ Owns(w)
            /\ Write(Ex(w).cur, Settled(Ex(w).cur, "uploaded"))
            /\ Becomes(w, BackToLoop(w))
  /\ UNCHANGED <<lease, outside, ghost>>

\* An unfenced write to the stores of the current file, and where it leads.
Touch(w, p, n) ==
  /\ ghost' = [ghost EXCEPT !.alien[Ex(w).cur] = @ \/ ~Owns(w)]
  /\ Becomes(w, [Ex(w) EXCEPT !.pc = p, !.next = n])
  /\ UNCHANGED lease

\* delete_file_chunks_only as index_file calls it: vectors, chunks, count.
WipeVectors(w) ==
  /\ Ex(w).pc = "wipe_vec"
  /\ outside' = [outside EXCEPT ![Ex(w).cur] = NoChunks]
  /\ Touch(w, "wipe_pg", 1)
  /\ UNCHANGED rows

\* Faulty variant: the chunks of a former indexing are left.
WipedNot(f) == rows.file[f].pg

Wiped(f) == NoChunks

WipeChunks(w) ==
  /\ Ex(w).pc = "wipe_pg"
  /\ rows' = [rows EXCEPT !.file[Ex(w).cur].pg = Wiped(Ex(w).cur)]
  /\ Touch(w, "wipe_count", 1)
  /\ UNCHANGED outside

ToStore(w, n) == IF n <= Ex(w).upto THEN "store_pg" ELSE "publish"

WipeCount(w) ==
  /\ Ex(w).pc = "wipe_count"
  /\ rows' = [rows EXCEPT !.file[Ex(w).cur].n = 0]
  /\ Touch(w, ToStore(w, 1), 1)
  /\ UNCHANGED outside

\* _insert_chunks_to_stores, a batch: the authoritative rows first.  The
\* foreign key refuses chunks of a file that is gone.
StoreChunk(w) ==
  /\ Ex(w).pc = "store_pg" /\ Exists(Ex(w).cur)
  /\ rows' = [rows EXCEPT !.file[Ex(w).cur].pg[Ex(w).next] = Ex(w).at]
  /\ Touch(w, "store_vec", Ex(w).next)
  /\ UNCHANGED outside

\* Then the vectors, with retries that end here or in FileFails.
StoreVector(w) ==
  /\ Ex(w).pc = "store_vec"
  /\ outside' = [outside EXCEPT ![Ex(w).cur][Ex(w).next] = Ex(w).at]
  /\ Touch(w, ToStore(w, Ex(w).next + 1), Ex(w).next + 1)
  /\ UNCHANGED rows

\* The file is marked indexed, with its statistics, in one transaction.
Indexed(w) ==
  /\ Owns(w) /\ Ex(w).pc = "publish"
  /\ Write(Ex(w).cur, [Settled(Ex(w).cur, "indexed") EXCEPT !.n = Ex(w).upto])
  /\ ghost' = [ghost EXCEPT !.last[Ex(w).cur] = Ex(w).at]
  /\ Becomes(w, BackToLoop(w))
  /\ UNCHANGED <<lease, outside>>

-----------------------------------------------------------------------------
(* Requests that do not go through a task.                                 *)

\* delete_document, delete_file, delete_folder for each file in it: vectors,
\* chunks, count, row; nobody asks what is being done with the file.
DeleteStep(f) ==
  /\ f \in MayDelete /\ Exists(f)
  /\ CASE procs.del[f] = "no" ->
            /\ procs' = [procs EXCEPT !.del[f] = "pg"]
            /\ outside' = [outside EXCEPT ![f] = NoChunks]
            /\ UNCHANGED rows
       [] procs.del[f] = "pg" ->
            /\ procs' = [procs EXCEPT !.del[f] = "row"]
            /\ Write(f, [rows.file[f] EXCEPT !.pg = NoChunks, !.n = 0])
            /\ UNCHANGED outside
       [] OTHER -> Write(f, NewFile("gone")) /\ UNCHANGED <<procs, outside>>
  /\ ghost' = [ghost EXCEPT !.alien[f] = TRUE]
  /\ UNCHANGED lease

\* repair_missing_file_stats: reads the state and the chunks of the file ...
RepairRead(f) ==
  /\ f \in MayRepair /\ Exists(f) /\ procs.fix[f] = {}
  /\ procs' = [procs EXCEPT !.fix[f] =
       {IF St(f) = "indexed"
          THEN Cardinality({i \in 1 .. MaxChunks :
                              rows.file[f].pg[i] # NoTask}) ELSE 0}]
  /\ UNCHANGED <<lease, rows, outside, ghost>>

\* ... and writes the count later, whoever has the file by then.
RepairWrite(f) ==
  /\ \E n \in procs.fix[f] :
       IF Exists(f) /\ rows.file[f].n # n
         THEN /\ Write(f, [rows.file[f] EXCEPT !.n = n])
              /\ ghost' = [ghost EXCEPT !.alien[f] = TRUE]
         ELSE UNCHANGED <<rows, ghost>>
  /\ procs' = [procs EXCEPT !.fix[f] = {}]
  /\ UNCHANGED <<lease, outside>>

\* What a live execution does next.
GoesOn(w) ==
  \/ AddRecord(w) \/ ListBatch(w) \/ StageDone(w) \/ Interrupted(w)
  \/ ClaimFile(w) \/ OwnerLost(w) \/ FileFails(w) \/ Parsed(w) \/ Split(w)
  \/ WipeVectors(w) \/ WipeChunks(w) \/ WipeCount(w) \/ StoreChunk(w)
  \/ StoreVector(w) \/ Indexed(w)

Next ==
  \/ \E t \in Tasks :
       \/ \E k \in Kinds : Enqueue(t, k)
       \/ \E w \in Workers : StartHandler(t, w)
       \/ GiveUpTask(t) \/ Lapse(t)
  \/ \E w \in Workers : GoesOn(w) \/ Crash(w)
  \/ \E f \in Files : DeleteStep(f) \/ RepairRead(f) \/ RepairWrite(f)

Spec == Init /\ [][Next]_vars

\* Leases of the dead run out and the reconciler comes round.  A live
\* execution goes on too: every request to a store ends, by its answer or
\* its timeout.
LapseDue(t) == Lapse(t) /\ \A w \in Workers : Ex(w).at # t
SeenExpired(t) == lease[t].st = "running" /\ GiveUpTask(t)

-----------------------------------------------------------------------------
(* What holds of files.                                                    *)

\* A file in an in-progress state belongs to a running task and to the
\* execution that holds it: no file is left parsing or indexing by a task
\* that is over, however it ended.
InProgressIsOwned ==
  \A f \in Files :
    IF St(f) \in InProgress
      THEN LET t == rows.file[f].pt
           IN t # NoTask /\ lease[t].st = "running"
                         /\ lease[t].by = rows.file[f].po
      ELSE rows.file[f].pt = NoTask

\* A file marked indexed is in both stores with exactly the chunks it was
\* split into, all of one indexing, and its count says so; unless somebody
\* else wrote in between: an execution that had lost its task, a deletion,
\* or a repair of the statistics.
IndexedIsComplete ==
  \A f \in Files :
    St(f) = "indexed" /\ ~ghost.alien[f] =>
      /\ rows.file[f].pg = [i \in 1 .. MaxChunks |->
           IF i <= rows.file[f].n THEN ghost.last[f] ELSE NoTask]
      /\ outside[f] = rows.file[f].pg

\* No task takes up a file more often than once per stage: the pending loop
\* does not come back to a file that failed.
TakenUpOnce ==
  \A t \in Tasks : \A f \in Files :
    ghost.tries[t][f] <= IF rows.kind[t] = "ingest" THEN 2 ELSE 1

\* The status of a file moves forward only by the hand of an execution
\* whose lease is running: a late one changes nothing.
FencedStep ==
  \A f \in Files :
    St(f) \in InProgress /\ rows'.file[f].st \in {"parsed", "indexed",
                                                  "uploaded"} =>
      HoldsLease(rows.file[f].pt, rows.file[f].po)

=============================================================================
