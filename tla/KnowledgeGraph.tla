---------------------------- MODULE KnowledgeGraph ----------------------------
(***************************************************************************)
(* The graph of a knowledge base: knowledge/graphs/milvus_graph_service.py *)
(* (building, repairing, resetting, deleting), milvus_graph_vector_store,  *)
(* repositories/knowledge_graph_repository.py (records and the leases of   *)
(* their vectors) and the graph columns of knowledge_chunks.               *)
(*                                                                         *)
(* A build is a durable task (TaskLease): a pipeline of extraction,        *)
(* structure (Neo4j, then PostgreSQL) and vectors (Milvus).  Only the      *)
(* vectors are fenced, by a token of their own; a build that has lost its  *)
(* task goes on in the other stages.                                       *)
(***************************************************************************)
EXTENDS TaskLease, Naturals

CONSTANTS Chunks,      \* chunks, numbered by id; each is one file
          Records,     \* entities and triples
          Of,          \* Of[c]: the records extracted from chunk c
          MaxAttempts, \* VECTOR_MAX_ATTEMPTS
          Actions,     \* tasks users submit: "build", "failed", "all_vectors"
          MayDelete,   \* chunks whose file users may delete
          MayReset     \* users may reset the graph

VARIABLES
  rows,     \* the graph columns of chunks; mentions; entities and triples
  procs,    \* executions of builds; deletions of files; a reset
  outside,  \* vec: records with a vector in Milvus; neo: mentions in Neo4j;
            \*   lateV, lateN: records and chunks that threads of builds long
            \*   over are still writing
  ghost     \* lost: records whose vector was removed after it was stored
            \*   anew; stray: records removed while a build stored their
            \*   vector; kept: records whose vectors a failed deletion left;
            \*   torn: chunks whose structure was removed while a build wrote
            \*   it or by a deletion or reset that failed; left: chunks whose
            \*   file went while it was not or no longer indexed; wrong: a
            \*   failure was noted of a chunk that had been extracted; short:
            \*   a task succeeded too early

vars == <<lease, rows, procs, outside, ghost>>

\* res: extraction_result; ex: status of graph_extraction_details; st:
\* graph_structure_indexed; ix: graph_indexed.
Fresh == [here |-> TRUE, res |-> FALSE, ex |-> "pending", st |-> FALSE,
          ix |-> FALSE]
NoChunk == [Fresh EXCEPT !.here = FALSE]
\* is: vector_status; n: vector_attempt_count; by: vector_lock_token; over:
\* vector_locked_until is past.
NoRecord == [is |-> "absent", n |-> 0, by |-> NoWorker, over |-> FALSE]
NewRecord == [NoRecord EXCEPT !.is = "pending"]

\* x, wr: the queues; c, ws: the chunk the writer is at and its step; vw:
\* the vector worker; v: the records of its batch; wf: write_failed > 0.
Idle == [pc |-> "idle", at |-> CHOOSE t \in Tasks : TRUE, after |-> 0,
         x |-> {}, wr |-> {}, c |-> 0, ws |-> "get", vw |-> "loop",
         v |-> [r \in Records |-> "no"], wf |-> FALSE]

Init ==
  /\ lease = [t \in Tasks |-> TaskIn("absent")]
  /\ rows = [chunk |-> [c \in Chunks |-> Fresh], men |-> {},
             rec |-> [r \in Records |-> NoRecord],
             action |-> [t \in Tasks |-> "none"]]
  /\ procs = [ex |-> [w \in Workers |-> Idle],
              del |-> [c \in Chunks |-> [pc |-> "no", orphans |-> {}]],
              reset |-> "no"]
  /\ outside = [vec |-> {}, neo |-> {}, lateV |-> {}, lateN |-> {}]
  /\ ghost = [lost |-> {}, stray |-> {}, kept |-> {}, torn |-> {}, left |-> {},
              wrong |-> FALSE, short |-> FALSE]

Ex(w) == procs.ex[w]
Becomes(w, e) == procs' = [procs EXCEPT !.ex[w] = e]
Here(c) == rows.chunk[c].here
Mentions(c) == {r \in Records : <<r, c>> \in rows.men}

-----------------------------------------------------------------------------
(* Tasks.                                                                  *)

\* _has_running_graph_build_task.
Running == \E t \in Tasks : lease[t].st \in {"pending", "running"}

\* index_graph_build, reconcile_graph_build: enqueue_unique_by_payload.
\* Tasks are numbered in the order of submission.
Enqueue(t, a) ==
  /\ ~Running /\ Submit(t)
  /\ \A o \in Tasks : o < t => lease[o].st # "absent"
  /\ rows' = [rows EXCEPT !.action[t] = a]
  /\ UNCHANGED <<procs, outside, ghost>>

\* run_knowledge_graph.
Start(t, w) ==
  /\ Ex(w).pc = "idle" /\ \A o \in Tasks : lease[o].by # w
  /\ Take(t, w)
  /\ Becomes(w, [Idle EXCEPT !.at = t, !.pc =
       IF rows.action[t] = "build" THEN "fetch" ELSE "repair"])
  /\ UNCHANGED <<rows, outside, ghost>>

GiveUpTask(t) == Unheld(t) /\ Ended(t, "failed") /\ UNCHANGED <<rows, procs, outside, ghost>>
Lapse(t) == LeaseRunsOut(t) /\ UNCHANGED <<rows, procs, outside, ghost>>

\* What a thread (asyncio.to_thread) was writing is not stopped with the
\* pipeline: some of it may still arrive.
InFlight(w) ==
  \E R \in SUBSET {r \in Records : Ex(w).v[r] = "claimed"},
     C \in SUBSET {c \in Chunks : Ex(w).c = c /\ Ex(w).ws = "neo"} :
    outside' = [outside EXCEPT !.lateV = @ \cup R, !.lateN = @ \cup C]

Crash(w) == /\ Ex(w).pc # "idle"
            /\ Becomes(w, Idle)
            /\ InFlight(w)
            /\ UNCHANGED <<lease, rows, ghost>>

EndTask(w, s) == IF HoldsLease(Ex(w).at, w) THEN Ended(Ex(w).at, s)
                 ELSE UNCHANGED lease

\* Faulty variant: whoever holds the record now.
HoldsTokenNot(w, r) == rows.rec[r].is # "absent"

\* The condition vector_lock_token == lock_token of both ways to end a batch.
HoldsToken(w, r) == rows.rec[r].by = w

\* mark_vector_records_failed: pending again, failed after the last attempt.
MarkedFailed(w, R) ==
  [r \in Records |->
     IF r \in R /\ HoldsToken(w, r)
       THEN [NoRecord EXCEPT !.n = rows.rec[r].n, !.is =
               IF rows.rec[r].n >= MaxAttempts THEN "failed" ELSE "pending"]
       ELSE rows.rec[r]]

\* A cancellation, a shutdown or an error ends the pipeline: the records of
\* the batch are given back.  Whether the task counts as cancelled or failed
\* is nothing to the graph.
Interrupted(w) ==
  /\ Ex(w).pc \in {"fetch", "drain", "check", "repair", "drop"}
  /\ rows' = [rows EXCEPT !.rec =
       MarkedFailed(w, {r \in Records : Ex(w).v[r] # "no"})]
  /\ InFlight(w)
  /\ EndTask(w, "failed")
  /\ Becomes(w, Idle)
  /\ UNCHANGED ghost

\* The mentions write_chunk_graph writes.
Written(c) == {<<r, c>> : r \in Of[c]}

LateVector(r) ==
  /\ r \in outside.lateV
  /\ outside' = [outside EXCEPT !.lateV = @ \ {r}, !.vec = @ \cup {r}]
  /\ ghost' = [ghost EXCEPT !.stray =
       IF rows.rec[r].is = "absent" THEN @ \cup {r} ELSE @]
  /\ UNCHANGED <<lease, rows, procs>>

LateNeo(c) ==
  /\ c \in outside.lateN
  /\ outside' = [outside EXCEPT !.lateN = @ \ {c}, !.neo = @ \cup Written(c)]
  /\ ghost' = [ghost EXCEPT !.left =
       IF procs.del[c].pc = "done" THEN @ \cup {c} ELSE @]
  /\ UNCHANGED <<lease, rows, procs>>

-----------------------------------------------------------------------------
(* build_pending_chunks: fetching, extracting, writing the structure.      *)

\* list_graph_pending_by_kb_id after the last id, and into the queues; none
\* left, and the pipeline is to drain.
Fetch(w) ==
  /\ Ex(w).pc = "fetch"
  /\ LET P == {c \in Chunks : /\ Here(c) /\ ~rows.chunk[c].ix
                              /\ c > Ex(w).after}
         W == {c \in P : ~rows.chunk[c].st /\ rows.chunk[c].res}
         X == {c \in P : ~rows.chunk[c].st /\ ~rows.chunk[c].res}
     IN Becomes(w, IF P = {} THEN [Ex(w) EXCEPT !.pc = "drain"]
                   ELSE [Ex(w) EXCEPT !.x = @ \cup X, !.wr = @ \cup W,
                           !.after = CHOOSE c \in P : \A d \in P : d <= c])
  /\ UNCHANGED <<lease, rows, outside, ghost>>

\* What extracting chunk c leaves in its row, if there is one: a result, or
\* a failure after the last attempt, which keeps a result that is there.
Extracted(c, ok) ==
  IF ~Here(c) THEN rows
  ELSE [rows EXCEPT !.chunk[c].ex = IF ok THEN "succeeded" ELSE "failed",
                    !.chunk[c].res = @ \/ ok]

\* A worker has the chunk as it was when it was fetched.  A chunk that
\* cannot be extracted goes no further.
Extract(w, c) ==
  /\ c \in Ex(w).x
  /\ \E ok \in BOOLEAN :
       /\ rows' = Extracted(c, ok)
       /\ Becomes(w, [Ex(w) EXCEPT !.x = @ \ {c},
                                   !.wr = IF ok THEN @ \cup {c} ELSE @])
       /\ ghost' = [ghost EXCEPT !.wrong = @ \/ (~ok /\ rows.chunk[c].res)]
  /\ UNCHANGED <<lease, outside>>

WriterGoesTo(w, c, s) == Becomes(w, [Ex(w) EXCEPT !.c = c, !.ws = s])
WriteFails(w) == Becomes(w, [Ex(w) EXCEPT !.c = 0, !.ws = "get", !.wf = TRUE])

\* The writer takes a chunk from its queue and reads it again; its result
\* may have been cleared in between.
GetChunk(w, c) ==
  /\ Ex(w).ws = "get" /\ c \in Ex(w).wr
  /\ LET left == Ex(w).wr \ {c}
         goes == [Ex(w) EXCEPT !.wr = left, !.c = c, !.ws = "neo"]
         fails == [Ex(w) EXCEPT !.wr = left, !.wf = TRUE]
     IN IF ~Here(c) THEN Becomes(w, fails) /\ UNCHANGED rows
        ELSE IF rows.chunk[c].res THEN Becomes(w, goes) /\ UNCHANGED rows
        ELSE \E ok \in BOOLEAN : /\ rows' = Extracted(c, ok)
                                 /\ Becomes(w, IF ok THEN goes ELSE fails)
  /\ UNCHANGED <<lease, outside, ghost>>

\* write_chunk_graph: one transaction of Neo4j.
WriteNeo(w) ==
  /\ Ex(w).ws = "neo"
  /\ \/ /\ outside' = [outside EXCEPT !.neo = @ \cup Written(Ex(w).c)]
        /\ WriterGoesTo(w, Ex(w).c, "pg")
     \/ WriteFails(w) /\ UNCHANGED outside
  /\ UNCHANGED <<lease, rows, ghost>>

\* upsert_chunk_graph: new records wait for their vector, known ones keep
\* their state; the foreign key refuses mentions of a chunk that is gone.
Upserted(c) ==
  [rows EXCEPT !.men = @ \cup Written(c),
               !.rec = [r \in Records |->
                  IF r \in Of[c] /\ rows.rec[r].is = "absent" THEN NewRecord
                  ELSE rows.rec[r]]]

Upsert(w) ==
  /\ Ex(w).ws = "pg"
  /\ IF Here(Ex(w).c)
       THEN rows' = Upserted(Ex(w).c) /\ WriterGoesTo(w, Ex(w).c, "mark")
       ELSE UNCHANGED rows /\ WriteFails(w)
  /\ UNCHANGED <<lease, outside, ghost>>

\* mark_graph_structure_indexed.
MarkStructured(w) ==
  /\ Ex(w).ws = "mark"
  /\ rows' = IF Here(Ex(w).c) THEN [rows EXCEPT !.chunk[Ex(w).c].st = TRUE]
             ELSE rows
  /\ ghost' = [ghost EXCEPT !.torn =
       IF Mentions(Ex(w).c) = Of[Ex(w).c] THEN @ ELSE @ \cup {Ex(w).c}]
  /\ WriterGoesTo(w, 0, "get")
  /\ UNCHANGED <<lease, outside>>

\* The extractors and the writer have come to the end of their queues.
StructureDone(w) == /\ Ex(w).pc = "drain" /\ Ex(w).x = {} /\ Ex(w).wr = {}
                    /\ Ex(w).ws = "get"

-----------------------------------------------------------------------------
(* The vector worker.                                                      *)

\* The condition of claim_vector_records.
Claimable(r) == \/ rows.rec[r].is = "pending"
                \/ rows.rec[r].is = "processing" /\ rows.rec[r].over

NextAttempt(n) == IF n < MaxAttempts THEN n + 1 ELSE n

Claims(w, R) ==
  /\ rows' = [rows EXCEPT !.rec = [r \in Records |->
       IF r \in R THEN [is |-> "processing", n |-> NextAttempt(rows.rec[r].n),
                        by |-> w, over |-> FALSE]
       ELSE rows.rec[r]]]
  /\ Becomes(w, [Ex(w) EXCEPT !.vw = "batch", !.v = [r \in Records |->
       IF r \in R THEN "claimed" ELSE "no"]])

VectorsReady(c) == \A r \in Mentions(c) : rows.rec[r].is = "indexed"

\* finalize_graph_indexed_chunks.
Finalized ==
  [rows EXCEPT !.chunk = [c \in Chunks |->
     IF Here(c) /\ rows.chunk[c].st /\ VectorsReady(c)
       THEN [rows.chunk[c] EXCEPT !.ix = TRUE] ELSE rows.chunk[c]]]

\* A round of vector_worker: a batch of what can be claimed; the end, once
\* the structure is done and nothing is pending or being processed; or the
\* next round later.
Claim(w) ==
  /\ Ex(w).pc \in {"fetch", "drain"} /\ Ex(w).vw = "loop"
  /\ LET R == {r \in Records : Claimable(r)}
     IN IF R # {} THEN Claims(w, R)
        ELSE /\ StructureDone(w)
             /\ \A r \in Records : rows.rec[r].is # "processing"
             /\ rows' = Finalized
             /\ Becomes(w, [Ex(w) EXCEPT !.pc = "check"])
  /\ UNCHANGED <<lease, outside, ghost>>

\* upsert_graph_records: embed the contents and store the vectors.
StoreVector(w, r) ==
  /\ Ex(w).v[r] = "claimed"
  /\ outside' = [outside EXCEPT !.vec = @ \cup {r}]
  /\ ghost' = [ghost EXCEPT !.lost = @ \ {r}, !.stray =
       IF rows.rec[r].is = "absent" THEN @ \cup {r} ELSE @]
  /\ Becomes(w, [Ex(w) EXCEPT !.v[r] = "stored"])
  /\ UNCHANGED <<lease, rows>>

\* mark_vector_records_indexed, for the records still under its token.
MarkIndexed(w, r) ==
  /\ Ex(w).v[r] = "stored"
  /\ rows' = IF HoldsToken(w, r)
               THEN [rows EXCEPT !.rec[r] = [NoRecord EXCEPT
                       !.is = "indexed", !.n = rows.rec[r].n]]
               ELSE rows
  /\ Becomes(w, [Ex(w) EXCEPT !.v[r] = "no"])
  /\ UNCHANGED <<lease, outside, ghost>>

VectorFails(w, r) ==
  /\ Ex(w).v[r] # "no"
  /\ rows' = [rows EXCEPT !.rec = MarkedFailed(w, {r})]
  /\ Becomes(w, [Ex(w) EXCEPT !.v[r] = "no"])
  /\ UNCHANGED <<lease, outside, ghost>>

EndBatch(w) ==
  /\ Ex(w).vw = "batch" /\ \A r \in Records : Ex(w).v[r] = "no"
  /\ rows' = Finalized
  /\ Becomes(w, [Ex(w) EXCEPT !.vw = "loop"])
  /\ UNCHANGED <<lease, outside, ghost>>

\* GRAPH_VECTOR_LEASE_SECONDS have passed.
RecordLeaseEnds(r) ==
  /\ rows.rec[r].is = "processing" /\ ~rows.rec[r].over
  /\ rows' = [rows EXCEPT !.rec[r].over = TRUE]
  /\ UNCHANGED <<lease, procs, outside, ghost>>

Remaining == {c \in Chunks : Here(c) /\ ~rows.chunk[c].ix}
NotExtracted == {c \in Chunks : Here(c) /\ rows.chunk[c].ex = "failed"}
AtMost(S, T) == \E f \in [S -> T] : \A a, b \in S : f[a] = f[b] => a = b

\* The counts at the end of build_pending_chunks: no more chunks remain
\* than could not be extracted, no write failed, no vector failed.
Complete(w) == /\ AtMost(Remaining, NotExtracted)
               /\ ~Ex(w).wf
               /\ \A r \in Records : rows.rec[r].is # "failed"

Check(w) ==
  /\ Ex(w).pc = "check"
  /\ EndTask(w, IF Complete(w) THEN "success" ELSE "failed")
  /\ ghost' = [ghost EXCEPT !.short =
       @ \/ /\ HoldsLease(Ex(w).at, w) /\ Complete(w)
            /\ ~(Remaining \subseteq NotExtracted)]
  /\ Becomes(w, Idle)
  /\ UNCHANGED <<rows, outside>>

-----------------------------------------------------------------------------
(* Repairing, resetting, deleting.                                         *)

\* reconcile_vector_records.
Reconciled(all) ==
  [rows EXCEPT
     !.rec = [r \in Records |->
        IF \/ all /\ rows.rec[r].is # "absent"
           \/ rows.rec[r].is = "failed"
           \/ rows.rec[r].is = "processing" /\ rows.rec[r].over
          THEN NewRecord ELSE rows.rec[r]],
     !.chunk = [c \in Chunks |->
        [rows.chunk[c] EXCEPT !.ix = @ /\ ~all]]]

Repair(w) ==
  /\ Ex(w).pc = "repair"
  /\ LET all == rows.action[Ex(w).at] = "all_vectors"
     IN /\ rows' = Reconciled(all)
        /\ Becomes(w, [Ex(w) EXCEPT !.pc = IF all THEN "drop" ELSE "fetch"])
  /\ UNCHANGED <<lease, outside, ghost>>

\* A vector is removed although its record says, or is about to say, that
\* it is there.
Loses(R) == {r \in R \cap outside.vec :
               \/ rows.rec[r].is = "indexed"
               \/ \E w \in Workers : Ex(w).v[r] = "stored" /\ HoldsToken(w, r)}

\* drop_graph_collections, after the rows were reset.
DropVectors(w) ==
  /\ Ex(w).pc = "drop"
  /\ outside' = [outside EXCEPT !.vec = {}]
  /\ ghost' = [ghost EXCEPT !.lost = @ \cup Loses(Records)]
  /\ Becomes(w, [Ex(w) EXCEPT !.pc = "fetch"])
  /\ UNCHANGED <<lease, rows>>

\* Builds at work when a reset or a deletion of chunks C removes structure.
Torn(C) == {c \in C : \E w \in Workers : Ex(w).c = c}

\* reset_graph_build: no task is active when it looks ...
BeginReset ==
  /\ MayReset /\ procs.reset = "no" /\ ~Running
  /\ procs' = [procs EXCEPT !.reset = "neo"]
  /\ UNCHANGED <<lease, rows, outside, ghost>>

ResetGoesTo(s) == procs' = [procs EXCEPT !.reset = s] /\ UNCHANGED lease

\* ... then Neo4j, the collections, the records and mentions, the chunks.
ResetStep ==
  \/ /\ procs.reset = "neo" /\ ResetGoesTo("vec")
     /\ outside' = [outside EXCEPT !.neo = {}]
     /\ ghost' = [ghost EXCEPT !.torn = @ \cup Torn(Chunks)
                    \cup {c \in Chunks : rows.chunk[c].st}]
     /\ UNCHANGED rows
  \/ /\ procs.reset = "vec" /\ ResetGoesTo("pg")
     /\ outside' = [outside EXCEPT !.vec = {}]
     /\ ghost' = [ghost EXCEPT !.lost = @ \cup Loses(Records)]
     /\ UNCHANGED rows
  \/ /\ procs.reset = "pg" /\ ResetGoesTo("chunks")
     /\ rows' = [rows EXCEPT !.men = {}, !.rec = [r \in Records |-> NoRecord]]
     /\ ghost' = [ghost EXCEPT !.stray = @ \cup outside.vec,
                    !.torn = @ \cup Torn(Chunks)
                    \cup {c \in Chunks : rows.chunk[c].st}]
     /\ UNCHANGED outside
  \/ /\ procs.reset = "chunks" /\ ResetGoesTo("no")
     /\ \E clear \in BOOLEAN :
          rows' = [rows EXCEPT !.chunk = [c \in Chunks |->
            IF clear THEN [Fresh EXCEPT !.here = Here(c)]
            ELSE [rows.chunk[c] EXCEPT !.st = FALSE, !.ix = FALSE]]]
     /\ ghost' = [ghost EXCEPT !.torn = Torn(Chunks)]
     /\ UNCHANGED outside

\* Neo4j, Milvus or the process fails on the way.
ResetFails ==
  /\ procs.reset # "no" /\ ResetGoesTo("no")
  /\ UNCHANGED <<rows, outside, ghost>>

Deletes(c, p, O) ==
  procs' = [procs EXCEPT !.del[c] = [pc |-> p, orphans |-> O]]

\* delete_file_chunks_only looks whether the file is in the graph: only an
\* indexed chunk counts.
BeginDelete(c) ==
  /\ c \in MayDelete /\ Here(c) /\ procs.del[c].pc = "no"
  /\ Deletes(c, IF rows.chunk[c].ix THEN "refs" ELSE "chunk", {})
  /\ UNCHANGED <<lease, rows, outside, ghost>>

\* delete_file_references: records only this file mentions.
Orphans(c) == {r \in Mentions(c) : \A d \in Chunks \ {c} : r \notin Mentions(d)}

DeleteRefs(c) ==
  /\ procs.del[c].pc = "refs"
  /\ rows' = [rows EXCEPT
       !.men = {m \in @ : m[2] # c},
       !.rec = [r \in Records |-> IF r \in Orphans(c) THEN NoRecord
                                  ELSE rows.rec[r]]]
  /\ Deletes(c, "vec", Orphans(c))
  /\ UNCHANGED <<lease, outside, ghost>>

\* delete_graph_records: by then a build may have created them anew.
DeleteVectors(c) ==
  /\ procs.del[c].pc = "vec"
  /\ outside' = [outside EXCEPT !.vec = @ \ procs.del[c].orphans]
  /\ ghost' = [ghost EXCEPT !.lost = @ \cup Loses(procs.del[c].orphans)]
  /\ Deletes(c, "neo", {})
  /\ UNCHANGED <<lease, rows>>

DeleteNeo(c) ==
  /\ procs.del[c].pc = "neo"
  /\ outside' = [outside EXCEPT !.neo = {m \in @ : m[2] # c}]
  /\ Deletes(c, "chunk", {})
  /\ UNCHANGED <<lease, rows, ghost>>

\* A step raises or the process dies: the chunks stay, for a deletion to be
\* tried again, but the references may be gone already.  Of the vectors some
\* may have been deleted.
DeleteFails(c) ==
  /\ procs.del[c].pc \notin {"no", "done"}
  /\ \E R \in SUBSET procs.del[c].orphans :
       /\ outside' = [outside EXCEPT !.vec = @ \ R]
       /\ ghost' = [ghost EXCEPT
            !.lost = @ \cup Loses(R),
            !.kept = @ \cup (procs.del[c].orphans \ R),
            !.torn = IF procs.del[c].pc = "refs" THEN @ ELSE @ \cup {c}]
  /\ Deletes(c, "no", {})
  /\ UNCHANGED <<lease, rows>>

\* delete_by_file_id; the mentions go with the chunk, the records stay.
DeleteChunk(c) ==
  /\ procs.del[c].pc = "chunk"
  /\ rows' = [rows EXCEPT !.chunk[c] = NoChunk, !.men = {m \in @ : m[2] # c}]
  /\ ghost' = [ghost EXCEPT !.left =
       IF \/ Mentions(c) # {} \/ \E m \in outside.neo : m[2] = c
          \/ \E w \in Workers : Ex(w).c = c
         THEN @ \cup {c} ELSE @]
  /\ Deletes(c, "done", {})
  /\ UNCHANGED <<lease, outside>>

Builds(w) ==
  \/ Fetch(w) \/ WriteNeo(w) \/ Upsert(w) \/ MarkStructured(w) \/ Claim(w)
  \/ EndBatch(w) \/ Check(w) \/ Repair(w) \/ DropVectors(w)
  \/ \E c \in Chunks : Extract(w, c) \/ GetChunk(w, c)
  \/ \E r \in Records : StoreVector(w, r) \/ MarkIndexed(w, r)
                          \/ VectorFails(w, r)

Next ==
  \/ \E t \in Tasks :
       \/ \E a \in Actions : Enqueue(t, a)
       \/ \E w \in Workers : Start(t, w)
       \/ GiveUpTask(t) \/ Lapse(t)
  \/ \E w \in Workers : Builds(w) \/ Interrupted(w) \/ Crash(w)
  \/ \E r \in Records : RecordLeaseEnds(r) \/ LateVector(r)
  \/ BeginReset \/ ResetStep \/ ResetFails
  \/ \E c \in Chunks : BeginDelete(c) \/ DeleteRefs(c) \/ DeleteVectors(c)
                         \/ DeleteNeo(c) \/ DeleteChunk(c)
                         \/ DeleteFails(c) \/ LateNeo(c)

Spec == Init /\ [][Next]_vars

-----------------------------------------------------------------------------
(* What holds of the graph.                                                *)

\* A chunk marked indexed has its whole structure, in PostgreSQL and in
\* Neo4j, unless that was removed under the hands of a build.
IndexedHasStructure ==
  procs.reset = "no" =>
    \A c \in Chunks :
      rows.chunk[c].ix /\ c \notin ghost.torn /\ procs.del[c].pc = "no" =>
        /\ Mentions(c) = Of[c]
        /\ {r \in Records : <<r, c>> \in outside.neo} = Of[c]

\* And each of its records is found by a search for vectors, unless a
\* deletion or a repair removed the vector after it had been stored anew.
\* An execution that lost its record's lease does not undo what another
\* did.
IndexedHasVectors ==
  procs.reset = "no" =>
    \A c \in Chunks : rows.chunk[c].ix =>
      \A r \in Mentions(c) \ ghost.lost :
        rows.rec[r].is = "indexed" /\ r \in outside.vec

\* A build succeeds only when every chunk is indexed or could not be
\* extracted, unless a late failure was noted of an extracted chunk.
SuccessIsComplete == ghost.short => ghost.wrong

\* A deleted file leaves nothing in the graph, however often its deletion
\* failed on the way, unless it was deleted before it was indexed or while a
\* build wrote it.
NothingLeftBehind ==
  \A c \in Chunks \ ghost.left : procs.del[c].pc = "done" =>
    \A m \in rows.men \cup outside.neo : m[2] # c

\* Records with a vector and without a row, whose vector nobody is about to
\* delete or store.
StrayVectors ==
  {r \in outside.vec : /\ rows.rec[r].is = "absent" /\ procs.reset = "no"
                       /\ \A c \in Chunks : r \notin procs.del[c].orphans
                       /\ \A w \in Workers : Ex(w).v[r] = "no"}

\* The vectors of deleted records are deleted with them, but for those a
\* build stored in the meantime and those whose deletion failed.
NoStrayVector == StrayVectors \subseteq ghost.stray \cup ghost.kept

\* As documented, and not so: the deletion of a file removes the vectors of
\* the records it leaves without a reference, and one that failed can be
\* tried again.
OrphanVectorsGo == StrayVectors \subseteq ghost.stray

=============================================================================
