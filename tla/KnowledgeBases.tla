--------------------------- MODULE KnowledgeBases ---------------------------
(***************************************************************************)
(* The row of a knowledge base: knowledge/manager.py with                  *)
(* knowledge_base_repository.py, the Redis cache of its configuration      *)
(* (cache.py), the mind map (utils/mindmap_utils.py) and its deletion      *)
(* across Milvus, MinIO and PostgreSQL (base.py, implementations/          *)
(* milvus.py).                                                             *)
(*                                                                         *)
(* A request is a sequence of awaits; each action is what happens between  *)
(* two of them.  A setting is the member of a set: an update asks for one  *)
(* more, and is lost when the set it writes lacks it.                      *)
(***************************************************************************)
EXTENDS Naturals, FiniteSets

CONSTANTS Workers,  \* requests under way
          NoOne,
          Settings, \* settings asked for, of additional_params
          Options,  \* options asked for, of query_params
          Files,
          Ops       \* the requests of this instance

VARIABLES
  rows,    \* kb: the row is there; params, options, stats: additional_params
           \*   and query_params; map: mind map, the files tracked;
           \*   file: the file rows
  procs,   \* per request: its operation, where it is, and what it has read
  outside, \* cache, lock: Redis; vectors: Milvus; objects: MinIO
  ghost    \* params, options: what was asked for and answered with success;
           \*   expired: a lock timed out under its holder; early: the row
           \*   changed before its creator cached it; stale: an update wrote
           \*   over the settings of another; old: the last refresh failed,
           \*   or an update wrote older statistics back; late: a deletion
           \*   met an upload; unpruned: files whose deletion leaves the
           \*   mind map alone or lost against another write of it

vars == <<rows, procs, outside, ghost>>

NoMap == {NoOne}
Config == [params |-> rows.params, options |-> rows.options]
Idle == [op |-> "none", at |-> "idle", arg |-> NoOne, stat |-> 0, files |-> {},
         seen |-> {}, read |-> [params |-> {}, options |-> {}]]
NoRow == [kb |-> FALSE, params |-> {}, options |-> {}, stats |-> 0,
          map |-> NoMap, file |-> {}]

Init ==
  /\ rows = [NoRow EXCEPT !.kb = "create" \notin Ops]
  /\ procs = [w \in Workers |-> Idle]
  /\ outside = [cache |-> {}, lock |-> NoOne, vectors |-> {}, objects |-> {}]
  /\ ghost = [params |-> {}, options |-> {}, expired |-> FALSE, early |-> FALSE,
              stale |-> FALSE, late |-> FALSE, old |-> FALSE, unpruned |-> {}]

Is(w, op, at) == procs[w].op = op /\ procs[w].at = at
Goes(w, at) == procs' = [procs EXCEPT ![w].at = at]
Ends(w) == procs' = [procs EXCEPT ![w] = Idle]
Begins(w, op, at, arg) ==
  /\ op \in Ops /\ procs[w] = Idle
  /\ procs' = [procs EXCEPT ![w] =
       IF op = "update"
       THEN [Idle EXCEPT !.op = op, !.at = at, !.arg = arg, !.read = Config,
                         !.stat = rows.stats]
       ELSE [Idle EXCEPT !.op = op, !.at = at, !.arg = arg,
                         !.files = IF op = "map" THEN rows.file ELSE {}]]
Quiet == \A w \in Workers : procs[w] = Idle

\* The file whose removal from the mind map this request still owes.
Pruning(w) == IF procs[w].op \in {"remove", "prune"} THEN {procs[w].arg} ELSE {}

(* --- the lock around cache and row: kb_config_cache_lock --- *)

\* The Redis lock is free.
LockFree == outside.lock = NoOne

Takes(w) == LockFree /\ outside' = [outside EXCEPT !.lock = w]
Releases(w, o) ==
  outside' = [o EXCEPT !.lock = IF o.lock = w THEN NoOne ELSE o.lock]

\* timeout=30: the lock of a slow holder goes to the next one (once).
LockExpires ==
  /\ outside.lock # NoOne /\ ~ghost.expired
  /\ outside' = [outside EXCEPT !.lock = NoOne]
  /\ ghost' = [ghost EXCEPT !.expired = TRUE]
  /\ UNCHANGED <<rows, procs>>

\* blocking_timeout=10, or Redis is away: the request fails; a refresh of the
\* statistics fails with it, a reader goes to the row.
LockFails(w) ==
  /\ procs[w].at \in {"lock", "refresh"}
  /\ Ends(w)
  /\ ghost' = [ghost EXCEPT !.old = @ \/ procs[w].at = "refresh",
                            !.unpruned = @ \cup Pruning(w)]
  /\ UNCHANGED <<rows, outside>>

CacheTimesOut ==
  /\ outside.cache # {}
  /\ outside' = [outside EXCEPT !.cache = {}]
  /\ UNCHANGED <<rows, procs, ghost>>

(* --- reading the configuration: get_kb_config --- *)

\* A miss.
Read(w) == outside.cache = {} /\ Begins(w, "read", "lock", NoOne)
             /\ UNCHANGED <<rows, outside, ghost>>

\* Under the lock the cache is looked at again.
LockToRead(w) ==
  /\ Is(w, "read", "lock") /\ Takes(w)
  /\ Goes(w, IF outside.cache = {} THEN "get" ELSE "release")
  /\ UNCHANGED <<rows, ghost>>
GetRow(w) ==
  /\ Is(w, "read", "get")
  /\ procs' = [procs EXCEPT ![w].at = IF rows.kb THEN "fill" ELSE "release",
                            ![w].read = Config]
  /\ UNCHANGED <<rows, outside, ghost>>
Fill(w) ==
  /\ Is(w, "read", "fill")
  /\ outside' = [outside EXCEPT !.cache = {procs[w].read}]
  /\ Goes(w, "release")
  /\ UNCHANGED <<rows, ghost>>
Release(w) ==
  /\ procs[w].at = "release"
  /\ Releases(w, outside) /\ Ends(w)
  /\ UNCHANGED <<rows, ghost>>

(* --- writing the row --- *)

\* create_database: the row is committed, then cached without the lock.
Create(w) ==
  /\ "create" \in Ops /\ ~rows.kb /\ procs[w] = Idle /\ Quiet /\ ~ghost.early
  /\ rows' = [rows EXCEPT !.kb = TRUE]
  /\ procs' = [procs EXCEPT ![w] =
       [Idle EXCEPT !.op = "create", !.at = "cache", !.read = Config]]
  /\ UNCHANGED <<outside, ghost>>
CacheNew(w) ==
  /\ Is(w, "create", "cache")
  /\ outside' = [outside EXCEPT !.cache = {procs[w].read}]
  /\ ghost' = [ghost EXCEPT !.early = @ \/ procs[w].read # Config \/ ~LockFree \/ ~rows.kb]
  /\ Ends(w)
  /\ UNCHANGED rows

\* update_database reads the row without a lock and merges into what it read;
\* merge_query_params_options reads and merges under the row lock.
Update(w) == rows.kb /\ (\E s \in Settings \ rows.params : Begins(w, "update", "lock", s))
               /\ UNCHANGED <<rows, outside, ghost>>
MergeOptions(w) == (\E o \in Options \ rows.options : Begins(w, "merge", "lock", o))
                     /\ UNCHANGED <<rows, outside, ghost>>
Writers == {"update", "merge", "map", "prune", "delete"}
LockToWrite(w) ==
  /\ procs[w].op \in Writers /\ procs[w].at = "lock" /\ Takes(w)
  /\ Goes(w, "uncache")
  /\ UNCHANGED <<rows, ghost>>

\* Faulty variant: the cached value is left to its time.
UncachedLater(c) == c

\* The cached value goes before the transaction; when that fails there is none.
Uncached(c) == {}

Uncache(w) ==
  /\ procs[w].at = "uncache"
  /\ \/ outside' = [outside EXCEPT !.cache = Uncached(@)] /\ Goes(w, "write")
        /\ UNCHANGED ghost
     \/ /\ UNCHANGED outside /\ Goes(w, "release")
        /\ ghost' = [ghost EXCEPT !.unpruned = @ \cup Pruning(w)]
  /\ UNCHANGED rows

\* The options the merge starts from, of the row as it is under its lock.
MergeBase(w) == rows.options

\* A file that is gone comes back into the map, and nobody will remove it.
MapWrite(w, m) ==
  /\ rows' = [rows EXCEPT !.map = m]
  /\ ghost' = [ghost EXCEPT !.unpruned =
       @ \cup ((m \ rows.file) \ UNION {Pruning(v) : v \in Workers \ {w}})]

Write(w) ==
  /\ procs[w].at = "write"
  /\ Releases(w, outside) /\ Ends(w)
  /\ \/ ~rows.kb /\ UNCHANGED <<rows, ghost>>
     \/ /\ rows.kb /\ procs[w].op = "update"
        /\ rows' = [rows EXCEPT !.params = procs[w].read.params \cup {procs[w].arg},
                                !.stats = procs[w].stat]
        /\ ghost' = [ghost EXCEPT !.params = @ \cup {procs[w].arg},
             !.stale = @ \/ rows.params # procs[w].read.params,
             !.old = @ \/ rows.stats # procs[w].stat]
     \/ /\ rows.kb /\ procs[w].op = "merge"
        /\ rows' = [rows EXCEPT !.options = MergeBase(w) \cup {procs[w].arg}]
        /\ ghost' = [ghost EXCEPT !.options = @ \cup {procs[w].arg}]
     \/ rows.kb /\ procs[w].op = "map" /\ MapWrite(w, procs[w].files)
     \/ /\ rows.kb /\ procs[w].op = "prune"
        /\ MapWrite(w, procs[w].seen \ {procs[w].arg})
     \/ /\ rows.kb /\ procs[w].op = "delete"
        /\ rows' = [NoRow EXCEPT !.kb = FALSE]
        /\ UNCHANGED ghost

(* --- files, their statistics and the mind map --- *)

Deleting == \E w \in Workers : procs[w].op = "delete"

\* add_file_record: the object was uploaded before; then the statistics.
AddFile(w) ==
  /\ rows.kb
  /\ \E f \in Files \ rows.file :
       /\ Begins(w, "file", "refresh", f)
       /\ rows' = [rows EXCEPT !.file = @ \cup {f}]
       /\ outside' = [outside EXCEPT !.objects = @ \cup {f}]
       /\ ghost' = [ghost EXCEPT !.late = @ \/ Deleting, !.unpruned = @ \ {f}]

\* index_file: the chunks are embedded, then stored (KnowledgeFiles has the
\* steps).
IndexFile(w) ==
  /\ rows.kb /\ (\E f \in rows.file \ outside.vectors : Begins(w, "file", "embed", f))
  /\ UNCHANGED <<rows, outside, ghost>>
StoreVectors(w) ==
  /\ Is(w, "file", "embed") /\ Goes(w, "refresh")
  /\ \/ UNCHANGED <<outside, ghost>>
     \/ /\ outside' = [outside EXCEPT !.vectors = @ \cup {procs[w].arg}]
        /\ ghost' = [ghost EXCEPT !.late = @ \/ Deleting \/ procs[w].arg \notin rows.file]
  /\ UNCHANGED rows

\* Objects are deleted first, best effort: one may be kept.
WithoutObject(f) == outside.objects \ {f}

\* delete_document: the objects, best effort, then chunks and row; then the
\* statistics and the mind map.  A folder's files go without both extras.
DeleteFile(w) ==
  \E f \in rows.file, inFolder, kept \in BOOLEAN :
    /\ Begins(w, IF inFolder THEN "file" ELSE "remove", "refresh", f)
    /\ rows' = [rows EXCEPT !.file = @ \ {f}]
    /\ outside' = [outside EXCEPT !.vectors = @ \ {f},
                    !.objects = IF inFolder \/ kept THEN @ ELSE WithoutObject(f)]
    /\ ghost' = IF inFolder THEN [ghost EXCEPT !.unpruned = @ \cup {f}] ELSE ghost

\* refresh_stats: after the operation, whatever its outcome; the files are
\* counted under the row lock.
LockToRefresh(w) ==
  /\ procs[w].at = "refresh" /\ Takes(w)
  /\ Goes(w, "count")
  /\ UNCHANGED <<rows, ghost>>

\* What is counted: the files under the row lock.
Counted(w) == Cardinality(rows.file)

RefreshStats(w) ==
  /\ procs[w].at = "count"
  /\ rows' = IF rows.kb THEN [rows EXCEPT !.stats = Counted(w)] ELSE rows
  /\ Releases(w, outside)
  /\ IF procs[w].op = "remove" THEN Goes(w, "prune") ELSE Ends(w)
  /\ ghost' = [ghost EXCEPT !.old = FALSE]

\* remove_file_from_mindmap reads the row anew.
Prune(w) ==
  /\ Is(w, "remove", "prune")
  /\ IF procs[w].arg \in rows.map
     THEN procs' = [procs EXCEPT ![w].op = "prune", ![w].at = "lock", ![w].seen = rows.map]
     ELSE Ends(w)
  /\ UNCHANGED <<rows, outside, ghost>>

\* generate_database_mindmap: the files are read, the model answers, the row
\* is written.
DrawMap(w) ==
  /\ rows.kb /\ rows.file # {} /\ Begins(w, "map", "lock", NoOne)
  /\ UNCHANGED <<rows, outside, ghost>>

\* update_mindmap_incremental: likewise, when the map and the files differ.
UpdateMap(w) ==
  /\ rows.kb /\ rows.map \notin {NoMap, {}, rows.file}
  /\ Begins(w, "map", "lock", NoOne)
  /\ UNCHANGED <<rows, outside, ghost>>

(* --- deletion: delete_database, cleanup_database_resources --- *)

Delete(w) == rows.kb /\ Begins(w, "delete", "vectors", NoOne) /\ UNCHANGED <<rows, outside, ghost>>

DeleteFails(w) ==
  /\ procs[w].op = "delete" /\ procs[w].at \in {"vectors", "objects", "files"}
  /\ Ends(w) /\ UNCHANGED <<rows, outside, ghost>>
DropVectors(w) ==
  /\ Is(w, "delete", "vectors")
  /\ outside' = [outside EXCEPT !.vectors = {}]
  /\ Goes(w, "objects") /\ UNCHANGED <<rows, ghost>>
DropObjects(w) ==
  /\ Is(w, "delete", "objects")
  /\ outside' = [outside EXCEPT !.objects = {}]
  /\ Goes(w, "files") /\ UNCHANGED <<rows, ghost>>
DropFiles(w) ==
  /\ Is(w, "delete", "files")
  /\ rows' = [rows EXCEPT !.file = {}]
  /\ ghost' = [ghost EXCEPT !.unpruned = @ \cup rows.file, !.old = TRUE]
  /\ Goes(w, "lock") /\ UNCHANGED outside

Next ==
  \/ LockExpires \/ CacheTimesOut
  \/ \E w \in Workers :
       \/ LockFails(w) \/ Read(w) \/ LockToRead(w) \/ GetRow(w) \/ Fill(w)
       \/ Release(w) \/ Create(w) \/ CacheNew(w) \/ Update(w) \/ MergeOptions(w)
       \/ LockToWrite(w) \/ Uncache(w) \/ Write(w)
       \/ AddFile(w) \/ IndexFile(w) \/ StoreVectors(w) \/ DeleteFile(w) \/ LockToRefresh(w) \/ RefreshStats(w)
       \/ Prune(w) \/ DrawMap(w) \/ UpdateMap(w)
       \/ Delete(w) \/ DeleteFails(w) \/ DropVectors(w) \/ DropObjects(w) \/ DropFiles(w)

Spec == Init /\ [][Next]_vars

-----------------------------------------------------------------------------

\* What Redis has cached is the configuration in the row, unless a lock ran
\* out under its holder or the row changed before its creator cached it.
CacheFresh ==
  outside.cache # {} =>
    \/ ghost.expired \/ ghost.early
    \/ outside.cache = {Config} /\ rows.kb
    \/ \E w \in Workers : procs[w].op = "create"

\* No option is lost, whoever merged at the same time; no setting, unless two
\* updates overlapped.
NoOptionLost ==
  rows.kb => /\ ghost.options \subseteq rows.options
             /\ ghost.params \subseteq rows.params \/ ghost.stale

\* At rest the statistics count the files, unless the last refresh failed or
\* an update wrote older ones back.
StatsSettle ==
  rows.kb /\ Quiet =>
    rows.stats = Cardinality(rows.file) \/ ghost.old

\* At rest the mind map tracks files that are there, except those deleted in
\* a folder or against another write of the map.
MapPruned ==
  rows.kb /\ Quiet /\ rows.map # NoMap =>
    rows.map \ rows.file \subseteq ghost.unpruned

\* Vectors, objects and files are never left without the row a repeated
\* deletion starts from, unless files were added under the deletion.
NothingUnreachable ==
  ~rows.kb /\ ~ghost.late =>
    outside.vectors = {} /\ outside.objects = {} /\ rows.file = {}
=============================================================================
