---------------------------- MODULE ModelProviders ----------------------------
(***************************************************************************)
(* Providers of models: models/providers/service.py, repository.py and     *)
(* cache.py, and server/routers/model_provider_router.py.  Rows are in     *)
(* PostgreSQL; every request that changes one lists all of them and writes *)
(* them to Redis, from where processes take them for some seconds.         *)
(***************************************************************************)
EXTENDS Naturals, FiniteSets

CONSTANTS Workers,    \* processes; each takes one request at a time
          Providers,
          Builtin,    \* the providers the code comes with
          Changes,    \* what a request changes: a record of columns
          Ops         \* "create", "update", "delete", "refresh", "restart"

VARIABLES
  rows,     \* the providers
  procs,    \* requests; the local caches of processes
  outside,  \* Redis: what was written last
  ghost     \* raced: providers updated by overlapping requests; narrowed:
            \*   those whose capabilities were written without their models;
            \*   late: the last writer of Redis had listed the rows before
            \*   another; lost: it failed; last: who wrote Redis last

vars == <<rows, procs, outside, ghost>>

\* type: provider_type; caps: capabilities; models: enabled_models, the types
\* of models in it and whether a chat model has request_body_overrides.
NoRow == [there |-> FALSE, on |-> FALSE, type |-> "openai", caps |-> {},
          models |-> [kinds |-> {}, over |-> FALSE]]
NewRow == [NoRow EXCEPT !.there = TRUE, !.on = TRUE, !.caps = {"chat"},
                        !.models.kinds = {"chat"}]
Empty == [p \in Providers |-> NoRow]
Idle == [pc |-> "idle", op |-> "none", p |-> CHOOSE p \in Providers : TRUE,
         with |-> CHOOSE c \in Changes : TRUE, row |-> NoRow, seen |-> Empty,
         over |-> FALSE]

\* ModelCache.rebuild: the enabled providers.
Image(r) == [p \in Providers |-> IF r[p].on THEN r[p] ELSE NoRow]

Init ==
  /\ rows = [p \in Providers |-> IF p \in Builtin THEN NewRow ELSE NoRow]
  /\ procs = [at |-> [w \in Workers |-> Idle],
              local |-> [q \in Workers |-> [has |-> FALSE, val |-> Empty]]]
  /\ outside = Image(rows)
  /\ ghost = [raced |-> {}, narrowed |-> {}, late |-> FALSE,
              lost |-> FALSE, last |-> {}]

At(w) == procs.at[w]
Becomes(w, e) == procs' = [procs EXCEPT !.at[w] = e]

\* The columns of a request, over a row.
Merged(row, c) ==
  [f \in DOMAIN row |-> IF f \in DOMAIN c THEN c[f] ELSE row[f]]

\* update_model_provider: the columns that differ from the row as it was
\* read are written over the row as it is.
Written(row, read, c) ==
  Merged(row, [f \in {g \in DOMAIN c : c[g] # read[g]} |-> c[f]])

\* _validate_models_capabilities, if models are among what is written.
ModelsFit(row, c) ==
  "models" \in DOMAIN c /\ Merged(row, c).caps # {} =>
    c.models.kinds \subseteq Merged(row, c).caps

\* _validate_request_body_overrides_scope, if models or the type are.
ScopeFits(row, c) ==
  {"models", "type"} \cap DOMAIN c # {} =>
    (Merged(row, c).models.over => Merged(row, c).type = "openai")

\* What a request reads decides whether it is refused.
Request(w, op, p, c) ==
  /\ op \in Ops /\ At(w).pc = "idle"
  /\ CASE op = "create" -> ~rows[p].there /\ ScopeFits(NewRow, c)
                             /\ ModelsFit(NewRow, c)
       [] op = "update" -> rows[p].there /\ ModelsFit(rows[p], c)
                             /\ ScopeFits(rows[p], c)
       [] op = "delete" -> rows[p].there
       [] op = "refresh" -> TRUE
  /\ Becomes(w, [Idle EXCEPT !.op = op, !.p = p, !.with = c, !.row = rows[p],
                   !.pc = IF op = "refresh" THEN "list" ELSE "commit"])
  /\ UNCHANGED <<rows, outside, ghost>>

\* The row and the ghosts, once the columns of w are written.
WriteRow(w, p, row) ==
  /\ rows' = [rows EXCEPT ![p] = row]
  /\ ghost' = [ghost EXCEPT
       !.raced = IF At(w).op # "update" THEN @ \ {p}
                 ELSE IF rows[p] = At(w).row THEN @ ELSE @ \cup {p},
       !.narrowed = IF At(w).op # "update" THEN @ \ {p}
                    ELSE IF "caps" \in DOMAIN At(w).with
                         /\ "models" \notin DOMAIN At(w).with
                    THEN @ \cup {p} ELSE @]

\* An identifier is unique, and an update of a row that is gone fails; its
\* deletion finds nothing to delete.
Commit(w) ==
  /\ At(w).pc = "commit"
  /\ LET p == At(w).p
         listing == [Idle EXCEPT !.pc = "list"]
     IN \/ /\ At(w).op = "create" /\ ~rows[p].there
           /\ WriteRow(w, p, Merged(NewRow, At(w).with))
           /\ Becomes(w, listing)
        \/ /\ At(w).op = "update" /\ At(w).row.there
           /\ WriteRow(w, p, Written(rows[p], At(w).row, At(w).with))
           /\ Becomes(w, listing)
        \/ /\ At(w).op = "delete" /\ At(w).row.there
           /\ WriteRow(w, p, NoRow)
           /\ procs' = [procs EXCEPT !.at = [o \in Workers |->
                IF o = w THEN listing
                ELSE IF At(o).pc = "commit" /\ At(o).p = p
                THEN [At(o) EXCEPT !.row = NoRow] ELSE At(o)]]
        \/ /\ IF At(w).op = "create" THEN rows[p].there ELSE ~At(w).row.there
           /\ Becomes(w, IF At(w).op = "delete" THEN listing ELSE Idle)
           /\ UNCHANGED <<rows, ghost>>
  /\ UNCHANGED outside

\* _refresh_model_cache: all rows are listed ...
List(w) ==
  /\ At(w).pc = "list"
  /\ procs' = [procs EXCEPT !.at = [o \in Workers |->
       IF o = w THEN [At(w) EXCEPT !.pc = "save", !.seen = Image(rows)]
       ELSE [At(o) EXCEPT !.over = At(o).pc = "save"]]]
  /\ UNCHANGED <<rows, outside, ghost>>

\* The process of the request forgets its local copy.
ForgetLocal(w) == [procs.local EXCEPT ![w] = [has |-> FALSE, val |-> Empty]]

\* ... and written to Redis; an error is only logged.
Save(w) ==
  /\ At(w).pc = "save"
  /\ \/ /\ outside' = At(w).seen
        /\ ghost' = [ghost EXCEPT !.late = At(w).over, !.lost = FALSE,
                                  !.last = {w}]
     \/ /\ ghost' = [ghost EXCEPT !.lost = @ \/ ~At(w).over]
        /\ UNCHANGED outside
  /\ procs' = [at |-> [procs.at EXCEPT ![w] = Idle], local |-> ForgetLocal(w)]
  /\ UNCHANGED rows

\* ensure_builtin_model_providers_in_db and the first rebuild: what is
\* missing is added, what was edited is kept, but for an empty list of
\* models.
Restart(w) ==
  /\ "restart" \in Ops /\ At(w).pc = "idle"
  /\ rows' = [p \in Providers |->
       IF p \notin Builtin THEN rows[p]
       ELSE IF ~rows[p].there THEN [NewRow EXCEPT !.on = FALSE]
       ELSE IF rows[p].models.kinds = {} THEN [rows[p] EXCEPT
                   !.models = NewRow.models, !.caps = NewRow.caps]
       ELSE rows[p]]
  /\ procs' = [at |-> [procs.at EXCEPT ![w] = [Idle EXCEPT !.pc = "list"]],
               local |-> ForgetLocal(w)]
  /\ UNCHANGED <<outside, ghost>>

\* _load_cache: the local copy, or Redis; nothing, for once, if Redis fails.
Use(q) ==
  /\ ~procs.local[q].has
  /\ procs' = [procs EXCEPT !.local[q] = [has |-> TRUE, val |-> outside]]
  /\ UNCHANGED <<rows, outside, ghost>>

\* _CACHE_TTL_SECONDS.
LocalRunsOut(q) ==
  /\ procs.local[q].has
  /\ procs' = [procs EXCEPT !.local[q] = [has |-> FALSE, val |-> Empty]]
  /\ UNCHANGED <<rows, outside, ghost>>

Next ==
  \/ \E w \in Workers :
       \/ \E op \in Ops \ {"restart"}, p \in Providers, c \in Changes : Request(w, op, p, c)
       \/ Commit(w) \/ List(w) \/ Save(w) \/ Restart(w)
  \/ \E q \in Workers : Use(q) \/ LocalRunsOut(q)

Spec == Init /\ [][Next]_vars

-----------------------------------------------------------------------------
(* What holds of models.                                                   *)

\* When nobody is at work, what processes are given are the rows, unless the
\* last to write Redis could not, or was overtaken by another that had
\* listed them later.
RedisSettles ==
  (\A w \in Workers : At(w).pc = "idle") /\ ~ghost.late /\ ~ghost.lost =>
    outside = Image(rows)

\* The process that wrote Redis last does not go on with models it had
\* taken before.
OwnChangesSeen ==
  \A w \in ghost.last : procs.local[w].has => procs.local[w].val = outside

\* Overrides of the request body are never sent to a provider that does not
\* understand them, unless two updates of it overlapped.
ScopeHolds ==
  \A p \in Providers \ ghost.raced :
    rows[p].models.over => rows[p].type = "openai"

\* The types of its models are within the capabilities of a provider that
\* names any, unless two updates overlapped or the capabilities were written
\* alone, which is not checked.
KindsFit ==
  \A p \in Providers \ (ghost.raced \cup ghost.narrowed) :
    rows[p].caps # {} => rows[p].models.kinds \subseteq rows[p].caps

=============================================================================
