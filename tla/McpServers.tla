------------------------------ MODULE McpServers ------------------------------
(***************************************************************************)
(* A server of tools (MCP): agents/mcp/service.py and the routes in        *)
(* server/routers/mcp_router.py.  The row in PostgreSQL decides; what a    *)
(* server offers is cached in each process under its slug and the hash of  *)
(* the configuration, and is never told of changes made elsewhere.         *)
(***************************************************************************)
EXTENDS Naturals, FiniteSets

CONSTANTS Workers,   \* requests and runs of agents
          Host,      \* Host[w]: the process w runs in
          Confs,     \* connection settings (url, headers, timeouts)
          CodeConf,  \* the settings BUILTIN_MCP_SERVERS has for the slug
          Kind,      \* "custom", "builtin" or "retired": what the slug is
          Tools,
          First,     \* the row at the first start
          Ops        \* what administrators do; "change": the server changes

VARIABLES
  rows,     \* the row of the server
  procs,    \* the caches of the processes; requests and runs
  outside,  \* the tools the server offers under each configuration
  ghost     \* offered: tools ever offered; off: the tools administrators
            \*   have switched off; raced: two of them overlapped; up:
            \*   processes that have started; clean: one of them saw to
            \*   the built-in servers

vars == <<rows, procs, outside, ghost>>

\* remote: transport is sse or streamable_http; on: enabled; off:
\* disabled_tools.
NoRow == [there |-> FALSE, conf |-> CodeConf, remote |-> TRUE, on |-> FALSE,
          off |-> {}]
Idle == [pc |-> "idle", op |-> "none", conf |-> CodeConf, tool |-> "none",
         row |-> NoRow, got |-> {}]

Processes == {Host[w] : w \in Workers}

Init ==
  /\ rows = First
  /\ procs = [cache |-> [p \in Processes |-> {}],
              at |-> [w \in Workers |-> Idle]]
  /\ outside \in [Confs -> {Tools, {}}]
  /\ ghost = [offered |-> outside, off |-> First.off, raced |-> FALSE,
              up |-> {}, clean |-> FALSE]

At(w) == procs.at[w]
Becomes(w, e) == procs' = [procs EXCEPT !.at[w] = e]
Up(w) == Host[w] \in ghost.up

\* ensure_builtin_mcp_servers_in_db, at the start of a process, in one
\* transaction: old transports are switched off, retired servers removed,
\* built-in ones added or set back to the code's settings.
Ensured(row) ==
  IF Kind = "retired" THEN NoRow
  ELSE IF Kind = "builtin"
    THEN IF row.there THEN [row EXCEPT !.conf = CodeConf, !.remote = TRUE,
                                       !.on = @ /\ row.remote]
         ELSE [NoRow EXCEPT !.there = TRUE]
  ELSE [row EXCEPT !.on = @ /\ row.remote]

\* Its failure is logged and the process starts.
StartProcess(p) ==
  /\ \/ /\ rows' = Ensured(rows)
        /\ ghost' = [ghost EXCEPT !.up = @ \cup {p}, !.clean = TRUE]
     \/ /\ ghost' = [ghost EXCEPT !.up = @ \cup {p}]
        /\ UNCHANGED rows
  /\ procs' = [cache |-> [procs.cache EXCEPT ![p] = {}],
               at |-> [w \in Workers |-> IF Host[w] = p THEN Idle ELSE At(w)]]
  /\ UNCHANGED outside

\* The server changes what it offers.
ServerChanges(c, T) ==
  /\ "change" \in Ops
  /\ outside' = [outside EXCEPT ![c] = T]
  /\ ghost' = [ghost EXCEPT !.offered[c] = @ \cup T]
  /\ UNCHANGED <<rows, procs>>

-----------------------------------------------------------------------------
(* Administrators.                                                         *)

\* What the service refuses when it has read the row.
Allowed(op) ==
  CASE op = "create" -> Kind = "custom" /\ ~rows.there
    [] op \in {"update", "delete"} -> rows.there /\ Kind # "builtin"
    [] op = "enable" -> rows.there /\ rows.remote
    [] op \in {"disable", "toggle"} -> rows.there

Request(w, op, c, t) ==
  /\ op \in Ops /\ Up(w) /\ At(w).pc = "idle" /\ Allowed(op)
  /\ Becomes(w, [Idle EXCEPT !.pc = "commit", !.op = op, !.conf = c,
                             !.tool = t, !.row = rows])
  /\ UNCHANGED <<rows, outside, ghost>>

Toggled(off, t) == IF t \in off THEN off \ {t} ELSE off \cup {t}

\* The columns a request writes; a toggle writes the list it has read.
Written(e) ==
  CASE e.op = "create" -> [NoRow EXCEPT !.there = TRUE, !.conf = e.conf,
                                        !.on = TRUE]
    [] e.op = "update" -> [rows EXCEPT !.conf = e.conf, !.remote = TRUE]
    [] e.op = "delete" -> NoRow
    [] e.op = "enable" -> [rows EXCEPT !.on = TRUE]
    [] e.op = "disable" -> [rows EXCEPT !.on = FALSE]
    [] e.op = "toggle" -> [rows EXCEPT !.off = Toggled(e.row.off, e.tool)]

\* The others who have read the row when w removes it.
Orphaned(w) == {o \in Workers \ {w} : At(o).pc = "commit" /\ At(w).op = "delete"}

\* The commit fails if the row came or went since it was read.
Commit(w) ==
  /\ At(w).pc \in {"commit", "orphan"}
  /\ IF At(w).pc = "commit" /\ rows.there = At(w).row.there
       THEN /\ rows' = Written(At(w))
            /\ procs' = [procs EXCEPT !.at = [o \in Workers |->
                 IF o = w THEN [At(w) EXCEPT !.pc = "clear"]
                 ELSE IF o \in Orphaned(w) THEN [At(o) EXCEPT !.pc = "orphan"]
                 ELSE At(o)]]
            /\ ghost' = [ghost EXCEPT
                 !.off = IF At(w).op = "toggle" THEN Toggled(@, At(w).tool)
                         ELSE IF At(w).op \in {"create", "delete"} THEN {}
                         ELSE @,
                 !.raced = IF At(w).op = "toggle"
                             THEN @ \/ At(w).row.off # rows.off
                             ELSE @ /\ At(w).op \notin {"create", "delete"}]
       ELSE UNCHANGED <<rows, ghost>> /\ Becomes(w, Idle)
  /\ UNCHANGED outside

\* clear_mcp_server_tools_cache, in the process of the request.
Clear(w) ==
  /\ At(w).pc = "clear"
  /\ procs' = [cache |-> [procs.cache EXCEPT ![Host[w]] = {}],
               at |-> [procs.at EXCEPT ![w] = Idle]]
  /\ UNCHANGED <<rows, outside, ghost>>

-----------------------------------------------------------------------------
(* Agents: get_enabled_mcp_tools.                                          *)

\* _to_runtime_mcp_config.
Runtime(row) == IF Kind = "builtin" THEN CodeConf ELSE row.conf

\* The configuration of an enabled server is read.
Load(w) ==
  /\ Up(w) /\ At(w).pc = "idle"
  /\ rows.there /\ rows.on /\ rows.remote
  /\ Becomes(w, [Idle EXCEPT !.pc = "look", !.op = "load", !.row = rows,
                             !.conf = Runtime(rows)])
  /\ UNCHANGED <<rows, outside, ghost>>

\* cache_key: the hash of the configuration, disabled tools and all.
Key(e) == [conf |-> e.conf, off |-> e.row.off]

\* Tools found in the cache are used; none, and the server is asked.
LookUp(w) ==
  /\ At(w).pc = "look"
  /\ LET hits == {e \in procs.cache[Host[w]] : e.key = Key(At(w))}
     IN \/ /\ \A e \in hits : e.tools = {}
           /\ Becomes(w, [At(w) EXCEPT !.pc = "ask"])
        \/ \E e \in hits :
             /\ e.tools # {}
             /\ Becomes(w, [At(w) EXCEPT !.pc = "given",
                                         !.got = e.tools \ At(w).row.off])
  /\ UNCHANGED <<rows, outside, ghost>>

\* The server answers, or does not: then the agent has no tools of it.
Ask(w) ==
  /\ At(w).pc = "ask"
  /\ \/ Becomes(w, [At(w) EXCEPT !.pc = "store", !.got = outside[At(w).conf]])
     \/ Becomes(w, [At(w) EXCEPT !.pc = "given", !.got = {}])
  /\ UNCHANGED <<rows, outside, ghost>>

\* What the server offers is cached and the entries of other configurations
\* go, under the lock; the disabled tools are left out of the answer.
Store(w) ==
  /\ At(w).pc = "store"
  /\ procs' = [cache |-> [procs.cache EXCEPT ![Host[w]] =
                            {[key |-> Key(At(w)), tools |-> At(w).got]}],
               at |-> [procs.at EXCEPT ![w] =
                 [At(w) EXCEPT !.pc = "given", !.got = @ \ At(w).row.off]]]
  /\ UNCHANGED <<rows, outside, ghost>>

EndRun(w) == /\ At(w).pc = "given"
             /\ Becomes(w, Idle)
             /\ UNCHANGED <<rows, outside, ghost>>

Next ==
  \/ \E p \in Processes : StartProcess(p)
  \/ \E c \in Confs, T \in SUBSET Tools : ServerChanges(c, T)
  \/ \E w \in Workers :
       \/ \E op \in Ops \ {"change"}, c \in Confs, t \in Tools : Request(w, op, c, t)
       \/ Commit(w) \/ Clear(w)
       \/ Load(w) \/ LookUp(w) \/ Ask(w) \/ Store(w) \/ EndRun(w)

Spec == Init /\ [][Next]_vars

-----------------------------------------------------------------------------
(* What holds of tools.                                                    *)

\* An agent is given tools of the configuration it read and none that was
\* disabled then, whatever was fetched, stored and cleared in its process in
\* between.
GivenIsAllowed ==
  \A w \in Workers : At(w).pc = "given" =>
    /\ At(w).got \cap At(w).row.off = {}
    /\ At(w).got \subseteq ghost.offered[At(w).conf]

\* What is cached under a configuration was offered under it, and a process
\* keeps one configuration of a server.
CacheKeyed ==
  \A p \in Processes :
    /\ Cardinality(procs.cache[p]) <= 1
    /\ \A e \in procs.cache[p] : e.tools \subseteq ghost.offered[e.key.conf]

\* Once a process has seen to it, no server with a transport of its own machine
\* is enabled, a built-in server is there with the code's settings, and a
\* retired one is not.
StartedClean ==
  ghost.clean =>
    /\ rows.there /\ rows.on => rows.remote
    /\ Kind = "builtin" => rows.there /\ rows.conf = CodeConf
    /\ Kind = "retired" => ~rows.there

\* A tool stays off until somebody switches it on, unless two switches
\* overlap: each writes the list it has read.
TogglesKept == ~ghost.raced => rows.off = ghost.off

=============================================================================
