--------------------------- MODULE SchemaMigration ---------------------------
(***************************************************************************)
(* The storage migrator, which brings the database and the files of an     *)
(* older release to the current one under an advisory lock, and the        *)
(* servers and workers, which start only on the current schema.  Every     *)
(* group of statements is a transaction of its own, so the migrator may    *)
(* die between any two and is then run again from what it finds.           *)
(* A schema is the set of the parts its statements have brought about.     *)
(***************************************************************************)
EXTENDS Naturals, Sequences, FiniteSets

CONSTANTS Migrators, Servers, NoOne

VARIABLES
  rows,     \* schema, recorded versions and the rows that are converted
  procs,    \* per migrator: what it still has to do; per server: up or not
  outside,  \* legacy files, workdirs, the proof of quiescence
  ghost     \* what went wrong: a refused statement, a run killed in use;
            \* workdirs that were changed in use

vars == <<rows, procs, outside, ghost>>

Current == [business |-> 7, knowledge |-> 2, yuanlei |-> 12]
Unrecorded == [business |-> 0, knowledge |-> 0, yuanlei |-> 0]
Spaces == {"uploads", "outputs"}

-----------------------------------------------------------------------------
(* Groups of statements, as the parts of a schema they add.                *)

\* Business: ensure_business_schema, in the order of its list.
SharedSkills == {"skills v2"}
UserTables == {"agent_envs", "user_config", "agents", "agents v2"}
ApiKeys == {"api_keys bound"}
Schedules == {"scheduled_agent_jobs", "scheduled_agent_runs"}
Options == {"config_options", "model_providers"}
Subagents == {"subagent_threads"}
Workdirs == {"projects", "conversations bound"}
RunLease == {"agent_runs lease"}
RunAudit == {"messages audit"}
RunFacts == {"agent_run_attempts", "agent_runs manifest", "agent_runs timing"}
RunOrigins == {"agent_runs slug", "agent_runs origin"}
SubagentOrigins == {"subagent_threads slug"}
RunScope == {"agent_runs scope", "agent_runs shape"}
OneActiveRun == {"agent_runs one active"}
RunRequests == {"agent_run_requests"}
DurableTasks == {"tasks durable"}
Business ==
  SharedSkills \cup UserTables \cup ApiKeys \cup Schedules \cup Options
  \cup Subagents \cup Workdirs \cup RunLease \cup RunAudit \cup RunFacts
  \cup RunOrigins \cup SubagentOrigins \cup RunScope \cup OneActiveRun
  \cup RunRequests \cup DurableTasks

\* Yuanlei, from version to version.
GitTables == {"git", "git policies"}
GitPolicies == {"git policies"}
ProjectAgents == {"project_agents"}
Sandboxes == {"agent_sandboxes", "agent_sandbox_events"}
Credentials == {"coding_credentials", "coding_credentials references"}
References == {"coding_credentials references"}
Sessions == {"coding_sessions"}
RunScopes == {"agent_run_scopes"}
Documents == {"project_documents", "project_dashboards"}
Governance == {"governance"}
Delegations == {"channel_delegations", "channel_sync_cursors"}
Discussion == {"governance_topic_comments"}
Yuanlei ==
  GitTables \cup ProjectAgents \cup Sandboxes \cup Credentials \cup Sessions
  \cup RunScopes \cup Documents \cup Governance \cup Discussion
  \cup Delegations

\* Knowledge.
KnowledgeColumns == {"knowledge_bases v2", "knowledge_files"}
FileOwner == {"knowledge_files owner"}
EvaluationTables == {"evaluation"}
ChunkTable == {"knowledge_chunks"}
GraphTables == {"knowledge_graph"}
KnowledgeIndexes == {"knowledge indexes"}
Knowledge ==
  KnowledgeColumns \cup FileOwner \cup EvaluationTables \cup ChunkTable
  \cup GraphTables \cup KnowledgeIndexes

\* upgrade_yuanlei_schema_v(n-1)_to_v(n).
Upgrade == [n \in 2 .. 12 |->
  CASE n = 2 -> GitPolicies [] n = 3 -> ProjectAgents [] n = 4 -> Sandboxes
    [] n = 5 -> Credentials [] n = 6 -> Sessions [] n = 7 -> References
    [] n = 8 -> RunScopes [] n = 9 -> Documents [] n = 10 -> Governance
    [] n = 11 -> Delegations [] n = 12 -> Discussion]

Complete(d) ==
  CASE d = "business" -> {"business tables", "checkpoints", "scope width"}
                         \cup Business
    [] d = "knowledge" -> {"knowledge tables"} \cup Knowledge
    [] d = "yuanlei" -> Yuanlei

\* What a group of statements takes for granted; without it the transaction
\* is refused (a missing table, an unbound conversation, a null).
Needs(step) ==
  CASE step = "yuanlei" -> {"projects", "agents"}
    [] step = "business" -> {"business tables", "projects bound"}
    [] step = "y2" -> {"git"}
    [] step = "y7" -> {"coding_credentials"}
    [] step = "y12" -> {"governance"}
    [] step = "knowledge" -> {"knowledge tables"}
    [] step = "owner" -> {"knowledge_files"}
    [] OTHER -> {}

-----------------------------------------------------------------------------

\* What yuanlei version n has added to version 1; the references of the
\* credentials are of version 7.
AtVersion(n) ==
  ({"git"} \cup UNION {Upgrade[k] : k \in 2 .. n})
    \ (IF n < 7 THEN References ELSE {})

YuanleiRelease ==
  <<"yuanlei 1", "yuanlei 2", "yuanlei 3", "yuanlei 4", "yuanlei 5",
    "yuanlei 6", "yuanlei 7", "yuanlei 8", "yuanlei 9", "yuanlei 10",
    "yuanlei 11">>

Releases == {"new", "0.7.1", "business 2"}
            \cup {YuanleiRelease[n] : n \in 1 .. 11}

\* Databases that releases have left: parts, versions, conversations that
\* are not bound to a project, share configurations wrapped so many times,
\* an API key without a user, two active runs of one thread.
OfRelease(r) ==
  CASE r = "new" -> [has |-> {}, ver |-> Unrecorded]
    [] r = "0.7.1" -> [has |-> {"business tables", "checkpoints",
                                "knowledge tables"}, ver |-> Unrecorded]
    [] r = "business 2" ->
         [has |-> {"business tables", "checkpoints", "projects bound",
                   "knowledge tables"} \cup (Knowledge \ FileOwner),
          ver |-> [business |-> 2, knowledge |-> 1, yuanlei |-> 0]]
    [] OTHER ->
         LET n == CHOOSE n \in 1 .. 11 : YuanleiRelease[n] = r
         IN [has |-> Complete("business") \cup Complete("knowledge")
                     \cup {"projects bound"} \cup AtVersion(n),
             ver |-> [business |-> 7, knowledge |-> 2, yuanlei |-> n]]

Old(r) == r \in {"0.7.1", "business 2"}
Off == [pc |-> "off", todo |-> <<>>, quiet |-> FALSE]

Init ==
  \E r \in Releases :
    /\ rows = [has |-> OfRelease(r).has, ver |-> OfRelease(r).ver,
               wrapped |-> IF Old(r) THEN 0 ELSE 1, unbound |-> Old(r),
               runs |-> IF Old(r) THEN {"older", "newer"} ELSE {"newer"},
               lock |-> NoOne]
    /\ procs = [p \in Migrators \cup Servers |-> Off]
    /\ outside = [legacy |-> IF r = "0.7.1" THEN Spaces ELSE {},
                  work |-> [s \in Spaces |-> "none"],
                  config |-> r = "0.7.1", skills |-> r = "0.7.1",
                  owner |-> r = "new", proof |-> FALSE]
    /\ ghost = [refused |-> FALSE, killed |-> FALSE,
                files |-> r = "0.7.1", changed |-> {}]

Up == {s \in Servers : procs[s].pc = "up"}

-----------------------------------------------------------------------------
(* The operator and the servers.                                           *)

\* scripts/migrate-storage.sh stops everything before it writes the proof,
\* and takes the proof away when its migrator has returned.
Quiesce ==
  /\ ~outside.proof
  /\ procs' = [p \in DOMAIN procs |-> IF p \in Servers THEN Off ELSE procs[p]]
  /\ outside' = [outside EXCEPT !.proof = TRUE]
  /\ UNCHANGED <<rows, ghost>>

EndScript ==
  /\ outside.proof /\ rows.lock = NoOne
  /\ outside' = [outside EXCEPT !.proof = FALSE]
  /\ UNCHANGED <<rows, procs, ghost>>

\* require_current_schema.
SchemaIsCurrent == rows.ver = Current

\* API and worker start (the script does not start any while it runs).
StartServer(s) ==
  /\ procs[s].pc = "off" /\ ~outside.proof
  /\ SchemaIsCurrent
  /\ procs' = [procs EXCEPT ![s].pc = "up"]
  /\ UNCHANGED <<rows, outside, ghost>>

StopServer(s) ==
  /\ procs[s].pc = "up"
  /\ procs' = [procs EXCEPT ![s] = Off]
  /\ UNCHANGED <<rows, outside, ghost>>

\* Its users and agents: a new run, a changed file.
Serve(s) ==
  /\ procs[s].pc = "up"
  /\ \/ rows' = [rows EXCEPT !.runs = @ \cup {"newer"}]
        /\ UNCHANGED <<outside, ghost>>
     \/ \E n \in Spaces :
          /\ outside.work[n] # "none"
          /\ outside' = [outside EXCEPT !.work[n] = "changed"]
          /\ ghost' = [ghost EXCEPT !.changed = @ \cup {n}]
          /\ UNCHANGED rows
  /\ UNCHANGED procs

-----------------------------------------------------------------------------
(* The migrator.                                                           *)

\* Files of older releases, read before anything is changed: a retry finds
\* the workdirs of the conversations whose legacy files are still there.
NeedsCutover == "business tables" \in rows.has
                /\ "projects bound" \notin rows.has
MovesWorkdirs == NeedsCutover \/ outside.legacy # {}
NeedsQuiet == MovesWorkdirs \/ outside.skills \/ outside.config
              \/ ~outside.owner

\* _require_supported_version.
Supported(v) ==
  /\ v.business \in {0, 2, Current.business}
  /\ v.knowledge \in {0, 1, Current.knowledge}
  /\ v.yuanlei \in {0} \cup 1 .. Current.yuanlei

If(b, s) == IF b THEN s ELSE <<>>

\* Faulty variant: the chain of upgrades stops short.
YuanleiChainShort(v) ==
  IF v = 0 THEN <<"yuanlei", "record yuanlei">>
  ELSE IF v = Current.yuanlei THEN <<>>
  ELSE If(v = 1, <<"y2">>) \o If(v <= 2, <<"y3">>) \o If(v <= 3, <<"y4">>)
       \o If(v <= 4, <<"y5">>) \o If(v <= 5, <<"y6">>)
       \o If(v <= 10, <<"y8", "y9", "y10", "y11">>)
       \o <<"y12", "record yuanlei">>

YuanleiChain(v) ==
  IF v = 0 THEN <<"yuanlei", "record yuanlei">>
  ELSE IF v = Current.yuanlei THEN <<>>
  ELSE If(v = 1, <<"y2">>) \o If(v <= 2, <<"y3">>) \o If(v <= 3, <<"y4">>)
       \o If(v <= 4, <<"y5">>)
       \o If(v <= 10, <<"y6", "y7", "y8", "y9", "y10", "y11">>)
       \o <<"y12", "record yuanlei">>

KnowledgeChain(v) ==
  If(v = 0, <<"knowledge tables", "knowledge">>) \o If(v = 1, <<"owner">>)
  \o If(v < 2, <<"record knowledge">>)

\* main, from the versions and the plan it has read.
Plan(v, moves) ==
  If(v.business = 0, <<"business tables">>)
  \o If(moves, <<"import", "cutover">>)
  \o If(v.business \in {0, 2}, <<"business">>)
  \o If(v.business = 0, <<"checkpoints">>)
  \o If(v.business \in {0, 2}, <<"record business">>)
  \o <<"scope width">>
  \o YuanleiChain(v.yuanlei) \o KnowledgeChain(v.knowledge)
  \o <<"converge", "config">>
  \o If(moves, <<"cleanup">>) \o <<"skills", "identity">>

\* schema_migration_lock, the plan, the proof and the versions.
Begin(m) ==
  /\ procs[m].pc = "off" /\ rows.lock = NoOne
  /\ NeedsQuiet => outside.proof
  /\ Supported(rows.ver)
  /\ rows' = [rows EXCEPT !.lock = m]
  /\ procs' = [procs EXCEPT ![m] = [pc |-> "run", quiet |-> NeedsQuiet,
                 todo |-> Plan(rows.ver, MovesWorkdirs)]]
  /\ UNCHANGED <<outside, ghost>>

Step(m) == Head(procs[m].todo)
Does(m, steps) ==
  procs[m].pc = "run" /\ procs[m].todo # <<>> /\ Step(m) \in steps
Goes(m) == procs' = [procs EXCEPT ![m].todo = Tail(@)]

\* An exception ends the process; the session lock ends with it.
Ends(m) ==
  /\ procs' = [procs EXCEPT ![m] = Off]
  /\ rows' = [rows EXCEPT !.lock = NoOne]

YStep(n) == <<"y1", "y2", "y3", "y4", "y5", "y6", "y7", "y8", "y9", "y10",
              "y11", "y12">>[n]
YSteps == {YStep(n) : n \in 2 .. 12}

\* create_all makes whole tables of the current release where there are none.
AllTables ==
  {"business tables", "projects", "config_options", "model_providers",
   "agents", "agent_envs", "user_config", "subagent_threads"}
  \cup Schedules \cup RunRequests
  \cup (IF "business tables" \in rows.has THEN {}
        ELSE {"projects bound"} \cup Business)
  \cup (IF "git" \in rows.has THEN {} ELSE GitTables)
  \cup ProjectAgents \cup Sandboxes \cup Sessions \cup RunScopes
  \cup Documents \cup Governance \cup Discussion \cup Delegations
  \cup (IF "coding_credentials" \in rows.has THEN {} ELSE Credentials)

Adds(step) ==
  IF step \in YSteps
    THEN Upgrade[CHOOSE n \in 2 .. 12 : YStep(n) = step]
  ELSE CASE step = "business tables" -> AllTables
         [] step = "business" -> Business
         [] step = "yuanlei" -> Yuanlei
         [] step = "knowledge" -> Knowledge
         [] step = "owner" -> FileOwner
         [] OTHER -> {step}

SchemaSteps == {"business tables", "business", "checkpoints", "scope width",
                "yuanlei", "knowledge tables", "knowledge", "owner"}
               \cup YSteps

\* Rows are converted only where they are not of version 2 yet.
WrapOnce(n) == IF n = 0 THEN 1 ELSE n

\* The rows that ensure_business_schema converts with its statements: share
\* configurations, keys without a user, all but one active run per thread.
Converted(step) ==
  IF step = "business"
    THEN [rows EXCEPT !.has = @ \cup Adds(step), !.wrapped = WrapOnce(@),
                      !.unbound = FALSE, !.runs = @ \ {"older"}]
    ELSE [rows EXCEPT !.has = @ \cup Adds(step)]

RunStatements(m) ==
  /\ Does(m, SchemaSteps)
  /\ IF Needs(Step(m)) \subseteq rows.has
       THEN rows' = Converted(Step(m)) /\ Goes(m) /\ UNCHANGED ghost
       ELSE Ends(m) /\ ghost' = [ghost EXCEPT !.refused = TRUE]
  /\ UNCHANGED outside

Record(m) ==
  /\ Does(m, {"record business", "record yuanlei", "record knowledge"})
  /\ LET d == CASE Step(m) = "record business" -> "business"
                [] Step(m) = "record yuanlei" -> "yuanlei"
                [] OTHER -> "knowledge"
     IN rows' = [rows EXCEPT !.ver[d] = Current[d]]
  /\ Goes(m)
  /\ UNCHANGED <<outside, ghost>>

\* import_v071_workdirs: a staging directory is merged and put in place as a
\* whole; a target that differs from it is a conflict.
Merges(n) == n \notin outside.legacy \/ outside.work[n] # "changed"
Staged(n) == IF n \in outside.legacy THEN "copied" ELSE outside.work[n]

ImportWorkdirs(m) ==
  /\ Does(m, {"import"})
  /\ LET there == \E n \in Spaces : outside.work[n] # "none"
     IN IF /\ \A n \in Spaces : Merges(n)
           /\ there => \A n \in Spaces : Staged(n) = outside.work[n]
          THEN /\ outside' = [outside EXCEPT
                    !.work = [n \in Spaces |-> Staged(n)]]
               /\ Goes(m) /\ UNCHANGED rows
          ELSE Ends(m) /\ UNCHANGED outside
  /\ UNCHANGED ghost

\* The statements, the rewritten paths and the check of the directories
\* commit together.
Cutover(m) ==
  /\ Does(m, {"cutover"})
  /\ rows' = [rows EXCEPT !.has = @ \cup {"projects", "projects bound"}]
  /\ Goes(m)
  /\ UNCHANGED <<outside, ghost>>

\* _converge_database_state: runs are failed only when the old runtime was
\* proved to be gone.
Converge(m) ==
  /\ Does(m, {"converge"})
  /\ rows' = [rows EXCEPT !.runs = IF procs[m].quiet THEN {} ELSE @]
  /\ ghost' = [ghost EXCEPT !.killed = @ \/ (procs[m].quiet /\ Up # {})]
  /\ Goes(m)
  /\ UNCHANGED outside

RemoveConfig(m) ==
  /\ Does(m, {"config"})
  /\ outside' = [outside EXCEPT !.config = FALSE]
  /\ Goes(m)
  /\ UNCHANGED <<rows, ghost>>

\* cleanup_v071_thread_sources, directory by directory.
CleanupSource(m, n) ==
  /\ Does(m, {"cleanup"}) /\ n \in outside.legacy
  /\ outside' = [outside EXCEPT !.legacy = @ \ {n}]
  /\ UNCHANGED <<rows, procs, ghost>>

CleanedUp(m) ==
  /\ Does(m, {"cleanup"}) /\ outside.legacy = {}
  /\ Goes(m)
  /\ UNCHANGED <<rows, outside, ghost>>

\* migrate_shared_skills with its marker, migrate_runtime_storage_identity.
MigrateSkills(m) ==
  /\ Does(m, {"skills"})
  /\ outside' = [outside EXCEPT !.skills = FALSE]
  /\ Goes(m)
  /\ UNCHANGED <<rows, ghost>>

MigrateIdentity(m) ==
  /\ Does(m, {"identity"})
  /\ outside' = [outside EXCEPT !.owner = TRUE]
  /\ Goes(m)
  /\ UNCHANGED <<rows, ghost>>

Finish(m) ==
  /\ procs[m].pc = "run" /\ procs[m].todo = <<>>
  /\ Ends(m)
  /\ UNCHANGED <<outside, ghost>>

Crash(m) ==
  /\ procs[m].pc = "run"
  /\ Ends(m)
  /\ UNCHANGED <<outside, ghost>>

Next ==
  \/ Quiesce \/ EndScript
  \/ \E s \in Servers : StartServer(s) \/ StopServer(s) \/ Serve(s)
  \/ \E m \in Migrators :
       \/ Begin(m) \/ RunStatements(m) \/ Record(m) \/ ImportWorkdirs(m)
       \/ Cutover(m) \/ Converge(m) \/ RemoveConfig(m) \/ CleanedUp(m)
       \/ (\E n \in Spaces : CleanupSource(m, n))
       \/ MigrateSkills(m) \/ MigrateIdentity(m) \/ Finish(m) \/ Crash(m)

Spec == Init /\ [][Next]_vars

-----------------------------------------------------------------------------

\* A recorded version is true: every part of the current schema of the domain
\* is there and its rows are converted, from whichever release the database
\* came and wherever earlier migrators have died.
VersionsAreTrue ==
  /\ \A d \in DOMAIN Current : rows.ver[d] = Current[d] =>
       Complete(d) \ {"scope width"} \subseteq rows.has
  /\ rows.ver.business = Current.business =>
       rows.wrapped = 1 /\ ~rows.unbound /\ "older" \notin rows.runs

\* No transaction of the migrator is refused: every supported release can be
\* brought to the current schema.
NothingRefused == ~ghost.refused

\* A server that is up has the whole schema under it.
ServersHaveSchema ==
  Up # {} => \A d \in DOMAIN Current : Complete(d) \subseteq rows.has

\* Legacy files are always somewhere: at their old place, or in the workdir;
\* and what users have changed in a workdir is there for good: a migrator
\* that is run again over the legacy files that were left does not put them
\* back over it.
FilesKept ==
  /\ ghost.files =>
       \A n \in Spaces : n \in outside.legacy \/ outside.work[n] # "none"
  /\ \A n \in ghost.changed : outside.work[n] = "changed"

\* No run is failed under a server that executes it.
RunsSpared == ~ghost.killed

=============================================================================
