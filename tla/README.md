# Verification of the Yuanlei backend

TLA+ models of Yuanlei (Yuxi).  The core is the part that executes
conversations: the AgentRun with its lease, attempts and runtime cleanup, and
the request queue in front of it.  Around it are the components that keep
shared state of their own: durable tasks, knowledge bases, sandboxes, coding
sessions, threads, Git, skills, schedules, delegations, governance, identity and
the storage migration.  The models are checked by TLC on small instances, and
the core is in part proved by TLAPS for any instance.  Source paths below are
relative to `src/backend/package/yuxi/` unless they begin with `src/`.

## The system

A conversation is a thread.  The API writes requests and runs into PostgreSQL,
enqueues jobs in Redis (ARQ), and worker processes execute them; each worker
process also runs a reconciler.  PostgreSQL is the only authority.  Redis jobs,
cancel signals and events are hints that may be lost or repeated.

| Part | State | Operations | Hard because |
| --- | --- | --- | --- |
| AgentRun rows (`repositories/agent_run_repository.py`) | status, run_type, created_by_run_id, worker_id, lease, started_at, runtime_cleanup_pending, output; attempts | create, claim, renew, release for retry, end, cancel a tree, reconcile | every writer holds the row for one transaction only; old owners come back |
| Worker (`services/run_worker.py`) | position in `process_agent_run`, owner token, job try | claim, stream, save output, end, retry, react to cancellation, clean up, dispatch the next request | dies or is suspended between any two transactions; the same job may run twice |
| Runtime cleanup (`_release_runtime_if_idle`) | the fence `runtime_cleanup_pending` | check, delete the sandbox outside of the database, check again and lift | the deletion is slow, may fail or time out, and has two callers |
| Reconciler (`_reconcile_agent_run_leases_forever`) | snapshots of fenced rows | fail lost runs, retry cleanups, enqueue pending runs | works from stale snapshots, next to live workers |
| Resume and subagent runs (`services/agent_run_service.py`, `services/subagent_run_service.py`) | created_by_run_id | answer an interrupted run; start a child that shares the parent's end | parents end while children start |
| Request queue (`services/agent_request_service.py`, `services/agent_request_queue_service.py`, `repositories/agent_run_request_repository.py`) | requests with status, policy, created_at, dispatched_run_id | submit (enqueue, steer, reject), promote, cancel, continue, dispatch, recover | four callers dispatch; workers do not take the conversation lock |
| ARQ (library) | one job per run id, its tries | enqueue, start, retry, drop | at-least-once, `max_tries = 2` |
| Durable tasks (`services/task_service.py`, `services/task_queue_service.py`, `repositories/task_repository.py`) | rows with status, owner, lease, dedupe key; jobs of ARQ | enqueue, claim a slot, heartbeat, checkpoint, finish, cancel, reconcile, prune | jobs are lost and delivered twice; executions outlive their lease |
| Knowledge files (`knowledge/base.py`, `knowledge/implementations/milvus.py`, `services/knowledge_task_service.py`) | file rows, chunks in PostgreSQL, vectors in Milvus | parse, index, delete, repair | only the row is fenced by the task; two stores are written in batches |
| Knowledge graphs (`knowledge/graphs/`) | entities and triples in PostgreSQL, Neo4j and Milvus | extract, build, vectorise, reset, delete a file | a pipeline over three stores; records are shared by files |
| Knowledge bases, folders, queries, evaluation (`knowledge/manager.py`, `services/knowledge_folder_service.py`, `knowledge/eval/`) | the row and its cache, folders, datasets and runs | configure, move, convert paths, query, generate, evaluate, delete | read-modify-write without locks; readers write back |
| Sandbox provisioner (`src/docker/sandbox_provisioner/app.py`) | containers or pods, records, pins | create, discover, proxy, delete, reap, quiesce | threads over several engine calls; idle reaper |
| Dedicated sandboxes and coding (`services/sandbox_*_service.py`, `services/coding_*_service.py`, `coding/`) | binding rows, leases, sessions, turns, credentials | make ready, suspend, rebuild, run a turn, cancel, rotate keys | containers are made inside transactions; stale copies of rows |
| Messages, threads, attachments (`repositories/conversation_repository.py`, `repositories/*audit*`, `services/attachment_service.py`) | Message and ToolCall rows, metadata, files | record operations, reconcile with the checkpoint, confirm, reference, delete | the checkpoint is not guarded by the lease; bytes and records are apart |
| Project Git (`services/project_git_service.py`) | connections, bindings, worktrees, keys at the host | provision, revoke, prepare, push, clean up | external keys survive crashes; jobs are lost or repeated |
| Skills, MCP servers, model providers (`agents/skills/`, `agents/mcp/`, `models/providers/`) | rows, directories, projections, caches | install, edit, project, activate, configure | files and rows are apart; caches in many processes |
| Schedules, delegations, governance (`services/scheduled_agent_service.py`, `services/delegation_service.py`, `services/channel_sync_service.py`) | records, handles, cursors | claim, dispatch, converge, collect, pull, review | two transactions with an outside call between |
| Identity (`src/backend/server/routers/auth_router.py`, `services/oidc_service.py`) | accounts, keys, departments, CLI sessions | initialise, log in, authorise, revoke, delete | check and write in different transactions |
| Storage migration (`storage_migration.py`, `storage/postgres/manager.py`) | schema, versions, files of older releases | upgrade, import, start | dies between any two transactions and is run again |
| Agent middlewares and prompts, web | | | not a protocol: `PROJECT.json` has the reasons |

What makes the modelled parts correct: one owner and one open attempt per run;
terminal facts never change; a cancel request is never overtaken by a
completion; nobody executes in a sandbox that is about to be deleted; a client
that sees the end of a run may go on; no subagent outlives its tree; one run
per thread; requests are neither lost, repeated nor reordered; everything that
holds a thread lets it go in the end.  For the components around it: what
several stores say about one thing agrees, an execution that has lost its claim
does no harm, and what was begun and left behind is finished or undone.
`PROJECT.json` lists the main
hazards line by line with the property that watches each.

## Modules

| Module | Models | State |
| --- | --- | --- |
| `AgentRunLease` | rows, worker, cleanup, reconciler, subagents, ARQ of one conversation | 11 variables of rows, 2 of ARQ, 4 of processes, the end events, a history variable, the fault counter |
| `ThreadRuns` | abstract: what the thread's own (chat and resume) runs look like to the queue | status, fence, newest run, resumed run |
| `RequestQueue` | the queue, on top of `ThreadRuns` | requests in order of arrival, status, policy, run; finished_at |
| `MCAgentRunLease`, `MCRequestQueue` | TLC instances, symmetry and bounds | |
| `AgentRunLeaseProofs` | theorems about `AgentRunLease`: single rows; trees of runs, end events and `ThreadRuns` | |
| `RequestQueueProofs`, `KnowledgeFilesProofs` | theorems about these modules | |
| `DurableTaskProofs` | theorems about `DurableTask`, and about `Evaluation` | |
| `OutboundProofs` | theorems about `ScheduledAgents`, `Delegations` and `Governance` | |
| `CodingProofs` | theorems about `DedicatedSandboxes`, `CodingSessions` and `CodingCredentials` | |
| `UsersProofs` | theorems about `Threads` and `Identity` | |
| `ComponentsProofs` | what the run of `Components` checks of these but the last, from their theorems | |
| `TaskLease` | abstract: what a durable task promises to the code that works under it | status, owner and lease of a task |
| `DurableTask` | durable tasks; implements `TaskLease` | rows, jobs, executions |
| `KnowledgeFiles`, `KnowledgeGraph`, `Evaluation` | work under a durable task, on top of `TaskLease` | file, record and dataset rows; stores outside |
| `KnowledgeBases`, `KnowledgeTree`, `Retrieval` | a base's row, cache, mind map and deletion; its folders; a query | rows, requests, Redis, Milvus, MinIO |
| `SandboxProvisioner` | the provisioner service, Docker and Kubernetes | records, pins, threads, containers |
| `DedicatedSandboxes` | leases and lifecycle of a persistent or resident sandbox | binding row, leases, connections, container |
| `CodingSessions`, `CodingCredentials` | turns of a coding session; keys of its executor | rows, jobs, requests, sandbox |
| `MessageAudit` | what a run leaves in the conversation | runs, messages, tool calls, checkpoint |
| `Threads` | creation and deletion of conversations and projects; attachments | rows, clients, files |
| `ProjectGit` | bindings and worktrees | rows, jobs, host and mirror |
| `Skills`, `McpServers`, `ModelProviders` | what an agent is given | rows, caches, directories |
| `ScheduledAgents`, `Delegations`, `Governance` | work sent off; the project's topics and pulls of issues | rows, executions, the other system |
| `Identity` | accounts, keys, CLI, OIDC | rows, requests |
| `SchemaMigration` | the migrator and the start of servers | schema parts, versions, files |
| `Components`, `ComponentsLive` | the TLC instances of the modules since `TaskLease` | `area` and the variables below |

`AgentRunLease` implements `ThreadRuns` (`ImplementsThreadRuns`): the mapping
hides subagent rows and forgets workers, leases and attempts.  `RequestQueue`
extends `ThreadRuns` and adds requests to its steps.  So what the queue assumes
of runs is what the lease protocol is checked to give, liveness included: the
fairness of `RequestQueue` (a run that holds the thread lets it go) is
`ThreadReleased`.

In the same way `DurableTask` implements `TaskLease` (`LeaseStep`, part of
`ExecutionsFenced`), and `KnowledgeFiles`, `KnowledgeGraph` and `Evaluation`
extend `TaskLease`: what a handler may rely on is what the task protocol is
checked to give.  Both refinements are proved as well, and so is that
`KnowledgeFiles` takes no other step of a task than `TaskLease` allows.

The map in `PROJECT.json` lists the operations with the lines they stand for.  A
helper whose lines lie within those of another definition is found under that
definition, and events of the environment (a process dies, a lease runs out)
have no entry.

### The modules around the core

They keep their state in the same four variables, so that one TLC run can hold
them all:

- `rows`: what is committed in PostgreSQL;
- `procs`: executions, requests and caches of processes, which a crash loses;
- `outside`: stores and services that no transaction covers (Redis jobs, Milvus,
  Neo4j, MinIO, directories, containers, a Git host, Multica);
- `ghost`: history for properties that speak of the past, and counters of bounds;
- and `lease`, the abstract task, in the modules that extend `TaskLease`.

One action is what the code does between two points at which another process
can come in: a transaction, the stretch between two awaits, one call of an
engine or a store.  A request that reads without a lock and writes later is two
actions, and what it read is in `procs`.  Calls that leave the process fail or
lose their answer by choice, processes die anywhere the code keeps something
behind, jobs get lost or come twice.

`Components` is a union: `area` is chosen in the initial state and never
changes, so a behaviour is a behaviour of one component with one set of
constants, and every invariant `...Safe` says for each area which properties
of its module hold there.  The properties themselves, with their explanation,
are in the modules.  The components do not run together in a state; where they
depend on each other it is through an abstract module (`TaskLease`,
`ThreadRuns`) or through a choice (`DedicatedSandboxes` takes a deletion by the
provisioner as an event).

### How AgentRunLease corresponds to the code

One transaction is one action.  `pc` says between which two transactions of
`process_agent_run` an execution is:

| pc | place in the code |
| --- | --- |
| `reap` | the run was terminal when the job came: cancel its descendants again |
| `pre`, `preDelete` | cleanup before the claim (or before publishing the end of a terminal run): first transaction, external deletion |
| `claim` | `mark_run_running` |
| `exec` | the stream of the agent |
| `post`, `postDelete` | cleanup after the run has ended or was released for a retry |
| `settle` | the `finally` block and the return to ARQ |
| `rec`, `recDelete` | the reconciler's cleanup |

`mode` says what follows a cleanup: publish the end, stay quiet, or raise a
retry.  A member of `Workers` is one execution with its owner token; a token is
used again only when no row or open attempt mentions it, which stands for the
fresh uuid of `_run_owner_token`.  `live` abstracts `lease_expires_at`: it is
true while the lease is in the future, and may turn false at any time
(`Expire`), as a heartbeat may be late.  `Terminate`, `Release` and `Reconcile`
include the cascade to the descendants because the code makes it in the same
transaction.  The reconciler's scan handles one row per action although the
code commits all rows of a scan together; the model has more interleavings.

Faults are counted against `MaxFaults`: a crash, a second delivery, a
cancellation by ARQ (shutdown or `job_timeout`), a retryable error, a heartbeat
that cannot reach the database, a cleanup that fails or times out.  Lost
enqueues and expiring leases are free.

`KeepRuntime` stands for a scope with a persistent or resident sandbox, where
the cleanup only lifts the fence.

### How RequestQueue corresponds to the code

Each operation holds the lock of the conversation row, so it is one action;
steps of runs interleave with it.  Time is logical: `created_at` is the place
in `arrival`, `finished_at` the number of requests that had arrived.  The clocks
of API and worker are thus assumed to agree with the order of commits.
`_get_queue_state` asks for the rows of the thread's own runtime scope; the row of
a subagent carries the child thread, so a subagent does not hold the queue up, and
`ThreadRuns` has none.  The safe point at which a
steered run stops shows as a run that completes.  A new run takes any unused
identity; `Resume` keeps enough of them for the requests still to come (a bound).

## Runs

| Run | Instance | Properties | Shows |
| --- | --- | --- | --- |
| `lease` | 2 executions, 1 reconciler; 3 faults on 1 run, 1 on 2 runs, none on a tree of 3 | `TypeOK`, `AttemptLedger`, `OutcomeAgrees`, `OneThreadHolder`, `FenceExcludesOwner`, `NoOrphanSubagent`, `QuietBehindFence`, `EndBehindFence`, `TerminalIsFinal`, `CancelHonoured`, `ImplementsThreadRuns` | ledger of attempts, outcomes, one holder, the fence and what may happen behind it, terminal facts, cancellation, and the refinement of `ThreadRuns` |
| `lease_live` | 2 runs, 1 execution, 1 fault, fairness | `ThreadReleased` | every run that holds the thread lets it go |
| `subagent_live` | 2 runs, 2 executions, no fault, a scope that keeps its sandbox, fairness | `SubagentEnds` | every subagent ends |
| `queue` | 3 requests (two chat, one channel), 4 runs | `TypeOK`, `OneRunAtATime`, `OneRunPerRequest`, `NoOvertaking`, `PoliciesKept`, `InterruptedIsResumed`, `HaltedNeedsUser`, `SteerGoesNext` | order, steering, rejection, pause, resume |
| `queue_live` | 2 requests (one chat, one API), 3 runs, fairness | `QueueMoves` | waiting requests move |
| `components` | 68 areas of 1 to 3 processes each (`Components`) | `TasksSafe`, `FilesSafe`, `ExecutionsFenced`, `GraphSafe`, `BasesSafe`, `SandboxesSafe`, `DedicatedSafe`, `CodingSafe`, `MessagesSafe`, `ThreadsSafe`, `GitSafe`, `SkillsSafe`, `OutboundSafe`, `GovernanceSafe`, `IdentitySafe`, `MigrationSafe` | the safety of every component around the core |
| `components_live` | 2 tasks and 1 worker; 2 files and 1 task (`ComponentsLive`), fairness | `TasksEnd`, `FilesSettle` | tasks end and files leave the states in progress |
| `resume_survives` | 2 runs, 2 executions, 1 fault; a violation is expected | `ResumeSurvives` | finding 1 |
| `delete_excludes_owner` | 2 runs, 2 executions, 1 fault; a violation is expected | `DeleteExcludesOwner` | finding 2 |
| `second_item` | the area "delegation to Multica"; a violation is expected | `OperationMakesOneItem` | finding 3 |
| `key_left` | the area "git bindings"; a violation is expected | `KeysEndWithBinding` | finding 4 |
| `deletions_overlap` | the area "docker"; a violation is expected | `DeletionsAreExclusive` | finding 5 |

What `components` checks, by invariant:

- `TasksSafe` (`DurableTask`, `Evaluation`): never more running tasks than slots,
  one execution and one active task per dedupe key, domain rows settled with the
  task; datasets without gap or repetition after any resumption, runs and
  figures that agree with their task.
- `ExecutionsFenced`: `DurableTask` takes only steps of `TaskLease`; nothing of a
  task changes after its end; an execution that lost its task does not move a file.
- `FilesSafe` (`KnowledgeFiles`): a file in progress has an owner who may finish
  it, an indexed file is complete in both stores, a loop takes a file up once.
- `GraphSafe` (`KnowledgeGraph`): an indexed chunk has structure and vectors
  whoever built them, success means complete, a deleted file leaves nothing,
  though threads write on after their pipeline was stopped and any step of a
  deletion or a reset may fail and be tried again.
- `BasesSafe` (`KnowledgeBases`, `KnowledgeTree`, `Retrieval`): cached
  configuration, parameters, statistics and mind map; folders stay a tree and
  the conversion of path names keeps every path; answers are of live files,
  threads stay bounded and the fusion of two rankings respects both.
- `SandboxesSafe` (`SandboxProvisioner`): a deletion that is alone waits for
  requests, residents
  and used sandboxes are not reaped, quiescence lasts, nobody gets another's
  container, a container has its network.
- `DedicatedSafe` (`DedicatedSandboxes`): who works in a sandbox has the
  credentials prepared for it; the supervisor spares who held a lease when it
  read the rows.
- `CodingSafe` (`CodingSessions`, `CodingCredentials`): a turn is started and
  ended once, only what was asked for is cancelled; keys can be decrypted, one is
  in use unless two writers overlapped, and the fingerprint tells a sandbox with
  another key.
- `MessagesSafe` (`MessageAudit`): no operation stays open behind a run, a
  resumable call stays pending, a run publishes its own output, the history shows
  what the next run will see and, of a stream that failed, the partial reply as
  an error.
- `ThreadsSafe` (`Threads`): no conversation outlives its project, a repeated
  creation answers with what was asked for, records have bytes and bytes a record.
- `GitSafe` (`ProjectGit`): no deploy key behind a binding that is off, worktrees
  stay under their run and lose no commit.
- `SkillsSafe` (`Skills`, `McpServers`, `ModelProviders`): rows and files of
  skills agree, projections stay within grants but for copies of deleted skills,
  tools are offered under the
  configuration they were read with, the copy of the providers settles.
- `OutboundSafe` (`ScheduledAgents`, `Delegations`): one execution of a schedule
  at a time unless recovery cancelled the record of a request that was there,
  records that tell the truth, one work item per delegation unless its lease ran
  out under a dispatch that goes on.
- `GovernanceSafe` (`Governance`): the cursor passes no issue, unless one was
  deleted or issues of equal time changed places between two pages of a pull; a
  review stands.
- `IdentitySafe` (`Identity`): one superadmin (unless the role given to accounts
  of OIDC is configured to be that one), no live key of a dead account, a
  CLI's key is its approver's, failures lock, a subject keeps an account it
  does not share.
- `MigrationSafe` (`SchemaMigration`): versions tell the truth from every release
  that is accepted (a new database, 0.7.1, business 2, yuanlei 1 to 11) and after
  any crash, servers find their schema, no file is lost and no workdir that was
  changed is overwritten, no run is failed under a server that executes it.

Bounds.  Two runs are a run and its successor, or a parent and its subagent, or
an interrupted run and its resume.  Two executions are an owner and a second
delivery, or a parent and its child.  The constraint `Bounded` of
`MCAgentRunLease` lets `lease` spend its states where they tell something: three
faults as long as there is one run, so that a second delivery, a retry and a
failed deletion meet; one with two runs; and three runs only as an interrupted
run, its resume and the resume's subagent, without faults.  What lies beyond
(other trees, three executions, faults on trees, a scope that keeps its sandbox)
is left to the theorems, which hold for all of it: every property of `lease` is
proved.
`MaxTries` is the code's own 2.  Three requests are what it
takes for a second steering request, for overtaking and for a queue that stays
paused behind a new submission.  In `components` two processes are an owner and
the one that takes over, or two requests that overlap; bounds on generations,
versions, turns and occurrences are the smallest under which a stale copy meets
a newer one (two), or under which a batch, a page or a slot is exceeded.  Each
area has its own constants with a comment in `Components`.  Deadlock is not
checked: the instances stop when all identities are used and all work is done.

Fairness.  Steps of executions are weakly fair, as a process that lives goes on
and `job_timeout` bounds the stream; starting a queued job and the reconciler's
visit of a fenced row are strongly fair, as workers and reconcilers are shared
and come back to the same loop; `RecoverPending`, `Reconcile` and `DropJob` are
weakly fair, as the 30 second loop of `_reconcile_agent_run_leases_forever` and
ARQ's polling do them; a lease expires only surely when nobody renews it
(`Abandoned`).  Nothing is assumed of users, of faults, or of a lease with a
live owner.  In `RequestQueue` the end of an execution is strongly fair since a
retry may take the run back to pending in between, finitely often in the code.
In `ComponentsLive` the lease of a dead execution runs out, the reconciler loop
of `task_queue_service` comes round and sees every expired and every pending row
sooner or later (strong fairness, since other rows may be in its way), a
published task with a free slot is taken up, and a handler returns or times out
and is recorded while its process lives.  Wake-ups may be lost and processes may
die without limit.

Each property of a passing run has a variant of one definition with a plausible
slip (marked "Faulty variant" in the modules), under which TLC reports a
violation.

## Races that are named, not excluded

Where the code leaves a window open the property is stated for everything else
and a `ghost` flag names the window; so the properties also say exactly how far
the code goes.  Where a document, a comment or a docstring claims that there is
no such window, the claim is stated as well, next to the property and marked "As
documented, and not so", and is a finding (next section).  The windows with
lasting effect that no document denies:

- `knowledge/base.py:1048`: a repair of statistics writes a count read before the
  file was indexed anew.
- `src/docker/sandbox_provisioner/app.py:1062`: discovery deletes by name, without
  a generation.
- `agents/skills/service.py:1654`, `:385`, `agents/skills/repository.py:123`: a crash
  leaves a row without files; a new projection escapes a withdrawal; an edit that
  writes back the old name leaves the name of another edit.
- `knowledge/graphs/milvus_graph_service.py:745`, `:494`, `:310`,
  `knowledge/implementations/milvus.py:1216`: the vector of a record created anew is
  deleted; a late note of a failure hides a chunk; a thread that nobody waits for
  writes nodes or vectors of a file that is gone; nodes of a file that was not
  completely indexed stay.
- `services/sandbox_lifecycle_service.py:327`, `agents/backends/sandbox/provider.py:338`:
  a container made in a rolled back transaction is unknown to its row; a connection
  that cannot be asked for is believed.
- `agents/toolkits/buildin/coding_tools.py:450`, `services/coding_execution_service.py:485`:
  a late cancel signal hits the next turn; an idle session is cancelled from a
  stale copy under a running turn.
- `services/coding_credential_service.py:211`, `repositories/coding_credential_repository.py:91`,
  `coding/credentials.py:120`: overlapping writers of a credential.
- `services/delegation_service.py:254`: a collection that outlives its lease writes
  over a newer state.
- `services/channel_sync_service.py:114`: an issue deleted, or issues of equal time
  that change places, between two pages hide the one behind them
  (`docs/develop-guides/yuanlei/features/external-executor-delegation.md:25` says so).
- `knowledge/manager.py:1143`, `agents/mcp/service.py:566`,
  `models/providers/service.py:429`, `storage/postgres/models_business.py:490`: lost
  updates of rows read without a lock.

## Findings

The first five have a run that must fail.  The others are claims that the
modules define; `components` checks what holds in their place, and TLC refutes
each of them when it is put into `Components.cfg` for its area.

1. *A resume run is cancelled by the clean-up of the run it resumes*
   (`ResumeSurvives`).  After an interrupted run is cleaned up, its `finally`
   block (`services/run_worker.py:1688`), or a later delivery of its job
   (`:980`), cancels every active row whose `created_by_run_id` is that run.
   The query (`repositories/agent_run_repository.py:702`) does not exclude
   resume runs, so one that the user has just created is cancelled.
2. *The fence does not cover every deletion* (`DeleteExcludesOwner`).  Worker
   and reconciler may delete the sandbox of a scope at the same time; the first
   to finish lifts the fence, and a new run is claimed while the other deletion
   is under way.  `docs/develop-guides/yuanlei/features/runtime-cleanup.md:13`
   says that the fence covers the whole deletion.  The provisioner compares the
   generation of the sandbox, which protects a new sandbox from a deletion that
   had discovered the old one, not from one that discovers late.
3. *One operation, two work items* (`OperationMakesOneItem`).
   `delegation/multica.py:97` looks for the mark of an operation and creates the
   item if there is none.  A dispatch that has looked and whose lease runs out
   goes on beside the convergence, which has looked too, and both create.
   `docs/advanced/configuration.md:58` says that there is no second item.
4. *A binding outlives its project* (`KeysEndWithBinding`).
   `services/project_service.py:182` reads the bindings without a lock and raises
   the generation it read; a retry that commits in between has raised it to the
   same number, and its provisioning job makes the binding active after the
   project is deleted.  `docs/advanced/project-git-reference.md:140` and `:177` say
   that no permission is left.
5. *A request passes a deletion* (`DeletionsAreExclusive`).  `_deleting`
   (`src/docker/sandbox_provisioner/app.py:450`) is a set: the first of two
   overlapping deletions lets requests in again while the second is still to
   remove the container.  The docstring at `:444` says that none passes.
6. *Executions of a schedule overlap* (`ScheduledAgents!NeverOverlap`): recovery
   cancels the record of a task that was switched off though its request is
   active (`services/scheduled_agent_service.py:427`), and the next execution does
   not see it, against `:156`.
7. *Two credentials stay active* (`CodingCredentials!OneActiveKept`): writers of
   two providers do not see each other's row, against
   `repositories/coding_credential_repository.py:117`.
8. *The supervisor suspends under an owner* (`DedicatedSandboxes!OwnersSpared`): it
   never looks at the lease again after it has read the rows, against
   `services/sandbox_lifecycle_supervisor_service.py:79`.
9. *Updates of attachments are lost* (`Threads!UpdatesSerialised`): the locked row is
   not read again, against `repositories/conversation_repository.py:253`.
10. *Orphaned vectors stay* (`KnowledgeGraph!OrphanVectorsGo`): references are
    committed before vectors are deleted, and the retry of a deletion that failed
    there finds no orphans, against `docs/develop-guides/changelog.md:294`.
11. *Copies of a deleted skill stay* (`Skills!ProjectionsFailClosed`):
    `agents/skills/service.py:1640` withdraws no projection, against `:372`.

## Proofs

The theorems hold for every set of runs, requests, workers, tasks and files and
for every bound.  What they assume of the constants is `LeaseAssumption` and the
assumptions of `RequestQueue` and `Components`, which TLC evaluates in the runs,
and the hypotheses that the theorems name:

- `TaskConstants`: there are finitely many tasks, the number of slots is a number;
- `FileConstants`: files are numbered in the order of their ids, the five types
  of tasks are all there are, no file is in progress before the first task;
- `ScheduleConstants`, `DelegationConstants`, `SandboxConstants`,
  `SessionConstants`, `CredentialConstants`: executions, the API and the
  supervisor are not each other and none of them is nobody, occurrences that are
  due and those asked for by hand have different numbers, bounds are numbers and
  flags are flags, and keys come in the three modes the code has;
- `ThreadConstants`: `Begun` is a flag, `MaxFiles` a number;
- `IdentityConstants`: `OidcRole` is any of the three roles (one superadmin is
  claimed unless it is that one); nobody is no user, subject, key or code; request ids of
  keys are not codes of CLIs; the accounts there at the start are accounts;
  accounts are named for OIDC subjects, or in raw mode none is;
- `GovernanceConstants`: finitely many issues, which are numbered;
- `EvaluationConstants`: tasks are numbered, a dataset is asked for or uploaded
  with one question at least (`GenerateDatasetRequest.count` is at least 1 and
  `_parse_jsonl_questions` refuses an empty file) and a batch has one at least
  (`DATASET_PERSIST_BATCH_SIZE` is a maximum with 1).

Every inductive invariant was an invariant of a TLC run on small instances before
it was proved.

| Module | Theorem | Property |
| --- | --- | --- |
| `AgentRunLeaseProofs` | `TypeCorrect` | `TypeOK` |
| | `LeaseCorrect` | `LeaseShape`, `AttemptLedger`, `OutcomeAgrees`, `FenceExcludesOwner` |
| | `TerminalStays` | `TerminalIsFinal` |
| | `CancelIsHonoured` | `CancelHonoured` |
| | `OneHolder` | `OneThreadHolder` |
| | `AttemptsAgree`, `OutcomesAgree` | `AttemptLedger`, `OutcomeAgrees` |
| | `NoOrphans` | `NoOrphanSubagent` |
| | `QuietWhenLifted` | `QuietBehindFence` |
| | `EndAfterCleanup` | `EndBehindFence` |
| | `ThreadRunsImplemented` | `ImplementsThreadRuns`, a refinement |
| `RequestQueueProofs` | `QueueInvHolds` | the inductive invariant `QueueInv` |
| | `QueueTyped` | `TypeOK` |
| | `OneRunAtATimeHolds`, `OneRunPerRequestHolds` | `OneRunAtATime`, `OneRunPerRequest` |
| | `NoOvertakingHolds`, `PoliciesKeptHolds` | `NoOvertaking`, `PoliciesKept` |
| | `InterruptedIsResumedHolds` | `InterruptedIsResumed` |
| | `HaltedNeedsUserHolds`, `SteerGoesNextHolds` | `HaltedNeedsUser`, `SteerGoesNext` |
| `DurableTaskProofs` | `TaskInvHolds` | the inductive invariant `TaskInv` |
| | `SlotsHold`, `ExecutedAtMostOnce` | `SlotsRespected`, `ExecutedOnce` |
| | `DomainAgrees`, `IntentsUnique` | `TasksAgree`, `OneActivePerIntent` |
| | `QuietAfterEnd` | `[][QuietStep]_vars` |
| | `LeaseImplemented` | `TL!TaskSpec`, a refinement |
| | `EvaluationsSafe` | `ItemsContiguous`, `CompletedHasAll`, `StatusFollowsTask`, `RunsAgree`, `FiguresAgree` |
| `KnowledgeFilesProofs` | `FileInvHolds` | the inductive invariant `FileInv` |
| | `InProgressOwned`, `IndexedComplete` | `InProgressIsOwned`, `IndexedIsComplete` |
| | `TakenUpAtMostOnce` | `TakenUpOnce` |
| | `StatusFenced` | `[][FencedStep]_vars` |
| | `TasksAsLeased` | `TaskSpec`, a refinement |
| `OutboundProofs` | `ScheduledAgentsSafe` | `NoOverlap`, `RecordIsTrue` |
| | `DelegationsSafe` | `OneItem`, `HandleIsItem`, `ReclaimedStays` |
| | `GovernanceIsSafe` | `NothingSkipped`, `CursorForward`, `ReviewStands` |
| `CodingProofs` | `DedicatedSandboxesSafe` | `HoldersHaveCredentials`, `RowKnowsBox`, `SupervisorSpares` |
| | `CodingSessionsSafe` | `StartedOnce`, `EndedOnce`, `SessionFollowsTurns`, `CancelledWasAsked` |
| | `CodingCredentialsSafe` | `KeysKept`, `OneInUse`, `PrintTellsKeys` |
| `UsersProofs` | `ThreadsAreSafe` | `ThreadsSafe` of `Threads` |
| | `IdentityIsSafe` | `IdentitySafe` of `Identity` |
| `ComponentsProofs` | `TasksSafeHolds`, `FilesSafeHolds` | `TasksSafe`, `FilesSafe` |
| | `OutboundSafeHolds`, `GovernanceSafeHolds` | `OutboundSafe`, `GovernanceSafe` |
| | `DedicatedSafeHolds`, `CodingSafeHolds` | `DedicatedSafe`, `CodingSafe` |
| | `ExecutionsFencedHolds` | `ExecutionsFenced`, an action property |

All the proofs have one layout.  A lemma shows that every step has one of a few
shapes, each of which says what becomes of the rows and of nothing else; then
there is a lemma for each conjunct of the invariant, by shape.

*Rows of runs.*  The type invariant needs one fact more, that a process which is
not idle is at a run (`AtRun`).  `RowsOK` is a conjunction over single rows.  It
adds to the checked properties that an owned run has started, that an absent one
has not, and that an active run which has started and has no owner was released
by its last attempt: without the last, a reconciled run could be failed with no
recorded reason.  `StepOK` states what a step may do to a row, and both action
properties are read off it.  `OneHolder` uses that only the creation of a row
makes a run hold the scope (`NoNewHolder`).

*Trees of runs.*  `ScopeInv` adds `TreeOK` (the creator of a resume run is
interrupted, the creator of a subagent is a top-level run that has started, and
a fenced run is itself top-level and has started), `LatestOK` (`latest` is a
top-level run that exists) and `Publishes`: a process that is about to publish an
end is at a run that is terminal.  Without the last `EndBehindFence` is not
inductive, as the end is published in a later step than the one that wrote it.
`ThreadRunsImplemented` maps every action to one step
of `ThreadRuns` or to none; it needs `OneThreadHolder`, since the abstract
creation of a run asks that nobody holds the thread.

*The queue.*  `QueueInv` says that only the newest run can hold the thread
(`NewestHolds`), that requests and runs are paired and no run has two
(`Paired`), who is resumed by whom (`Resumed`), that only one request waits to
steer and none that must not wait (`Waiting`), and that what a
failure stopped was created no later than that failure's end for as long as it
waits, and so was a request that waits to steer (`HaltedBehind`).  Cardinalities in the
properties are derived at the end, from uniqueness.

*Tasks.*  `TaskInv` adds `RowShape` (only a running row has an owner and a
lease, only an active one its key, and one never claimed has no attempt) and `Busy` (an execution that is not idle is at a
task).  `SlotsRespected` is kept because a claim counts the running rows in the
transaction that takes the slot.  A visit of the reconciler may end many tasks in
one step, so shapes are stated for each row.

*Datasets and evaluations.*  `EvaluationInv` says what each task is for
(`Purposes`), that the task a dataset names, or a copy of its row that a resume or
a reader holds, is one that generates it (`NamesTasks`), that items are numbered
from zero and counted (`Items`), that all are there once the dataset is completed,
is about to be marked so by a reader, or is evaluated (`AllThere`), what an
execution knows of items or results at each of its steps (`AtTasks`), and that a
run whose task has not begun has no results (`NotBegun`).  `AtTasks` is what makes
`ItemsContiguous` inductive: an execution counts the items once and numbers its own
from there, while flushes it never heard of and other tasks add to them.  What it
stores begins at or before the end of what is there, so that it either continues
without a gap or meets the unique index and is refused.

*Files.*  `FileInv` says that a task has one execution at most (`OneExecution`),
that the owner of a file in progress is at work on that file (`AtWork`), how far
both stores are written at each point of the indexing unless somebody foreign
wrote (`Progress`), and what an execution may still take up (`Budget`,
`Untried`): for the loops over pending files that what was taken up lies at or
before the cursor and what is left lies behind it.  `AtWork` is what keeps a task
from succeeding with a file still in progress; `Progress` is the invariant of the
loop over chunks, proved for any number of them.

*Work sent off.*  `ScheduleInv` says which records `has_active_run` can find, one
at most (`OneLive`), and that occurrences to come have none (`NotYet`).
`DelegationInv` says what one dispatch and one collection keep while no lease ran
out under them (`OneDispatch`, `OneCollection`); `ghost.slow` and `ghost.overlap`
switch them off, so that the invariant also holds behind the races.
`GovernanceInv` needs the rank of an issue in the order in which Multica lists
issues: what is present and was not imported lies at or behind the offset of the
page (`ReadSoFar`), for any finite set of issues and whatever order the server
gives to those of equal time, unless one was deleted or two changed places
meanwhile (`ghost.moved`).

*Dedicated sandboxes.*  `TxKnows` says what a transaction of the lifecycle has seen
and made at each of its steps, `GivenKeys` that the container a holder was given
has the key it was prepared for, as long as its generation is the holder's and the
connection was not one that was merely believed (`CreateBelieved`), and
`Spared` that whoever holds a lease while the supervisor is about to suspend has
taken it since the row was read.

*Coding sessions.*  `TakenOnce` is the core: one job at most has taken a turn, it
is running until that job has ended it or has lost its lease, and it has not run
before the job executes.  `CallRuns` is the same for the turn that the agent run
itself waits for, `SignalMeant` says whom a cancel signal in Redis can hit.

*Credentials.*  `AllMeant` says how what a request has read and is about to write
hang together, `AllTell` what a fingerprint, in the sandbox or on its way there,
says about the key that came with it: the hash of that key, or the version of a
row that had it and has not come back to that version.  `PrintTellsKeys` was
stated with the rows whose last writer had a copy left out.  The attempt to
prove it showed that this is too little: a write from a copy sets the version
back, and a clean write after it reuses a version under another key.  TLC finds
that sequence with three versions (`MaxVersion`), and it finds none with two.  The
property now leaves out rows ever written from a copy (`ghost.copied`), and the
area "credentials rotated" has three versions.

*Conversations and attachments.*  `ThreadInv` says that a client which is about to
add a conversation to a project has locked that project (`Placed`), without which
the project could be deleted under the insert; that whoever makes an attachment
has a file of its own of which nothing is recorded (`OwnFiles`, `Recorded`); that
bytes are recorded, in the hands of a client or left over on purpose (`Bytes`);
and that what a request needs is bound to it (`Needed`).  `Recorded`, `Bytes`
and `Needed` end with `ghost.stale`, a metadata write from an old copy.

*Accounts.*  `IdentityInv` says that accounts are in departments that are there
(`Members`), that one request at a time initialises a system without a superadmin
(`FirstRun`), what a request that makes a key holds (`KeysHeld`), what a login
that nobody overlaps has read (`Counted`), and that a subject has one account of
its own at most, of which its callback knows (`Bindings`).  `SubjectKeepsAccount`
was stated for every account.  The attempt to prove it showed that two subjects
may be bound to one account (`oidc_callback_handler` binds by name in raw mode): it
is deleted, the first subject comes with another name and is bound to that
account, and the second brings the old one back, so that the first has two.  TLC finds this with two subjects and not
with one.  The property now leaves out shared accounts, and the area "OIDC names"
has two subjects.

`LeaseShape` and the inductive invariants are stated by theorems only.  The
properties of the modules with proofs are checked by the run `components` as
parts of its invariants.  `ComponentsProofs` draws the line: `Components`
instantiates the modules of the proofs, each instance meets the hypotheses on its
constants, and `area` says whose invariant holds.  For `ThreadsSafe` and
`IdentitySafe` this last step is not written out: both are conjunctions of the
properties of the nine areas, each an instance of a theorem of `UsersProofs` whose
hypothesis the constants of the area meet, but with nine instances of `UsersProofs`
in scope the prover does not get through the preparation of a leaf.

Only model-checked: the liveness properties `ThreadReleased`, `SubagentEnds`,
`QueueMoves`, `TasksEnd` and `FilesSettle` (fairness is out of the prover's
reach), and the safety of the components that have no proofs (`GraphSafe`,
`BasesSafe`, `SandboxesSafe`, `MessagesSafe`, `GitSafe`, `SkillsSafe`,
`MigrationSafe`).

## Plan

1. Proofs about `KnowledgeGraph`, the module on top of `TaskLease` that has
   none.
2. Proofs about modules whose invariants are close to inductive, such as
   `VersionsAreTrue` of `SchemaMigration`.
3. `RequestQueue` with the safe point of steering; `DedicatedSandboxes` in place
   of `KeepRuntime`; the quota of dedicated sandboxes.
4. Progress of the remaining loops: deliveries of Git intents, scheduled
   occurrences, coding turns.

## Not modelled

- What agents compute: prompts, middlewares that only shape messages, models and
  tools; parsers, chunking and embeddings; connectors that only forward a query.
- Reads of the API: listings, dashboards, history views, search; run events other
  than the end event, which carry copies of what PostgreSQL decides.
- Containers behind the provisioner, the CLI of a coding executor, Git itself,
  Neo4j and Milvus: choices of outcome where the code calls them.
- Clocks: timestamps follow the order of commits.  Skew between hosts can defeat
  `services/agent_request_queue_service.py:544` and
  `services/scheduled_agent_service.py:493`; nothing in the code bounds it.
- The quota of sandboxes, rate limits in Redis, avatars and preferences, the
  terminal relay, Langfuse, timings and traces.
- The command line client and the web front end, which appear as the user's
  actions.

## Further hazards

`PROJECT.json` lists the hazards that matter most.  The others the models
contain, by the property that watches them:

`TerminalIsFinal`:

- `services/run_worker.py:973`: A job comes again after its run has ended: it
  must reap and publish, and execute nothing.

`ThreadReleased`:

- `services/agent_request_queue_service.py:150`: The row is committed and the
  enqueue is lost, or refused while the finished job's result is kept: a pending
  run without a job.
- `services/run_worker.py:1917`: ARQ gives a job up after max_tries without
  calling the function, with the run pending, fenced or asked to stop.
- `repositories/agent_run_repository.py:826`: A fence that nobody lifts blocks
  the thread and its queue for ever.

`EndBehindFence`:

- `services/run_worker.py:622`: The reconciler goes on with a snapshot of the
  row that a worker has since released, cancelled or claimed, and publishes an
  end or dispatches from it.

`NoOrphanSubagent`:

- `repositories/agent_run_repository.py:697`: The cascade misses a descendant: a
  pending one, one of a resume, or one that a retry leaves behind.

`PoliciesKept`:

- `services/agent_request_service.py:331`: A rejecting request finds a free
  thread with a queue and would wait behind the head.

`TasksSafe`:

- `repositories/task_repository.py:328`: A cancel request arrives between the
  return of the handler and finish_owned.
- `repositories/task_repository.py:396`: The domain rows of a lost task must be
  settled in the transaction that fails it.
- `repositories/task_repository.py:152`: Six ways to end a task must all free
  its dedupe key, or the same job can never be submitted again.
- `knowledge/eval/service.py:146`: A reader writes the status back that it read
  before the task ended, or before the dataset was resumed with another task.
- `knowledge/eval/service.py:175`: A reader that saw a run as running finds its
  task completed and removed by the retention, and fails the run.
- `knowledge/eval/service.py:948`: The dataset, or the run, is deleted while its
  task is at work; or it was completed by another task in between.
- `knowledge/eval/evaluator.py:125`: The first question retrieves nothing: its
  empty figures decide which means a run has.

`ExecutionsFenced`:

- `repositories/knowledge_file_repository.py:798`: An execution that has lost
  its lease finishes its file late, over a newer execution's work.

`FilesSafe`:

- `services/knowledge_task_service.py:271`: A file that fails goes back to a
  pending status; without the cursor the loop would take it up again for ever.
- `knowledge/base.py:313`: A user deletes the file a task works on: the row is
  gone when the owner settles it.

`SandboxesSafe`:

- `src/docker/sandbox_provisioner/app.py:468`: A deletion waits for the requests
  under way; without holding new ones back a steady stream would let one in
  between the check and the deletion.
- `src/docker/sandbox_provisioner/app.py:724`: Creation, deletion and discovery
  of one name are several engine calls each; interleaved they would leave a
  container without its network.

`MessagesSafe`:

- `repositories/agent_run_repository.py:812`: A tool that asks the user leaves
  with a tool-error event; if that closed its ToolCall, the resume of the run
  could not start it again.
- `repositories/agent_run_repository.py:839`: A worker dies, loses its lease or
  releases the run for a retry with model and tool operations open: nothing but
  the end of the run closes them.
- `repositories/conversation_repository.py:61`: Audit rows exist before the
  reply is in the checkpoint; the history must not show one the next run will
  not see.
- `repositories/tool_message_audit_repository.py:403`: A retried resume executes
  the same tool call again: a start with another sequence or a finish with
  another result is refused and fails the run.

`ThreadsSafe`:

- `services/conversation_service.py:184`: A client repeats a creation while the
  first one is under way, with another project or none: both insert, one fails
  in the middle of its transaction and must answer with the other's conversation
  only if that is what it asked for.
- `services/attachment_service.py:627`: The request that uses the attachment may
  be submitted between the load and the lock of the conversation: the check then
  reads the old record and only the active run protects the file.

`GitSafe`:

- `services/project_git_service.py:857`: A provisioning job has put its deploy
  key at the host when the binding is switched off: the job that revokes and the
  one that provisions must not leave the key behind, whichever comes last.
- `services/project_git_service.py:499`: The job of an intent is lost after the
  commit, or delivered twice: the sweep publishes it again and stale generations
  must do nothing.
- `services/project_git_service.py:928`: A run of the task starts, or commits
  more work, between the request to clean up its worktree and the removal.

`MigrationSafe`:

- `storage_migration.py:234`: Old files are deleted after the cutover, directory
  by directory; a migrator that died here finds only some of them and must
  neither lose nor overwrite what is in the workdirs.
- `storage_migration.py:200`: A chain of upgrades that is right for one version
  skips a step for another; the recorded version then claims tables the database
  does not have.
- `storage_migration.py:151`: Runs are failed by the migrator: a server that
  still executes them would go on beside their successors.

`SkillsSafe`:

- `agents/skills/service.py:1341`: A slug is checked, a directory is put in
  place and a row inserted, in three steps and without a lock: two drafts of one
  slug, or a draft and a deletion that fails, must not leave a row with the
  other's directory.
- `agents/skills/service.py:1573`: Two managers edit SKILL.md at once: the name
  and description in the row must be those of the file that was written last,
  which only the lock of the row orders.
- `agents/middlewares/skills.py:97`: Activations are kept with the thread and
  outlive the run; in a later run the skill may be revoked, and its tools must
  not be offered.
- `agents/mcp/service.py:566`: Two tools of a server are switched at once; each
  request writes back the list it has read, and one of the switches is lost.
- `src/backend/server/routers/model_provider_router.py:34`: Two changes of
  providers list the rows in one order and write Redis in the other: agents get
  the models of before.
- `models/providers/cache.py:202`: Redis is not written after the row was
  committed, and the request answers that it succeeded.
- `models/providers/service.py:429`: The type of a provider and the overrides of
  its models are validated against the row as it was read: two overlapping
  updates are each valid and leave a row that is not.

`GraphSafe`:

- `repositories/knowledge_graph_repository.py:144`: A record is shared by chunks
  of several files; one chunk is marked indexed by the build of another while
  its own vectors are still on the way.
- `knowledge/graphs/milvus_graph_service.py:316`: Neo4j, PostgreSQL, the chunk's
  flag and the vectors are four steps in a fixed order; a crash between any two
  must be repaired by the next build.

`DedicatedSafe`:

- `services/run_worker.py:1210`: Making the runtime ready may outlive the lease;
  the run looks again before it enters.
- `services/sandbox_lifecycle_supervisor_service.py:78`: The tick and the
  executions work on the same row; the tick must not take the container of an
  execution that holds its lease.

`CodingSafe`:

- `services/coding_execution_service.py:818`: A worker dies in the middle of a
  turn; the reconciler ends the turn, and a job that only was slow must not
  write its result over that.
- `services/coding_execution_service.py:386`: The session and the turn are the
  ones read before the command ran; the lease is looked at, and locked, before
  they are written.
- `services/coding_credential_service.py:211`: A key is encrypted for a row that
  is not there yet; another request inserts the row before it is looked up
  again, and the ciphertext is stored in a row it cannot be decrypted for.
- `repositories/coding_credential_repository.py:91`: Two rotations of a key read
  one version and write the same next one with different keys: the fingerprint
  is the same, and a sandbox with the first key is not rebuilt.
- `repositories/coding_credential_repository.py:124`: Credentials of two
  providers are written at once and neither request sees the other's row: both
  stay active, where the docstring says only one does.
- `repositories/coding_credential_repository.py:126`: Two writers have each
  written their row and switch the other's off.
- `coding/credentials.py:120`: The fingerprint has neither the scope nor the row
  in it: the first version of the user's credential and the first of the
  administrators' of one provider are equal, and a sandbox is not rebuilt when
  one is deleted and the other decides.
- `services/sandbox_lifecycle_service.py:347`: A sandbox is rebuilt while the
  provider referred to is switched off: it has no key, and keeps the fingerprint
  of before; once the provider is back the fingerprint matches and the sandbox
  stays without a key.

`OutboundSafe`:

- `services/scheduled_agent_service.py:398`: A submission is refused although
  the request is there (another dispatcher submitted it, the project was
  archived since): the record must not become failed.
- `services/scheduled_agent_service.py:163`: A claim of the scheduler and a 'run
  now' of the user at the same moment: one execution per task at a time.
- `services/delegation_service.py:299`: A collection that was left behind is
  reset, recorded results stay, and what is recorded belongs to the item of this
  delegation.

`GovernanceSafe`:

- `services/channel_sync_service.py:113`: More new issues than ten pages hold:
  the cursor stays, every pull reads the same newest pages, and the older ones
  are never proposed.
- `services/channel_sync_service.py:248`: A pull that outlived its lease comes
  to its end after another one has moved the cursor.

`IdentitySafe`:

- `repositories/api_key_repository.py:178`: A key is enabled by a request that
  had read it before it was revoked, or its account comes back by OIDC: the key
  must stay dead.
- `services/identity_admin_service.py:129`: Two requests initialise the system
  at the same time and both see no account.
- `services/auth_service.py:164`: A CLI asks again because the answer with its
  key was lost, while the session expires or another exchange is under way.
- `storage/postgres/models_business.py:490`: Logins of one account overlap: each
  counts on from the value it read, and failures are lost.
- `src/backend/server/routers/auth_router.py:774`: An account is deleted, and
  its password wiped, between the read and the write of an update.
- `services/oidc_service.py:663`: Two callbacks of a new subject make its
  account at the same time, or an administrator deletes or restores it between
  the search and the write.

`BasesSafe`:

- `knowledge/cache.py:15`: The cache lock runs out after 30 s under a slow
  holder, who writes on without it.
- `repositories/knowledge_base_repository.py:35`: A new row is cached without
  the lock: an update in between leaves the older configuration in the cache.
- `knowledge/manager.py:1143`: Two updates, or an update and a refresh of the
  statistics, merge into rows they read without a lock: the last one writes the
  other's change away.
- `repositories/knowledge_base_repository.py:81`: Two file operations refresh
  the statistics: an older count must not be written over a newer one.
- `knowledge/utils/mindmap_utils.py:494`: A mind map is generated from files of
  which one is deleted before it is saved.
- `knowledge/manager.py:557`: A deletion fails between Milvus, MinIO and
  PostgreSQL, or meets an upload or an indexing: nothing may be left that no row
  leads to.
- `knowledge/base.py:1072`: A file is moved out of, or a folder into, a tree
  that is being deleted.
- `services/knowledge_folder_service.py:45`: The conversion of path names is
  cancelled or loses its lease between two batches and is started again, while
  users move, rename and create folders.
- `knowledge/implementations/milvus.py:649`: A file is deleted while a query
  runs, or a failed deletion left its vectors or its graph behind: the answer
  must not have it.
- `knowledge/implementations/milvus.py:86`: A query is cancelled while its call
  of Milvus runs: the place of the thread must not be given away before it ends.
