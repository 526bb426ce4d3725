------------------------------ MODULE ProjectGit ------------------------------
(***************************************************************************)
(* Git repositories of a project.  Bindings: a repository of a connection  *)
(* is provisioned (a deploy key at the host, a bare mirror) and revoked by *)
(* jobs of the worker, from intents that API requests write.  Worktrees:   *)
(* a root task's checkout, prepared under a lease when a run starts, used  *)
(* and pushed by the run, and cleaned up on request.                       *)
(***************************************************************************)
EXTENDS Naturals, FiniteSets

CONSTANTS Workers,   \* jobs or runs under way
          NoWorker,
          Part,      \* "bindings" or "worktrees"
          MaxGen     \* bound: operation generations, or allocations

VARIABLES
  rows,     \* Project, GitConnection, binding, worktree and run rows
  procs,    \* per worker: where the job or run is
  outside,  \* the git host, the job queue, the files of the working directory
  ghost     \* a generation that was lost, work that was removed

vars == <<rows, procs, outside, ghost>>

Gens == 1 .. MaxGen
Idle == [pc |-> "idle", gen |-> 0]

\* bind: its status, operation_generation, whether the id of the remote key
\* is recorded and whether the private key is stored.  tree: its status, its
\* lease and the commit last pushed; commits are "base" and "work".
Init ==
  /\ rows = [project |-> "active", conn |-> "none", token |-> "none",
             bind |-> [st |-> "none", gen |-> 0, key |-> FALSE,
                       secret |-> FALSE],
             tree |-> [st |-> "none", gen |-> 0, owner |-> NoWorker,
                       live |-> FALSE, pushed |-> "none"],
             run |-> "none"]
  /\ procs = [w \in Workers \cup {"api", "cleaner"} |-> Idle]
  /\ outside = [key |-> FALSE, jobs |-> {}, path |-> "none",
                remote |-> "none"]
  /\ ghost = [lost |-> FALSE, gone |-> {}]

Pc(w) == procs[w].pc
To(w, p) == procs' = [procs EXCEPT ![w].pc = p]
Done(w) == procs' = [procs EXCEPT ![w] = Idle]
B == rows.bind
Tree == rows.tree

\* What the git host and the executor do: a deploy key is there or not, a
\* checkout is made once, from the task's branch if the host has it.
HostKey(there) == [outside EXCEPT !.key = there]
CheckedOut == IF outside.path # "none" THEN outside.path
              ELSE IF outside.remote = "none" THEN "base" ELSE outside.remote

-----------------------------------------------------------------------------
(* Bindings: the intents.                                                  *)

\* The commit of an intent and its job; the publication may be lost.
Intent(bind) ==
  /\ rows' = [rows EXCEPT !.bind = bind]
  /\ \E jobs \in {outside.jobs, outside.jobs \cup {bind.gen}} :
       outside' = [outside EXCEPT !.jobs = jobs]

\* create_git_connection_view: once per request id and name.
CreateConnection ==
  /\ Part = "bindings" /\ rows.conn = "none"
  /\ rows' = [rows EXCEPT !.conn = "active", !.token = "first"]
  /\ UNCHANGED <<procs, outside, ghost>>

\* rotate_git_connection_credential_view: the old token is destroyed.
RotateToken ==
  /\ rows.conn = "active" /\ rows.token = "first"
  /\ rows' = [rows EXCEPT !.token = "second"]
  /\ UNCHANGED <<procs, outside, ghost>>

\* The project and the connection are locked by what looks at them.
ProjectLive == rows.project = "active" /\ Pc("api") = "idle"
ConnectionLive == rows.conn = "active" /\ rows.token # "none"

CreateBinding ==
  /\ Part = "bindings" /\ B.st = "none"
  /\ ProjectLive /\ ConnectionLive
  /\ Intent([st |-> "provisioning", gen |-> 1, key |-> FALSE, secret |-> TRUE])
  /\ UNCHANGED <<procs, ghost>>

Retry ==
  /\ B.st \in {"provision_failed", "delete_failed"} /\ B.gen < MaxGen
  /\ Intent([B EXCEPT !.gen = @ + 1,
       !.st = IF @ = "provision_failed" THEN "provisioning" ELSE "deleting"])
  /\ UNCHANGED <<procs, ghost>>

Deactivate ==
  /\ B.st \notin {"none", "disabled"} /\ B.gen < MaxGen
  /\ Intent([B EXCEPT !.gen = @ + 1, !.st = "deleting"])
  /\ UNCHANGED <<procs, ghost>>

\* delete_project_view holds the project, but reads the bindings without a
\* lock and writes the generation it computed from what it read.
ReadBindings ==
  /\ Part = "bindings" /\ rows.project = "active" /\ Pc("api") = "idle"
  /\ B.gen < MaxGen
  /\ procs' = [procs EXCEPT !["api"] =
       [pc |-> IF B.st \in {"none", "disabled"} THEN "none" ELSE "deleting",
        gen |-> B.gen]]
  /\ UNCHANGED <<rows, outside, ghost>>

DeleteProject ==
  /\ Pc("api") # "idle"
  /\ LET bind == [B EXCEPT !.st = "deleting", !.gen = procs["api"].gen + 1]
         gone == [rows EXCEPT !.project = "deleted"]
     IN IF Pc("api") = "none"
          THEN rows' = gone /\ UNCHANGED <<outside, ghost>>
          ELSE /\ rows' = [gone EXCEPT !.bind = bind]
               /\ \E jobs \in {outside.jobs, outside.jobs \cup {bind.gen}} :
                    outside' = [outside EXCEPT !.jobs = jobs]
               /\ ghost' = [ghost EXCEPT !.lost = @ \/ bind.gen <= B.gen]
  /\ Done("api")

\* connection_has_live_bindings.
HasLiveBindings == B.st \notin {"none", "disabled"}

DeleteConnection ==
  /\ rows.conn = "active" /\ ~HasLiveBindings
  /\ rows' = [rows EXCEPT !.conn = "disabled", !.token = "none"]
  /\ UNCHANGED <<procs, outside, ghost>>

\* list_pending_bindings, and the sweep of the worker over them.
Pending == B.st \in {"provisioning", "provision_failed", "deleting",
                     "delete_failed"}
Reconcile ==
  /\ Pending /\ B.gen \notin outside.jobs
  /\ outside' = [outside EXCEPT !.jobs = @ \cup {B.gen}]
  /\ UNCHANGED <<rows, procs, ghost>>

-----------------------------------------------------------------------------
(* Bindings: the jobs.  A job is delivered again until it returns.         *)

\* _repository_operation_lock, held to the end of the job.
MayOperate(w) == \A v \in Workers \ {w} : Pc(v) = "idle"

Returned(w) ==
  /\ procs' = [procs EXCEPT ![w] = Idle]
  /\ outside' = [outside EXCEPT !.jobs = @ \ {procs[w].gen}]

StartJob(w, g) ==
  /\ Pc(w) = "idle" /\ g \in outside.jobs /\ MayOperate(w)
  /\ IF B.gen = g /\ B.st # "disabled" /\ B.st # "active"
       THEN /\ procs' = [procs EXCEPT ![w] = [gen |-> g,
                 pc |-> IF B.st \in {"provisioning", "provision_failed"}
                        THEN "provision" ELSE "revoke"]]
            /\ UNCHANGED outside
       ELSE /\ outside' = [outside EXCEPT !.jobs = @ \ {g}]
            /\ UNCHANGED procs
  /\ UNCHANGED <<rows, ghost>>

\* _record_binding_failure: of this generation only.
Failed(w, st) ==
  /\ rows' = IF B.gen = procs[w].gen THEN [rows EXCEPT !.bind.st = st] ELSE rows
  /\ Returned(w)

\* _provision_repository until the bundle is fetched: an existing key of
\* the binding is adopted.  Hosts and dependencies may fail at any point.
RegisterKey(w) ==
  /\ Pc(w) = "provision"
  /\ \/ /\ B.gen = procs[w].gen /\ rows.project = "active"
        /\ B.st \in {"provisioning", "provision_failed"}
        /\ ConnectionLive
        /\ outside' = HostKey(TRUE)
        /\ To(w, "import")
        /\ UNCHANGED rows
     \/ /\ B.gen # procs[w].gen
        /\ Returned(w) /\ UNCHANGED rows
     \/ Failed(w, "provision_failed")
  /\ UNCHANGED ghost

\* The bundle is imported and the binding activated, or the intent has
\* changed and the job takes its key back.
Activate(w) ==
  /\ Pc(w) = "import"
  /\ \/ /\ B.gen = procs[w].gen
        /\ rows' = [rows EXCEPT !.bind.st = "active", !.bind.key = TRUE]
        /\ Returned(w)
     \/ /\ B.gen # procs[w].gen
        /\ To(w, "withdraw") /\ UNCHANGED <<rows, outside>>
     \/ Failed(w, "provision_failed")
  /\ UNCHANGED ghost

WithdrawKey(w) ==
  /\ Pc(w) = "withdraw"
  /\ \/ /\ outside' = [outside EXCEPT !.key = FALSE,
                                      !.jobs = @ \ {procs[w].gen}]
        /\ Done(w)
     \/ Returned(w)
  /\ UNCHANGED <<rows, ghost>>

\* _delete_repository: the key by its id, or by its title and fingerprint.
RevokeKey(w) ==
  /\ Pc(w) = "revoke"
  /\ \/ /\ B.gen = procs[w].gen
        /\ outside' = HostKey(FALSE)
        /\ To(w, "destroy") /\ UNCHANGED rows
     \/ /\ B.gen # procs[w].gen
        /\ Returned(w) /\ UNCHANGED rows
     \/ Failed(w, "delete_failed")
  /\ UNCHANGED ghost

DestroySecret(w) ==
  /\ Pc(w) = "destroy"
  /\ rows' = IF B.gen = procs[w].gen
               THEN [rows EXCEPT !.bind.st = "disabled", !.bind.secret = FALSE]
               ELSE rows
  /\ Returned(w)
  /\ UNCHANGED ghost

\* The worker dies: the session lock goes with its connection, the job is
\* delivered again.
Crash(w) ==
  /\ Pc(w) # "idle"
  /\ Done(w)
  /\ UNCHANGED <<rows, outside, ghost>>

-----------------------------------------------------------------------------
(* Worktrees.                                                              *)

\* The row of the worktree is locked by a push or by the cleanup.
Unlocked == /\ \A w \in Workers : Pc(w) # "pushed"
            /\ Pc("cleaner") = "idle"

\* Subagents have no worktrees of their own; here the task is a root task
\* and its project and binding are in use (_require_root_conversation).
RootTask == ProjectLive

\* _request_worktree_allocation: a new task, or another one after a removal,
\* for the same branch (same) or a new one.
Allocate(same) ==
  /\ Part = "worktrees" /\ Unlocked /\ Tree.gen < MaxGen
  /\ RootTask
  /\ Tree.st \in {"none", "removed"}
  /\ rows' = [rows EXCEPT !.tree = [@ EXCEPT !.st = "requested",
                !.gen = @ + 1, !.owner = NoWorker, !.live = FALSE,
                !.pushed = IF same THEN @ ELSE "none"]]
  /\ outside' = [outside EXCEPT !.remote = IF same THEN @ ELSE "none"]
  /\ UNCHANGED <<procs, ghost>>

\* retry_conversation_git_repository_view.
RetryPrepare ==
  /\ Tree.st = "prepare_failed" /\ Unlocked
  /\ rows' = [rows EXCEPT !.tree.st = "requested", !.tree.owner = NoWorker,
                          !.tree.live = FALSE]
  /\ UNCHANGED <<procs, outside, ghost>>

\* A run of the task; the reconciler may end it under its worker.
StartRun(w) ==
  /\ Part = "worktrees" /\ Pc(w) = "idle" /\ rows.run \in {"none", "over"}
  /\ Tree.st \notin {"none", "removed"}
  /\ rows' = [rows EXCEPT !.run = w]
  /\ To(w, "prepare")
  /\ UNCHANGED <<outside, ghost>>

LoseRun ==
  /\ rows.run \in Workers /\ Pc(rows.run) # "pushed"
  /\ rows' = [rows EXCEPT !.run = "over"]
  /\ UNCHANGED <<procs, outside, ghost>>

\* mark_run_terminal, or the release of the run for a retry.
Leave(w) ==
  /\ Done(w)
  /\ rows' = [rows EXCEPT !.run = IF @ = w THEN "over" ELSE @]

\* acquire_worktree_lease.
MayLease(w) == Tree.owner \in {NoWorker, w} \/ ~Tree.live

\* _prepare_repository_worktree up to its first commit.
Prepare(w) ==
  /\ Pc(w) = "prepare" /\ Unlocked
  /\ \/ /\ Tree.st = "ready" /\ outside.path # "none"
        /\ To(w, "use") /\ UNCHANGED rows
     \/ /\ Tree.st \in {"requested", "preparing", "ready"}
        /\ Tree.st = "ready" => outside.path = "none"
        /\ MayLease(w)
        /\ rows' = [rows EXCEPT !.tree.st = "preparing", !.tree.owner = w,
                                !.tree.live = TRUE]
        /\ To(w, "fetch")
     \/ /\ Tree.st \in {"requested", "preparing", "ready"}
        /\ Tree.st = "ready" => outside.path = "none"
        /\ ~MayLease(w) /\ Leave(w)
     \/ /\ Tree.st \notin {"requested", "preparing", "ready"}
        /\ Leave(w)
  /\ UNCHANGED <<outside, ghost>>

LapseLease ==
  /\ Tree.live
  /\ rows' = [rows EXCEPT !.tree.live = FALSE]
  /\ UNCHANGED <<procs, outside, ghost>>

\* The second transaction: the lease must still be ours, and the branch at
\* the host what we have pushed.
Checkout(w) ==
  /\ Pc(w) = "fetch" /\ Unlocked /\ Tree.owner = w
  /\ outside.remote \in {"none", Tree.pushed}
  /\ rows' = [rows EXCEPT !.tree = [@ EXCEPT !.st = "ready",
                !.owner = NoWorker, !.live = FALSE]]
  /\ outside' = [outside EXCEPT !.path = CheckedOut]
  /\ To(w, "use")
  /\ UNCHANGED ghost

\* _record_worktree_failure, and the run fails.
CheckoutFails(w) ==
  /\ Pc(w) = "fetch" /\ Unlocked
  /\ Done(w)
  /\ rows' = [rows EXCEPT
       !.run = IF @ = w THEN "over" ELSE @,
       !.tree = IF @.owner = w THEN [@ EXCEPT !.st = "prepare_failed",
                                       !.owner = NoWorker, !.live = FALSE]
                ELSE @]
  /\ UNCHANGED <<outside, ghost>>

\* The agent commits to its branch.
Work(w) ==
  /\ Pc(w) = "use" /\ rows.run = w /\ outside.path = "base"
  /\ outside' = [outside EXCEPT !.path = "work"]
  /\ UNCHANGED <<rows, procs, ghost>>

\* What push_project_git_branch demands: a running run, a ready worktree.
MayPush(w) == rows.run = w /\ Tree.st = "ready" /\ outside.path # "none"

\* The expected commit is pushed without force; the rows stay locked until
\* that is recorded.
Push(w) ==
  /\ Pc(w) = "use" /\ MayPush(w) /\ Unlocked
  /\ outside' = [outside EXCEPT !.remote = outside.path]
  /\ To(w, "pushed")
  /\ UNCHANGED <<rows, ghost>>

RecordPush(w) ==
  /\ Pc(w) = "pushed"
  /\ rows' = [rows EXCEPT !.tree.pushed = outside.path]
  /\ To(w, "use")
  /\ UNCHANGED <<outside, ghost>>

Finish(w) ==
  /\ Pc(w) = "use"
  /\ Leave(w)
  /\ UNCHANGED <<outside, ghost>>

\* Faulty variant: a task with a run may be cleaned up.
TaskRunsNot == FALSE

\* has_nonterminal_run.
TaskRuns == rows.run \in Workers

\* Nothing uncommitted, and the last push is what is checked out.
Removable == outside.path # "none" => Tree.pushed = outside.path

\* cleanup_project_worktree_view.
RequestCleanup ==
  /\ Tree.st \notin {"none", "removed"} /\ Unlocked
  /\ ~TaskRuns /\ Removable
  /\ rows' = [rows EXCEPT !.tree.st = "cleanup_pending"]
  /\ UNCHANGED <<procs, outside, ghost>>

\* _cleanup_project_worktree, in one transaction that holds the row.
BeginCleanup ==
  /\ Unlocked
  /\ Tree.st \in {"cleanup_pending", "cleanup_failed"}
  /\ IF ~TaskRuns /\ Removable
       THEN To("cleaner", "remove") /\ UNCHANGED rows
       ELSE /\ rows' = [rows EXCEPT !.tree.st = "cleanup_failed"]
            /\ UNCHANGED procs
  /\ UNCHANGED <<outside, ghost>>

RemoveTree ==
  /\ Pc("cleaner") = "remove"
  /\ ghost' = [ghost EXCEPT !.gone = IF outside.path = "work"
                                        /\ outside.remote # "work"
                                     THEN @ \cup {Tree.gen} ELSE @]
  /\ outside' = [outside EXCEPT !.path = "none"]
  /\ To("cleaner", "removed")
  /\ UNCHANGED rows

CommitCleanup ==
  /\ Pc("cleaner") = "removed"
  /\ rows' = [rows EXCEPT !.tree = [@ EXCEPT !.st = "removed",
                !.owner = NoWorker, !.live = FALSE]]
  /\ Done("cleaner")
  /\ UNCHANGED <<outside, ghost>>

CleanupFails ==
  /\ Pc("cleaner") \in {"remove", "removed"}
  /\ rows' = [rows EXCEPT !.tree.st = "cleanup_failed"]
  /\ Done("cleaner")
  /\ UNCHANGED <<outside, ghost>>

Next ==
  \/ CreateConnection \/ RotateToken
  \/ CreateBinding \/ Retry \/ Deactivate \/ ReadBindings \/ DeleteProject
  \/ DeleteConnection \/ Reconcile
  \/ \E same \in BOOLEAN : Allocate(same)
  \/ RetryPrepare \/ LoseRun \/ LapseLease
  \/ RequestCleanup \/ BeginCleanup \/ RemoveTree \/ CommitCleanup
  \/ CleanupFails \/ Crash("cleaner")
  \/ \E w \in Workers :
       \/ \E g \in Gens : StartJob(w, g)
       \/ RegisterKey(w) \/ Activate(w) \/ WithdrawKey(w) \/ RevokeKey(w)
       \/ DestroySecret(w) \/ Crash(w)
       \/ StartRun(w) \/ Prepare(w) \/ Checkout(w) \/ CheckoutFails(w)
       \/ Work(w) \/ Push(w) \/ RecordPush(w) \/ Finish(w)

Spec == Init /\ [][Next]_vars

-----------------------------------------------------------------------------

\* A binding that is switched off has left nothing behind: no deploy key at
\* the host, no private key here, whichever jobs of it were superseded,
\* repeated or killed.
RevokedForGood ==
  B.st = "disabled" /\ ~ghost.lost =>
    /\ ~outside.key /\ ~B.secret
    /\ \A w \in Workers : Pc(w) # "import"

\* An active binding can be used: its key is at the host and stored, and its
\* connection is there.
ActiveIsUsable ==
  B.st = "active" => outside.key /\ B.secret /\ ConnectionLive

\* Unless the deletion of the project has reused a generation, no binding of
\* a deleted project is, or becomes, active.
NoBindingLeft ==
  rows.project = "deleted" /\ ~ghost.lost =>
    B.st \in {"none", "deleting", "delete_failed", "disabled"}

\* As documented, and not so: a binding that is switched off leaves no
\* permission, and a deleted project no binding in use.
PermissionsRevoked ==
  /\ B.st = "disabled" => ~outside.key /\ ~B.secret
  /\ rows.project = "deleted" => B.st # "active"

\* The worktree stays under the run that uses it.
TreeStays ==
  \A w \in Workers : Pc(w) = "use" /\ rows.run = w =>
    outside.path # "none" /\ Tree.st = "ready"

\* Cleaning up removes no commit that is not at the host.
WorkIsKept == ghost.gone = {}

\* Two workers are never both sure of the checkout.
OneLeaseHolder ==
  \A w \in Workers : Pc(w) = "fetch" /\ Tree.owner = w =>
    Tree.st \in {"preparing", "cleanup_pending", "cleanup_failed"}

=============================================================================
