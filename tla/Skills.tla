------------------------------- MODULE Skills -------------------------------
(***************************************************************************)
(* Skills.  A shared skill is a row and a directory, installed from a      *)
(* draft, deleted by way of a trash directory, or synchronised with the    *)
(* release; every user has a projection, a copy of the skills the user may *)
(* read, which sandboxes mount; and a run works with a snapshot of skills, *)
(* whose tools the model is offered once the skill is activated.           *)
(* They are separate parts, over the same rows.                            *)
(***************************************************************************)
EXTENDS Naturals, Sequences, FiniteSets

CONSTANTS Clients, NoClient,
          Users,   \* a sequence, in the order of their ids
          Part     \* "install", "edit", "projection" or "runtime"

VARIABLES
  rows,     \* skills, the lock of a row, advisory locks of users
  procs,    \* requests under way
  outside,  \* directories: drafts, shared skills, projections, personal ones
  ghost     \* torn: slugs of which a crash or a release left half; missed:
            \*   users a policy change did not list; kept: users who had a copy
            \*   of a skill that was deleted; stale: an edit took back a name;
            \*   drafted, read: the drafts so far, what a thread has read

vars == <<rows, procs, outside, ghost>>

Slugs == {"s", "s-v2"}
Drafts == {"a", "b"}
AllUsers == {Users[i] : i \in 1 .. Len(Users)}
NoSkill == [from |-> "none", reads |-> {}, on |-> FALSE]
Idle == [pc |-> "idle"]

Init ==
  /\ rows = [skill |-> [s \in Slugs |->
               IF Part # "install" /\ s = "s"
                 THEN [from |-> "a", reads |-> AllUsers, on |-> TRUE]
                 ELSE NoSkill],
             name |-> "old", lock |-> NoClient, user |-> [u \in AllUsers |-> NoClient]]
  /\ procs = [c \in Clients |-> Idle]
  /\ outside = [drafts |-> [d \in Drafts |-> "none"],
                shared |-> [s \in Slugs |-> rows.skill[s].from],
                personal |-> "none", text |-> "old",
                proj |-> [u \in AllUsers |-> {}],
                dir |-> IF Part = "projection" THEN {Users[1]} ELSE {}]
  /\ ghost = [torn |-> {}, missed |-> {}, kept |-> {}, read |-> {}, drafted |-> {},
              stale |-> FALSE]

Begins(c, p) == procs[c] = Idle /\ procs' = [procs EXCEPT ![c] = p]
Goes(c, p) == procs' = [procs EXCEPT ![c] = p]
Done(c) == Goes(c, Idle)
At(c, pc) == procs[c].pc = pc

\* user_can_access_skill, for a skill that has to be enabled.
Readable(u, s) == u \in rows.skill[s].reads /\ rows.skill[s].on
                  /\ rows.skill[s].from # "none"

-----------------------------------------------------------------------------
(* Installation.                                                           *)

\* Neither a row nor a directory has the slug.
Free(s) == rows.skill[s].from = "none" /\ outside.shared[s] = "none"

\* _stage_skill_draft_item: the draft gets a slug that is free now.
Stage(d) ==
  \E s \in Slugs :
    /\ Free(s) /\ (s = "s-v2" => ~Free("s"))
    /\ outside' = [outside EXCEPT !.drafts[d] = s]

\* prepare_skill_upload.
Prepare(c, d) ==
  /\ Part = "install" /\ procs[c] = Idle /\ d \notin ghost.drafted
  /\ d = "a"
  /\ Stage(d)
  /\ ghost' = [ghost EXCEPT !.drafted = @ \cup {d}]
  /\ UNCHANGED <<rows, procs>>

\* prepare_remote_skill_install: the command line tool runs in a sandbox of
\* its own, which takes a while.
Fetch(c, d) ==
  /\ Part = "install" /\ d \notin ghost.drafted /\ d = "b"
  /\ Begins(c, [pc |-> "fetch", draft |-> d])
  /\ ghost' = [ghost EXCEPT !.drafted = @ \cup {d}]
  /\ UNCHANGED <<rows, outside>>

\* The download, or a failure of it or of the release of the sandbox.
Fetched(c) ==
  /\ At(c, "fetch")
  /\ \/ Stage(procs[c].draft)
     \/ UNCHANGED outside
  /\ Done(c)
  /\ UNCHANGED <<rows, ghost>>

\* discard_skill_install_draft, or the draft has expired.
Discard(d) ==
  /\ outside.drafts[d] # "none"
  /\ outside' = [outside EXCEPT !.drafts[d] = "none"]
  /\ UNCHANGED <<rows, procs, ghost>>

\* confirm_skill_install_draft for an item: the check, the directory, the
\* row.  The directory appears by a rename, which fails if there is one.
Confirm(c, d) ==
  /\ outside.drafts[d] # "none" /\ Free(outside.drafts[d])
  /\ Begins(c, [pc |-> "publish", draft |-> d, slug |-> outside.drafts[d]])
  /\ UNCHANGED <<rows, outside, ghost>>

Publish(c) ==
  /\ At(c, "publish")
  /\ LET p == procs[c] IN
       IF outside.drafts[p.draft] # "none" /\ outside.shared[p.slug] = "none"
         THEN /\ outside' = [outside EXCEPT !.shared[p.slug] = p.draft]
              /\ Goes(c, [p EXCEPT !.pc = "create"])
         ELSE Done(c) /\ UNCHANGED outside
  /\ UNCHANGED <<rows, ghost>>

\* The insert waits for a transaction that deletes the row; it is refused
\* if the row stays, and then the directory is taken away again.
CreateRow(c) ==
  /\ At(c, "create")
  /\ LET p == procs[c]
         s == p.slug IN
       IF rows.skill[s].from = "none"
         THEN /\ rows' = [rows EXCEPT !.skill[s] =
                   [from |-> p.draft, reads |-> AllUsers, on |-> TRUE]]
              /\ outside' = [outside EXCEPT !.drafts[p.draft] = "none"]
         ELSE /\ rows.lock = NoClient
              /\ outside' = [outside EXCEPT !.shared[s] = "none"]
              /\ UNCHANGED rows
  /\ Done(c)
  /\ UNCHANGED ghost

\* confirm_personal_skill_install_draft, install_skill: under the original
\* slug, if the user has no skill of that name.
InstallOnce == outside.personal = "none"

InstallPersonal(c, d) ==
  /\ procs[c] = Idle /\ outside.drafts[d] # "none" /\ InstallOnce
  /\ outside' = [outside EXCEPT !.personal = d, !.drafts[d] = "none"]
  /\ UNCHANGED <<rows, procs, ghost>>

DeletePersonal ==
  /\ outside.personal # "none"
  /\ outside' = [outside EXCEPT !.personal = "none"]
  /\ UNCHANGED <<rows, procs, ghost>>

\* delete_skill: the row is locked, the directory goes to the trash, and
\* comes back if the transaction fails.  Copies in projections stay.
Delete(c, s) ==
  /\ Part \in {"install", "projection"} /\ rows.lock = NoClient
  /\ rows.skill[s].from \in Drafts
  /\ Begins(c, [pc |-> "delete", slug |-> s, trash |-> outside.shared[s]])
  /\ rows' = [rows EXCEPT !.lock = c]
  /\ outside' = [outside EXCEPT !.shared[s] = "none"]
  /\ UNCHANGED ghost

DeleteRow(c) ==
  /\ At(c, "delete")
  /\ rows' = [rows EXCEPT !.skill[procs[c].slug] = NoSkill,
                          !.lock = NoClient]
  /\ ghost' = [ghost EXCEPT !.kept =
       @ \cup {u \in AllUsers : procs[c].slug \in outside.proj[u]}]
  /\ Done(c)
  /\ UNCHANGED outside

DeleteFails(c) ==
  /\ At(c, "delete")
  /\ LET s == procs[c].slug
         back == outside.shared[s] = "none" IN
       /\ outside' = IF back
            THEN [outside EXCEPT !.shared[s] = procs[c].trash] ELSE outside
       /\ ghost' = IF back THEN ghost
                   ELSE [ghost EXCEPT !.torn = @ \cup {s}]
  /\ rows' = [rows EXCEPT !.lock = NoClient]
  /\ Done(c)

\* init_builtin_skills, for a skill of the release with the slug "s": the
\* directory is replaced before the row is written.
SyncBuiltin(c) ==
  /\ Part = "install"
  /\ rows.skill["s"].from \in {"none", "builtin"}
  /\ \A o \in Clients : ~At(o, "builtin")
  /\ Begins(c, [pc |-> "builtin", slug |-> "s"])
  /\ outside' = [outside EXCEPT !.shared["s"] = "builtin"]
  /\ ghost' = IF \E o \in Clients : At(o, "create") /\ procs[o].slug = "s"
                THEN [ghost EXCEPT !.torn = @ \cup {"s"}] ELSE ghost
  /\ UNCHANGED rows

RecordBuiltin(c) ==
  /\ At(c, "builtin")
  /\ rows' = IF rows.skill["s"].from \in {"none", "builtin"}
               THEN [rows EXCEPT !.skill["s"] =
                      [from |-> "builtin", reads |-> AllUsers, on |-> TRUE]]
               ELSE rows
  /\ Done(c)
  /\ UNCHANGED <<outside, ghost>>

\* update_skill_file for SKILL.md: the name is read with the row, changed in
\* the transaction, written to the file and committed.  A name that equals
\* the one that was read is not written to the row.
Edit(c, name) ==
  /\ Part = "edit" /\ rows.skill["s"].from # "none"
  /\ Begins(c, [pc |-> "edit", slug |-> "s", name |-> name,
                seen |-> rows.name])
  /\ UNCHANGED <<rows, outside, ghost>>

\* The update of the row, which waits for other edits, comes first.
TakesRow(c) == rows.lock = NoClient

WriteFile(c) ==
  /\ At(c, "edit") /\ TakesRow(c)
  /\ rows' = [rows EXCEPT !.lock = c]
  /\ outside' = [outside EXCEPT !.text = procs[c].name]
  /\ Goes(c, [procs[c] EXCEPT !.pc = "written"])
  /\ UNCHANGED ghost

CommitEdit(c) ==
  /\ At(c, "written")
  /\ LET p == procs[c]
         skips == p.name = p.seen IN
       /\ rows' = [rows EXCEPT !.lock = IF @ = c THEN NoClient ELSE @,
                               !.name = IF skips THEN @ ELSE p.name]
       /\ ghost' = [ghost EXCEPT !.stale = skips /\ p.name # rows.name]
  /\ Done(c)
  /\ UNCHANGED outside

\* The API dies: its transaction is rolled back, its files stay.
Crash(c) ==
  /\ procs[c] # Idle /\ Part # "runtime"
  /\ Done(c)
  /\ rows' = [rows EXCEPT !.lock = IF @ = c THEN NoClient ELSE @,
                !.user = [u \in AllUsers |->
                            IF @[u] = c THEN NoClient ELSE @[u]]]
  /\ ghost' = IF procs[c].pc \in {"create", "delete", "builtin", "written"}
                THEN [ghost EXCEPT !.torn = @ \cup {procs[c].slug}] ELSE ghost
  /\ UNCHANGED outside

-----------------------------------------------------------------------------
(* Projections.                                                            *)

Listed == [i \in 1 .. Len(Users) |-> Users[i]]

\* update_skill_share_config, update_skill_enabled: the row is changed in the
\* transaction, and the users who have a projection are listed.
ChangePolicy(c, reads, on) ==
  /\ Part = "projection" /\ rows.lock = NoClient
  /\ rows.skill["s"].from # "none"
  /\ rows' = [rows EXCEPT !.lock = c]
  /\ Begins(c, [pc |-> "lock", to |-> [from |-> "a", reads |-> reads,
                                       on |-> on],
                users |-> SelectSeq(Listed, LAMBDA u : u \in outside.dir),
                left |-> outside.dir])
  /\ UNCHANGED <<outside, ghost>>

Waiting(c) == {u \in procs[c].left : rows.user[u] # c}

\* The advisory locks, in the order of the users.
LockUser(c) ==
  /\ At(c, "lock") /\ Waiting(c) # {}
  /\ LET u == SelectSeq(procs[c].users, LAMBDA v : v \in Waiting(c))[1] IN
       /\ rows.user[u] = NoClient
       /\ rows' = [rows EXCEPT !.user[u] = c]
  /\ UNCHANGED <<procs, outside, ghost>>

\* Faulty variant: the copies stay until they are made again.
WithdrawLater(proj, c) == proj

\* _remove_skill_from_user_projection, before the change is committed.
Withdraw(proj, c) ==
  [u \in AllUsers |-> IF u \in procs[c].left THEN proj[u] \ {"s"}
                      ELSE proj[u]]

WithdrawCopies(c) ==
  /\ At(c, "lock") /\ Waiting(c) = {}
  /\ outside' = [outside EXCEPT !.proj = Withdraw(@, c)]
  /\ Goes(c, [procs[c] EXCEPT !.pc = "commit"])
  /\ UNCHANGED <<rows, ghost>>

\* The commit releases the locks.  A user whose first projection is made
\* from the old rows after the list was taken is not on it.
CommitPolicy(c) ==
  /\ At(c, "commit")
  /\ rows' = [rows EXCEPT !.skill["s"] = procs[c].to, !.lock = NoClient,
                !.user = [u \in AllUsers |->
                            IF @[u] = c THEN NoClient ELSE @[u]]]
  /\ ghost' = [ghost EXCEPT !.missed = @ \cup
       ((outside.dir \cup {procs[o].user : o \in {o \in Clients :
                                               At(o, "sync")}})
        \ {procs[c].users[i] : i \in DOMAIN procs[c].users})]
  /\ Goes(c, [pc |-> "refresh", todo |-> procs[c].users])
  /\ UNCHANGED outside

\* refresh_user_skill_projection_async, for a run of the user, or for the
\* users of a change one after the other: lock, read, copy, and release.
StartRefresh(c, u) ==
  /\ Part = "projection"
  /\ Begins(c, [pc |-> "refresh", todo |-> <<u>>])
  /\ UNCHANGED <<rows, outside, ghost>>

ReadGrants(c) ==
  /\ At(c, "refresh") /\ procs[c].todo # <<>>
  /\ LET u == Head(procs[c].todo) IN
       /\ rows.user[u] = NoClient
       /\ rows' = [rows EXCEPT !.user[u] = c]
       /\ Goes(c, [pc |-> "sync", user |-> u, todo |-> Tail(procs[c].todo),
                   source |-> {s \in Slugs : Readable(u, s)}])
  /\ UNCHANGED <<outside, ghost>>

\* sync_user_accessible_skills: a source that is gone has no copy.
Copied(source) == {s \in source : outside.shared[s] # "none"}

SyncProjection(c) ==
  /\ At(c, "sync")
  /\ LET u == procs[c].user IN
       /\ outside' = [outside EXCEPT !.proj[u] = Copied(procs[c].source),
                                     !.dir = @ \cup {u}]
       /\ rows' = [rows EXCEPT !.user[u] = NoClient]
       /\ ghost' = IF procs[c].source = {s \in Slugs : Readable(u, s)}
                     THEN [ghost EXCEPT !.missed = @ \ {u}, !.kept = @ \ {u}]
                     ELSE ghost
  /\ Goes(c, [pc |-> "refresh", todo |-> procs[c].todo])

EndRefresh(c) ==
  /\ At(c, "refresh") /\ procs[c].todo = <<>>
  /\ Done(c)
  /\ UNCHANGED <<rows, outside, ghost>>

-----------------------------------------------------------------------------
(* Runs.  "s" depends on "s-v2", a personal skill or one that was deleted, *)
(* and each has a tool of its name.                                        *)

Depends(s) == IF s = "s" THEN {"s-v2"} ELSE {}

\* list_accessible_skills: a personal skill takes the place of a shared one.
Accessible(u) ==
  {s \in Slugs : Readable(u, s)}
  \cup (IF outside.personal # "none" THEN {"s-v2"} ELSE {})

\* expand_skill_closure: what is not accessible is skipped, with what only
\* it depends on.
Closure(roots, there) ==
  LET near == roots \cap there
  IN near \cup (UNION {Depends(s) : s \in near} \cap there)

\* resolve_runtime_skills_for_context, at the start of a run.
StartRun(c, u, chosen, preload) ==
  /\ Part = "runtime"
  /\ LET there == Accessible(u)
         first == chosen \cap there IN
       Begins(c, [pc |-> "run", effective |-> Closure(chosen, there),
                  loaded |-> Closure(preload \cap first, there),
                  there |-> there, offered |-> {}, mcp |-> {}])
  /\ UNCHANGED <<rows, outside, ghost>>

\* Activations of the thread that this run may see, and preloaded skills.
Activated(p) == p.loaded \cup (ghost.read \cap p.effective)

\* awrap_model_call: tools of skills that are not activated are taken out,
\* those of activated ones are added, and MCP tools bound for the turn.
CallModel(c) ==
  /\ At(c, "run")
  /\ Goes(c, [procs[c] EXCEPT !.offered = Activated(procs[c]),
                              !.mcp = Activated(procs[c])])
  /\ UNCHANGED <<rows, outside, ghost>>

\* read_file of a SKILL.md activates a visible skill in the thread's state.
ReadSkill(c, s) ==
  /\ At(c, "run") /\ s \in procs[c].effective
  /\ ghost' = [ghost EXCEPT !.read = @ \cup {s}]
  /\ UNCHANGED <<rows, procs, outside>>

EndRun(c) ==
  /\ At(c, "run")
  /\ Done(c)
  /\ UNCHANGED <<rows, outside, ghost>>

\* Between runs: a personal skill comes and goes, a policy is changed.
ChangeSkills ==
  /\ Part = "runtime"
  /\ \/ outside' = [outside EXCEPT !.personal =
                      IF @ = "none" THEN "a" ELSE "none"]
        /\ UNCHANGED rows
     \/ rows' = [rows EXCEPT !.skill["s"].on = ~@]
        /\ UNCHANGED outside
  /\ UNCHANGED <<procs, ghost>>

Next ==
  \/ \E c \in Clients :
       \/ \E d \in Drafts : \/ Prepare(c, d) \/ Fetch(c, d)
                            \/ Confirm(c, d) \/ InstallPersonal(c, d)
       \/ \E name \in {"old", "new", "newer"} : Edit(c, name)
       \/ WriteFile(c) \/ CommitEdit(c) \/ Fetched(c)
       \/ Publish(c) \/ CreateRow(c)
       \/ \E s \in Slugs : Delete(c, s)
       \/ DeleteRow(c) \/ DeleteFails(c) \/ SyncBuiltin(c) \/ RecordBuiltin(c)
       \/ Crash(c)
       \/ \E reads \in SUBSET AllUsers, on \in BOOLEAN :
            ChangePolicy(c, reads, on)
       \/ LockUser(c) \/ WithdrawCopies(c) \/ CommitPolicy(c)
       \/ \E u \in AllUsers : StartRefresh(c, u)
       \/ ReadGrants(c) \/ SyncProjection(c) \/ EndRefresh(c)
       \/ \E u \in AllUsers, chosen \in SUBSET Slugs,
             preload \in SUBSET Slugs : StartRun(c, u, chosen, preload)
       \/ CallModel(c) \/ EndRun(c)
       \/ \E s \in Slugs : ReadSkill(c, s)
  \/ \E d \in Drafts : Discard(d)
  \/ Part = "install" /\ DeletePersonal
  \/ ChangeSkills

Spec == Init /\ [][Next]_vars

-----------------------------------------------------------------------------

Busy(s) == \E c \in Clients : /\ procs[c].pc \in {"create", "delete", "builtin"}
                              /\ procs[c].slug = s

\* The row of a skill and its directory belong together: whichever drafts,
\* deletions and releases race for a slug, the directory is the one that the
\* row was made for, and no directory is left without a row; except after a
\* crash, and where a release takes a slug that is being installed.
RowsAndFilesAgree ==
  \A s \in Slugs : ~Busy(s) /\ s \notin ghost.torn =>
    outside.shared[s] = rows.skill[s].from

\* The name in the row is the one of SKILL.md, whoever edits the file at the
\* same time; except after a crash, and when the last of two edits gives the
\* name back that it had read.
NameAgrees ==
  (\A c \in Clients : ~At(c, "written")) /\ ~ghost.stale
    /\ "s" \notin ghost.torn => rows.name = outside.text

\* What users other than those in U have a copy of is granted to them.
GrantedBut(U) ==
  \A u \in AllUsers \ U : \A s \in outside.proj[u] : Readable(u, s)

\* A projection never holds a skill that the committed rows do not grant: a
\* change withdraws its copies before it commits, and a copy made from older
\* rows is not made after.  Left out, until their next refresh: a user whose
\* first projection was made while the change listed the users that have
\* one, and those who had a copy of a skill that was deleted.
NothingProjectedBeyondGrants == GrantedBut(ghost.missed \cup ghost.kept)

\* As documented, and not so: projections are fail-closed when what a user
\* may read changes, the deletion of a skill included.
ProjectionsFailClosed == GrantedBut({})

\* Tools of a skill are offered, and its MCP tools bound, only in a run that
\* sees the skill, after the thread has read its SKILL.md or for a preloaded
\* one: an activation outlives the run, a grant may not.
OfferedWhenActive ==
  \A c \in Clients : At(c, "run") =>
    /\ procs[c].offered \cup procs[c].mcp \subseteq procs[c].effective
    /\ procs[c].offered \subseteq procs[c].loaded \cup ghost.read
    /\ procs[c].effective \subseteq procs[c].there

=============================================================================
