-------------------------------- MODULE Threads --------------------------------
(***************************************************************************)
(* Conversations of a user, the projects they belong to and their          *)
(* attachments.  One creation request, sent by several clients at once and *)
(* for different projects, and the attachments of one conversation: bytes  *)
(* in the working directory, records in Conversation.extra_metadata.       *)
(***************************************************************************)
EXTENDS Naturals, FiniteSets

CONSTANTS Clients,   \* HTTP requests under way
          Kinds,     \* what they may do
          Begun,     \* the conversation is there at the beginning
          MaxFiles   \* bound: attachments ever confirmed or referenced

VARIABLES
  rows,     \* Project, Conversation, ProjectAgent and request rows
  procs,    \* per client: where it is, the row it has loaded, its locks
  outside,  \* directories and files of the working directories, tmp objects
  ghost     \* answers, files that may be left over, overwritten metadata

vars == <<rows, procs, outside, ghost>>

Files == 1 .. MaxFiles
NoAtt == [kind |-> "none", used |-> FALSE]
Idle == [pc |-> "idle", to |-> "none", seen |-> <<>>, file |-> 0, holds |-> {}]

\* "p" is a project the user has selected, "own" the implicit project that
\* the creation request makes for its conversation.
Init ==
  /\ rows = [project |-> [p |-> "none",
                          own |-> IF Begun THEN "active" ELSE "none"],
             conv |-> IF Begun THEN [project |-> "own", st |-> "active"]
                      ELSE [project |-> "none", st |-> "none"],
             bound |-> FALSE, req |-> "none",
             atts |-> [f \in Files |-> NoAtt]]
  /\ procs = [w \in Clients |-> Idle]
  /\ outside = [dirs |-> IF Begun THEN {"p", "own"} ELSE {"p"},
                tmp |-> "none", files |-> {}]
  /\ ghost = [answers |-> {}, ids |-> 0, left |-> {}, needs |-> {},
              stale |-> FALSE]

Pc(w) == procs[w].pc
To(w, p) == procs' = [procs EXCEPT ![w].pc = p]
Done(w) == procs' = [procs EXCEPT ![w] = Idle]
Free(l, w) == \A v \in Clients \ {w} : l \notin procs[v].holds

-----------------------------------------------------------------------------
(* create_thread_view.                                                     *)

\* _require_matching_thread_creation_intent.
Matches(to) ==
  /\ rows.conv.st = "active" /\ rows.project[rows.conv.project] = "active"
  /\ rows.conv.project = to

\* ensure_agent_project_scope: an agent bound to a project works there only.
InScope(project) == rows.bound => project = "p"

\* ensure_bound_user_workdir for managed directories.
Materialized(project) ==
  [outside EXCEPT !.dirs = IF project = "own" THEN @ \cup {"own"} ELSE @]

\* A replay of the request, or the lookup of a new one.
CreateLook(w, to) ==
  /\ Pc(w) = "idle" /\ "create" \in Kinds
  /\ IF rows.conv.st = "none"
       THEN /\ procs' = [procs EXCEPT ![w] = [Idle EXCEPT !.pc = "project",
                                                          !.to = to]]
            /\ UNCHANGED <<outside, ghost>>
       ELSE /\ Matches(to) /\ InScope(to) /\ UNCHANGED procs
            /\ outside' = Materialized(to)
            /\ ghost' = [ghost EXCEPT !.answers =
                           @ \cup {[to |-> to, got |-> rows.conv.project]}]
  /\ UNCHANGED rows

\* Faulty variant: the project is read and not locked.
LocksProjectNot(p) == {}

\* lock_active_selectable_for_user keeps the row until the commit.
LocksProject(p) == {p}

TakeProject(w) ==
  /\ Pc(w) = "project" /\ procs[w].to = "p" /\ Free("p", w)
  /\ IF rows.project["p"] = "active" /\ "p" \in outside.dirs
       THEN procs' = [procs EXCEPT ![w].pc = "scope",
                                   ![w].holds = LocksProject("p")]
       ELSE Done(w)
  /\ UNCHANGED <<rows, outside, ghost>>

\* create_implicit_project under the idempotency key of the request: a
\* second insertion waits for the first one's transaction, fails when that
\* has committed, and goes on with the committed project.
TakeOwn(w) ==
  /\ Pc(w) = "project" /\ procs[w].to = "own" /\ Free("own", w)
  /\ procs' = [procs EXCEPT ![w].pc = "scope",
       ![w].holds = IF rows.project["own"] = "none" THEN {"own"} ELSE {}]
  /\ UNCHANGED <<rows, outside, ghost>>

Scope(w) ==
  /\ Pc(w) = "scope"
  /\ IF InScope(procs[w].to) THEN To(w, "add") ELSE Done(w)
  /\ UNCHANGED <<rows, outside, ghost>>

\* add_conversation and the commit; (uid, creation_request_id) is unique,
\* and the loser's rollback gives its locks back.
AddConversation(w) ==
  /\ Pc(w) = "add"
  /\ IF rows.conv.st = "none"
       THEN /\ rows' = [rows EXCEPT
                 !.conv = [project |-> procs[w].to, st |-> "active"],
                 !.project[procs[w].to] = IF procs[w].to = "own" THEN "active"
                                          ELSE @]
            /\ procs' = [procs EXCEPT ![w].pc = "dir", ![w].holds = {}]
       ELSE /\ procs' = [procs EXCEPT ![w].pc = "recover", ![w].holds = {}]
            /\ UNCHANGED rows
  /\ UNCHANGED <<outside, ghost>>

Recover(w) ==
  /\ Pc(w) = "recover"
  /\ IF Matches(procs[w].to) THEN To(w, "dir") ELSE Done(w)
  /\ UNCHANGED <<rows, outside, ghost>>

Answer(w) ==
  /\ Pc(w) = "dir"
  /\ outside' = Materialized(rows.conv.project)
  /\ ghost' = [ghost EXCEPT !.answers =
                 @ \cup {[to |-> procs[w].to, got |-> rows.conv.project]}]
  /\ Done(w)
  /\ UNCHANGED rows

\* create_project_view: replays of its request id return the project, and
\* fail once it is deleted.
CreateProject ==
  /\ "create" \in Kinds /\ rows.project["p"] = "none" /\ "p" \in outside.dirs
  /\ rows' = [rows EXCEPT !.project["p"] = "active"]
  /\ UNCHANGED <<procs, outside, ghost>>

\* soft_delete_with_conversations, in the transaction that locks the row.
DeleteProject ==
  /\ "create" \in Kinds
  /\ rows.project["p"] = "active" /\ \A w \in Clients : "p" \notin procs[w].holds
  /\ rows' = [rows EXCEPT !.project["p"] = "deleted", !.bound = FALSE,
       !.conv.st = IF rows.conv.project = "p" THEN "deleted" ELSE @]
  /\ UNCHANGED <<procs, outside, ghost>>

DeleteThread ==
  /\ "create" \in Kinds /\ rows.conv.st = "active"
  /\ rows' = [rows EXCEPT !.conv.st = "deleted"]
  /\ UNCHANGED <<procs, outside, ghost>>

BindAgent ==
  /\ "create" \in Kinds /\ ~rows.bound
  /\ rows.project["p"] = "active" /\ \A w \in Clients : "p" \notin procs[w].holds
  /\ rows' = [rows EXCEPT !.bound = TRUE]
  /\ UNCHANGED <<procs, outside, ghost>>

UnbindAgent ==
  /\ rows.bound
  /\ rows.project["p"] = "active" /\ \A w \in Clients : "p" \notin procs[w].holds
  /\ rows' = [rows EXCEPT !.bound = FALSE]
  /\ UNCHANGED <<procs, outside, ghost>>

\* The directory of a linked project belongs to the user.
LoseDirectory ==
  /\ "create" \in Kinds /\ "p" \in outside.dirs
  /\ outside' = [outside EXCEPT !.dirs = @ \ {"p"}]
  /\ UNCHANGED <<rows, procs, ghost>>

-----------------------------------------------------------------------------
(* Attachments.                                                            *)

\* upload_tmp_attachment_view; the upload also removes expired tmp objects.
UploadTmp ==
  /\ "confirm" \in Kinds /\ outside.tmp = "none"
  /\ outside' = [outside EXCEPT !.tmp = "original"]
  /\ UNCHANGED <<rows, procs, ghost>>

ParseTmp ==
  /\ outside.tmp = "original"
  /\ outside' = [outside EXCEPT !.tmp = "parsed"]
  /\ UNCHANGED <<rows, procs, ghost>>

CleanupTmp ==
  /\ outside.tmp # "none"
  /\ outside' = [outside EXCEPT !.tmp = "none"]
  /\ UNCHANGED <<rows, procs, ghost>>

\* Every use case begins by loading the conversation into its session, and
\* later statements of the session, SELECT FOR UPDATE included, do not
\* refresh it.
Load(w, kind, pc, f) ==
  /\ Pc(w) = "idle" /\ kind \in Kinds /\ rows.conv.st = "active"
  /\ procs' = [procs EXCEPT ![w] = [Idle EXCEPT !.pc = pc, !.file = f,
                                                !.seen = rows.atts]]
  /\ UNCHANGED <<rows, outside>>

NewFile == ghost.ids + 1

Confirm(w) ==
  /\ outside.tmp # "none" /\ NewFile \in Files
  /\ Load(w, "confirm", "store", NewFile)
  /\ ghost' = [ghost EXCEPT !.ids = @ + 1]

\* _store_attachment: all its files or, after an error, none.
Store(w) ==
  /\ Pc(w) = "store"
  /\ \/ /\ outside.tmp # "none"
        /\ outside' = [outside EXCEPT !.files = @ \cup {procs[w].file}]
        /\ To(w, "record")
     \/ Done(w) /\ UNCHANGED outside
  /\ UNCHANGED <<rows, ghost>>

\* _save_metadata writes the metadata the session has loaded.
Saved(w, atts) ==
  /\ rows' = [rows EXCEPT !.atts = atts]
  /\ ghost' = [ghost EXCEPT !.stale = @ \/ procs[w].seen # rows.atts]

AddRecord(w) ==
  /\ Pc(w) = "record"
  /\ Saved(w, [procs[w].seen EXCEPT ![procs[w].file] =
                 [kind |-> "upload", used |-> FALSE]])
  /\ To(w, "sweep")
  /\ UNCHANGED outside

\* _rollback_stored_attachments.
AddFails(w) ==
  /\ Pc(w) = "record"
  /\ outside' = [outside EXCEPT !.files = @ \ {procs[w].file}]
  /\ Done(w)
  /\ UNCHANGED <<rows, ghost>>

\* The tmp objects go last, and a failure only leaves them to the cleanup.
Sweep(w) ==
  /\ Pc(w) = "sweep"
  /\ \E t \in {"none", outside.tmp} : outside' = [outside EXCEPT !.tmp = t]
  /\ Done(w)
  /\ UNCHANGED <<rows, ghost>>

\* reference_attachments_view: a file the user already has.
Reference(w) ==
  /\ NewFile \in Files
  /\ Load(w, "reference", "refer", NewFile)
  /\ ghost' = [ghost EXCEPT !.ids = @ + 1]

AddReference(w) ==
  /\ Pc(w) = "refer"
  /\ Saved(w, [procs[w].seen EXCEPT ![procs[w].file] =
                 [kind |-> "reference", used |-> FALSE]])
  /\ Done(w)
  /\ UNCHANGED outside

DeleteAttachment(w, f) ==
  /\ f <= ghost.ids
  /\ Load(w, "delete", "remove", f)
  /\ UNCHANGED ghost

\* lock_attachments, the checks, remove_attachment and the commit.
Removable(w) ==
  LET a == procs[w].seen[procs[w].file]
  IN /\ a.kind # "none"
     /\ ~(a.used /\ rows.req = "queued")
     /\ rows.req # "running"

RemoveRecord(w) ==
  /\ Pc(w) = "remove"
  /\ IF Removable(w)
       THEN /\ Saved(w, [procs[w].seen EXCEPT ![procs[w].file] = NoAtt])
            /\ IF procs[w].seen[procs[w].file].kind = "upload"
                 THEN To(w, "unlink") ELSE Done(w)
       ELSE Done(w) /\ UNCHANGED <<rows, ghost>>
  /\ UNCHANGED outside

\* The bytes after the commit; a failure leaves them to the user.
Unlink(w) ==
  /\ Pc(w) = "unlink"
  /\ \/ /\ outside' = [outside EXCEPT !.files = @ \ {procs[w].file}]
        /\ UNCHANGED ghost
     \/ /\ ghost' = [ghost EXCEPT !.left = @ \cup {procs[w].file}]
        /\ UNCHANGED outside
  /\ Done(w)
  /\ UNCHANGED rows

\* update_conversation with another tool_approval_mode, without any lock.
Update(w) == Load(w, "update", "update", 0) /\ UNCHANGED ghost

UpdateConversation(w) ==
  /\ Pc(w) = "update"
  /\ Saved(w, procs[w].seen)
  /\ Done(w)
  /\ UNCHANGED outside

\* bind_attachments_to_request in the transaction that submits the request;
\* it has locked and refreshed the conversation.  A free thread dispatches
\* the request at once, a halted one keeps it waiting.
Submit(f, st) ==
  /\ rows.req = "none" /\ rows.conv.st = "active"
  /\ rows.atts[f].kind # "none" /\ ~rows.atts[f].used
  /\ rows' = [rows EXCEPT !.req = st, !.atts[f].used = TRUE]
  /\ ghost' = [ghost EXCEPT !.needs = {f}]
  /\ UNCHANGED <<procs, outside>>

Dispatch ==
  /\ rows.req = "queued"
  /\ rows' = [rows EXCEPT !.req = "running"]
  /\ UNCHANGED <<procs, outside, ghost>>

Finish ==
  /\ rows.req = "running"
  /\ rows' = [rows EXCEPT !.req = "done"]
  /\ ghost' = [ghost EXCEPT !.needs = {}]
  /\ UNCHANGED <<procs, outside>>

\* The server dies under the request, or the client goes away.
Crash(w) ==
  /\ Pc(w) # "idle"
  /\ ghost' = [ghost EXCEPT !.left = IF Pc(w) \in {"record", "unlink"}
                                     THEN @ \cup {procs[w].file} ELSE @]
  /\ Done(w)
  /\ UNCHANGED <<rows, outside>>

Next ==
  \/ CreateProject \/ DeleteProject \/ DeleteThread \/ BindAgent \/ UnbindAgent
  \/ LoseDirectory
  \/ UploadTmp \/ ParseTmp \/ CleanupTmp
  \/ Dispatch \/ Finish
  \/ \E f \in Files, st \in {"queued", "running"} : Submit(f, st)
  \/ \E w \in Clients :
       \/ \E to \in {"p", "own"} : CreateLook(w, to)
       \/ TakeProject(w) \/ TakeOwn(w) \/ Scope(w) \/ AddConversation(w)
       \/ Recover(w) \/ Answer(w)
       \/ Confirm(w) \/ Store(w) \/ AddRecord(w) \/ AddFails(w) \/ Sweep(w)
       \/ Reference(w) \/ AddReference(w)
       \/ \E f \in Files : DeleteAttachment(w, f)
       \/ RemoveRecord(w) \/ Unlink(w) \/ Update(w) \/ UpdateConversation(w)
       \/ Crash(w)

Spec == Init /\ [][Next]_vars

-----------------------------------------------------------------------------

\* A live conversation belongs to a live project, whichever of creation,
\* replay, agent binding and deletion came first.
NoOrphanConversation ==
  rows.conv.st = "active" => rows.project[rows.conv.project] = "active"

\* Who got an answer got a conversation in the project it asked for, though
\* all clients used the same request id.
IntentKept == \A a \in ghost.answers : a.to = a.got

\* Unless a session has written back metadata it had loaded before another
\* change: a record has its bytes, also after crashes and errors anywhere in
\* the confirmation or the deletion of the attachment.
RecordsHaveBytes ==
  ~ghost.stale =>
    \A f \in Files : rows.atts[f].kind = "upload" => f \in outside.files

\* Unless metadata was overwritten: what a waiting or running request has
\* been given stays attached to it.
RequestKeepsFiles ==
  ~ghost.stale => \A f \in ghost.needs : rows.atts[f].used

\* Bytes without a record are in the hands of a client, or were left over by
\* a crash or a failed deletion.
NoStrayBytes ==
  ~ghost.stale =>
    \A f \in outside.files : \/ rows.atts[f].kind = "upload"
                             \/ \E w \in Clients : procs[w].file = f
                             \/ f \in ghost.left

\* As documented, and not so: updates of the attachments of a thread are made
\* one after the other, each from what the one before has left.
UpdatesSerialised == ~ghost.stale

\* Conversations live in live projects of the intent they were asked for,
\* and attachments, their bytes and the requests that use them stay together.
ThreadsSafe ==
  /\ NoOrphanConversation /\ IntentKept /\ RecordsHaveBytes
  /\ RequestKeepsFiles /\ NoStrayBytes

=============================================================================
