------------------------------ MODULE Governance ------------------------------
(***************************************************************************)
(* The topics and tasks of a project and the pull of issues from Multica:  *)
(* services/governance_service.py and services/channel_sync_service.py.    *)
(*                                                                         *)
(* A channel may only propose; a review makes a row canonical or rejected, *)
(* for good.  A pull reads the issues page by page, the newest first, and  *)
(* proposes those it does not find; the cursor of the project advances to  *)
(* the newest one when all that is newer than the old cursor was read.     *)
(* Issues come, change and go while pages are read, and those of one       *)
(* instant are listed in any order, which may be another at the next page. *)
(***************************************************************************)
EXTENDS Naturals, FiniteSets

CONSTANTS Workers,   \* pulls: requests of users and workers' loops
          NoOne,
          Issues,    \* issues of the workspace: numbers
          MaxTime,   \* bound: updated_at
          MaxPages,  \* MULTICA_SYNC_MAX_PAGES; a page has one issue
          Users      \* who edits and reviews

VARIABLES
  rows,     \* cursor; owner, live: its lease; st, text: status and version
            \*   per topic; task: the status of a task
  procs,    \* per pull: cursor and newest issue seen, pages and issues read
  outside,  \* at: updated_at per issue, 0: there is none; tie: the order of
            \*   those of one instant; now: Multica's time
  ghost     \* moved: issues were deleted or reordered during a pull; back: the
            \*   cursor was moved back; reviewed: text per topic when decided

vars == <<rows, procs, outside, ghost>>

Idle == [pc |-> "idle", from |-> 0, seen |-> 0, offset |-> 0, issue |-> 0]

Init ==
  /\ rows = [cursor |-> 0, owner |-> NoOne, live |-> FALSE,
             st |-> [i \in Issues |-> "none"], text |-> [i \in Issues |-> 0],
             task |-> "none"]
  /\ procs = [w \in Workers |-> Idle]
  /\ outside = [at |-> [i \in Issues |-> 0], tie |-> [i \in Issues |-> i],
                now |-> 1]
  /\ ghost = [moved |-> FALSE, back |-> FALSE,
              reviewed |-> [i \in Issues |-> 0]]

Over(w) == procs' = [procs EXCEPT ![w] = Idle]
Pulls == {w \in Workers : procs[w].pc # "idle"}

-----------------------------------------------------------------------------
(* Multica.                                                                *)

Present == {i \in Issues : outside.at[i] # 0}

\* An issue is made or changed, perhaps in the same instant as another.
Touch(i) ==
  \E t \in {outside.now, outside.now + 1} \cap (1 .. MaxTime) :
    /\ t # outside.at[i]
    /\ outside' = [outside EXCEPT !.at[i] = t, !.now = t]
    /\ UNCHANGED <<rows, procs, ghost>>

Remove(i) ==
  /\ i \in Present
  /\ outside' = [outside EXCEPT !.at[i] = 0]
  /\ ghost' = [ghost EXCEPT !.moved = @ \/ Pulls # {}]
  /\ UNCHANGED <<rows, procs>>

\* list_issues has the newest first; the order of those of one instant is the
\* server's.
Newer(i, j) == \/ outside.at[i] > outside.at[j]
               \/ /\ outside.at[i] = outside.at[j]
                  /\ outside.tie[i] > outside.tie[j]

\* The server keeps to no order of them, of those to come neither.
Orders == {o \in [Issues -> Issues] :
             \A i, j \in Issues : o[i] = o[j] => i = j}
Reorder ==
  /\ \E o \in Orders : outside' = [outside EXCEPT !.tie = o]
  /\ LET seen == \E i, j \in Present : Newer(i, j) /\ ~Newer(i, j)'
     IN ghost' = [ghost EXCEPT !.moved = @ \/ (Pulls # {} /\ seen)]
  /\ UNCHANGED <<rows, procs>>

Listed(k) == {i \in Present : Cardinality({j \in Present : Newer(j, i)}) = k}

-----------------------------------------------------------------------------
(* pull_multica.                                                           *)

\* _claim_cursor; converge takes the lease away when it is over.
Claim(w) ==
  /\ procs[w] = Idle /\ ~rows.live
  /\ rows' = [rows EXCEPT !.owner = w, !.live = TRUE]
  /\ procs' = [procs EXCEPT ![w] = [Idle EXCEPT !.pc = "page",
                 !.from = rows.cursor, !.seen = rows.cursor]]
  /\ UNCHANGED <<outside, ghost>>

\* Faulty variant: the cursor advances also when the pages were not enough.
ConsumedAnyway(w) == TRUE

\* All that is newer than the cursor was read: the list or the page ends, or
\* an issue older than the cursor is met; not when the pages are used up.
Consumed(w) ==
  \/ Listed(procs[w].offset) = {}
  \/ \E i \in Listed(procs[w].offset) : outside.at[i] < procs[w].from

Page(w) ==
  /\ procs[w].pc = "page" /\ procs[w].offset < MaxPages
  /\ \E i \in Listed(procs[w].offset) :
       /\ outside.at[i] >= procs[w].from
       /\ procs' = [procs EXCEPT ![w].pc = "import", ![w].issue = i,
                      ![w].offset = @ + 1, ![w].seen =
                        IF outside.at[i] > @ THEN outside.at[i] ELSE @]
  /\ UNCHANGED <<rows, outside, ghost>>

\* create_governance_topic; what is there already is skipped.
Import(w) ==
  LET i == procs[w].issue
  IN /\ procs[w].pc = "import"
     /\ rows' = [rows EXCEPT !.st[i] = IF @ = "none" THEN "proposed" ELSE @]
     /\ procs' = [procs EXCEPT ![w].pc = "page", ![w].issue = 0]
     /\ UNCHANGED <<outside, ghost>>

\* The token of _finish_cursor, with a lease that runs.
OwnsCursor(w) == rows.owner = w /\ rows.live

Freed == [rows EXCEPT !.owner = NoOne, !.live = FALSE]

Finish(w) ==
  /\ procs[w].pc = "page"
  /\ procs[w].offset >= MaxPages \/ Consumed(w)
  /\ LET to == IF Consumed(w) THEN procs[w].seen ELSE procs[w].from
     IN IF OwnsCursor(w)
          THEN /\ rows' = [Freed EXCEPT !.cursor = to]
               /\ ghost' = [ghost EXCEPT !.back = @ \/ to < rows.cursor]
          ELSE UNCHANGED <<rows, ghost>>
  /\ Over(w)
  /\ UNCHANGED outside

\* Any failure of a page or an import: the cursor stays where it was.
PullFails(w) ==
  /\ procs[w].pc # "idle" /\ Over(w)
  /\ rows' = IF OwnsCursor(w) THEN Freed ELSE rows
  /\ UNCHANGED <<outside, ghost>>

Crash(w) ==
  /\ procs[w].pc # "idle" /\ Over(w)
  /\ UNCHANGED <<rows, outside, ghost>>

LeaseEnds ==
  /\ rows.live /\ rows' = [rows EXCEPT !.live = FALSE]
  /\ UNCHANGED <<procs, outside, ghost>>

-----------------------------------------------------------------------------
(* Topics and tasks, under the lock of the row.                            *)

\* update_governance_topic and replies.
Edit(i) ==
  /\ rows.st[i] = "proposed" /\ rows.text[i] = 0
  /\ rows' = [rows EXCEPT !.text[i] = 1]
  /\ UNCHANGED <<procs, outside, ghost>>

Review(i) ==
  /\ rows.st[i] = "proposed"
  /\ \E st \in {"canonical", "rejected"} :
       rows' = [rows EXCEPT !.st[i] = st]
  /\ ghost' = [ghost EXCEPT !.reviewed[i] = rows.text[i] + 1]
  /\ UNCHANGED <<procs, outside>>

CreateTask ==
  /\ rows.task = "none" /\ \E i \in Issues : rows.st[i] # "none"
  /\ rows' = [rows EXCEPT !.task = "proposed"]
  /\ UNCHANGED <<procs, outside, ghost>>

ReviewTask ==
  /\ rows.task = "proposed"
  /\ \E st \in {"canonical", "rejected"} : rows' = [rows EXCEPT !.task = st]
  /\ UNCHANGED <<procs, outside, ghost>>

\* dispatch_project_task: only a canonical task is delegated.
DelegateTask ==
  /\ rows.task = "canonical"
  /\ rows' = [rows EXCEPT !.task = "delegated"]
  /\ UNCHANGED <<procs, outside, ghost>>

Next ==
  \/ LeaseEnds \/ Reorder
  \/ Users # {} /\ (CreateTask \/ ReviewTask \/ DelegateTask)
  \/ \E i \in Issues : Touch(i) \/ Remove(i)
                         \/ (Users # {} /\ (Edit(i) \/ Review(i)))
  \/ \E w \in Workers : Claim(w) \/ Page(w) \/ Import(w) \/ Finish(w)
                          \/ PullFails(w) \/ Crash(w)

Spec == Init /\ [][Next]_vars

-----------------------------------------------------------------------------
(* What holds of governance.                                               *)

\* Every issue older than the cursor has been proposed, however many pulls
\* failed or died on the way and in whatever order the issues of one instant
\* were listed each time; unless issues were deleted or reordered between
\* two pages of one pull.
NothingSkipped ==
  ~ghost.moved => \A i \in Present :
                   outside.at[i] < rows.cursor => rows.st[i] # "none"

\* A pull that has lost its lease does not move the cursor back.
CursorForward == ~ghost.back

\* What was decided on is what stands: neither an edit nor a pull changes a
\* topic once it was reviewed.
ReviewStands ==
  \A i \in Issues : ghost.reviewed[i] # 0 =>
    /\ rows.st[i] \in {"canonical", "rejected"}
    /\ rows.text[i] + 1 = ghost.reviewed[i]

=============================================================================
