----------------------------- MODULE Delegations -----------------------------
(***************************************************************************)
(* One delegation to an outside executor: services/delegation_service.py   *)
(* with the executors of delegation/multica.py and delegation/sandbox.py.  *)
(*                                                                         *)
(* The intent is committed first, under a lease; then the executor is      *)
(* asked, then its handle recorded.  A worker converges delegations whose  *)
(* lease is over, holding the row while it asks.  Multica makes a work     *)
(* item by a request of its own, found again by the marker in its text;    *)
(* the turn of a sandbox is written with the handle, in one transaction.   *)
(* The lease is looked at by the convergence only.                         *)
(***************************************************************************)
EXTENDS Naturals, FiniteSets

CONSTANTS Workers,   \* executions: requests of users and workers' loops
          NoOne,
          Multica,   \* the executor: Multica, or a sandbox
          MaxItems   \* bound: work items or turns made

VARIABLES
  rows,     \* st: dispatch_state, "none" before; live: the lease runs;
            \*   handle: the item recorded, 0: none; result: the item whose
            \*   result is recorded; lock: who holds the row
  procs,    \* per execution: what it does next, and the item it got
  outside,  \* items: work items or turns there; done: those that have ended
  ghost     \* slow: a lease ran out while its holder was dispatching;
            \*   overlap: two were collecting; reopened: a result was undone

vars == <<rows, procs, outside, ghost>>

Items == 1 .. MaxItems
Idle == [pc |-> "idle", item |-> 0]

Init ==
  /\ rows = [st |-> "none", live |-> FALSE, handle |-> 0, result |-> 0,
             lock |-> NoOne]
  /\ procs = [w \in Workers |-> Idle]
  /\ outside = [items |-> {}, done |-> {}]
  /\ ghost = [slow |-> FALSE, overlap |-> FALSE, reopened |-> FALSE]

Goes(w, pc, i) == procs' = [procs EXCEPT ![w] = [pc |-> pc, item |-> i]]
Over(w) == procs' = [procs EXCEPT ![w] = Idle]
Free(w) == rows.lock \in {NoOne, w}

NewItem == CHOOSE i \in Items : i \notin outside.items /\ \A j \in Items :
             j \notin outside.items => i <= j

LeaseEnds ==
  /\ rows.live /\ rows' = [rows EXCEPT !.live = FALSE]
  /\ ghost' = [ghost EXCEPT !.slow = @ \/ \E w \in Workers :
                 procs[w].pc \in {"search", "create", "apply"}]
  /\ UNCHANGED <<procs, outside>>

\* The state a writer leaves, whatever it finds; reopened if it undoes an end.
Leaves(st) ==
  ghost' = [ghost EXCEPT !.reopened =
              @ \/ (rows.st = "reclaimed" /\ st # "reclaimed")]

-----------------------------------------------------------------------------
(* dispatch, and _converge_pending, which does the same under the row lock. *)

Dispatch(w) ==
  /\ rows.st = "none" /\ procs[w] = Idle
  /\ rows' = [rows EXCEPT !.st = "pending", !.live = TRUE]
  /\ Goes(w, "search", 0)
  /\ UNCHANGED <<outside, ghost>>

Converge(w) ==
  /\ procs[w] = Idle /\ rows.lock = NoOne /\ rows.st = "pending" /\ ~rows.live
  /\ rows' = [rows EXCEPT !.lock = w]
  /\ Goes(w, "search", 0)
  /\ UNCHANGED <<outside, ghost>>

\* _find_by_operation: the items with the marker of the operation.
Marked == outside.items

Search(w) ==
  /\ Multica /\ procs[w].pc = "search"
  /\ IF Marked # {} THEN \E i \in Marked : Goes(w, "apply", i)
                    ELSE Goes(w, "create", 0)
  /\ UNCHANGED <<rows, outside, ghost>>

\* create_issue; the answer may be lost.
Create(w) ==
  /\ procs[w].pc = "create" /\ outside.items # Items
  /\ outside' = [outside EXCEPT !.items = @ \cup {NewItem}]
  /\ Goes(w, "apply", NewItem) \/ Goes(w, "error", 0)
  /\ UNCHANGED <<rows, ghost>>

\* The handle of a work item is recorded, whatever the row has become.
Apply(w) ==
  /\ procs[w].pc = "apply" /\ Free(w)
  /\ rows' = [rows EXCEPT !.st = "dispatched", !.handle = procs[w].item,
                          !.live = FALSE, !.lock = NoOne]
  /\ Leaves("dispatched") /\ Over(w)
  /\ UNCHANGED outside

\* SandboxCodingExecutor.dispatch: session and turn are written with the
\* handle.
ApplyTurn(w) ==
  /\ ~Multica /\ procs[w].pc = "search" /\ Free(w) /\ outside.items # Items
  /\ outside' = [outside EXCEPT !.items = @ \cup {NewItem}]
  /\ rows' = [rows EXCEPT !.st = "dispatched", !.handle = NewItem,
                          !.live = FALSE, !.lock = NoOne]
  /\ Leaves("dispatched") /\ Over(w)

Fails(w) ==
  /\ procs[w].pc \in {"search", "create"} /\ Goes(w, "error", 0)
  /\ UNCHANGED <<rows, outside, ghost>>

\* _record_error: the delegation stays pending, for the convergence.
RecordError(w) ==
  /\ procs[w].pc = "error" /\ Free(w)
  /\ rows' = [rows EXCEPT !.live = FALSE, !.lock = NoOne]
  /\ Over(w)
  /\ UNCHANGED <<outside, ghost>>

-----------------------------------------------------------------------------
(* collect.                                                                *)

\* A collection is claimed whether or not another one is under way.
Collect(w) ==
  /\ procs[w] = Idle /\ rows.lock = NoOne
  /\ rows.st \in {"dispatched", "collecting"}
  /\ rows' = [rows EXCEPT !.st = "collecting", !.live = TRUE]
  /\ Goes(w, "collect", rows.handle)
  /\ ghost' = [ghost EXCEPT !.overlap =
                 @ \/ \E v \in Workers :
                         procs[v].pc \in {"collect", "giveback", "store"}]
  /\ UNCHANGED outside

\* The turn has not ended, or the request failed.
NotReady(w) ==
  /\ procs[w].pc = "collect"
  /\ Multica \/ procs[w].item \notin outside.done
  /\ Goes(w, "giveback", procs[w].item)
  /\ UNCHANGED <<rows, outside, ghost>>

Ready(w) ==
  /\ procs[w].pc = "collect"
  /\ Multica \/ procs[w].item \in outside.done
  /\ Goes(w, "store", procs[w].item)
  /\ UNCHANGED <<rows, outside, ghost>>

GiveBack(w) ==
  /\ procs[w].pc = "giveback" /\ Free(w)
  /\ rows' = [rows EXCEPT !.st = "dispatched", !.live = FALSE]
  /\ Leaves("dispatched") /\ Over(w)
  /\ UNCHANGED outside

Store(w) ==
  /\ procs[w].pc = "store" /\ Free(w)
  /\ rows' = [rows EXCEPT !.st = "reclaimed", !.live = FALSE,
                          !.result = procs[w].item]
  /\ Over(w)
  /\ UNCHANGED <<outside, ghost>>

\* converge: a collection that was left is made possible again.
Reset(w) ==
  /\ procs[w] = Idle /\ rows.lock = NoOne
  /\ rows.st = "collecting" /\ ~rows.live
  /\ rows' = [rows EXCEPT !.st = "dispatched"]
  /\ UNCHANGED <<procs, outside, ghost>>

ItemEnds(i) ==
  /\ ~Multica /\ i \in outside.items \ outside.done
  /\ outside' = [outside EXCEPT !.done = @ \cup {i}]
  /\ UNCHANGED <<rows, procs, ghost>>

\* A process dies, and its row lock with it.
Crash(w) ==
  /\ procs[w] # Idle /\ Over(w)
  /\ rows' = [rows EXCEPT !.lock = IF @ = w THEN NoOne ELSE @]
  /\ UNCHANGED <<outside, ghost>>

Next ==
  \/ LeaseEnds
  \/ \E i \in Items : ItemEnds(i)
  \/ \E w \in Workers :
       Dispatch(w) \/ Converge(w) \/ Search(w) \/ Create(w) \/ Apply(w)
         \/ ApplyTurn(w) \/ Fails(w) \/ RecordError(w) \/ Collect(w)
         \/ NotReady(w) \/ Ready(w) \/ GiveBack(w) \/ Store(w) \/ Reset(w)
         \/ Crash(w)

Spec == Init /\ [][Next]_vars

-----------------------------------------------------------------------------
(* What holds of a delegation.                                             *)

\* One work item or turn is made for a delegation, whoever dies on the way
\* and whichever answers are lost; unless a lease ran out during a dispatch.
OneItem == ghost.slow \/ Cardinality(outside.items) <= 1

\* As documented, and not so: one operation never makes a second work item.
NoSecondItem == Cardinality(outside.items) <= 1

\* What is recorded is an item that was made for the delegation, and the
\* result is that item's.
HandleIsItem ==
  /\ rows.st \in {"dispatched", "collecting", "reclaimed"} =>
       rows.handle \in outside.items
  /\ rows.result # 0 /\ ~ghost.slow => rows.result = rows.handle
  /\ rows.result # 0 /\ ~Multica => rows.result \in outside.done

\* A result that was collected stays; unless two collected at a time, or a
\* lease ran out during a dispatch.
ReclaimedStays == ghost.reopened => ghost.overlap \/ ghost.slow

=============================================================================
