-------------------------- MODULE DedicatedSandboxes --------------------------
(***************************************************************************)
(* The sandbox of an agent in a project: services/sandbox_lifecycle_       *)
(* service.py (ready, suspend, rebuild), sandbox_lease_service.py (who     *)
(* works in it), sandbox_lifecycle_supervisor_service.py (the tick),       *)
(* sandbox_management_service.py and coding_thread_sandbox_service.py      *)
(* (requests of users), and agents/backends/sandbox/provider.py (the       *)
(* connections a process remembers).                                       *)
(*                                                                         *)
(* A transaction that makes the sandbox ready holds the lock of its row    *)
(* while it deletes and creates the container; the container is not part   *)
(* of the transaction.  Whoever works in it has a lease on the row; the    *)
(* requests of users and the making ready do not ask for one.              *)
(***************************************************************************)
EXTENDS Naturals

CONSTANTS Holders,  \* runs and coding turns, in the worker process
          NoOne,
          Confirm,  \* resume_policy is "confirm"
          Requests, \* what users ask: subset of {"ensure", "suspend", "rebuild"}
          MaxGen,   \* bound: containers created
          MaxKeys   \* bound: changes of the coding credentials

VARIABLES
  rows,     \* agent_sandboxes: st, key (credential_fingerprint), owner, live
            \*   (lease_expires_at is to come)
  procs,    \* tx: the transaction that holds the row's lock; h: holders;
            \*   tick: the supervisor; cache: generation per process, 0: none
  outside,  \* the container (gen, key of its environment), and the user's
            \*   credentials
  ghost     \* orphan: the container was made by a transaction that was rolled
            \*   back; fresh: leases taken since the tick read the row;
            \*   killed: the tick removed a container under another lease

vars == <<rows, procs, outside, ghost>>

NoTx == [by |-> NoOne, pc |-> "none", st |-> "absent", key |-> 0, want |-> 0,
         made |-> FALSE, last |-> TRUE, blind |-> FALSE]
IdleHolder == [pc |-> "idle", want |-> 0, gen |-> 0]
NoBox == [gen |-> 0, key |-> 0]

Init ==
  /\ rows = [st |-> "absent", key |-> 0, owner |-> NoOne, live |-> FALSE]
  /\ procs = [tx |-> NoTx, h |-> [w \in Holders |-> IdleHolder],
              tick |-> [pc |-> "idle", has |-> FALSE],
              cache |-> [worker |-> 0, api |-> 0]]
  /\ outside = [box |-> NoBox, made |-> 0, key |-> 1]
  /\ ghost = [orphan |-> FALSE, fresh |-> {}, killed |-> FALSE]

Box == outside.box
Tx == procs.tx
Free == Tx.by = NoOne
H(w) == procs.h[w]
\* The process whose provider the transaction uses.
Of(a) == IF a = "api" THEN "api" ELSE "worker"
Cached == procs.cache[Of(Tx.by)]

-----------------------------------------------------------------------------
(* Leases.                                                                 *)

HoldsLease(w) == rows.owner = w /\ rows.live

\* ensure_binding, when the manifest of a run is prepared: the row, which
\* says active before there is a container, and the credentials as they are.
Bind(w) ==
  /\ H(w).pc = "idle" /\ Free
  /\ rows' = [rows EXCEPT !.st = IF @ = "absent" THEN "active" ELSE @]
  /\ procs' = [procs EXCEPT !.h[w] = [pc |-> "bound", want |-> outside.key,
                                      gen |-> 0]]
  /\ UNCHANGED <<outside, ghost>>

\* _try_acquire: unless someone else holds a lease that is not over.
Acquire(w) ==
  /\ H(w).pc = "bound" /\ Free /\ rows.st # "absent"
  /\ rows.owner \in {NoOne, w} \/ ~rows.live
  /\ rows' = [rows EXCEPT !.owner = w, !.live = TRUE]
  /\ procs' = [procs EXCEPT !.h[w].pc = "leased"]
  /\ ghost' = [ghost EXCEPT !.fresh =
                 IF procs.tick.pc = "suspend" THEN @ \cup {w} ELSE {}]
  /\ UNCHANGED outside

\* SandboxBusyError after the wait.
GiveUpWaiting(w) ==
  /\ H(w).pc = "bound" /\ rows.owner \notin {NoOne, w} /\ rows.live
  /\ procs' = [procs EXCEPT !.h[w] = IdleHolder]
  /\ UNCHANGED <<rows, outside, ghost>>

\* No heartbeat in time.
LeaseEnds ==
  /\ rows.live /\ rows' = [rows EXCEPT !.live = FALSE]
  /\ UNCHANGED <<procs, outside, ghost>>

\* owns_active after the runtime was made ready, before anything is run.
Enter(w) ==
  /\ H(w).pc = "ready" /\ Free /\ HoldsLease(w)
  /\ procs' = [procs EXCEPT !.h[w].pc = "work"]
  /\ UNCHANGED <<rows, outside, ghost>>

\* The end of the work, a lost lease, an error: release, if it is the owner.
Leave(w) ==
  /\ H(w).pc \in {"leased", "ready", "work"} /\ Free
  /\ rows' = IF rows.owner = w
               THEN [rows EXCEPT !.owner = NoOne, !.live = FALSE] ELSE rows
  /\ procs' = [procs EXCEPT !.h[w] = IdleHolder]
  /\ UNCHANGED <<outside, ghost>>

-----------------------------------------------------------------------------
(* ensure_ready, suspend: a transaction under the lock of the row.         *)

\* Where ensure_ready begins: a new row, a suspended one, or one that says
\* its container is there.  A container is not rebuilt without confirmation,
\* and an exception takes the transaction back.
ResumeOrRaise == IF Confirm THEN "raise" ELSE "create"
FirstStep == CASE rows.st = "absent" -> "create"
               [] rows.st = "suspended" -> ResumeOrRaise
               [] OTHER -> "look"

Begin(a, p, want, last) ==
  /\ Free
  /\ procs' = [procs EXCEPT !.tx = [NoTx EXCEPT !.by = a, !.pc = p,
                 !.st = rows.st, !.key = rows.key, !.want = want,
                 !.last = last]]

\* ensure_prepared_sandbox_runtime, CodingExecutionService.prepare.
BeginEnsure(w) ==
  /\ H(w).pc = "leased" /\ Begin(w, FirstStep, H(w).want, FALSE)
  /\ UNCHANGED <<rows, outside, ghost>>

\* provision, open_terminal, delegations: no lease is asked for.
BeginRequest(q) ==
  /\ \/ q = "ensure" /\ Begin("api", FirstStep, outside.key, FALSE)
     \/ q = "suspend" /\ rows.st = "active" /\ Begin("api", "delete", 0, TRUE)
     \/ q = "rebuild" /\ rows.st # "absent"
        /\ Begin("api", IF rows.st = "active" THEN "delete" ELSE ResumeOrRaise,
                 outside.key, FALSE)
  /\ UNCHANGED <<rows, outside, ghost>>

TxGoes(p) == procs' = [procs EXCEPT !.tx.pc = p]
Remembers(g, tx) ==
  procs' = [procs EXCEPT !.cache[Of(Tx.by)] = g, !.tx = tx]

\* Faulty variant: a container is kept whatever credentials it was made with.
KeepsBoxAny == TRUE

\* A container is kept when the row says it has these credentials.
KeepsBox == Tx.key = Tx.want

\* get_scope without create_if_missing.  A remembered connection is asked
\* for, and believed when the request fails.
Look ==
  /\ Tx.pc = "look"
  /\ LET found == IF KeepsBox THEN "commit" ELSE "delete"
     IN \/ Box # NoBox /\ Remembers(Box.gen, [Tx EXCEPT !.pc = found])
        \/ Box = NoBox /\ Remembers(0, [Tx EXCEPT !.st = "suspended",
                                                  !.pc = ResumeOrRaise])
        \/ Cached # 0 /\ Remembers(Cached, [Tx EXCEPT !.pc = found,
                                                      !.blind = TRUE])
  /\ UNCHANGED <<rows, outside, ghost>>

\* release_scope: the generation this process remembers, or the one it
\* finds; the provisioner refuses to delete another one.
Delete ==
  /\ Tx.pc = "delete"
  /\ IF Cached # 0 /\ Box # NoBox /\ Cached # Box.gen
       THEN TxGoes("raise") /\ UNCHANGED <<outside, ghost>>
       ELSE /\ Remembers(0, [Tx EXCEPT !.st = "suspended", !.blind = FALSE,
                 !.pc = IF Tx.last THEN "commit" ELSE ResumeOrRaise])
            /\ outside' = [outside EXCEPT !.box = NoBox]
            /\ ghost' = [ghost EXCEPT !.orphan = FALSE, !.killed =
                 @ \/ /\ Tx.by = "sup" /\ Box # NoBox
                      /\ rows.live /\ rows.owner \notin ghost.fresh]
  /\ UNCHANGED rows

\* get_scope with create_if_missing: the container that is there, if any;
\* else a new one with the environment of this request.
Create ==
  /\ Tx.pc = "create" /\ (Box = NoBox => outside.made < MaxGen)
  /\ LET new == [gen |-> outside.made + 1, key |-> Tx.want]
         box == IF Box = NoBox THEN new ELSE Box
     IN /\ outside' = [outside EXCEPT !.box = box, !.made =
                         IF Box = NoBox THEN @ + 1 ELSE @]
        /\ Remembers(box.gen, [Tx EXCEPT !.st = "active", !.key = Tx.want,
                                 !.made = Box = NoBox, !.pc = "commit"])
  /\ UNCHANGED <<rows, ghost>>

\* The same with a remembered connection that cannot be asked for: it is
\* believed, and nothing is made.
CreateBelieved ==
  /\ Tx.pc = "create" /\ Cached # 0
  /\ Remembers(Cached, [Tx EXCEPT !.st = "active", !.key = Tx.want,
                                  !.blind = TRUE, !.pc = "commit"])
  /\ UNCHANGED <<rows, outside, ghost>>

\* What becomes of a holder when its transaction is over.
After(p) ==
  IF Tx.by \in Holders
    THEN [procs.h EXCEPT ![Tx.by].pc = p, ![Tx.by].gen =
            IF p = "ready" /\ ~Tx.blind THEN Box.gen ELSE 0]
    ELSE procs.h
EndTx(p) ==
  procs' = [procs EXCEPT !.tx = NoTx, !.h = After(p), !.tick =
              IF Tx.by = "sup" THEN [pc |-> "idle", has |-> FALSE] ELSE @]

Commit ==
  /\ Tx.pc = "commit"
  /\ rows' = [rows EXCEPT !.st = Tx.st, !.key = Tx.key]
  /\ EndTx("ready")
  /\ UNCHANGED <<outside, ghost>>

\* An exception, a failed request or commit: the row stays as it was, the
\* container as it is.
Rollback ==
  /\ ~Free
  /\ EndTx("leased")
  /\ ghost' = [ghost EXCEPT !.orphan = @ \/ (Tx.made /\ Box # NoBox)]
  /\ UNCHANGED <<rows, outside>>

\* The worker process dies, with everything it remembers.
Crash ==
  /\ procs' = [procs EXCEPT
       !.tx = IF Tx.by = "api" THEN @ ELSE NoTx,
       !.h = [w \in Holders |-> IdleHolder],
       !.tick = [pc |-> "idle", has |-> FALSE], !.cache.worker = 0]
  /\ ghost' = [ghost EXCEPT !.orphan =
       @ \/ (Tx.by # "api" /\ Tx.made /\ Box # NoBox)]
  /\ UNCHANGED <<rows, outside>>

-----------------------------------------------------------------------------
(* The supervisor.                                                         *)

\* run_sandbox_lifecycle_tick: the inventory first ...
TickList ==
  /\ procs.tick.pc = "idle"
  /\ procs' = [procs EXCEPT !.tick = [pc |-> "rows", has |-> Box # NoBox]]
  /\ UNCHANGED <<rows, outside, ghost>>

\* A lease that is not over when the row is read.
Spares == rows.owner # NoOne /\ rows.live

\* ... then expired leases are cleared and the rows read, without a lock
\* unless one was cleared.  A sandbox whose container is missing, or that
\* has been idle, is to be suspended, at once if its lease was cleared.
TickRead ==
  /\ procs.tick.pc = "rows" /\ Tx.by # "sup"
  /\ LET expired == rows.owner # NoOne /\ ~rows.live
     IN /\ expired => Free
        /\ rows' = IF expired THEN [rows EXCEPT !.owner = NoOne] ELSE rows
        /\ \/ /\ rows.st = "active" /\ ~Spares
              /\ IF expired
                   THEN procs' = [procs EXCEPT !.tx = [NoTx EXCEPT
                          !.by = "sup", !.pc = "delete", !.st = rows.st,
                          !.key = rows.key]]
                   ELSE procs' = [procs EXCEPT !.tick.pc = "suspend"]
           \/ /\ rows.st # "active" \/ Spares \/ procs.tick.has
              /\ procs' = [procs EXCEPT !.tick = [pc |-> "idle",
                                                  has |-> FALSE]]
  /\ ghost' = [ghost EXCEPT !.fresh = {}]
  /\ UNCHANGED outside

\* suspend waits for the lock, and does not look again who holds a lease;
\* nor at the status, the session still has the row as it was read.
TickSuspend ==
  /\ procs.tick.pc = "suspend" /\ Begin("sup", "delete", 0, TRUE)
  /\ UNCHANGED <<rows, outside, ghost>>

-----------------------------------------------------------------------------
(* Around it.                                                              *)

\* The container dies, or the provisioner takes it away.
BoxDies ==
  /\ Box # NoBox /\ outside' = [outside EXCEPT !.box = NoBox]
  /\ ghost' = [ghost EXCEPT !.orphan = FALSE]
  /\ UNCHANGED <<rows, procs>>

\* The user changes the coding credentials.
NewKey ==
  /\ outside.key < MaxKeys /\ outside' = [outside EXCEPT !.key = @ + 1]
  /\ UNCHANGED <<rows, procs, ghost>>

Next ==
  \/ \E w \in Holders :
       Bind(w) \/ Acquire(w) \/ GiveUpWaiting(w) \/ BeginEnsure(w) \/ Enter(w)
         \/ Leave(w)
  \/ \E q \in Requests : BeginRequest(q)
  \/ LeaseEnds \/ Look \/ Delete \/ Create \/ CreateBelieved \/ Commit
  \/ Rollback \/ Crash
  \/ TickList \/ TickRead \/ TickSuspend \/ BoxDies \/ NewKey

Spec == Init /\ [][Next]_vars

-----------------------------------------------------------------------------
(* What holds of dedicated sandboxes.                                      *)

\* Whoever works in the container it was given works with the credentials
\* that were prepared for it, though others suspend, rebuild and change
\* credentials meanwhile; unless the container is left over from a
\* transaction that was taken back.
HoldersHaveCredentials ==
  \A w \in Holders :
    H(w).pc = "work" /\ H(w).gen = Box.gen /\ Box # NoBox /\ ~ghost.orphan =>
      Box.key = H(w).want

\* Between transactions the row knows the container: what it was made with,
\* and that a suspended sandbox has none.
RowKnowsBox ==
  Free /\ Box # NoBox /\ ~ghost.orphan => rows.st = "active"
                                            /\ Box.key = rows.key

\* The tick does not take the container from an execution that had its
\* lease when the row was read.
SupervisorSpares == ~ghost.killed

\* As documented, and not so: the supervisor does not delete the runtime of
\* an active owner.
OwnersSpared ==
  [][Tx.by = "sup" /\ Delete => Box = NoBox \/ ~rows.live]_vars

=============================================================================
