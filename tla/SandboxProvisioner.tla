-------------------------- MODULE SandboxProvisioner --------------------------
(***************************************************************************)
(* docker/sandbox_provisioner/app.py: the service that creates, finds,     *)
(* proxies to and deletes the containers agents work in, with the pins     *)
(* that make deletions wait for requests, the idle reaper and the          *)
(* quiescence before a storage migration.  One process, many threads: a    *)
(* request is a thread w and the reaper is one more.                       *)
(***************************************************************************)
EXTENDS Naturals, FiniteSets

CONSTANTS Boxes,        \* sandbox ids
          Threads,      \* requests being served
          Reaper,       \* the idle reaper's thread
          NoThread,
          Kube,         \* KubernetesProvisionerBackend, else the Docker one
          Kinds,        \* the requests that come: "create", "get", "proxy",
                        \* "ws", "delete", "quiesce"
          Asks,         \* who may ask for one id: [who, ttl]
          Before,       \* what is there when the service starts
          MaxGen,       \* bound: containers created
          DeleteSlots,  \* SANDBOX_DELETE_CONCURRENCY
          MayFail,      \* bound: whether the container engine refuses calls
          MayRestart    \* bound: whether the service restarts

VARIABLES
  rows,     \* memory of the service: pins, gate, locks, activity
  procs,    \* per thread, what it is doing
  outside,  \* containers (or pods) and their networks (or services)
  ghost     \* generations made so far, and what must not happen

vars == <<rows, procs, outside, ghost>>

All == Threads \cup {Reaper}

\* gen: container id; ask: the labels it was created with; ok: mounts and
\* network are as this release expects; up: it answers; dying: a deleted pod
\* that is still there.
NoBox == [gen |-> 0, ask |-> [who |-> "none", ttl |-> "global"],
          ok |-> TRUE, up |-> FALSE, dying |-> FALSE]

\* pc; kind of request; s, ask: its arguments; gen: the generation it
\* expects or has found, with its ttl; then: where a deletion inside another
\* request goes on.
Free == [pc |-> "idle", kind |-> "none", s |-> "none", ask |-> NoBox.ask,
         gen |-> 0, ttl |-> "global", then |-> "none"]

NotSeen == [gen |-> 0, old |-> FALSE, ttl |-> "global"]

\* SandboxIdleReaper._seed_existing: what is there counts as active now.
Seeded(b) == IF b.gen = 0 THEN NotSeen
             ELSE [gen |-> b.gen, old |-> FALSE, ttl |-> b.ask.ttl]

Memory(boxes) ==
  [active |-> [s \in Boxes |-> 0], deleting |-> {}, quiet |-> FALSE,
   creates |-> 0, lock |-> [s \in Boxes |-> NoThread],
   seen |-> [s \in Boxes |-> Seeded(boxes[s])]]

Init ==
  /\ \E b \in [Boxes -> Before] :
       /\ outside = [box |-> b, net |-> [s \in Boxes |-> b[s].gen # 0]]
       /\ rows = Memory(b)
  /\ procs = [w \in All |-> Free]
  /\ ghost = [gen |-> 1, overlap |-> {}, used |-> {}, cut |-> {}, reaped |-> FALSE,
              quiet |-> FALSE]

Pc(w) == procs[w].pc
S(w) == procs[w].s
Box(w) == outside.box[S(w)]

\* _has_expected_user_data_mounts and the network it is on;
\* _pod_has_expected_mounts.
HasExpectedMounts(b) == ~Kube => b.ok
PodHasExpectedMounts(b) == Kube => b.ok
AsExpected(b) == HasExpectedMounts(b) /\ PodHasExpectedMounts(b)

\* wait_for_sandbox_ready.
Ready(b) == b.up

Becomes(w, p) == procs' = [procs EXCEPT ![w] = p]
To(w, p) == Becomes(w, [procs[w] EXCEPT !.pc = p])
Settled == UNCHANGED <<rows, outside, ghost>>

-----------------------------------------------------------------------------
(* SandboxOperationPins and SandboxQuiescenceGate.                         *)

\* acquire: waits while the sandbox is being deleted.
MayPin(s) == s \notin rows.deleting
Pinned(r, s) == [r EXCEPT !.active[s] = @ + 1]

Unpinned(r, s) == [r EXCEPT !.active[s] = IF @ <= 1 THEN 0 ELSE @ - 1]

\* Faulty variant: new requests are not held back by a waiting deletion.
HoldBackNot(s) == rows.deleting

HoldBack(s) == rows.deleting \cup {s}

\* Whether the deletion may start: every request that is under way has
\* ended.
Drained(s) == rows.active[s] = 0

Deleters(s) == {w \in All : procs[w].s = s /\ procs[w].kind \in
                  {"delete", "reap", "quiesce"} /\ procs[w].pc \in
                  {"d_wait", "d_judge", "d_lock", "d_slot", "d_gone", "d_net"}}

\* begin_delete, first half.  ghost.overlap: another deletion of the same
\* sandbox is under way; the first to end lets requests in again.
BeginDelete(w, s, kind, g) ==
  /\ rows' = [rows EXCEPT !.deleting = HoldBack(s)]
  /\ Becomes(w, [Free EXCEPT !.pc = "d_wait", !.kind = kind, !.s = s,
                             !.gen = g])
  /\ ghost' = [ghost EXCEPT !.overlap =
       IF Deleters(s) = {} THEN @ \ {s} ELSE @ \cup {s}]
  /\ UNCHANGED outside

Waited(w) ==
  /\ Pc(w) = "d_wait" /\ Drained(S(w))
  /\ To(w, IF procs[w].kind = "reap" THEN "d_judge" ELSE "d_lock")
  /\ Settled

\* forget: only what it was asked to forget, or whatever is there.
Forgotten(r, s, g) ==
  IF g \in {0, r.seen[s].gen} THEN [r EXCEPT !.seen[s] = NotSeen] ELSE r

Let(r, s) == [r EXCEPT !.deleting = @ \ {s}]

-----------------------------------------------------------------------------
(* Deleting a container: delete of both backends.                          *)

\* _sandbox_lock, or the one lock of the Kubernetes backend; reentrant.
LockFree(w) ==
  \A s \in IF Kube THEN Boxes ELSE {S(w)} : rows.lock[s] \in {NoThread, w}

\* A deletion inside create or discover expects no generation.
Expects(w) == procs[w].then = "none"

TakeLock(w) ==
  /\ Pc(w) = "d_lock" /\ LockFree(w)
  /\ rows' = [rows EXCEPT !.lock[S(w)] = w]
  /\ To(w, "d_slot")
  /\ UNCHANGED <<outside, ghost>>

\* _delete_slots, and the generation the caller expects.
Fits(w) == Expects(w) /\ procs[w].gen # 0 /\ Box(w).gen # 0 =>
             Box(w).gen = procs[w].gen

\* What a thread does after its deletion: quiescence goes on with the rest.
NextAfter(p) == IF p.kind = "quiesce"
                  THEN [Free EXCEPT !.pc = "q_list", !.kind = "quiesce"]
                  ELSE Free

\* Where a deletion ends: create goes on, or fails; the others end.  The
\* lock is let go unless create holds it.
DeleteEnds(w, done) ==
  LET p == procs[w]
      r == IF p.then \in {"build", "replace", "fail"} THEN rows
           ELSE [rows EXCEPT !.lock[p.s] = NoThread]
      e == Let(r, p.s)
  IN CASE p.then = "build" -> To(w, "c_build") /\ rows' = r
       [] p.then = "replace" ->
            To(w, IF done THEN "c_build" ELSE "c_fail") /\ rows' = r
       [] p.then = "fail" -> To(w, "c_fail") /\ rows' = r
       [] p.then = "missing" -> To(w, "f_none") /\ rows' = r
       [] done /\ p.kind \in {"delete", "quiesce"} ->
            To(w, "d_forget") /\ rows' = e
       [] OTHER ->
            /\ Becomes(w, NextAfter(p))
            /\ rows' = IF done THEN Forgotten(e, p.s, p.gen) ELSE e

\* delete_sandbox and quiescence forget when requests are let in again; the
\* reaper has done so before.
Forget(w) ==
  /\ Pc(w) = "d_forget"
  /\ rows' = Forgotten(rows, S(w), procs[w].gen)
  /\ Becomes(w, NextAfter(procs[w]))
  /\ UNCHANGED <<outside, ghost>>

TakeSlot(w) ==
  /\ Pc(w) = "d_slot"
  /\ Cardinality({o \in All : Pc(o) \in {"d_gone", "d_net"}}) < DeleteSlots
  /\ \/ Fits(w) /\ To(w, "d_gone") /\ UNCHANGED rows
     \/ (~Fits(w) \/ MayFail) /\ DeleteEnds(w, FALSE)
  /\ UNCHANGED <<outside, ghost>>

\* stop and remove; a pod only begins to go.
RemovedBox(w) ==
  [outside EXCEPT !.box[S(w)] =
     IF Kube /\ @.gen # 0 THEN [@ EXCEPT !.dying = TRUE] ELSE NoBox]

InUse(s) == \E o \in Threads : /\ procs[o].s = s /\ procs[o].pc # "pin"
                               /\ procs[o].kind \in {"create", "get", "proxy"}
                               /\ procs[o].pc # "c_touch"

\* ghost.cut: requests were under way, of the one deletion or of one of two
\* that overlap; ghost.reaped: the sandbox was to stay
\* or had been used within its timeout.
Remove(w) ==
  /\ Pc(w) = "d_gone"
  /\ outside' = RemovedBox(w)
  /\ ghost' = [ghost EXCEPT
       !.cut = IF /\ procs[w].kind \in {"delete", "reap", "quiesce"}
                  /\ Box(w).gen # 0 /\ InUse(S(w))
               THEN @ \cup {IF S(w) \in ghost.overlap THEN "overlap"
                            ELSE "alone"}
               ELSE @,
       !.reaped = \/ @
                  \/ /\ procs[w].kind = "reap" /\ Box(w).gen # 0
                     /\ \/ Box(w).ask.ttl = "never"
                        \/ S(w) \in ghost.used \ ghost.overlap]
  /\ To(w, "d_net")
  /\ UNCHANGED rows

\* _delete_network, or delete_namespaced_service; it may fail.
RemoveNet(w) ==
  /\ Pc(w) = "d_net"
  /\ \/ /\ outside' = [outside EXCEPT !.net[S(w)] = FALSE]
        /\ DeleteEnds(w, TRUE)
     \/ MayFail /\ DeleteEnds(w, FALSE) /\ UNCHANGED outside
  /\ UNCHANGED ghost

\* Kubernetes: the pod is gone at last.
PodGone(s) ==
  /\ outside.box[s].dying
  /\ outside' = [outside EXCEPT !.box[s] = NoBox]
  /\ UNCHANGED <<rows, procs, ghost>>

-----------------------------------------------------------------------------
(* Finding a container: discover of both backends.  It takes no lock.      *)

\* The container the thread reads now; what it decides later is about that.
Found(w) ==
  /\ Pc(w) = "f_read"
  /\ IF Box(w).gen = 0 \/ (Kube /\ ~outside.net[S(w)]) THEN To(w, "f_none")
     ELSE IF AsExpected(Box(w))
       THEN Becomes(w, [procs[w] EXCEPT !.gen = Box(w).gen,
              !.ttl = Box(w).ask.ttl, !.pc = IF Kube THEN "f_ok" ELSE "f_net"])
       ELSE \/ Becomes(w, [procs[w] EXCEPT !.pc = "d_lock",
                                           !.then = "missing"])
            \/ Kube /\ To(w, "f_none")
  /\ Settled

\* _ensure_network and wait_for_sandbox_ready, of whatever bears the name.
EnsureNet(w) ==
  /\ Pc(w) = "f_net"
  /\ outside' = [outside EXCEPT !.net[S(w)] = TRUE]
  /\ To(w, IF Ready(Box(w)) THEN "f_ok" ELSE "f_none")
  /\ UNCHANGED <<rows, ghost>>

\* SandboxIdleReaper.remember and touch, called one after the other.
Touched(r, w) ==
  [r EXCEPT !.seen[S(w)] = [gen |-> procs[w].gen, old |-> FALSE,
                            ttl |-> procs[w].ttl]]

\* get_sandbox and touch_sandbox end; proxy_sandbox_request sends; the
\* terminal of proxy_sandbox_websocket opens, without a pin.
FoundEnd(w) ==
  /\ Pc(w) = "f_ok"
  /\ CASE procs[w].kind = "get" ->
            rows' = Unpinned(Touched(rows, w), S(w)) /\ Becomes(w, Free)
       [] procs[w].kind = "proxy" ->
            rows' = Touched(rows, w) /\ To(w, "stream")
       [] OTHER -> rows' = Touched(rows, w) /\ To(w, "terminal")
  /\ ghost' = [ghost EXCEPT !.used =
       IF procs[w].kind \in {"get", "proxy"} THEN @ \cup {S(w)} ELSE @]
  /\ UNCHANGED outside

NotFound(w) ==
  /\ Pc(w) = "f_none"
  /\ Becomes(w, Free)
  /\ rows' = IF procs[w].kind = "ws" THEN rows ELSE Unpinned(rows, S(w))
  /\ UNCHANGED <<outside, ghost>>

\* The response has been read, or failed, or the client is gone.
StreamEnds(w) ==
  /\ Pc(w) \in {"stream", "terminal"}
  /\ Becomes(w, Free)
  /\ rows' = IF Pc(w) = "stream" THEN Unpinned(rows, S(w)) ELSE rows
  /\ UNCHANGED <<outside, ghost>>

-----------------------------------------------------------------------------
(* Creating a container: create of both backends.                          *)

LockForCreate(w) ==
  /\ Pc(w) = "c_lock" /\ LockFree(w)
  /\ rows' = [rows EXCEPT !.lock[S(w)] = w]
  /\ To(w, "c_look")
  /\ UNCHANGED <<outside, ghost>>

HandOut(w, b) == Becomes(w, [procs[w] EXCEPT !.pc = "c_ok", !.gen = b.gen,
                                             !.ttl = b.ask.ttl])

DeleteFirst(w, then) ==
  Becomes(w, [procs[w] EXCEPT !.pc = "d_lock", !.then = then])

\* The labels of the existing container, or _discovered_matches_request.
SameIdentity(w) == Box(w).ask.who = procs[w].ask.who

\* Docker: what is there is another's, is not as expected, or is reused when
\* it answers.
LookDocker(w) ==
  /\ Pc(w) = "c_look" /\ ~Kube
  /\ IF Box(w).gen = 0 THEN To(w, "c_build")
     ELSE IF ~SameIdentity(w) THEN To(w, "c_fail")
     ELSE IF AsExpected(Box(w)) THEN To(w, "c_reuse")
     ELSE DeleteFirst(w, "replace")
  /\ Settled

ReuseDocker(w) ==
  /\ Pc(w) = "c_reuse"
  /\ outside' = [outside EXCEPT !.net[S(w)] = TRUE]
  /\ IF Ready(Box(w))
       THEN HandOut(w, Box(w))
       ELSE DeleteFirst(w, "build")
  /\ UNCHANGED <<rows, ghost>>

\* A network on the next free subnet, or the one that is there.
NewNet(w) == [outside EXCEPT !.net[S(w)] = TRUE]

\* Directories and network; no address left, or no directory, and it fails.
BuildDocker(w) ==
  /\ Pc(w) = "c_build" /\ ~Kube
  /\ \/ /\ outside' = NewNet(w)
        /\ To(w, "c_run")
     \/ MayFail /\ To(w, "c_fail") /\ UNCHANGED outside
  /\ UNCHANGED <<rows, ghost>>

NewBox(w) == [gen |-> ghost.gen + 1, ask |-> procs[w].ask, ok |-> TRUE,
              up |-> TRUE, dying |-> FALSE]

\* containers.run and the wait until it answers.  The name may be taken by
\* one that could not be deleted; a failure deletes whatever bears it.
RunDocker(w) ==
  /\ Pc(w) = "c_run"
  /\ IF Box(w).gen = 0 /\ ghost.gen < MaxGen
       THEN /\ outside' = [outside EXCEPT !.box[S(w)] = NewBox(w)]
            /\ ghost' = [ghost EXCEPT !.gen = @ + 1]
            /\ \/ HandOut(w, NewBox(w))
               \/ MayFail /\ DeleteFirst(w, "fail")
       ELSE DeleteFirst(w, "fail") /\ UNCHANGED <<outside, ghost>>
  /\ UNCHANGED rows

\* Kubernetes: what discover finds is kept or refused; discover deletes what
\* is not as expected.
LookKube(w) ==
  /\ Pc(w) = "c_look" /\ Kube
  /\ IF Box(w).gen = 0 \/ ~outside.net[S(w)] THEN To(w, "c_build")
     ELSE IF ~AsExpected(Box(w)) THEN DeleteFirst(w, "build") \/ To(w, "c_fail")
     ELSE IF SameIdentity(w) THEN HandOut(w, Box(w))
     ELSE To(w, "c_fail")
  /\ Settled

\* create_namespaced_pod; a pod of that name must be the caller's.
PodKube(w) ==
  /\ Pc(w) = "c_build" /\ Kube
  /\ IF Box(w).gen = 0 /\ ghost.gen < MaxGen
       THEN /\ outside' = [outside EXCEPT !.box[S(w)] = NewBox(w)]
            /\ ghost' = [ghost EXCEPT !.gen = @ + 1]
            /\ To(w, "k_service")
       ELSE /\ To(w, IF Box(w).gen # 0 /\ SameIdentity(w) /\ AsExpected(Box(w))
                       THEN "k_service" ELSE "c_fail")
            /\ UNCHANGED <<outside, ghost>>
  /\ UNCHANGED rows

ServiceKube(w) ==
  /\ Pc(w) = "k_service"
  /\ \/ /\ outside' = [outside EXCEPT !.net[S(w)] = TRUE]
        /\ To(w, "k_find")
     \/ MayFail /\ To(w, "c_fail") /\ UNCHANGED outside
  /\ UNCHANGED <<rows, ghost>>

FindKube(w) ==
  /\ Pc(w) = "k_find"
  /\ IF Box(w).gen = 0 \/ ~SameIdentity(w) THEN To(w, "c_fail")
     ELSE IF Ready(Box(w)) THEN HandOut(w, Box(w))
     ELSE DeleteFirst(w, "fail")
  /\ Settled

\* create_sandbox: lock, pin and gate are let go, and only then is the
\* activity noted.
LetGo(w) == [Unpinned([rows EXCEPT !.lock[S(w)] = NoThread], S(w))
               EXCEPT !.creates = @ - 1]

CreateEnds(w) ==
  /\ Pc(w) \in {"c_ok", "c_fail"}
  /\ rows' = LetGo(w)
  /\ IF Pc(w) = "c_ok" THEN To(w, "c_touch") ELSE Becomes(w, Free)
  /\ UNCHANGED <<outside, ghost>>

CreateTouches(w) ==
  /\ Pc(w) = "c_touch"
  /\ rows' = Touched(rows, w)
  /\ Becomes(w, Free)
  /\ UNCHANGED <<outside, ghost>>

-----------------------------------------------------------------------------
(* The requests, the reaper, and quiescence.                               *)

\* acquire_create: after quiesce no creation starts.
StartCreate(w, s, a) ==
  /\ Pc(w) = "idle" /\ ~rows.quiet
  /\ rows' = [rows EXCEPT !.creates = @ + 1]
  /\ Becomes(w, [Free EXCEPT !.pc = "pin", !.kind = "create", !.s = s,
                             !.ask = a])
  /\ UNCHANGED <<outside, ghost>>

StartFind(w, s, kind) ==
  /\ Pc(w) = "idle"
  /\ Becomes(w, [Free EXCEPT !.pc = IF kind = "ws" THEN "f_read" ELSE "pin",
                             !.kind = kind, !.s = s])
  /\ Settled

Pin(w) ==
  /\ Pc(w) = "pin" /\ MayPin(S(w))
  /\ rows' = Pinned(rows, S(w))
  /\ To(w, IF procs[w].kind = "create" THEN "c_lock" ELSE "f_read")
  /\ UNCHANGED <<outside, ghost>>

\* delete_sandbox, with a generation the caller has seen or with none (0).
StartDelete(w, s, g) == Pc(w) = "idle" /\ BeginDelete(w, s, "delete", g)

\* Time passes: the sandbox has been idle for its timeout.
GrowOld(s) ==
  /\ rows.seen[s].gen # 0 /\ ~rows.seen[s].old
  /\ rows' = [rows EXCEPT !.seen[s].old = TRUE]
  /\ ghost' = [ghost EXCEPT !.used = @ \ {s}]
  /\ UNCHANGED <<procs, outside>>

\* _collect_expired_sandboxes.
Expired(s) == /\ rows.seen[s].gen # 0 /\ rows.seen[s].old
              /\ rows.seen[s].ttl # "never"

Reap(s) == /\ Pc(Reaper) = "idle" /\ Expired(s)
           /\ BeginDelete(Reaper, s, "reap", rows.seen[s].gen)

\* _delete_expired_sandbox: nobody has used it in the meantime.
StillExpired(w) == /\ Expired(S(w))
                   /\ rows.seen[S(w)].gen = procs[w].gen

Judge(w) ==
  /\ Pc(w) = "d_judge"
  /\ IF StillExpired(w) THEN To(w, "d_lock") /\ UNCHANGED rows
     ELSE Becomes(w, Free) /\ rows' = Let(rows, S(w))
  /\ UNCHANGED <<outside, ghost>>

StartQuiesce(w) ==
  /\ Pc(w) = "idle"
  /\ rows' = [rows EXCEPT !.quiet = TRUE]
  /\ Becomes(w, [Free EXCEPT !.pc = "q_wait", !.kind = "quiesce"])
  /\ UNCHANGED <<outside, ghost>>

NoCreates == rows.creates = 0

QuiesceWaited(w) == /\ Pc(w) = "q_wait" /\ NoCreates
                    /\ To(w, "q_list") /\ Settled

\* backend.list: one of what is left is deleted, nothing left and it
\* returns, or the time is over.
QuiesceList(w) ==
  /\ Pc(w) = "q_list"
  /\ LET left == {s \in Boxes : outside.box[s].gen # 0}
     IN \/ \E s \in left :
             BeginDelete(w, s, "quiesce", outside.box[s].gen)
        \/ /\ left = {}
           /\ ghost' = [ghost EXCEPT !.quiet = TRUE]
           /\ Becomes(w, Free) /\ UNCHANGED <<rows, outside>>
        \/ left # {} /\ Becomes(w, Free) /\ Settled

\* A container stops answering.
Sicken(s) ==
  /\ outside.box[s].up
  /\ outside' = [outside EXCEPT !.box[s].up = FALSE]
  /\ UNCHANGED <<rows, procs, ghost>>

\* The service is restarted: threads and memory are gone, containers stay.
Restart ==
  /\ MayRestart /\ \E w \in All : Pc(w) # "idle"
  /\ procs' = [w \in All |-> Free]
  /\ rows' = Memory(outside.box)
  /\ ghost' = [ghost EXCEPT !.quiet = FALSE, !.overlap = {}]
  /\ UNCHANGED outside

Starts(w) ==
  \/ \E s \in Boxes :
       \/ "create" \in Kinds /\ \E a \in Asks : StartCreate(w, s, a)
       \/ \E k \in Kinds \cap {"get", "proxy", "ws"} : StartFind(w, s, k)
       \/ "delete" \in Kinds /\ \E g \in 0 .. ghost.gen : StartDelete(w, s, g)
  \/ "quiesce" \in Kinds /\ StartQuiesce(w)

\* What a thread does next, engine and clients permitting.
GoesOn(w) ==
  \/ Pin(w) \/ Waited(w) \/ TakeLock(w) \/ TakeSlot(w) \/ Remove(w)
  \/ RemoveNet(w) \/ Found(w) \/ EnsureNet(w) \/ FoundEnd(w) \/ NotFound(w)
  \/ StreamEnds(w) \/ LockForCreate(w) \/ LookDocker(w) \/ ReuseDocker(w)
  \/ BuildDocker(w) \/ RunDocker(w) \/ LookKube(w) \/ PodKube(w)
  \/ ServiceKube(w) \/ FindKube(w) \/ CreateEnds(w) \/ CreateTouches(w)
  \/ Forget(w) \/ Judge(w) \/ QuiesceWaited(w) \/ QuiesceList(w)

Next ==
  \/ \E w \in Threads : Starts(w)
  \/ \E w \in All : GoesOn(w)
  \/ \E s \in Boxes : Reap(s) \/ GrowOld(s) \/ Sicken(s) \/ PodGone(s)
  \/ Restart

Spec == Init /\ [][Next]_vars

-----------------------------------------------------------------------------
(* What holds of sandboxes.                                                *)

\* A deletion takes a container away only when no request to it is under
\* way; two deletions of one sandbox at a time are excepted, as the first to
\* end lets requests in.
RequestsDrain == "alone" \notin ghost.cut

\* What SandboxOperationPins says of itself: a deletion waits for the requests
\* that have started, and no new one passes it.
DeletionsDrain == ghost.cut = {}

\* The reaper leaves sandboxes alone that are to stay, or that a request has
\* used within the timeout, although activity, timeouts and containers of
\* one name change independently.
ResidentStays == ~ghost.reaped

\* After a quiescence there is no container, and there will be none.
QuietForGood == ghost.quiet => \A s \in Boxes : outside.box[s].gen = 0

\* Nobody is handed a container that was made for somebody else.
OwnContainer ==
  \A w \in Threads :
    procs[w].kind = "create" /\ Pc(w) = "c_ok" /\ procs[w].gen = Box(w).gen =>
      Box(w).ask.who = procs[w].ask.who

\* Docker: a container is never without its network, whoever creates,
\* deletes or finds it.
BoxHasNet == ~Kube => \A s \in Boxes : outside.box[s].gen # 0 => outside.net[s]

=============================================================================
