-------------------------- MODULE RequestQueueProofs --------------------------
(***************************************************************************)
(* Proofs about RequestQueue for any finite set of requests and of runs.   *)
(***************************************************************************)
EXTENDS RequestQueue, FiniteSetTheorems, WellFoundedInduction, TLAPS

RunStatuses == {"absent", "completed", "failed", "cancelled", "interrupted"}
                 \cup ActiveStatuses

RunType ==
  /\ status \in [Runs -> RunStatuses]
  /\ fenced \in [Runs -> BOOLEAN]
  /\ newest \in Runs \cup {NoRun}
  /\ parent \in [Runs -> Runs \cup {NoRun}]
  /\ finished \in [Runs -> Nat]

RequestType ==
  /\ arrival \in Seq(Requests)
  /\ \A i, j \in 1 .. Len(arrival) : arrival[i] = arrival[j] => i = j
  /\ req \in [Requests -> RequestStatuses]
  /\ policy \in [Requests -> Policies]
  /\ runOf \in [Requests -> Runs \cup {NoRun}]
  /\ halted \subseteq Requests

\* A request has a row when it has arrived.
Arrived ==
  \A q \in Requests :
    req[q] # "absent" <=> \E i \in 1 .. Len(arrival) : arrival[i] = q

Typed == RunType /\ RequestType /\ Arrived

\* Only the newest run can hold the thread.
NewestHolds ==
  /\ \A r \in Runs : Holds(r) => r = newest
  /\ newest # NoRun => status[newest] # "absent"

\* Requests that were dispatched and runs that resume no other one are
\* paired off.
Paired ==
  /\ \A q \in Requests : (req[q] = "dispatched") <=> (runOf[q] # NoRun)
  /\ \A q \in Requests : runOf[q] # NoRun =>
       status[runOf[q]] # "absent" /\ parent[runOf[q]] = NoRun
  /\ \A q, o \in Requests : runOf[q] # NoRun /\ runOf[q] = runOf[o] => q = o
  /\ \A r \in Runs : status[r] # "absent" /\ parent[r] = NoRun =>
       \E q \in Requests : runOf[q] = r

\* Interrupted runs that are not the newest one and runs that resume one
\* are paired off.
Resumed ==
  /\ \A x \in Runs : parent[x] # NoRun =>
       /\ status[x] # "absent"
       /\ status[parent[x]] = "interrupted"
       /\ parent[x] # newest
  /\ \A x, y \in Runs : parent[x] # NoRun /\ parent[x] = parent[y] => x = y
  /\ \A r \in Runs : status[r] = "interrupted" /\ r # newest =>
       \E x \in Runs : parent[x] = r

\* PoliciesKept without cardinalities.
Waiting ==
  /\ \A q, o \in PendingSteer : q = o
  /\ \A q \in Queued : policy[q] # "reject"

Stopped == newest # NoRun /\ status[newest] \in {"failed", "cancelled"}

\* What a failure stopped is behind that failure for as long as it waits,
\* and so is a request that waits to steer.
HaltedBehind ==
  /\ \A r \in Runs : finished[r] <= Len(arrival)
  /\ \A q \in halted : req[q] # "absent"
  /\ \A q \in halted \cap Queued :
       Stopped /\ Created(q) <= finished[newest]
  /\ Stopped => \A q \in PendingSteer : Created(q) <= finished[newest]

QueueInv ==
  /\ Typed
  /\ NewestHolds
  /\ Paired
  /\ Resumed
  /\ NoOvertaking
  /\ Waiting
  /\ HaltedBehind

-----------------------------------------------------------------------------
(* The order of the queue.                                                 *)

\* Every set of numbers that is not empty has a least one.
LEMMA LeastNumber ==
  ASSUME NEW T, T \subseteq Nat, T # {}
  PROVE  \E x \in T : \A y \in T : x <= y
<1> DEFINE R == {ss \in Nat \X Nat : ss[1] < ss[2]}
<1>1. IsWellFoundedOn(R, Nat)
  BY NatLessThanWellFounded, Zenon DEF OpToRel
<1> HIDE DEF R
<1>2. PICK x \in T : \A y \in T : <<y, x>> \notin R
  BY <1>1, WFMin
<1>3. ASSUME NEW y \in T
      PROVE  x <= y
  <2>1. x \in Nat /\ y \in Nat
    OBVIOUS
  <2>2. y < x => <<y, x>> \in R
    BY <2>1 DEF R
  <2> QED
    BY <1>2, <2>1, <2>2
<1> QED
  BY <1>2, <1>3

\* created_at is the place of a request among those that arrived.
LEMMA CreatedPlace ==
  ASSUME RequestType, NEW i \in 1 .. Len(arrival)
  PROVE  Created(arrival[i]) = i
  BY DEF RequestType, Created

\* A request that arrived has one place.
LEMMA CreatedRange ==
  ASSUME RequestType, Arrived, NEW o \in Requests, req[o] # "absent"
  PROVE  Created(o) \in 1 .. Len(arrival) /\ arrival[Created(o)] = o
<1>1. PICK i \in 1 .. Len(arrival) : arrival[i] = o
  BY DEF Arrived
<1> QED
  BY <1>1, CreatedPlace

\* It does not change when others arrive.
LEMMA CreatedStays ==
  ASSUME RequestType, Arrived, NEW q \in Requests, req[q] = "absent",
         arrival' = Append(arrival, q),
         NEW o \in Requests, req[o] # "absent"
  PROVE  Created(o)' = Created(o)
<1>1. Created(o) \in 1 .. Len(arrival) /\ arrival[Created(o)] = o
  BY CreatedRange
<1>2. /\ Created(o) \in 1 .. Len(arrival') /\ arrival'[Created(o)] = o
      /\ \A j \in 1 .. Len(arrival') : arrival'[j] = o => j = Created(o)
  BY <1>1 DEF RequestType, Arrived
<1> QED
  BY <1>2 DEF Created

\* The queue has a first request: the one that steers, or else the oldest.
LEMMA HeadFirst ==
  ASSUME Typed, Waiting, Queued # {}
  PROVE  Head1 \in Queued /\ \A o \in Queued \ {Head1} : Before(Head1, o)
<1> USE DEF Typed
<1>1. SUFFICES \E q \in Queued : \A o \in Queued \ {q} : Before(q, o)
  BY <1>1 DEF Head1
<1>2. CASE PendingSteer # {}
  <2>1. PICK q \in PendingSteer : TRUE
    BY <1>2
  <2>2. ASSUME NEW o \in Queued \ {q}
        PROVE  Before(q, o)
    BY <2>1, <2>2 DEF Waiting, Before, PendingSteer
  <2> QED
    BY <2>1, <2>2 DEF PendingSteer
<1>3. CASE PendingSteer = {}
  <2> DEFINE T == {Created(q) : q \in Queued}
  <2>1. \A q \in Queued : /\ q \in Requests /\ Created(q) \in Nat
                          /\ arrival[Created(q)] = q
    BY CreatedRange DEF Queued
  <2>2. T \subseteq Nat /\ T # {}
    BY <2>1
  <2>3. PICK x \in T : \A y \in T : x <= y
    BY <2>2, LeastNumber
  <2>4. PICK q \in Queued : x = Created(q)
    BY <2>3
  <2>5. ASSUME NEW o \in Queued \ {q}
        PROVE  Before(q, o)
    <3>1. Created(q) <= Created(o) /\ Created(q) # Created(o)
      BY <2>1, <2>3, <2>4, <2>5
    <3>2. policy[q] # "steer" /\ policy[o] # "steer"
      BY <1>3, <2>4, <2>5 DEF PendingSteer
    <3> QED
      BY <2>1, <2>4, <2>5, <3>1, <3>2 DEF Before
  <2> QED
    BY <2>4, <2>5
<1> QED
  BY <1>2, <1>3

-----------------------------------------------------------------------------
(* The shapes of steps.                                                    *)

\* A request that is not dispatched at once: one that steers is held up by
\* a run, never by a failure alone.
SubmitWaits(q, p) ==
  /\ req' = [req EXCEPT ![q] = IF p = "reject" THEN "rejected" ELSE "queued"]
  /\ UNCHANGED <<threadVars, runOf, finished, halted>>
  /\ p = "steer" => ~Settled \/ Stops(Len(arrival) + 1)

\* The head h of the queue is dispatched as q joins it.
SubmitStarts(q, p, h, r) ==
  /\ ~RefusesToWait(p)
  /\ Dispatch(h, r)
  /\ req' = [req EXCEPT ![q] = "queued", ![h] = "dispatched"]
  /\ halted' = {}

Joins(q, p) ==
  /\ Accepts(q, p)
  /\ arrival' = Append(arrival, q)
  /\ policy' = [policy EXCEPT ![q] = p]

LEMMA SubmitShape ==
  ASSUME NEW q \in Requests, NEW p \in Policies, Submit(q, p)
  PROVE  /\ Joins(q, p)
         /\ \/ SubmitWaits(q, p)
            \/ \E r \in Runs : SubmitStarts(q, p, HeadWith(q, p), r)
<1>1. CASE p = "steer"
  BY <1>1 DEF Submit, Joins, SubmitWaits, SubmitStarts, HeadWith, RefusesToWait
<1>2. CASE p # "steer"
  BY <1>2 DEF Submit, Joins, SubmitWaits, SubmitStarts
<1> QED
  BY <1>1, <1>2

\* The head is the new request or one that waited before it.
LEMMA HeadShape ==
  ASSUME Typed, Waiting, NEW q \in Requests, NEW p \in Policies,
         Accepts(q, p)
  PROVE  /\ HeadWith(q, p) \in Requests
         /\ \/ HeadWith(q, p) = q /\ (p = "steer" \/ Queued = {})
            \/ /\ HeadWith(q, p) = Head1 /\ p # "steer" /\ Queued # {}
               /\ Head1 \in Queued /\ Head1 # q
  BY HeadFirst DEF HeadWith, Queued, Accepts

\* A step of a run that holds the thread.
RunMoves(r, s, b) ==
  /\ Holds(r)
  /\ status[r] \in ActiveStatuses \/ s = status[r]
  /\ status' = [status EXCEPT ![r] = s]
  /\ fenced' = [fenced EXCEPT ![r] = b]
  /\ UNCHANGED <<newest, parent, arrival, req, policy, runOf>>
  /\ \/ /\ s \in {"failed", "cancelled"} => s = status[r]
        /\ s = "interrupted" => s = status[r]
        /\ UNCHANGED <<finished, halted>>
     \/ /\ finished' = [finished EXCEPT ![r] = Len(arrival)]
        /\ halted' = IF s \in {"failed", "cancelled"} THEN halted \cup Queued
                     ELSE halted

LEMMA RunShape ==
  ASSUME Typed, NewestHolds, NEW r \in Runs,
         RunGoesOn(r) \/ ExecutionEnds(r) \/ CancelledEarly(r)
  PROVE  \E s \in RunStatuses \ {"absent"}, b \in BOOLEAN : RunMoves(r, s, b)
<1> USE DEF Typed, RunType
<1>1. CASE RunGoesOn(r)
  <2> USE DEF RunGoesOn, queueVars, Holds, ActiveStatuses
  <2>1. CASE Begin(r)
    <3>1. RunMoves(r, "running", FALSE)
      BY <1>1, <2>1 DEF Begin, RunMoves
    <3> QED
      BY <3>1 DEF RunStatuses
  <2>2. CASE GiveBack(r)
    <3>1. RunMoves(r, "pending", TRUE)
      BY <1>1, <2>2 DEF GiveBack, RunMoves
    <3> QED
      BY <3>1 DEF RunStatuses
  <2>3. CASE AskToStop(r)
    <3>1. RunMoves(r, "cancel_requested", fenced[r])
      BY <1>1, <2>3 DEF AskToStop, RunMoves
    <3> QED
      BY <3>1 DEF RunStatuses
  <2>4. CASE LiftFence(r)
    <3>1. status[r] # "absent"
      BY <2>4, QueueAssumption DEF LiftFence, NewestHolds
    <3>2. RunMoves(r, status[r], FALSE)
      BY <1>1, <2>4 DEF LiftFence, RunMoves
    <3> QED
      BY <3>1, <3>2
  <2> QED
    BY <1>1, <2>1, <2>2, <2>3, <2>4
<1>2. CASE ExecutionEnds(r)
  <2>1. PICK s \in {"completed", "failed", "cancelled", "interrupted"} :
          End(r, s) /\ Stamp(r, s)
    BY <1>2 DEF ExecutionEnds
  <2>2. status[r] \in ActiveStatuses
    BY <2>1 DEF End, EndsOf, ActiveStatuses
  <2>3. RunMoves(r, s, TRUE)
    BY <2>1, <2>2 DEF RunMoves, End, Stamp, queueVars, Holds
  <2> QED
    BY <2>3 DEF RunStatuses
<1>3. CASE CancelledEarly(r)
  <2>1. RunMoves(r, "cancelled", FALSE)
    BY <1>3 DEF CancelledEarly, CancelUnbegun, RunMoves, Stamp, queueVars,
                Holds, ActiveStatuses
  <2> QED
    BY <2>1 DEF RunStatuses
<1> QED
  BY <1>1, <1>2, <1>3

\* Every step has one of these shapes.
LEMMA StepShape ==
  ASSUME QueueInv, QueueNext
  PROVE  \/ \E q \in Requests, p \in Policies : Joins(q, p) /\ SubmitWaits(q, p)
         \/ \E q \in Requests, p \in Policies, r \in Runs :
              Joins(q, p) /\ SubmitStarts(q, p, HeadWith(q, p), r)
         \/ \E q \in Requests : Promote(q)
         \/ \E q \in Requests : CancelQueued(q)
         \/ \E r \in Runs : DispatchNext(r) \/ Continue(r)
         \/ \E r \in Runs : Resume(r)
         \/ \E r \in Runs, s \in RunStatuses \ {"absent"}, b \in BOOLEAN :
              RunMoves(r, s, b)
<1>1. CASE \E q \in Requests, p \in Policies : Submit(q, p)
  BY <1>1, SubmitShape
<1>2. CASE \E r \in Runs :
             RunGoesOn(r) \/ ExecutionEnds(r) \/ CancelledEarly(r)
  BY <1>2, RunShape DEF QueueInv
<1> QED
  BY <1>1, <1>2, Zenon DEF QueueNext

-----------------------------------------------------------------------------
(* Each part of the invariant is kept.                                     *)

LEMMA TypedKept ==
  ASSUME QueueInv, QueueNext
  PROVE  Typed'
<1> USE DEF QueueInv, Typed, RunType, RequestType, Arrived, RequestStatuses
<1>1. ASSUME NEW q \in Requests, NEW p \in Policies, Joins(q, p)
      PROVE  /\ arrival' \in Seq(Requests)
             /\ \A i, j \in 1 .. Len(arrival') : arrival'[i] = arrival'[j] => i = j
             /\ policy' \in [Requests -> Policies]
             /\ \A o \in Requests : (\E i \in 1 .. Len(arrival') : arrival'[i] = o)
                  <=> (o = q \/ req[o] # "absent")
  <2>1. req[q] = "absent"
    BY <1>1 DEF Joins, Accepts
  <2>2. arrival' = Append(arrival, q) /\ policy' = [policy EXCEPT ![q] = p]
    BY <1>1 DEF Joins
  <2>3. /\ arrival' \in Seq(Requests) /\ Len(arrival') = Len(arrival) + 1
        /\ \A i \in 1 .. Len(arrival) : arrival'[i] = arrival[i]
        /\ arrival'[Len(arrival) + 1] = q
    BY <2>2
  <2>3a. /\ Len(arrival) \in Nat
        /\ \A i \in 1 .. Len(arrival') :
             i \in 1 .. Len(arrival) \/ i = Len(arrival) + 1
    BY <2>3
  <2>4. \A i \in 1 .. Len(arrival) : arrival[i] # q
    BY <2>1
  <2>5. \A i, j \in 1 .. Len(arrival') : arrival'[i] = arrival'[j] => i = j
    <3>1. SUFFICES ASSUME NEW i \in 1 .. Len(arrival'), NEW j \in 1 .. Len(arrival'),
                          arrival'[i] = arrival'[j]
                   PROVE  i = j
      OBVIOUS
    <3>2. CASE i = Len(arrival) + 1
      BY <2>3a, <2>3, <2>4, <3>1, <3>2
    <3>3. CASE j = Len(arrival) + 1
      BY <2>3a, <2>3, <2>4, <3>1, <3>3
    <3>4. CASE i \in 1 .. Len(arrival) /\ j \in 1 .. Len(arrival)
      BY <2>3, <3>1, <3>4
    <3> QED
      BY <2>3a, <3>2, <3>3, <3>4
  <2>6. ASSUME NEW o \in Requests
        PROVE  (\E i \in 1 .. Len(arrival') : arrival'[i] = o)
                 <=> (o = q \/ req[o] # "absent")
    <3>1. ASSUME NEW i \in 1 .. Len(arrival'), arrival'[i] = o
          PROVE  o = q \/ req[o] # "absent"
      BY <2>3a, <2>3, <3>1
    <3>2. CASE o = q
      BY <2>3, <3>2
    <3>3. CASE req[o] # "absent"
      BY <2>3, <3>3
    <3> QED
      BY <3>1, <3>2, <3>3
  <2> QED
    BY <2>2, <2>3, <2>5, <2>6
<1>2. ASSUME NEW q \in Requests, NEW p \in Policies,
             Joins(q, p), SubmitWaits(q, p)
      PROVE  Typed'
  BY <1>1, <1>2 DEF SubmitWaits, threadVars
<1>3. ASSUME NEW q \in Requests, NEW p \in Policies, NEW r \in Runs,
             Joins(q, p), SubmitStarts(q, p, HeadWith(q, p), r)
      PROVE  Typed'
  <2>1. HeadWith(q, p) \in Requests
        /\ (HeadWith(q, p) = q \/ req[HeadWith(q, p)] = "queued")
    BY <1>3, HeadShape DEF Queued, Joins
  <2>2. RunType' /\ runOf' \in [Requests -> Runs \cup {NoRun}]
    BY <1>3, <2>1 DEF SubmitStarts, Dispatch, CreateChat, Create,
                      RunStatuses, ActiveStatuses
  <2>3. /\ req' \in [Requests -> RequestStatuses] /\ halted' = {}
        /\ \A o \in Requests : req'[o] # "absent" <=> (o = q \/ req[o] # "absent")
    BY <1>3, <2>1 DEF SubmitStarts
  <2> QED
    BY <1>1, <1>3, <2>2, <2>3
<1>4. ASSUME NEW q \in Requests, Promote(q)
      PROVE  Typed'
  BY <1>4 DEF Promote, Policies, threadVars
<1>5. ASSUME NEW q \in Requests, CancelQueued(q)
      PROVE  Typed'
  BY <1>5 DEF CancelQueued, threadVars
<1>6. ASSUME NEW r \in Runs, DispatchNext(r) \/ Continue(r)
      PROVE  Typed'
  <2>1. Queued # {} /\ Start(r) /\ (halted' = halted \/ halted' = {})
    BY <1>6 DEF DispatchNext, Continue
  <2>2. Head1 \in Requests /\ req[Head1] = "queued"
    BY <2>1, HeadFirst DEF Queued
  <2> QED
    BY <2>1, <2>2 DEF Start, Dispatch, CreateChat, Create, RunStatuses,
                      ActiveStatuses
<1>7. ASSUME NEW r \in Runs, Resume(r)
      PROVE  Typed'
  BY <1>7 DEF Resume, CreateResume, Create, queueVars, Interrupted,
              RunStatuses, ActiveStatuses
<1>8. ASSUME NEW r \in Runs, NEW s \in RunStatuses \ {"absent"},
             NEW b \in BOOLEAN, RunMoves(r, s, b)
      PROVE  Typed'
  <2>1. RunType'
    BY <1>8 DEF RunMoves
  <2>2. halted' \subseteq Requests
    BY <1>8 DEF RunMoves, Queued
  <2> QED
    BY <1>8, <2>1, <2>2 DEF RunMoves
<1> QED
  BY <1>2, <1>3, <1>4, <1>5, <1>6, <1>7, <1>8, StepShape

LEMMA NewestHoldsKept ==
  ASSUME QueueInv, QueueNext
  PROVE  NewestHolds'
<1> USE QueueAssumption DEF QueueInv, Typed, RunType, NewestHolds, Holds
<1>1. ASSUME NEW r \in Runs, NEW p, Create(r, p)
      PROVE  NewestHolds'
  BY <1>1 DEF Create, ThreadFree
<1>2. ASSUME UNCHANGED threadVars
      PROVE  NewestHolds'
  BY <1>2 DEF threadVars
<1>3. ASSUME NEW q \in Requests, NEW p \in Policies, NEW r \in Runs,
             SubmitStarts(q, p, HeadWith(q, p), r)
      PROVE  NewestHolds'
  BY <1>1, <1>3 DEF SubmitStarts, Dispatch, CreateChat
<1>4. ASSUME NEW r \in Runs, DispatchNext(r) \/ Continue(r) \/ Resume(r)
      PROVE  NewestHolds'
  BY <1>1, <1>4 DEF DispatchNext, Continue, Start, Dispatch, CreateChat,
                    Resume, CreateResume
<1>5. ASSUME NEW r \in Runs, NEW s \in RunStatuses \ {"absent"},
             NEW b \in BOOLEAN, RunMoves(r, s, b)
      PROVE  NewestHolds'
  BY <1>5 DEF RunMoves
<1>6. ASSUME NEW q \in Requests, NEW p \in Policies,
             SubmitWaits(q, p) \/ Promote(q) \/ CancelQueued(q)
      PROVE  NewestHolds'
  BY <1>2, <1>6 DEF SubmitWaits, Promote, CancelQueued
<1>7. Policies # {}
  BY DEF Policies
<1> QED
  BY <1>3, <1>4, <1>5, <1>6, <1>7, StepShape

\* A request that waits, or that is new, is paired with a new run.
LEMMA PairedByDispatch ==
  ASSUME Typed, Paired, Resumed, NEW h \in Requests, NEW r \in Runs,
         Dispatch(h, r), runOf[h] = NoRun, req'[h] = "dispatched",
         \A o \in Requests \ {h} :
           (req'[o] = "dispatched") <=> (req[o] = "dispatched")
  PROVE  Paired'
<1> USE QueueAssumption DEF Typed, RunType, RequestType
<1>1. /\ runOf' = [runOf EXCEPT ![h] = r]
      /\ status[r] = "absent" /\ status' = [status EXCEPT ![r] = "pending"]
      /\ parent' = [parent EXCEPT ![r] = NoRun]
  BY DEF Dispatch, CreateChat, Create
<1>2. \A q \in Requests : runOf[q] # r
  BY <1>1 DEF Paired
<1>3. parent' = parent
  BY <1>1 DEF Resumed
<1>4. \A q \in Requests : (req'[q] = "dispatched") <=> (runOf'[q] # NoRun)
  BY <1>1 DEF Paired
<1>5. \A q \in Requests : runOf'[q] # NoRun =>
        status'[runOf'[q]] # "absent" /\ parent'[runOf'[q]] = NoRun
  BY <1>1, <1>2, <1>3 DEF Paired
<1>6. \A q, o \in Requests : runOf'[q] # NoRun /\ runOf'[q] = runOf'[o] => q = o
  BY <1>1, <1>2 DEF Paired
<1>7. \A x \in Runs : status'[x] # "absent" /\ parent'[x] = NoRun =>
        \E q \in Requests : runOf'[q] = x
  BY <1>1, <1>2, <1>3 DEF Paired
<1> QED
  BY <1>4, <1>5, <1>6, <1>7 DEF Paired

LEMMA PairedKept ==
  ASSUME QueueInv, QueueNext
  PROVE  Paired'
<1> USE QueueAssumption DEF QueueInv, Typed, RunType, RequestType
<1>1. ASSUME NEW q \in Requests, NEW p \in Policies,
             Joins(q, p), SubmitWaits(q, p)
      PROVE  Paired'
  BY <1>1 DEF SubmitWaits, threadVars, Joins, Accepts, Paired
<1>2. ASSUME NEW q \in Requests, NEW p \in Policies, NEW r \in Runs,
             Joins(q, p), SubmitStarts(q, p, HeadWith(q, p), r)
      PROVE  Paired'
  <2> DEFINE h == HeadWith(q, p)
  <2>1. /\ h \in Requests /\ req[h] # "dispatched"
        /\ req[q] = "absent"
    BY <1>2, HeadShape DEF Queued, Joins, Accepts
  <2> HIDE DEF h
  <2>2. /\ Dispatch(h, r)
        /\ req' = [req EXCEPT ![q] = "queued", ![h] = "dispatched"]
    BY <1>2 DEF SubmitStarts, h
  <2> QED
    BY <2>1, <2>2, PairedByDispatch DEF Paired
<1>3. ASSUME NEW q \in Requests, Promote(q) \/ CancelQueued(q)
      PROVE  Paired'
  BY <1>3 DEF Promote, CancelQueued, threadVars, Paired
<1>4. ASSUME NEW r \in Runs, DispatchNext(r) \/ Continue(r)
      PROVE  Paired'
  <2>1. Queued # {} /\ Start(r)
    BY <1>4 DEF DispatchNext, Continue
  <2>2. Head1 \in Requests /\ req[Head1] = "queued"
    BY <2>1, HeadFirst DEF Queued
  <2>3. Dispatch(Head1, r) /\ req' = [req EXCEPT ![Head1] = "dispatched"]
    BY <2>1 DEF Start
  <2> HIDE DEF Head1
  <2> QED
    BY <2>2, <2>3, PairedByDispatch DEF Paired
<1>5. ASSUME NEW r \in Runs, Resume(r)
      PROVE  Paired'
  BY <1>5 DEF Resume, CreateResume, Create, Interrupted, queueVars, Paired
<1>6. ASSUME NEW r \in Runs, NEW s \in RunStatuses \ {"absent"},
             NEW b \in BOOLEAN, RunMoves(r, s, b)
      PROVE  Paired'
  <2>1. status[r] # "absent"
    BY <1>6 DEF RunMoves, NewestHolds
  <2> QED
    BY <1>6, <2>1 DEF RunMoves, Paired
<1> QED
  BY <1>1, <1>2, <1>3, <1>4, <1>5, <1>6, StepShape

LEMMA ResumedKept ==
  ASSUME QueueInv, QueueNext
  PROVE  Resumed'
<1> USE QueueAssumption DEF QueueInv, Typed, RunType
<1>1. ASSUME UNCHANGED threadVars
      PROVE  Resumed'
  BY <1>1 DEF threadVars, Resumed
<1>2. ASSUME NEW r \in Runs, CreateChat(r)
      PROVE  Resumed'
  <2>1. /\ status[r] = "absent" /\ status' = [status EXCEPT ![r] = "pending"]
        /\ newest' = r /\ parent' = parent
        /\ newest # NoRun => status[newest] # "interrupted"
    BY <1>2 DEF CreateChat, Create, Resumed, Interrupted
  <2> QED
    BY <2>1 DEF Resumed
<1>3. ASSUME NEW r \in Runs, CreateResume(r)
      PROVE  Resumed'
  <2>1. /\ status[r] = "absent" /\ status' = [status EXCEPT ![r] = "pending"]
        /\ newest' = r /\ parent' = [parent EXCEPT ![r] = newest]
        /\ newest \in Runs /\ status[newest] = "interrupted" /\ newest # r
    BY <1>3 DEF CreateResume, Create, Interrupted
  <2> QED
    BY <2>1 DEF Resumed
<1>4. ASSUME NEW r \in Runs, NEW s \in RunStatuses \ {"absent"},
             NEW b \in BOOLEAN, RunMoves(r, s, b)
      PROVE  Resumed'
  BY <1>4 DEF RunMoves, NewestHolds, ActiveStatuses, Resumed
<1>5. ASSUME NEW q \in Requests, NEW p \in Policies, NEW r \in Runs,
             SubmitStarts(q, p, HeadWith(q, p), r)
      PROVE  Resumed'
  BY <1>2, <1>5 DEF SubmitStarts, Dispatch
<1>6. ASSUME NEW r \in Runs, DispatchNext(r) \/ Continue(r) \/ Resume(r)
      PROVE  Resumed'
  BY <1>2, <1>3, <1>6 DEF DispatchNext, Continue, Start, Dispatch, Resume
<1>7. ASSUME NEW q \in Requests, NEW p \in Policies,
             SubmitWaits(q, p) \/ Promote(q) \/ CancelQueued(q)
      PROVE  Resumed'
  BY <1>1, <1>7 DEF SubmitWaits, Promote, CancelQueued
<1>8. Policies # {}
  BY DEF Policies
<1> QED
  BY <1>4, <1>5, <1>6, <1>7, <1>8, StepShape

LEMMA WaitingKept ==
  ASSUME QueueInv, QueueNext
  PROVE  Waiting'
<1> USE DEF QueueInv, Typed, RequestType, Waiting, PendingSteer, Queued
<1>1. ASSUME NEW q \in Requests, NEW p \in Policies,
             Joins(q, p), SubmitWaits(q, p)
      PROVE  Waiting'
  BY <1>1 DEF SubmitWaits, Joins, Accepts
<1>2. ASSUME NEW q \in Requests, NEW p \in Policies, NEW r \in Runs,
             Joins(q, p), SubmitStarts(q, p, HeadWith(q, p), r)
      PROVE  Waiting'
  <2> DEFINE h == HeadWith(q, p)
  <2>1. /\ h \in Requests
        /\ h = q \/ (h \in Queued /\ p # "steer" /\ Queued # {})
        /\ req[q] = "absent"
        /\ p = "steer" => PendingSteer = {}
    BY <1>2, HeadShape DEF Joins, Accepts
  <2> HIDE DEF h
  <2>2. /\ req' = [req EXCEPT ![q] = "queued", ![h] = "dispatched"]
        /\ policy' = [policy EXCEPT ![q] = p]
        /\ p = "reject" => Queued = {}
    BY <1>2 DEF SubmitStarts, Joins, RefusesToWait, h
  <2> QED
    BY <2>1, <2>2
<1>3. ASSUME NEW q \in Requests, Promote(q) \/ CancelQueued(q)
      PROVE  Waiting'
  BY <1>3 DEF Promote, CancelQueued
<1>4. ASSUME NEW r \in Runs, DispatchNext(r) \/ Continue(r)
      PROVE  Waiting'
  BY <1>4 DEF DispatchNext, Continue, Start
<1>5. ASSUME NEW r \in Runs, Resume(r)
      PROVE  Waiting'
  BY <1>5 DEF Resume, queueVars
<1>6. ASSUME NEW r \in Runs, NEW s \in RunStatuses \ {"absent"},
             NEW b \in BOOLEAN, RunMoves(r, s, b)
      PROVE  Waiting'
  BY <1>6 DEF RunMoves
<1> QED
  BY <1>1, <1>2, <1>3, <1>4, <1>5, <1>6, StepShape

\* Nothing older waits behind a head that does not steer.
LEMMA HeadOldest ==
  ASSUME Typed, Waiting, Queued # {}, policy[Head1] # "steer",
         NEW i \in 1 .. Len(arrival), NEW j \in 1 .. Len(arrival),
         i < j, arrival[j] = Head1
  PROVE  req[arrival[i]] # "queued"
<1> USE DEF Typed, RequestType
<1>1. arrival[i] # Head1 /\ arrival[i] \in Requests
  OBVIOUS
<1>2. Created(arrival[i]) = i /\ Created(Head1) = j
  BY CreatedPlace
<1>3. SUFFICES ASSUME arrival[i] \in Queued PROVE FALSE
  BY <1>1, <1>3 DEF Queued
<1>4. Before(Head1, arrival[i])
  BY <1>1, <1>3, HeadFirst
<1> QED
  BY <1>2, <1>4 DEF Before

LEMMA NoOvertakingKept ==
  ASSUME QueueInv, QueueNext
  PROVE  NoOvertaking'
<1> USE DEF QueueInv, Typed, RequestType
<1>1. ASSUME NEW q \in Requests, NEW p \in Policies, Joins(q, p)
      PROVE  /\ Len(arrival') = Len(arrival) + 1 /\ Len(arrival) \in Nat
             /\ arrival'[Len(arrival) + 1] = q
             /\ \A i \in 1 .. Len(arrival) :
                  /\ arrival'[i] = arrival[i] /\ arrival[i] \in Requests
                  /\ arrival[i] # q /\ policy'[arrival[i]] = policy[arrival[i]]
             /\ policy'[q] = p
  BY <1>1 DEF Joins, Accepts, Arrived
<1>2. ASSUME NEW q \in Requests, NEW p \in Policies,
             Joins(q, p), SubmitWaits(q, p)
      PROVE  NoOvertaking'
  <2>1. SUFFICES ASSUME NEW i \in 1 .. Len(arrival'), NEW j \in 1 .. Len(arrival'),
                        i < j, req'[arrival'[j]] = "dispatched",
                        policy'[arrival'[j]] # "steer"
                 PROVE  req'[arrival'[i]] # "queued"
    BY DEF NoOvertaking
  <2>2. req'[q] # "dispatched" /\ \A o \in Requests \ {q} : req'[o] = req[o]
    BY <1>2 DEF SubmitWaits
  <2>3. i \in 1 .. Len(arrival) /\ (j \in 1 .. Len(arrival) \/ j = Len(arrival) + 1)
    BY <1>1, <1>2, <2>1
  <2>4. j \in 1 .. Len(arrival)
    BY <1>1, <1>2, <2>1, <2>2, <2>3
  <2> QED
    BY <1>1, <1>2, <2>1, <2>2, <2>3, <2>4 DEF NoOvertaking
<1>3. ASSUME NEW q \in Requests, NEW p \in Policies, NEW r \in Runs,
             Joins(q, p), SubmitStarts(q, p, HeadWith(q, p), r)
      PROVE  NoOvertaking'
  <2> DEFINE h == HeadWith(q, p)
  <2>1. SUFFICES ASSUME NEW i \in 1 .. Len(arrival'), NEW j \in 1 .. Len(arrival'),
                        i < j, req'[arrival'[j]] = "dispatched",
                        policy'[arrival'[j]] # "steer"
                 PROVE  req'[arrival'[i]] # "queued"
    BY DEF NoOvertaking
  <2>2. req' = [req EXCEPT ![q] = "queued", ![h] = "dispatched"]
    BY <1>3 DEF SubmitStarts
  <2>3. /\ h \in Requests
        /\ \/ h = q /\ (p = "steer" \/ Queued = {})
           \/ h = Head1 /\ Queued # {} /\ h \in Queued /\ h # q
    BY <1>3, HeadShape DEF Joins
  <2> HIDE DEF h
  <2>4. i \in 1 .. Len(arrival) /\ (j \in 1 .. Len(arrival) \/ j = Len(arrival) + 1)
    BY <1>1, <1>3, <2>1
  <2>5. CASE j = Len(arrival) + 1
    <3>1. h = q /\ Queued = {}
      BY <1>1, <1>3, <2>1, <2>2, <2>3, <2>5
    <3>2. req[arrival[i]] # "queued"
      BY <1>1, <1>3, <2>4, <3>1 DEF Queued
    <3> QED
      BY <1>1, <1>3, <2>2, <2>3, <2>4, <3>1, <3>2
  <2>6. CASE j \in 1 .. Len(arrival) /\ arrival[j] # h
    BY <1>1, <1>3, <2>1, <2>2, <2>3, <2>4, <2>6 DEF NoOvertaking
  <2>7. CASE j \in 1 .. Len(arrival) /\ arrival[j] = h
    <3>1. h = Head1 /\ Queued # {} /\ h # q
      BY <1>1, <1>3, <2>3, <2>7
    <3>2. policy[Head1] # "steer"
      BY <1>1, <1>3, <2>1, <2>7, <3>1
    <3>3. req[arrival[i]] # "queued"
      BY <2>1, <2>4, <2>7, <3>1, <3>2, HeadOldest
    <3> QED
      BY <1>1, <1>3, <2>2, <2>3, <2>4, <3>1, <3>3
  <2> QED
    BY <2>4, <2>5, <2>6, <2>7
<1>4. ASSUME NEW q \in Requests, Promote(q) \/ CancelQueued(q)
      PROVE  NoOvertaking'
  BY <1>4 DEF Promote, CancelQueued, NoOvertaking
<1>5. ASSUME NEW r \in Runs, DispatchNext(r) \/ Continue(r)
      PROVE  NoOvertaking'
  <2>1. Queued # {} /\ Start(r)
    BY <1>5 DEF DispatchNext, Continue
  <2>2. Head1 \in Requests /\ req[Head1] = "queued"
    BY <2>1, HeadFirst DEF Queued
  <2>3. /\ req' = [req EXCEPT ![Head1] = "dispatched"]
        /\ UNCHANGED <<arrival, policy>>
    BY <2>1 DEF Start
  <2>4. \A i, j \in 1 .. Len(arrival) :
          i < j /\ arrival[j] = Head1 /\ policy[Head1] # "steer"
            => req[arrival[i]] # "queued"
    BY <2>1, HeadOldest
  <2> QED
    BY <2>2, <2>3, <2>4 DEF NoOvertaking
<1>6. ASSUME NEW r \in Runs, Resume(r)
      PROVE  NoOvertaking'
  BY <1>6 DEF Resume, queueVars, NoOvertaking
<1>7. ASSUME NEW r \in Runs, NEW s \in RunStatuses \ {"absent"},
             NEW b \in BOOLEAN, RunMoves(r, s, b)
      PROVE  NoOvertaking'
  BY <1>7 DEF RunMoves, NoOvertaking
<1> QED
  BY <1>2, <1>3, <1>4, <1>5, <1>6, <1>7, StepShape

LEMMA HaltedBehindKept ==
  ASSUME QueueInv, QueueNext
  PROVE  HaltedBehind'
<1> USE QueueAssumption DEF QueueInv, Typed, RunType, RequestType
<1>1. ASSUME NEW q \in Requests, NEW p \in Policies,
             Joins(q, p), SubmitWaits(q, p)
      PROVE  HaltedBehind'
  <2>1. /\ req[q] = "absent" /\ Len(arrival') = Len(arrival) + 1
        /\ Len(arrival) \in Nat
    BY <1>1 DEF Joins, Accepts
  <2>2. /\ UNCHANGED <<status, fenced, newest, finished, halted>>
        /\ req' = [req EXCEPT ![q] = IF p = "reject" THEN "rejected" ELSE "queued"]
        /\ policy' = [policy EXCEPT ![q] = p]
    BY <1>1 DEF SubmitWaits, threadVars, Joins
  <2>3. \A o \in Requests : req[o] # "absent" =>
          Created(o)' = Created(o) /\ o # q
    BY <1>1, <2>1, CreatedStays DEF Joins
  <2>4. q \notin halted
    BY <2>1 DEF HaltedBehind
  <2>5. Stopped => p # "steer"
    <3>1. SUFFICES ASSUME Stopped, p = "steer" PROVE FALSE
      OBVIOUS
    <3>2. ThreadFree
      BY <1>1, <3>1 DEF Joins, Accepts, Steerable, Stopped, NewestHolds,
                        ThreadFree
    <3>3. finished[newest] <= Len(arrival) /\ finished[newest] \in Nat
      BY <3>1 DEF Stopped, HaltedBehind
    <3>4. ~Stops(Len(arrival) + 1)
      BY <2>1, <3>3 DEF Stops
    <3> QED
      BY <1>1, <3>1, <3>2, <3>4 DEF SubmitWaits, Settled, Joins, Accepts
  <2>6. Stopped' <=> Stopped
    BY <2>2 DEF Stopped
  <2>7. \A x \in Runs : finished'[x] <= Len(arrival')
    BY <2>1, <2>2 DEF HaltedBehind
  <2>8. \A o \in halted' : req'[o] # "absent"
    BY <2>2, <2>4 DEF HaltedBehind
  <2>9. \A o \in halted' \cap Queued' :
          Stopped' /\ Created(o)' <= finished'[newest']
    BY <2>2, <2>3, <2>4, <2>6 DEF HaltedBehind, Queued
  <2>10. Stopped' => \A o \in PendingSteer' : Created(o)' <= finished'[newest']
    <3>1. ASSUME Stopped, NEW o \in PendingSteer'
          PROVE  o \in PendingSteer
      BY <2>2, <2>5, <3>1 DEF PendingSteer, Queued
    <3>2. \A o \in PendingSteer : Created(o)' = Created(o)
      BY <2>3 DEF PendingSteer, Queued
    <3> QED
      BY <2>2, <2>6, <3>1, <3>2 DEF HaltedBehind
  <2> QED
    BY <2>7, <2>8, <2>9, <2>10 DEF HaltedBehind
<1>2. ASSUME NEW r \in Runs, NEW p, Create(r, p)
      PROVE  ~Stopped' /\ ThreadFree /\ newest' = r
  BY <1>2 DEF Create, Stopped
<1>3. ASSUME NEW q \in Requests, NEW p \in Policies, NEW r \in Runs,
             Joins(q, p), SubmitStarts(q, p, HeadWith(q, p), r)
      PROVE  HaltedBehind'
  <2>1. ~Stopped' /\ halted' = {} /\ finished' = finished
    BY <1>2, <1>3 DEF SubmitStarts, Dispatch, CreateChat
  <2>2. Len(arrival') = Len(arrival) + 1 /\ Len(arrival) \in Nat
    BY <1>3 DEF Joins
  <2> QED
    BY <2>1, <2>2 DEF HaltedBehind
<1>4. ASSUME NEW q \in Requests, Promote(q)
      PROVE  HaltedBehind'
  <2>1. /\ UNCHANGED <<status, newest, finished, halted, arrival, req>>
        /\ \E r \in Runs : r = newest /\ status[r] = "running"
    BY <1>4 DEF Promote, threadVars, NewestHolds, Steerable
  <2>2. ~Stopped /\ ~Stopped'
    BY <2>1 DEF Stopped
  <2> QED
    BY <2>1, <2>2 DEF HaltedBehind, Queued
<1>5. ASSUME NEW q \in Requests, CancelQueued(q)
      PROVE  HaltedBehind'
  <2>1. /\ UNCHANGED <<status, newest, finished, halted, arrival, policy>>
        /\ req' = [req EXCEPT ![q] = "cancelled"] /\ req[q] = "queued"
    BY <1>5 DEF CancelQueued, threadVars
  <2>2. /\ Stopped' <=> Stopped
        /\ \A x \in Requests : Created(x)' = Created(x)
    BY <2>1 DEF Stopped, Created
  <2>3. /\ Queued' \subseteq Queued /\ PendingSteer' \subseteq PendingSteer
        /\ \A x \in halted : req[x] # "absent" => req'[x] # "absent"
    BY <2>1 DEF Queued, PendingSteer, Typed, RequestType
  <2> QED
    BY <2>1, <2>2, <2>3 DEF HaltedBehind, Queued, PendingSteer
<1>6. ASSUME NEW r \in Runs, DispatchNext(r)
      PROVE  HaltedBehind'
  <2>1. /\ Queued # {} /\ ~Stops(Created(Head1)) /\ halted' = halted
        /\ Start(r)
    BY <1>6 DEF DispatchNext
  <2>2. /\ ~Stopped' /\ UNCHANGED <<arrival, finished>>
        /\ req' = [req EXCEPT ![Head1] = "dispatched"]
    BY <1>2, <2>1 DEF Start, Dispatch, CreateChat
  <2>3. /\ Head1 \in Queued
        /\ \A o \in Queued \ {Head1} : Before(Head1, o)
    BY <2>1, HeadFirst
  <2>4. ASSUME NEW o \in halted, o \in Queued
        PROVE  FALSE
    <3>1. Stopped /\ Created(o) <= finished[newest]
      BY <2>4 DEF HaltedBehind
    <3>2. ~(Created(Head1) <= finished[newest])
      BY <2>1, <3>1 DEF Stops, Stopped
    <3>3. o # Head1 /\ Before(Head1, o)
      BY <2>3, <2>4, <3>1, <3>2
    <3>4. /\ Created(o) \in Nat /\ Created(Head1) \in Nat
          /\ finished[newest] \in Nat
      BY <2>3, <2>4, <3>1, CreatedRange DEF Queued, Stopped
    <3>5. Head1 \in PendingSteer
      BY <2>3, <3>1, <3>2, <3>3, <3>4 DEF Before, PendingSteer
    <3> QED
      BY <3>1, <3>2, <3>5 DEF HaltedBehind
  <2>5. \A o \in Requests : req'[o] = "queued" => req[o] = "queued"
    BY <2>2, <2>3 DEF Queued
  <2>6. \A o \in Requests : req[o] # "absent" => req'[o] # "absent"
    BY <2>2, <2>3 DEF Queued
  <2> QED
    BY <2>1, <2>2, <2>4, <2>5, <2>6 DEF HaltedBehind, Queued
<1>7. ASSUME NEW r \in Runs, Continue(r)
      PROVE  HaltedBehind'
  <2>1. ~Stopped' /\ halted' = {} /\ UNCHANGED <<finished, arrival>>
    BY <1>2, <1>7 DEF Continue, Start, Dispatch, CreateChat
  <2> QED
    BY <2>1 DEF HaltedBehind
<1>8. ASSUME NEW r \in Runs, Resume(r)
      PROVE  HaltedBehind'
  <2>1. /\ ~Stopped' /\ ~Stopped
        /\ UNCHANGED <<halted, finished, arrival, req>>
    BY <1>2, <1>8 DEF Resume, CreateResume, Interrupted, queueVars, Stopped
  <2> QED
    BY <2>1 DEF HaltedBehind, Queued
<1>9. ASSUME NEW r \in Runs, NEW s \in RunStatuses \ {"absent"},
             NEW b \in BOOLEAN, RunMoves(r, s, b)
      PROVE  HaltedBehind'
  <2>1. /\ r = newest /\ newest' = newest /\ Holds(r)
        /\ status' = [status EXCEPT ![r] = s]
        /\ UNCHANGED <<arrival, req, policy>> /\ Len(arrival) \in Nat
        /\ \A o \in Requests : Created(o)' = Created(o)
    BY <1>9 DEF RunMoves, NewestHolds, Created
  <2>2. CASE /\ s \in {"failed", "cancelled"} => s = status[r]
             /\ UNCHANGED <<finished, halted>>
    <3>1. Stopped' <=> Stopped
      BY <1>9, <2>1, <2>2 DEF Stopped, RunMoves, ActiveStatuses
    <3> QED
      BY <2>1, <2>2, <3>1 DEF HaltedBehind, Queued, PendingSteer
  <2>3. CASE /\ finished' = [finished EXCEPT ![r] = Len(arrival)]
             /\ halted' = IF s \in {"failed", "cancelled"}
                            THEN halted \cup Queued ELSE halted
    <3>1. \A o \in Queued : Created(o) <= Len(arrival) /\ o \in Requests
      BY <2>1, CreatedRange DEF Queued
    <3>2. \A x \in Runs : finished'[x] <= Len(arrival')
      BY <2>1, <2>3 DEF HaltedBehind
    <3>3. \A o \in halted' : req'[o] # "absent"
      BY <2>1, <2>3 DEF HaltedBehind, Queued
    <3>4. \A o \in halted' \cap Queued' : Stopped'
      <4>1. CASE s \in {"failed", "cancelled"}
        BY <2>1, <4>1 DEF Stopped
      <4>2. CASE s \notin {"failed", "cancelled"}
        <5>1. s # status[r] => ~Stopped
          BY <1>9, <2>1 DEF RunMoves, Stopped, ActiveStatuses
        <5>2. s = status[r] => ~Stopped
          BY <2>1, <4>2 DEF Stopped
        <5> QED
          BY <2>1, <2>3, <4>2, <5>1, <5>2 DEF HaltedBehind, Queued
      <4> QED
        BY <4>1, <4>2
    <3>5. \A o \in Queued' : Created(o)' <= finished'[newest']
      BY <2>1, <2>3, <3>1 DEF Queued
    <3> QED
      BY <3>2, <3>3, <3>4, <3>5 DEF HaltedBehind, PendingSteer
  <2> QED
    BY <1>9, <2>2, <2>3 DEF RunMoves
<1> QED
  BY <1>1, <1>3, <1>4, <1>5, <1>6, <1>7, <1>8, <1>9, StepShape

-----------------------------------------------------------------------------
(* What the invariant says.                                                *)

LEMMA QueueInvInit ==
  Init => QueueInv
<1> SUFFICES ASSUME Init PROVE QueueInv
  OBVIOUS
<1> USE QueueAssumption DEF Init, ThreadInit
<1>1. Typed
  BY DEF Typed, RunType, RequestType, Arrived, RunStatuses, RequestStatuses,
         Policies
<1>2. NewestHolds /\ Paired /\ Resumed
  BY DEF NewestHolds, Holds, ActiveStatuses, Paired, Resumed
<1>3. NoOvertaking /\ Waiting /\ HaltedBehind
  BY DEF NoOvertaking, Waiting, PendingSteer, Queued, HaltedBehind, Stopped
<1> QED
  BY <1>1, <1>2, <1>3 DEF QueueInv

LEMMA QueueInvUnchanged ==
  ASSUME QueueInv, UNCHANGED vars
  PROVE  QueueInv'
<1> USE DEF vars, threadVars, queueVars, QueueInv
<1>1. Typed' /\ NewestHolds' /\ Paired' /\ Resumed'
  BY DEF Typed, RunType, RequestType, Arrived, NewestHolds, Holds, Paired,
         Resumed
<1>2. NoOvertaking' /\ Waiting' /\ HaltedBehind'
  BY DEF NoOvertaking, Waiting, PendingSteer, Queued, HaltedBehind, Stopped,
         Created
<1> QED
  BY <1>1, <1>2

LEMMA QueueInvNext ==
  QueueInv /\ [QueueNext]_vars => QueueInv'
<1>1. ASSUME QueueInv, QueueNext
      PROVE  QueueInv'
  BY <1>1, TypedKept, NewestHoldsKept, PairedKept, ResumedKept,
     NoOvertakingKept, WaitingKept, HaltedBehindKept DEF QueueInv
<1> QED
  BY <1>1, QueueInvUnchanged

\* The inductive invariant holds in every state of the queue.
THEOREM QueueInvHolds ==
  QueueSpec => []QueueInv
<1> QED
  BY QueueInvInit, QueueInvNext, PTL DEF QueueSpec

\* Counting what is paired off.
LEMMA OneOrNone ==
  ASSUME NEW S, IsFiniteSet(S), \A x, y \in S : x = y
  PROVE  Cardinality(S) <= 1 /\ (S # {} => Cardinality(S) = 1)
<1>1. CASE S = {}
  BY <1>1, FS_EmptySet
<1>2. CASE S # {}
  <2>1. PICK x \in S : TRUE
    BY <1>2
  <2>2. S = {x}
    BY <2>1
  <2>3. Cardinality({x}) = 1
    BY FS_Singleton
  <2> QED
    BY <2>2, <2>3
<1> QED
  BY <1>1, <1>2

LEMMA Counted ==
  ASSUME QueueInv
  PROVE  OneRunPerRequest /\ PoliciesKept /\ InterruptedIsResumed
<1> USE QueueAssumption DEF QueueInv, Typed, RunType, RequestType
<1>1. ASSUME NEW r \in Runs, status[r] # "absent"
      PROVE  Cardinality({q \in Requests : runOf[q] = r})
               = IF parent[r] = NoRun THEN 1 ELSE 0
  <2> DEFINE S == {q \in Requests : runOf[q] = r}
  <2>1. IsFiniteSet(S)
    BY FS_Subset
  <2>2. \A x, y \in S : x = y
    BY DEF Paired
  <2>3. CASE parent[r] = NoRun
    <3>1. S # {}
      BY <1>1, <2>3 DEF Paired
    <3> QED
      BY <2>1, <2>2, <2>3, <3>1, OneOrNone
  <2>4. CASE parent[r] # NoRun
    <3>1. S = {}
      BY <2>4 DEF Paired
    <3> QED
      BY <2>4, <3>1, FS_EmptySet
  <2> QED
    BY <2>3, <2>4
<1>2. PoliciesKept
  <2>1. IsFiniteSet(PendingSteer)
    BY FS_Subset DEF PendingSteer, Queued
  <2> QED
    BY <2>1, OneOrNone DEF Waiting, PoliciesKept
<1>3. ASSUME NEW r \in Runs, status[r] = "interrupted", r # newest
      PROVE  Cardinality({x \in Runs : parent[x] = r}) = 1
  <2> DEFINE S == {x \in Runs : parent[x] = r}
  <2>1. IsFiniteSet(S)
    BY FS_Subset
  <2>2. S # {} /\ \A x, y \in S : x = y
    BY <1>3 DEF Resumed
  <2> QED
    BY <2>1, <2>2, OneOrNone
<1> QED
  BY <1>1, <1>2, <1>3 DEF OneRunPerRequest, InterruptedIsResumed, Paired

\* The state of the queue keeps its type: the rows of requests, the order of
\* created_at, in which no request occurs twice, and the rows of runs.
THEOREM QueueTyped ==
  QueueSpec => []TypeOK
<1>1. QueueInv => TypeOK
  BY DEF QueueInv, Typed, RunType, RequestType, TypeOK
<1> QED
  BY <1>1, QueueInvHolds, PTL

\* However many runs and requests there are, at most one run of the thread
\* is active or waits for its cleanup (get_active_run_by_thread_for_user,
\* under the lock of the conversation).
THEOREM OneRunAtATimeHolds ==
  QueueSpec => []OneRunAtATime
<1>1. QueueInv => OneRunAtATime
  BY DEF QueueInv, NewestHolds, OneRunAtATime
<1> QED
  BY <1>1, QueueInvHolds, PTL

\* Submission, recovery and the continue button dispatch a request once, to
\* a run of its own, and every run answers one request or resumes one run.
THEOREM OneRunPerRequestHolds ==
  QueueSpec => []OneRunPerRequest
<1> QED
  BY Counted, QueueInvHolds, PTL

\* The order of _queued_for_thread_query is kept: nothing that does not
\* steer is dispatched while an older request waits.
THEOREM NoOvertakingHolds ==
  QueueSpec => []NoOvertaking
<1>1. QueueInv => NoOvertaking
  BY DEF QueueInv
<1> QED
  BY <1>1, QueueInvHolds, PTL

\* At most one request waits to steer, submitted so or promoted, and none
\* that must not wait.
THEOREM PoliciesKeptHolds ==
  QueueSpec => []PoliciesKept
<1> QED
  BY Counted, QueueInvHolds, PTL

\* An interrupted run is left behind only by the one run that resumes it.
THEOREM InterruptedIsResumedHolds ==
  QueueSpec => []InterruptedIsResumed
<1> QED
  BY Counted, QueueInvHolds, PTL

-----------------------------------------------------------------------------
(* What no step does.                                                      *)

\* Recovery never dispatches by itself what a failed or cancelled run
\* stopped: the user has acted since, and then nothing is stopped any more.
THEOREM HaltedNeedsUserHolds ==
  QueueSpec => HaltedNeedsUser
<1> DEFINE A == \A q \in halted : req'[q] = "dispatched" /\ req[q] # "dispatched"
                   => q \notin halted'
<1>1. ASSUME QueueInv, QueueNext
      PROVE  A
  <2>1. SUFFICES ASSUME NEW q \in halted, req'[q] = "dispatched",
                        req[q] # "dispatched"
                 PROVE  q \notin halted'
    OBVIOUS
  <2>2. q \in Requests /\ req[q] # "absent"
    BY <1>1 DEF QueueInv, Typed, RequestType, HaltedBehind
  <2>3. CASE \E r \in Runs : DispatchNext(r)
    <3>1. /\ Queued # {} /\ ~Stops(Created(Head1))
          /\ req' = [req EXCEPT ![Head1] = "dispatched"]
      BY <2>3 DEF DispatchNext, Start
    <3>2. q = Head1 /\ q \in Queued
      BY <1>1, <2>1, <2>2, <3>1, HeadFirst DEF QueueInv, Typed, RequestType
    <3>3. Stops(Created(q))
      BY <1>1, <3>2 DEF QueueInv, HaltedBehind, Stopped, Stops
    <3> QED
      BY <3>1, <3>2, <3>3
  <2>4. CASE halted' = {}
    BY <2>4
  <2>5. CASE UNCHANGED req
    BY <2>1, <2>5
  <2>6. CASE \E o \in Requests : req' = [req EXCEPT ![o] = "cancelled"]
    BY <1>1, <2>1, <2>2, <2>6 DEF QueueInv, Typed, RequestType
  <2>7. CASE \E o \in Requests, p \in Policies : SubmitWaits(o, p)
    BY <1>1, <2>1, <2>2, <2>7 DEF QueueInv, Typed, RequestType, SubmitWaits
  <2>8. \A o \in Requests, p \in Policies, r \in Runs :
          SubmitStarts(o, p, HeadWith(o, p), r) => halted' = {}
    BY DEF SubmitStarts
  <2>9. \A o \in Requests : Promote(o) => UNCHANGED req
    BY DEF Promote
  <2>10. \A o \in Requests :
           CancelQueued(o) => req' = [req EXCEPT ![o] = "cancelled"]
    BY DEF CancelQueued
  <2>11. \A r \in Runs : Continue(r) => halted' = {}
    BY DEF Continue
  <2>12. \A r \in Runs : Resume(r) => UNCHANGED req
    BY DEF Resume, queueVars
  <2>13. \A r \in Runs, s \in RunStatuses \ {"absent"}, b \in BOOLEAN :
           RunMoves(r, s, b) => UNCHANGED req
    BY DEF RunMoves
  <2> QED
    BY <1>1, <2>3, <2>4, <2>5, <2>6, <2>7, <2>8, <2>9, <2>10, <2>11, <2>12,
       <2>13, StepShape
<1>2. QueueInv /\ [QueueNext]_vars => [A]_vars
  BY <1>1
<1> QED
  BY <1>2, QueueInvHolds, PTL DEF QueueSpec, HaltedNeedsUser

\* While a request waits to steer no other one is dispatched, by whichever
\* of the operations.
THEOREM SteerGoesNextHolds ==
  QueueSpec => SteerGoesNext
<1> DEFINE A == \A q \in PendingSteer : \A o \in Requests \ {q} :
                   req'[o] = "dispatched" => req[o] = "dispatched"
<1>1. ASSUME QueueInv, QueueNext
      PROVE  A
  <2> USE DEF QueueInv, Typed, RequestType
  <2>1. SUFFICES ASSUME NEW q \in PendingSteer, NEW o \in Requests \ {q},
                        req'[o] = "dispatched"
                 PROVE  req[o] = "dispatched"
    OBVIOUS
  <2>2. Queued # {} /\ q \in Queued /\ q \in Requests
    BY DEF PendingSteer, Queued
  <2>3. Head1 = q
    BY <1>1, <2>1, <2>2, HeadFirst DEF Before, PendingSteer, Waiting
  <2>4. ASSUME NEW x \in Requests, NEW p \in Policies,
               Joins(x, p), SubmitWaits(x, p)
        PROVE  req[o] = "dispatched"
    BY <1>1, <2>1, <2>4 DEF SubmitWaits
  <2>5. ASSUME NEW x \in Requests, NEW p \in Policies, NEW r \in Runs,
               Joins(x, p), SubmitStarts(x, p, HeadWith(x, p), r)
        PROVE  req[o] = "dispatched"
    <3>1. HeadWith(x, p) = q
      BY <2>1, <2>2, <2>3, <2>5 DEF Joins, Accepts, HeadWith
    <3>2. req' = [req EXCEPT ![x] = "queued", ![q] = "dispatched"]
      BY <2>5, <3>1 DEF SubmitStarts
    <3> QED
      BY <1>1, <2>1, <2>2, <3>2
  <2>6. ASSUME NEW r \in Runs, DispatchNext(r) \/ Continue(r)
        PROVE  req[o] = "dispatched"
    <3>1. req' = [req EXCEPT ![q] = "dispatched"]
      BY <2>3, <2>6 DEF DispatchNext, Continue, Start
    <3> QED
      BY <1>1, <2>1, <2>2, <3>1
  <2>7. ASSUME NEW x \in Requests, Promote(x) \/ CancelQueued(x)
        PROVE  req[o] = "dispatched"
    BY <1>1, <2>1, <2>7 DEF Promote, CancelQueued
  <2>8. ASSUME NEW r \in Runs, Resume(r)
        PROVE  req[o] = "dispatched"
    BY <2>1, <2>8 DEF Resume, queueVars
  <2>9. ASSUME NEW r \in Runs, NEW s \in RunStatuses \ {"absent"},
               NEW b \in BOOLEAN, RunMoves(r, s, b)
        PROVE  req[o] = "dispatched"
    BY <2>1, <2>9 DEF RunMoves
  <2> QED
    BY <1>1, <2>4, <2>5, <2>6, <2>7, <2>8, <2>9, StepShape
<1>2. QueueInv /\ [QueueNext]_vars => [A]_vars
  BY <1>1
<1> QED
  BY <1>2, QueueInvHolds, PTL DEF QueueSpec, SteerGoesNext
=============================================================================
