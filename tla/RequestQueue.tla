----------------------------- MODULE RequestQueue -----------------------------
(***************************************************************************)
(* The request queue of one conversation thread:                           *)
(* services/agent_request_service.py (submission),                         *)
(* services/agent_request_queue_service.py (steering, cancelling, the      *)
(* "continue" button, dispatching) and                                     *)
(* repositories/agent_run_request_repository.py, on the runs of            *)
(* ThreadRuns.                                                             *)
(*                                                                         *)
(* Each operation holds the lock of the conversation row for the whole of  *)
(* its transaction, so it is one action; the workers do not take that      *)
(* lock, and the steps of runs interleave freely with it.  Timestamps are  *)
(* logical: created_at of a request is its index in arrival, finished_at   *)
(* of a run the number of requests that had arrived.                       *)
(***************************************************************************)
EXTENDS ThreadRuns, Naturals, Sequences, FiniteSets

CONSTANTS Requests,      \* identities of AgentRunRequest rows
          ChatRequests,     \* those whose source is the chat window
          ChannelRequests   \* those that a messaging channel sent

ASSUME QueueAssumption ==
  /\ NoRun \notin Runs
  /\ ChatRequests \subseteq Requests /\ ChannelRequests \subseteq Requests
  /\ IsFiniteSet(Requests) /\ IsFiniteSet(Runs)

VARIABLES
  arrival,   \* the requests in the order of created_at
  req,       \* agent_run_requests.status, "absent" while there is no row
  policy,    \* agent_run_requests.queue_policy
  runOf,     \* agent_run_requests.dispatched_run_id
  finished,  \* agent_runs.finished_at
  halted     \* history: requests that a failure or a cancelled run stopped

queueVars == <<arrival, req, policy, runOf>>
vars == <<threadVars, queueVars, finished, halted>>

Policies == {"enqueue", "steer", "reject"}
RequestStatuses == {"absent", "queued", "dispatched", "cancelled", "rejected"}

Init ==
  /\ ThreadInit
  /\ arrival  = <<>>
  /\ req      = [q \in Requests |-> "absent"]
  /\ policy   = [q \in Requests |-> "enqueue"]
  /\ runOf    = [q \in Requests |-> NoRun]
  /\ finished = [r \in Runs |-> 0]
  /\ halted   = {}

-----------------------------------------------------------------------------
(* The queue.                                                              *)

Queued == {q \in Requests : req[q] = "queued"}
Created(q) == CHOOSE i \in 1 .. Len(arrival) : arrival[i] = q

\* Faulty variant: a request that steers waits its turn.
BeforeByAge(q, o) == Created(q) < Created(o)

\* _queued_for_thread_query: steering requests first, then by created_at.
Before(q, o) ==
  IF (policy[q] = "steer") # (policy[o] = "steer")
    THEN policy[q] = "steer"
    ELSE Created(q) < Created(o)

Head1 == CHOOSE q \in Queued : \A o \in Queued \ {q} : Before(q, o)

PendingSteer == {q \in Queued : policy[q] = "steer"}

\* Faulty variants: a request created just as the run ended is let through;
\* any run that has ended stops the queue.
StopsOlder(created) ==
  /\ newest # NoRun
  /\ status[newest] \in {"failed", "cancelled"}
  /\ created < finished[newest]
StopsAfterAny(created) ==
  newest # NoRun /\ ~Holds(newest) /\ created <= finished[newest]

\* _get_queue_state of a thread that no run holds and that does not wait
\* for its user: a failed or cancelled run stops what was created before.
Stops(created) ==
  /\ newest # NoRun
  /\ status[newest] \in {"failed", "cancelled"}
  /\ created <= finished[newest]

Settled == ThreadFree /\ ~Interrupted

\* is_steerable_message_run: running, and not a resume or an API call.
Steerable(r) ==
  /\ status[r] = "running"
  /\ \E q \in ChatRequests \cup ChannelRequests : runOf[q] = r

-----------------------------------------------------------------------------
(* Submitting.                                                             *)

\* The queue's head becomes a run, in the transaction of its caller.
Dispatch(q, r) ==
  /\ CreateChat(r)
  /\ runOf' = [runOf EXCEPT ![q] = r]
  /\ UNCHANGED finished

\* Faulty variants: a repeated submission is taken for a new request; two
\* requests may wait to steer.
AcceptsAgain(q, p) == ~Interrupted /\ p # "steer"
AcceptsSteers(q, p) ==
  /\ req[q] = "absent"
  /\ ~Interrupted
  /\ p = "steer" => /\ q \in ChatRequests \cup ChannelRequests
                    /\ \A r \in Runs : Holds(r) => Steerable(r)

\* _persist_request of a new request q, created last.  A request that finds
\* the thread interrupted leaves no row, nor does a steering one when the
\* active run cannot be steered or another one waits.
Accepts(q, p) ==
  /\ req[q] = "absent"
  /\ ~Interrupted
  /\ p = "steer" => /\ q \in ChatRequests \cup ChannelRequests
                    /\ \A r \in Runs : Holds(r) => Steerable(r)
                    /\ PendingSteer = {}

\* A rejecting request that is not dispatched at once is refused.
RefusesToWait(p) == p = "reject" /\ (~ThreadFree \/ Queued # {})

\* Faulty variant: a new request is dispatched in place of the head.
HeadIsNew(q, p) == q

\* The head once q has been added.
HeadWith(q, p) == IF p = "steer" \/ Queued = {} THEN q ELSE Head1

Submit(q, p) ==
  LET h == HeadWith(q, p)
      created == IF h = q THEN Len(arrival) + 1 ELSE Created(h)
      ready == ~RefusesToWait(p) /\ Settled /\ ~Stops(created)
  IN /\ Accepts(q, p)
     /\ arrival' = Append(arrival, q)
     /\ policy' = [policy EXCEPT ![q] = p]
     /\ \/ /\ ready
           /\ \E r \in Runs : Dispatch(h, r)
           /\ req' = [req EXCEPT ![q] = "queued", ![h] = "dispatched"]
           /\ halted' = {}
        \/ /\ ~ready
           /\ req' = [req EXCEPT ![q] = IF p = "reject" THEN "rejected"
                                        ELSE "queued"]
           /\ UNCHANGED <<threadVars, runOf, finished, halted>>

\* steer_queued_request: a waiting chat request is to be the next one.
Promote(q) ==
  /\ req[q] = "queued" /\ policy[q] = "enqueue" /\ q \in ChatRequests
  /\ PendingSteer = {}
  /\ \E r \in Runs : Holds(r) /\ Steerable(r)
  /\ policy' = [policy EXCEPT ![q] = "steer"]
  /\ UNCHANGED <<threadVars, arrival, req, runOf, finished, halted>>

\* cancel_queued_request: a steering request cannot be taken back while the
\* run that it steers is there.
CancelQueued(q) ==
  /\ req[q] = "queued"
  /\ policy[q] = "steer" => ThreadFree
  /\ req' = [req EXCEPT ![q] = "cancelled"]
  /\ UNCHANGED <<threadVars, arrival, policy, runOf, finished, halted>>

-----------------------------------------------------------------------------
(* Dispatching.                                                            *)

\* Faulty variant: the request is not marked as dispatched.
StartUnmarked(r) ==
  Dispatch(Head1, r) /\ UNCHANGED <<req, arrival, policy>>

Start(r) ==
  /\ Dispatch(Head1, r)
  /\ req' = [req EXCEPT ![Head1] = "dispatched"]
  /\ UNCHANGED <<arrival, policy>>

\* dispatch_next_request, after a completed run and in every recovery scan.
DispatchNext(r) ==
  /\ Queued # {}
  /\ Settled /\ ~Stops(Created(Head1))
  /\ Start(r)
  /\ UNCHANGED halted

\* continue_thread_queue: the user lets the head of a paused queue go.
Continue(r) ==
  /\ Queued # {}
  /\ Settled /\ Stops(Created(Head1))
  /\ Start(r)
  /\ halted' = {}

\* create_resume_run_view: the answer to an interrupted run.  Bound: enough
\* identities are left for the requests that are still to be dispatched.
Resume(r) ==
  /\ CreateResume(r)
  /\ Cardinality({x \in Runs : status[x] = "absent"})
       > Cardinality({q \in Requests : req[q] \in {"absent", "queued"}})
  /\ UNCHANGED <<queueVars, finished, halted>>

-----------------------------------------------------------------------------
(* Steps of the thread's run.                                              *)

\* finished_at is set with a terminal status; a failed or a cancelled run
\* stops what waits behind it.
Stamp(r, s) ==
  /\ finished' = [finished EXCEPT ![r] = Len(arrival)]
  /\ halted' = IF s \in {"failed", "cancelled"} THEN halted \cup Queued
               ELSE halted
  /\ UNCHANGED queueVars

RunGoesOn(r) ==
  /\ Begin(r) \/ GiveBack(r) \/ AskToStop(r) \/ LiftFence(r)
  /\ UNCHANGED <<queueVars, finished, halted>>

ExecutionEnds(r) ==
  \E s \in {"completed", "failed", "cancelled", "interrupted"} :
    End(r, s) /\ Stamp(r, s)

CancelledEarly(r) == CancelUnbegun(r) /\ Stamp(r, "cancelled")

QueueNext ==
  \/ \E q \in Requests : \/ \E p \in Policies : Submit(q, p)
                         \/ Promote(q) \/ CancelQueued(q)
  \/ \E r \in Runs : \/ DispatchNext(r) \/ Continue(r) \/ Resume(r)
                     \/ RunGoesOn(r) \/ ExecutionEnds(r) \/ CancelledEarly(r)

QueueSpec == Init /\ [][QueueNext]_vars

\* The recovery scan is periodic, and a run that holds the thread gives it
\* up in the end (AgentRunLease: ThreadReleased).
Fairness ==
  /\ WF_vars(\E r \in Runs : DispatchNext(r))
  /\ \A r \in Runs : /\ WF_vars(Begin(r) /\ RunGoesOn(r))
                     /\ WF_vars(LiftFence(r) /\ RunGoesOn(r))
                     /\ SF_vars(ExecutionEnds(r))

FairQueueSpec == QueueSpec /\ Fairness

-----------------------------------------------------------------------------
(* What holds of the queue.                                                *)

TypeOK ==
  /\ arrival \in Seq(Requests)
  /\ \A i, j \in 1 .. Len(arrival) : arrival[i] = arrival[j] => i = j
  /\ req \in [Requests -> RequestStatuses]
  /\ policy \in [Requests -> Policies]
  /\ runOf \in [Requests -> Runs \cup {NoRun}]
  /\ parent \in [Runs -> Runs \cup {NoRun}]
  /\ finished \in [Runs -> Nat]
  /\ halted \subseteq Requests
  /\ fenced \in [Runs -> BOOLEAN]
  /\ newest \in Runs \cup {NoRun}

\* At most one run of the thread is active or waits for its cleanup,
\* whichever of submission, recovery, the continue button and a resume
\* created it.
OneRunAtATime ==
  \A r, x \in Runs : Holds(r) /\ Holds(x) => r = x

\* A request is dispatched once, to a run of its own, and every run answers
\* one request or resumes one interrupted run.
OneRunPerRequest ==
  /\ \A q \in Requests : (req[q] = "dispatched") <=> (runOf[q] # NoRun)
  /\ \A r \in Runs : status[r] # "absent" =>
       Cardinality({q \in Requests : runOf[q] = r})
         = IF parent[r] = NoRun THEN 1 ELSE 0

\* Only steering overtakes: when a request that does not steer has been
\* dispatched, no older one is still waiting.
NoOvertaking ==
  \A i, j \in 1 .. Len(arrival) :
    i < j /\ req[arrival[j]] = "dispatched" /\ policy[arrival[j]] # "steer"
      => req[arrival[i]] # "queued"

\* The queue keeps to what requests ask for: one at most is waiting to
\* steer, whether it was submitted so or promoted, and none that must not
\* wait.
PoliciesKept ==
  /\ Cardinality(PendingSteer) <= 1
  /\ \A q \in Queued : policy[q] # "reject"

\* An interrupted run is left behind only by the run that resumes it, and
\* by one such run.
InterruptedIsResumed ==
  \A r \in Runs : status[r] = "interrupted" /\ r # newest =>
    Cardinality({x \in Runs : parent[x] = r}) = 1

\* A request that was waiting when a run failed or was cancelled starts by
\* itself only after the user has acted, with the continue button or with a
\* request that started.
HaltedNeedsUser ==
  [][\A q \in halted : req'[q] = "dispatched" /\ req[q] # "dispatched"
       => q \notin halted']_vars

\* A request that waits to steer is the next one to be dispatched.
SteerGoesNext ==
  [][\A q \in PendingSteer : \A o \in Requests \ {q} :
       req'[o] = "dispatched" => req[o] = "dispatched"]_vars

\* The queue waits for its user: for an answer, or for a decision after a
\* failure.
NeedsUser ==
  \/ Interrupted
  \/ newest # NoRun /\ status[newest] \in {"failed", "cancelled"}

\* A waiting request is dispatched or cancelled in the end, unless the
\* thread comes to wait for its user: no wake-up is lost between the end of
\* a run, the lifting of its fence and the recovery scan.
QueueMoves ==
  \A q \in Requests : req[q] = "queued" ~> (req[q] # "queued" \/ NeedsUser)

=============================================================================
