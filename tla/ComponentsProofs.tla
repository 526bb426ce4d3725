-------------------------- MODULE ComponentsProofs --------------------------
(***************************************************************************)
(* What the run of Components checks follows, for the components that have *)
(* proofs, from those proofs: each instance meets the assumptions on its   *)
(* constants, and area says whose invariant holds.                         *)
(***************************************************************************)
EXTENDS Components, TLAPS

\* The provers see these steps with all instances around them, so that each is
\* given the prover it is for and time to start.

LEMMA FilesConstants == KF!FileConstants /\ KL!FileConstants
BY SMTT(60) DEF KF!FileConstants, KF!InProgress, KF!PendingKinds,
       KL!FileConstants, KL!InProgress, KL!PendingKinds

LEMMA OutboundConstants ==
  /\ O1!ScheduleConstants /\ O2!ScheduleConstants
  /\ O1!DelegationConstants /\ O2!DelegationConstants
<1>1. {9} \cap (1 .. 2) = {} /\ {9} \cap (1 .. 1) = {}
  BY SMTT(60)
<1> QED
  BY <1>1, NoneIsNobody, ZenonT(60) DEF O1!ScheduleConstants,
     O2!ScheduleConstants, O1!DelegationConstants, O2!DelegationConstants

LEMMA BoardConstants ==
  O1!GovernanceConstants /\ O3!GovernanceConstants /\ O4!GovernanceConstants
<1>1. 1 .. 2 \subseteq Nat /\ 1 .. 3 \subseteq Nat /\ {1} \subseteq Nat
  BY SMTT(60)
<1>2. O1!IsFiniteSet(1 .. 2) /\ O3!IsFiniteSet(1 .. 3)
        /\ O4!IsFiniteSet(1 .. 1)
  BY O1!NumberedIssues, O3!NumberedIssues, O4!NumberedIssues, ZenonT(60)
<1>3. 1 .. 1 = {1}
  BY SMTT(60)
<1> QED
  BY <1>1, <1>2, <1>3, SMTT(60) DEF O1!GovernanceConstants,
     O3!GovernanceConstants, O4!GovernanceConstants

LEMMA TasksConstants ==
  /\ D1!TaskConstants /\ D2!TaskConstants /\ D3!TaskConstants
  /\ D4!TaskConstants
  /\ D1!EvaluationConstants /\ D2!EvaluationConstants
  /\ D3!EvaluationConstants
<1>1. D1!IsFiniteSet({"t1"}) /\ D2!IsFiniteSet({"t1", "t2"})
        /\ D3!IsFiniteSet({"t1", "t2"}) /\ D4!IsFiniteSet({"t1", "t2", "t3"})
  BY D1!FewTasks, D2!FewTasks, D3!FewTasks, D4!FewTasks, ZenonT(60)
<1> QED
  BY <1>1, SMTT(60) DEF D1!TaskConstants, D2!TaskConstants, D3!TaskConstants,
     D4!TaskConstants, D1!EvaluationConstants, D2!EvaluationConstants,
     D3!EvaluationConstants

LEMMA CodingConstants ==
  /\ E1!SessionConstants /\ E2!SessionConstants
  /\ E1!SandboxConstants /\ E2!SandboxConstants /\ E3!SandboxConstants
  /\ E1!CredentialConstants /\ E2!CredentialConstants
  /\ E3!CredentialConstants /\ E4!CredentialConstants
  /\ E5!CredentialConstants
BY NoneIsNobody, ZenonT(60) DEF E1!SessionConstants, E2!SessionConstants,
   E1!SandboxConstants, E2!SandboxConstants, E3!SandboxConstants,
   E1!CredentialConstants, E2!CredentialConstants, E3!CredentialConstants,
   E4!CredentialConstants, E5!CredentialConstants

-----------------------------------------------------------------------------
\* What holds of the component a behaviour is about.
FilesInv ==
  /\ area = "files" => KF!FileInv
  /\ area = "files loop" => KL!FileInv
TasksInv ==
  /\ area = "tasks" => D1!TaskInv
  /\ area = "task keys" => D2!TaskInv
  /\ area = "task slots" => D3!TaskInv
  /\ area = "legacy tasks" => D4!TaskInv
  /\ area = "datasets" => D1!EvaluationInv
  /\ area = "datasets read" => D2!EvaluationInv
  /\ area = "evaluations" => D3!EvaluationInv
OutboundInv ==
  /\ area = "scheduled tasks" => O1!ScheduleInv
  /\ area = "scheduled ends" => O2!ScheduleInv
  /\ area = "delegation to Multica" => O1!DelegationInv
  /\ area = "delegation to a sandbox" => O2!DelegationInv
  /\ area = "pulls" => O1!GovernanceInv
  /\ area = "pages" => O3!GovernanceInv
  /\ area = "reviews" => O4!GovernanceInv
CodingInv ==
  /\ area = "credentials" => E1!CredentialInv
  /\ area = "credential modes" => E2!CredentialInv
  /\ area = "credentials rotated" => E3!CredentialInv
  /\ area = "credentials of scopes" => E4!CredentialInv
  /\ area = "credentials referred" => E5!CredentialInv
  /\ area = "coding jobs" => E1!SessionInv
  /\ area = "coding session" => E2!SessionInv
  /\ area = "dedicated sandbox" => E1!SandboxInv
  /\ area = "dedicated requests" => E2!SandboxInv
  /\ area = "dedicated confirm" => E3!SandboxInv

LEMMA StepOfArea ==
  ASSUME [Next]_vars
  PROVE  /\ area' = area
         /\ area = "files" => [KF!Next]_(KF!vars)
         /\ area = "files loop" => [KL!Next]_(KL!vars)
         /\ area = "tasks" => [D1!Next]_(D1!vars)
         /\ area = "task keys" => [D2!Next]_(D2!vars)
         /\ area = "task slots" => [D3!Next]_(D3!vars)
         /\ area = "legacy tasks" => [D4!Next]_(D4!vars)
         /\ area = "datasets" => [D1!EV!Next]_(D1!EV!vars)
         /\ area = "datasets read" => [D2!EV!Next]_(D2!EV!vars)
         /\ area = "evaluations" => [D3!EV!Next]_(D3!EV!vars)
         /\ area = "scheduled tasks" => [O1!SA!Next]_(O1!SA!vars)
         /\ area = "scheduled ends" => [O2!SA!Next]_(O2!SA!vars)
         /\ area = "delegation to Multica" => [O1!DE!Next]_(O1!DE!vars)
         /\ area = "delegation to a sandbox" => [O2!DE!Next]_(O2!DE!vars)
         /\ area = "pulls" => [O1!GV!Next]_(O1!GV!vars)
         /\ area = "pages" => [O3!GV!Next]_(O3!GV!vars)
         /\ area = "reviews" => [O4!GV!Next]_(O4!GV!vars)
         /\ area = "credentials" => [E1!CC!Next]_(E1!CC!vars)
         /\ area = "credential modes" => [E2!CC!Next]_(E2!CC!vars)
         /\ area = "credentials rotated" => [E3!CC!Next]_(E3!CC!vars)
         /\ area = "credentials of scopes" => [E4!CC!Next]_(E4!CC!vars)
         /\ area = "credentials referred" => [E5!CC!Next]_(E5!CC!vars)
         /\ area = "coding jobs" => [E1!CS!Next]_(E1!CS!vars)
         /\ area = "coding session" => [E2!CS!Next]_(E2!CS!vars)
         /\ area = "dedicated sandbox" => [E1!DS!Next]_(E1!DS!vars)
         /\ area = "dedicated requests" => [E2!DS!Next]_(E2!DS!vars)
         /\ area = "dedicated confirm" => [E3!DS!Next]_(E3!DS!vars)
BY ZenonT(60)
   DEF Next, vars, KF!vars, KL!vars, D1!vars, D2!vars, D3!vars, D4!vars,
       D1!EV!vars, D2!EV!vars, D3!EV!vars, O1!SA!vars,
       O2!SA!vars, O1!DE!vars, O2!DE!vars, O1!GV!vars, O3!GV!vars,
       O4!GV!vars, E1!CS!vars, E2!CS!vars, E1!DS!vars,
       E2!DS!vars, E3!DS!vars, E1!CC!vars, E2!CC!vars, E3!CC!vars,
       E4!CC!vars, E5!CC!vars

LEMMA FilesPart ==
  /\ Init => FilesInv
  /\ FilesInv /\ [Next]_vars => FilesInv'
  /\ FilesInv => FilesSafe
<1>1. Init => FilesInv
  BY FilesConstants, KF!FilesKept, KL!FilesKept, ZenonT(60)
     DEF Init, FilesInv
<1>2. FilesInv /\ [Next]_vars => FilesInv'
  BY StepOfArea, FilesConstants, KF!FilesKept, KL!FilesKept, ZenonT(60)
     DEF FilesInv
<1>3. FilesInv => FilesSafe
  BY FilesConstants, KF!FilesKept, KL!FilesKept, ZenonT(60)
     DEF FilesInv, FilesSafe
<1> QED BY <1>1, <1>2, <1>3

LEMMA TasksPart ==
  /\ Init => TasksInv
  /\ TasksInv /\ [Next]_vars => TasksInv'
  /\ TasksInv => TasksSafe
<1>1. Init => TasksInv
  BY TasksConstants, D1!TasksKept, D2!TasksKept, D3!TasksKept, D4!TasksKept,
     ZenonT(60) DEF Init, TasksInv
<1>2. TasksInv /\ [Next]_vars => TasksInv'
  BY StepOfArea, TasksConstants, D1!TasksKept, D2!TasksKept, D3!TasksKept,
     D4!TasksKept, ZenonT(60) DEF TasksInv
<1>3. TasksInv => TasksSafe
  BY TasksConstants, D1!TasksKept, D2!TasksKept, D3!TasksKept, D4!TasksKept,
     ZenonT(60) DEF TasksInv, TasksSafe
<1> QED BY <1>1, <1>2, <1>3

LEMMA OutboundPart ==
  /\ Init => OutboundInv
  /\ OutboundInv /\ [Next]_vars => OutboundInv'
  /\ OutboundInv => OutboundSafe /\ GovernanceSafe
<1>1. Init => OutboundInv
  BY OutboundConstants, BoardConstants, O1!OutboundKept, O2!OutboundKept,
     O3!OutboundKept, O4!OutboundKept, ZenonT(60) DEF Init, OutboundInv
<1>2. OutboundInv /\ [Next]_vars => OutboundInv'
  BY StepOfArea, OutboundConstants, BoardConstants, O1!OutboundKept,
     O2!OutboundKept, O3!OutboundKept, O4!OutboundKept, ZenonT(60)
     DEF OutboundInv
<1>3. OutboundInv => OutboundSafe
  BY OutboundConstants, O1!OutboundKept, O2!OutboundKept, ZenonT(60)
     DEF OutboundInv, OutboundSafe
<1>4. OutboundInv => GovernanceSafe
  BY BoardConstants, O1!OutboundKept, O3!OutboundKept, O4!OutboundKept,
     ZenonT(60) DEF OutboundInv, GovernanceSafe
<1> QED BY <1>1, <1>2, <1>3, <1>4

LEMMA CodingPart ==
  /\ Init => CodingInv
  /\ CodingInv /\ [Next]_vars => CodingInv'
  /\ CodingInv => CodingSafe /\ DedicatedSafe
<1>1. Init => CodingInv
  BY CodingConstants, E1!CodingKept, E2!CodingKept, E3!CodingKept,
     E4!CodingKept, E5!CodingKept, ZenonT(60) DEF Init, CodingInv
<1>2. CodingInv /\ [Next]_vars => CodingInv'
  BY StepOfArea, CodingConstants, E1!CodingKept, E2!CodingKept,
     E3!CodingKept, E4!CodingKept, E5!CodingKept, ZenonT(60) DEF CodingInv
<1>3. CodingInv => CodingSafe
  BY CodingConstants, E1!CodingKept, E2!CodingKept, E3!CodingKept,
     E4!CodingKept, E5!CodingKept, ZenonT(60) DEF CodingInv, CodingSafe
<1>4. CodingInv => DedicatedSafe
  BY CodingConstants, E1!CodingKept, E2!CodingKept, E3!CodingKept,
     ZenonT(60) DEF CodingInv, DedicatedSafe
<1> QED BY <1>1, <1>2, <1>3, <1>4

\* Files in progress are owned, indexed ones are complete and none is taken up
\* too often (knowledge/base.py, knowledge/implementations/milvus.py).
THEOREM FilesSafeHolds == Spec => []FilesSafe
BY FilesPart, PTL DEF Spec

\* A task is executed once at most, within its slots, and one is active for an
\* intent; its domain rows agree with it; datasets have no gaps and are all
\* there once completed, and runs of evaluations end as their task does
\* (repositories/task_repository.py, knowledge/eval/service.py).
THEOREM TasksSafeHolds == Spec => []TasksSafe
BY TasksPart, PTL DEF Spec

\* One execution of a scheduled task and one work item of a delegation at a
\* time, and records that are true (services/scheduled_agent_service.py,
\* services/delegation_service.py).
THEOREM OutboundSafeHolds == Spec => []OutboundSafe
BY OutboundPart, PTL DEF Spec

\* No issue before the cursor is left out, the cursor does not move back and a
\* review stands (services/channel_sync_service.py,
\* services/governance_service.py).
THEOREM GovernanceSafeHolds == Spec => []GovernanceSafe
BY OutboundPart, PTL DEF Spec

\* Whoever works in a dedicated sandbox has its credentials, the row knows the
\* container and the supervisor spares holders of leases
\* (services/sandbox_lifecycle_service.py, sandbox_lease_service.py).
THEOREM DedicatedSafeHolds == Spec => []DedicatedSafe
BY CodingPart, PTL DEF Spec

\* A turn of a coding session starts and ends once at most, a session follows
\* its turns and only what was asked for is cancelled; a credential in use can
\* be decrypted and is the only one, and its fingerprint tells keys apart
\* (services/coding_execution_service.py, coding_credential_service.py).
THEOREM CodingSafeHolds == Spec => []CodingSafe
BY CodingPart, PTL DEF Spec

\* Every step of a durable task is one of its lease's, nothing of it changes
\* after its end, and an execution that has lost its task does not move a file
\* forward (repositories/task_repository.py, knowledge/base.py).
THEOREM ExecutionsFencedHolds == Spec => ExecutionsFenced
<1>1. FilesInv /\ TasksInv /\ [Next]_vars =>
        [/\ area = "tasks" => D1!LeaseStep /\ D1!QuietStep
         /\ area = "task slots" => D3!LeaseStep
         /\ area = "legacy tasks" => D4!LeaseStep
         /\ area = "files" => KF!FencedStep]_vars
  <2> USE ZenonT(60)
  <2>1. Next /\ vars' # vars =>
          /\ area = "tasks" => D1!vars' # D1!vars
          /\ area = "files" => KF!vars' # KF!vars
    BY DEF Next, vars, D1!vars, KF!vars
  <2> QED
    BY <2>1, StepOfArea, TasksConstants, FilesConstants, D1!TasksKept,
       D3!TasksKept, D4!TasksKept, KF!FilesKept DEF FilesInv, TasksInv
<1> QED BY <1>1, FilesPart, TasksPart, PTL DEF Spec, ExecutionsFenced

=============================================================================
