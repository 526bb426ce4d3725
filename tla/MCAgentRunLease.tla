-------------------------- MODULE MCAgentRunLease --------------------------
(***************************************************************************)
(* Instances of AgentRunLease for TLC.                                     *)
(***************************************************************************)
EXTENDS AgentRunLease, FiniteSets, TLC

\* Runs are interchangeable, and so are the tokens of executions.
Symmetry == Permutations(Runs) \cup Permutations(Workers)

\* Three instances in one: all the faults on one run, one fault on two runs,
\* and none on an interrupted run, its resume and the resume's subagent.
Created == Cardinality({r \in Runs : status[r] # "absent"})
ResumeTree ==
  \E c \in Runs : kind[c] = "subagent" /\ kind[creator[c]] = "resume"
Bounded ==
  \/ Created <= 1
  \/ Created = 2 /\ faults <= 1
  \/ Created = 3 /\ faults = 0 /\ ResumeTree

=============================================================================
