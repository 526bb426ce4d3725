--------------------------- MODULE ComponentsLive ---------------------------
(***************************************************************************)
(* Progress of the components of module Components, on instances still     *)
(* smaller, under the fairness each of them states.                        *)
(***************************************************************************)
EXTENDS Naturals, FiniteSets

VARIABLES area, lease, rows, procs, outside, ghost

vars == <<area, lease, rows, procs, outside, ghost>>

DT == INSTANCE DurableTask WITH
        Tasks <- {"t1", "t2"}, LegacyTasks <- {}, UnknownTasks <- {},
        Workers <- {"w1"}, Keys <- {}, NoWorker <- "none",
        NoTask <- "none", NoKey <- "none", MaxRunning <- 1, Keep <- 2,
        MaxWrites <- 0
KF == INSTANCE KnowledgeFiles WITH
        Tasks <- {"t1"}, Workers <- {"w1"}, NoWorker <- "none",
        Files <- {1, 2}, MaxChunks <- 1, NoTask <- "none",
        Kinds <- {"parse_pending", "index_pending"},
        Before <- {"uploaded", "parsed"}, MayDelete <- {2}, MayRepair <- {}

Init ==
  \/ area = "tasks" /\ DT!Init /\ lease = <<>>
  \/ area = "files" /\ KF!Init

Next ==
  /\ UNCHANGED area
  /\ \/ area = "tasks" /\ DT!Next /\ UNCHANGED lease
     \/ area = "files" /\ KF!Next

TasksFair ==
  /\ \A t \in {"t1", "t2"} :
       /\ WF_vars(area = "tasks" /\ DT!LapseDue(t) /\ UNCHANGED <<area, lease>>)
       /\ SF_vars(area = "tasks" /\ DT!SeenExpired(t) /\ UNCHANGED <<area, lease>>)
       /\ SF_vars(area = "tasks" /\ DT!SeenPending(t) /\ UNCHANGED <<area, lease>>)
       /\ SF_vars(area = "tasks" /\ DT!TakenUp(t) /\ UNCHANGED <<area, lease>>)
  /\ WF_vars(area = "tasks" /\ DT!LoopGoesOn /\ UNCHANGED <<area, lease>>)
  /\ WF_vars(area = "tasks" /\ DT!HandlerReturns("w1") /\ UNCHANGED <<area, lease>>)
  /\ WF_vars(area = "tasks" /\ DT!Finish("w1") /\ UNCHANGED <<area, lease>>)
  /\ WF_vars(area = "tasks" /\ DT!Relay("w1") /\ UNCHANGED <<area, lease>>)

FilesFair ==
  /\ WF_vars(area = "files" /\ KF!LapseDue("t1") /\ UNCHANGED area)
  /\ WF_vars(area = "files" /\ KF!SeenExpired("t1") /\ UNCHANGED area)
  /\ WF_vars(area = "files" /\ KF!GoesOn("w1") /\ UNCHANGED area)

Fairness == TasksFair /\ FilesFair

Spec == Init /\ [][Next]_vars /\ Fairness

-----------------------------------------------------------------------------

\* Every task that waits or runs is over in the end, with lost wake-ups, a
\* full slot and crashes.
TasksEnd ==
  \A t \in {"t1", "t2"} :
    area = "tasks" /\ DT!Active(t) ~> (area = "tasks" => ~DT!Active(t))

\* No file stays in progress, and the handler that goes through the pending
\* files comes to an end even if every one of them fails.
FilesSettle ==
  /\ \A f \in {1, 2} :
       area = "files" /\ KF!St(f) \in KF!InProgress
         ~> (area = "files" => KF!St(f) \notin KF!InProgress)
  /\ area = "files" /\ KF!Ex("w1").pc # "idle"
       ~> (area = "files" => KF!Ex("w1").pc = "idle")

=============================================================================
