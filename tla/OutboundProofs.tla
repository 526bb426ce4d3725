--------------------------- MODULE OutboundProofs ---------------------------
(***************************************************************************)
(* Proofs of what goes out of the system and comes back: the requests of   *)
(* scheduled tasks (ScheduledAgents), the work items of delegations        *)
(* (Delegations) and the pull of issues (Governance).  The three keep      *)
(* their state in the same variables, as in Components, which instantiates *)
(* this module.                                                            *)
(***************************************************************************)
EXTENDS Naturals, FiniteSetTheorems, WellFoundedInduction, TLAPS

CONSTANTS Workers, NoOne, MaxOcc, Manual, MayEnd, Multica, MaxItems,
          Issues, MaxTime, MaxPages, Users

VARIABLES rows, procs, outside, ghost

SA == INSTANCE ScheduledAgents
DE == INSTANCE Delegations
GV == INSTANCE Governance

\* The definitions of FiniteSets as the instances have them.
LEMMA SameCardinality ==
  ASSUME NEW S
  PROVE  /\ SA!Cardinality(S) = Cardinality(S)
         /\ DE!Cardinality(S) = Cardinality(S)
         /\ GV!Cardinality(S) = Cardinality(S)
BY DEF SA!Cardinality, DE!Cardinality, GV!Cardinality, Cardinality

\* A set whose elements are all equal has one at most.
LEMMA AtMostOne ==
  ASSUME NEW S, \A x, y \in S : x = y PROVE Cardinality(S) <= 1
<1>1. CASE S = {}
  BY <1>1, FS_EmptySet
<1>2. CASE S # {}
  <2>1. PICK x : x \in S
    BY <1>2
  <2>2. S = {x}
    BY <2>1
  <2> QED BY <2>2, FS_Singleton
<1> QED BY <1>1, <1>2

\* Every set of numbers that is not empty has a least one.
LEMMA LeastNumber ==
  ASSUME NEW T, T \subseteq Nat, T # {}
  PROVE  \E x \in T : \A y \in T : x <= y
<1> DEFINE R == {ss \in Nat \X Nat : ss[1] < ss[2]}
<1>1. IsWellFoundedOn(R, Nat)
  BY NatLessThanWellFounded, Zenon DEF OpToRel
<1> HIDE DEF R
<1>2. PICK x \in T : \A y \in T : <<y, x>> \notin R
  BY <1>1, WFMin
<1>3. ASSUME NEW y \in T PROVE x <= y
  <2>1. x \in Nat /\ y \in Nat /\ (y < x => <<y, x>> \in R)
    BY DEF R
  <2> QED BY <1>2, <2>1
<1> QED BY <1>2, <1>3

-----------------------------------------------------------------------------
(* Scheduled tasks.                                                        *)

\* The ids of requests are not those of occurrences.
ScheduleConstants == MaxOcc \in Nat /\ Manual \cap (1 .. MaxOcc) = {}

Records == {"none", "dispatching", "submitted", "skipped", "failed",
            "cancelled"}
ScheduleRows ==
  [job : {"none", "live", "deleted"}, on : BOOLEAN,
   alive : SUBSET {"project", "user"},
   run : [SA!Occurrences -> Records],
   req : [SA!Occurrences -> {"none", "active", "over"}]]
Dispatches ==
  [pc : {"idle", "dispatch", "mark", "settle"}, o : SA!Occurrences \cup {0},
   terminal : BOOLEAN]
ScheduleTyped ==
  /\ rows \in ScheduleRows
  /\ procs \in [Workers -> Dispatches]
  /\ outside \in [due : BOOLEAN, next : Nat \ {0}]
  /\ ghost \in [lost : BOOLEAN]

\* Who is at a record, and who has submitted its request.
AtRecord ==
  \A w \in Workers :
    /\ procs[w].pc # "idle" => procs[w].o \in SA!Occurrences
    /\ procs[w].pc = "mark" => rows.req[procs[w].o] # "none"

\* Occurrences to come have no record.
NotYet ==
  /\ outside.due => outside.next <= MaxOcc
  /\ \A o \in 1 .. MaxOcc : o >= outside.next => rows.run[o] = "none"

\* The records has_active_run finds: one at most.
LiveRecord(o) ==
  \/ rows.run[o] = "dispatching"
  \/ rows.run[o] = "submitted" /\ rows.req[o] # "over"
OneLive ==
  ghost.lost \/ \A o, p \in SA!Occurrences :
                  LiveRecord(o) /\ LiveRecord(p) => o = p

ScheduleInv ==
  ScheduleTyped /\ AtRecord /\ NotYet /\ OneLive /\ SA!RecordIsTrue

LEMMA ScheduleInit ==
  ASSUME ScheduleConstants, SA!Init PROVE ScheduleInv
<1>1. ScheduleTyped
  BY DEF SA!Init, SA!Idle, ScheduleTyped, ScheduleRows, Dispatches,
         Records
<1> QED
  BY <1>1 DEF ScheduleInv, SA!Init, SA!Idle, AtRecord, NotYet, OneLive,
              LiveRecord, SA!RecordIsTrue, ScheduleConstants, SA!Occurrences

\* What only the task, the project or the user is changed by, or time.
LEMMA ScheduleAside ==
  ASSUME ScheduleInv, UNCHANGED <<procs, ghost>>, ScheduleTyped',
         rows'.run = rows.run, outside'.next = outside.next,
         outside'.due => outside.due \/ outside.next <= MaxOcc,
         \A o \in SA!Occurrences :
           \/ rows'.req[o] = rows.req[o]
           \/ rows.req[o] = "active" /\ rows'.req[o] = "over"
  PROVE  ScheduleInv'
BY DEF ScheduleInv, ScheduleTyped, ScheduleRows, Dispatches, AtRecord,
       NotYet, OneLive, LiveRecord, SA!RecordIsTrue

\* A new record: the next occurrence, or one that the user asks for.
LEMMA NewRecord ==
  ASSUME ScheduleInv, ScheduleTyped', NEW o \in SA!Occurrences,
         NEW w \in Workers, rows.run[o] = "none",
         rows' = [rows EXCEPT !.run[o] = SA!NewRun], UNCHANGED ghost,
         IF rows'.run[o] = "dispatching" THEN SA!Goes(w, "dispatch", o)
                                         ELSE SA!Over(w),
         NotYet'
  PROVE  ScheduleInv'
<1>1. AtRecord'
  BY DEF ScheduleInv, ScheduleTyped, ScheduleRows, Dispatches, AtRecord,
         SA!Goes, SA!Over, SA!Idle
<1>2. OneLive'
  <2>1. SA!NewRun = "dispatching" =>
          \A p \in SA!Occurrences : ~LiveRecord(p)
    BY DEF SA!NewRun, SA!HasActiveRun, LiveRecord, ScheduleInv, ScheduleTyped
  <2>2. SA!NewRun \in {"dispatching", "skipped"}
    BY DEF SA!NewRun
  <2> QED BY <2>1, <2>2 DEF OneLive, LiveRecord, ScheduleInv, ScheduleTyped
<1>3. SA!RecordIsTrue'
  BY DEF SA!RecordIsTrue, SA!NewRun, ScheduleInv, ScheduleTyped
<1> QED BY <1>1, <1>2, <1>3 DEF ScheduleInv

\* A record that exists takes its course.
LEMMA RecordMoves ==
  ASSUME ScheduleInv, ScheduleTyped', NEW o \in SA!Occurrences,
         NEW w \in Workers, NEW v \in {"dispatching", "submitted", "failed"},
         rows' = [rows EXCEPT !.run[o] = v],
         \/ rows.run[o] = "dispatching"
         \/ rows.req[o] # "none" /\ v = "submitted",
         v = "submitted" => rows.req[o] # "none",
         v = "failed" => rows.req[o] = "none",
         SA!Over(w), UNCHANGED <<outside, ghost>>
  PROVE  ScheduleInv'
<1>1. rows.run[o] # "none"
  BY DEF ScheduleInv, SA!RecordIsTrue
<1>2. AtRecord' /\ NotYet'
  BY <1>1 DEF ScheduleInv, ScheduleTyped, ScheduleRows, Dispatches, AtRecord,
              NotYet, SA!Over, SA!Idle
<1>3. OneLive'
  <2>1. rows'.run = [rows.run EXCEPT ![o] = v] /\ rows'.req = rows.req
    BY DEF ScheduleInv, ScheduleTyped, ScheduleRows
  <2>2. rows.run \in [SA!Occurrences -> Records]
    BY DEF ScheduleInv, ScheduleTyped, ScheduleRows
  <2>3. ghost.lost \/ (LiveRecord(o)' => LiveRecord(o))
    BY <2>1, <2>2 DEF LiveRecord, ScheduleInv, SA!RecordIsTrue, Records
  <2>4. \A p \in SA!Occurrences \ {o} : LiveRecord(p)' => LiveRecord(p)
    BY <2>1, <2>2 DEF LiveRecord
  <2> QED BY <2>3, <2>4 DEF OneLive, ScheduleInv
<1>4. SA!RecordIsTrue'
  BY DEF SA!RecordIsTrue, ScheduleInv, ScheduleTyped
<1> QED BY <1>2, <1>3, <1>4 DEF ScheduleInv

\* The types of what a step writes.
LEMMA RecordWritten ==
  ASSUME rows \in ScheduleRows, NEW o \in SA!Occurrences
  PROVE  /\ \A v \in Records : [rows EXCEPT !.run[o] = v] \in ScheduleRows
         /\ \A v \in {"none", "active", "over"} :
              [rows EXCEPT !.req[o] = v] \in ScheduleRows
BY DEF ScheduleRows

LEMMA TaskWritten ==
  ASSUME rows \in ScheduleRows
  PROVE  /\ \A on \in BOOLEAN, j \in {"live", "deleted"} :
              [rows EXCEPT !.job = j, !.on = on] \in ScheduleRows
         /\ \A on \in BOOLEAN : [rows EXCEPT !.on = on] \in ScheduleRows
         /\ \A e : [rows EXCEPT !.alive = @ \ {e}] \in ScheduleRows
BY DEF ScheduleRows

LEMMA DispatchWritten ==
  ASSUME NEW w \in Workers, procs \in [Workers -> Dispatches]
  PROVE  /\ SA!Over(w) => procs' \in [Workers -> Dispatches]
         /\ \A pc \in {"dispatch", "mark"}, o \in SA!Occurrences :
              SA!Goes(w, pc, o) => procs' \in [Workers -> Dispatches]
         /\ \A t \in BOOLEAN :
              [procs EXCEPT ![w].pc = "settle", ![w].terminal = t]
                \in [Workers -> Dispatches]
<1>1. SA!Over(w) => procs' \in [Workers -> Dispatches]
  BY DEF Dispatches, SA!Over, SA!Idle
<1>2. ASSUME NEW pc \in {"dispatch", "mark"}, NEW o \in SA!Occurrences,
             SA!Goes(w, pc, o)
      PROVE  procs' \in [Workers -> Dispatches]
  <2>1. [pc |-> pc, o |-> o, terminal |-> FALSE] \in Dispatches
    BY DEF Dispatches
  <2> QED BY <2>1, <1>2 DEF SA!Goes
<1>3. ASSUME NEW t \in BOOLEAN
      PROVE  [procs EXCEPT ![w].pc = "settle", ![w].terminal = t]
               \in [Workers -> Dispatches]
  <2>1. [procs[w] EXCEPT !.pc = "settle", !.terminal = t] \in Dispatches
    BY DEF Dispatches
  <2> QED BY <2>1
<1> QED BY <1>1, <1>2, <1>3

\* Every step keeps the types.
LEMMA ScheduleTypes ==
  ASSUME ScheduleConstants, ScheduleInv, SA!Next PROVE ScheduleTyped'
<1> USE DEF ScheduleInv, ScheduleTyped
<1>1. CASE SA!CreateJob \/ SA!UpdateJob \/ SA!DeleteJob \/ SA!TimePasses
             \/ SA!Ends
  <2>1. rows' \in ScheduleRows
    BY <1>1, TaskWritten DEF SA!CreateJob, SA!UpdateJob, SA!DeleteJob,
                             SA!TimePasses, SA!Ends
  <2> QED
    BY <1>1, <2>1 DEF SA!CreateJob, SA!UpdateJob, SA!DeleteJob,
                      SA!TimePasses, SA!Ends
<1>2. ASSUME NEW o \in SA!Occurrences, SA!RequestEnds(o)
      PROVE  ScheduleTyped'
  BY <1>2, RecordWritten DEF SA!RequestEnds
<1>3. ASSUME NEW w \in Workers, SA!ClaimDue(w)
      PROVE  ScheduleTyped'
  <2>1. outside.next \in SA!Occurrences /\ SA!NewRun \in Records
    BY <1>3 DEF SA!ClaimDue, SA!Due, NotYet, SA!Occurrences,
                ScheduleConstants, SA!NewRun, Records
  <2>2. SA!Goes(w, "dispatch", outside.next) \/ SA!Over(w)
    BY <1>3 DEF SA!ClaimDue
  <2>3. procs' \in [Workers -> Dispatches]
    BY <2>1, <2>2, DispatchWritten
  <2>4. rows' \in ScheduleRows
    BY <1>3, <2>1, RecordWritten DEF SA!ClaimDue
  <2> QED BY <1>3, <2>3, <2>4 DEF SA!ClaimDue
<1>4. ASSUME NEW w \in Workers, SA!ClaimUnusable(w)
      PROVE  ScheduleTyped'
  BY <1>4, TaskWritten DEF SA!ClaimUnusable
<1>5. ASSUME NEW w \in Workers, SA!DispatchNot(w) \/ SA!Submit(w)
                                  \/ SA!SubmitAgain(w) \/ SA!Mark(w)
                                  \/ SA!Settle(w)
      PROVE  ScheduleTyped'
  <2>1. procs[w].o \in SA!Occurrences
    BY <1>5 DEF SA!DispatchNot, SA!Submit, SA!SubmitAgain, SA!Mark, SA!Settle,
                AtRecord
  <2>2. rows' \in ScheduleRows
    BY <1>5, <2>1, RecordWritten DEF SA!DispatchNot, SA!Submit,
         SA!SubmitAgain, SA!Mark, SA!Settle, Records
  <2>3. procs' \in [Workers -> Dispatches]
    BY <1>5, <2>1, DispatchWritten DEF SA!DispatchNot, SA!Submit,
         SA!SubmitAgain, SA!Mark, SA!Settle
  <2> QED
    BY <1>5, <2>2, <2>3 DEF SA!DispatchNot, SA!Submit, SA!SubmitAgain,
                            SA!Mark, SA!Settle
<1>6. ASSUME NEW w \in Workers, SA!SubmitFails(w) \/ SA!Crash(w)
      PROVE  ScheduleTyped'
  <2>1. CASE SA!SubmitFails(w)
    <3>1. PICK t \in BOOLEAN :
            procs' = [procs EXCEPT ![w].pc = "settle", ![w].terminal = t]
      BY <2>1 DEF SA!SubmitFails
    <3> QED BY <2>1, <3>1, DispatchWritten DEF SA!SubmitFails
  <2>2. CASE SA!Crash(w)
    BY <2>2, DispatchWritten DEF SA!Crash
  <2> QED BY <1>6, <2>1, <2>2
<1>7. ASSUME NEW w \in Workers, NEW o \in SA!Occurrences, SA!Recover(w, o)
      PROVE  ScheduleTyped'
  BY <1>7, DispatchWritten DEF SA!Recover
<1>8. ASSUME NEW w \in Workers, NEW o \in Manual, SA!RunNow(w, o)
      PROVE  ScheduleTyped'
  <2>1. o \in SA!Occurrences /\ SA!NewRun \in Records
    BY DEF SA!Occurrences, SA!NewRun, Records
  <2>2. SA!Goes(w, "dispatch", o) \/ SA!Over(w)
    BY <1>8 DEF SA!RunNow
  <2>3. procs' \in [Workers -> Dispatches]
    BY <2>1, <2>2, DispatchWritten
  <2>4. rows' = rows \/ rows' = [rows EXCEPT !.run[o] = SA!NewRun]
    BY <1>8 DEF SA!RunNow
  <2>5. rows' \in ScheduleRows
    <3>1. [rows EXCEPT !.run[o] = SA!NewRun] \in ScheduleRows
      BY <2>1, RecordWritten, Zenon
    <3> QED BY <2>4, <3>1
  <2> QED BY <1>8, <2>3, <2>5 DEF SA!RunNow
<1> QED
  BY <1>1, <1>2, <1>3, <1>4, <1>5, <1>6, <1>7, <1>8 DEF SA!Next

LEMMA ScheduleStep ==
  ASSUME ScheduleConstants, ScheduleInv, SA!Next PROVE ScheduleInv'
<1> ScheduleTyped' /\ ScheduleTyped
  BY ScheduleTypes DEF ScheduleInv
<1>1. CASE SA!CreateJob \/ SA!UpdateJob \/ SA!DeleteJob \/ SA!TimePasses
             \/ SA!Ends
  <2>1. /\ UNCHANGED <<procs, ghost>>
        /\ rows'.run = rows.run /\ rows'.req = rows.req
    <3>1. CASE SA!CreateJob
      <4>1. PICK on \in BOOLEAN :
              rows' = [rows EXCEPT !.job = "live", !.on = on]
        BY <3>1 DEF SA!CreateJob
      <4> QED BY <3>1, <4>1 DEF SA!CreateJob, ScheduleTyped, ScheduleRows
    <3>2. CASE SA!DeleteJob
      BY <3>2 DEF SA!DeleteJob, ScheduleTyped, ScheduleRows
    <3>3. CASE SA!UpdateJob \/ SA!TimePasses
      BY <3>3 DEF SA!UpdateJob, SA!TimePasses, ScheduleTyped, ScheduleRows
    <3>4. CASE SA!Ends
      BY <3>4 DEF SA!Ends, ScheduleTyped, ScheduleRows
    <3> QED BY <1>1, <3>1, <3>2, <3>3, <3>4
  <2>2. /\ outside'.next = outside.next
        /\ outside'.due => outside.due \/ outside.next <= MaxOcc
    BY <1>1 DEF SA!CreateJob, SA!UpdateJob, SA!DeleteJob, SA!TimePasses,
                SA!Ends, ScheduleTyped
  <2> QED BY <2>1, <2>2, ScheduleAside
<1>2. ASSUME NEW o \in SA!Occurrences, SA!RequestEnds(o)
      PROVE  ScheduleInv'
  BY <1>2, ScheduleAside DEF SA!RequestEnds, ScheduleTyped, ScheduleRows
<1>3. ASSUME NEW w \in Workers, SA!ClaimDue(w)
      PROVE  ScheduleInv'
  <2>1. /\ outside.next \in 1 .. MaxOcc /\ outside.next \in SA!Occurrences
        /\ rows.run[outside.next] = "none"
    BY <1>3 DEF SA!ClaimDue, SA!Due, ScheduleInv, NotYet, ScheduleTyped,
                SA!Occurrences, ScheduleConstants
  <2>2. NotYet'
    <3>1. rows'.run = [rows.run EXCEPT ![outside.next] = SA!NewRun]
      BY <1>3 DEF SA!ClaimDue, ScheduleTyped, ScheduleRows
    <3>2. /\ outside'.next = outside.next + 1 /\ ~outside'.due
          /\ outside.next \in Nat
      BY <1>3 DEF SA!ClaimDue, ScheduleTyped
    <3> QED BY <2>1, <3>1, <3>2 DEF NotYet, ScheduleInv, ScheduleTyped,
              ScheduleRows, ScheduleConstants, SA!Occurrences
  <2> QED BY <1>3, <2>1, <2>2, NewRecord DEF SA!ClaimDue
<1>4. ASSUME NEW w \in Workers, SA!ClaimUnusable(w)
      PROVE  ScheduleInv'
  BY <1>4, ScheduleAside DEF SA!ClaimUnusable, ScheduleTyped, ScheduleRows
<1>5. ASSUME NEW w \in Workers, SA!DispatchNot(w)
      PROVE  ScheduleInv'
  <2>1. PICK o \in SA!Occurrences : o = procs[w].o
    BY <1>5 DEF SA!DispatchNot, ScheduleInv, AtRecord
  <2>2. CASE rows' = rows /\ ghost' = ghost
    BY <1>5, <2>2 DEF SA!DispatchNot, SA!Over, SA!Idle, ScheduleInv, AtRecord,
         ScheduleTyped, Dispatches, NotYet, OneLive, LiveRecord,
         SA!RecordIsTrue
  <2>3. CASE /\ rows.run[o] = "dispatching"
             /\ rows' = [rows EXCEPT !.run[o] = "cancelled"]
             /\ ghost' = [ghost EXCEPT !.lost = @ \/ rows.req[o] # "none"]
    <3>1. /\ rows'.run = [rows.run EXCEPT ![o] = "cancelled"]
          /\ rows'.req = rows.req /\ outside' = outside
          /\ ghost'.lost = (ghost.lost \/ rows.req[o] # "none")
      BY <1>5, <2>3 DEF ScheduleTyped, ScheduleRows, SA!DispatchNot
    <3>2. AtRecord'
      BY <1>5, <3>1 DEF SA!DispatchNot, SA!Over, SA!Idle, ScheduleInv,
           ScheduleTyped, Dispatches, AtRecord
    <3>3. NotYet' /\ OneLive' /\ SA!RecordIsTrue'
      BY <2>3, <3>1 DEF NotYet, OneLive, LiveRecord, SA!RecordIsTrue,
           ScheduleInv, ScheduleTyped, ScheduleRows
    <3> QED BY <3>2, <3>3 DEF ScheduleInv
  <2> QED BY <1>5, <2>1, <2>2, <2>3 DEF SA!DispatchNot
<1>6. ASSUME NEW w \in Workers, SA!Submit(w)
      PROVE  ScheduleInv'
  <2>1. PICK o \in SA!Occurrences : o = procs[w].o
    BY <1>6 DEF SA!Submit, ScheduleInv, AtRecord
  <2>2. /\ rows'.req = [rows.req EXCEPT ![o] = "active"]
        /\ rows'.run = rows.run /\ rows.run[o] = "dispatching"
        /\ rows.req[o] = "none" /\ UNCHANGED <<outside, ghost>>
    BY <1>6, <2>1 DEF SA!Submit, SA!MayDispatch, ScheduleTyped, ScheduleRows
  <2>3. AtRecord'
    BY <1>6, <2>1, <2>2 DEF SA!Submit, SA!Goes, ScheduleInv, ScheduleTyped,
         ScheduleRows, Dispatches, AtRecord
  <2>4. NotYet' /\ OneLive' /\ SA!RecordIsTrue'
    BY <2>2 DEF NotYet, OneLive, LiveRecord, SA!RecordIsTrue, ScheduleInv,
                ScheduleTyped, ScheduleRows
  <2> QED BY <2>3, <2>4 DEF ScheduleInv
<1>7. ASSUME NEW w \in Workers, SA!SubmitAgain(w) \/ SA!Mark(w)
      PROVE  ScheduleInv'
  <2>1. PICK o \in SA!Occurrences : o = procs[w].o
    BY <1>7 DEF SA!SubmitAgain, SA!Mark, ScheduleInv, AtRecord
  <2>2. rows.req[o] # "none"
    BY <1>7, <2>1 DEF SA!SubmitAgain, SA!Mark, ScheduleInv, AtRecord
  <2> QED BY <1>7, <2>1, <2>2, RecordMoves DEF SA!SubmitAgain, SA!Mark
<1>8. ASSUME NEW w \in Workers, SA!SubmitFails(w)
      PROVE  ScheduleInv'
  <2>1. PICK t \in BOOLEAN :
          procs' = [procs EXCEPT ![w].pc = "settle", ![w].terminal = t]
    BY <1>8 DEF SA!SubmitFails
  <2>2. AtRecord'
    BY <1>8, <2>1 DEF SA!SubmitFails, ScheduleInv, ScheduleTyped, Dispatches,
                      AtRecord
  <2> QED
    BY <1>8, <2>2 DEF SA!SubmitFails, ScheduleInv, NotYet, OneLive,
         LiveRecord, SA!RecordIsTrue
<1>9. ASSUME NEW w \in Workers, SA!Settle(w)
      PROVE  ScheduleInv'
  <2>1. PICK o \in SA!Occurrences : o = procs[w].o
    BY <1>9 DEF SA!Settle, ScheduleInv, AtRecord
  <2>2. CASE rows' = rows
    <3>1. SA!Over(w) /\ UNCHANGED <<outside, ghost>>
      BY <1>9 DEF SA!Settle
    <3> QED
      BY <2>2, <3>1 DEF SA!Over, SA!Idle, ScheduleInv, AtRecord,
           ScheduleTyped, Dispatches, NotYet, OneLive, LiveRecord,
           SA!RecordIsTrue
  <2>3. CASE rows' # rows
    BY <1>9, <2>1, <2>3, RecordMoves DEF SA!Settle, SA!Found
  <2> QED BY <2>2, <2>3
<1>10. ASSUME NEW w \in Workers, SA!Crash(w)
       PROVE  ScheduleInv'
  BY <1>10 DEF SA!Crash, SA!Over, SA!Idle, ScheduleInv, AtRecord,
       ScheduleTyped, Dispatches, NotYet, OneLive, LiveRecord,
       SA!RecordIsTrue
<1>11. ASSUME NEW w \in Workers, NEW o \in Manual, SA!RunNow(w, o)
       PROVE  ScheduleInv'
  <2>1. o \in SA!Occurrences /\ o \notin 1 .. MaxOcc
    BY DEF SA!Occurrences, ScheduleConstants
  <2>2. CASE rows.run[o] = "none"
    <3>1. rows' = [rows EXCEPT !.run[o] = SA!NewRun]
      BY <1>11, <2>2 DEF SA!RunNow
    <3>2. NotYet'
      BY <1>11, <2>1, <3>1 DEF SA!RunNow, NotYet, ScheduleInv, ScheduleTyped,
           ScheduleRows
    <3> QED BY <1>11, <2>1, <2>2, <3>1, <3>2, NewRecord DEF SA!RunNow
  <2>3. CASE rows' = rows
    BY <1>11, <2>1, <2>3 DEF SA!RunNow, SA!Over, SA!Goes, SA!Idle,
         ScheduleInv, AtRecord, ScheduleTyped, Dispatches, NotYet, OneLive,
         LiveRecord, SA!RecordIsTrue
  <2> QED BY <1>11, <2>2, <2>3 DEF SA!RunNow
<1>12. ASSUME NEW w \in Workers, NEW o \in SA!Occurrences, SA!Recover(w, o)
       PROVE  ScheduleInv'
  BY <1>12 DEF SA!Recover, SA!Goes, ScheduleInv, AtRecord, ScheduleTyped,
       Dispatches, NotYet, OneLive, LiveRecord, SA!RecordIsTrue
<1> QED
  BY <1>1, <1>2, <1>3, <1>4, <1>5, <1>6, <1>7, <1>8, <1>9, <1>10, <1>11,
     <1>12 DEF SA!Next

LEMMA ScheduleKept ==
  ASSUME ScheduleConstants, ScheduleInv, [SA!Next]_(SA!vars)
  PROVE  ScheduleInv'
<1>1. CASE UNCHANGED SA!vars
  BY <1>1 DEF SA!vars, ScheduleInv, ScheduleTyped, AtRecord, NotYet, OneLive,
              LiveRecord, SA!RecordIsTrue
<1> QED BY <1>1, ScheduleStep

LEMMA ScheduleSafe ==
  ASSUME ScheduleInv PROVE SA!NoOverlap /\ SA!RecordIsTrue
<1>1. CASE ~ghost.lost
  <2>1. \A o, p \in SA!Occurrences :
          rows.req[o] = "active" /\ rows.req[p] = "active" => o = p
    BY <1>1 DEF ScheduleInv, ScheduleTyped, ScheduleRows, Records, OneLive,
                LiveRecord, SA!RecordIsTrue
  <2>2. Cardinality({o \in SA!Occurrences : rows.req[o] = "active"}) <= 1
    BY <2>1, AtMostOne
  <2> QED BY <2>2, SameCardinality DEF SA!NoOverlap, ScheduleInv
<1> QED BY <1>1 DEF SA!NoOverlap, ScheduleInv

\* The requests of one scheduled task do not overlap, and its records tell
\* what became of their requests, for any number of occurrences and of
\* executions that dispatch them (services/scheduled_agent_service.py).
THEOREM ScheduledAgentsSafe ==
  ScheduleConstants => (SA!Spec => [](SA!NoOverlap /\ SA!RecordIsTrue))
<1> SUFFICES ASSUME ScheduleConstants
             PROVE  SA!Spec => [](SA!NoOverlap /\ SA!RecordIsTrue)
  OBVIOUS
<1>1. SA!Init => ScheduleInv
  BY ScheduleInit
<1>2. ScheduleInv /\ [SA!Next]_(SA!vars) => ScheduleInv'
  BY ScheduleKept
<1>3. ScheduleInv => SA!NoOverlap /\ SA!RecordIsTrue
  BY ScheduleSafe
<1> QED BY <1>1, <1>2, <1>3, PTL DEF SA!Spec

-----------------------------------------------------------------------------
(* Delegations.                                                            *)

DelegationConstants ==
  NoOne \notin Workers /\ MaxItems \in Nat /\ Multica \in BOOLEAN

DelegationRows ==
  [st : {"none", "pending", "dispatched", "collecting", "reclaimed"},
   live : BOOLEAN, handle : Nat, result : Nat, lock : Workers \cup {NoOne}]
Executions ==
  [pc : {"idle", "search", "create", "apply", "error", "collect", "giveback",
         "store"},
   item : Nat]
DelegationTyped ==
  /\ rows \in DelegationRows
  /\ procs \in [Workers -> Executions]
  /\ outside \in [items : SUBSET DE!Items, done : SUBSET DE!Items]
  /\ ghost \in [slow : BOOLEAN, overlap : BOOLEAN, reopened : BOOLEAN]

Dispatching(w) == procs[w].pc \in {"search", "create", "apply"}
Collecting(w) == procs[w].pc \in {"collect", "giveback", "store"}
Given == rows.st \in {"dispatched", "collecting", "reclaimed"}

\* What holds whether or not leases ran out.
DelegationShape ==
  /\ \A w \in Workers :
       /\ procs[w].pc = "apply" => procs[w].item \in outside.items
       /\ procs[w].pc = "create" => Multica
       /\ procs[w].pc = "apply" => Multica
       /\ procs[w].pc = "store" /\ ~Multica => procs[w].item \in outside.done
       /\ Collecting(w) => Given
  /\ rows.lock # NoOne => Dispatching(rows.lock)
                            \/ procs[rows.lock].pc = "error"
  /\ rows.st = "none" => /\ \A w \in Workers : procs[w].pc = "idle"
                         /\ outside.items = {} /\ rows.lock = NoOne
  /\ Given => rows.handle \in outside.items
  /\ ~Given => rows.result = 0 /\ (Multica \/ outside.items = {})
  /\ rows.result # 0 /\ ~Multica => rows.result \in outside.done

\* While no lease ran out during a dispatch one execution dispatches, under
\* its lease and alone or under the row lock; there is one item and its
\* handle stays.
OneDispatch ==
  /\ \A w, v \in Workers : Dispatching(w) /\ Dispatching(v) => w = v
  /\ \A w \in Workers : Dispatching(w) =>
       /\ rows.st = "pending"
       /\ \/ rows.lock = w
          \/ rows.live /\ \A v \in Workers \ {w} : procs[v].pc = "idle"
  /\ \A w \in Workers : procs[w].pc = "create" => outside.items = {}
  /\ \A i, j \in outside.items : i = j
  /\ \A w \in Workers : Collecting(w) => procs[w].item = rows.handle
  /\ rows.result # 0 => rows.result = rows.handle

\* While no two collected at a time nobody is left to undo the result.
OneCollection ==
  /\ \A w, v \in Workers : Collecting(w) /\ Collecting(v) => w = v
  /\ \A w \in Workers : Collecting(w) => rows.st # "reclaimed"
  /\ ~ghost.reopened

DelegationInv ==
  /\ DelegationTyped /\ DelegationShape
  /\ ghost.slow \/ OneDispatch
  /\ ghost.slow \/ ghost.overlap \/ OneCollection

LEMMA DelegationInit ==
  ASSUME DelegationConstants, DE!Init PROVE DelegationInv
<1>1. DelegationTyped
  BY DEF DE!Init, DE!Idle, DelegationTyped, DelegationRows, Executions
<1> QED
  BY <1>1 DEF DelegationInv, DE!Init, DE!Idle, DelegationShape, OneDispatch,
              OneCollection, Dispatching, Collecting, Given

LEMMA NewItemIsItem ==
  ASSUME DelegationConstants, outside.items \subseteq DE!Items,
         outside.items # DE!Items
  PROVE  DE!NewItem \in DE!Items
<1> DEFINE Left == DE!Items \ outside.items
<1>1. Left \subseteq Nat /\ Left # {}
  <2>1. DE!Items \subseteq Nat
    BY DEF DE!Items, DelegationConstants
  <2>2. \E i \in DE!Items : i \notin outside.items
    OBVIOUS
  <2> QED BY <2>1, <2>2
<1>2. PICK n \in Left : \A m \in Left : n <= m
  BY <1>1, LeastNumber
<1>3. \E i \in DE!Items : i \notin outside.items /\ \A j \in DE!Items :
        j \notin outside.items => i <= j
  BY <1>2
<1> QED BY <1>3 DEF DE!NewItem

LEMMA ExecutionWritten ==
  ASSUME DelegationConstants, NEW w \in Workers,
         procs \in [Workers -> Executions]
  PROVE  /\ DE!Over(w) => procs' \in [Workers -> Executions]
         /\ \A pc \in {"search", "create", "apply", "error", "collect",
                       "giveback", "store"}, i \in Nat :
              DE!Goes(w, pc, i) => procs' \in [Workers -> Executions]
<1>1. DE!Over(w) => procs' \in [Workers -> Executions]
  BY DEF DE!Over, DE!Idle, Executions
<1>2. ASSUME NEW pc \in {"search", "create", "apply", "error", "collect",
                         "giveback", "store"}, NEW i \in Nat,
             DE!Goes(w, pc, i)
      PROVE  procs' \in [Workers -> Executions]
  <2>1. [pc |-> pc, item |-> i] \in Executions
    BY DEF Executions
  <2> QED BY <2>1, <1>2 DEF DE!Goes
<1> QED BY <1>1, <1>2

LEMMA DelegationTypes ==
  ASSUME DelegationConstants, DelegationInv, DE!Next PROVE DelegationTyped'
<1> USE DEF DelegationInv, DelegationTyped
<1> DE!Items \subseteq Nat
  BY DEF DE!Items, DelegationConstants
<1>1. CASE DE!LeaseEnds
  BY <1>1 DEF DE!LeaseEnds, DelegationRows
<1>2. ASSUME NEW i \in DE!Items, DE!ItemEnds(i) PROVE DelegationTyped'
  BY <1>2 DEF DE!ItemEnds
<1>3. ASSUME NEW w \in Workers, DE!Dispatch(w) \/ DE!Converge(w)
      PROVE  DelegationTyped'
  <2>1. rows' \in DelegationRows
    BY <1>3 DEF DE!Dispatch, DE!Converge, DelegationRows
  <2> QED BY <1>3, <2>1, ExecutionWritten DEF DE!Dispatch, DE!Converge
<1>4. ASSUME NEW w \in Workers, DE!Search(w) \/ DE!Fails(w)
                                  \/ DE!NotReady(w) \/ DE!Ready(w)
      PROVE  DelegationTyped'
  <2>1. \A i \in outside.items : i \in Nat
    BY DEF DelegationTyped
  <2>2. procs[w].item \in Nat
    BY DEF Executions
  <2>3. procs' \in [Workers -> Executions]
    BY <1>4, <2>1, <2>2, ExecutionWritten DEF DE!Search, DE!Marked, DE!Fails,
         DE!NotReady, DE!Ready
  <2> QED BY <1>4, <2>3 DEF DE!Search, DE!Fails, DE!NotReady, DE!Ready
<1>5. ASSUME NEW w \in Workers, DE!Create(w) PROVE DelegationTyped'
  <2>1. DE!NewItem \in DE!Items
    BY <1>5, NewItemIsItem DEF DE!Create
  <2>2. procs' \in [Workers -> Executions]
    BY <1>5, <2>1, ExecutionWritten DEF DE!Create
  <2> QED BY <1>5, <2>1, <2>2 DEF DE!Create
<1>6. ASSUME NEW w \in Workers, DE!Apply(w) PROVE DelegationTyped'
  <2>1. procs[w].item \in Nat
    BY DEF Executions
  <2>2. rows' \in DelegationRows
    BY <1>6, <2>1 DEF DE!Apply, DelegationRows
  <2> QED BY <1>6, <2>2, ExecutionWritten DEF DE!Apply, DE!Leaves
<1>7. ASSUME NEW w \in Workers, DE!ApplyTurn(w) PROVE DelegationTyped'
  <2>1. DE!NewItem \in DE!Items
    BY <1>7, NewItemIsItem DEF DE!ApplyTurn
  <2>2. rows' \in DelegationRows
    BY <1>7, <2>1 DEF DE!ApplyTurn, DelegationRows
  <2> QED BY <1>7, <2>1, <2>2, ExecutionWritten DEF DE!ApplyTurn, DE!Leaves
<1>8. ASSUME NEW w \in Workers, DE!Collect(w) PROVE DelegationTyped'
  <2>1. rows.handle \in Nat /\ rows' \in DelegationRows
    BY <1>8 DEF DE!Collect, DelegationRows
  <2> QED BY <1>8, <2>1, ExecutionWritten DEF DE!Collect
<1>9. ASSUME NEW w \in Workers, DE!RecordError(w) \/ DE!GiveBack(w)
                                  \/ DE!Store(w) \/ DE!Crash(w)
      PROVE  DelegationTyped'
  <2>1. procs[w].item \in Nat
    BY DEF Executions
  <2>2. rows' \in DelegationRows
    BY <1>9, <2>1 DEF DE!RecordError, DE!GiveBack, DE!Store, DE!Crash,
                      DelegationRows
  <2>3. procs' \in [Workers -> Executions]
    BY <1>9, ExecutionWritten DEF DE!RecordError, DE!GiveBack, DE!Store,
                                  DE!Crash
  <2> QED
    BY <1>9, <2>2, <2>3 DEF DE!RecordError, DE!GiveBack, DE!Store, DE!Crash,
                            DE!Leaves
<1>10. ASSUME NEW w \in Workers, DE!Reset(w) PROVE DelegationTyped'
  BY <1>10 DEF DE!Reset, DelegationRows
<1> QED
  BY <1>1, <1>2, <1>3, <1>4, <1>5, <1>6, <1>7, <1>8, <1>9, <1>10 DEF DE!Next

LEMMA DelegationStep ==
  ASSUME DelegationConstants, DelegationInv, DE!Next PROVE DelegationInv'
<1> DelegationTyped /\ DelegationTyped'
  BY DelegationTypes DEF DelegationInv
<1> USE DEF DelegationInv, Dispatching, Collecting, Given, DelegationConstants
<1>1. CASE DE!LeaseEnds
  <2>1. /\ UNCHANGED <<procs, outside>>
        /\ ghost'.overlap = ghost.overlap /\ ghost'.reopened = ghost.reopened
        /\ ~ghost'.slow => ~ghost.slow /\ \A w \in Workers : ~Dispatching(w)
        /\ rows' = [rows EXCEPT !.live = FALSE]
    BY <1>1 DEF DE!LeaseEnds, DelegationTyped
  <2> QED
    BY <2>1 DEF DelegationTyped, DelegationRows, DelegationShape, OneDispatch,
                OneCollection
<1>2. ASSUME NEW i \in DE!Items, DE!ItemEnds(i) PROVE DelegationInv'
  BY <1>2 DEF DE!ItemEnds, DelegationTyped, DelegationShape, OneDispatch,
              OneCollection
<1>3. ASSUME NEW w \in Workers, DE!Dispatch(w) PROVE DelegationInv'
  <2>1. /\ procs' = [procs EXCEPT ![w] = [pc |-> "search", item |-> 0]]
        /\ rows.st = "none" /\ UNCHANGED <<outside, ghost>>
        /\ rows' = [rows EXCEPT !.st = "pending", !.live = TRUE]
    BY <1>3 DEF DE!Dispatch, DE!Goes
  <2>2. DelegationShape'
    BY <2>1 DEF DelegationTyped, DelegationRows, DelegationShape
  <2>3. OneDispatch'
    BY <2>1 DEF DelegationTyped, DelegationRows, DelegationShape, OneDispatch
  <2>4. OneCollection => OneCollection'
    BY <2>1 DEF DelegationTyped, DelegationRows, DelegationShape,
                OneCollection
  <2> QED BY <2>1, <2>2, <2>3, <2>4
<1>4. ASSUME NEW w \in Workers, DE!Converge(w) PROVE DelegationInv'
  <2>1. /\ procs' = [procs EXCEPT ![w] = [pc |-> "search", item |-> 0]]
        /\ rows.st = "pending" /\ ~rows.live /\ rows.lock = NoOne
        /\ procs[w].pc = "idle" /\ UNCHANGED <<outside, ghost>>
        /\ rows' = [rows EXCEPT !.lock = w]
    BY <1>4 DEF DE!Converge, DE!Goes, DE!Idle
  <2>2. DelegationShape'
    BY <2>1 DEF DelegationTyped, DelegationRows, DelegationShape
  <2>3. OneDispatch => OneDispatch'
    BY <2>1 DEF DelegationTyped, DelegationRows, DelegationShape, OneDispatch
  <2>4. OneCollection => OneCollection'
    BY <2>1 DEF DelegationTyped, DelegationRows, DelegationShape,
                OneCollection
  <2> QED BY <2>1, <2>2, <2>3, <2>4
<1>5. ASSUME NEW w \in Workers, DE!Search(w) PROVE DelegationInv'
  <2>1. /\ UNCHANGED <<rows, outside, ghost>> /\ Multica
        /\ procs[w].pc = "search"
        /\ \/ \E i \in outside.items :
                procs' = [procs EXCEPT ![w] = [pc |-> "apply", item |-> i]]
           \/ /\ outside.items = {}
              /\ procs' = [procs EXCEPT ![w] = [pc |-> "create", item |-> 0]]
    BY <1>5 DEF DE!Search, DE!Goes, DE!Marked
  <2>2. DelegationShape'
    BY <2>1 DEF DelegationTyped, DelegationRows, DelegationShape
  <2>3. OneDispatch => OneDispatch'
    BY <2>1 DEF DelegationTyped, DelegationRows, DelegationShape, OneDispatch
  <2>4. OneCollection => OneCollection'
    BY <2>1 DEF DelegationTyped, OneCollection
  <2> QED BY <2>1, <2>2, <2>3, <2>4
<1>6. ASSUME NEW w \in Workers, DE!Create(w) PROVE DelegationInv'
  <2>1. /\ UNCHANGED <<rows, ghost>> /\ outside'.done = outside.done
        /\ outside'.items = outside.items \cup {DE!NewItem}
        /\ procs[w].pc = "create"
        /\ \/ procs' = [procs EXCEPT ![w] = [pc |-> "apply",
                                             item |-> DE!NewItem]]
           \/ procs' = [procs EXCEPT ![w] = [pc |-> "error", item |-> 0]]
    BY <1>6 DEF DE!Create, DE!Goes, DelegationTyped
  <2>2. DelegationShape'
    BY <2>1 DEF DelegationTyped, DelegationRows, DelegationShape
  <2>3. OneDispatch => OneDispatch'
    BY <2>1 DEF DelegationTyped, DelegationRows, DelegationShape, OneDispatch
  <2>4. OneCollection => OneCollection'
    BY <2>1 DEF DelegationTyped, OneCollection
  <2> QED BY <2>1, <2>2, <2>3, <2>4
<1>7. ASSUME NEW w \in Workers, NEW i \in outside'.items,
             procs' = [procs EXCEPT ![w] = [pc |-> "idle", item |-> 0]],
             \/ procs[w].pc = "apply" /\ outside' = outside
             \/ /\ procs[w].pc = "search" /\ ~Multica
                /\ outside'.items = outside.items \cup {i}
                /\ outside'.done = outside.done,
             rows.lock \in {NoOne, w},
             rows' = [rows EXCEPT !.st = "dispatched", !.handle = i,
                                  !.live = FALSE, !.lock = NoOne],
             DE!Leaves("dispatched")
      PROVE  DelegationInv'
  <2>1. DelegationShape'
    BY <1>7 DEF DelegationTyped, DelegationRows, DelegationShape
  <2>2. /\ ghost'.slow = ghost.slow /\ ghost'.overlap = ghost.overlap
        /\ rows.st # "reclaimed" => ghost'.reopened = ghost.reopened
    BY <1>7 DEF DE!Leaves, DelegationTyped
  <2>3. OneDispatch => OneDispatch'
    BY <1>7 DEF DelegationTyped, DelegationRows, DelegationShape, OneDispatch
  <2>4. OneDispatch /\ OneCollection => OneCollection'
    BY <1>7, <2>2 DEF DelegationTyped, DelegationRows, DelegationShape,
                      OneDispatch, OneCollection
  <2> QED BY <2>1, <2>2, <2>3, <2>4
<1>8. ASSUME NEW w \in Workers, DE!Apply(w) PROVE DelegationInv'
  <2>1. procs[w].item \in outside.items
    BY <1>8 DEF DE!Apply, DelegationShape
  <2> QED BY <1>7, <1>8, <2>1 DEF DE!Apply, DE!Over, DE!Idle, DE!Free
<1>9. ASSUME NEW w \in Workers, DE!ApplyTurn(w) PROVE DelegationInv'
  <2>1. /\ outside'.items = outside.items \cup {DE!NewItem}
        /\ outside'.done = outside.done
    BY <1>9 DEF DE!ApplyTurn, DelegationTyped
  <2> QED BY <1>7, <1>9, <2>1 DEF DE!ApplyTurn, DE!Over, DE!Idle, DE!Free
<1>10. ASSUME NEW w \in Workers, DE!Fails(w) PROVE DelegationInv'
  <2>1. /\ UNCHANGED <<rows, outside, ghost>> /\ Dispatching(w)
        /\ procs' = [procs EXCEPT ![w] = [pc |-> "error", item |-> 0]]
    BY <1>10 DEF DE!Fails, DE!Goes
  <2>2. DelegationShape'
    BY <2>1 DEF DelegationTyped, DelegationRows, DelegationShape
  <2>3. OneDispatch => OneDispatch'
    BY <2>1 DEF DelegationTyped, DelegationRows, DelegationShape, OneDispatch
  <2>4. OneCollection => OneCollection'
    BY <2>1 DEF DelegationTyped, OneCollection
  <2> QED BY <2>1, <2>2, <2>3, <2>4
<1>11. ASSUME NEW w \in Workers, DE!RecordError(w) PROVE DelegationInv'
  <2>1. /\ UNCHANGED <<outside, ghost>> /\ procs[w].pc = "error"
        /\ rows.lock \in {NoOne, w}
        /\ rows' = [rows EXCEPT !.live = FALSE, !.lock = NoOne]
        /\ procs' = [procs EXCEPT ![w] = [pc |-> "idle", item |-> 0]]
    BY <1>11 DEF DE!RecordError, DE!Over, DE!Idle, DE!Free
  <2>2. DelegationShape'
    BY <2>1 DEF DelegationTyped, DelegationRows, DelegationShape
  <2>3. OneDispatch => OneDispatch'
    BY <2>1 DEF DelegationTyped, DelegationRows, DelegationShape, OneDispatch
  <2>4. OneCollection => OneCollection'
    BY <2>1 DEF DelegationTyped, DelegationRows, OneCollection
  <2> QED BY <2>1, <2>2, <2>3, <2>4
<1>12. ASSUME NEW w \in Workers, DE!Collect(w) PROVE DelegationInv'
  <2>1. /\ UNCHANGED outside /\ rows.lock = NoOne
        /\ rows.st \in {"dispatched", "collecting"}
        /\ rows' = [rows EXCEPT !.st = "collecting", !.live = TRUE]
        /\ procs' = [procs EXCEPT ![w] = [pc |-> "collect",
                                          item |-> rows.handle]]
        /\ ghost'.slow = ghost.slow /\ ghost'.reopened = ghost.reopened
        /\ ~ghost'.overlap =>
             ~ghost.overlap /\ \A v \in Workers : ~Collecting(v)
    BY <1>12 DEF DE!Collect, DE!Goes, DelegationTyped
  <2>2. DelegationShape'
    BY <2>1 DEF DelegationTyped, DelegationRows, DelegationShape
  <2>3. OneDispatch => OneDispatch'
    BY <2>1 DEF DelegationTyped, DelegationRows, DelegationShape, OneDispatch
  <2>4. ~ghost'.overlap /\ OneCollection => OneCollection'
    BY <2>1 DEF DelegationTyped, DelegationRows, OneCollection
  <2> QED BY <2>1, <2>2, <2>3, <2>4
<1>13. ASSUME NEW w \in Workers, DE!NotReady(w) \/ DE!Ready(w)
       PROVE  DelegationInv'
  <2>1. /\ UNCHANGED <<rows, outside, ghost>> /\ procs[w].pc = "collect"
        /\ \/ procs' = [procs EXCEPT ![w] = [pc |-> "giveback",
                                             item |-> procs[w].item]]
           \/ /\ Multica \/ procs[w].item \in outside.done
              /\ procs' = [procs EXCEPT ![w] = [pc |-> "store",
                                                item |-> procs[w].item]]
    BY <1>13 DEF DE!NotReady, DE!Ready, DE!Goes
  <2>2. DelegationShape'
    BY <2>1 DEF DelegationTyped, DelegationRows, DelegationShape
  <2>3. OneDispatch => OneDispatch'
    BY <2>1 DEF DelegationTyped, DelegationRows, DelegationShape, OneDispatch
  <2>4. OneCollection => OneCollection'
    BY <2>1 DEF DelegationTyped, OneCollection
  <2> QED BY <2>1, <2>2, <2>3, <2>4
<1>14. ASSUME NEW w \in Workers, DE!GiveBack(w) PROVE DelegationInv'
  <2>1. /\ UNCHANGED outside /\ procs[w].pc = "giveback"
        /\ rows' = [rows EXCEPT !.st = "dispatched", !.live = FALSE]
        /\ procs' = [procs EXCEPT ![w] = [pc |-> "idle", item |-> 0]]
        /\ ghost'.slow = ghost.slow /\ ghost'.overlap = ghost.overlap
        /\ rows.st # "reclaimed" => ghost'.reopened = ghost.reopened
    BY <1>14 DEF DE!GiveBack, DE!Over, DE!Idle, DE!Leaves, DelegationTyped
  <2>2. DelegationShape'
    BY <2>1 DEF DelegationTyped, DelegationRows, DelegationShape
  <2>3. OneDispatch => OneDispatch'
    BY <2>1 DEF DelegationTyped, DelegationRows, DelegationShape, OneDispatch
  <2>4. OneCollection => OneCollection'
    BY <2>1 DEF DelegationTyped, DelegationRows, OneCollection
  <2> QED BY <2>1, <2>2, <2>3, <2>4
<1>15. ASSUME NEW w \in Workers, DE!Store(w) PROVE DelegationInv'
  <2>1. /\ UNCHANGED <<outside, ghost>> /\ procs[w].pc = "store"
        /\ rows' = [rows EXCEPT !.st = "reclaimed", !.live = FALSE,
                                !.result = procs[w].item]
        /\ procs' = [procs EXCEPT ![w] = [pc |-> "idle", item |-> 0]]
    BY <1>15 DEF DE!Store, DE!Over, DE!Idle
  <2>2. DelegationShape'
    BY <2>1 DEF DelegationTyped, DelegationRows, DelegationShape
  <2>3. OneDispatch => OneDispatch'
    BY <2>1 DEF DelegationTyped, DelegationRows, DelegationShape, OneDispatch
  <2>4. OneCollection => OneCollection'
    BY <2>1 DEF DelegationTyped, DelegationRows, OneCollection
  <2> QED BY <2>1, <2>2, <2>3, <2>4
<1>16. ASSUME NEW w \in Workers, DE!Reset(w) PROVE DelegationInv'
  <2>1. /\ UNCHANGED <<procs, outside, ghost>> /\ rows.st = "collecting"
        /\ rows' = [rows EXCEPT !.st = "dispatched"]
    BY <1>16 DEF DE!Reset
  <2> QED
    BY <2>1 DEF DelegationTyped, DelegationRows, DelegationShape, OneDispatch,
                OneCollection
<1>17. ASSUME NEW w \in Workers, DE!Crash(w) PROVE DelegationInv'
  <2>1. /\ UNCHANGED <<outside, ghost>>
        /\ rows' = [rows EXCEPT !.lock = IF @ = w THEN NoOne ELSE @]
        /\ procs' = [procs EXCEPT ![w] = [pc |-> "idle", item |-> 0]]
    BY <1>17 DEF DE!Crash, DE!Over, DE!Idle
  <2>2. DelegationShape'
    BY <2>1 DEF DelegationTyped, DelegationRows, DelegationShape
  <2>3. OneDispatch => OneDispatch'
    BY <2>1 DEF DelegationTyped, DelegationRows, DelegationShape, OneDispatch
  <2>4. OneCollection => OneCollection'
    BY <2>1 DEF DelegationTyped, DelegationRows, OneCollection
  <2> QED BY <2>1, <2>2, <2>3, <2>4
<1> QED
  BY <1>1, <1>2, <1>3, <1>4, <1>5, <1>6, <1>8, <1>9, <1>10, <1>11, <1>12,
     <1>13, <1>14, <1>15, <1>16, <1>17 DEF DE!Next

LEMMA DelegationKept ==
  ASSUME DelegationConstants, DelegationInv, [DE!Next]_(DE!vars)
  PROVE  DelegationInv'
<1>1. CASE UNCHANGED DE!vars
  BY <1>1 DEF DE!vars, DelegationInv, DelegationTyped, DelegationShape,
              OneDispatch, OneCollection, Dispatching, Collecting, Given
<1> QED BY <1>1, DelegationStep

LEMMA DelegationSafe ==
  ASSUME DelegationInv
  PROVE  DE!OneItem /\ DE!HandleIsItem /\ DE!ReclaimedStays
<1>1. DE!OneItem
  <2>1. ghost.slow \/ Cardinality(outside.items) <= 1
    BY AtMostOne DEF DelegationInv, OneDispatch
  <2> QED BY <2>1, SameCardinality DEF DE!OneItem
<1>2. DE!HandleIsItem
  BY DEF DelegationInv, DelegationShape, OneDispatch, Given, DE!HandleIsItem
<1>3. DE!ReclaimedStays
  BY DEF DelegationInv, OneCollection, DE!ReclaimedStays
<1> QED BY <1>1, <1>2, <1>3

\* A delegation makes one work item, what it records is that item and its
\* result, and the result stays; unless a lease ran out during a dispatch or,
\* for the last, two collected at a time (services/delegation_service.py).
THEOREM DelegationsSafe ==
  DelegationConstants =>
    (DE!Spec => [](DE!OneItem /\ DE!HandleIsItem /\ DE!ReclaimedStays))
<1> SUFFICES ASSUME DelegationConstants
             PROVE  DE!Spec => [](DE!OneItem /\ DE!HandleIsItem
                                    /\ DE!ReclaimedStays)
  OBVIOUS
<1>1. DE!Init => DelegationInv
  BY DelegationInit
<1>2. DelegationInv /\ [DE!Next]_(DE!vars) => DelegationInv'
  BY DelegationKept
<1>3. DelegationInv => DE!OneItem /\ DE!HandleIsItem /\ DE!ReclaimedStays
  BY DelegationSafe
<1> QED BY <1>1, <1>2, <1>3, PTL DEF DE!Spec

-----------------------------------------------------------------------------
(* Governance: the order in which Multica lists issues.                    *)

\* Issues are told apart by ids that are ordered.
GovernanceConstants ==
  /\ Issues \subseteq Nat /\ IsFiniteSet(Issues)
  /\ MaxTime \in Nat /\ MaxPages \in Nat

\* Issues that are numbered.
LEMMA NumberedIssues == \A n \in Nat : IsFiniteSet(1 .. n)
BY FS_Interval

GovernanceRows ==
  [cursor : Nat, owner : Workers \cup {NoOne}, live : BOOLEAN,
   st : [Issues -> {"none", "proposed", "canonical", "rejected"}],
   text : [Issues -> Nat],
   task : {"none", "proposed", "canonical", "rejected", "delegated"}]
Pulls ==
  [pc : {"idle", "page", "import"}, from : Nat, seen : Nat, offset : Nat,
   issue : Issues \cup {0}]
GovernanceTyped ==
  /\ rows \in GovernanceRows
  /\ procs \in [Workers -> Pulls]
  /\ outside \in [at : [Issues -> Nat], tie : GV!Orders, now : Nat]
  /\ ghost \in [moved : BOOLEAN, back : BOOLEAN, reviewed : [Issues -> Nat]]

\* How many issues are listed before one, at a place of the list.
Before(i) == {j \in GV!Present : GV!Newer(j, i)}
Rank(i) == Cardinality(Before(i))

LEMMA RankType ==
  ASSUME GovernanceConstants, NEW i
  PROVE  IsFiniteSet(Before(i)) /\ Rank(i) \in Nat
<1>1. Before(i) \subseteq Issues
  BY DEF Before, GV!Present
<1> QED BY <1>1, FS_Subset, FS_CardinalityType DEF Rank, GovernanceConstants

LEMMA NewerOrder ==
  ASSUME GovernanceConstants, GovernanceTyped
  PROVE  /\ \A i \in Issues : ~GV!Newer(i, i)
         /\ \A i, j \in Issues : i = j \/ GV!Newer(i, j) \/ GV!Newer(j, i)
         /\ \A i, j, k \in Issues :
              GV!Newer(i, j) /\ GV!Newer(j, k) => GV!Newer(i, k)
<1>1. /\ \A i \in Issues : outside.at[i] \in Nat /\ outside.tie[i] \in Nat
      /\ \A i, j \in Issues : outside.tie[i] = outside.tie[j] => i = j
  BY DEF GovernanceConstants, GovernanceTyped, GV!Orders
<1> QED BY <1>1 DEF GV!Newer

LEMMA RankOrder ==
  ASSUME GovernanceConstants, GovernanceTyped, NEW i \in GV!Present,
         NEW j \in GV!Present, GV!Newer(i, j)
  PROVE  Rank(i) < Rank(j)
<1>1. Before(i) \subseteq Before(j) /\ i \in Before(j) /\ i \notin Before(i)
  BY NewerOrder DEF Before, GV!Present
<1>2. /\ Cardinality(Before(i)) <= Cardinality(Before(j))
      /\ Cardinality(Before(i)) = Cardinality(Before(j)) =>
           Before(i) = Before(j)
  BY <1>1, RankType, FS_Subset
<1> QED BY <1>1, <1>2, RankType DEF Rank

LEMMA RankUnique ==
  ASSUME GovernanceConstants, GovernanceTyped, NEW i \in GV!Present,
         NEW j \in GV!Present
  PROVE  /\ Rank(i) = Rank(j) => i = j
         /\ Rank(i) < Rank(j) => GV!Newer(i, j)
BY RankOrder, RankType, NewerOrder DEF GV!Present

\* The list has no holes: below the place of an issue every place is taken.
LEMMA RankFull ==
  ASSUME GovernanceConstants, GovernanceTyped, NEW j \in GV!Present,
         NEW k \in Nat, k <= Rank(j)
  PROVE  \E i \in GV!Present : Rank(i) = k
<1> DEFINE T == {Rank(i) : i \in {x \in GV!Present : Rank(x) >= k}}
<1>1. T \subseteq Nat /\ Rank(j) \in T
  BY RankType
<1>2. PICK m \in T : \A n \in T : m <= n
  BY <1>1, LeastNumber
<1>3. PICK i \in GV!Present : Rank(i) = m /\ m >= k
  BY <1>2
<1>4. CASE m = k
  BY <1>3, <1>4
<1>5. CASE m > k
  <2> DEFINE N == Before(i)
             U == {m - Rank(x) : x \in N}
  <2>1. IsFiniteSet(N) /\ N # {} /\ N \subseteq GV!Present /\ m \in Nat
    BY <1>3, <1>5, RankType, FS_EmptySet DEF Before, Rank
  <2>2. \A x \in N : Rank(x) \in Nat /\ Rank(x) < m
    BY <1>3, RankOrder, RankType DEF Before
  <2>3. U \subseteq Nat /\ U # {}
    BY <2>1, <2>2
  <2>4. PICK u \in U : \A v \in U : u <= v
    BY <2>3, LeastNumber
  <2>5. PICK e \in N : u = m - Rank(e)
    BY <2>4
  <2>6. \A x \in N : Rank(x) <= Rank(e)
    BY <2>1, <2>2, <2>4, <2>5
  <2>7. \A x \in N \ {e} : GV!Newer(x, e)
    BY <2>1, <2>2, <2>6, RankOrder, NewerOrder DEF GV!Present
  <2>8. Before(e) = N \ {e}
    BY <2>1, <2>7, NewerOrder DEF Before, GV!Present
  <2>9. Rank(e) = m - 1
    BY <2>1, <2>5, <2>8, <1>3, FS_RemoveElement DEF Rank
  <2>10. Rank(e) \in T
    BY <2>1, <2>9, <1>5
  <2> QED BY <2>1, <2>9, <2>10, <1>2
<1> QED BY <1>3, <1>4, <1>5, RankType

-----------------------------------------------------------------------------
(* Governance: pulls and reviews.                                          *)

Pulling(w) == procs[w].pc # "idle"

\* Nothing is dated after Multica's time, and no pull began after the cursor.
Dated ==
  /\ \A i \in Issues : outside.at[i] <= outside.now
  /\ rows.cursor <= outside.now
  /\ \A w \in Workers : /\ procs[w].from <= procs[w].seen
                        /\ procs[w].seen <= outside.now
                        /\ procs[w].from <= rows.cursor

\* The pull that holds the lease began at the cursor.
FromCursor ==
  \A w \in Workers :
    /\ procs[w].pc = "import" => procs[w].issue \in Issues
    /\ Pulling(w) /\ GV!OwnsCursor(w) => procs[w].from = rows.cursor

\* What a pull has still to propose: what it holds, what is as new as
\* anything it saw, and what comes later in the list.
Ahead(w, i) ==
  \/ procs[w].pc = "import" /\ procs[w].issue = i
  \/ outside.at[i] >= procs[w].seen
  \/ Rank(i) >= procs[w].offset
ReadSoFar ==
  \A w \in Workers : Pulling(w) =>
    \A i \in GV!Present : rows.st[i] # "none" \/ Ahead(w, i)

GovernanceInv ==
  /\ GovernanceTyped /\ Dated /\ FromCursor
  /\ GV!NothingSkipped /\ (ghost.moved \/ ReadSoFar)
  /\ GV!CursorForward /\ GV!ReviewStands

LEMMA GovernanceInit ==
  ASSUME GovernanceConstants, GV!Init PROVE GovernanceInv
<1>1. GovernanceTyped
  <2>1. [i \in Issues |-> i] \in GV!Orders
    BY DEF GV!Orders
  <2> QED
    BY <2>1 DEF GV!Init, GV!Idle, GovernanceTyped, GovernanceRows, Pulls
<1> QED
  BY <1>1 DEF GovernanceInv, GV!Init, GV!Idle, Dated, FromCursor, Pulling,
       GV!OwnsCursor, GV!NothingSkipped, GV!Present, ReadSoFar,
       GV!CursorForward, GV!ReviewStands

\* The steps that leave Multica, the pulls and the cursor alone.
LEMMA TopicStep ==
  ASSUME GovernanceConstants, GovernanceInv,
         NEW i \in Issues, GV!Edit(i) \/ GV!Review(i)
  PROVE  GovernanceInv'
<1>1. /\ UNCHANGED <<procs, outside>>
      /\ rows.st[i] = "proposed"
      /\ \/ /\ rows' = [rows EXCEPT !.text[i] = 1] /\ ghost' = ghost
         \/ /\ \E v \in {"canonical", "rejected"} :
                 rows' = [rows EXCEPT !.st[i] = v]
            /\ ghost' = [ghost EXCEPT !.reviewed[i] = rows.text[i] + 1]
  BY DEF GV!Edit, GV!Review
<1>2. /\ rows' \in GovernanceRows
      /\ rows'.cursor = rows.cursor /\ rows'.owner = rows.owner
      /\ rows'.live = rows.live
  BY <1>1 DEF GovernanceInv, GovernanceTyped, GovernanceRows
<1>3. GovernanceTyped'
  BY <1>1, <1>2 DEF GovernanceInv, GovernanceTyped, GovernanceRows
<1>4. \A j \in Issues : rows'.st[j] = "none" => rows.st[j] = "none"
  BY <1>1 DEF GovernanceInv, GovernanceTyped, GovernanceRows
<1>5. ghost'.moved = ghost.moved /\ ghost'.back = ghost.back
  BY <1>1 DEF GovernanceInv, GovernanceTyped
<1>6. Dated' /\ FromCursor' /\ GV!CursorForward'
  BY <1>1, <1>2, <1>5 DEF GovernanceInv, Dated, FromCursor, Pulling,
                          GV!OwnsCursor, GV!CursorForward
<1>7. GV!NothingSkipped' /\ (ghost'.moved \/ ReadSoFar')
  BY <1>1, <1>2, <1>4, <1>5 DEF GovernanceInv, GV!NothingSkipped, ReadSoFar,
       GV!Present, Pulling, Ahead, Rank, Before, GV!Newer
<1>8. GV!ReviewStands'
  BY <1>1 DEF GovernanceInv, GovernanceTyped, GovernanceRows,
              GV!ReviewStands
<1> QED BY <1>3, <1>6, <1>7, <1>8 DEF GovernanceInv

LEMMA TaskStep ==
  ASSUME GovernanceConstants, GovernanceInv,
         GV!CreateTask \/ GV!ReviewTask \/ GV!DelegateTask \/ GV!LeaseEnds
  PROVE  GovernanceInv'
<1>1. /\ UNCHANGED <<procs, outside, ghost>>
      /\ rows' \in GovernanceRows /\ rows'.cursor = rows.cursor
      /\ rows'.st = rows.st /\ rows'.text = rows.text
      /\ rows'.owner = rows.owner /\ (rows'.live => rows.live)
  BY DEF GV!CreateTask, GV!ReviewTask, GV!DelegateTask, GV!LeaseEnds,
         GovernanceInv, GovernanceTyped, GovernanceRows
<1> QED
  BY <1>1 DEF GovernanceInv, GovernanceTyped, Dated, FromCursor, Pulling,
       GV!OwnsCursor, GV!CursorForward, GV!NothingSkipped, ReadSoFar,
       GV!Present, Ahead, Rank, Before, GV!Newer, GV!ReviewStands

\* An issue that comes or changes is the newest, and the others keep their
\* places or move back.
LEMMA TouchStep ==
  ASSUME GovernanceConstants, GovernanceInv, NEW k \in Issues, GV!Touch(k)
  PROVE  GovernanceInv'
<1>1. PICK t \in Nat : /\ t >= outside.now /\ t # 0
                       /\ outside' = [outside EXCEPT !.at[k] = t, !.now = t]
  <2>1. PICK t \in {outside.now, outside.now + 1} \cap (1 .. MaxTime) :
          outside' = [outside EXCEPT !.at[k] = t, !.now = t]
    BY DEF GV!Touch
  <2>2. outside.now \in Nat
    BY DEF GovernanceInv, GovernanceTyped
  <2>3. t \in Nat /\ t >= outside.now /\ t # 0
    BY <2>2 DEF GovernanceConstants
  <2> QED BY <2>1, <2>3
<1>2. /\ UNCHANGED <<rows, procs, ghost>>
      /\ outside'.at = [outside.at EXCEPT ![k] = t] /\ outside'.now = t
      /\ outside.at \in [Issues -> Nat] /\ outside.now \in Nat
      /\ rows.cursor \in Nat
      /\ \A w \in Workers : procs[w].seen \in Nat /\ procs[w].from \in Nat
                              /\ procs[w].offset \in Nat
  BY <1>1 DEF GV!Touch, GovernanceInv, GovernanceTyped, GovernanceRows, Pulls
<1>3. GovernanceTyped' /\ Dated' /\ FromCursor'
  <2>1. GovernanceTyped'
    BY <1>1, <1>2 DEF GovernanceInv, GovernanceTyped
  <2>2. Dated'
    BY <1>1, <1>2 DEF GovernanceInv, Dated
  <2>3. FromCursor'
    BY <1>2 DEF GovernanceInv, FromCursor, Pulling, GV!OwnsCursor
  <2> QED BY <2>1, <2>2, <2>3
<1>4. GV!NothingSkipped'
  BY <1>1, <1>2 DEF GovernanceInv, GV!NothingSkipped, GV!Present, Dated
<1>5. ASSUME NEW i \in Issues \ {k}, i \in GV!Present
      PROVE  Rank(i)' >= Rank(i)
  <2>1. Before(i) \subseteq Before(i)'
    BY <1>1, <1>2, <1>5 DEF Before, GV!Present, GV!Newer, GovernanceInv,
         Dated, GovernanceConstants
  <2>2. Before(i)' \subseteq Issues
    BY DEF Before, GV!Present
  <2> QED
    BY <2>1, <2>2, FS_Subset DEF Rank, GovernanceConstants
<1>6. ReadSoFar => ReadSoFar'
  <2> SUFFICES ASSUME ReadSoFar, NEW w \in Workers, Pulling(w),
                      NEW i \in GV!Present', rows.st[i] = "none"
               PROVE  Ahead(w, i)'
    BY <1>2 DEF ReadSoFar, Pulling
  <2>1. CASE i = k
    BY <2>1, <1>1, <1>2 DEF Ahead, GovernanceInv, Dated
  <2>2. CASE i # k
    <3>1. i \in Issues \ {k} /\ i \in GV!Present /\ outside'.at[i] = outside.at[i]
      BY <2>2, <1>2 DEF GV!Present
    <3>2. Rank(i) \in Nat /\ Rank(i)' \in Nat /\ Rank(i)' >= Rank(i)
      <4>1. Before(i)' \subseteq Issues
        BY DEF Before, GV!Present
      <4> QED
        BY <3>1, <1>5, <4>1, RankType, FS_Subset, FS_CardinalityType
        DEF Rank, GovernanceConstants
    <3> QED BY <3>1, <3>2, <1>2 DEF ReadSoFar, Ahead
  <2> QED BY <2>1, <2>2
<1> QED
  BY <1>2, <1>3, <1>4, <1>6 DEF GovernanceInv, GV!CursorForward,
                                GV!ReviewStands

LEMMA RemoveStep ==
  ASSUME GovernanceConstants, GovernanceInv, NEW k \in Issues, GV!Remove(k)
  PROVE  GovernanceInv'
<1>1. /\ UNCHANGED <<rows, procs>>
      /\ outside'.at = [outside.at EXCEPT ![k] = 0]
      /\ outside'.now = outside.now /\ outside.at \in [Issues -> Nat]
      /\ outside.now \in Nat
      /\ ghost' = [ghost EXCEPT !.moved = ghost.moved \/ GV!Pulls # {}]
  BY DEF GV!Remove, GovernanceInv, GovernanceTyped
<1>2. GovernanceTyped'
  BY <1>1 DEF GV!Remove, GovernanceInv, GovernanceTyped
<1>3. Dated' /\ FromCursor'
  BY <1>1 DEF GovernanceInv, Dated, FromCursor, Pulling, GV!OwnsCursor
<1>4. /\ ghost'.back = ghost.back /\ ghost'.reviewed = ghost.reviewed
      /\ ~ghost'.moved => ~ghost.moved /\ GV!Pulls = {}
  BY <1>1 DEF GovernanceInv, GovernanceTyped
<1>5. GV!NothingSkipped'
  BY <1>1, <1>4 DEF GovernanceInv, GV!NothingSkipped, GV!Present
<1>6. ghost'.moved \/ ReadSoFar'
  BY <1>1, <1>4 DEF ReadSoFar, Pulling, GV!Pulls
<1> QED
  BY <1>1, <1>2, <1>3, <1>4, <1>5, <1>6 DEF GovernanceInv, GV!CursorForward,
                                            GV!ReviewStands

\* Another order among the issues of one instant.
LEMMA ReorderStep ==
  ASSUME GovernanceConstants, GovernanceInv, GV!Reorder
  PROVE  GovernanceInv'
<1> DEFINE seen == \E i, j \in GV!Present : GV!Newer(i, j) /\ ~GV!Newer(i, j)'
<1>1. PICK o \in GV!Orders : outside' = [outside EXCEPT !.tie = o]
  BY DEF GV!Reorder
<1>2. /\ UNCHANGED <<rows, procs>>
      /\ ghost' = [ghost EXCEPT !.moved = ghost.moved \/ (GV!Pulls # {} /\ seen)]
  BY DEF GV!Reorder
<1>3. /\ outside'.at = outside.at /\ outside'.now = outside.now
      /\ outside' \in [at : [Issues -> Nat], tie : GV!Orders, now : Nat]
  BY <1>1 DEF GovernanceInv, GovernanceTyped
<1>4. /\ ghost'.back = ghost.back /\ ghost'.reviewed = ghost.reviewed
      /\ ghost' \in [moved : BOOLEAN, back : BOOLEAN, reviewed : [Issues -> Nat]]
      /\ ~ghost'.moved => ~ghost.moved /\ (GV!Pulls = {} \/ ~seen)
  <2> HIDE DEF seen
  <2> QED BY <1>2 DEF GovernanceInv, GovernanceTyped
<1>5. GovernanceTyped'
  BY <1>2, <1>3, <1>4 DEF GovernanceInv, GovernanceTyped
<1>6. Dated' /\ FromCursor'
  BY <1>2, <1>3 DEF GovernanceInv, Dated, FromCursor, Pulling, GV!OwnsCursor
<1>7. GV!Present' = GV!Present
  BY <1>3 DEF GV!Present
<1>8. GV!NothingSkipped'
  BY <1>2, <1>3, <1>4, <1>7 DEF GovernanceInv, GV!NothingSkipped
<1>9. CASE GV!Pulls = {}
  <2>1. ReadSoFar'
    BY <1>2, <1>9 DEF ReadSoFar, Pulling, GV!Pulls
  <2> QED
    BY <2>1, <1>2, <1>4, <1>5, <1>6, <1>8 DEF GovernanceInv, GV!CursorForward,
                                              GV!ReviewStands
<1>10. CASE ~seen
  <2>1. ASSUME NEW i \in GV!Present, NEW j \in GV!Present
        PROVE  GV!Newer(i, j)' <=> GV!Newer(i, j)
    <3>1. GV!Newer(i, j) => GV!Newer(i, j)'
      BY <1>10, <2>1
    <3>2. GV!Newer(j, i) => GV!Newer(j, i)'
      BY <1>10, <2>1
    <3>3. i = j \/ GV!Newer(i, j) \/ GV!Newer(j, i)
      BY <2>1, NewerOrder DEF GovernanceInv, GV!Present
    <3>4. ~(GV!Newer(i, j)' /\ GV!Newer(j, i)') /\ ~GV!Newer(i, i)'
      <4>1. i \in Issues /\ j \in Issues
        BY <2>1 DEF GV!Present
      <4>2. \A k \in Issues : outside'.at[k] \in Nat /\ outside'.tie[k] \in Nat
        BY <1>3 DEF GV!Orders, GovernanceConstants
      <4> QED BY <4>1, <4>2 DEF GV!Newer
    <3> QED BY <3>1, <3>2, <3>3, <3>4
  <2>2. \A i \in GV!Present : Rank(i)' = Rank(i)
    BY <1>7, <2>1 DEF Rank, Before
  <2>3. ReadSoFar => ReadSoFar'
    BY <1>2, <1>3, <1>7, <2>2 DEF ReadSoFar, Pulling, Ahead
  <2> QED
    BY <2>3, <1>2, <1>4, <1>5, <1>6, <1>8 DEF GovernanceInv, GV!CursorForward,
                                              GV!ReviewStands
<1>11. CASE ghost'.moved
  BY <1>11, <1>2, <1>4, <1>5, <1>6, <1>8 DEF GovernanceInv, GV!CursorForward,
                                             GV!ReviewStands
<1> QED BY <1>4, <1>9, <1>10, <1>11

LEMMA ClaimStep ==
  ASSUME GovernanceConstants, GovernanceInv, NEW w \in Workers, GV!Claim(w)
  PROVE  GovernanceInv'
<1> DEFINE P == [GV!Idle EXCEPT !.pc = "page", !.from = rows.cursor,
                               !.seen = rows.cursor]
<1>1. /\ UNCHANGED <<outside, ghost>>
      /\ procs' = [procs EXCEPT ![w] = P]
      /\ ~rows.live /\ rows' = [rows EXCEPT !.owner = w, !.live = TRUE]
  BY DEF GV!Claim
<1>2. /\ P.pc = "page" /\ P.from = rows.cursor /\ P.seen = rows.cursor
      /\ P.offset = 0 /\ (rows.cursor \in Nat => P \in Pulls)
  BY DEF GV!Idle, Pulls
<1> HIDE DEF P
<1>3. GovernanceTyped'
  <2>1. rows.cursor \in Nat /\ rows' \in GovernanceRows
    BY <1>1 DEF GovernanceInv, GovernanceTyped, GovernanceRows
  <2> QED BY <1>1, <1>2, <2>1 DEF GovernanceInv, GovernanceTyped
<1>4. /\ rows'.cursor = rows.cursor /\ rows'.st = rows.st
      /\ rows'.text = rows.text /\ rows'.owner = w /\ rows.cursor \in Nat
      /\ procs'[w] = P /\ \A v \in Workers \ {w} : procs'[v] = procs[v]
  BY <1>1 DEF GovernanceInv, GovernanceTyped, GovernanceRows
<1>5. Dated' /\ FromCursor'
  BY <1>1, <1>2, <1>4 DEF GovernanceInv, Dated, FromCursor, Pulling, GV!OwnsCursor
<1>6. ReadSoFar => ReadSoFar'
  <2>1. \A i : Rank(i)' = Rank(i) /\ Rank(i) \in Nat
    BY <1>1, RankType DEF Rank, Before, GV!Present, GV!Newer
  <2> QED
    BY <1>1, <1>2, <1>4, <2>1 DEF ReadSoFar, Pulling, Ahead, GV!Present
<1> QED
  BY <1>1, <1>4, <1>5, <1>6, <1>3 DEF GovernanceInv, GV!NothingSkipped,
       GV!Present, GV!CursorForward, GV!ReviewStands

\* The next page has one issue, which is held; what was as new as the pull
\* had seen and is not read yet comes before it in the list.
LEMMA PageStep ==
  ASSUME GovernanceConstants, GovernanceInv, NEW w \in Workers, GV!Page(w)
  PROVE  GovernanceInv'
<1>1. PICK i \in GV!Listed(procs[w].offset) :
        /\ outside.at[i] >= procs[w].from
        /\ procs' = [procs EXCEPT ![w].pc = "import", ![w].issue = i,
                       ![w].offset = @ + 1, ![w].seen =
                         IF outside.at[i] > @ THEN outside.at[i] ELSE @]
  BY DEF GV!Page
<1>2. i \in GV!Present /\ i \in Issues /\ Rank(i) = procs[w].offset
  BY SameCardinality DEF GV!Listed, GV!Present, Rank, Before
<1>3. /\ outside.at[i] \in Nat /\ procs[w].seen \in Nat
      /\ procs[w].offset \in Nat /\ procs[w].pc = "page"
      /\ UNCHANGED <<rows, outside, ghost>>
  BY <1>2 DEF GV!Page, GovernanceInv, GovernanceTyped, Pulls
<1>4. /\ procs'[w].pc = "import" /\ procs'[w].issue = i
      /\ procs'[w].offset = procs[w].offset + 1
      /\ procs'[w].from = procs[w].from
      /\ procs'[w].seen = IF outside.at[i] > procs[w].seen
                            THEN outside.at[i] ELSE procs[w].seen
      /\ \A v \in Workers \ {w} : procs'[v] = procs[v]
  BY <1>1 DEF GovernanceInv, GovernanceTyped, Pulls
<1>5. GovernanceTyped'
  BY <1>1, <1>2, <1>3 DEF GovernanceInv, GovernanceTyped, Pulls
<1>6. Dated' /\ FromCursor'
  BY <1>2, <1>3, <1>4 DEF GovernanceInv, GovernanceTyped, GovernanceRows,
       Pulls, Dated, FromCursor, Pulling, GV!OwnsCursor
<1>7. ReadSoFar => ReadSoFar'
  <2> SUFFICES ASSUME ReadSoFar, NEW v \in Workers, Pulling(v)',
                      NEW j \in GV!Present, rows.st[j] = "none"
               PROVE  Ahead(v, j)'
    BY <1>3 DEF ReadSoFar, GV!Present
  <2>1. Rank(j)' = Rank(j) /\ Rank(j) \in Nat /\ outside.at[j] \in Nat
    BY <1>3, RankType DEF Rank, Before, GV!Present, GV!Newer, GovernanceInv,
                          GovernanceTyped
  <2>2. CASE v # w
    BY <2>1, <2>2, <1>3, <1>4 DEF ReadSoFar, Pulling, Ahead
  <2>3. CASE v = w /\ j # i
    <3>1. outside.at[j] >= procs[w].seen \/ Rank(j) >= procs[w].offset
      BY <1>3, <2>3 DEF ReadSoFar, Pulling, Ahead
    <3>2. Rank(j) # Rank(i)
      BY <1>2, <2>3, RankUnique DEF GovernanceInv
    <3>3. CASE Rank(j) > Rank(i)
      BY <1>2, <1>3, <1>4, <2>1, <2>3, <3>3 DEF Ahead
    <3>4. CASE Rank(j) < Rank(i)
      <4>1. GV!Newer(j, i)
        BY <1>2, <3>4, RankUnique DEF GovernanceInv
      <4>2. outside.at[j] >= outside.at[i]
        BY <4>1, <2>1, <1>3 DEF GV!Newer
      <4> QED
        BY <1>2, <1>3, <1>4, <2>1, <2>3, <3>1, <3>4, <4>2 DEF Ahead
    <3> QED BY <1>2, <1>3, <2>1, <3>2, <3>3, <3>4
  <2>4. CASE v = w /\ j = i
    BY <1>4, <2>4 DEF Ahead
  <2> QED BY <2>2, <2>3, <2>4
<1> QED
  BY <1>3, <1>5, <1>6, <1>7 DEF GovernanceInv, GV!NothingSkipped,
       GV!Present, GV!CursorForward, GV!ReviewStands

LEMMA ImportStep ==
  ASSUME GovernanceConstants, GovernanceInv, NEW w \in Workers, GV!Import(w)
  PROVE  GovernanceInv'
<1>1. PICK i \in Issues : i = procs[w].issue
  BY DEF GV!Import, GovernanceInv, FromCursor
<1>2. /\ procs[w].pc = "import" /\ UNCHANGED <<outside, ghost>>
      /\ rows' = [rows EXCEPT !.st[i] = IF @ = "none" THEN "proposed" ELSE @]
      /\ procs' = [procs EXCEPT ![w].pc = "page", ![w].issue = 0]
  BY <1>1 DEF GV!Import
<1>3. GovernanceTyped'
  <2>1. rows' \in GovernanceRows
    BY <1>2 DEF GovernanceInv, GovernanceTyped, GovernanceRows
  <2>2. procs' \in [Workers -> Pulls]
    BY <1>2 DEF GovernanceInv, GovernanceTyped, Pulls
  <2> QED BY <2>1, <2>2, <1>2 DEF GovernanceInv, GovernanceTyped
<1>4. /\ rows'.cursor = rows.cursor /\ rows'.text = rows.text
      /\ rows'.owner = rows.owner /\ rows'.live = rows.live
      /\ rows'.st[i] # "none"
      /\ \A j \in Issues : rows.st[j] # "none" => rows'.st[j] = rows.st[j]
  BY <1>2 DEF GovernanceInv, GovernanceTyped, GovernanceRows
<1>5. /\ procs'[w].pc = "page" /\ procs'[w].from = procs[w].from
      /\ procs'[w].seen = procs[w].seen /\ procs'[w].offset = procs[w].offset
      /\ \A v \in Workers \ {w} : procs'[v] = procs[v]
  BY <1>2 DEF GovernanceInv, GovernanceTyped, Pulls
<1>6. Dated' /\ FromCursor'
  <2>1. Dated'
    BY <1>2, <1>4, <1>5 DEF GovernanceInv, Dated
  <2>2. FromCursor'
    <3>1. \A v \in Workers :
            /\ procs'[v].pc = "import" => procs'[v] = procs[v]
            /\ Pulling(v)' => Pulling(v) /\ procs'[v].from = procs[v].from
            /\ GV!OwnsCursor(v)' => GV!OwnsCursor(v)
      BY <1>2, <1>4, <1>5 DEF Pulling, GV!OwnsCursor
    <3> QED BY <1>4, <3>1 DEF GovernanceInv, FromCursor
  <2> QED BY <2>1, <2>2
<1>7. ReadSoFar => ReadSoFar'
  <2>1. \A j : Rank(j)' = Rank(j)
    BY <1>2 DEF Rank, Before, GV!Present, GV!Newer
  <2>2. \A j \in GV!Present', v \in Workers :
          rows'.st[j] = "none" =>
            rows.st[j] = "none" /\ j \in GV!Present /\ j # i
    BY <1>2, <1>4 DEF GV!Present
  <2> QED
    BY <1>1, <1>2, <1>5, <2>1, <2>2 DEF ReadSoFar, Pulling, Ahead
<1>8. GV!NothingSkipped' /\ GV!ReviewStands'
  BY <1>2, <1>4 DEF GovernanceInv, GV!NothingSkipped, GV!Present,
                    GV!ReviewStands
<1> QED
  BY <1>2, <1>3, <1>6, <1>7, <1>8 DEF GovernanceInv, GV!CursorForward

\* A pull that is over, whatever it leaves of the lease.
LEMMA PullOver ==
  ASSUME GovernanceConstants, GovernanceInv, NEW w \in Workers,
         GV!Over(w), UNCHANGED <<outside, ghost>>,
         \/ rows' = rows
         \/ rows' = [rows EXCEPT !.owner = NoOne, !.live = FALSE]
  PROVE  GovernanceInv'
<1>1. GovernanceTyped'
  <2>1. rows' \in GovernanceRows
    BY DEF GovernanceInv, GovernanceTyped, GovernanceRows
  <2>2. procs' \in [Workers -> Pulls]
    BY DEF GovernanceInv, GovernanceTyped, Pulls, GV!Over, GV!Idle
  <2> QED BY <2>1, <2>2 DEF GovernanceInv, GovernanceTyped
<1>2. /\ rows'.cursor = rows.cursor /\ rows'.text = rows.text
      /\ rows'.st = rows.st /\ rows.cursor \in Nat /\ outside.now \in Nat
      /\ rows'.live => rows' = rows
  BY DEF GovernanceInv, GovernanceTyped, GovernanceRows
<1>3. /\ procs'[w] = GV!Idle
      /\ \A v \in Workers \ {w} : procs'[v] = procs[v]
  BY DEF GovernanceInv, GovernanceTyped, GV!Over
<1>4. Dated' /\ FromCursor'
  BY <1>2, <1>3 DEF GovernanceInv, Dated, FromCursor, Pulling,
                    GV!OwnsCursor, GV!Idle
<1>5. ReadSoFar => ReadSoFar'
  <2>1. \A j : Rank(j)' = Rank(j)
    BY DEF Rank, Before, GV!Present, GV!Newer
  <2> QED
    BY <1>2, <1>3, <2>1 DEF ReadSoFar, Pulling, Ahead, GV!Present, GV!Idle
<1> QED
  BY <1>1, <1>2, <1>4, <1>5 DEF GovernanceInv, GV!NothingSkipped,
       GV!Present, GV!CursorForward, GV!ReviewStands

\* When all was read, what the pull has not proposed is as new as anything
\* it saw.
LEMMA AllRead ==
  ASSUME GovernanceConstants, GovernanceInv, ~ghost.moved, NEW w \in Workers,
         procs[w].pc = "page", GV!Consumed(w),
         NEW j \in GV!Present, rows.st[j] = "none"
  PROVE  outside.at[j] >= procs[w].seen
<1>1. /\ outside.at[j] \in Nat /\ procs[w].offset \in Nat
      /\ procs[w].from \in Nat /\ rows.cursor \in Nat
  BY DEF GovernanceInv, GovernanceTyped, GovernanceRows, Pulls, GV!Present
<1>2. Rank(j) \in Nat
  BY RankType
<1>3. \A i : i \in GV!Listed(procs[w].offset) <=>
               i \in GV!Present /\ Rank(i) = procs[w].offset
  BY SameCardinality DEF GV!Listed, Rank, Before
<1>4. outside.at[j] >= rows.cursor
  BY <1>1 DEF GovernanceInv, GV!NothingSkipped
<1>5. CASE Rank(j) < procs[w].offset
  BY <1>1, <1>2, <1>5 DEF GovernanceInv, ReadSoFar, Pulling, Ahead
<1>6. CASE Rank(j) >= procs[w].offset
  <2>1. PICK i \in GV!Present : Rank(i) = procs[w].offset
    BY <1>1, <1>2, <1>6, RankFull DEF GovernanceInv
  <2>2. PICK x \in GV!Listed(procs[w].offset) :
          outside.at[x] < procs[w].from
    BY <1>3, <2>1 DEF GV!Consumed
  <2>3. x \in GV!Present /\ Rank(x) = procs[w].offset
    BY <1>3, <2>2
  <2>4. x = j \/ GV!Newer(x, j)
    BY <1>1, <1>2, <1>6, <2>3, RankUnique DEF GovernanceInv
  <2>5. outside.at[j] <= outside.at[x] /\ outside.at[x] \in Nat
    BY <1>1, <2>3, <2>4 DEF GV!Newer, GovernanceInv, GovernanceTyped,
                            GV!Present
  <2>6. procs[w].from <= rows.cursor
    BY DEF GovernanceInv, Dated
  <2> QED BY <1>1, <1>4, <2>2, <2>5, <2>6
<1> QED BY <1>1, <1>2, <1>5, <1>6

LEMMA FinishStep ==
  ASSUME GovernanceConstants, GovernanceInv, NEW w \in Workers, GV!Finish(w)
  PROVE  GovernanceInv'
<1> DEFINE to == IF GV!Consumed(w) THEN procs[w].seen ELSE procs[w].from
<1>1. /\ procs[w].pc = "page" /\ GV!Over(w) /\ UNCHANGED outside
      /\ procs[w].seen \in Nat /\ procs[w].from \in Nat /\ rows.cursor \in Nat
      /\ outside.now \in Nat
  BY DEF GV!Finish, GovernanceInv, GovernanceTyped, GovernanceRows, Pulls
<1>2. CASE ~GV!OwnsCursor(w)
  BY <1>1, <1>2, PullOver DEF GV!Finish
<1>3. CASE GV!OwnsCursor(w)
  <2>1. /\ rows' = [[rows EXCEPT !.owner = NoOne, !.live = FALSE]
                      EXCEPT !.cursor = to]
        /\ ghost' = [ghost EXCEPT !.back = @ \/ to < rows.cursor]
    BY <1>3 DEF GV!Finish, GV!Freed
  <2>2. procs[w].from = rows.cursor /\ procs[w].from <= procs[w].seen
    BY <1>1, <1>3 DEF GovernanceInv, FromCursor, Pulling, Dated
  <2>3. to \in Nat /\ to >= rows.cursor /\ to <= outside.now
    BY <1>1, <2>2 DEF GovernanceInv, Dated
  <2> HIDE DEF to
  <2>4. ghost' = ghost
    <3>1. ~(to < rows.cursor)
      BY <2>3, <1>1
    <3> QED BY <2>1, <3>1 DEF GovernanceInv, GovernanceTyped
  <2>5. /\ rows'.cursor = to /\ rows'.text = rows.text
        /\ rows'.st = rows.st /\ ~rows'.live /\ rows' \in GovernanceRows
    BY <2>1, <2>3 DEF GovernanceInv, GovernanceTyped, GovernanceRows
  <2>6. /\ procs'[w] = GV!Idle /\ procs' \in [Workers -> Pulls]
        /\ \A v \in Workers \ {w} : procs'[v] = procs[v]
    BY <1>1 DEF GovernanceInv, GovernanceTyped, GV!Over, Pulls, GV!Idle
  <2>7. GovernanceTyped'
    BY <1>1, <2>4, <2>5, <2>6 DEF GovernanceInv, GovernanceTyped
  <2>8. Dated'
    <3>1. \A v \in Workers : procs[v].from \in Nat
      BY DEF GovernanceInv, GovernanceTyped, Pulls
    <3> QED
      BY <1>1, <2>3, <2>5, <2>6, <3>1 DEF GovernanceInv, Dated, GV!Idle
  <2>9. FromCursor'
    BY <2>5, <2>6 DEF GovernanceInv, FromCursor, GV!OwnsCursor, Pulling,
                      GV!Idle
  <2>10. ReadSoFar => ReadSoFar'
    <3>1. \A j : Rank(j)' = Rank(j)
      BY <1>1 DEF Rank, Before, GV!Present, GV!Newer
    <3> QED
      BY <1>1, <2>5, <2>6, <3>1 DEF ReadSoFar, Pulling, Ahead, GV!Present,
                                    GV!Idle
  <2>11. GV!NothingSkipped'
    <3> SUFFICES ASSUME ~ghost.moved, NEW j \in GV!Present,
                        outside.at[j] < to, rows.st[j] = "none"
                 PROVE  FALSE
      BY <1>1, <2>4, <2>5 DEF GV!NothingSkipped, GV!Present
    <3>1. outside.at[j] \in Nat
      BY DEF GovernanceInv, GovernanceTyped, GV!Present
    <3>2. CASE GV!Consumed(w)
      <4>1. outside.at[j] >= procs[w].seen
        BY <1>1, <3>2, AllRead
      <4> QED BY <1>1, <3>1, <3>2, <4>1 DEF to
    <3>3. CASE ~GV!Consumed(w)
      BY <1>1, <2>2, <3>1, <3>3 DEF to, GovernanceInv, GV!NothingSkipped
    <3> QED BY <3>2, <3>3
  <2> QED
    BY <2>4, <2>5, <2>7, <2>8, <2>9, <2>10, <2>11
    DEF GovernanceInv, GV!CursorForward, GV!ReviewStands
<1> QED BY <1>2, <1>3

LEMMA GovernanceKept ==
  ASSUME GovernanceConstants, GovernanceInv, [GV!Next]_(GV!vars)
  PROVE  GovernanceInv'
<1>1. CASE UNCHANGED GV!vars
  BY <1>1 DEF GV!vars, GovernanceInv, GovernanceTyped, Dated, FromCursor,
       Pulling, GV!OwnsCursor, GV!NothingSkipped, GV!Present, ReadSoFar,
       Ahead, Rank, Before, GV!Newer, GV!CursorForward, GV!ReviewStands
<1>2. CASE GV!Next
  <2>1. ASSUME NEW w \in Workers, GV!PullFails(w) \/ GV!Crash(w)
        PROVE  GovernanceInv'
    BY <2>1, PullOver DEF GV!PullFails, GV!Crash, GV!Freed
  <2> QED
    BY <1>2, <2>1, TaskStep, TopicStep, TouchStep, RemoveStep, ReorderStep,
       ClaimStep, PageStep, ImportStep, FinishStep DEF GV!Next
<1> QED BY <1>1, <1>2

\* Every issue before the cursor has been proposed, the cursor is not moved
\* back by a pull that lost its lease, and a review stands: for any number
\* of issues, pages and pulls (services/channel_sync_service.py and
\* services/governance_service.py).
THEOREM GovernanceIsSafe ==
  GovernanceConstants =>
    (GV!Spec => [](GV!NothingSkipped /\ GV!CursorForward /\ GV!ReviewStands))
<1> SUFFICES ASSUME GovernanceConstants
             PROVE  GV!Spec => [](GV!NothingSkipped /\ GV!CursorForward
                                    /\ GV!ReviewStands)
  OBVIOUS
<1>1. GV!Init => GovernanceInv
  BY GovernanceInit
<1>2. GovernanceInv /\ [GV!Next]_(GV!vars) => GovernanceInv'
  BY GovernanceKept
<1>3. GovernanceInv =>
        GV!NothingSkipped /\ GV!CursorForward /\ GV!ReviewStands
  BY DEF GovernanceInv
<1> QED BY <1>1, <1>2, <1>3, PTL DEF GV!Spec

\* All three, for the modules that instantiate this one.
LEMMA OutboundKept ==
  /\ ScheduleConstants =>
       /\ SA!Init => ScheduleInv
       /\ ScheduleInv /\ [SA!Next]_(SA!vars) => ScheduleInv'
       /\ ScheduleInv => SA!NoOverlap /\ SA!RecordIsTrue
  /\ DelegationConstants =>
       /\ DE!Init => DelegationInv
       /\ DelegationInv /\ [DE!Next]_(DE!vars) => DelegationInv'
       /\ DelegationInv => DE!OneItem /\ DE!HandleIsItem /\ DE!ReclaimedStays
  /\ GovernanceConstants =>
       /\ GV!Init => GovernanceInv
       /\ GovernanceInv /\ [GV!Next]_(GV!vars) => GovernanceInv'
       /\ GovernanceInv => GV!NothingSkipped /\ GV!CursorForward
                             /\ GV!ReviewStands
<1>1. GovernanceInv => GV!NothingSkipped /\ GV!CursorForward
                         /\ GV!ReviewStands
  BY DEF GovernanceInv
<1> QED
  BY <1>1, ScheduleInit, ScheduleKept, ScheduleSafe, DelegationInit,
     DelegationKept, DelegationSafe, GovernanceInit, GovernanceKept
=============================================================================
