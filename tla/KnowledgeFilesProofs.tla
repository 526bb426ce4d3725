------------------------ MODULE KnowledgeFilesProofs ------------------------
(***************************************************************************)
(* Files of a knowledge base: proofs, for every set of files, tasks and    *)
(* executions and every number of chunks, of what KnowledgeFiles states.   *)
(***************************************************************************)
EXTENDS KnowledgeFiles, FiniteSetTheorems, TLAPS

PendingKinds == {"parse_pending", "index_pending"}

\* What the proofs need of the constants: file ids are ordered as numbers,
\* the five types of tasks are all there are, and no file is being processed
\* before the first task.
FileConstants ==
  /\ NoTask \notin Tasks
  /\ Files \subseteq Nat /\ MaxChunks \in Nat
  /\ Kinds \subseteq {"ingest", "parse", "index"} \cup PendingKinds
  /\ Before \cap InProgress = {}

\* The parts of the state, each by itself.
File == rows.file
KindOf == rows.kind
Execs == procs.ex
Fix == procs.fix
Tries == ghost.tries
Last == ghost.last
Alien == ghost.alien

Looping == {"add", "parse", "index", "list", "cancelled"}
TaskOrNone == Tasks \cup {NoTask}
Chunks == [1 .. MaxChunks -> TaskOrNone]

LeaseSet ==
  [st : EndStatuses \cup {"absent", "pending", "running"},
   by : Workers \cup {NoWorker}, on : BOOLEAN]
FileStates ==
  Before \cup InProgress \cup
    {"absent", "gone", "uploaded", "parsed", "indexed", "error_parsing",
     "error_indexing"}
FileSet ==
  [st : FileStates, pt : TaskOrNone, po : Workers \cup {NoWorker}, md : BOOLEAN,
   n : Nat, pg : Chunks]
ExecSet ==
  [pc : {"idle"} \cup Looping \cup Working, at : TaskOrNone,
   todo : SUBSET Files, carry : SUBSET Files, cursor : Nat,
   cur : Files \cup {0}, upto : 0 .. MaxChunks, next : Nat]

RowsRecord == rows = [file |-> File, kind |-> KindOf]
ProcsRecord == /\ procs = [ex |-> Execs, del |-> procs.del, fix |-> Fix]
               /\ Fix \in [Files -> SUBSET Nat]
GhostRecord == ghost = [tries |-> Tries, last |-> Last, alien |-> Alien]
Records == RowsRecord /\ ProcsRecord /\ GhostRecord

Typed ==
  /\ lease \in [Tasks -> LeaseSet]
  /\ File \in [Files -> FileSet]
  /\ KindOf \in [Tasks -> Kinds \cup {"none"}]
  /\ Execs \in [Workers -> ExecSet]
  /\ outside \in [Files -> Chunks]
  /\ Tries \in [Tasks -> [Files -> Nat]]
  /\ Last \in [Files -> TaskOrNone]
  /\ Alien \in [Files -> BOOLEAN]

\* Where an execution is fits the rest of its state.
ExecsOK ==
  \A w \in Workers :
    /\ Ex(w).pc # "idle" => Ex(w).at \in Tasks
    /\ Ex(w).pc \in Working => Ex(w).cur \in Files
    /\ Ex(w).pc \in {"store_pg", "store_vec"} => Ex(w).next \in 1 .. Ex(w).upto

\* A task has at most one execution, and only once it has been taken.
OneExecution ==
  /\ \A w \in Workers : Ex(w).pc # "idle" =>
       lease[Ex(w).at].st \notin {"absent", "pending"}
  /\ \A w, v \in Workers :
       Ex(w).pc # "idle" /\ Ex(v).pc # "idle" /\ Ex(w).at = Ex(v).at => w = v
  /\ \A t \in Tasks : lease[t].st # "absent" => KindOf[t] \in Kinds

\* The execution that has a file in progress is at work on it.
AtWork ==
  \A f \in Files, w \in Workers :
    /\ St(f) \in InProgress
    /\ File[f].po = w /\ File[f].pt = Ex(w).at /\ Ex(w).pc # "idle"
    => Ex(w).pc \in Working /\ Ex(w).cur = f

\* The first n chunks of a file, written by task t.
FirstChunks(t, n) == [i \in 1 .. MaxChunks |-> IF i <= n THEN t ELSE NoTask]

\* How far the stores of a file are written while its execution indexes it
\* and nobody else wrote.
Progress ==
  \A f \in Files, w \in Workers :
    /\ St(f) = "indexing" /\ ~Alien[f]
    /\ File[f].po = w /\ File[f].pt = Ex(w).at /\ Ex(w).cur = f
    => LET t == Ex(w).at
           n == Ex(w).next
       IN /\ Ex(w).pc \in {"wipe_pg", "wipe_count"} =>
               outside[f] = FirstChunks(t, 0)
          /\ Ex(w).pc = "wipe_count" => File[f].pg = FirstChunks(t, 0)
          /\ Ex(w).pc = "store_pg" => /\ File[f].pg = FirstChunks(t, n - 1)
                                      /\ outside[f] = FirstChunks(t, n - 1)
          /\ Ex(w).pc = "store_vec" => /\ File[f].pg = FirstChunks(t, n)
                                       /\ outside[f] = FirstChunks(t, n - 1)
          /\ Ex(w).pc = "publish" =>
               /\ File[f].pg = FirstChunks(t, Ex(w).upto)
               /\ outside[f] = FirstChunks(t, Ex(w).upto)

\* How often a task may have taken a file up, by the stage it is in.
Limit(w) ==
  IF Kind(w) = "ingest"
    THEN IF Ex(w).pc = "add" THEN 0
         ELSE IF Ex(w).pc \in {"parse", "convert"} THEN 1 ELSE 2
    ELSE 1

\* An execution may still take up what it has left to do.
Budget ==
  \A w \in Workers : Ex(w).pc # "idle" =>
    /\ Ex(w).pc = "list" => Kind(w) \in PendingKinds
    /\ \A f \in Files :
         /\ Tries[Ex(w).at][f] <= Limit(w)
         /\ f \in Ex(w).todo /\ Ex(w).pc # "add" =>
              Tries[Ex(w).at][f] < Limit(w)
         /\ Kind(w) \in PendingKinds =>
              /\ Tries[Ex(w).at][f] > 0 => f <= Ex(w).cursor
              /\ f \in Ex(w).todo => f > Ex(w).cursor

\* A task that nobody has taken has taken up nothing.
Untried ==
  \A t \in Tasks : lease[t].st \in {"absent", "pending"} =>
    \A f \in Files : Tries[t][f] = 0

FileInv ==
  /\ Records /\ Typed /\ ExecsOK /\ OneExecution /\ InProgressIsOwned /\ AtWork
  /\ Progress /\ IndexedIsComplete /\ Budget /\ Untried /\ TakenUpOnce

-----------------------------------------------------------------------------
(* The ways in which a step changes these parts.                           *)

ExecBecomes(w, e) == Execs' = [Execs EXCEPT ![w] = e]
FileBecomes(f, r) == File' = [File EXCEPT ![f] = r]
Unmarked == UNCHANGED <<Tries, Last, Alien>>

Submits(t, k) ==
  /\ lease[t].st = "absent"
  /\ lease' = [lease EXCEPT ![t] = TaskIn("pending")]
  /\ KindOf' = [KindOf EXCEPT ![t] = k]
  /\ UNCHANGED <<File, Execs, outside>> /\ Unmarked

Begins(t, w, e) ==
  /\ Ex(w).pc = "idle" /\ lease[t].st = "pending"
  /\ lease' = [lease EXCEPT ![t] = [st |-> "running", by |-> w, on |-> TRUE]]
  /\ e \in ExecSet /\ e.at = t /\ e.cursor = 0
  /\ CASE KindOf[t] = "ingest" -> e.pc = "add"
       [] KindOf[t] \in {"parse", "index"} -> e.pc \in {"parse", "index"}
       [] OTHER -> e.pc = "list" /\ e.todo = {}
  /\ ExecBecomes(w, e)
  /\ UNCHANGED <<File, KindOf, outside>> /\ Unmarked

HookFiles(t) ==
  [f \in Files |-> IF SettledBy(t, f) THEN Settled(f, ErrorOf(St(f)))
                   ELSE File[f]]

Quits(w) ==
  /\ ExecBecomes(w, Idle)
  /\ UNCHANGED <<lease, File, KindOf, outside>> /\ Unmarked

Succeeds(w) ==
  /\ Ex(w).pc \in Looping /\ HoldsLease(Ex(w).at, w)
  /\ lease' = [lease EXCEPT ![Ex(w).at] = TaskIn("success")]
  /\ ExecBecomes(w, Idle)
  /\ UNCHANGED <<File, KindOf, outside>> /\ Unmarked

Fails(w, s) ==
  /\ Ex(w).pc # "idle" /\ HoldsLease(Ex(w).at, w)
  /\ lease' = [lease EXCEPT ![Ex(w).at] = TaskIn(s)]
  /\ File' = HookFiles(Ex(w).at)
  /\ ExecBecomes(w, Idle)
  /\ UNCHANGED <<KindOf, outside>> /\ Unmarked

GivesUp(t, s) ==
  /\ lease[t].st = "pending" \/ (Unheld(t) /\ s = "failed")
  /\ lease' = [lease EXCEPT ![t] = TaskIn(s)]
  /\ File' = HookFiles(t)
  /\ UNCHANGED <<Execs, KindOf, outside>> /\ Unmarked

RunsOut(t) ==
  /\ lease' = [lease EXCEPT ![t] = [@ EXCEPT !.on = FALSE]]
  /\ UNCHANGED <<File, Execs, KindOf, outside>> /\ Unmarked

\* The item is not added, or added.
Drops(w, f) ==
  /\ Ex(w).pc = "add"
  /\ ExecBecomes(w, [Ex(w) EXCEPT !.todo = @ \ {f}])
  /\ UNCHANGED <<lease, File, KindOf, outside>> /\ Unmarked

Adds(w, f) ==
  /\ Ex(w).pc = "add" /\ St(f) = "absent"
  /\ FileBecomes(f, NewFile("uploaded"))
  /\ ExecBecomes(w, [Ex(w) EXCEPT !.todo = @ \ {f}, !.carry = @ \cup {f}])
  /\ UNCHANGED <<lease, KindOf, outside>> /\ Unmarked

\* On to the next batch or the next stage.
Advances(w, p, T) ==
  /\ Ex(w).pc \in Looping /\ T \subseteq Files
  /\ \/ /\ Kind(w) \in PendingKinds
        /\ \/ p = "list" /\ T = {}
           \/ p \in {"parse", "index"} /\ \A f \in T : f > Ex(w).cursor
     \/ /\ Kind(w) = "ingest"
        /\ \/ Ex(w).pc = "add" /\ p = "parse"
           \/ Ex(w).pc = "parse" /\ p = "index"
  /\ ExecBecomes(w, [Ex(w) EXCEPT !.pc = p, !.todo = T, !.carry = {}])
  /\ UNCHANGED <<lease, File, KindOf, outside>> /\ Unmarked

Passes(w, f) ==
  /\ Ex(w).pc \in {"parse", "index"} /\ f \in Foremost(w)
  /\ ExecBecomes(w, [Ex(w) EXCEPT !.todo = @ \ {f}, !.cursor = f])
  /\ UNCHANGED <<lease, File, KindOf, outside>> /\ Unmarked

Claims(w, f) ==
  /\ Ex(w).pc \in {"parse", "index"} /\ f \in Foremost(w)
  /\ St(f) \notin InProgress /\ HoldsLease(Ex(w).at, w)
  /\ FileBecomes(f, [File[f] EXCEPT
       !.st = IF Ex(w).pc = "parse" THEN "parsing" ELSE "indexing",
       !.pt = Ex(w).at, !.po = w])
  /\ ExecBecomes(w, [Ex(w) EXCEPT !.todo = @ \ {f}, !.cursor = f, !.cur = f,
       !.pc = IF @ = "parse" THEN "convert" ELSE "split"])
  /\ Alien' = [Alien EXCEPT ![f] = FALSE]
  /\ Tries' = [Tries EXCEPT ![Ex(w).at] = [@ EXCEPT ![f] = Tries[Ex(w).at][f] + 1]]
  /\ UNCHANGED <<lease, KindOf, outside, Last>>

\* The file is given back without being indexed.
GivesBack(w, r, e) ==
  /\ Owns(w)
  /\ r \in FileSet /\ r.st \notin InProgress \cup {"indexed"} /\ r.pt = NoTask
  /\ FileBecomes(Ex(w).cur, r)
  /\ e \in ExecSet /\ e.at = Ex(w).at /\ e.cursor = Ex(w).cursor
  /\ \/ e.todo = Ex(w).todo
        /\ e.pc = IF Ex(w).pc = "convert" THEN "parse" ELSE "index"
     \/ e.todo = {} /\ e.pc = "cancelled"
  /\ ExecBecomes(w, e)
  /\ UNCHANGED <<lease, KindOf, outside>> /\ Unmarked

Splits(w, n) ==
  /\ Ex(w).pc = "split"
  /\ ExecBecomes(w, [Ex(w) EXCEPT !.pc = "wipe_vec", !.upto = n, !.next = 1])
  /\ UNCHANGED <<lease, File, KindOf, outside>> /\ Unmarked

\* An unfenced write: of pg and n of the row, and of the vectors.
Writes(w, r, o, p, n) ==
  /\ FileBecomes(Ex(w).cur, r)
  /\ outside' = [outside EXCEPT ![Ex(w).cur] = o]
  /\ ExecBecomes(w, [Ex(w) EXCEPT !.pc = p, !.next = n])
  /\ Alien' = [Alien EXCEPT ![Ex(w).cur] = @ \/ ~Owns(w)]
  /\ UNCHANGED <<lease, KindOf, Tries, Last>>

Stores(w) ==
  LET f == Ex(w).cur
      n == Ex(w).next
      t == Ex(w).at
  IN \/ /\ Ex(w).pc = "wipe_vec"
        /\ Writes(w, File[f], NoChunks, "wipe_pg", 1)
     \/ /\ Ex(w).pc = "wipe_pg"
        /\ Writes(w, [File[f] EXCEPT !.pg = NoChunks], outside[f],
                  "wipe_count", 1)
     \/ /\ Ex(w).pc = "wipe_count"
        /\ Writes(w, [File[f] EXCEPT !.n = 0], outside[f], ToStore(w, 1), 1)
     \/ /\ Ex(w).pc = "store_pg"
        /\ Writes(w, [File[f] EXCEPT !.pg = [File[f].pg EXCEPT ![n] = t]],
                  outside[f], "store_vec", n)
     \/ /\ Ex(w).pc = "store_vec"
        /\ Writes(w, File[f], [outside[f] EXCEPT ![n] = t],
                  ToStore(w, n + 1), n + 1)

Publishes(w) ==
  /\ Owns(w) /\ Ex(w).pc = "publish"
  /\ FileBecomes(Ex(w).cur, [Settled(Ex(w).cur, "indexed") EXCEPT
                               !.n = Ex(w).upto])
  /\ Last' = [Last EXCEPT ![Ex(w).cur] = Ex(w).at]
  /\ ExecBecomes(w, BackToLoop(w))
  /\ UNCHANGED <<lease, KindOf, outside, Tries, Alien>>

\* A deletion or a repair: the state of the file stays, or it is gone.
Meddles(f, r, o) ==
  /\ r \in FileSet /\ o \in Chunks
  /\ \/ r.st = St(f) /\ r.pt = File[f].pt /\ r.po = File[f].po
     \/ r.st = "gone" /\ r.pt = NoTask
  /\ FileBecomes(f, r)
  /\ outside' = [outside EXCEPT ![f] = o]
  /\ Alien' = [Alien EXCEPT ![f] = TRUE]
  /\ UNCHANGED <<lease, KindOf, Execs, Tries, Last>>

Rests ==
  UNCHANGED <<lease, File, KindOf, Execs, outside>> /\ Unmarked

Shape ==
  \/ Rests
  \/ \E t \in Tasks :
       \/ \E k \in Kinds : Submits(t, k)
       \/ \E w \in Workers, e \in ExecSet : Begins(t, w, e)
       \/ \E s \in {"failed", "cancelled"} : GivesUp(t, s)
       \/ RunsOut(t)
  \/ \E w \in Workers :
       \/ Quits(w) \/ Succeeds(w) \/ Stores(w) \/ Publishes(w)
       \/ \E s \in {"failed", "cancelled"} : Fails(w, s)
       \/ \E f \in Files : Drops(w, f) \/ Adds(w, f) \/ Passes(w, f)
                                       \/ Claims(w, f)
       \/ \E p \in Looping, T \in SUBSET Files : Advances(w, p, T)
       \/ \E r \in FileSet, e \in ExecSet : GivesBack(w, r, e)
       \/ \E n \in 0 .. MaxChunks : Splits(w, n)
  \/ \E f \in Files, r \in FileSet, o \in Chunks : Meddles(f, r, o)

-----------------------------------------------------------------------------
(* Every step has one of these shapes.                                     *)

LEMMA BecomesFlat ==
  ASSUME ProcsRecord, Execs \in [Workers -> ExecSet], NEW w \in Workers,
         NEW e, Becomes(w, e)
  PROVE  ExecBecomes(w, e) /\ ProcsRecord'
BY DEF ProcsRecord, Becomes, ExecBecomes, Execs, Fix

LEMMA WriteFlat ==
  ASSUME RowsRecord, File \in [Files -> FileSet], NEW f \in Files, NEW r,
         Write(f, r)
  PROVE  FileBecomes(f, r) /\ KindOf' = KindOf /\ RowsRecord'
BY DEF RowsRecord, Write, FileBecomes, File, KindOf

LEMMA Same ==
  /\ RowsRecord /\ rows' = rows => File' = File /\ KindOf' = KindOf /\ RowsRecord'
  /\ ProcsRecord /\ procs' = procs => Execs' = Execs /\ ProcsRecord'
  /\ GhostRecord /\ ghost' = ghost => Unmarked /\ GhostRecord'
BY DEF RowsRecord, ProcsRecord, GhostRecord, File, KindOf, Execs, Fix, Tries,
  Last, Alien, Unmarked

LEMMA IdleTyped == FileConstants => Idle \in ExecSet
BY DEF FileConstants, Idle, ExecSet, TaskOrNone

LEMMA NoChunksTyped == NoChunks \in Chunks
BY DEF NoChunks, Chunks, TaskOrNone

\* The end of a task by its execution.
LEMMA EndTaskShape ==
  ASSUME FileConstants, FileInv, NEW w \in Workers, Ex(w).pc # "idle",
         NEW s \in EndStatuses, EndTask(w, s),
         s = "success" => Ex(w).pc \in Looping
  PROVE  Shape /\ Records'
<1> USE DEF FileInv, Records
<1>1. ExecBecomes(w, Idle) /\ ProcsRecord'
  BY BecomesFlat DEF EndTask, Typed
<1>2. Unmarked /\ GhostRecord' /\ outside' = outside
  BY Same DEF EndTask
<1>3. CASE ~HoldsLease(Ex(w).at, w)
  BY <1>1, <1>2, <1>3, Same DEF EndTask, Quits, Shape
<1>4. CASE HoldsLease(Ex(w).at, w) /\ s = "success"
  BY <1>1, <1>2, <1>4, Same DEF EndTask, Ended, Succeeds, Shape
<1>5. CASE HoldsLease(Ex(w).at, w) /\ s # "success"
  <2>1. FailureHook(Ex(w).at) /\ Ended(Ex(w).at, s)
    BY <1>5 DEF EndTask
  <2>2. File' = HookFiles(Ex(w).at) /\ KindOf' = KindOf /\ RowsRecord'
    BY <2>1 DEF FailureHook, HookFiles, RowsRecord, File, KindOf
  <2>3. Fails(w, s) /\ s \in {"failed", "cancelled"}
    BY <1>1, <1>2, <1>5, <2>1, <2>2 DEF Fails, Ended, EndStatuses
  <2> QED BY <1>1, <1>2, <2>2, <2>3 DEF Shape
<1> QED BY <1>3, <1>4, <1>5

LEMMA TasksShape ==
  ASSUME FileConstants, FileInv, NEW t \in Tasks,
         \/ \E k \in Kinds : Enqueue(t, k)
         \/ \E w \in Workers : StartHandler(t, w)
         \/ GiveUpTask(t) \/ Lapse(t)
  PROVE  Shape /\ Records'
<1> USE DEF FileInv, Records
<1>1. ASSUME NEW k \in Kinds, Enqueue(t, k) PROVE Shape /\ Records'
  <2>1. KindOf' = [KindOf EXCEPT ![t] = k] /\ File' = File /\ RowsRecord'
    BY <1>1 DEF Enqueue, RowsRecord, File, KindOf
  <2>2. Submits(t, k)
    BY <1>1, <2>1, Same DEF Enqueue, Submit, Submits
  <2> QED BY <1>1, <2>1, <2>2, Same DEF Shape, Enqueue
<1>2. ASSUME NEW w \in Workers, StartHandler(t, w) PROVE Shape /\ Records'
  <2>1. PICK T \in SUBSET Files :
          /\ StartsWith(KindOf[t], T)
          /\ Becomes(w, [Idle EXCEPT !.at = t, !.todo = T, !.pc =
               CASE KindOf[t] = "ingest" -> "add"
                 [] KindOf[t] \in {"parse", "index"} -> KindOf[t]
                 [] OTHER -> "list"])
    BY <1>2 DEF StartHandler, KindOf
  <2> DEFINE p == CASE KindOf[t] = "ingest" -> "add"
                    [] KindOf[t] \in {"parse", "index"} -> KindOf[t]
                    [] OTHER -> "list"
             e == [Idle EXCEPT !.at = t, !.todo = T, !.pc = p]
  <2>2. p \in {"add", "parse", "index", "list"}
    OBVIOUS
  <2>3. /\ e \in ExecSet /\ e.at = t /\ e.cursor = 0 /\ e.pc = p
        /\ e.todo = T
    <3> HIDE DEF p
    <3> QED BY <2>2, IdleTyped DEF ExecSet, Idle, TaskOrNone, Looping
  <2>4. ExecBecomes(w, e) /\ ProcsRecord'
    BY <2>1, BecomesFlat DEF Typed
  <2>5. KindOf[t] \notin {"ingest", "parse", "index"} => T = {}
    BY <2>1 DEF StartsWith
  <2>6. Begins(t, w, e)
    <3> HIDE DEF e
    <3> QED BY <1>2, <2>3, <2>4, <2>5, Same DEF StartHandler, Take, Begins
  <2> HIDE DEF e
  <2> QED BY <1>2, <2>3, <2>4, <2>6, Same DEF Shape, StartHandler
<1>3. ASSUME GiveUpTask(t) PROVE Shape /\ Records'
  <2>1. PICK s \in {"failed", "cancelled"} :
          /\ lease[t].st = "pending" \/ (Unheld(t) /\ s = "failed")
          /\ Ended(t, s)
    BY <1>3 DEF GiveUpTask, GivenUp
  <2>2. File' = HookFiles(t) /\ KindOf' = KindOf /\ RowsRecord'
    BY <1>3 DEF GiveUpTask, FailureHook, HookFiles, RowsRecord, File, KindOf
  <2>3. GivesUp(t, s)
    BY <1>3, <2>1, <2>2, Same DEF GiveUpTask, Ended, GivesUp
  <2> QED BY <1>3, <2>2, <2>3, Same DEF GiveUpTask, Shape
<1>4. ASSUME Lapse(t) PROVE Shape /\ Records'
  <2>1. RunsOut(t)
    BY <1>4, Same DEF Lapse, LeaseRunsOut, RunsOut, Typed, LeaseSet
  <2> QED BY <1>4, <2>1, Same DEF Lapse, Shape
<1> QED BY <1>1, <1>2, <1>3, <1>4

LEMMA LoopShape ==
  ASSUME FileConstants, FileInv, NEW w \in Workers,
         \/ AddRecord(w) \/ ListBatch(w) \/ StageDone(w) \/ Interrupted(w)
         \/ ClaimFile(w) \/ OwnerLost(w) \/ Crash(w)
  PROVE  Shape /\ Records'
<1> USE DEF FileInv, Records
<1>0. Ex(w) = Execs[w] /\ Execs[w] \in ExecSet
  BY DEF Ex, Execs, Typed
<1>1. ASSUME AddRecord(w) PROVE Shape /\ Records'
  <2>1. PICK f \in Foremost(w) :
          /\ St(f) = "absent"
          /\ \/ Becomes(w, [Ex(w) EXCEPT !.todo = @ \ {f}]) /\ UNCHANGED rows
             \/ /\ Write(f, NewFile("uploaded"))
                /\ Becomes(w, [Ex(w) EXCEPT !.todo = @ \ {f},
                                            !.carry = @ \cup {f}])
    BY <1>1 DEF AddRecord
  <2>2. f \in Files
    BY <1>0, <2>1 DEF Foremost, ExecSet
  <2>3. CASE Becomes(w, [Ex(w) EXCEPT !.todo = @ \ {f}]) /\ UNCHANGED rows
    <3>1. /\ ExecBecomes(w, [Ex(w) EXCEPT !.todo = @ \ {f}])
          /\ ProcsRecord'
      BY <2>3, BecomesFlat DEF Typed
    <3>2. Drops(w, f)
      BY <1>1, <2>3, <3>1, Same DEF AddRecord, Drops
    <3> QED BY <1>1, <2>2, <2>3, <3>1, <3>2, Same DEF AddRecord, Shape
  <2>4. CASE /\ Write(f, NewFile("uploaded"))
             /\ Becomes(w, [Ex(w) EXCEPT !.todo = @ \ {f},
                                         !.carry = @ \cup {f}])
    <3>1. /\ ExecBecomes(w, [Ex(w) EXCEPT !.todo = @ \ {f},
                                          !.carry = @ \cup {f}])
          /\ ProcsRecord'
      BY <2>4, BecomesFlat DEF Typed
    <3>2. /\ FileBecomes(f, NewFile("uploaded"))
          /\ KindOf' = KindOf /\ RowsRecord'
      BY <2>2, <2>4, WriteFlat DEF Typed
    <3>3. Adds(w, f)
      BY <1>1, <2>1, <3>1, <3>2, Same DEF AddRecord, Adds
    <3> QED BY <1>1, <2>2, <3>1, <3>2, <3>3, Same DEF AddRecord, Shape
  <2> QED BY <2>1, <2>3, <2>4
<1>2. ASSUME NEW p \in Looping, NEW T \in SUBSET Files, GoOn(w, p, T),
             Ex(w).pc \in Looping,
             \/ /\ Kind(w) \in PendingKinds
                /\ \/ p = "list" /\ T = {}
                   \/ p \in {"parse", "index"} /\ \A f \in T : f > Ex(w).cursor
             \/ /\ Kind(w) = "ingest"
                /\ \/ Ex(w).pc = "add" /\ p = "parse"
                   \/ Ex(w).pc = "parse" /\ p = "index"
      PROVE  Shape /\ Records'
  <2>1. /\ ExecBecomes(w, [Ex(w) EXCEPT !.pc = p, !.todo = T, !.carry = {}])
        /\ ProcsRecord'
    BY <1>2, BecomesFlat DEF GoOn, Typed
  <2>2. Advances(w, p, T)
    BY <1>2, <2>1, Same DEF GoOn, Advances
  <2> QED BY <1>2, <2>1, <2>2, Same DEF GoOn, Shape
<1>3. ASSUME ListBatch(w) PROVE Shape /\ Records'
  <2>1. Ex(w).pc \in Looping /\ Ex(w).pc # "idle" /\ Kind(w) \in PendingKinds
    BY <1>3 DEF ListBatch, Looping, Budget
  <2>2. CASE AfterCursor(w) = {}
    BY <1>3, <2>1, <2>2, EndTaskShape DEF ListBatch, EndStatuses
  <2>3. CASE AfterCursor(w) # {}
    <3> DEFINE p == IF Kind(w) = "parse_pending" THEN "parse" ELSE "index"
    <3>1. GoOn(w, p, AfterCursor(w)) /\ p \in {"parse", "index"}
      BY <1>3, <2>3 DEF ListBatch
    <3>2. /\ AfterCursor(w) \in SUBSET Files
          /\ \A f \in AfterCursor(w) : f > Ex(w).cursor
      BY DEF AfterCursor
    <3> HIDE DEF p
    <3> QED BY <1>2, <2>1, <3>1, <3>2 DEF Looping
  <2> QED BY <2>2, <2>3
<1>4. ASSUME StageDone(w) PROVE Shape /\ Records'
  <2>1. Ex(w).pc \in Looping /\ Ex(w).pc # "idle"
    BY <1>4 DEF StageDone, Looping
  <2>2. Ex(w).carry \in SUBSET Files
    BY <1>0 DEF ExecSet
  <2>3. \/ Kind(w) \in PendingKinds /\ GoOn(w, "list", {})
        \/ \E s \in EndStatuses : EndTask(w, s)
        \/ /\ Kind(w) = "ingest" /\ Ex(w).pc = "add"
           /\ GoOn(w, "parse", Ex(w).carry)
        \/ /\ Kind(w) = "ingest" /\ Ex(w).pc = "parse"
           /\ GoOn(w, "index", Ex(w).carry)
    BY <1>4 DEF StageDone, PendingKinds, EndStatuses
  <2> QED BY <1>2, <2>1, <2>2, <2>3, EndTaskShape DEF Looping
<1>5. ASSUME Interrupted(w) PROVE Shape /\ Records'
  BY <1>5, EndTaskShape DEF Interrupted, Looping, EndStatuses
<1>6. ASSUME OwnerLost(w) PROVE Shape /\ Records'
  BY <1>6, EndTaskShape DEF OwnerLost, Working, EndStatuses
<1>7. ASSUME Crash(w) PROVE Shape /\ Records'
  <2>1. ExecBecomes(w, Idle) /\ ProcsRecord'
    BY <1>7, BecomesFlat DEF Crash, Typed
  <2> QED BY <1>7, <2>1, Same DEF Crash, Quits, Shape
<1>8. ASSUME ClaimFile(w) PROVE Shape /\ Records'
  <2>1. PICK f \in Foremost(w) :
         IF MayClaim(f, Ex(w).pc) /\ HoldsLease(Ex(w).at, w)
         THEN /\ Write(f, [rows.file[f] EXCEPT
                   !.st = IF Ex(w).pc = "parse" THEN "parsing" ELSE "indexing",
                   !.pt = Ex(w).at, !.po = w])
              /\ ghost' = [ghost EXCEPT !.alien[f] = FALSE,
                                        !.tries[Ex(w).at][f] = @ + 1]
              /\ Becomes(w, [Ex(w) EXCEPT !.todo = @ \ {f}, !.cursor = f,
                   !.cur = f,
                   !.pc = IF @ = "parse" THEN "convert" ELSE "split"])
         ELSE /\ Becomes(w, [Ex(w) EXCEPT !.todo = @ \ {f}, !.cursor = f])
              /\ UNCHANGED <<rows, ghost>>
    BY <1>8 DEF ClaimFile
  <2>2. f \in Files /\ Ex(w).pc \in {"parse", "index"} /\ Ex(w).at \in Tasks
    BY <1>0, <1>8, <2>1 DEF ClaimFile, Foremost, ExecSet, ExecsOK
  <2>3. lease' = lease /\ outside' = outside
    BY <1>8 DEF ClaimFile
  <2>4. CASE MayClaim(f, Ex(w).pc) /\ HoldsLease(Ex(w).at, w)
    <3> DEFINE r == [rows.file[f] EXCEPT
                   !.st = IF Ex(w).pc = "parse" THEN "parsing" ELSE "indexing",
                   !.pt = Ex(w).at, !.po = w]
               e == [Ex(w) EXCEPT !.todo = @ \ {f}, !.cursor = f,
                   !.cur = f,
                   !.pc = IF @ = "parse" THEN "convert" ELSE "split"]
    <3>1. ExecBecomes(w, e) /\ ProcsRecord'
      BY <2>1, <2>4, BecomesFlat DEF Typed
    <3>2. FileBecomes(f, r) /\ KindOf' = KindOf /\ RowsRecord'
      BY <2>1, <2>2, <2>4, WriteFlat DEF Typed
    <3>3. /\ Alien' = [Alien EXCEPT ![f] = FALSE] /\ Last' = Last
          /\ Tries' = [Tries EXCEPT ![Ex(w).at] =
                        [@ EXCEPT ![f] = Tries[Ex(w).at][f] + 1]]
          /\ GhostRecord'
      BY <2>1, <2>2, <2>4 DEF GhostRecord, Alien, Tries, Last, Typed
    <3>4. St(f) \notin InProgress
      BY <2>4 DEF MayClaim, InProgress
    <3>5. Claims(w, f)
      BY <2>1, <2>2, <2>3, <2>4, <3>1, <3>2, <3>3, <3>4 DEF Claims, File
    <3> QED BY <2>2, <3>1, <3>2, <3>3, <3>5 DEF Shape
  <2>5. CASE ~(MayClaim(f, Ex(w).pc) /\ HoldsLease(Ex(w).at, w))
    <3>1. /\ ExecBecomes(w, [Ex(w) EXCEPT !.todo = @ \ {f}, !.cursor = f])
          /\ ProcsRecord'
      BY <2>1, <2>5, BecomesFlat DEF Typed
    <3>2. Passes(w, f)
      BY <2>1, <2>2, <2>3, <2>5, <3>1, Same DEF Passes
    <3> QED BY <2>1, <2>2, <2>5, <3>1, <3>2, Same DEF Shape
  <2> QED BY <2>4, <2>5
<1> QED BY <1>1, <1>3, <1>4, <1>5, <1>6, <1>7, <1>8

\* An execution that owns its current file gives it back.
LEMMA GiveBackShape ==
  ASSUME FileConstants, FileInv, NEW w \in Workers, Owns(w),
         NEW r \in FileSet, r.st \notin InProgress \cup {"indexed"},
         r.pt = NoTask, Write(Ex(w).cur, r),
         NEW e \in ExecSet, e.at = Ex(w).at, e.cursor = Ex(w).cursor,
         \/ /\ e.todo = Ex(w).todo
            /\ e.pc = IF Ex(w).pc = "convert" THEN "parse" ELSE "index"
         \/ e.todo = {} /\ e.pc = "cancelled",
         Becomes(w, e), UNCHANGED <<lease, outside, ghost>>
  PROVE  Shape /\ Records'
<1> USE DEF FileInv, Records
<1>1. Ex(w).cur \in Files
  BY DEF Owns, ExecsOK
<1>2. ExecBecomes(w, e) /\ ProcsRecord'
  BY BecomesFlat DEF Typed
<1>3. FileBecomes(Ex(w).cur, r) /\ KindOf' = KindOf /\ RowsRecord'
  BY <1>1, WriteFlat DEF Typed
<1>4. GivesBack(w, r, e)
  BY <1>2, <1>3, Same DEF GivesBack
<1> QED BY <1>2, <1>3, <1>4, Same DEF Shape

LEMMA SettledTyped ==
  ASSUME Typed, NEW f \in Files, NEW s \in FileStates
  PROVE  /\ Settled(f, s) \in FileSet /\ Settled(f, s).st = s
         /\ Settled(f, s).pt = NoTask /\ Settled(f, s).po = NoWorker
         /\ Settled(f, s).n = File[f].n /\ Settled(f, s).pg = File[f].pg
BY DEF Typed, Settled, FileSet, File, TaskOrNone

LEMMA BackTyped ==
  ASSUME FileConstants, Typed, NEW w \in Workers
  PROVE  /\ BackToLoop(w) \in ExecSet /\ BackToLoop(w).at = Ex(w).at
         /\ BackToLoop(w).cursor = Ex(w).cursor
         /\ BackToLoop(w).todo = Ex(w).todo
         /\ BackToLoop(w).carry = Ex(w).carry
         /\ BackToLoop(w).pc = IF Ex(w).pc = "convert" THEN "parse"
                               ELSE "index"
<1>1. Ex(w) \in ExecSet /\ 0 \in 0 .. MaxChunks
  BY DEF FileConstants, Typed, Ex, Execs
<1> QED BY <1>1 DEF BackToLoop, ExecSet, Looping

LEMMA FileStepShape ==
  ASSUME FileConstants, FileInv, NEW w \in Workers,
         FileFails(w) \/ Parsed(w) \/ Split(w) \/ Indexed(w)
  PROVE  Shape /\ Records'
<1> USE DEF FileInv, Records
<1>0. Ex(w) = Execs[w] /\ Execs[w] \in ExecSet
  BY DEF Ex, Execs, Typed
<1> DEFINE f == Ex(w).cur
           b == BackToLoop(w)
<1>1. ASSUME FileFails(w) PROVE Shape /\ Records'
  <2>1. f \in Files
    BY <1>1 DEF FileFails, Owns, ExecsOK
  <2> DEFINE r == Settled(f, ErrorOf(Doing(w)))
  <2>2. ErrorOf(Doing(w)) \in {"error_parsing", "error_indexing"}
    BY DEF ErrorOf, Doing
  <2>3. r \in FileSet /\ r.st \notin InProgress \cup {"indexed"} /\ r.pt = NoTask
    BY <2>1, <2>2, SettledTyped DEF FileStates, InProgress
  <2>4. CASE Becomes(w, b)
    <3> HIDE DEF r
    <3> QED BY <1>1, <2>3, <2>4, BackTyped, GiveBackShape DEF FileFails, r
  <2>5. CASE Becomes(w, [b EXCEPT !.pc = "cancelled", !.todo = {}])
    <3> DEFINE e == [b EXCEPT !.pc = "cancelled", !.todo = {}]
    <3>1. /\ e \in ExecSet /\ e.at = Ex(w).at /\ e.cursor = Ex(w).cursor
          /\ e.todo = {} /\ e.pc = "cancelled"
      BY BackTyped DEF ExecSet, Looping
    <3> HIDE DEF e, r
    <3> QED BY <1>1, <2>3, <2>5, <3>1, GiveBackShape DEF FileFails, e, r
  <2> QED BY <1>1, <2>4, <2>5 DEF FileFails
<1>2. ASSUME Parsed(w) PROVE Shape /\ Records'
  <2>1. f \in Files
    BY <1>2 DEF Parsed, Owns, ExecsOK
  <2> DEFINE r == [Settled(f, "parsed") EXCEPT !.md = TRUE]
             e == [b EXCEPT !.carry = @ \cup {f}]
  <2>2. r \in FileSet /\ r.st = "parsed" /\ r.pt = NoTask
    <3>1. "parsed" \in FileStates
      BY DEF FileStates
    <3> DEFINE x == Settled(f, "parsed")
    <3>2. x \in FileSet /\ x.st = "parsed" /\ x.pt = NoTask
      BY <2>1, <3>1, SettledTyped
    <3> HIDE DEF x, f
    <3>3. [x EXCEPT !.md = TRUE] \in FileSet
      BY <3>2 DEF FileSet
    <3>4. /\ [x EXCEPT !.md = TRUE].st = "parsed"
          /\ [x EXCEPT !.md = TRUE].pt = NoTask
      BY <3>2 DEF FileSet
    <3> QED BY <3>3, <3>4 DEF x
  <2>3. /\ e \in ExecSet /\ e.at = Ex(w).at /\ e.cursor = Ex(w).cursor
        /\ e.todo = Ex(w).todo
        /\ e.pc = IF Ex(w).pc = "convert" THEN "parse" ELSE "index"
    BY <2>1, BackTyped DEF ExecSet
  <2>4. /\ Owns(w) /\ Write(f, r) /\ Becomes(w, e)
        /\ UNCHANGED <<lease, outside, ghost>>
    BY <1>2 DEF Parsed
  <2>5. r.st \notin InProgress \cup {"indexed"}
    BY <2>2 DEF InProgress
  <2> HIDE DEF e, r
  <2> QED BY <2>2, <2>3, <2>4, <2>5, GiveBackShape
<1>3. ASSUME Split(w) PROVE Shape /\ Records'
  <2>1. f \in Files
    BY <1>3 DEF Split, ExecsOK, Working
  <2>2. CASE rows.file[f].md
    <3>1. PICK n \in 0 .. MaxChunks :
            Becomes(w, [Ex(w) EXCEPT !.pc = "wipe_vec", !.upto = n,
                                     !.next = 1])
      BY <1>3, <2>2 DEF Split
    <3>2. /\ ExecBecomes(w, [Ex(w) EXCEPT !.pc = "wipe_vec", !.upto = n,
                                          !.next = 1])
          /\ ProcsRecord'
      BY <3>1, BecomesFlat DEF Typed
    <3>3. Splits(w, n)
      BY <1>3, <2>2, <3>2, Same DEF Split, Splits
    <3> QED BY <1>3, <2>2, <3>2, <3>3, Same DEF Split, Shape
  <2>3. CASE ~rows.file[f].md
    <3> DEFINE r == Settled(f, "uploaded")
    <3>1. r \in FileSet /\ r.st \notin InProgress \cup {"indexed"} /\ r.pt = NoTask
      BY <2>1, SettledTyped DEF FileStates, InProgress
    <3>2. /\ Owns(w) /\ Write(f, r) /\ Becomes(w, b)
          /\ UNCHANGED <<lease, outside, ghost>>
      BY <1>3, <2>3 DEF Split
    <3> HIDE DEF r
    <3> QED BY <3>1, <3>2, BackTyped, GiveBackShape
  <2> QED BY <2>2, <2>3
<1>4. ASSUME Indexed(w) PROVE Shape /\ Records'
  <2>1. f \in Files
    BY <1>4 DEF Indexed, Owns, ExecsOK
  <2>2. ExecBecomes(w, b) /\ ProcsRecord'
    BY <1>4, BecomesFlat DEF Indexed, Typed
  <2>3. /\ FileBecomes(f, [Settled(f, "indexed") EXCEPT !.n = Ex(w).upto])
        /\ KindOf' = KindOf /\ RowsRecord'
    BY <1>4, <2>1, WriteFlat DEF Indexed, Typed
  <2>4. /\ Last' = [Last EXCEPT ![f] = Ex(w).at]
        /\ Tries' = Tries /\ Alien' = Alien /\ GhostRecord'
    BY <1>4 DEF Indexed, GhostRecord, Last, Tries, Alien
  <2>5. Publishes(w)
    BY <1>4, <2>2, <2>3, <2>4 DEF Indexed, Publishes
  <2> QED BY <2>2, <2>3, <2>4, <2>5 DEF Shape
<1> QED BY <1>1, <1>2, <1>3, <1>4

\* The writes to the stores.
LEMMA StoreShape ==
  ASSUME FileConstants, FileInv, NEW w \in Workers,
         \/ WipeVectors(w) \/ WipeChunks(w) \/ WipeCount(w)
         \/ StoreChunk(w) \/ StoreVector(w)
  PROVE  Stores(w) /\ Records'
<1> USE DEF FileInv, Records
<1> DEFINE f == Ex(w).cur
<1>1. f \in Files
  BY DEF WipeVectors, WipeChunks, WipeCount, StoreChunk, StoreVector,
    ExecsOK, Working
<1>2. ASSUME NEW p, NEW n, Touch(w, p, n)
      PROVE  /\ ExecBecomes(w, [Ex(w) EXCEPT !.pc = p, !.next = n])
             /\ Alien' = [Alien EXCEPT ![f] = @ \/ ~Owns(w)]
             /\ Tries' = Tries /\ Last' = Last /\ lease' = lease
             /\ ProcsRecord' /\ GhostRecord'
  <2>1. /\ ExecBecomes(w, [Ex(w) EXCEPT !.pc = p, !.next = n])
        /\ ProcsRecord'
    BY <1>2, BecomesFlat DEF Touch, Typed
  <2>2. /\ Alien' = [Alien EXCEPT ![f] = @ \/ ~Owns(w)]
        /\ Tries' = Tries /\ Last' = Last /\ GhostRecord'
    BY <1>2 DEF Touch, GhostRecord, Alien, Tries, Last
  <2> QED BY <1>2, <2>1, <2>2 DEF Touch
<1>3. ASSUME rows' = rows
      PROVE  /\ FileBecomes(f, File[f]) /\ KindOf' = KindOf /\ RowsRecord'
  BY <1>1, <1>3, Same DEF FileBecomes, Typed
<1>4. ASSUME outside' = outside
      PROVE  outside' = [outside EXCEPT ![f] = outside[f]]
  BY <1>1, <1>4 DEF Typed
<1>5. ASSUME WipeVectors(w) PROVE Stores(w) /\ Records'
  BY <1>2, <1>3, <1>5 DEF WipeVectors, Stores, Writes
<1>6. ASSUME WipeChunks(w) PROVE Stores(w) /\ Records'
  <2>1. /\ FileBecomes(f, [File[f] EXCEPT !.pg = NoChunks])
        /\ KindOf' = KindOf /\ RowsRecord'
    BY <1>1, <1>6 DEF WipeChunks, Wiped, FileBecomes, RowsRecord, File,
      KindOf, Typed
  <2> QED BY <1>2, <1>4, <1>6, <2>1 DEF WipeChunks, Stores, Writes
<1>7. ASSUME WipeCount(w) PROVE Stores(w) /\ Records'
  <2>1. /\ FileBecomes(f, [File[f] EXCEPT !.n = 0])
        /\ KindOf' = KindOf /\ RowsRecord'
    BY <1>1, <1>7 DEF WipeCount, FileBecomes, RowsRecord, File, KindOf, Typed
  <2> QED BY <1>2, <1>4, <1>7, <2>1 DEF WipeCount, Stores, Writes
<1>8. ASSUME StoreChunk(w) PROVE Stores(w) /\ Records'
  <2>1. /\ FileBecomes(f, [File[f] EXCEPT
                             !.pg = [File[f].pg EXCEPT ![Ex(w).next] = Ex(w).at]])
        /\ KindOf' = KindOf /\ RowsRecord'
    BY <1>1, <1>8 DEF StoreChunk, FileBecomes, RowsRecord, File, KindOf, Typed
  <2> QED BY <1>2, <1>4, <1>8, <2>1 DEF StoreChunk, Stores, Writes
<1>9. ASSUME StoreVector(w) PROVE Stores(w) /\ Records'
  <2>1. outside' = [outside EXCEPT ![f] =
                      [outside[f] EXCEPT ![Ex(w).next] = Ex(w).at]]
    BY <1>1, <1>9 DEF StoreVector, Typed
  <2> QED BY <1>2, <1>3, <1>9, <2>1 DEF StoreVector, Stores, Writes
<1> QED BY <1>5, <1>6, <1>7, <1>8, <1>9

\* Deletions and repairs.
LEMMA MeddleShape ==
  ASSUME FileConstants, FileInv, NEW f \in Files,
         DeleteStep(f) \/ RepairRead(f) \/ RepairWrite(f)
  PROVE  Shape /\ Records'
<1> USE DEF FileInv, Records
<1>0. File[f] = rows.file[f] /\ File[f] \in FileSet /\ St(f) = File[f].st
  BY DEF File, Typed, St
<1>1. ASSUME NEW r \in FileSet, NEW o \in Chunks,
             \/ r.st = St(f) /\ r.pt = File[f].pt /\ r.po = File[f].po
             \/ r.st = "gone" /\ r.pt = NoTask,
             FileBecomes(f, r), outside' = [outside EXCEPT ![f] = o],
             ghost' = [ghost EXCEPT !.alien[f] = TRUE],
             UNCHANGED <<lease, KindOf, Execs>>
      PROVE  Shape /\ GhostRecord'
  <2>1. /\ Alien' = [Alien EXCEPT ![f] = TRUE] /\ Tries' = Tries
        /\ Last' = Last /\ GhostRecord'
    BY <1>1 DEF GhostRecord, Alien, Tries, Last
  <2> QED BY <1>1, <2>1 DEF Meddles, Shape
<1>2. ASSUME DeleteStep(f) PROVE Shape /\ Records'
  <2>1. ghost' = [ghost EXCEPT !.alien[f] = TRUE] /\ lease' = lease
    BY <1>2 DEF DeleteStep
  <2>2. Execs' = Execs /\ ProcsRecord'
    BY <1>2, Same DEF DeleteStep, ProcsRecord, Execs, Fix
  <2>3. CASE procs.del[f] = "no"
    <3>1. rows' = rows /\ outside' = [outside EXCEPT ![f] = NoChunks]
      BY <1>2, <2>3 DEF DeleteStep
    <3>2. FileBecomes(f, File[f]) /\ KindOf' = KindOf /\ RowsRecord'
      BY <3>1, Same DEF FileBecomes, Typed
    <3> QED BY <1>0, <1>1, <2>1, <2>2, <3>1, <3>2, NoChunksTyped
  <2>4. CASE procs.del[f] = "pg"
    <3> DEFINE r == [File[f] EXCEPT !.pg = NoChunks, !.n = 0]
    <3>1. Write(f, r) /\ outside' = outside
      BY <1>0, <1>2, <2>4 DEF DeleteStep
    <3>2. FileBecomes(f, r) /\ KindOf' = KindOf /\ RowsRecord'
      BY <3>1, WriteFlat DEF Typed
    <3>3. r \in FileSet /\ r.st = St(f) /\ r.pt = File[f].pt /\ r.po = File[f].po
      BY <1>0, NoChunksTyped DEF FileSet
    <3>4. outside' = [outside EXCEPT ![f] = outside[f]] /\ outside[f] \in Chunks
      BY <3>1 DEF Typed
    <3> HIDE DEF r
    <3> QED BY <1>1, <2>1, <2>2, <3>2, <3>3, <3>4
  <2>5. CASE procs.del[f] \notin {"no", "pg"}
    <3>1. Write(f, NewFile("gone")) /\ outside' = outside
      BY <1>2, <2>5 DEF DeleteStep
    <3>2. FileBecomes(f, NewFile("gone")) /\ KindOf' = KindOf /\ RowsRecord'
      BY <3>1, WriteFlat DEF Typed
    <3>3. /\ NewFile("gone") \in FileSet /\ NewFile("gone").st = "gone"
          /\ NewFile("gone").pt = NoTask
      BY NoChunksTyped DEF NewFile, FileSet, FileStates, TaskOrNone
    <3>4. outside' = [outside EXCEPT ![f] = outside[f]] /\ outside[f] \in Chunks
      BY <3>1 DEF Typed
    <3> QED BY <1>1, <2>1, <2>2, <3>2, <3>3, <3>4
  <2> QED BY <2>3, <2>4, <2>5
<1>3. ASSUME RepairRead(f) PROVE Shape /\ Records'
  <2> DEFINE S == {i \in 1 .. MaxChunks : rows.file[f].pg[i] # NoTask}
             n == IF St(f) = "indexed" THEN Cardinality(S) ELSE 0
  <2>1. IsFiniteSet(1 .. MaxChunks)
    BY FS_Interval DEF FileConstants
  <2>2. Cardinality(S) \in Nat
    BY <2>1, FS_Subset, FS_CardinalityType
  <2>3. n \in Nat
    BY <2>2
  <2>4. procs' = [procs EXCEPT !.fix[f] = {n}]
    BY <1>3 DEF RepairRead
  <2>5. Execs' = Execs /\ ProcsRecord'
    <3> HIDE DEF n
    <3> QED BY <2>3, <2>4 DEF ProcsRecord, Execs, Fix
  <2> QED BY <1>3, <2>5, Same DEF RepairRead, Rests, Shape
<1>4. ASSUME RepairWrite(f) PROVE Shape /\ Records'
  <2>1. PICK n \in Fix[f] :
          IF Exists(f) /\ rows.file[f].n # n
            THEN /\ Write(f, [rows.file[f] EXCEPT !.n = n])
                 /\ ghost' = [ghost EXCEPT !.alien[f] = TRUE]
            ELSE UNCHANGED <<rows, ghost>>
    BY <1>4 DEF RepairWrite, Fix
  <2>2. n \in Nat /\ lease' = lease /\ outside' = outside
    BY <1>4 DEF RepairWrite, ProcsRecord
  <2>3. Execs' = Execs /\ ProcsRecord'
    BY <1>4 DEF RepairWrite, ProcsRecord, Execs, Fix
  <2>4. CASE Exists(f) /\ rows.file[f].n # n
    <3> DEFINE r == [File[f] EXCEPT !.n = n]
    <3>1. Write(f, r) /\ ghost' = [ghost EXCEPT !.alien[f] = TRUE]
      BY <1>0, <2>1, <2>4
    <3>2. FileBecomes(f, r) /\ KindOf' = KindOf /\ RowsRecord'
      BY <3>1, WriteFlat DEF Typed
    <3>3. r \in FileSet /\ r.st = St(f) /\ r.pt = File[f].pt /\ r.po = File[f].po
      BY <1>0, <2>2 DEF FileSet
    <3>4. outside' = [outside EXCEPT ![f] = outside[f]] /\ outside[f] \in Chunks
      BY <2>2 DEF Typed
    <3> HIDE DEF r
    <3> QED BY <1>1, <2>2, <2>3, <3>1, <3>2, <3>3, <3>4
  <2>5. CASE ~(Exists(f) /\ rows.file[f].n # n)
    BY <2>1, <2>2, <2>3, <2>5, Same DEF Rests, Shape
  <2> QED BY <2>4, <2>5
<1> QED BY <1>2, <1>3, <1>4

LEMMA StepShape ==
  ASSUME FileConstants, FileInv, Next
  PROVE  Shape /\ Records'
<1>1. ASSUME NEW w \in Workers, Stores(w) PROVE Shape
  BY <1>1 DEF Shape
<1> QED BY <1>1, TasksShape, LoopShape, FileStepShape, StoreShape, MeddleShape
       DEF Next, GoesOn

-----------------------------------------------------------------------------
(* Each part of the invariant is kept by every shape.                      *)

\* The files of a task that fails.
LEMMA HookTyped ==
  ASSUME Typed, NEW t \in Tasks
  PROVE  /\ HookFiles(t) \in [Files -> FileSet]
         /\ \A f \in Files :
              IF SettledBy(t, f)
                THEN /\ HookFiles(t)[f].st \in {"error_parsing", "error_indexing"}
                     /\ HookFiles(t)[f].pt = NoTask
                ELSE HookFiles(t)[f] = File[f]
<1>1. ASSUME NEW f \in Files
      PROVE  ErrorOf(St(f)) \in {"error_parsing", "error_indexing"}
  BY DEF ErrorOf
<1>2. {"error_parsing", "error_indexing"} \subseteq FileStates
  BY DEF FileStates
<1>3. ASSUME NEW f \in Files
      PROVE  /\ Settled(f, ErrorOf(St(f))) \in FileSet
             /\ Settled(f, ErrorOf(St(f))).st = ErrorOf(St(f))
             /\ Settled(f, ErrorOf(St(f))).pt = NoTask
  BY <1>1, <1>2, SettledTyped
<1>4. File \in [Files -> FileSet]
  BY DEF Typed
<1> QED BY <1>1, <1>3, <1>4 DEF HookFiles

\* Where a write to the stores leads.
Later == {"wipe_pg", "wipe_count", "store_pg", "store_vec", "publish"}

LEMMA StoresTyped ==
  ASSUME FileConstants, FileInv, NEW w \in Workers, Stores(w)
  PROVE  /\ Ex(w).cur \in Files
         /\ \E r \in FileSet, o \in Chunks, n \in Nat,
               p \in Later :
              /\ Writes(w, r, o, p, n)
              /\ r.st = St(Ex(w).cur) /\ r.pt = File[Ex(w).cur].pt
              /\ r.po = File[Ex(w).cur].po
              /\ p \in {"store_pg", "store_vec"} => n \in 1 .. Ex(w).upto
         /\ Ex(w).pc \in Working \ {"convert", "split"}
<1> USE DEF FileInv
<1> DEFINE f == Ex(w).cur
           n == Ex(w).next
           t == Ex(w).at
<1>1. Ex(w).pc \in Working \ {"convert", "split"}
  BY DEF Stores, Working
<1>2. f \in Files /\ t \in Tasks /\ n \in Nat /\ Ex(w).upto \in Nat
  BY <1>1 DEF ExecsOK, Working, Typed, Ex, Execs, ExecSet, FileConstants
<1>3. File[f] \in FileSet /\ St(f) = File[f].st /\ outside[f] \in Chunks
  BY <1>2 DEF Typed, St, File
<1>4. \A m \in Nat : ToStore(w, m) \in {"store_pg", "publish"}
                     /\ (ToStore(w, m) = "store_pg" => m <= Ex(w).upto)
  BY DEF ToStore
<1> DEFINE Goal == \E r \in FileSet, o \in Chunks, m \in Nat,
               p \in Later :
              /\ Writes(w, r, o, p, m)
              /\ r.st = St(f) /\ r.pt = File[f].pt /\ r.po = File[f].po
              /\ p \in {"store_pg", "store_vec"} => m \in 1 .. Ex(w).upto
<1>5. ASSUME NEW r, NEW o \in Chunks, NEW m \in Nat,
             NEW p \in Later,
             Writes(w, r, o, p, m),
             r \in FileSet, r.st = File[f].st, r.pt = File[f].pt,
             r.po = File[f].po,
             p \in {"store_pg", "store_vec"} => m \in 1 .. Ex(w).upto
      PROVE  Goal
  BY <1>3, <1>5
<1> HIDE DEF Goal
<1>6. ASSUME Ex(w).pc = "wipe_vec" PROVE Goal
  <2>1. Writes(w, File[f], NoChunks, "wipe_pg", 1)
    BY <1>6 DEF Stores
  <2> QED BY <1>3, <1>5, <2>1, NoChunksTyped DEF Later
<1>7. ASSUME Ex(w).pc = "wipe_pg" PROVE Goal
  <2> DEFINE r == [File[f] EXCEPT !.pg = NoChunks]
  <2>1. Writes(w, r, outside[f], "wipe_count", 1)
    BY <1>7 DEF Stores
  <2>2. r \in FileSet /\ r.st = File[f].st /\ r.pt = File[f].pt
        /\ r.po = File[f].po
    BY <1>3, NoChunksTyped DEF FileSet
  <2> HIDE DEF r
  <2> QED BY <1>3, <1>5, <2>1, <2>2 DEF Later
<1>8. ASSUME Ex(w).pc = "wipe_count" PROVE Goal
  <2> DEFINE r == [File[f] EXCEPT !.n = 0]
  <2>1. Writes(w, r, outside[f], ToStore(w, 1), 1)
    BY <1>8 DEF Stores
  <2>2. r \in FileSet /\ r.st = File[f].st /\ r.pt = File[f].pt
        /\ r.po = File[f].po
    BY <1>3 DEF FileSet
  <2>3. ToStore(w, 1) \in Later
    BY <1>4 DEF Later
  <2>4. ToStore(w, 1) \in {"store_pg", "store_vec"} => 1 \in 1 .. Ex(w).upto
    BY <1>2, <1>4
  <2> HIDE DEF r
  <2> QED BY <1>3, <1>5, <2>1, <2>2, <2>3, <2>4
<1>9. ASSUME Ex(w).pc = "store_pg" PROVE Goal
  <2> DEFINE c == [File[f].pg EXCEPT ![n] = t]
             r == [File[f] EXCEPT !.pg = c]
  <2>1. Writes(w, r, outside[f], "store_vec", n) /\ n \in 1 .. Ex(w).upto
    BY <1>9 DEF Stores, ExecsOK
  <2>2. c \in Chunks
    BY <1>2, <1>3 DEF FileSet, Chunks, TaskOrNone
  <2>3. r \in FileSet /\ r.st = File[f].st /\ r.pt = File[f].pt
        /\ r.po = File[f].po
    <3> HIDE DEF c
    <3> QED BY <1>3, <2>2 DEF FileSet
  <2> HIDE DEF r
  <2> QED BY <1>2, <1>3, <1>5, <2>1, <2>3 DEF Later
<1>10. ASSUME Ex(w).pc = "store_vec" PROVE Goal
  <2> DEFINE o == [outside[f] EXCEPT ![n] = t]
  <2>1. Writes(w, File[f], o, ToStore(w, n + 1), n + 1)
    BY <1>10 DEF Stores
  <2>2. o \in Chunks
    BY <1>2, <1>3 DEF Chunks, TaskOrNone
  <2>3. ToStore(w, n + 1) \in Later /\ n + 1 \in Nat
    BY <1>2, <1>4 DEF Later
  <2>4. ToStore(w, n + 1) \in {"store_pg", "store_vec"} =>
          n + 1 \in 1 .. Ex(w).upto
    BY <1>2, <1>4
  <2> HIDE DEF o
  <2> QED BY <1>3, <1>5, <2>1, <2>2, <2>3, <2>4
<1> QED BY <1>1, <1>2, <1>6, <1>7, <1>8, <1>9, <1>10 DEF Stores, Goal

LEMMA TypedKept ==
  ASSUME FileConstants, FileInv, Shape
  PROVE  Typed'
<1> USE DEF FileInv, Typed, Unmarked
<1>0. /\ \A t \in Tasks, s \in EndStatuses \cup {"pending"} : TaskIn(s) \in LeaseSet
      /\ NoTask \notin Tasks /\ Idle \in ExecSet /\ NoChunks \in Chunks
      /\ \A w \in Workers : Ex(w) \in ExecSet
  BY IdleTyped, NoChunksTyped DEF TaskIn, LeaseSet, EndStatuses,
    FileConstants, Ex, Execs
<1>1. CASE Rests
  BY <1>1 DEF Rests
<1>2. ASSUME NEW t \in Tasks, NEW k \in Kinds, Submits(t, k) PROVE Typed'
  BY <1>0, <1>2 DEF Submits
<1>3. ASSUME NEW t \in Tasks, NEW w \in Workers, NEW e \in ExecSet,
             Begins(t, w, e)
      PROVE  Typed'
  <2>1. [st |-> "running", by |-> w, on |-> TRUE] \in LeaseSet
    BY DEF LeaseSet
  <2> QED BY <1>3, <2>1 DEF Begins, ExecBecomes
<1>4. ASSUME NEW t \in Tasks, NEW s \in {"failed", "cancelled"}, GivesUp(t, s)
      PROVE  Typed'
  BY <1>0, <1>4, HookTyped DEF GivesUp, EndStatuses
<1>5. ASSUME NEW t \in Tasks, RunsOut(t) PROVE Typed'
  <2>1. [lease[t] EXCEPT !.on = FALSE] \in LeaseSet
    BY DEF LeaseSet
  <2> QED BY <1>5, <2>1 DEF RunsOut
<1>6. ASSUME NEW w \in Workers, Quits(w) PROVE Typed'
  BY <1>0, <1>6 DEF Quits, ExecBecomes
<1>7. ASSUME NEW w \in Workers, Succeeds(w) PROVE Typed'
  <2>1. Ex(w).at \in Tasks
    BY <1>7 DEF Succeeds, ExecsOK, Looping
  <2> QED BY <1>0, <1>7, <2>1 DEF Succeeds, ExecBecomes, EndStatuses
<1>8. ASSUME NEW w \in Workers, NEW s \in {"failed", "cancelled"}, Fails(w, s)
      PROVE  Typed'
  <2>1. Ex(w).at \in Tasks
    BY <1>8 DEF Fails, ExecsOK
  <2> QED BY <1>0, <1>8, <2>1, HookTyped DEF Fails, ExecBecomes, EndStatuses
<1>9. ASSUME NEW w \in Workers, Stores(w) PROVE Typed'
  <2>1. Ex(w).cur \in Files
    BY <1>9, StoresTyped
  <2>2. PICK r \in FileSet, o \in Chunks, n \in Nat,
             p \in Later :
          Writes(w, r, o, p, n)
    BY <1>9, StoresTyped
  <2>3. [Ex(w) EXCEPT !.pc = p, !.next = n] \in ExecSet
    BY <1>0, <2>2 DEF ExecSet, Later, Working
  <2>4. (Alien[Ex(w).cur] \/ ~Owns(w)) \in BOOLEAN
    OBVIOUS
  <2> QED BY <2>1, <2>2, <2>3, <2>4 DEF Writes, ExecBecomes, FileBecomes
<1>10. ASSUME NEW w \in Workers, Publishes(w) PROVE Typed'
  <2> DEFINE f == Ex(w).cur
             x == Settled(f, "indexed")
  <2>1. f \in Files /\ Ex(w).at \in Tasks /\ Ex(w).upto \in Nat
    BY <1>0, <1>10 DEF Publishes, ExecsOK, Working, ExecSet, FileConstants
  <2>2. x \in FileSet
    BY <2>1, SettledTyped DEF FileStates
  <2> HIDE DEF x
  <2>3. [x EXCEPT !.n = Ex(w).upto] \in FileSet
    BY <2>1, <2>2 DEF FileSet
  <2> QED BY <1>10, <2>1, <2>3, BackTyped
         DEF Publishes, ExecBecomes, FileBecomes, TaskOrNone, x
<1>11. ASSUME NEW w \in Workers, NEW f \in Files,
              Drops(w, f) \/ Adds(w, f) \/ Passes(w, f)
       PROVE  Typed'
  <2>1. /\ [Ex(w) EXCEPT !.todo = @ \ {f}] \in ExecSet
        /\ [Ex(w) EXCEPT !.todo = @ \ {f}, !.carry = @ \cup {f}] \in ExecSet
        /\ [Ex(w) EXCEPT !.todo = @ \ {f}, !.cursor = f] \in ExecSet
    BY <1>0 DEF ExecSet, FileConstants
  <2>2. NewFile("uploaded") \in FileSet
    BY <1>0 DEF NewFile, FileSet, FileStates, TaskOrNone
  <2>3. CASE Drops(w, f)
    BY <2>1, <2>3 DEF Drops, ExecBecomes
  <2>4. CASE Adds(w, f)
    BY <2>1, <2>2, <2>4 DEF Adds, ExecBecomes, FileBecomes
  <2>5. CASE Passes(w, f)
    BY <2>1, <2>5 DEF Passes, ExecBecomes
  <2> QED BY <1>11, <2>3, <2>4, <2>5
<1>12. ASSUME NEW w \in Workers, NEW f \in Files, Claims(w, f) PROVE Typed'
  <2> DEFINE r == [File[f] EXCEPT
                     !.st = IF Ex(w).pc = "parse" THEN "parsing" ELSE "indexing",
                     !.pt = Ex(w).at, !.po = w]
             e == [Ex(w) EXCEPT !.todo = @ \ {f}, !.cursor = f, !.cur = f,
                     !.pc = IF @ = "parse" THEN "convert" ELSE "split"]
             m == [Tries[Ex(w).at] EXCEPT ![f] = Tries[Ex(w).at][f] + 1]
  <2>1. Ex(w).at \in Tasks
    BY <1>12 DEF Claims, ExecsOK
  <2>2. r \in FileSet
    BY <2>1 DEF FileSet, FileStates, InProgress, TaskOrNone
  <2>3. e \in ExecSet
    BY <1>0 DEF ExecSet, FileConstants, Working
  <2>4. m \in [Files -> Nat]
    BY <2>1
  <2> HIDE DEF r, e, m
  <2>5. /\ File' = [File EXCEPT ![f] = r] /\ Execs' = [Execs EXCEPT ![w] = e]
        /\ Tries' = [Tries EXCEPT ![Ex(w).at] = m]
        /\ Alien' = [Alien EXCEPT ![f] = FALSE]
        /\ UNCHANGED <<lease, KindOf, outside, Last>>
    BY <1>12 DEF Claims, FileBecomes, ExecBecomes, r, e, m
  <2> QED BY <2>1, <2>2, <2>3, <2>4, <2>5
<1>13. ASSUME NEW w \in Workers, NEW p \in Looping, NEW T \in SUBSET Files,
              Advances(w, p, T)
       PROVE  Typed'
  <2>1. [Ex(w) EXCEPT !.pc = p, !.todo = T, !.carry = {}] \in ExecSet
    BY <1>0 DEF ExecSet
  <2> QED BY <1>13, <2>1 DEF Advances, ExecBecomes
<1>14. ASSUME NEW w \in Workers, NEW r \in FileSet, NEW e \in ExecSet,
              GivesBack(w, r, e)
       PROVE  Typed'
  BY <1>14 DEF GivesBack, ExecBecomes, FileBecomes
<1>15. ASSUME NEW w \in Workers, NEW n \in 0 .. MaxChunks, Splits(w, n)
       PROVE  Typed'
  <2>1. [Ex(w) EXCEPT !.pc = "wipe_vec", !.upto = n, !.next = 1] \in ExecSet
    BY <1>0 DEF ExecSet, Working
  <2> QED BY <1>15, <2>1 DEF Splits, ExecBecomes
<1>16. ASSUME NEW f \in Files, NEW r \in FileSet, NEW o \in Chunks,
              Meddles(f, r, o)
       PROVE  Typed'
  BY <1>16 DEF Meddles, FileBecomes
<1> QED BY <1>1, <1>2, <1>3, <1>4, <1>5, <1>6, <1>7, <1>8, <1>9, <1>10, <1>11,
           <1>12, <1>13, <1>14, <1>15, <1>16 DEF Shape

\* What an execution may become, other than by taking a task.
ExecOK(e) ==
  /\ e.pc # "idle" => e.at \in Tasks
  /\ e.pc \in Working => e.cur \in Files
  /\ e.pc \in {"store_pg", "store_vec"} => e.next \in 1 .. e.upto

ExecMoves(w) ==
  \/ Execs'[w] = Execs[w]
  \/ Execs'[w] = Idle
  \/ /\ Ex(w).pc # "idle" /\ Execs'[w].pc # "idle"
     /\ Execs'[w].at = Execs[w].at /\ ExecOK(Execs'[w])

LEMMA ExecsMove ==
  ASSUME FileConstants, FileInv, Shape,
         ~\E t \in Tasks, w \in Workers, e \in ExecSet : Begins(t, w, e)
  PROVE  \A w \in Workers : ExecMoves(w)
<1> USE DEF FileInv
<1>0. /\ Execs \in [Workers -> ExecSet]
      /\ \A w \in Workers : Ex(w) = Execs[w] /\ ExecOK(Execs[w])
  BY DEF Typed, Ex, Execs, ExecsOK, ExecOK
<1> DEFINE Goal == \A w \in Workers : ExecMoves(w)
<1>1. ASSUME Execs' = Execs PROVE Goal
  BY <1>1 DEF ExecMoves
<1>2. ASSUME NEW w \in Workers, ExecBecomes(w, Idle) PROVE Goal
  BY <1>0, <1>2 DEF ExecBecomes, ExecMoves
<1>3. ASSUME NEW w \in Workers, NEW e, ExecBecomes(w, e), Ex(w).pc # "idle",
             e.pc # "idle", e.at = Ex(w).at, ExecOK(e)
      PROVE  Goal
  BY <1>0, <1>3 DEF ExecBecomes, ExecMoves
<1> HIDE DEF Goal
<1>4. CASE \/ Rests \/ \E t \in Tasks, k \in Kinds : Submits(t, k)
           \/ \E t \in Tasks, s \in {"failed", "cancelled"} : GivesUp(t, s)
           \/ \E t \in Tasks : RunsOut(t)
           \/ \E f \in Files, r \in FileSet, o \in Chunks : Meddles(f, r, o)
  BY <1>1, <1>4 DEF Rests, Submits, GivesUp, RunsOut, Meddles, Goal
<1>5. CASE \E w \in Workers : \/ Quits(w) \/ Succeeds(w)
                              \/ \E s \in {"failed", "cancelled"} : Fails(w, s)
  BY <1>2, <1>5 DEF Quits, Succeeds, Fails, Goal
<1>6. ASSUME NEW w \in Workers, Stores(w) PROVE Goal
  <2>1. PICK r \in FileSet, o \in Chunks, n \in Nat, p \in Later :
          /\ Writes(w, r, o, p, n)
          /\ p \in {"store_pg", "store_vec"} => n \in 1 .. Ex(w).upto
    BY <1>6, StoresTyped
  <2> DEFINE e == [Ex(w) EXCEPT !.pc = p, !.next = n]
  <2>2. /\ e.pc = p /\ e.next = n /\ e.at = Ex(w).at /\ e.cur = Ex(w).cur
        /\ e.upto = Ex(w).upto
    BY <1>0 DEF ExecSet
  <2>3. Ex(w).pc # "idle" /\ Ex(w).at \in Tasks /\ Ex(w).cur \in Files
    BY <1>0, <1>6, StoresTyped DEF ExecOK, Working
  <2>4. ExecBecomes(w, e)
    BY <2>1 DEF Writes
  <2> HIDE DEF e
  <2> QED BY <1>3, <2>1, <2>2, <2>3, <2>4 DEF ExecOK, Later
<1>7. ASSUME NEW w \in Workers, Publishes(w) PROVE Goal
  <2>1. Ex(w).pc # "idle" /\ Ex(w).at \in Tasks
    BY <1>0, <1>7 DEF Publishes, ExecOK
  <2> QED BY <1>3, <1>7, <2>1, BackTyped DEF Publishes, ExecOK, Working
<1>8. ASSUME NEW w \in Workers, NEW f \in Files,
             Drops(w, f) \/ Adds(w, f) \/ Passes(w, f)
      PROVE  Goal
  <2>1. PICK e \in {[Ex(w) EXCEPT !.todo = @ \ {f}],
                    [Ex(w) EXCEPT !.todo = @ \ {f}, !.carry = @ \cup {f}],
                    [Ex(w) EXCEPT !.todo = @ \ {f}, !.cursor = f]} :
          ExecBecomes(w, e)
    BY <1>8 DEF Drops, Adds, Passes
  <2>2. e.pc = Ex(w).pc /\ e.at = Ex(w).at
    BY <1>0, <2>1 DEF ExecSet
  <2>3. Ex(w).pc \in {"add", "parse", "index"}
    BY <1>8 DEF Drops, Adds, Passes
  <2> QED BY <1>0, <1>3, <2>1, <2>2, <2>3 DEF ExecOK, Working
<1>9. ASSUME NEW w \in Workers, NEW f \in Files, Claims(w, f) PROVE Goal
  <2> DEFINE e == [Ex(w) EXCEPT !.todo = @ \ {f}, !.cursor = f, !.cur = f,
                     !.pc = IF @ = "parse" THEN "convert" ELSE "split"]
  <2>1. e.pc \in {"convert", "split"} /\ e.at = Ex(w).at /\ e.cur = f
    BY <1>0 DEF ExecSet
  <2>2. ExecBecomes(w, e) /\ Ex(w).pc \in {"parse", "index"}
    BY <1>9 DEF Claims
  <2> HIDE DEF e
  <2> QED BY <1>0, <1>3, <2>1, <2>2 DEF ExecOK, Working
<1>10. ASSUME NEW w \in Workers, NEW p \in Looping, NEW T \in SUBSET Files,
              Advances(w, p, T)
       PROVE  Goal
  <2> DEFINE e == [Ex(w) EXCEPT !.pc = p, !.todo = T, !.carry = {}]
  <2>1. e.pc = p /\ e.at = Ex(w).at
    BY <1>0 DEF ExecSet
  <2>2. ExecBecomes(w, e) /\ Ex(w).pc \in Looping
    BY <1>10 DEF Advances
  <2> HIDE DEF e
  <2> QED BY <1>0, <1>3, <2>1, <2>2 DEF ExecOK, Working, Looping
<1>11. ASSUME NEW w \in Workers, NEW r \in FileSet, NEW e \in ExecSet,
              GivesBack(w, r, e)
       PROVE  Goal
  <2>1. Ex(w).pc \in Working /\ e.pc \in {"parse", "index", "cancelled"}
    BY <1>11 DEF GivesBack, Owns
  <2> QED BY <1>0, <1>3, <1>11, <2>1 DEF GivesBack, ExecOK, Working
<1>12. ASSUME NEW w \in Workers, NEW n \in 0 .. MaxChunks, Splits(w, n)
       PROVE  Goal
  <2> DEFINE e == [Ex(w) EXCEPT !.pc = "wipe_vec", !.upto = n, !.next = 1]
  <2>1. e.pc = "wipe_vec" /\ e.at = Ex(w).at /\ e.cur = Ex(w).cur
    BY <1>0 DEF ExecSet
  <2>2. ExecBecomes(w, e) /\ Ex(w).pc = "split"
    BY <1>12 DEF Splits
  <2> HIDE DEF e
  <2> QED BY <1>0, <1>3, <2>1, <2>2 DEF ExecOK, Working
<1> QED BY <1>4, <1>5, <1>6, <1>7, <1>8, <1>9, <1>10, <1>11, <1>12
       DEF Shape, Goal

LEMMA ExecsKept ==
  ASSUME FileConstants, FileInv, Shape
  PROVE  ExecsOK'
<1> USE DEF FileInv
<1>0. Execs' \in [Workers -> ExecSet]
  BY TypedKept DEF Typed
<1>1. ASSUME \A w \in Workers : ExecOK(Execs'[w]) PROVE ExecsOK'
  BY <1>1 DEF ExecsOK, ExecOK, Ex, Execs
<1>2. \A w \in Workers : ExecOK(Execs[w])
  BY DEF ExecsOK, ExecOK, Ex, Execs
<1>3. ExecOK(Idle)
  BY DEF ExecOK, Idle, Working
<1>4. ASSUME NEW t \in Tasks, NEW w \in Workers, NEW e \in ExecSet,
             Begins(t, w, e)
      PROVE  ExecsOK'
  <2>1. e.at = t /\ e.pc \in {"add", "parse", "index", "list"}
    BY <1>4 DEF Begins
  <2>2. ExecOK(e)
    BY <2>1 DEF ExecOK, Working
  <2>3. \A v \in Workers : Execs'[v] = Execs[v] \/ Execs'[v] = e
    BY <1>4 DEF Begins, ExecBecomes, Typed
  <2> QED BY <1>1, <1>2, <2>2, <2>3
<1>5. CASE ~\E t \in Tasks, w \in Workers, e \in ExecSet : Begins(t, w, e)
  BY <1>1, <1>2, <1>3, <1>5, ExecsMove DEF ExecMoves
<1> QED BY <1>4, <1>5

\* What happens to the lease of a task.
LeaseMoves(t) ==
  \/ lease'[t].st = lease[t].st /\ KindOf'[t] = KindOf[t]
  \/ /\ lease[t].st = "absent" /\ lease'[t].st = "pending"
     /\ KindOf'[t] \in Kinds
  \/ /\ lease[t].st = "pending" /\ lease'[t].st = "running"
     /\ KindOf'[t] = KindOf[t]
  \/ /\ lease[t].st \in {"pending", "running"} /\ lease'[t].st \in EndStatuses
     /\ KindOf'[t] = KindOf[t]

LEMMA LeasesMove ==
  ASSUME FileConstants, FileInv, Shape
  PROVE  \A t \in Tasks : LeaseMoves(t)
<1> USE DEF FileInv
<1>0. /\ lease \in [Tasks -> LeaseSet]
      /\ KindOf \in [Tasks -> Kinds \cup {"none"}]
  BY DEF Typed
<1>1. CASE lease' = lease /\ KindOf' = KindOf
  BY <1>1 DEF LeaseMoves
<1>2. ASSUME NEW t \in Tasks, NEW k \in Kinds, Submits(t, k)
      PROVE  \A o \in Tasks : LeaseMoves(o)
  BY <1>0, <1>2 DEF Submits, LeaseMoves, TaskIn
<1>3. ASSUME NEW t \in Tasks, NEW w \in Workers, NEW e \in ExecSet,
             Begins(t, w, e)
      PROVE  \A o \in Tasks : LeaseMoves(o)
  BY <1>0, <1>3 DEF Begins, LeaseMoves
<1>4. ASSUME NEW t \in Tasks, NEW s \in EndStatuses,
             lease[t].st \in {"pending", "running"},
             lease' = [lease EXCEPT ![t] = TaskIn(s)], KindOf' = KindOf
      PROVE  \A o \in Tasks : LeaseMoves(o)
  BY <1>0, <1>4 DEF LeaseMoves, TaskIn
<1>5. ASSUME NEW w \in Workers,
             Succeeds(w) \/ \E s \in {"failed", "cancelled"} : Fails(w, s)
      PROVE  \A o \in Tasks : LeaseMoves(o)
  <2>1. Ex(w).at \in Tasks /\ lease[Ex(w).at].st = "running"
    BY <1>5 DEF Succeeds, Fails, ExecsOK, Looping, HoldsLease
  <2> QED BY <1>4, <1>5, <2>1 DEF Succeeds, Fails, EndStatuses
<1>6. ASSUME NEW t \in Tasks, NEW s \in {"failed", "cancelled"}, GivesUp(t, s)
      PROVE  \A o \in Tasks : LeaseMoves(o)
  BY <1>4, <1>6 DEF GivesUp, Unheld, EndStatuses
<1>7. ASSUME NEW t \in Tasks, RunsOut(t)
      PROVE  \A o \in Tasks : LeaseMoves(o)
  BY <1>0, <1>7 DEF RunsOut, LeaseMoves, LeaseSet
<1>8. ASSUME NEW w \in Workers, Stores(w)
      PROVE  lease' = lease /\ KindOf' = KindOf
  BY <1>8 DEF Stores, Writes
<1> QED BY <1>1, <1>2, <1>3, <1>5, <1>6, <1>7, <1>8
       DEF Shape, Rests, Quits, Publishes, Drops, Adds, Passes, Claims,
           Advances, GivesBack, Splits, Meddles

LEMMA OneExecutionKept ==
  ASSUME FileConstants, FileInv, Shape
  PROVE  OneExecution'
<1> USE DEF FileInv
<1>0. /\ \A w \in Workers : Ex(w) = Execs[w] /\ Ex(w)' = Execs'[w]
      /\ Execs' \in [Workers -> ExecSet] /\ ExecsOK'
      /\ Idle.pc = "idle"
  BY TypedKept, ExecsKept DEF Typed, Ex, Execs, Idle
<1>1. \A t \in Tasks : LeaseMoves(t)
  BY LeasesMove
<1>2. \A t \in Tasks : (lease[t].st # "absent" => KindOf[t] \in Kinds)'
  BY <1>1 DEF LeaseMoves, OneExecution
<1>3. \A t \in Tasks : lease[t].st \notin {"absent", "pending"} =>
                         lease'[t].st \notin {"absent", "pending"}
  BY <1>1 DEF LeaseMoves, EndStatuses
<1>4. ASSUME NEW t \in Tasks, NEW w \in Workers, NEW e \in ExecSet,
             Begins(t, w, e)
      PROVE  OneExecution'
  <2>1. Execs' = [Execs EXCEPT ![w] = e] /\ e.at = t
    BY <1>4 DEF Begins, ExecBecomes
  <2>2. lease[t].st = "pending" /\ lease'[t].st = "running"
    BY <1>4 DEF Begins, Typed
  <2>3. \A v \in Workers \ {w} : Ex(v)' = Ex(v) /\ (Ex(v).pc # "idle" =>
                                                      Ex(v).at # t)
    BY <1>0, <2>1, <2>2 DEF OneExecution, Typed
  <2>4. Ex(w)'.at = t
    BY <1>0, <2>1 DEF Typed
  <2> QED BY <1>0, <1>2, <1>3, <2>2, <2>3, <2>4 DEF OneExecution, ExecsOK
<1>5. CASE ~\E t \in Tasks, w \in Workers, e \in ExecSet : Begins(t, w, e)
  <2>1. \A v \in Workers : Ex(v)'.pc # "idle" =>
          Ex(v).pc # "idle" /\ Ex(v)'.at = Ex(v).at
    BY <1>0, <1>5, ExecsMove DEF ExecMoves
  <2> QED BY <1>0, <1>2, <1>3, <2>1 DEF OneExecution, ExecsOK
<1> QED BY <1>4, <1>5

\* What happens to the row of a file.
SameHands(f) == /\ File'[f].st = File[f].st /\ File'[f].pt = File[f].pt
                /\ File'[f].po = File[f].po
Freed(f) == File'[f].st \notin InProgress /\ File'[f].pt = NoTask
FileMoves(f) == SameHands(f) \/ Freed(f) \/ \E w \in Workers : Claims(w, f)

LEMMA HookMoves ==
  ASSUME Typed, NEW t \in Tasks, File' = HookFiles(t)
  PROVE  \A f \in Files : IF SettledBy(t, f) THEN Freed(f) ELSE SameHands(f)
BY HookTyped DEF SameHands, Freed, InProgress

LEMMA OthersStay ==
  ASSUME FileInv, NEW f \in Files, NEW r, FileBecomes(f, r)
  PROVE  /\ File'[f] = r
         /\ \A o \in Files \ {f} : File'[o] = File[o] /\ SameHands(o)
BY DEF FileInv, Typed, FileBecomes, SameHands

LEMMA PublishedRow ==
  ASSUME FileConstants, FileInv, NEW w \in Workers, Publishes(w)
  PROVE  /\ Ex(w).cur \in Files /\ Ex(w).at \in Tasks /\ Ex(w).upto \in Nat
         /\ File'[Ex(w).cur].st = "indexed"
         /\ File'[Ex(w).cur].pt = NoTask
         /\ File'[Ex(w).cur].n = Ex(w).upto
         /\ File'[Ex(w).cur].pg = File[Ex(w).cur].pg
<1> DEFINE f == Ex(w).cur
           x == Settled(f, "indexed")
<1>1. f \in Files /\ Ex(w).at \in Tasks /\ Ex(w).upto \in Nat
  BY DEF FileInv, Typed, Ex, Execs, ExecSet, Publishes, ExecsOK, Working,
    FileConstants
<1>2. /\ x \in FileSet /\ x.st = "indexed" /\ x.pt = NoTask
      /\ x.pg = File[f].pg
  BY <1>1, SettledTyped DEF FileStates, FileInv
<1>3. File'[f] = [x EXCEPT !.n = Ex(w).upto]
  BY <1>1, OthersStay DEF Publishes
<1> HIDE DEF x
<1> QED BY <1>1, <1>2, <1>3 DEF FileSet

LEMMA FilesMove ==
  ASSUME FileConstants, FileInv, Shape
  PROVE  \A f \in Files : FileMoves(f)
<1> USE DEF FileInv
<1>1. CASE File' = File
  BY <1>1 DEF FileMoves, SameHands
<1>2. ASSUME NEW t \in Tasks, File' = HookFiles(t)
      PROVE  \A f \in Files : FileMoves(f)
  BY <1>2, HookMoves DEF FileMoves
<1>3. ASSUME NEW w \in Workers, NEW s \in {"failed", "cancelled"}, Fails(w, s)
      PROVE  \A f \in Files : FileMoves(f)
  BY <1>2, <1>3 DEF Fails, ExecsOK
<1>4. ASSUME NEW w \in Workers, Stores(w)
      PROVE  \A f \in Files : FileMoves(f)
  <2>1. PICK r \in FileSet, o \in Chunks, n \in Nat, p \in Later :
          /\ Writes(w, r, o, p, n)
          /\ r.st = St(Ex(w).cur) /\ r.pt = File[Ex(w).cur].pt
          /\ r.po = File[Ex(w).cur].po
    BY <1>4, StoresTyped
  <2>2. Ex(w).cur \in Files /\ FileBecomes(Ex(w).cur, r)
    BY <1>4, <2>1, StoresTyped DEF Writes
  <2> QED BY <2>1, <2>2, OthersStay DEF FileMoves, SameHands, St, File
<1>5. ASSUME NEW w \in Workers, Publishes(w)
      PROVE  \A f \in Files : FileMoves(f)
  BY <1>5, PublishedRow, OthersStay DEF Publishes, FileMoves, Freed, InProgress
<1>6. ASSUME NEW w \in Workers, NEW f \in Files, Adds(w, f)
      PROVE  \A o \in Files : FileMoves(o)
  <2>1. NewFile("uploaded").st = "uploaded" /\ NewFile("uploaded").pt = NoTask
    BY DEF NewFile
  <2> QED BY <1>6, <2>1, OthersStay DEF Adds, FileMoves, Freed, InProgress
<1>7. ASSUME NEW w \in Workers, NEW f \in Files, Claims(w, f)
      PROVE  \A o \in Files : FileMoves(o)
  BY <1>7, OthersStay DEF Claims, FileMoves
<1>8. ASSUME NEW w \in Workers, NEW r \in FileSet, NEW e \in ExecSet,
             GivesBack(w, r, e)
      PROVE  \A o \in Files : FileMoves(o)
  <2>1. Ex(w).cur \in Files
    BY <1>8 DEF GivesBack, Owns, ExecsOK
  <2> QED BY <1>8, <2>1, OthersStay DEF GivesBack, FileMoves, Freed
<1>9. ASSUME NEW f \in Files, NEW r \in FileSet, NEW o \in Chunks,
             Meddles(f, r, o)
      PROVE  \A g \in Files : FileMoves(g)
  BY <1>9, OthersStay DEF Meddles, FileMoves, SameHands, Freed, St, File,
    InProgress
<1>10. ASSUME NEW t \in Tasks, NEW s \in {"failed", "cancelled"}, GivesUp(t, s)
       PROVE  \A f \in Files : FileMoves(f)
  BY <1>2, <1>10 DEF GivesUp
<1> QED BY <1>1, <1>3, <1>4, <1>5, <1>6, <1>7, <1>8, <1>9, <1>10
       DEF Shape, Rests, Submits, Begins, RunsOut, Quits, Succeeds, Drops,
           Passes, Advances, Splits

\* A claimed file.
LEMMA ClaimedRow ==
  ASSUME FileConstants, FileInv, NEW w \in Workers, NEW f \in Files,
         Claims(w, f)
  PROVE  /\ Ex(w).at \in Tasks
         /\ File'[f].st = IF Ex(w).pc = "parse" THEN "parsing" ELSE "indexing"
         /\ File'[f].pt = Ex(w).at /\ File'[f].po = w
         /\ Execs'[w].pc = IF Ex(w).pc = "parse" THEN "convert" ELSE "split"
         /\ Execs'[w].at = Ex(w).at /\ Execs'[w].cur = f
         /\ Execs'[w].cursor = f /\ Execs'[w].todo = Ex(w).todo \ {f}
         /\ \A v \in Workers \ {w} : Execs'[v] = Execs[v]
<1> USE DEF FileInv
<1>1. Ex(w) = Execs[w] /\ Ex(w) \in ExecSet /\ File[f] \in FileSet
  BY DEF Ex, Execs, Typed
<1>2. Ex(w).at \in Tasks
  BY DEF Claims, ExecsOK
<1>3. File'[f] = [File[f] EXCEPT
        !.st = IF Ex(w).pc = "parse" THEN "parsing" ELSE "indexing",
        !.pt = Ex(w).at, !.po = w]
  BY OthersStay DEF Claims
<1>4. /\ Execs'[w] = [Ex(w) EXCEPT !.todo = @ \ {f}, !.cursor = f, !.cur = f,
            !.pc = IF @ = "parse" THEN "convert" ELSE "split"]
      /\ \A v \in Workers \ {w} : Execs'[v] = Execs[v]
  BY DEF Claims, ExecBecomes, Typed
<1>5. /\ File'[f].st = IF Ex(w).pc = "parse" THEN "parsing" ELSE "indexing"
      /\ File'[f].pt = Ex(w).at /\ File'[f].po = w
  BY <1>1, <1>3 DEF FileSet
<1>6. /\ Execs'[w].pc = IF Ex(w).pc = "parse" THEN "convert" ELSE "split"
      /\ Execs'[w].at = Ex(w).at /\ Execs'[w].cur = f
      /\ Execs'[w].cursor = f /\ Execs'[w].todo = Ex(w).todo \ {f}
  BY <1>1, <1>4 DEF ExecSet
<1> QED BY <1>2, <1>4, <1>5, <1>6

\* A file in progress, as InProgressIsOwned says of each.
OwnedRow(f) ==
  IF File[f].st \in InProgress
    THEN /\ File[f].pt # NoTask /\ lease[File[f].pt].st = "running"
         /\ lease[File[f].pt].by = File[f].po
    ELSE File[f].pt = NoTask

LEMMA OwnedKept ==
  ASSUME FileConstants, FileInv, Shape
  PROVE  InProgressIsOwned'
<1> USE DEF FileInv
<1>0. /\ InProgressIsOwned <=> \A f \in Files : OwnedRow(f)
      /\ InProgressIsOwned' <=> \A f \in Files : OwnedRow(f)'
  BY DEF InProgressIsOwned, OwnedRow, St, File
<1> SUFFICES ASSUME NEW f \in Files PROVE OwnedRow(f)'
  BY <1>0
<1>1. FileMoves(f) /\ OwnedRow(f)
  BY <1>0, FilesMove
<1>2. CASE Freed(f)
  BY <1>2 DEF Freed, OwnedRow
<1>3. ASSUME NEW w \in Workers, Claims(w, f) PROVE OwnedRow(f)'
  <2>1. lease[Ex(w).at].st = "running" /\ lease[Ex(w).at].by = w /\ lease' = lease
    BY <1>3 DEF Claims, HoldsLease
  <2> QED BY <1>3, <2>1, ClaimedRow DEF OwnedRow, InProgress, FileConstants
<1>4. CASE SameHands(f) /\ ~Freed(f)
  <2> DEFINE t == File[f].pt
  <2>1. CASE File[f].st \notin InProgress
    BY <1>1, <1>4, <2>1 DEF SameHands, OwnedRow
  <2>2. CASE File[f].st \in InProgress
    <3>1. t \in Tasks /\ lease[t].st = "running" /\ lease[t].by = File[f].po
      BY <1>1, <2>2 DEF OwnedRow, Typed, FileSet, TaskOrNone
    <3>2. SUFFICES lease'[t].st = "running" /\ lease'[t].by = lease[t].by
      BY <1>1, <1>4, <2>2, <3>1 DEF SameHands, OwnedRow
    <3>3. ASSUME NEW o \in Tasks, NEW k \in Kinds, Submits(o, k)
          PROVE  lease'[t].st = "running" /\ lease'[t].by = lease[t].by
      BY <3>1, <3>3 DEF Submits, Typed
    <3>4. ASSUME NEW o \in Tasks, NEW w \in Workers, NEW e \in ExecSet,
                 Begins(o, w, e)
          PROVE  lease'[t].st = "running" /\ lease'[t].by = lease[t].by
      BY <3>1, <3>4 DEF Begins, Typed
    <3>5. ASSUME NEW o \in Tasks, RunsOut(o)
          PROVE  lease'[t].st = "running" /\ lease'[t].by = lease[t].by
      BY <3>1, <3>5 DEF RunsOut, Typed, LeaseSet
    <3>6. ASSUME NEW o \in Tasks, NEW s, File' = HookFiles(o),
                 lease' = [lease EXCEPT ![o] = TaskIn(s)]
          PROVE  lease'[t].st = "running" /\ lease'[t].by = lease[t].by
      <4>1. ~SettledBy(o, f)
        BY <1>4, <3>6, HookMoves
      <4>2. o # t
        BY <2>2, <4>1 DEF SettledBy, St, File
      <4> QED BY <3>1, <3>6, <4>2 DEF Typed
    <3>7. ASSUME NEW w \in Workers, NEW s \in {"failed", "cancelled"},
                 Fails(w, s)
          PROVE  lease'[t].st = "running" /\ lease'[t].by = lease[t].by
      BY <3>6, <3>7 DEF Fails, ExecsOK
    <3>8. ASSUME NEW o \in Tasks, NEW s \in {"failed", "cancelled"},
                 GivesUp(o, s)
          PROVE  lease'[t].st = "running" /\ lease'[t].by = lease[t].by
      BY <3>6, <3>8 DEF GivesUp
    <3>9. ASSUME NEW w \in Workers, Succeeds(w)
          PROVE  lease'[t].st = "running" /\ lease'[t].by = lease[t].by
      <4>1. /\ Ex(w).pc \in Looping /\ Ex(w).pc # "idle"
            /\ Ex(w).pc \notin Working
            /\ lease[Ex(w).at].by = w
        BY <3>9 DEF Succeeds, HoldsLease, Looping, Working
      <4>2. t # Ex(w).at
        BY <2>2, <3>1, <4>1 DEF AtWork, St, File
      <4> QED BY <3>1, <3>9, <4>2 DEF Succeeds, Typed
    <3>10. ASSUME NEW w \in Workers, Stores(w)
           PROVE  lease' = lease
      BY <3>10 DEF Stores, Writes
    <3> QED BY <3>1, <3>3, <3>4, <3>5, <3>7, <3>8, <3>9, <3>10
           DEF Shape, Rests, Quits, Publishes, Drops, Adds, Passes, Claims,
               Advances, GivesBack, Splits, Meddles
  <2> QED BY <2>1, <2>2
<1> QED BY <1>1, <1>2, <1>3, <1>4 DEF FileMoves

LEMMA AtWorkKept ==
  ASSUME FileConstants, FileInv, Shape
  PROVE  AtWork'
<1> USE DEF FileInv
<1>0. /\ \A w \in Workers : Ex(w) = Execs[w] /\ Ex(w)' = Execs'[w]
      /\ \A f \in Files : St(f) = File[f].st /\ St(f)' = File'[f].st
      /\ Execs \in [Workers -> ExecSet]
  BY DEF Ex, Execs, St, File, Typed
<1> SUFFICES ASSUME NEW f \in Files, NEW w \in Workers,
                    File'[f].st \in InProgress, File'[f].po = w,
                    File'[f].pt = Execs'[w].at, Execs'[w].pc # "idle"
             PROVE  Execs'[w].pc \in Working /\ Execs'[w].cur = f
  BY <1>0 DEF AtWork
<1>1. ASSUME NEW v \in Workers, Claims(v, f)
      PROVE  Execs'[w].pc \in Working /\ Execs'[w].cur = f
  BY <1>1, ClaimedRow DEF Working
<1>2. CASE SameHands(f) /\ ~\E v \in Workers : Claims(v, f)
  <2>1. File[f].st \in InProgress /\ File[f].po = w /\ File[f].pt = Execs'[w].at
    BY <1>2 DEF SameHands
  <2>2. lease[File[f].pt].st = "running"
    BY <1>0, <2>1 DEF InProgressIsOwned, St, File
  <2>3. ASSUME NEW t \in Tasks, NEW v \in Workers, NEW e \in ExecSet,
               Begins(t, v, e)
        PROVE  Execs'[w] = Execs[w]
    <3>1. Execs' = [Execs EXCEPT ![v] = e] /\ e.at = t /\ lease[t].st = "pending"
      BY <2>3 DEF Begins, ExecBecomes
    <3> QED BY <1>0, <2>1, <2>2, <3>1
  <2>4. ASSUME Ex(w).pc # "idle", Execs'[w].at = Execs[w].at
        PROVE  Ex(w).pc \in Working /\ Ex(w).cur = f
    BY <1>0, <2>1, <2>4 DEF AtWork
  <2>5. CASE Execs'[w] = Execs[w]
    BY <1>0, <2>4, <2>5
  <2>6. CASE Execs'[w] # Execs[w]
    <3>1. Ex(w).pc # "idle" /\ Execs'[w].at = Execs[w].at
      BY <2>3, <2>6, ExecsMove DEF ExecMoves, Idle
    <3>2. Ex(w).pc \in Working /\ Ex(w).cur = f /\ Ex(w).pc \notin Looping
      BY <2>4, <3>1 DEF Working, Looping
    <3>3. ASSUME NEW v \in Workers, NEW e, ExecBecomes(v, e)
          PROVE  v = w /\ Execs'[w] = e
      BY <1>0, <2>6, <3>3 DEF ExecBecomes
    <3>4. ~Freed(f)
      BY DEF Freed
    <3>5. ASSUME NEW v \in Workers, Stores(v)
          PROVE  Execs'[w].pc \in Working /\ Execs'[w].cur = f
      <4>1. PICK r \in FileSet, o \in Chunks, n \in Nat, p \in Later :
              Writes(v, r, o, p, n)
        BY <3>5, StoresTyped
      <4>2. v = w /\ Execs'[w] = [Ex(w) EXCEPT !.pc = p, !.next = n]
        BY <3>3, <4>1 DEF Writes
      <4>3. Execs'[w].pc = p /\ Execs'[w].cur = Ex(w).cur
        BY <1>0, <4>2 DEF ExecSet
      <4> QED BY <3>2, <4>1, <4>3 DEF Working, Later
    <3>6. ASSUME NEW v \in Workers, NEW n \in 0 .. MaxChunks, Splits(v, n)
          PROVE  Execs'[w].pc \in Working /\ Execs'[w].cur = f
      <4>1. v = w /\ Execs'[w] = [Ex(w) EXCEPT !.pc = "wipe_vec", !.upto = n,
                                               !.next = 1]
        BY <3>3, <3>6 DEF Splits
      <4>2. Execs'[w].pc = "wipe_vec" /\ Execs'[w].cur = Ex(w).cur
        BY <1>0, <4>1 DEF ExecSet
      <4> QED BY <3>2, <4>2 DEF Working
    <3>7. ASSUME NEW v \in Workers, NEW r \in FileSet, NEW e \in ExecSet,
                 GivesBack(v, r, e)
          PROVE  FALSE
      <4>1. v = w /\ FileBecomes(f, r) /\ r.st \notin InProgress
        BY <3>2, <3>3, <3>7 DEF GivesBack
      <4> QED BY <4>1, OthersStay
    <3>8. ASSUME NEW v \in Workers, Publishes(v) PROVE FALSE
      <4>1. v = w
        BY <3>3, <3>8 DEF Publishes
      <4> QED BY <3>2, <3>8, <4>1, PublishedRow DEF InProgress
    <3>9. ASSUME NEW v \in Workers, NEW o \in Files,
                 Drops(v, o) \/ Adds(v, o) \/ Passes(v, o) \/ Claims(v, o)
          PROVE  FALSE
      <4>1. v = w /\ Ex(v).pc \in Looping
        BY <3>3, <3>9 DEF Drops, Adds, Passes, Claims, Looping
      <4> QED BY <3>2, <4>1
    <3>10. ASSUME NEW v \in Workers, NEW p \in Looping, NEW T \in SUBSET Files,
                  Advances(v, p, T)
           PROVE  FALSE
      <4>1. v = w /\ Ex(v).pc \in Looping
        BY <3>3, <3>10 DEF Advances
      <4> QED BY <3>2, <4>1
    <3>11. ASSUME NEW v \in Workers, ExecBecomes(v, Idle) PROVE FALSE
      BY <3>3, <3>11 DEF Idle
    <3> QED BY <2>3, <2>6, <3>5, <3>6, <3>7, <3>8, <3>9, <3>10, <3>11
           DEF Shape, Rests, Submits, GivesUp, RunsOut, Quits, Succeeds,
               Fails, Meddles
  <2> QED BY <2>5, <2>6
<1> QED BY <1>1, <1>2, FilesMove DEF FileMoves, Freed

LEMMA ChunkFacts ==
  ASSUME FileConstants, NEW t
  PROVE  /\ FirstChunks(t, 0) = NoChunks
         /\ \A n \in 1 .. MaxChunks :
              [FirstChunks(t, n - 1) EXCEPT ![n] = t] = FirstChunks(t, n)
<1>1. FirstChunks(t, 0) = NoChunks
  BY DEF FirstChunks, NoChunks, FileConstants
<1>2. ASSUME NEW n \in 1 .. MaxChunks
      PROVE  [FirstChunks(t, n - 1) EXCEPT ![n] = t] = FirstChunks(t, n)
  <2>1. MaxChunks \in Nat /\ n \in Nat
    BY DEF FileConstants
  <2>2. ASSUME NEW i \in 1 .. MaxChunks
        PROVE  [FirstChunks(t, n - 1) EXCEPT ![n] = t][i] = FirstChunks(t, n)[i]
    <3>1. CASE i = n
      BY <2>1, <3>1 DEF FirstChunks
    <3>2. CASE i # n
      <4>1. i <= n - 1 <=> i <= n
        BY <2>1, <3>2
      <4> QED BY <3>2, <4>1 DEF FirstChunks
    <3> QED BY <3>1, <3>2
  <2> QED BY <2>2 DEF FirstChunks
<1> QED BY <1>1, <1>2

\* Who may have changed a file that nobody foreign wrote to.
Untouched(f) == /\ File'[f] = File[f] /\ outside'[f] = outside[f]
                /\ ~Alien[f] /\ Last'[f] = Last[f]

LEMMA WrittenBy ==
  ASSUME FileConstants, FileInv, Shape, NEW f \in Files, ~Alien'[f]
  PROVE  \/ Untouched(f)
         \/ \E w \in Workers :
              \/ Claims(w, f)
              \/ Stores(w) /\ Ex(w).cur = f /\ Owns(w) /\ ~Alien[f]
              \/ Publishes(w) /\ Ex(w).cur = f /\ ~Alien[f]
         \/ Freed(f) /\ File'[f].st # "indexed"
<1> USE DEF FileInv, Unmarked
<1> DEFINE Goal ==
      \/ Untouched(f)
      \/ \E w \in Workers :
           \/ Claims(w, f)
           \/ Stores(w) /\ Ex(w).cur = f /\ Owns(w) /\ ~Alien[f]
           \/ Publishes(w) /\ Ex(w).cur = f /\ ~Alien[f]
      \/ Freed(f) /\ File'[f].st # "indexed"
<1>1. ASSUME File'[f] = File[f], outside' = outside, Last' = Last,
             Alien' = Alien
      PROVE  Goal
  BY <1>1 DEF Untouched
<1>2. ASSUME NEW t \in Tasks, File' = HookFiles(t), outside' = outside,
             Last' = Last, Alien' = Alien
      PROVE  Goal
  <2>1. CASE SettledBy(t, f)
    BY <1>2, <2>1, HookTyped DEF Freed, InProgress
  <2>2. CASE ~SettledBy(t, f)
    BY <1>1, <1>2, <2>2, HookTyped
  <2> QED BY <2>1, <2>2
<1>3. ASSUME NEW w \in Workers, NEW s \in {"failed", "cancelled"}, Fails(w, s)
      PROVE  Goal
  BY <1>2, <1>3 DEF Fails, ExecsOK
<1>4. ASSUME NEW t \in Tasks, NEW s \in {"failed", "cancelled"}, GivesUp(t, s)
      PROVE  Goal
  BY <1>2, <1>4 DEF GivesUp
<1>5. ASSUME NEW w \in Workers, Stores(w) PROVE Goal
  <2>1. PICK r \in FileSet, o \in Chunks, n \in Nat, p \in Later :
          Writes(w, r, o, p, n)
    BY <1>5, StoresTyped
  <2>2. Ex(w).cur \in Files
    BY <1>5, StoresTyped
  <2>3. CASE Ex(w).cur = f
    <3>1. Alien'[f] = (Alien[f] \/ ~Owns(w))
      BY <2>1, <2>3 DEF Writes, Typed
    <3> QED BY <1>5, <2>3, <3>1
  <2>4. CASE Ex(w).cur # f
    <3>1. /\ File'[f] = File[f] /\ outside'[f] = outside[f]
          /\ Alien'[f] = Alien[f] /\ Last' = Last
      BY <2>1, <2>2, <2>4 DEF Writes, FileBecomes, Typed
    <3> QED BY <3>1 DEF Untouched
  <2> QED BY <2>3, <2>4
<1>6. ASSUME NEW w \in Workers, Publishes(w) PROVE Goal
  <2>1. Ex(w).cur \in Files
    BY <1>6, PublishedRow
  <2>2. CASE Ex(w).cur = f
    BY <1>6, <2>2 DEF Publishes
  <2>3. CASE Ex(w).cur # f
    <3>1. /\ File'[f] = File[f] /\ outside'[f] = outside[f]
          /\ Alien' = Alien /\ Last'[f] = Last[f]
      BY <1>6, <2>1, <2>3 DEF Publishes, FileBecomes, Typed
    <3> QED BY <3>1 DEF Untouched
  <2> QED BY <2>2, <2>3
<1>7. ASSUME NEW w \in Workers, NEW o \in Files, Adds(w, o) PROVE Goal
  <2>1. NewFile("uploaded").st = "uploaded" /\ NewFile("uploaded").pt = NoTask
    BY DEF NewFile
  <2>2. CASE o = f
    BY <1>7, <2>1, <2>2, OthersStay DEF Adds, Freed, InProgress
  <2>3. CASE o # f
    BY <1>1, <1>7, <2>3, OthersStay DEF Adds
  <2> QED BY <2>2, <2>3
<1>8. ASSUME NEW w \in Workers, NEW o \in Files, Claims(w, o) PROVE Goal
  <2>1. CASE o = f
    BY <1>8, <2>1
  <2>2. CASE o # f
    <3>1. /\ File'[f] = File[f] /\ outside' = outside
          /\ Alien'[f] = Alien[f] /\ Last' = Last
      BY <1>8, <2>2, OthersStay DEF Claims, Typed
    <3> QED BY <3>1 DEF Untouched
  <2> QED BY <2>1, <2>2
<1>9. ASSUME NEW w \in Workers, NEW r \in FileSet, NEW e \in ExecSet,
             GivesBack(w, r, e)
      PROVE  Goal
  <2>1. Ex(w).cur \in Files
    BY <1>9 DEF GivesBack, Owns, ExecsOK
  <2>2. CASE Ex(w).cur = f
    BY <1>9, <2>1, <2>2, OthersStay DEF GivesBack, Freed
  <2>3. CASE Ex(w).cur # f
    BY <1>1, <1>9, <2>1, <2>3, OthersStay DEF GivesBack
  <2> QED BY <2>2, <2>3
<1>10. ASSUME NEW g \in Files, NEW r \in FileSet, NEW o \in Chunks,
              Meddles(g, r, o)
       PROVE  Goal
  <2>1. g # f
    BY <1>10 DEF Meddles, Typed
  <2>2. /\ File'[f] = File[f] /\ outside'[f] = outside[f]
        /\ Alien'[f] = Alien[f] /\ Last' = Last
    BY <1>10, <2>1 DEF Meddles, FileBecomes, Typed
  <2> QED BY <2>2 DEF Untouched
<1> HIDE DEF Goal
<1>11. CASE \/ Rests \/ \E t \in Tasks, k \in Kinds : Submits(t, k)
            \/ \E t \in Tasks, w \in Workers, e \in ExecSet : Begins(t, w, e)
            \/ \E t \in Tasks : RunsOut(t)
            \/ \E w \in Workers :
                 \/ Quits(w) \/ Succeeds(w)
                 \/ \E o \in Files : Drops(w, o) \/ Passes(w, o)
                 \/ \E p \in Looping, T \in SUBSET Files : Advances(w, p, T)
                 \/ \E n \in 0 .. MaxChunks : Splits(w, n)
  <2>1. File' = File /\ outside' = outside /\ Last' = Last /\ Alien' = Alien
    BY <1>11 DEF Rests, Submits, Begins, RunsOut, Quits, Succeeds, Drops,
      Passes, Advances, Splits
  <2> QED BY <1>1, <2>1 DEF Goal
<1> QED BY <1>3, <1>4, <1>5, <1>6, <1>7, <1>8, <1>9, <1>10, <1>11
       DEF Shape, Goal

\* An execution gets to the stores only by way of the stores.
LEMMA OnlyStores ==
  ASSUME FileConstants, FileInv, Shape, NEW w \in Workers,
         Execs'[w] # Execs[w], Execs'[w].pc \in Later
  PROVE  Stores(w)
<1> USE DEF FileInv
<1>0. /\ Execs \in [Workers -> ExecSet] /\ Ex(w) = Execs[w]
      /\ Ex(w) \in ExecSet
  BY DEF Typed, Ex, Execs
<1>1. ASSUME NEW v \in Workers, NEW e, ExecBecomes(v, e)
      PROVE  v = w /\ Execs'[w] = e
  BY <1>0, <1>1 DEF ExecBecomes
<1>2. ASSUME NEW e, Execs'[w] = e, e.pc \notin Later PROVE FALSE
  BY <1>2
<1>3. CASE Execs' = Execs
  BY <1>3
<1>4. ASSUME NEW v \in Workers, ExecBecomes(v, Idle) PROVE FALSE
  BY <1>1, <1>4 DEF Idle, Later
<1>5. ASSUME NEW v \in Workers, Stores(v) PROVE v = w
  BY <1>1, <1>5, StoresTyped DEF Writes
<1>6. ASSUME NEW v \in Workers, Publishes(v) PROVE FALSE
  BY <1>1, <1>6, BackTyped DEF Publishes, Later
<1>7. ASSUME NEW v \in Workers, NEW o \in Files,
             Drops(v, o) \/ Adds(v, o) \/ Passes(v, o)
      PROVE  FALSE
  <2>1. /\ v = w /\ Ex(w).pc \in {"add", "parse", "index"}
        /\ Execs'[w] \in {[Ex(w) EXCEPT !.todo = @ \ {o}],
                 [Ex(w) EXCEPT !.todo = @ \ {o}, !.carry = @ \cup {o}],
                 [Ex(w) EXCEPT !.todo = @ \ {o}, !.cursor = o]}
    BY <1>1, <1>7 DEF Drops, Adds, Passes
  <2>2. Execs'[w].pc = Ex(w).pc
    BY <1>0, <2>1 DEF ExecSet
  <2> QED BY <2>1, <2>2 DEF Later
<1>8. ASSUME NEW v \in Workers, NEW o \in Files, Claims(v, o) PROVE FALSE
  <2>1. v = w
    BY <1>1, <1>8 DEF Claims
  <2> QED BY <1>8, <2>1, ClaimedRow DEF Later
<1>9. ASSUME NEW v \in Workers, NEW p \in Looping, NEW T \in SUBSET Files,
             Advances(v, p, T)
      PROVE  FALSE
  <2>1. Execs'[w] = [Ex(w) EXCEPT !.pc = p, !.todo = T, !.carry = {}]
    BY <1>1, <1>9 DEF Advances
  <2>2. Execs'[w].pc = p
    BY <1>0, <2>1 DEF ExecSet
  <2> QED BY <2>2 DEF Later, Looping
<1>10. ASSUME NEW v \in Workers, NEW r \in FileSet, NEW e \in ExecSet,
              GivesBack(v, r, e)
       PROVE  FALSE
  BY <1>1, <1>10 DEF GivesBack, Later
<1>11. ASSUME NEW v \in Workers, NEW n \in 0 .. MaxChunks, Splits(v, n)
       PROVE  FALSE
  <2>1. Execs'[w] = [Ex(w) EXCEPT !.pc = "wipe_vec", !.upto = n, !.next = 1]
    BY <1>1, <1>11 DEF Splits
  <2>2. Execs'[w].pc = "wipe_vec"
    BY <1>0, <2>1 DEF ExecSet
  <2> QED BY <2>2 DEF Later
<1>12. ASSUME NEW t \in Tasks, NEW v \in Workers, NEW e \in ExecSet,
              Begins(t, v, e)
       PROVE  FALSE
  BY <1>1, <1>12 DEF Begins, Later
<1> QED BY <1>3, <1>4, <1>5, <1>6, <1>7, <1>8, <1>9, <1>10, <1>11, <1>12
       DEF Shape, Rests, Submits, GivesUp, RunsOut, Quits, Succeeds, Fails,
           Meddles

\* How far execution e of file f, with chunks pg and vectors vec, has come.
FarAs(e, pg, vec) ==
  /\ e.pc \in {"wipe_pg", "wipe_count"} => vec = FirstChunks(e.at, 0)
  /\ e.pc = "wipe_count" => pg = FirstChunks(e.at, 0)
  /\ e.pc = "store_pg" => /\ pg = FirstChunks(e.at, e.next - 1)
                          /\ vec = FirstChunks(e.at, e.next - 1)
  /\ e.pc = "store_vec" => /\ pg = FirstChunks(e.at, e.next)
                           /\ vec = FirstChunks(e.at, e.next - 1)
  /\ e.pc = "publish" => /\ pg = FirstChunks(e.at, e.upto)
                         /\ vec = FirstChunks(e.at, e.upto)

LEMMA ProgressKept ==
  ASSUME FileConstants, FileInv, Shape
  PROVE  Progress'
<1> USE DEF FileInv
<1>0. /\ \A w \in Workers : Ex(w) = Execs[w] /\ Ex(w)' = Execs'[w]
      /\ \A f \in Files : St(f) = File[f].st /\ St(f)' = File'[f].st
      /\ Execs \in [Workers -> ExecSet] /\ File \in [Files -> FileSet]
  BY DEF Ex, Execs, St, File, Typed
<1> SUFFICES ASSUME NEW f \in Files, NEW w \in Workers,
                    File'[f].st = "indexing", ~Alien'[f], File'[f].po = w,
                    File'[f].pt = Execs'[w].at, Execs'[w].cur = f
             PROVE  FarAs(Execs'[w], File'[f].pg, outside'[f])
  BY <1>0 DEF Progress, FarAs
<1>1. CASE Execs'[w].pc \notin Later
  BY <1>1 DEF FarAs, Later
<1>2. CASE Execs'[w].pc \in Later
  <2>1. ASSUME NEW v \in Workers, Claims(v, f) PROVE FALSE
    BY <1>2, <2>1, ClaimedRow DEF Later
  <2>2. ASSUME NEW v \in Workers, Publishes(v), Ex(v).cur = f PROVE FALSE
    BY <2>2, PublishedRow
  <2>3. ~Freed(f)
    BY DEF Freed, InProgress
  <2>4. SameHands(f)
    BY <2>1, <2>3, FilesMove DEF FileMoves
  <2>5. ASSUME ~Alien[f], File[f].pt = Execs[w].at, Execs[w].cur = f
        PROVE  FarAs(Execs[w], File[f].pg, outside[f])
    BY <1>0, <2>4, <2>5 DEF SameHands, Progress, FarAs
  <2>6. ASSUME NEW v \in Workers, Stores(v), Ex(v).cur = f, Owns(v) PROVE v = w
    BY <2>4, <2>6 DEF Owns, OwnsFile, SameHands, File
  <2>7. CASE Untouched(f) /\ Execs'[w] = Execs[w]
    BY <2>5, <2>7 DEF Untouched
  <2>8. CASE Stores(w) /\ Ex(w).cur = f /\ ~Alien[f]
    <3> DEFINE t == Ex(w).at
               n == Ex(w).next
    <3>1. Ex(w) \in ExecSet /\ n \in Nat /\ Ex(w).upto \in 0 .. MaxChunks
      BY <1>0 DEF ExecSet
    <3>2. ASSUME NEW r, NEW o, NEW p, NEW m, Writes(w, r, o, p, m)
          PROVE  /\ Execs'[w].pc = p /\ Execs'[w].next = m
                 /\ Execs'[w].at = t /\ Execs'[w].upto = Ex(w).upto
                 /\ File'[f] = r /\ outside'[f] = o
      <4>1. /\ Execs'[w] = [Ex(w) EXCEPT !.pc = p, !.next = m]
            /\ File'[f] = r /\ outside'[f] = o
        BY <1>0, <2>8, <3>2 DEF Writes, ExecBecomes, FileBecomes, Typed
      <4> QED BY <3>1, <4>1 DEF ExecSet
    <3>3. FarAs(Ex(w), File[f].pg, outside[f])
      <4>1. Stores(w) => \E r, o, p, m : Writes(w, r, o, p, m)
        BY StoresTyped
      <4>2. Execs'[w].at = t
        BY <2>8, <3>2, <4>1
      <4> QED BY <1>0, <2>4, <2>5, <2>8, <4>2 DEF SameHands
    <3>4. \A x \in FileSet, c \in Chunks : [x EXCEPT !.pg = c].pg = c
      BY DEF FileSet
    <3>5. File[f] \in FileSet /\ [File[f] EXCEPT !.n = 0].pg = File[f].pg
      BY <1>0 DEF FileSet
    <3>6. CASE Ex(w).pc = "wipe_vec"
      <4>1. Writes(w, File[f], NoChunks, "wipe_pg", 1)
        BY <2>8, <3>6 DEF Stores
      <4> QED BY <3>2, <4>1, ChunkFacts DEF FarAs
    <3>7. CASE Ex(w).pc = "wipe_pg"
      <4> DEFINE x == [File[f] EXCEPT !.pg = NoChunks]
      <4>1. Writes(w, x, outside[f], "wipe_count", 1) /\ x.pg = NoChunks
        BY <2>8, <3>4, <3>5, <3>7, NoChunksTyped DEF Stores
      <4> HIDE DEF x
      <4>2. File'[f].pg = NoChunks /\ outside'[f] = FirstChunks(t, 0)
        BY <3>2, <3>3, <3>7, <4>1 DEF FarAs
      <4> QED BY <3>2, <4>1, <4>2, ChunkFacts DEF FarAs
    <3>8. CASE Ex(w).pc = "wipe_count"
      <4> DEFINE x == [File[f] EXCEPT !.n = 0]
      <4>1. Writes(w, x, outside[f], ToStore(w, 1), 1) /\ x.pg = File[f].pg
        BY <2>8, <3>5, <3>8 DEF Stores
      <4> HIDE DEF x
      <4>2. File'[f].pg = FirstChunks(t, 0) /\ outside'[f] = FirstChunks(t, 0)
        BY <3>2, <3>3, <3>8, <4>1 DEF FarAs
      <4>3. /\ Execs'[w].pc = ToStore(w, 1) /\ Execs'[w].next = 1
            /\ Execs'[w].at = t /\ Execs'[w].upto = Ex(w).upto
        BY <3>2, <4>1
      <4>4. CASE 1 <= Ex(w).upto
        BY <4>2, <4>3, <4>4 DEF ToStore, FarAs
      <4>5. CASE Ex(w).upto = 0
        BY <4>2, <4>3, <4>5 DEF ToStore, FarAs
      <4> QED BY <3>1, <4>4, <4>5 DEF FileConstants
    <3>9. CASE Ex(w).pc = "store_pg"
      <4> DEFINE c == [File[f].pg EXCEPT ![n] = t]
             x == [File[f] EXCEPT !.pg = c]
      <4>1. Writes(w, x, outside[f], "store_vec", n)
        BY <2>8, <3>9 DEF Stores
      <4>2. n \in 1 .. MaxChunks
        BY <3>1, <3>9 DEF ExecsOK, FileConstants
      <4>3. c = FirstChunks(t, n) /\ outside[f] = FirstChunks(t, n - 1)
        BY <3>3, <3>9, <4>2, ChunkFacts DEF FarAs
      <4>4. x.pg = c
        BY <3>5 DEF FileSet
      <4> HIDE DEF c, x
      <4> QED BY <3>2, <4>1, <4>3, <4>4 DEF FarAs
    <3>10. CASE Ex(w).pc = "store_vec"
      <4> DEFINE o == [outside[f] EXCEPT ![n] = t]
      <4>1. Writes(w, File[f], o, ToStore(w, n + 1), n + 1)
        BY <2>8, <3>10 DEF Stores
      <4>2. n \in 1 .. MaxChunks /\ n <= Ex(w).upto
        BY <3>1, <3>10 DEF ExecsOK, FileConstants
      <4>3. o = FirstChunks(t, n) /\ File[f].pg = FirstChunks(t, n)
        BY <3>3, <3>10, <4>2, ChunkFacts DEF FarAs
      <4> HIDE DEF o
      <4>4. /\ Execs'[w].pc = ToStore(w, n + 1) /\ Execs'[w].next = n + 1
            /\ Execs'[w].at = t /\ Execs'[w].upto = Ex(w).upto
            /\ File'[f].pg = FirstChunks(t, n)
            /\ outside'[f] = FirstChunks(t, n)
        BY <3>2, <4>1, <4>3
      <4>5. CASE n + 1 <= Ex(w).upto
        <5>1. (n + 1) - 1 = n
          BY <3>1
        <5> QED BY <4>4, <4>5, <5>1 DEF ToStore, FarAs
      <4>6. CASE ~(n + 1 <= Ex(w).upto)
        <5>1. n = Ex(w).upto
          BY <3>1, <4>2, <4>6 DEF FileConstants
        <5> QED BY <4>4, <4>6, <5>1 DEF ToStore, FarAs
      <4> QED BY <4>5, <4>6
    <3> QED BY <2>8, <3>6, <3>7, <3>8, <3>9, <3>10 DEF Stores
  <2>9. CASE Execs'[w] # Execs[w]
    <3>1. Stores(w)
      BY <1>2, <2>9, OnlyStores
    <3>2. Ex(w).cur = f
      <4>1. PICK r \in FileSet, o \in Chunks, n \in Nat, p \in Later :
              Writes(w, r, o, p, n)
        BY <3>1, StoresTyped
      <4>2. Execs'[w] = [Ex(w) EXCEPT !.pc = p, !.next = n]
        BY <1>0, <4>1 DEF Writes, ExecBecomes
      <4> QED BY <1>0, <4>2 DEF ExecSet
    <3>3. ~Alien[f]
      <4>1. PICK r, o, p, n : Writes(w, r, o, p, n)
        BY <3>1, StoresTyped
      <4>2. Alien'[f] = (Alien[f] \/ ~Owns(w))
        BY <3>2, <4>1 DEF Writes, Typed
      <4> QED BY <4>2
    <3> QED BY <2>8, <3>1, <3>2, <3>3
  <2> QED BY <2>1, <2>2, <2>3, <2>6, <2>7, <2>8, <2>9, WrittenBy
<1> QED BY <1>1, <1>2

LEMMA IndexedKept ==
  ASSUME FileConstants, FileInv, Shape
  PROVE  IndexedIsComplete'
<1> USE DEF FileInv
<1>0. /\ \A w \in Workers : Ex(w) = Execs[w] /\ Ex(w)' = Execs'[w]
      /\ \A f \in Files : St(f) = File[f].st /\ St(f)' = File'[f].st
  BY DEF Ex, Execs, St, File
<1> SUFFICES ASSUME NEW f \in Files, File'[f].st = "indexed", ~Alien'[f]
             PROVE  /\ File'[f].pg = FirstChunks(Last'[f], File'[f].n)
                    /\ outside'[f] = File'[f].pg
  BY DEF IndexedIsComplete, FirstChunks, St, File, Last, Alien
<1>1. CASE Untouched(f)
  BY <1>1 DEF Untouched, IndexedIsComplete, FirstChunks, St, File, Last, Alien
<1>2. ASSUME NEW w \in Workers, Claims(w, f) PROVE FALSE
  BY <1>2, ClaimedRow
<1>3. ASSUME NEW w \in Workers, Stores(w), Ex(w).cur = f, Owns(w) PROVE FALSE
  <2>1. St(f) \in InProgress
    BY <1>3 DEF Owns, OwnsFile, Doing, InProgress
  <2>2. PICK r \in FileSet, o \in Chunks, n \in Nat, p \in Later :
          Writes(w, r, o, p, n) /\ r.st = St(f)
    BY <1>3, StoresTyped
  <2>3. File'[f].st = St(f)
    BY <1>3, <2>2, OthersStay DEF Writes
  <2> QED BY <2>1, <2>3 DEF InProgress
<1>4. ASSUME NEW w \in Workers, Publishes(w), Ex(w).cur = f, ~Alien[f]
      PROVE  /\ File'[f].pg = FirstChunks(Last'[f], File'[f].n)
             /\ outside'[f] = File'[f].pg
  <2>1. St(f) = "indexing" /\ File[f].pt = Ex(w).at /\ File[f].po = w
    BY <1>4 DEF Publishes, Owns, OwnsFile, Doing, File
  <2>2. /\ File[f].pg = FirstChunks(Ex(w).at, Ex(w).upto)
        /\ outside[f] = FirstChunks(Ex(w).at, Ex(w).upto)
    BY <1>4, <2>1 DEF Progress, Publishes
  <2>3. Last'[f] = Ex(w).at /\ outside' = outside
    BY <1>4 DEF Publishes, Typed
  <2> QED BY <1>4, <2>2, <2>3, PublishedRow
<1> QED BY <1>1, <1>2, <1>3, <1>4, WrittenBy

LEMMA TriesMove ==
  ASSUME FileConstants, FileInv, Shape
  PROVE  Tries' = Tries \/ \E w \in Workers, f \in Files : Claims(w, f)
<1>1. ASSUME NEW w \in Workers, Stores(w) PROVE Tries' = Tries
  BY <1>1 DEF Stores, Writes
<1> QED BY <1>1
       DEF Shape, Unmarked, Rests, Submits, Begins, GivesUp, RunsOut, Quits,
           Succeeds, Fails, Publishes, Drops, Adds, Passes, Advances,
           GivesBack, Splits, Meddles

\* A claim counts once, for its task and file.
LEMMA ClaimCounts ==
  ASSUME FileConstants, FileInv, NEW w \in Workers, NEW f \in Files,
         Claims(w, f)
  PROVE  /\ Ex(w).at \in Tasks /\ lease[Ex(w).at].st = "running"
         /\ \A t \in Tasks, g \in Files :
              Tries'[t][g] = IF t = Ex(w).at /\ g = f THEN Tries[t][g] + 1
                             ELSE Tries[t][g]
<1>1. Ex(w).at \in Tasks
  BY ClaimedRow
<1>2. lease[Ex(w).at].st = "running"
  BY DEF Claims, HoldsLease
<1>3. Tries \in [Tasks -> [Files -> Nat]]
  BY DEF FileInv, Typed
<1>4. Tries' = [Tries EXCEPT ![Ex(w).at] =
                  [Tries[Ex(w).at] EXCEPT ![f] = Tries[Ex(w).at][f] + 1]]
  BY DEF Claims
<1> QED BY <1>1, <1>2, <1>3, <1>4

LEMMA UntriedKept ==
  ASSUME FileConstants, FileInv, Shape
  PROVE  Untried'
<1> USE DEF FileInv
<1> SUFFICES ASSUME NEW t \in Tasks, lease'[t].st \in {"absent", "pending"},
                    NEW f \in Files
             PROVE  Tries'[t][f] = 0
  BY DEF Untried
<1>1. lease[t].st \in {"absent", "pending"}
  BY LeasesMove DEF LeaseMoves, EndStatuses
<1>2. Tries[t][f] = 0
  BY <1>1 DEF Untried
<1>3. ASSUME NEW w \in Workers, NEW g \in Files, Claims(w, g)
      PROVE  Tries'[t][f] = 0
  BY <1>1, <1>2, <1>3, ClaimCounts
<1> QED BY <1>2, <1>3, TriesMove

\* How often a task of kind k may have taken a file up by stage p, and an
\* execution that keeps to it with tries T.
LimitOf(p, k) ==
  IF k = "ingest"
    THEN IF p = "add" THEN 0 ELSE IF p \in {"parse", "convert"} THEN 1 ELSE 2
    ELSE 1

BudgetOK(e, k, T) ==
  /\ e.pc = "list" => k \in PendingKinds
  /\ \A f \in Files :
       /\ T[f] <= LimitOf(e.pc, k)
       /\ f \in e.todo /\ e.pc # "add" => T[f] < LimitOf(e.pc, k)
       /\ k \in PendingKinds => /\ T[f] > 0 => f <= e.cursor
                                /\ f \in e.todo => f > e.cursor

LEMMA BudgetIs ==
  Budget <=> \A w \in Workers : Ex(w).pc # "idle" =>
               BudgetOK(Ex(w), KindOf[Ex(w).at], Tries[Ex(w).at])
BY DEF Budget, BudgetOK, Limit, LimitOf, Kind, KindOf

\* An execution that takes up nothing keeps to its budget.
LEMMA SameBudget ==
  ASSUME NEW e, NEW d, NEW k, NEW T \in [Files -> Nat], BudgetOK(e, k, T),
         d.cursor = e.cursor, d.todo \subseteq e.todo, d.pc # "list",
         LimitOf(d.pc, k) = LimitOf(e.pc, k) \/ LimitOf(d.pc, k) = 2,
         d.todo = {} \/ (e.pc = "add" <=> d.pc = "add")
  PROVE  BudgetOK(d, k, T)
<1>1. LimitOf(e.pc, k) \in {0, 1, 2} /\ LimitOf(d.pc, k) \in {0, 1, 2}
  BY DEF LimitOf
<1>2. LimitOf(e.pc, k) <= LimitOf(d.pc, k)
  BY <1>1
<1> SUFFICES ASSUME NEW f \in Files
             PROVE  /\ T[f] <= LimitOf(d.pc, k)
                    /\ f \in d.todo /\ d.pc # "add" => T[f] < LimitOf(d.pc, k)
                    /\ k \in PendingKinds => /\ T[f] > 0 => f <= d.cursor
                                             /\ f \in d.todo => f > d.cursor
  BY DEF BudgetOK
<1>3. /\ T[f] \in Nat /\ T[f] <= LimitOf(e.pc, k)
      /\ f \in e.todo /\ e.pc # "add" => T[f] < LimitOf(e.pc, k)
      /\ k \in PendingKinds => /\ T[f] > 0 => f <= e.cursor
                               /\ f \in e.todo => f > e.cursor
  BY DEF BudgetOK
<1>4. T[f] <= LimitOf(d.pc, k)
  BY <1>1, <1>2, <1>3
<1>5. f \in d.todo /\ d.pc # "add" => T[f] < LimitOf(d.pc, k)
  BY <1>1, <1>2, <1>3
<1> QED BY <1>3, <1>4, <1>5

\* A step after which an execution has taken up no file, or the one it was
\* to take up next.
LEMMA PassBudget ==
  ASSUME FileConstants, NEW e \in ExecSet, NEW d, NEW k, NEW f \in e.todo,
         NEW T \in [Files -> Nat], NEW U \in [Files -> Nat],
         BudgetOK(e, k, T), \A o \in e.todo : f <= o,
         e.pc \in {"parse", "index"}, d.pc \notin {"add", "list"},
         LimitOf(d.pc, k) = LimitOf(e.pc, k),
         d.cursor = f, d.todo = e.todo \ {f},
         U[f] <= T[f] + 1, \A g \in Files \ {f} : U[g] = T[g]
  PROVE  BudgetOK(d, k, U)
<1>1. LimitOf(e.pc, k) \in {0, 1, 2}
  BY DEF LimitOf
<1>2. Files \subseteq Nat /\ e.todo \subseteq Files /\ e.cursor \in Nat
  BY DEF FileConstants, ExecSet
<1> SUFFICES ASSUME NEW g \in Files
             PROVE  /\ U[g] <= LimitOf(d.pc, k)
                    /\ g \in d.todo /\ d.pc # "add" => U[g] < LimitOf(d.pc, k)
                    /\ k \in PendingKinds => /\ U[g] > 0 => g <= d.cursor
                                             /\ g \in d.todo => g > d.cursor
  BY DEF BudgetOK
<1>3. \A h \in Files :
        /\ T[h] \in Nat /\ U[h] \in Nat /\ T[h] <= LimitOf(e.pc, k)
        /\ h \in e.todo => T[h] < LimitOf(e.pc, k)
        /\ k \in PendingKinds => /\ T[h] > 0 => h <= e.cursor
                                 /\ h \in e.todo => h > e.cursor
  BY DEF BudgetOK
<1>4. CASE g = f
  BY <1>1, <1>2, <1>3, <1>4
<1>5. CASE g # f
  <2>1. /\ U[g] <= LimitOf(d.pc, k)
        /\ g \in d.todo => U[g] < LimitOf(d.pc, k)
    BY <1>1, <1>2, <1>3, <1>5
  <2>2. ASSUME k \in PendingKinds, U[g] > 0 PROVE g <= d.cursor
    <3>1. g <= e.cursor /\ e.cursor < f
      BY <1>2, <1>3, <1>5, <2>2
    <3> QED BY <1>2, <3>1
  <2>3. ASSUME g \in d.todo PROVE g > d.cursor
    <3>1. f <= g /\ f \in Nat /\ g \in Nat
      BY <1>2, <2>3
    <3> QED BY <1>5, <3>1
  <2> QED BY <2>1, <2>2, <2>3
<1> QED BY <1>4, <1>5

LEMMA BudgetKept ==
  ASSUME FileConstants, FileInv, Shape
  PROVE  Budget'
<1> USE DEF FileInv
<1>0. /\ \A w \in Workers : Ex(w) = Execs[w] /\ Ex(w)' = Execs'[w]
      /\ Execs \in [Workers -> ExecSet]
      /\ Tries \in [Tasks -> [Files -> Nat]]
      /\ Tries' \in [Tasks -> [Files -> Nat]]
      /\ KindOf \in [Tasks -> Kinds \cup {"none"}]
  BY TypedKept DEF Ex, Execs, Typed
<1>1. Budget' <=> \A w \in Workers : Ex(w)'.pc # "idle" =>
                    BudgetOK(Ex(w)', KindOf'[Ex(w)'.at], Tries'[Ex(w)'.at])
  BY DEF Budget, BudgetOK, Limit, LimitOf, Kind, KindOf
<1> SUFFICES ASSUME NEW w \in Workers, Execs'[w].pc # "idle"
             PROVE  BudgetOK(Execs'[w], KindOf'[Execs'[w].at],
                             Tries'[Execs'[w].at])
  BY <1>0, <1>1
<1> DEFINE d == Execs'[w]
           e == Ex(w)
           t == Ex(w).at
           k == KindOf[Ex(w).at]
           T == Tries[Ex(w).at]
           Goal == BudgetOK(d, KindOf'[d.at], Tries'[d.at])
<1>2. ASSUME e.pc # "idle"
      PROVE  /\ t \in Tasks /\ KindOf'[t] = k /\ BudgetOK(e, k, T)
             /\ T \in [Files -> Nat]
  <2>1. t \in Tasks /\ lease[t].st \notin {"absent", "pending"}
    BY <1>2 DEF ExecsOK, OneExecution
  <2>2. LeaseMoves(t)
    BY <2>1, LeasesMove
  <2> QED BY <1>0, <1>2, <2>1, <2>2, BudgetIs DEF LeaseMoves
<1>3. ASSUME NEW v \in Workers, NEW x, ExecBecomes(v, x), d # e
      PROVE  v = w /\ d = x
  BY <1>0, <1>3 DEF ExecBecomes
<1>4. CASE d = e
  <2>1. d.pc # "idle"
    OBVIOUS
  <2>2. ASSUME NEW v \in Workers, NEW f \in Files, Claims(v, f)
        PROVE  Tries'[t] = T
    <3>1. v # w
      <4>1. Ex(v).pc \in {"parse", "index"}
        BY <2>2 DEF Claims
      <4>2. Execs'[v].pc \in {"convert", "split"}
        BY <2>2, ClaimedRow
      <4> QED BY <1>4, <4>1, <4>2
    <3>2. Ex(v).at # t
      BY <1>4, <2>2, <3>1 DEF Claims, OneExecution
    <3>3. Tries' = [Tries EXCEPT ![Ex(v).at] =
                      [Tries[Ex(v).at] EXCEPT ![f] = Tries[Ex(v).at][f] + 1]]
      BY <2>2 DEF Claims
    <3> QED BY <1>0, <1>2, <1>4, <3>2, <3>3
  <2>3. Tries'[t] = T
    BY <2>2, TriesMove
  <2> QED BY <1>2, <1>4, <2>3
<1>5. CASE d # e
  <2>1. ASSUME e.pc # "idle", d.at = t, Tries' = Tries, d.cursor = e.cursor,
               d.todo \subseteq e.todo, d.pc # "list",
               LimitOf(d.pc, k) = LimitOf(e.pc, k) \/ LimitOf(d.pc, k) = 2,
               d.todo = {} \/ (e.pc = "add" <=> d.pc = "add")
        PROVE  Goal
    <3>1. BudgetOK(d, k, T)
      <4> HIDE DEF d, e, k, T
      <4> QED BY <1>2, <2>1, SameBudget
    <3> QED BY <1>2, <2>1, <3>1
  <2>2. ASSUME NEW o \in Tasks, NEW v \in Workers, NEW x \in ExecSet,
               Begins(o, v, x)
        PROVE  Goal
    <3>1. v = w /\ d = x /\ d.at = o /\ x.cursor = 0
      BY <1>3, <1>5, <2>2 DEF Begins
    <3>2. /\ KindOf[o] \in Kinds /\ KindOf' = KindOf /\ Tries' = Tries
          /\ \A f \in Files : Tries[o][f] = 0
      BY <2>2 DEF Begins, OneExecution, Untried, Unmarked
    <3>3. KindOf[o] \in {"ingest", "parse", "index"} \cup PendingKinds
      BY <3>2 DEF FileConstants
    <3>4. CASE KindOf[o] = "ingest"
      <4>1. x.pc = "add"
        BY <2>2, <3>4 DEF Begins
      <4> QED BY <3>1, <3>2, <3>4, <4>1 DEF BudgetOK, LimitOf, PendingKinds
    <3>5. CASE KindOf[o] \in {"parse", "index"}
      <4>1. x.pc \in {"parse", "index"}
        BY <2>2, <3>5 DEF Begins
      <4> QED BY <3>1, <3>2, <3>5, <4>1 DEF BudgetOK, LimitOf, PendingKinds
    <3>6. CASE KindOf[o] \in PendingKinds
      <4>1. x.pc = "list" /\ x.todo = {}
        BY <2>2, <3>6 DEF Begins, PendingKinds
      <4>2. KindOf[o] # "ingest"
        BY <3>6 DEF PendingKinds
      <4> QED BY <3>1, <3>2, <3>6, <4>1, <4>2 DEF BudgetOK, LimitOf
    <3> QED BY <3>3, <3>4, <3>5, <3>6
  <2>3. ASSUME NEW v \in Workers, NEW f \in Files, Drops(v, f) \/ Adds(v, f)
        PROVE  Goal
    <3>1. v = w /\ d \in {[e EXCEPT !.todo = @ \ {f}],
                          [e EXCEPT !.todo = @ \ {f}, !.carry = @ \cup {f}]}
      BY <1>3, <1>5, <2>3 DEF Drops, Adds
    <3>2. /\ d.at = t /\ d.cursor = e.cursor /\ d.todo = e.todo \ {f}
          /\ d.pc = e.pc
      <4>1. CASE d = [e EXCEPT !.todo = @ \ {f}]
        BY <1>0, <4>1 DEF ExecSet
      <4>2. CASE d = [e EXCEPT !.todo = @ \ {f}, !.carry = @ \cup {f}]
        BY <1>0, <4>2 DEF ExecSet
      <4> QED BY <3>1, <4>1, <4>2
    <3>3. e.pc = "add" /\ Tries' = Tries
      BY <2>3, <3>1 DEF Drops, Adds, Unmarked
    <3> HIDE DEF d, e, k, t, Goal
    <3> QED BY <2>1, <3>2, <3>3
  <2>4. ASSUME NEW v \in Workers, NEW f \in Files, Passes(v, f)
        PROVE  Goal
    <3>1. v = w /\ d = [e EXCEPT !.todo = @ \ {f}, !.cursor = f]
      BY <1>3, <1>5, <2>4 DEF Passes
    <3>2. /\ d.at = t /\ d.cursor = f /\ d.todo = e.todo \ {f}
          /\ d.pc = e.pc
      BY <1>0, <3>1 DEF ExecSet
    <3>3. /\ e \in ExecSet /\ e.pc \in {"parse", "index"} /\ Tries' = Tries
          /\ f \in e.todo /\ \A o \in e.todo : f <= o
      BY <1>0, <2>4, <3>1 DEF Passes, Foremost, Unmarked
    <3>4. T[f] <= T[f] + 1
      <4>1. T[f] \in Nat
        BY <1>2, <3>3
      <4> QED BY <4>1
    <3>5. BudgetOK(d, k, T)
      <4> HIDE DEF d, e, k, T
      <4> QED BY <1>2, <3>2, <3>3, <3>4, PassBudget
    <3> QED BY <1>2, <3>2, <3>3, <3>5
  <2>5. ASSUME NEW v \in Workers, NEW f \in Files, Claims(v, f)
        PROVE  Goal
    <3>1. v = w
      BY <1>3, <1>5, <2>5 DEF Claims
    <3>2. /\ d.at = t /\ d.cursor = f /\ d.todo = e.todo \ {f}
          /\ d.pc = IF e.pc = "parse" THEN "convert" ELSE "split"
      BY <2>5, <3>1, ClaimedRow
    <3>3. /\ e \in ExecSet /\ e.pc \in {"parse", "index"}
          /\ f \in e.todo /\ \A o \in e.todo : f <= o
      BY <1>0, <2>5, <3>1 DEF Claims, Foremost
    <3>4. LimitOf(d.pc, k) = LimitOf(e.pc, k)
      BY <3>2, <3>3 DEF LimitOf
    <3> DEFINE U == Tries'[t]
    <3>5. U[f] = T[f] + 1 /\ \A g \in Files \ {f} : U[g] = T[g]
      BY <1>2, <2>5, <3>1, <3>3, ClaimCounts
    <3>6. U \in [Files -> Nat] /\ U[f] <= T[f] + 1
      BY <1>0, <1>2, <3>3, <3>5
    <3>7. BudgetOK(d, k, U)
      <4>1. d.pc \notin {"add", "list"}
        BY <3>2
      <4>2. e.pc # "idle"
        BY <3>3
      <4> HIDE DEF d, e, k, T, U
      <4> QED BY <1>2, <3>2, <3>3, <3>4, <3>5, <3>6, <4>1, <4>2, PassBudget
    <3> QED BY <1>2, <3>2, <3>3, <3>7
  <2>6. ASSUME NEW v \in Workers, NEW p \in Looping, NEW S \in SUBSET Files,
               Advances(v, p, S)
        PROVE  Goal
    <3>1. v = w /\ d = [e EXCEPT !.pc = p, !.todo = S, !.carry = {}]
      BY <1>3, <1>5, <2>6 DEF Advances
    <3>2. d.at = t /\ d.cursor = e.cursor /\ d.todo = S /\ d.pc = p
      BY <1>0, <3>1 DEF ExecSet
    <3>3. e.pc # "idle" /\ Tries' = Tries
      BY <2>6, <3>1 DEF Advances, Looping, Unmarked
    <3>4. /\ BudgetOK(e, k, T) /\ T \in [Files -> Nat] /\ e.cursor \in Nat
          /\ Files \subseteq Nat
      BY <1>0, <1>2, <3>3 DEF ExecSet, FileConstants
    <3>5. \/ /\ k \in PendingKinds
             /\ \/ p = "list" /\ S = {}
                \/ p \in {"parse", "index"} /\ \A f \in S : f > e.cursor
          \/ /\ k = "ingest"
             /\ \/ e.pc = "add" /\ p = "parse"
                \/ e.pc = "parse" /\ p = "index"
      BY <2>6, <3>1 DEF Advances, Kind, KindOf
    <3>6. BudgetOK(d, k, T)
      <4>1. CASE k \in PendingKinds
        <5>1. k # "ingest"
          BY <4>1 DEF PendingKinds
        <5>2. LimitOf(d.pc, k) = 1 /\ LimitOf(e.pc, k) = 1
          BY <5>1 DEF LimitOf
        <5>3. p # "add" /\ p # "idle"
          BY <3>5, <4>1, <5>1
        <5> HIDE DEF d, e, k, T
        <5>4. ASSUME NEW f \in Files
              PROVE  /\ T[f] <= 1 /\ (T[f] > 0 => f <= e.cursor)
                     /\ f \in S => T[f] < 1 /\ f > e.cursor
          <6>1. T[f] \in Nat /\ T[f] <= 1 /\ (T[f] > 0 => f <= e.cursor)
            BY <3>4, <4>1, <5>2 DEF BudgetOK
          <6>2. f \in S => f > e.cursor
            BY <3>5, <4>1, <5>1
          <6> QED BY <3>4, <6>1, <6>2
        <5> QED BY <3>2, <4>1, <5>2, <5>4 DEF BudgetOK
      <4>2. CASE k = "ingest"
        <5>1. k \notin PendingKinds
          BY <4>2 DEF PendingKinds
        <5>2. \/ LimitOf(e.pc, k) = 0 /\ LimitOf(p, k) = 1
              \/ LimitOf(e.pc, k) = 1 /\ LimitOf(p, k) = 2
          BY <3>5, <4>2, <5>1 DEF LimitOf
        <5>3. p # "list"
          BY <3>5, <5>1
        <5> HIDE DEF d, e, k, T
        <5>4. \A f \in Files : T[f] < LimitOf(p, k) /\ T[f] <= LimitOf(p, k)
          BY <3>4, <5>2 DEF BudgetOK
        <5> QED BY <3>2, <5>1, <5>3, <5>4 DEF BudgetOK
      <4> QED BY <3>5, <4>1, <4>2
    <3> QED BY <1>2, <3>2, <3>3, <3>6
  <2>7. ASSUME NEW v \in Workers, NEW r \in FileSet, NEW x \in ExecSet,
               GivesBack(v, r, x)
        PROVE  Goal
    <3>1. v = w /\ d = x
      BY <1>3, <1>5, <2>7 DEF GivesBack
    <3>2. /\ e.pc \in Working /\ Tries' = Tries /\ d.at = t
          /\ d.cursor = e.cursor
          /\ \/ d.todo = e.todo
                /\ d.pc = IF e.pc = "convert" THEN "parse" ELSE "index"
             \/ d.todo = {} /\ d.pc = "cancelled"
      BY <2>7, <3>1 DEF GivesBack, Owns, Unmarked
    <3>3. LimitOf(d.pc, k) = LimitOf(e.pc, k) \/ LimitOf(d.pc, k) = 2
      BY <3>2 DEF LimitOf, Working
    <3>4. e.pc \notin {"add", "idle"} /\ d.pc \notin {"add", "list"}
      BY <3>2 DEF Working
    <3> HIDE DEF d, e, k, t, Goal
    <3> QED BY <2>1, <3>2, <3>3, <3>4
  <2>8. ASSUME NEW v \in Workers, NEW n \in 0 .. MaxChunks, Splits(v, n)
        PROVE  Goal
    <3>1. v = w /\ d = [e EXCEPT !.pc = "wipe_vec", !.upto = n, !.next = 1]
      BY <1>3, <1>5, <2>8 DEF Splits
    <3>2. /\ d.at = t /\ d.cursor = e.cursor /\ d.todo = e.todo
          /\ d.pc = "wipe_vec"
      BY <1>0, <3>1 DEF ExecSet
    <3>3. e.pc = "split" /\ Tries' = Tries
      BY <2>8, <3>1 DEF Splits, Unmarked
    <3>4. LimitOf(d.pc, k) = LimitOf(e.pc, k)
      BY <3>2, <3>3 DEF LimitOf
    <3> HIDE DEF d, e, k, t, Goal
    <3> QED BY <2>1, <3>2, <3>3, <3>4
  <2>9. ASSUME NEW v \in Workers, Stores(v) PROVE Goal
    <3>1. PICK r \in FileSet, o \in Chunks, n \in Nat, p \in Later :
            Writes(v, r, o, p, n)
      BY <2>9, StoresTyped
    <3>2. v = w /\ d = [e EXCEPT !.pc = p, !.next = n] /\ Tries' = Tries
      BY <1>3, <1>5, <3>1 DEF Writes
    <3>3. d.at = t /\ d.cursor = e.cursor /\ d.todo = e.todo /\ d.pc = p
      BY <1>0, <3>2 DEF ExecSet
    <3>4. e.pc \in Working \ {"convert", "split"}
      BY <2>9, <3>2, StoresTyped
    <3>5. LimitOf(d.pc, k) = LimitOf(e.pc, k)
      BY <3>1, <3>3, <3>4 DEF LimitOf, Working, Later
    <3>6. e.pc \notin {"add", "idle"} /\ d.pc \notin {"add", "list"}
      BY <3>1, <3>3, <3>4 DEF Working, Later
    <3> HIDE DEF d, e, k, t, Goal
    <3> QED BY <2>1, <3>2, <3>3, <3>5, <3>6
  <2>10. ASSUME NEW v \in Workers, Publishes(v) PROVE Goal
    <3>1. v = w /\ d = BackToLoop(w) /\ Tries' = Tries /\ e.pc = "publish"
      BY <1>3, <1>5, <2>10 DEF Publishes
    <3>2. /\ d.at = t /\ d.cursor = e.cursor /\ d.todo = e.todo
          /\ d.pc = "index"
      BY <3>1, BackTyped
    <3>3. LimitOf(d.pc, k) = LimitOf(e.pc, k)
      BY <3>1, <3>2 DEF LimitOf
    <3> HIDE DEF d, e, k, t, Goal
    <3> QED BY <2>1, <3>1, <3>2, <3>3
  <2>11. ASSUME NEW v \in Workers, ExecBecomes(v, Idle) PROVE FALSE
    BY <1>3, <1>5, <2>11 DEF Idle
  <2>12. Execs' # Execs
    BY <1>0, <1>5
  <2> HIDE DEF Goal
  <2>13. Goal
    BY <2>2, <2>3, <2>4, <2>5, <2>6, <2>7, <2>8, <2>9, <2>10, <2>11, <2>12
       DEF Shape, Rests, Submits, GivesUp, RunsOut, Quits, Succeeds, Fails,
           Meddles
  <2> QED BY <2>13 DEF Goal
<1> QED BY <1>4, <1>5

LEMMA TakenUpKept ==
  ASSUME FileConstants, FileInv, Shape
  PROVE  TakenUpOnce'
<1> USE DEF FileInv
<1>0. /\ Tries \in [Tasks -> [Files -> Nat]]
      /\ TakenUpOnce <=> \A t \in Tasks, f \in Files :
           Tries[t][f] <= IF KindOf[t] = "ingest" THEN 2 ELSE 1
      /\ TakenUpOnce' <=> \A t \in Tasks, f \in Files :
           Tries'[t][f] <= IF KindOf'[t] = "ingest" THEN 2 ELSE 1
  BY DEF Typed, TakenUpOnce, Tries, KindOf
<1> SUFFICES ASSUME NEW t \in Tasks, NEW f \in Files
             PROVE  Tries'[t][f] <= IF KindOf'[t] = "ingest" THEN 2 ELSE 1
  BY <1>0
<1>1. CASE Tries'[t][f] = Tries[t][f]
  <2>1. CASE KindOf'[t] = KindOf[t]
    BY <1>0, <1>1, <2>1
  <2>2. CASE KindOf'[t] # KindOf[t]
    <3>1. lease[t].st = "absent"
      BY <2>2, LeasesMove DEF LeaseMoves
    <3>2. Tries[t][f] = 0
      BY <3>1 DEF Untried
    <3> QED BY <1>1, <3>2
  <2> QED BY <2>1, <2>2
<1>2. ASSUME NEW w \in Workers, Claims(w, f), t = Ex(w).at
      PROVE  Tries'[t][f] <= IF KindOf'[t] = "ingest" THEN 2 ELSE 1
  <2>1. Ex(w).pc \in {"parse", "index"} /\ f \in Ex(w).todo /\ KindOf' = KindOf
    BY <1>2 DEF Claims, Foremost
  <2>2. Tries[t][f] < LimitOf(Ex(w).pc, KindOf[t])
    BY <1>2, <2>1, BudgetIs DEF BudgetOK
  <2>3. Tries'[t][f] = Tries[t][f] + 1 /\ Tries[t][f] \in Nat
    BY <1>0, <1>2, ClaimCounts
  <2>4. CASE KindOf[t] = "ingest"
    <3>1. LimitOf(Ex(w).pc, KindOf[t]) \in {1, 2}
      BY <2>1, <2>4 DEF LimitOf
    <3> QED BY <2>1, <2>2, <2>3, <2>4, <3>1
  <2>5. CASE KindOf[t] # "ingest"
    <3>1. LimitOf(Ex(w).pc, KindOf[t]) = 1
      BY <2>5 DEF LimitOf
    <3> QED BY <2>1, <2>2, <2>3, <2>5, <3>1
  <2> QED BY <2>4, <2>5
<1>3. ASSUME NEW w \in Workers, NEW g \in Files, Claims(w, g),
             g # f \/ t # Ex(w).at
      PROVE  Tries'[t][f] = Tries[t][f]
  BY <1>3, ClaimCounts
<1> QED BY <1>1, <1>2, <1>3, TriesMove

-----------------------------------------------------------------------------
(* The invariant, and what follows from it.                                *)

LEMMA InitInv == FileConstants /\ Init => FileInv
<1> SUFFICES ASSUME FileConstants, Init PROVE FileInv
  OBVIOUS
<1>1. PICK s \in [Files -> Before] :
        rows = [file |-> [f \in Files |-> NewFile(s[f])],
                kind |-> [t \in Tasks |-> "none"]]
  BY DEF Init
<1>2. /\ File = [f \in Files |-> NewFile(s[f])]
      /\ KindOf = [t \in Tasks |-> "none"]
      /\ Execs = [w \in Workers |-> Idle]
      /\ Fix = [f \in Files |-> {}]
      /\ Tries = [t \in Tasks |-> [f \in Files |-> 0]]
      /\ Last = [f \in Files |-> NoTask]
      /\ Alien = [f \in Files |-> FALSE]
      /\ lease = [t \in Tasks |-> TaskIn("absent")]
      /\ outside = [f \in Files |-> NoChunks]
  BY <1>1 DEF Init, File, KindOf, Execs, Fix, Tries, Last, Alien
<1>3. Records
  <2>1. RowsRecord
    BY <1>1 DEF RowsRecord, File, KindOf
  <2>2. ProcsRecord
    BY <1>2 DEF Init, ProcsRecord, Execs, Fix
  <2>3. GhostRecord
    BY DEF Init, GhostRecord, Tries, Last, Alien
  <2> QED BY <2>1, <2>2, <2>3 DEF Records
<1>4. ASSUME NEW f \in Files
      PROVE  /\ File[f] = NewFile(s[f]) /\ File[f] \in FileSet
             /\ File[f].st = s[f] /\ s[f] \notin InProgress
             /\ File[f].pt = NoTask /\ File[f].n = 0 /\ File[f].pg = NoChunks
  <2>1. File[f] = NewFile(s[f]) /\ s[f] \in Before
    BY <1>2
  <2>2. /\ NewFile(s[f]) \in FileSet /\ NewFile(s[f]).st = s[f]
        /\ NewFile(s[f]).pt = NoTask /\ NewFile(s[f]).n = 0
        /\ NewFile(s[f]).pg = NoChunks
    BY <2>1, NoChunksTyped DEF NewFile, FileSet, FileStates, TaskOrNone
  <2> QED BY <2>1, <2>2 DEF FileConstants
<1>5. Typed
  <2>1. File \in [Files -> FileSet]
    BY <1>2, <1>4
  <2>2. Execs \in [Workers -> ExecSet] /\ outside \in [Files -> Chunks]
    BY <1>2, IdleTyped, NoChunksTyped
  <2>3. lease \in [Tasks -> LeaseSet]
    BY <1>2 DEF TaskIn, LeaseSet
  <2> QED BY <1>2, <2>1, <2>2, <2>3 DEF Typed, TaskOrNone
<1>6. \A w \in Workers : Ex(w).pc = "idle"
  BY <1>2 DEF Ex, Execs, Idle
<1>7. ExecsOK /\ AtWork
  BY <1>6 DEF ExecsOK, AtWork, Working
<1>8. \A t \in Tasks : lease[t].st = "absent"
  BY <1>2 DEF TaskIn
<1>9. OneExecution
  BY <1>6, <1>8 DEF OneExecution
<1>10. InProgressIsOwned
  BY <1>4 DEF InProgressIsOwned, St, File
<1>11. Progress
  BY <1>6 DEF Progress
<1>12. IndexedIsComplete
  <2>1. ASSUME NEW f \in Files
        PROVE  /\ File[f].pg = FirstChunks(Last[f], File[f].n)
               /\ outside[f] = File[f].pg
    <3>1. FirstChunks(Last[f], 0) = NoChunks
      BY ChunkFacts
    <3> QED BY <1>2, <1>4, <3>1
  <2> QED BY <2>1 DEF IndexedIsComplete, FirstChunks, File, Last
<1>13. Budget
  BY <1>6 DEF Budget
<1>14. Untried
  BY <1>2 DEF Untried
<1>15. TakenUpOnce
  BY <1>2 DEF TakenUpOnce, Tries
<1> QED BY <1>3, <1>5, <1>7, <1>9, <1>10, <1>11, <1>12, <1>13, <1>14, <1>15
       DEF FileInv

LEMMA StepInv == FileConstants /\ FileInv /\ [Next]_vars => FileInv'
<1>1. ASSUME FileConstants, FileInv, Next PROVE FileInv'
  <2>1. Shape /\ Records'
    BY <1>1, StepShape
  <2> QED BY <1>1, <2>1, TypedKept, ExecsKept, OneExecutionKept, OwnedKept,
             AtWorkKept, ProgressKept, IndexedKept, BudgetKept, UntriedKept,
             TakenUpKept
         DEF FileInv
<1>2. ASSUME FileInv, UNCHANGED vars PROVE FileInv'
  <2>1. /\ rows' = rows /\ procs' = procs /\ ghost' = ghost /\ lease' = lease
        /\ outside' = outside
    BY <1>2 DEF vars
  <2>2. /\ File' = File /\ KindOf' = KindOf /\ Execs' = Execs /\ Fix' = Fix
        /\ Tries' = Tries /\ Last' = Last /\ Alien' = Alien
        /\ \A w : Ex(w)' = Ex(w) /\ Kind(w)' = Kind(w)
        /\ \A f : St(f)' = St(f)
    BY <2>1 DEF File, KindOf, Execs, Fix, Tries, Last, Alien, Ex, Kind, St
  <2>3. Records' /\ Typed'
    BY <1>2, <2>1, <2>2 DEF FileInv, Records, RowsRecord, ProcsRecord,
       GhostRecord, Typed
  <2>4. ExecsOK' /\ OneExecution' /\ InProgressIsOwned' /\ AtWork'
    BY <1>2, <2>1, <2>2 DEF FileInv, ExecsOK, OneExecution,
       InProgressIsOwned, AtWork
  <2>5. Progress' /\ IndexedIsComplete' /\ Untried' /\ TakenUpOnce'
    BY <1>2, <2>1, <2>2 DEF FileInv, Progress, IndexedIsComplete, Untried,
       TakenUpOnce
  <2>6. Budget'
    BY <1>2, <2>1, <2>2 DEF FileInv, Budget, Limit
  <2> QED BY <2>3, <2>4, <2>5, <2>6 DEF FileInv
<1> QED BY <1>1, <1>2

\* FileInv holds of the files of a knowledge base in every behaviour.
THEOREM FileInvHolds == FileConstants => (Spec => []FileInv)
<1> SUFFICES ASSUME FileConstants PROVE Spec => []FileInv
  OBVIOUS
<1>1. Init => FileInv
  BY InitInv
<1>2. FileInv /\ [Next]_vars => FileInv'
  BY StepInv
<1> QED BY <1>1, <1>2, PTL DEF Spec

\* No file is left parsing or indexing by a task that is over or that
\* another execution has, for any number of files, tasks and executions.
THEOREM InProgressOwned == FileConstants => (Spec => []InProgressIsOwned)
BY FileInvHolds, PTL DEF FileInv

\* A file marked indexed has exactly the chunks of one indexing in both
\* stores, however long it is and however executions interleave, unless a
\* stale execution, a deletion or a repair wrote in between.
THEOREM IndexedComplete == FileConstants => (Spec => []IndexedIsComplete)
BY FileInvHolds, PTL DEF FileInv

\* A task takes a file up at most once per stage, so that the loop over
\* pending files comes to its end.
THEOREM TakenUpAtMostOnce == FileConstants => (Spec => []TakenUpOnce)
BY FileInvHolds, PTL DEF FileInv

LEMMA FencedKept ==
  ASSUME FileConstants, FileInv, [Next]_vars PROVE [FencedStep]_vars
<1>1. CASE UNCHANGED vars
  BY <1>1
<1>2. CASE Next
  <2> SUFFICES ASSUME NEW f \in Files, File[f].st \in InProgress,
                      File'[f].st \in {"parsed", "indexed", "uploaded"}
               PROVE  HoldsLease(File[f].pt, File[f].po)
    BY DEF FencedStep, St, File
  <2> DEFINE Goal == HoldsLease(File[f].pt, File[f].po)
  <2>1. Shape
    BY <1>2, StepShape
  <2>2. ~SameHands(f)
    BY DEF SameHands, InProgress
  <2>3. ASSUME NEW t \in Tasks, File' = HookFiles(t) PROVE FALSE
    BY <2>2, <2>3, HookTyped, HookMoves DEF FileInv
  <2>4. ASSUME NEW w \in Workers, Owns(w), Ex(w).cur = f PROVE Goal
    BY <2>4 DEF Owns, OwnsFile, File
  <2>5. ASSUME NEW g \in Files, NEW r, FileBecomes(g, r)
        PROVE  g = f /\ File'[f] = r
    BY <2>2, <2>5, OthersStay
  <2>6. ASSUME NEW w \in Workers, Publishes(w) PROVE Goal
    <3>1. Ex(w).cur \in Files
      BY <2>6, PublishedRow
    <3> QED BY <2>4, <2>5, <2>6, <3>1 DEF Publishes
  <2>7. ASSUME NEW w \in Workers, NEW r \in FileSet, NEW e \in ExecSet,
               GivesBack(w, r, e)
        PROVE  Goal
    <3>1. Ex(w).cur \in Files
      BY <2>7 DEF GivesBack, Owns, ExecsOK, FileInv
    <3> QED BY <2>4, <2>5, <2>7, <3>1 DEF GivesBack
  <2>8. ASSUME NEW w \in Workers, NEW g \in Files, Adds(w, g) \/ Claims(w, g)
        PROVE  FALSE
    <3>1. g = f
      BY <2>5, <2>8 DEF Adds, Claims
    <3> QED BY <2>8, <3>1 DEF Adds, Claims, St, File, InProgress
  <2>9. ASSUME NEW w \in Workers, Stores(w) PROVE FALSE
    <3>1. PICK r \in FileSet, o \in Chunks, n \in Nat, p \in Later :
            Writes(w, r, o, p, n) /\ r.st = St(Ex(w).cur)
      BY <2>9, StoresTyped
    <3>2. Ex(w).cur \in Files
      BY <2>9, StoresTyped
    <3>3. Ex(w).cur = f /\ File'[f].st = St(f)
      BY <2>5, <3>1, <3>2 DEF Writes
    <3> QED BY <3>3 DEF St, File, InProgress
  <2>10. ASSUME NEW g \in Files, NEW r \in FileSet, NEW o \in Chunks,
                Meddles(g, r, o)
         PROVE  FALSE
    <3>1. g = f /\ File'[f] = r
      BY <2>5, <2>10 DEF Meddles
    <3> QED BY <2>10, <3>1 DEF Meddles, St, File, InProgress
  <2>11. ASSUME NEW w \in Workers, NEW s \in {"failed", "cancelled"},
                Fails(w, s)
         PROVE  FALSE
    BY <2>3, <2>11 DEF Fails, ExecsOK, FileInv
  <2>12. ASSUME NEW t \in Tasks, NEW s \in {"failed", "cancelled"},
                GivesUp(t, s)
         PROVE  FALSE
    BY <2>3, <2>12 DEF GivesUp
  <2>13. File' # File
    BY <2>2 DEF SameHands
  <2> HIDE DEF Goal
  <2>14. Goal
    BY <2>1, <2>6, <2>7, <2>8, <2>9, <2>10, <2>11, <2>12, <2>13
       DEF Shape, Rests, Submits, Begins, RunsOut, Quits, Succeeds, Drops,
           Passes, Advances, Splits
  <2> QED BY <2>14 DEF Goal
<1> QED BY <1>1, <1>2

\* The status of a file in progress moves forward only by the execution
\* whose lease on the task is running: a late one changes nothing.
THEOREM StatusFenced == FileConstants => (Spec => [][FencedStep]_vars)
<1> SUFFICES ASSUME FileConstants PROVE Spec => [][FencedStep]_vars
  OBVIOUS
<1>1. FileInv /\ [Next]_vars => [FencedStep]_vars
  BY FencedKept
<1> QED BY <1>1, FileInvHolds, PTL DEF Spec

\* The handlers use tasks only as TaskLease allows, which is what
\* DurableTask is shown to implement: a task ends by its holder, or without
\* one once its lease has run out.
THEOREM TasksAsLeased == FileConstants => (Spec => TaskSpec)
<1> SUFFICES ASSUME FileConstants PROVE Spec => TaskSpec
  OBVIOUS
<1>1. Init => TaskInit
  BY DEF Init, TaskInit
<1>2. ASSUME FileInv, [Next]_vars PROVE [TaskNext]_lease
  <2>1. CASE UNCHANGED vars
    BY <2>1 DEF vars
  <2>2. CASE Next
    <3>1. Shape
      BY <1>2, <2>2, StepShape
    <3>2. ASSUME NEW t \in Tasks, NEW k \in Kinds, Submits(t, k)
          PROVE  TaskNext
      BY <3>2 DEF Submits, TaskNext, Submit
    <3>3. ASSUME NEW t \in Tasks, NEW w \in Workers, NEW e \in ExecSet,
                 Begins(t, w, e)
          PROVE  TaskNext
      BY <3>3 DEF Begins, TaskNext, Take
    <3>4. ASSUME NEW t \in Tasks, NEW s \in {"failed", "cancelled"},
                 GivesUp(t, s)
          PROVE  TaskNext
      BY <3>4 DEF GivesUp, TaskNext, GivenUp, Ended
    <3>5. ASSUME NEW w \in Workers, NEW s \in {"failed", "cancelled"},
                 Fails(w, s)
          PROVE  TaskNext
      <4>1. Ex(w).at \in Tasks /\ HolderEnds(Ex(w).at, w, s) /\ s \in EndStatuses
        BY <1>2, <3>5 DEF Fails, HolderEnds, Ended, EndStatuses, FileInv, ExecsOK
      <4> QED BY <4>1 DEF TaskNext
    <3>6. ASSUME NEW w \in Workers, Succeeds(w) PROVE TaskNext
      <4>1. Ex(w).at \in Tasks /\ HolderEnds(Ex(w).at, w, "success")
        BY <1>2, <3>6 DEF Succeeds, HolderEnds, Ended, Looping, FileInv, ExecsOK
      <4> QED BY <4>1 DEF TaskNext, EndStatuses
    <3>7. ASSUME NEW t \in Tasks, RunsOut(t) PROVE TaskNext \/ lease' = lease
      <4>1. lease[t] \in LeaseSet /\ lease \in [Tasks -> LeaseSet]
        BY <1>2 DEF FileInv, Typed
      <4>2. CASE lease[t].on
        <5>1. LeaseRunsOut(t)
          BY <3>7, <4>1, <4>2 DEF RunsOut, LeaseRunsOut
        <5> QED BY <5>1 DEF TaskNext
      <4>3. CASE ~lease[t].on
        <5>1. [lease[t] EXCEPT !.on = FALSE] = lease[t]
          BY <4>1, <4>3 DEF LeaseSet
        <5> QED BY <3>7, <4>1, <5>1 DEF RunsOut
      <4> QED BY <4>2, <4>3
    <3>8. ASSUME NEW w \in Workers, Stores(w) PROVE lease' = lease
      BY <3>8 DEF Stores, Writes
    <3> QED BY <3>1, <3>2, <3>3, <3>4, <3>5, <3>6, <3>7, <3>8
           DEF Shape, Rests, Quits, Publishes, Drops, Adds, Passes, Claims,
               Advances, GivesBack, Splits, Meddles
  <2> QED BY <1>2, <2>1, <2>2
<1> QED BY <1>1, <1>2, FileInvHolds, PTL DEF Spec, TaskSpec

\* What a module that instantiates this one cites.
LEMMA FilesKept ==
  FileConstants =>
    /\ Init => FileInv
    /\ FileInv /\ [Next]_vars => FileInv' /\ [FencedStep]_vars
    /\ FileInv => InProgressIsOwned /\ IndexedIsComplete /\ TakenUpOnce
<1>1. FileInv => InProgressIsOwned /\ IndexedIsComplete /\ TakenUpOnce
  BY DEF FileInv
<1> QED BY <1>1, InitInv, StepInv, FencedKept
=============================================================================
