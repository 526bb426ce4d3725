---------------------------- MODULE KnowledgeTree ----------------------------
(***************************************************************************)
(* The folders of a knowledge base: knowledge/base.py (create_folder,      *)
(* rename_folder, move_file, delete_folder) and the conversion of older    *)
(* path names into folders (knowledge_folder_service.py and                *)
(* knowledge_file_repository.py).                                          *)
(*                                                                         *)
(* Moves and the conversion hold the advisory lock of the tree; creating,  *)
(* renaming and deleting do not.  The foreign key of parent_id refuses a   *)
(* parent that is gone and empties the parent_id of a deleted folder's     *)
(* children.  A name is a sequence of segments: of one, or of several for  *)
(* a file of an older release.                                             *)
(***************************************************************************)
EXTENDS Naturals, Sequences, FiniteSets

CONSTANTS Workers,  \* requests under way
          NoOne,    \* no record: the root
          Tree,     \* the records at the beginning
          Order,    \* the ids of its files, in their order
          New,      \* ids of folders to come
          Renames,  \* names folders are given
          Moves,    \* files and folders that are moved
          MaxMoves, \* bound on their number: a deletion lists folders anew
          Converts  \* whether the conversion runs

VARIABLES
  rows,    \* file: the records
  procs,   \* per request: its step, its record, the new parent, what it has
           \*   still to delete; of the conversion: its cursor in Order
  outside, \* lock: the advisory lock of the tree
  ghost    \* path: where each file belongs; renamed: a folder was renamed or
           \*   deleted while the conversion was about to use it; used: ids
           \*   that are taken, for ever; moves: those begun

vars == <<rows, procs, outside, ghost>>

Ids == DOMAIN Tree \cup New
NoFile == [there |-> FALSE, folder |-> FALSE, parent |-> NoOne, name |-> <<>>]
Idle == [at |-> "idle", id |-> NoOne, to |-> NoOne, todo |-> <<>>,
         cursor |-> 0, progress |-> FALSE]

There(i) == i \in Ids /\ rows.file[i].there
Folder(i) == There(i) /\ rows.file[i].folder
Parent(i) == rows.file[i].parent
Children(i) == {c \in Ids : There(c) /\ Parent(c) = i}

\* The ancestors of a record, itself first, up to the root or as many as there
\* are records.
Up(f, i) ==
  LET up[n \in 0..Cardinality(Ids)] ==
        IF n = 0 THEN i
        ELSE IF up[n - 1] \in Ids THEN f[up[n - 1]].parent ELSE NoOne
  IN {up[n] : n \in 0..Cardinality(Ids)}

\* The path of a file from the root, as the document list shows it.
Path(f, i) ==
  LET up[n \in 0..Cardinality(Ids)] ==
        IF n = 0 THEN [at |-> i, path |-> <<>>]
        ELSE LET u == up[n - 1] IN
             IF u.at \in Ids
             THEN [at |-> f[u.at].parent, path |-> f[u.at].name \o u.path] ELSE u
  IN up[Cardinality(Ids)].path
Paths(f) == [i \in {j \in Ids : f[j].there /\ ~f[j].folder} |-> Path(f, i)]

Init ==
  /\ rows = [file |-> [i \in Ids |-> IF i \in DOMAIN Tree THEN Tree[i] ELSE NoFile]]
  /\ procs = [w \in Workers |-> Idle]
  /\ outside = [lock |-> NoOne]
  /\ ghost = [path |-> Paths(rows.file), renamed |-> FALSE, used |-> {}, moves |-> 0]

At(w, at) == procs[w].at = at
Sets(f) == rows' = [rows EXCEPT !.file = f]
Goes(w, p) == procs' = [procs EXCEPT ![w] = p]
\* Users see the tree as this step leaves it.
Seen == ghost' = [ghost EXCEPT !.path = Paths(rows'.file)]
Converting == \E w \in Workers : At(w, "convert")

(* --- create_folder and rename_folder: one statement each --- *)

CreateFolder(w) ==
  /\ At(w, "idle")
  /\ \E i \in New \ ghost.used, p \in {NoOne} \cup Ids, n \in Renames :
       /\ p = NoOne \/ Folder(p)
       /\ Sets([rows.file EXCEPT ![i] =
                  [there |-> TRUE, folder |-> TRUE, parent |-> p, name |-> <<n>>]])
       /\ ghost' = [ghost EXCEPT !.used = @ \cup {i}]
  /\ UNCHANGED <<procs, outside>>
RenameFolder(w) ==
  /\ At(w, "idle")
  /\ \E i \in Ids, n \in Renames :
       /\ Folder(i) /\ rows.file[i].name # <<n>>
       /\ Sets([rows.file EXCEPT ![i].name = <<n>>])
  /\ ghost' = [ghost EXCEPT !.path = Paths(rows'.file), !.renamed = @ \/ Converting]
  /\ UNCHANGED <<procs, outside>>

(* --- move_file: lock, walk up from the new parent, write --- *)

\* pg_advisory_xact_lock is free.
TreeFree == outside.lock = NoOne

\* The walk: a folder may not be moved under itself; a parent is a folder.
MayMove(i, p) ==
  /\ There(i)
  /\ p # NoOne => Folder(p) /\ (Folder(i) => i \notin Up(rows.file, p))

MoveLock(w) ==
  /\ At(w, "idle") /\ TreeFree /\ ghost.moves < MaxMoves
  /\ \E i \in Moves, p \in {NoOne} \cup {q \in Ids : Folder(q)} :
       /\ MayMove(i, p) /\ Parent(i) # p
       /\ Goes(w, [Idle EXCEPT !.at = "move", !.id = i, !.to = p])
  /\ outside' = [lock |-> w]
  /\ ghost' = [ghost EXCEPT !.moves = @ + 1]
  /\ UNCHANGED rows
MoveWrite(w) ==
  /\ At(w, "move")
  /\ IF There(procs[w].id) /\ (procs[w].to = NoOne \/ There(procs[w].to))
     THEN /\ Sets([rows.file EXCEPT ![procs[w].id].parent = procs[w].to])
          /\ Seen
     ELSE UNCHANGED <<rows, ghost>>
  /\ outside' = [lock |-> NoOne] /\ Goes(w, Idle)

(* --- delete_folder: list, delete each child, delete the folder --- *)

SeqOf(S) == CHOOSE s \in [1..Cardinality(S) -> S] : \A i \in S : \E k \in DOMAIN s : s[k] = i

\* The record goes; the foreign key empties its children's parent.
Gone(i) == [j \in Ids |-> IF j = i THEN NoFile
                          ELSE IF There(j) /\ Parent(j) = i
                               THEN [rows.file[j] EXCEPT !.parent = NoOne]
                               ELSE rows.file[j]]

Delete(w) ==
  /\ At(w, "idle")
  /\ \E i \in Ids :
       /\ Folder(i)
       /\ Goes(w, [Idle EXCEPT !.at = "delete", !.todo = <<[id |-> i, listed |-> FALSE]>>])
  /\ UNCHANGED <<rows, outside, ghost>>

\* The first record to do: a folder's children are listed and come before it.
DeleteStep(w) ==
  /\ At(w, "delete")
  /\ LET t == Head(procs[w].todo)
         rest == SubSeq(procs[w].todo, 2, Len(procs[w].todo))
         kids == SeqOf(Children(t.id))
     IN IF Folder(t.id) /\ ~t.listed
        THEN /\ Goes(w, [procs[w] EXCEPT !.todo =
                 [k \in DOMAIN kids |-> [id |-> kids[k], listed |-> ~Folder(kids[k])]]
                   \o <<[t EXCEPT !.listed = TRUE]>> \o rest])
             /\ UNCHANGED <<rows, ghost>>
        ELSE /\ Sets(Gone(t.id))
             /\ ghost' = [ghost EXCEPT !.path = Paths(rows'.file),
                  !.renamed = @ \/ Converting]
             /\ Goes(w, IF rest = <<>> THEN Idle ELSE [procs[w] EXCEPT !.todo = rest])
  /\ UNCHANGED outside

(* --- the conversion: migrate_virtual_folder_data --- *)

\* The files that still have a path for a name, after the cursor; a batch is
\* one file here.
Pathlike(c) == {k \in DOMAIN Order : k > c /\ There(Order[k]) /\ ~Folder(Order[k])
                                       /\ Len(rows.file[Order[k]].name) > 1}
Siblings(i) == {j \in Ids : There(j) /\ Parent(j) = Parent(i)
                              /\ rows.file[j].name = <<rows.file[i].name[1]>>}

StartConversion(w) ==
  /\ Converts /\ At(w, "idle") /\ ~\E v \in Workers : procs[v].at \in {"scan", "convert"}
  /\ Pathlike(0) # {}
  /\ Goes(w, [Idle EXCEPT !.at = "scan"])
  /\ UNCHANGED <<rows, outside, ghost>>

\* A pass ends; there is another one when this one has converted something.
PassEnds(w) ==
  /\ At(w, "scan") /\ TreeFree /\ Pathlike(procs[w].cursor) = {}
  /\ Goes(w, IF procs[w].progress THEN [Idle EXCEPT !.at = "scan"] ELSE Idle)
  /\ UNCHANGED <<rows, outside, ghost>>

\* A batch: its record, and the folder of that name beside it, when there is
\* one and nothing else of that name.
Scan(w) ==
  /\ At(w, "scan") /\ TreeFree /\ Pathlike(procs[w].cursor) # {}
  /\ LET k == CHOOSE k \in Pathlike(procs[w].cursor) :
                \A l \in Pathlike(procs[w].cursor) : k <= l
         i == Order[k]
         sib == Siblings(i)
     IN IF sib # {} /\ (Cardinality(sib) > 1 \/ \E s \in sib : ~Folder(s))
        THEN /\ Goes(w, [procs[w] EXCEPT !.cursor = k])
             /\ UNCHANGED outside
        ELSE /\ sib # {} \/ New # ghost.used
             /\ Goes(w, [procs[w] EXCEPT !.at = "convert", !.id = i, !.cursor = k,
                  !.to = IF sib = {} THEN NoOne ELSE CHOOSE s \in sib : TRUE])
             /\ outside' = [lock |-> w]
  /\ ghost' = [ghost EXCEPT !.renamed = FALSE]
  /\ UNCHANGED rows

\* The name that is left to a converted file.
Remainder(n) == SubSeq(n, 2, Len(n))

\* The commit; it fails when the record, its parent or the folder is gone.
Convert(w) ==
  /\ At(w, "convert")
  /\ LET i == procs[w].id  p == procs[w].to
         n == CHOOSE k \in New : k \notin ghost.used IN
     IF There(i) /\ (p = NoOne => New # ghost.used) /\ (p # NoOne => There(p))
     THEN /\ Sets(IF p # NoOne
                  THEN [rows.file EXCEPT ![i].parent = p, ![i].name = Remainder(@)]
                  ELSE [rows.file EXCEPT ![i].parent = n, ![i].name = Remainder(@),
                          ![n] = [there |-> TRUE, folder |-> TRUE, parent |-> Parent(i),
                                  name |-> <<rows.file[i].name[1]>>]])
          /\ Goes(w, [procs[w] EXCEPT !.at = "scan", !.progress = TRUE])
     ELSE UNCHANGED rows /\ Goes(w, Idle)
  /\ outside' = [lock |-> NoOne]
  /\ ghost' = [ghost EXCEPT
       !.path = IF ghost.renamed THEN Paths(rows'.file) ELSE @,
       !.used = {k \in New : k \in @ \/ rows'.file[k].there}]

\* The task is cancelled or loses its lease: the transaction is rolled back.
ConversionStops(w) ==
  /\ procs[w].at \in {"scan", "convert"}
  /\ outside' = IF outside.lock = w THEN [lock |-> NoOne] ELSE outside
  /\ Goes(w, Idle)
  /\ UNCHANGED <<rows, ghost>>

Next ==
  \E w \in Workers :
    \/ CreateFolder(w) \/ RenameFolder(w) \/ MoveLock(w) \/ MoveWrite(w)
    \/ Delete(w) \/ DeleteStep(w)
    \/ StartConversion(w) \/ PassEnds(w) \/ Scan(w) \/ Convert(w) \/ ConversionStops(w)

Spec == Init /\ [][Next]_vars

-----------------------------------------------------------------------------

\* Following parent_id ends at the root: no folder comes under itself,
\* whatever moves run at the same time.
TreeIsRooted == \A i \in Ids : There(i) => NoOne \in Up(rows.file, i)

\* A parent is a folder that is there.
ParentsAreFolders == \A i \in Ids : There(i) /\ Parent(i) # NoOne => Folder(Parent(i))

\* The conversion moves no file: each is where its user last left it, also
\* between batches and after a cancellation.
ConversionKeepsPaths == ghost.path = Paths(rows.file)
=============================================================================
