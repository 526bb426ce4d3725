----------------------------- MODULE UsersProofs -----------------------------
(***************************************************************************)
(* Proofs of what users have: their conversations, projects and            *)
(* attachments (Threads), their accounts and keys (Identity).  Both keep   *)
(* their state in the same variables, as in Components.                    *)
(***************************************************************************)
EXTENDS Naturals, FiniteSetTheorems, TLAPS

CONSTANTS Clients, Kinds, Begun, MaxFiles, Workers, NoOne, Users, There, Keys,
          Codes, Subs, Raw, OidcRole, MaxFails

VARIABLES rows, procs, outside, ghost

TH == INSTANCE Threads
ID == INSTANCE Identity

-----------------------------------------------------------------------------
(* Conversations, projects and attachments.                                *)

ThreadConstants == Begun \in BOOLEAN /\ MaxFiles \in Nat

Projects == {"p", "own"}
Attachments == [kind : {"none", "upload", "reference"}, used : BOOLEAN]
Metadata == [TH!Files -> Attachments]
ThreadRows ==
  [project : [Projects -> {"none", "active", "deleted"}],
   conv : [project : {"none"} \cup Projects,
           st : {"none", "active", "deleted"}],
   bound : BOOLEAN, req : {"none", "queued", "running", "done"},
   atts : Metadata]
Creating == {"project", "scope", "add", "recover", "dir"}
Loaded == {"store", "record", "refer", "remove"}
ClientStates ==
  [pc : {"idle", "sweep", "unlink", "update"} \cup Creating \cup Loaded,
   to : {"none"} \cup Projects, seen : Metadata \cup {<<>>},
   file : Nat, holds : SUBSET Projects]
ThreadStore ==
  [dirs : SUBSET Projects, tmp : {"none", "original", "parsed"},
   files : SUBSET TH!Files]
ThreadGhosts ==
  [answers : SUBSET [to : Projects, got : {"none"} \cup Projects], ids : Nat,
   left : SUBSET Nat, needs : SUBSET TH!Files, stale : BOOLEAN]
ThreadTyped ==
  /\ rows \in ThreadRows /\ procs \in [Clients -> ClientStates]
  /\ outside \in ThreadStore /\ ghost \in ThreadGhosts

\* A conversation is there once it has a project, and a client that is to
\* add one in "p" has locked the project, which stays active.
Placed ==
  /\ rows.conv.st = "none" <=> rows.conv.project = "none"
  /\ TH!NoOrphanConversation /\ TH!IntentKept
  /\ \A w \in Clients :
       /\ TH!Pc(w) \in Creating => procs[w].to \in Projects
       /\ TH!Pc(w) \in {"scope", "add"} /\ procs[w].to = "p" =>
            "p" \in procs[w].holds /\ rows.project["p"] = "active"
       /\ TH!Pc(w) = "dir" => rows.conv.project = procs[w].to

\* Who makes an attachment has a file of its own, of which nothing is recorded;
\* a file that is to go is recorded no more.
New(w) == TH!Pc(w) \in {"store", "record", "refer"}
OwnFiles ==
  /\ \A w \in Clients : TH!Pc(w) \in Loaded \cup {"unlink", "sweep"} =>
       procs[w].file \in TH!Files /\ procs[w].file <= ghost.ids
  /\ \A w \in Clients : TH!Pc(w) \in Loaded \cup {"update"} =>
       procs[w].seen \in Metadata
  /\ \A v, w \in Clients : v # w /\ New(v) /\ New(w) =>
       procs[v].file # procs[w].file
Recorded ==
  ~ghost.stale =>
    /\ \A f \in TH!Files : f > ghost.ids => rows.atts[f].kind = "none"
    /\ \A w \in Clients : New(w) => rows.atts[procs[w].file].kind = "none"
    /\ \A v, w \in Clients : TH!Pc(v) = "unlink" =>
         /\ rows.atts[procs[v].file].kind # "upload"
         /\ New(w) => procs[v].file # procs[w].file

\* Bytes are recorded, in the hands of a client, or left over.
Bytes ==
  ~ghost.stale =>
    /\ \A f \in outside.files :
         \/ rows.atts[f].kind = "upload" \/ f \in ghost.left
         \/ \E w \in Clients :
              TH!Pc(w) \in {"record", "unlink"} /\ procs[w].file = f
    /\ \A w \in Clients : TH!Pc(w) = "record" =>
         procs[w].file \in outside.files

\* What a request needs was bound to it and is recorded.
Needed ==
  ~ghost.stale => \A f \in ghost.needs :
    /\ rows.atts[f].used /\ rows.atts[f].kind # "none"
    /\ rows.req \in {"queued", "running"}

ThreadInv ==
  /\ ThreadTyped /\ Placed /\ OwnFiles /\ Recorded /\ Bytes /\ Needed
  /\ TH!RecordsHaveBytes

LEMMA ThreadInit == ASSUME ThreadConstants, TH!Init PROVE ThreadInv
<1> USE DEF ThreadConstants, TH!Files
<1>1. TH!NoAtt \in Attachments
  BY DEF TH!NoAtt, Attachments
<1>2. ThreadTyped
  <2>1. rows \in ThreadRows
    BY <1>1 DEF TH!Init, ThreadRows, Metadata, Projects
  <2>2. procs \in [Clients -> ClientStates]
    BY DEF TH!Init, TH!Idle, ClientStates
  <2>3. outside \in ThreadStore /\ ghost \in ThreadGhosts
    BY DEF TH!Init, ThreadStore, ThreadGhosts, Projects
  <2> QED BY <2>1, <2>2, <2>3 DEF ThreadTyped
<1>3. Placed
  BY DEF TH!Init, TH!Idle, TH!Pc, Placed, Creating, TH!NoOrphanConversation,
         TH!IntentKept
<1>4. OwnFiles /\ Recorded
  BY DEF TH!Init, TH!Idle, TH!Pc, TH!NoAtt, OwnFiles, Recorded, New, Loaded
<1>5. Bytes /\ Needed /\ TH!RecordsHaveBytes
  BY DEF TH!Init, TH!NoAtt, TH!Pc, TH!Idle, Bytes, Needed, TH!RecordsHaveBytes
<1> QED BY <1>2, <1>3, <1>4, <1>5 DEF ThreadInv

\* The attachments of a step that leaves them alone.
LEMMA AttachmentsKept ==
  ASSUME ThreadConstants, ThreadInv,
         rows'.atts = rows.atts, rows'.req \in {rows.req, "running"},
         outside'.files = outside.files, ghost'.ids = ghost.ids,
         ghost'.left = ghost.left, ghost'.needs = ghost.needs,
         ghost'.stale = ghost.stale,
         \A w \in Clients :
           \/ procs'[w] = procs[w]
           \/ /\ TH!Pc(w) \notin {"record", "unlink"}
              /\ procs'[w].pc \in {"idle"} \cup Creating
  PROVE  /\ OwnFiles' /\ Recorded' /\ Bytes' /\ Needed'
         /\ TH!RecordsHaveBytes'
<1>1. \A w \in Clients : TH!Pc(w)' = procs'[w].pc /\ TH!Pc(w) = procs[w].pc
  BY DEF TH!Pc
<1>2. \A w \in Clients : procs'[w].pc \in Loaded \cup {"unlink", "sweep", "update"}
                           => procs'[w] = procs[w]
  BY DEF Creating, Loaded
<1>3. OwnFiles'
  BY <1>1, <1>2 DEF ThreadInv, OwnFiles, New, Loaded
<1>4. Recorded'
  BY <1>1, <1>2 DEF ThreadInv, Recorded, New, Loaded
<1>5. Bytes'
  BY <1>1, <1>2 DEF ThreadInv, Bytes, Loaded
<1>6. Needed' /\ TH!RecordsHaveBytes'
  BY DEF ThreadInv, Needed, TH!RecordsHaveBytes
<1> QED BY <1>3, <1>4, <1>5, <1>6

\* And the conversation, by one that has to do with attachments.
LEMMA PlacedKept ==
  ASSUME ThreadInv, rows'.conv = rows.conv, rows'.project = rows.project,
         ghost'.answers = ghost.answers,
         \A w \in Clients : \/ procs'[w] = procs[w]
                            \/ procs'[w].pc \notin Creating
  PROVE  Placed'
BY DEF ThreadInv, Placed, TH!Pc, TH!NoOrphanConversation, TH!IntentKept, Creating

LEMMA ClientGoes ==
  ASSUME ThreadInv, NEW w \in Clients, NEW s \in ClientStates,
         procs' = [procs EXCEPT ![w] = s]
  PROVE  /\ procs' \in [Clients -> ClientStates] /\ procs'[w] = s
         /\ \A v \in Clients : v # w => procs'[v] = procs[v]
BY DEF ThreadInv, ThreadTyped

\* Every state of a client is one of these.
LEMMA ClientIs ==
  ASSUME ThreadInv, NEW w \in Clients
  PROVE  /\ procs[w] \in ClientStates
         /\ \A p \in {"idle", "sweep", "unlink", "update"} \cup Creating \cup Loaded,
               h \in SUBSET Projects :
              [procs[w] EXCEPT !.pc = p] \in ClientStates
              /\ [procs[w] EXCEPT !.pc = p, !.holds = h] \in ClientStates
         /\ TH!Idle \in ClientStates
<1>1. procs[w] \in ClientStates
  BY DEF ThreadInv, ThreadTyped
<1>2. TH!Idle \in ClientStates
  BY DEF TH!Idle, ClientStates
<1> QED BY <1>1, <1>2 DEF ClientStates

\* Steps of projects and conversations that are no client's.
LEMMA ProjectsKept ==
  ASSUME ThreadConstants, ThreadInv,
         \/ TH!CreateProject \/ TH!DeleteProject \/ TH!DeleteThread
         \/ TH!BindAgent \/ TH!UnbindAgent \/ TH!LoseDirectory
  PROVE  ThreadInv'
<1>1. /\ rows'.atts = rows.atts /\ rows'.req = rows.req
      /\ outside'.files = outside.files /\ procs' = procs /\ ghost' = ghost
  BY DEF ThreadInv, ThreadTyped, ThreadRows, ThreadStore, TH!CreateProject,
         TH!DeleteProject, TH!DeleteThread, TH!BindAgent, TH!UnbindAgent,
         TH!LoseDirectory
<1>2. rows \in ThreadRows /\ outside \in ThreadStore /\ Placed
  BY DEF ThreadInv, ThreadTyped
<1>3. rows.conv.project = "none" => rows.conv.st = "none"
  BY <1>2 DEF Placed
<1>4. rows.conv.st # "none" => rows.conv.project \in Projects
  BY <1>2 DEF Placed, ThreadRows
<1>5. CASE TH!CreateProject
  <2>1. /\ rows' = [rows EXCEPT !.project["p"] = "active"] /\ outside' = outside
    BY <1>5 DEF TH!CreateProject
  <2>2. rows' \in ThreadRows /\ rows'.conv = rows.conv
          /\ rows'.project["p"] = "active"
          /\ rows'.project["own"] = rows.project["own"]
    BY <1>2, <2>1 DEF ThreadRows, Projects
  <2>3. Placed'
    BY <1>1, <1>2, <1>4, <2>2 DEF Placed, TH!Pc, TH!NoOrphanConversation,
       TH!IntentKept, Projects
  <2> QED BY <1>1, <1>2, <2>1, <2>2, <2>3, AttachmentsKept
          DEF ThreadInv, ThreadTyped
<1>6. CASE TH!DeleteProject
  <2>1. /\ outside' = outside /\ \A w \in Clients : "p" \notin procs[w].holds
        /\ rows' = [rows EXCEPT !.project["p"] = "deleted", !.bound = FALSE,
             !.conv.st = IF rows.conv.project = "p" THEN "deleted" ELSE @]
    BY <1>6 DEF TH!DeleteProject
  <2>2. rows' \in ThreadRows /\ rows'.conv.project = rows.conv.project
          /\ rows'.conv.st = (IF rows.conv.project = "p" THEN "deleted"
                              ELSE rows.conv.st)
          /\ rows'.project["own"] = rows.project["own"]
    BY <1>2, <2>1 DEF ThreadRows, Projects
  <2>3. Placed'
    BY <1>1, <1>2, <1>4, <2>1, <2>2 DEF Placed, TH!Pc,
       TH!NoOrphanConversation, TH!IntentKept, Projects
  <2> QED BY <1>1, <1>2, <2>1, <2>2, <2>3, AttachmentsKept
          DEF ThreadInv, ThreadTyped
<1>7. CASE TH!DeleteThread
  <2>1. /\ outside' = outside /\ rows.conv.st = "active"
        /\ rows' = [rows EXCEPT !.conv.st = "deleted"]
    BY <1>7 DEF TH!DeleteThread
  <2>2. rows' \in ThreadRows /\ rows'.conv.project = rows.conv.project
          /\ rows'.conv.st = "deleted" /\ rows'.project = rows.project
    BY <1>2, <2>1 DEF ThreadRows
  <2>3. Placed'
    BY <1>1, <1>2, <2>1, <2>2 DEF Placed, TH!Pc, TH!NoOrphanConversation,
       TH!IntentKept
  <2> QED BY <1>1, <1>2, <2>1, <2>2, <2>3, AttachmentsKept
          DEF ThreadInv, ThreadTyped
<1>8. CASE TH!BindAgent \/ TH!UnbindAgent \/ TH!LoseDirectory
  <2>1. /\ rows' \in ThreadRows /\ outside' \in ThreadStore
        /\ rows'.conv = rows.conv /\ rows'.project = rows.project
    BY <1>2, <1>8 DEF ThreadRows, ThreadStore, TH!BindAgent, TH!UnbindAgent,
       TH!LoseDirectory
  <2> QED BY <1>1, <1>2, <2>1, AttachmentsKept, PlacedKept
          DEF ThreadInv, ThreadTyped
<1> QED BY <1>5, <1>6, <1>7, <1>8

\* What a client that creates a conversation does, before it answers.
LEMMA CreationKept ==
  ASSUME ThreadConstants, ThreadInv, NEW w \in Clients,
         NEW s \in ClientStates, procs' = [procs EXCEPT ![w] = s],
         rows' = rows, outside' = outside, ghost' = ghost,
         TH!Pc(w) \in {"idle"} \cup Creating,
         s.pc \in {"idle"} \cup Creating,
         s.pc \in Creating => s.to \in Projects,
         s.pc \in {"scope", "add"} /\ s.to = "p" =>
           "p" \in s.holds /\ rows.project["p"] = "active",
         s.pc = "dir" => rows.conv.project = s.to
  PROVE  ThreadInv'
<1>1. /\ procs' \in [Clients -> ClientStates] /\ procs'[w] = s
      /\ \A v \in Clients : v # w => procs'[v] = procs[v]
  BY ClientGoes
<1>2. Placed'
  BY <1>1 DEF ThreadInv, Placed, TH!Pc, TH!NoOrphanConversation, TH!IntentKept
<1>3. TH!Pc(w) \notin {"record", "unlink"}
  BY DEF Creating
<1> QED BY <1>1, <1>2, <1>3, AttachmentsKept DEF ThreadInv, ThreadTyped

LEMMA CreateSteps ==
  ASSUME ThreadConstants, ThreadInv, NEW w \in Clients,
         \/ TH!TakeProject(w) \/ TH!TakeOwn(w) \/ TH!Scope(w) \/ TH!Recover(w)
  PROVE  ThreadInv'
<1>1. procs[w] \in ClientStates /\ TH!Idle \in ClientStates /\ TH!Idle.pc = "idle"
  BY ClientIs DEF TH!Idle
<1>2. Placed /\ UNCHANGED <<rows, outside, ghost>>
  BY DEF ThreadInv, TH!TakeProject, TH!TakeOwn, TH!Scope, TH!Recover
<1>3. TH!Pc(w) \in Creating /\ procs[w].to \in Projects
  BY <1>2 DEF Placed, Creating, TH!TakeProject, TH!TakeOwn, TH!Scope, TH!Recover
<1>4. CASE procs' = [procs EXCEPT ![w] = TH!Idle]
  BY <1>1, <1>2, <1>3, <1>4, CreationKept DEF Creating
<1>5. CASE procs' # [procs EXCEPT ![w] = TH!Idle]
  <2>1. PICK s : /\ procs' = [procs EXCEPT ![w] = s]
                 /\ \/ /\ TH!TakeProject(w) /\ rows.project["p"] = "active"
                       /\ s = [procs[w] EXCEPT !.pc = "scope", !.holds = {"p"}]
                    \/ \E h \in {{}, {"own"}} :
                         /\ TH!TakeOwn(w)
                         /\ s = [procs[w] EXCEPT !.pc = "scope", !.holds = h]
                    \/ /\ TH!Scope(w) /\ s = [procs[w] EXCEPT !.pc = "add"]
                    \/ /\ TH!Recover(w) /\ TH!Matches(procs[w].to)
                       /\ s = [procs[w] EXCEPT !.pc = "dir"]
    <3>1. CASE TH!TakeProject(w)
      BY <1>1, <1>5, <3>1 DEF TH!TakeProject, TH!Done, TH!LocksProject
    <3>2. CASE TH!TakeOwn(w)
      BY <1>1, <1>5, <3>2 DEF TH!TakeOwn, TH!Done
    <3>3. CASE TH!Scope(w)
      BY <1>1, <1>5, <3>3 DEF TH!Scope, TH!Done, TH!To
    <3>4. CASE TH!Recover(w)
      BY <1>1, <1>5, <3>4 DEF TH!Recover, TH!Done, TH!To
    <3> QED BY <3>1, <3>2, <3>3, <3>4
  <2>2. /\ s \in ClientStates /\ s.pc \in Creating /\ s.to = procs[w].to
        /\ s.pc \in {"scope", "add"} /\ s.to = "p" =>
             "p" \in s.holds /\ rows.project["p"] = "active"
        /\ s.pc = "dir" => rows.conv.project = s.to
    <3>1. CASE TH!TakeProject(w) /\ rows.project["p"] = "active"
                 /\ s = [procs[w] EXCEPT !.pc = "scope", !.holds = {"p"}]
      BY <1>1, <3>1 DEF ClientStates, Creating, Projects
    <3>2. CASE \E h \in {{}, {"own"}} :
                 /\ TH!TakeOwn(w)
                 /\ s = [procs[w] EXCEPT !.pc = "scope", !.holds = h]
      <4>1. PICK h \in SUBSET Projects :
              s = [procs[w] EXCEPT !.pc = "scope", !.holds = h]
        BY <3>2 DEF Projects
      <4>2. procs[w].to = "own"
        BY <3>2 DEF TH!TakeOwn
      <4> QED BY <1>1, <4>1, <4>2 DEF ClientStates, Creating
    <3>3. CASE TH!Scope(w) /\ s = [procs[w] EXCEPT !.pc = "add"]
      BY <1>1, <1>2, <3>3 DEF ClientStates, Creating, Placed, TH!Pc, TH!Scope
    <3>4. CASE TH!Recover(w) /\ TH!Matches(procs[w].to)
                 /\ s = [procs[w] EXCEPT !.pc = "dir"]
      BY <1>1, <3>4 DEF ClientStates, Creating, TH!Matches
    <3> QED BY <2>1, <3>1, <3>2, <3>3, <3>4
  <2> QED BY <1>2, <1>3, <2>1, <2>2, CreationKept
<1> QED BY <1>4, <1>5

LEMMA LookKept ==
  ASSUME ThreadConstants, ThreadInv, NEW w \in Clients, NEW to \in Projects,
         TH!CreateLook(w, to)
  PROVE  ThreadInv'
<1>1. CASE rows.conv.st = "none"
  <2>1. PICK s : /\ s = [TH!Idle EXCEPT !.pc = "project", !.to = to]
                 /\ procs' = [procs EXCEPT ![w] = s]
                 /\ UNCHANGED <<rows, outside, ghost>> /\ TH!Pc(w) = "idle"
    BY <1>1 DEF TH!CreateLook
  <2>2. s \in ClientStates /\ s.pc = "project" /\ s.to = to
    BY <2>1 DEF TH!Idle, ClientStates, Creating
  <2> QED BY <2>1, <2>2, CreationKept DEF Creating
<1>2. CASE rows.conv.st # "none"
  <2>1. /\ TH!Matches(to) /\ procs' = procs /\ rows' = rows
        /\ outside' = TH!Materialized(to)
        /\ ghost' = [ghost EXCEPT !.answers =
                       @ \cup {[to |-> to, got |-> rows.conv.project]}]
    BY <1>2 DEF TH!CreateLook
  <2>2. rows.conv.project = to
    BY <2>1 DEF TH!Matches
  <2>3. /\ outside' \in ThreadStore /\ outside'.files = outside.files
    BY <2>1 DEF ThreadInv, ThreadTyped, ThreadStore, Projects, TH!Materialized
  <2>4. /\ ghost' \in ThreadGhosts /\ ghost'.ids = ghost.ids
        /\ ghost'.left = ghost.left /\ ghost'.needs = ghost.needs
        /\ ghost'.stale = ghost.stale
        /\ ghost'.answers = ghost.answers \cup {[to |-> to, got |-> to]}
    BY <2>1, <2>2 DEF ThreadInv, ThreadTyped, ThreadGhosts
  <2>5. Placed'
    BY <2>1, <2>4 DEF ThreadInv, Placed, TH!Pc, TH!NoOrphanConversation,
       TH!IntentKept
  <2> QED BY <2>1, <2>3, <2>4, <2>5, AttachmentsKept DEF ThreadInv, ThreadTyped
<1> QED BY <1>1, <1>2

LEMMA AnswerKept ==
  ASSUME ThreadConstants, ThreadInv, NEW w \in Clients, TH!Answer(w)
  PROVE  ThreadInv'
<1>1. /\ TH!Pc(w) = "dir" /\ rows' = rows
      /\ procs' = [procs EXCEPT ![w] = TH!Idle]
      /\ outside' = TH!Materialized(rows.conv.project)
      /\ ghost' = [ghost EXCEPT !.answers =
                     @ \cup {[to |-> procs[w].to, got |-> rows.conv.project]}]
  BY DEF TH!Answer, TH!Done
<1>2. rows.conv.project = procs[w].to /\ procs[w].to \in Projects
  BY <1>1 DEF ThreadInv, Placed, Creating
<1>3. /\ procs' \in [Clients -> ClientStates] /\ procs'[w].pc = "idle"
      /\ \A v \in Clients : v # w => procs'[v] = procs[v]
  <2>1. TH!Idle.pc = "idle" /\ TH!Idle \in ClientStates
    BY ClientIs DEF TH!Idle
  <2> QED BY <1>1, <2>1, ClientGoes
<1>4. outside' \in ThreadStore /\ outside'.files = outside.files
  BY <1>1 DEF ThreadInv, ThreadTyped, ThreadStore, Projects, TH!Materialized
<1>5. /\ ghost' \in ThreadGhosts /\ ghost'.ids = ghost.ids
      /\ ghost'.left = ghost.left /\ ghost'.needs = ghost.needs
      /\ ghost'.stale = ghost.stale
      /\ ghost'.answers =
           ghost.answers \cup {[to |-> procs[w].to, got |-> procs[w].to]}
  BY <1>1, <1>2 DEF ThreadInv, ThreadTyped, ThreadGhosts
<1>6. Placed'
  BY <1>1, <1>3, <1>5 DEF ThreadInv, Placed, TH!Pc, TH!NoOrphanConversation,
     TH!IntentKept, Creating
<1> QED BY <1>1, <1>3, <1>4, <1>5, <1>6, AttachmentsKept
        DEF ThreadInv, ThreadTyped

LEMMA AddKept ==
  ASSUME ThreadConstants, ThreadInv, NEW w \in Clients, TH!AddConversation(w)
  PROVE  ThreadInv'
<1>1. /\ procs[w] \in ClientStates /\ TH!Pc(w) = "add" /\ Placed
      /\ procs[w].to \in Projects /\ UNCHANGED <<outside, ghost>>
      /\ procs[w].to = "p" => rows.project["p"] = "active"
  BY ClientIs DEF TH!AddConversation, ThreadInv, Placed, Creating
<1>2. CASE rows.conv.st = "none"
  <2>1. PICK s : /\ s = [procs[w] EXCEPT !.pc = "dir", !.holds = {}]
                 /\ procs' = [procs EXCEPT ![w] = s]
                 /\ rows' = [rows EXCEPT
                      !.conv = [project |-> procs[w].to, st |-> "active"],
                      !.project[procs[w].to] =
                         IF procs[w].to = "own" THEN "active" ELSE @]
    BY <1>2 DEF TH!AddConversation
  <2>2. s \in ClientStates /\ s.pc = "dir" /\ s.to = procs[w].to
    BY <1>1, <2>1 DEF ClientStates, Creating
  <2>3. /\ procs' \in [Clients -> ClientStates] /\ procs'[w] = s
        /\ \A v \in Clients : v # w => procs'[v] = procs[v]
    BY <2>1, <2>2, ClientGoes
  <2>4. /\ rows' \in ThreadRows /\ rows'.atts = rows.atts /\ rows'.req = rows.req
        /\ rows'.conv.project = procs[w].to /\ rows'.conv.st = "active"
        /\ rows'.project["p"] = rows.project["p"]
        /\ rows'.project[procs[w].to] = "active"
    BY <1>1, <2>1 DEF ThreadInv, ThreadTyped, ThreadRows, Projects
  <2>5. \A v \in Clients : TH!Pc(v) # "dir"
    BY <1>1, <1>2 DEF Placed, Projects, Creating
  <2>6. Placed'
    BY <1>1, <2>2, <2>3, <2>4, <2>5 DEF Placed, TH!Pc,
       TH!NoOrphanConversation, TH!IntentKept, Projects
  <2> QED BY <1>1, <2>2, <2>3, <2>4, <2>6, AttachmentsKept
          DEF ThreadInv, ThreadTyped, Creating
<1>3. CASE rows.conv.st # "none"
  <2>1. PICK s : /\ s = [procs[w] EXCEPT !.pc = "recover", !.holds = {}]
                 /\ procs' = [procs EXCEPT ![w] = s] /\ rows' = rows
    BY <1>3 DEF TH!AddConversation
  <2>2. s \in ClientStates /\ s.pc = "recover" /\ s.to = procs[w].to
    BY <1>1, <2>1 DEF ClientStates, Creating
  <2> QED BY <1>1, <2>1, <2>2, CreationKept DEF Creating
<1> QED BY <1>2, <1>3

\* Steps of attachments that leave the records, their files and those who are
\* at work on them.
LEMMA QuietKept ==
  ASSUME ThreadConstants, ThreadInv, outside' \in ThreadStore,
         outside'.files = outside.files, ghost' = ghost,
         \/ rows' = rows
         \/ rows' = [rows EXCEPT !.req = "running"],
         \/ procs' = procs
         \/ \E w \in Clients : /\ TH!Pc(w) \notin {"record", "unlink"}
                               /\ procs' = [procs EXCEPT ![w] = TH!Idle]
  PROVE  ThreadInv'
<1>1. /\ rows' \in ThreadRows /\ rows'.atts = rows.atts
      /\ rows'.req \in {rows.req, "running"}
      /\ rows'.conv = rows.conv /\ rows'.project = rows.project
  BY DEF ThreadInv, ThreadTyped, ThreadRows
<1>2. /\ procs' \in [Clients -> ClientStates]
      /\ \A v \in Clients :
           \/ procs'[v] = procs[v]
           \/ TH!Pc(v) \notin {"record", "unlink"} /\ procs'[v].pc = "idle"
  <2>1. CASE procs' = procs
    BY <2>1 DEF ThreadInv, ThreadTyped
  <2>2. CASE procs' # procs
    <3>1. PICK w \in Clients : /\ TH!Pc(w) \notin {"record", "unlink"}
                               /\ procs' = [procs EXCEPT ![w] = TH!Idle]
      BY <2>2
    <3>2. TH!Idle \in ClientStates /\ TH!Idle.pc = "idle"
      BY ClientIs DEF TH!Idle
    <3> QED BY <3>1, <3>2, ClientGoes
  <2> QED BY <2>1, <2>2
<1>3. OwnFiles' /\ Recorded' /\ Bytes' /\ Needed' /\ TH!RecordsHaveBytes'
  BY <1>1, <1>2, AttachmentsKept
<1>4. Placed'
  BY <1>1, <1>2, PlacedKept DEF Creating
<1> QED BY <1>1, <1>2, <1>3, <1>4 DEF ThreadInv, ThreadTyped

LEMMA QuietSteps ==
  ASSUME ThreadConstants, ThreadInv,
         \/ TH!UploadTmp \/ TH!ParseTmp \/ TH!CleanupTmp \/ TH!Dispatch
         \/ \E w \in Clients : TH!Sweep(w)
         \/ \E w \in Clients : TH!Store(w) /\ TH!Done(w) /\ outside' = outside
  PROVE  ThreadInv'
<1>1. outside \in ThreadStore
  BY DEF ThreadInv, ThreadTyped
<1>2. CASE TH!UploadTmp \/ TH!ParseTmp \/ TH!CleanupTmp
  <2>1. /\ outside' \in ThreadStore /\ outside'.files = outside.files
        /\ UNCHANGED <<rows, procs, ghost>>
    BY <1>1, <1>2 DEF ThreadStore, TH!UploadTmp, TH!ParseTmp, TH!CleanupTmp
  <2> QED BY <2>1, QuietKept
<1>3. CASE TH!Dispatch
  BY <1>1, <1>3, QuietKept DEF TH!Dispatch
<1>4. CASE \E w \in Clients : TH!Sweep(w)
  <2>1. PICK w \in Clients : TH!Sweep(w)
    BY <1>4
  <2>2. /\ outside' \in ThreadStore /\ outside'.files = outside.files
    BY <1>1, <2>1 DEF ThreadStore, TH!Sweep
  <2>3. /\ TH!Pc(w) = "sweep" /\ procs' = [procs EXCEPT ![w] = TH!Idle]
        /\ UNCHANGED <<rows, ghost>>
    BY <2>1 DEF TH!Sweep, TH!Done
  <2> QED BY <2>2, <2>3, QuietKept
<1>5. CASE \E w \in Clients : TH!Store(w) /\ TH!Done(w) /\ outside' = outside
  BY <1>1, <1>5, QuietKept DEF TH!Store, TH!Done
<1> QED BY <1>2, <1>3, <1>4, <1>5

\* A client loads the conversation.
LEMMA LoadKept ==
  ASSUME ThreadConstants, ThreadInv, NEW w \in Clients, NEW kind,
         NEW pc \in Loaded \cup {"update"}, NEW f \in Nat,
         TH!Load(w, kind, pc, f), pc # "record",
         \/ /\ pc \in {"remove", "update"} /\ ghost' = ghost
            /\ pc = "remove" => f \in TH!Files /\ f <= ghost.ids
         \/ /\ f \in TH!Files /\ f = ghost.ids + 1
            /\ ghost' = [ghost EXCEPT !.ids = @ + 1]
  PROVE  ThreadInv'
<1>1. PICK s : /\ s = [TH!Idle EXCEPT !.pc = pc, !.file = f, !.seen = rows.atts]
               /\ procs' = [procs EXCEPT ![w] = s] /\ TH!Pc(w) = "idle"
               /\ UNCHANGED <<rows, outside>>
  BY DEF TH!Load
<1>2. rows.atts \in Metadata /\ rows \in ThreadRows /\ outside \in ThreadStore
  BY DEF ThreadInv, ThreadTyped, ThreadRows
<1>3. s \in ClientStates /\ s.pc = pc /\ s.file = f /\ s.seen = rows.atts
  BY <1>1, <1>2 DEF TH!Idle, ClientStates, Loaded
<1>4. /\ procs' \in [Clients -> ClientStates] /\ procs'[w] = s
      /\ \A v \in Clients : v # w => procs'[v] = procs[v]
  BY <1>1, <1>3, ClientGoes
<1>5. /\ ghost' \in ThreadGhosts /\ ghost'.answers = ghost.answers
      /\ ghost'.left = ghost.left /\ ghost'.needs = ghost.needs
      /\ ghost'.stale = ghost.stale /\ ghost'.ids \in Nat /\ ghost.ids \in Nat
      /\ \/ /\ ghost'.ids = ghost.ids /\ pc \in {"remove", "update"}
            /\ pc = "remove" => f \in TH!Files /\ f <= ghost.ids
         \/ ghost'.ids = ghost.ids + 1 /\ f = ghost.ids + 1 /\ f \in TH!Files
  BY DEF ThreadInv, ThreadTyped, ThreadGhosts
<1>6. Placed'
  BY <1>1, <1>3, <1>4, <1>5, PlacedKept DEF Creating, Loaded
<1>7. TH!Files \subseteq Nat
  BY DEF TH!Files
<1>8. OwnFiles'
  <2>1. \A v \in Clients : TH!Pc(v) \in Loaded \cup {"unlink", "sweep"} =>
          procs[v].file \in Nat /\ procs[v].file <= ghost.ids
            /\ procs[v].file \in TH!Files
    BY <1>7 DEF ThreadInv, OwnFiles
  <2>2. \A v \in Clients : procs'[v].pc \in Loaded \cup {"unlink", "sweep"} =>
          procs'[v].file \in TH!Files /\ procs'[v].file <= ghost'.ids
    <3>1. pc # "update" => f \in TH!Files /\ f <= ghost'.ids
      BY <1>5, <1>7
    <3>2. ASSUME NEW v \in Clients, v # w,
                 procs'[v].pc \in Loaded \cup {"unlink", "sweep"}
          PROVE  procs'[v].file \in TH!Files /\ procs'[v].file <= ghost'.ids
      BY <1>4, <1>5, <2>1, <3>2 DEF TH!Pc
    <3> QED BY <1>3, <1>4, <3>1, <3>2 DEF Loaded
  <2>3. \A v \in Clients : procs'[v].pc \in Loaded \cup {"update"} =>
          procs'[v].seen \in Metadata
    BY <1>2, <1>3, <1>4 DEF ThreadInv, OwnFiles, TH!Pc
  <2>4. \A v \in Clients : v # w /\ New(v) => procs[v].file <= ghost.ids
                                              /\ procs[v].file \in Nat
    BY <2>1 DEF New, Loaded
  <2>5. \A v \in Clients : v # w /\ New(v)' /\ New(w)' =>
          procs'[v].file # procs'[w].file
    BY <1>3, <1>4, <1>5, <2>4 DEF New, TH!Pc
  <2> QED BY <1>4, <2>2, <2>3, <2>5 DEF ThreadInv, OwnFiles, New, TH!Pc
<1>9. Recorded'
  <2> SUFFICES ASSUME ~ghost'.stale
               PROVE  /\ \A g \in TH!Files : g > ghost'.ids =>
                           rows.atts[g].kind = "none"
                      /\ \A v \in Clients : New(v)' =>
                           rows.atts[procs'[v].file].kind = "none"
                      /\ \A u, v \in Clients : procs'[u].pc = "unlink" =>
                           /\ rows.atts[procs'[u].file].kind # "upload"
                           /\ New(v)' => procs'[u].file # procs'[v].file
    BY <1>1 DEF Recorded, TH!Pc
  <2>1. \A g \in TH!Files : g > ghost.ids => rows.atts[g].kind = "none"
    BY <1>5 DEF ThreadInv, Recorded
  <2>2. \A v \in Clients : New(v)' => rows.atts[procs'[v].file].kind = "none"
    <3>1. New(w)' => rows.atts[f].kind = "none"
      BY <1>3, <1>4, <1>5, <1>7, <2>1 DEF New, TH!Pc
    <3> QED BY <1>3, <1>4, <1>5, <3>1 DEF ThreadInv, Recorded, New, TH!Pc
  <2>3. ASSUME NEW u \in Clients, NEW v \in Clients, procs'[u].pc = "unlink"
        PROVE  /\ rows.atts[procs'[u].file].kind # "upload"
               /\ New(v)' => procs'[u].file # procs'[v].file
    <3>1. procs'[u] = procs[u] /\ TH!Pc(u) = "unlink"
      BY <1>3, <1>4, <2>3 DEF Loaded, TH!Pc
    <3>2. procs[u].file <= ghost.ids /\ procs[u].file \in Nat
      BY <1>7, <3>1 DEF ThreadInv, OwnFiles
    <3> QED BY <1>3, <1>4, <1>5, <3>1, <3>2 DEF ThreadInv, Recorded, New, TH!Pc
  <2> QED BY <1>5, <1>7, <2>1, <2>2, <2>3
<1>10. Bytes'
  BY <1>1, <1>3, <1>4, <1>5 DEF ThreadInv, Bytes, TH!Pc
<1>11. Needed' /\ TH!RecordsHaveBytes'
  BY <1>1, <1>5 DEF ThreadInv, Needed, TH!RecordsHaveBytes
<1> QED BY <1>1, <1>2, <1>4, <1>5, <1>6, <1>8, <1>9, <1>10, <1>11
        DEF ThreadInv, ThreadTyped

LEMMA LoadSteps ==
  ASSUME ThreadConstants, ThreadInv, NEW w \in Clients,
         \/ TH!Confirm(w) \/ TH!Reference(w) \/ TH!Update(w)
         \/ \E f \in TH!Files : TH!DeleteAttachment(w, f)
  PROVE  ThreadInv'
<1>1. TH!Files \subseteq Nat
  BY DEF TH!Files
<1>2. CASE TH!Confirm(w)
  BY <1>1, <1>2, LoadKept DEF TH!Confirm, TH!NewFile, Loaded
<1>3. CASE TH!Reference(w)
  BY <1>1, <1>3, LoadKept DEF TH!Reference, TH!NewFile, Loaded
<1>4. CASE TH!Update(w)
  BY <1>4, LoadKept DEF TH!Update
<1>5. CASE \E f \in TH!Files : TH!DeleteAttachment(w, f)
  BY <1>1, <1>5, LoadKept DEF TH!DeleteAttachment, Loaded
<1> QED BY <1>2, <1>3, <1>4, <1>5

\* A client stores bytes, takes them away, or leaves them.
LEMMA BytesSteps ==
  ASSUME ThreadConstants, ThreadInv, NEW w \in Clients, NEW s \in ClientStates,
         procs' = [procs EXCEPT ![w] = s], rows' = rows,
         \/ /\ TH!Pc(w) = "store" /\ s = [procs[w] EXCEPT !.pc = "record"]
            /\ outside' =
                 [outside EXCEPT !.files = @ \cup {procs[w].file}]
            /\ ghost' = ghost
         \/ /\ TH!Pc(w) \in {"record", "unlink"} /\ s = TH!Idle
            /\ \/ /\ outside' = [outside EXCEPT !.files = @ \ {procs[w].file}]
                  /\ ghost' = ghost
               \/ /\ ghost' = [ghost EXCEPT !.left = @ \cup {procs[w].file}]
                  /\ outside' = outside
  PROVE  ThreadInv'
<1>1. /\ procs' \in [Clients -> ClientStates] /\ procs'[w] = s
      /\ \A v \in Clients : v # w => procs'[v] = procs[v]
  BY ClientGoes
<1> DEFINE f == procs[w].file
<1>2. /\ f \in TH!Files /\ f <= ghost.ids /\ f \in Nat
  BY DEF ThreadInv, OwnFiles, Loaded, TH!Files
<1>3. /\ procs[w] \in ClientStates
      /\ \/ TH!Pc(w) = "store" /\ s.pc = "record" /\ s.file = f
              /\ s.seen = procs[w].seen
         \/ TH!Pc(w) \in {"record", "unlink"} /\ s.pc = "idle"
  <2>1. procs[w] \in ClientStates /\ TH!Idle.pc = "idle"
    BY ClientIs DEF TH!Idle
  <2>2. ASSUME s = [procs[w] EXCEPT !.pc = "record"]
        PROVE  s.pc = "record" /\ s.file = f /\ s.seen = procs[w].seen
    BY <2>1, <2>2 DEF ClientStates
  <2> QED BY <2>1, <2>2
<1>4. /\ outside' \in ThreadStore /\ ghost' \in ThreadGhosts
      /\ ghost'.ids = ghost.ids /\ ghost'.answers = ghost.answers
      /\ ghost'.stale = ghost.stale /\ ghost'.needs = ghost.needs
      /\ ghost.left \subseteq ghost'.left
      /\ \/ TH!Pc(w) = "store" /\ outside'.files = outside.files \cup {f}
         \/ TH!Pc(w) # "store" /\ outside'.files = outside.files \ {f}
         \/ TH!Pc(w) # "store" /\ outside'.files = outside.files
              /\ f \in ghost'.left
  BY <1>2 DEF ThreadInv, ThreadTyped, ThreadStore, ThreadGhosts
<1> HIDE DEF f
<1>5. Placed'
  BY <1>1, <1>3, <1>4, PlacedKept DEF Creating
<1>6. OwnFiles'
  <2>1. \A v \in Clients : New(v)' => New(v) /\ procs'[v].file = procs[v].file
    BY <1>1, <1>3 DEF New, TH!Pc, f
  <2>2. \A v \in Clients : TH!Pc(v)' \in Loaded \cup {"unlink", "sweep"} =>
          /\ TH!Pc(v) \in Loaded \cup {"unlink", "sweep"}
          /\ procs'[v].file = procs[v].file
    BY <1>1, <1>3 DEF TH!Pc, Loaded, f
  <2>3. \A v \in Clients : TH!Pc(v)' \in Loaded \cup {"update"} =>
          /\ TH!Pc(v) \in Loaded \cup {"update"}
          /\ procs'[v].seen = procs[v].seen
    BY <1>1, <1>3 DEF TH!Pc, Loaded
  <2> QED BY <1>4, <2>1, <2>2, <2>3 DEF ThreadInv, OwnFiles
<1>7. Recorded'
  <2>1. \A v \in Clients : New(v)' => New(v) /\ procs'[v].file = procs[v].file
    BY <1>1, <1>3 DEF New, TH!Pc, f
  <2>2. \A v \in Clients : TH!Pc(v)' = "unlink" =>
          TH!Pc(v) = "unlink" /\ procs'[v] = procs[v]
    BY <1>1, <1>3 DEF TH!Pc
  <2> QED BY <1>4, <2>1, <2>2 DEF ThreadInv, Recorded
<1>8. TH!RecordsHaveBytes'
  <2>1. ~ghost.stale /\ TH!Pc(w) # "store" => rows.atts[f].kind # "upload"
    BY <1>3 DEF ThreadInv, Recorded, New, TH!Pc, f
  <2> QED BY <1>2, <1>4, <2>1 DEF ThreadInv, TH!RecordsHaveBytes
<1>9. Bytes'
  <2>1. ~ghost.stale => \A g \in outside'.files :
          \/ rows'.atts[g].kind = "upload" \/ g \in ghost'.left
          \/ \E v \in Clients :
               TH!Pc(v)' \in {"record", "unlink"} /\ procs'[v].file = g
    BY <1>1, <1>3, <1>4 DEF ThreadInv, Bytes, TH!Pc, f
  <2>2. ASSUME ~ghost.stale, NEW v \in Clients, TH!Pc(v)' = "record"
        PROVE  procs'[v].file \in outside'.files
    <3>1. CASE v = w
      BY <1>1, <1>3, <1>4, <2>2, <3>1 DEF TH!Pc
    <3>2. CASE v # w
      <4>1. /\ procs'[v] = procs[v] /\ TH!Pc(v) = "record"
            /\ procs[v].file \in outside.files
        BY <1>1, <2>2, <3>2 DEF TH!Pc, ThreadInv, Bytes
      <4>2. procs[v].file # f
        BY <1>3, <2>2, <3>2, <4>1 DEF ThreadInv, OwnFiles, Recorded, New, f
      <4> QED BY <1>4, <4>1, <4>2
    <3> QED BY <3>1, <3>2
  <2> QED BY <1>4, <2>1, <2>2 DEF Bytes
<1>10. Needed'
  BY <1>4 DEF ThreadInv, Needed
<1> QED BY <1>1, <1>4, <1>5, <1>6, <1>7, <1>8, <1>9, <1>10
        DEF ThreadInv, ThreadTyped

LEMMA FileSteps ==
  ASSUME ThreadConstants, ThreadInv, NEW w \in Clients,
         \/ TH!Store(w) \/ TH!AddFails(w) \/ TH!Unlink(w) \/ TH!Crash(w)
  PROVE  ThreadInv'
<1>1. /\ TH!Idle \in ClientStates /\ outside \in ThreadStore
      /\ [procs[w] EXCEPT !.pc = "record"] \in ClientStates
  BY ClientIs DEF ThreadInv, ThreadTyped, Loaded
<1>2. CASE TH!Store(w)
  <2>1. CASE TH!Done(w) /\ outside' = outside
    BY <1>2, <2>1, QuietSteps
  <2>2. CASE TH!To(w, "record")
               /\ outside' = [outside EXCEPT !.files = @ \cup {procs[w].file}]
    <3>1. procs' = [procs EXCEPT ![w] = [procs[w] EXCEPT !.pc = "record"]]
      BY <2>2 DEF TH!To
    <3> QED BY <1>1, <1>2, <2>2, <3>1, BytesSteps DEF TH!Store
  <2> QED BY <1>2, <2>1, <2>2 DEF TH!Store
<1>3. CASE TH!AddFails(w)
  BY <1>1, <1>3, BytesSteps DEF TH!AddFails, TH!Done
<1>4. CASE TH!Unlink(w)
  BY <1>1, <1>4, BytesSteps DEF TH!Unlink, TH!Done
<1>5. CASE TH!Crash(w)
  <2>1. CASE TH!Pc(w) \in {"record", "unlink"}
    BY <1>1, <1>5, <2>1, BytesSteps DEF TH!Crash, TH!Done
  <2>2. CASE TH!Pc(w) \notin {"record", "unlink"}
    <3>1. ghost' = ghost
      BY <1>5, <2>2 DEF TH!Crash, ThreadInv, ThreadTyped, ThreadGhosts
    <3> QED BY <1>1, <1>5, <2>2, <3>1, QuietKept DEF TH!Crash, TH!Done
  <2> QED BY <2>1, <2>2
<1> QED BY <1>2, <1>3, <1>4, <1>5

\* A client writes metadata with its file as a, or as it has seen it.
LEMMA SaveKept ==
  ASSUME ThreadConstants, ThreadInv, NEW w \in Clients, NEW s \in ClientStates,
         procs' = [procs EXCEPT ![w] = s], outside' = outside,
         NEW a \in Attachments, NEW m \in Metadata, TH!Saved(w, m),
         \/ /\ TH!Pc(w) = "record" /\ a.kind = "upload"
            /\ s = [procs[w] EXCEPT !.pc = "sweep"]
            /\ m = [procs[w].seen EXCEPT ![procs[w].file] = a]
         \/ /\ TH!Pc(w) = "refer" /\ a.kind = "reference" /\ s = TH!Idle
            /\ m = [procs[w].seen EXCEPT ![procs[w].file] = a]
         \/ /\ TH!Pc(w) = "remove" /\ TH!Removable(w) /\ a = TH!NoAtt
            /\ m = [procs[w].seen EXCEPT ![procs[w].file] = a]
            /\ IF procs[w].seen[procs[w].file].kind = "upload"
                 THEN s = [procs[w] EXCEPT !.pc = "unlink"] ELSE s = TH!Idle
         \/ TH!Pc(w) = "update" /\ m = procs[w].seen /\ s = TH!Idle
  PROVE  ThreadInv'
<1> DEFINE f == procs[w].file
           seen == procs[w].seen
<1>1. /\ procs' \in [Clients -> ClientStates] /\ procs'[w] = s
      /\ \A v \in Clients : v # w => procs'[v] = procs[v]
  BY ClientGoes
<1>2. /\ rows' \in ThreadRows /\ rows'.atts = m /\ rows'.conv = rows.conv
      /\ rows'.project = rows.project /\ rows'.req = rows.req
  BY DEF TH!Saved, ThreadInv, ThreadTyped, ThreadRows
<1>3. /\ ghost' \in ThreadGhosts /\ ghost'.ids = ghost.ids
      /\ ghost'.answers = ghost.answers /\ ghost'.needs = ghost.needs
      /\ ghost'.left = ghost.left
      /\ ~ghost'.stale => ~ghost.stale /\ seen = rows.atts
  BY DEF TH!Saved, ThreadInv, ThreadTyped, ThreadGhosts
<1>4. /\ TH!Pc(w) \in Loaded => f \in TH!Files
      /\ seen \in Metadata /\ rows.atts \in Metadata
  BY DEF ThreadInv, ThreadTyped, ThreadRows, OwnFiles, Loaded
<1>5. /\ procs[w] \in ClientStates
      /\ \/ TH!Pc(w) = "record" /\ s.pc = "sweep" /\ s.file = f
         \/ TH!Pc(w) = "remove" /\ s.pc = "unlink" /\ s.file = f
         \/ TH!Pc(w) \in {"refer", "remove", "update"} /\ s.pc = "idle"
  <2>1. procs[w] \in ClientStates /\ TH!Idle.pc = "idle"
    BY ClientIs DEF TH!Idle
  <2>2. ASSUME NEW p, s = [procs[w] EXCEPT !.pc = p]
        PROVE  s.pc = p /\ s.file = f
    BY <2>1, <2>2 DEF ClientStates
  <2> QED BY <2>1, <2>2
<1>6. Placed'
  BY <1>1, <1>2, <1>3, <1>5, PlacedKept DEF Creating
<1>7. OwnFiles'
  <2>1. \A v \in Clients : New(v)' => New(v) /\ procs'[v].file = procs[v].file
    BY <1>1, <1>5 DEF New, TH!Pc
  <2>2. \A v \in Clients : TH!Pc(v)' \in Loaded \cup {"unlink", "sweep"} =>
          /\ TH!Pc(v) \in Loaded \cup {"unlink", "sweep"}
          /\ procs'[v].file = procs[v].file
    BY <1>1, <1>5 DEF TH!Pc, Loaded
  <2>3. \A v \in Clients : TH!Pc(v)' \in Loaded \cup {"update"} =>
          /\ TH!Pc(v) \in Loaded \cup {"update"}
          /\ procs'[v].seen = procs[v].seen
    BY <1>1, <1>5 DEF TH!Pc, Loaded
  <2> QED BY <1>3, <2>1, <2>2, <2>3 DEF ThreadInv, OwnFiles
<1>8. ASSUME ~ghost'.stale
      PROVE  Recorded' /\ Bytes' /\ Needed' /\ TH!RecordsHaveBytes'
  <2>1. /\ ~ghost.stale /\ seen = rows.atts
        /\ \A g \in TH!Files : g # f => rows'.atts[g] = rows.atts[g]
        /\ TH!Pc(w) = "update" => rows'.atts = rows.atts
        /\ TH!Pc(w) # "update" => rows'.atts[f] = a
    BY <1>2, <1>3, <1>4, <1>8 DEF Metadata, Loaded
  <2>2. \A v \in Clients : New(v)' =>
          New(v) /\ procs'[v].file = procs[v].file /\ v # w
    BY <1>1, <1>5 DEF New, TH!Pc
  <2>3. /\ TH!Pc(w) \in {"record", "refer"} => rows.atts[f].kind = "none"
        /\ TH!Pc(w) = "remove" => rows.atts[f].kind # "none"
    BY <2>1 DEF ThreadInv, Recorded, New, TH!Removable
  <2>4. \A v \in Clients : New(v)' => procs'[v].file # f \/ TH!Pc(w) = "update"
    <3>1. TH!Pc(w) \in {"record", "refer"} => New(w)
      BY DEF New
    <3> QED BY <1>5, <2>1, <2>2, <2>3, <3>1 DEF ThreadInv, OwnFiles, Recorded
  <2>5. \A v \in Clients : procs'[v].file \in TH!Files \/ ~New(v)'
    BY <2>2 DEF ThreadInv, OwnFiles, New, Loaded
  <2>6. Recorded'
    <3>1. \A g \in TH!Files : g > ghost.ids => g # f \/ TH!Pc(w) = "update"
      <4>1. TH!Pc(w) # "update" => f \in Nat /\ f <= ghost.ids
        BY <1>5 DEF ThreadInv, OwnFiles, Loaded, TH!Files
      <4>2. TH!Files \subseteq Nat /\ ghost.ids \in Nat
        BY DEF TH!Files, ThreadInv, ThreadTyped, ThreadGhosts
      <4> QED BY <4>1, <4>2
    <3>2. \A g \in TH!Files : g > ghost'.ids => rows'.atts[g].kind = "none"
      BY <1>3, <2>1, <3>1 DEF ThreadInv, Recorded
    <3>3. \A v \in Clients : New(v)' => rows'.atts[procs'[v].file].kind = "none"
      BY <2>1, <2>2, <2>4, <2>5 DEF ThreadInv, Recorded
    <3>4. ASSUME NEW u \in Clients, TH!Pc(u)' = "unlink"
          PROVE  /\ rows'.atts[procs'[u].file].kind # "upload"
                 /\ \A v \in Clients : New(v)' => procs'[u].file # procs'[v].file
      <4>1. CASE u = w
        <5>1. TH!Pc(w) = "remove" /\ procs'[u].file = f /\ a.kind = "none"
          BY <1>1, <1>5, <3>4, <4>1 DEF TH!Pc, TH!NoAtt
        <5> QED BY <2>1, <2>4, <5>1
      <4>2. CASE u # w
        <5>1. /\ procs'[u] = procs[u] /\ TH!Pc(u) = "unlink"
              /\ procs[u].file \in TH!Files
          BY <1>1, <3>4, <4>2 DEF TH!Pc, ThreadInv, OwnFiles
        <5>2. /\ rows.atts[procs[u].file].kind # "upload"
              /\ \A v \in Clients : New(v) => procs[u].file # procs[v].file
          BY <2>1, <5>1 DEF ThreadInv, Recorded
        <5>3. TH!Pc(w) = "record" => procs[u].file # f
          BY <5>2 DEF New
        <5>4. rows'.atts[procs[u].file].kind # "upload"
          BY <1>5, <2>1, <5>1, <5>2, <5>3 DEF TH!NoAtt
        <5> QED BY <2>2, <5>1, <5>2, <5>4
      <4> QED BY <4>1, <4>2
    <3> QED BY <3>2, <3>3, <3>4 DEF Recorded
  <2>7. Bytes'
    <3>6. \A v \in Clients : TH!Pc(v)' = "record" =>
            procs'[v].file \in outside.files
      BY <1>1, <1>5, <2>1 DEF TH!Pc, ThreadInv, Bytes
    <3> SUFFICES ASSUME NEW g \in outside.files
                 PROVE  \/ rows'.atts[g].kind = "upload" \/ g \in ghost'.left
                        \/ \E v \in Clients :
                             /\ TH!Pc(v)' \in {"record", "unlink"}
                             /\ procs'[v].file = g
      BY <3>6 DEF Bytes
    <3>1. g \in TH!Files
      BY DEF ThreadInv, ThreadTyped, ThreadStore
    <3>2. CASE g = f /\ TH!Pc(w) = "record"
      BY <2>1, <3>2
    <3>3. CASE rows.atts[g].kind = "upload"
      <4>1. CASE g = f /\ TH!Pc(w) = "remove"
        <5>1. s = [procs[w] EXCEPT !.pc = "unlink"]
          BY <2>1, <3>3, <4>1
        <5>2. s.pc = "unlink" /\ s.file = f
          BY <1>5, <5>1 DEF ClientStates
        <5> QED BY <1>1, <4>1, <5>2 DEF TH!Pc
      <4>2. CASE g # f \/ TH!Pc(w) = "update"
        BY <2>1, <3>1, <3>3, <4>2
      <4>3. CASE g = f /\ TH!Pc(w) = "refer"
        BY <2>3, <3>3, <4>3
      <4> QED BY <1>5, <3>2, <4>1, <4>2, <4>3
    <3>4. CASE g \in ghost.left
      BY <1>3, <3>4
    <3>5. CASE \E v \in Clients : /\ TH!Pc(v) \in {"record", "unlink"}
                                  /\ procs[v].file = g
      BY <1>1, <1>5, <3>2, <3>5 DEF TH!Pc
    <3> QED BY <2>1, <3>3, <3>4, <3>5 DEF ThreadInv, Bytes
  <2>8. Needed'
    <3>1. ASSUME NEW g \in ghost.needs, TH!Pc(w) # "update" PROVE g # f
      <4>1. /\ rows.atts[g].used /\ rows.atts[g].kind # "none"
            /\ rows.req \in {"queued", "running"}
        BY <2>1 DEF ThreadInv, Needed
      <4> QED BY <1>5, <2>1, <2>3, <3>1, <4>1 DEF TH!Removable
    <3>2. \A g \in ghost.needs : g \in TH!Files
      BY DEF ThreadInv, ThreadTyped, ThreadGhosts
    <3> QED BY <1>2, <1>3, <2>1, <3>1, <3>2 DEF ThreadInv, Needed
  <2>9. TH!RecordsHaveBytes'
    <3>1. TH!Pc(w) = "record" => f \in outside.files
      BY <2>1 DEF ThreadInv, Bytes
    <3> QED BY <2>1, <3>1, <1>5 DEF ThreadInv, TH!RecordsHaveBytes, TH!NoAtt
  <2> QED BY <2>6, <2>7, <2>8, <2>9
<1>9. ghost'.stale => Recorded' /\ Bytes' /\ Needed' /\ TH!RecordsHaveBytes'
  BY DEF Recorded, Bytes, Needed, TH!RecordsHaveBytes
<1> QED BY <1>1, <1>2, <1>3, <1>6, <1>7, <1>8, <1>9 DEF ThreadInv, ThreadTyped

LEMMA SaveSteps ==
  ASSUME ThreadConstants, ThreadInv, NEW w \in Clients,
         \/ TH!AddRecord(w) \/ TH!AddReference(w) \/ TH!RemoveRecord(w)
         \/ TH!UpdateConversation(w)
  PROVE  ThreadInv'
<1>1. /\ procs[w] \in ClientStates /\ TH!Idle \in ClientStates
      /\ [procs[w] EXCEPT !.pc = "sweep"] \in ClientStates
      /\ [procs[w] EXCEPT !.pc = "unlink"] \in ClientStates
  BY ClientIs
<1>2. /\ procs[w].seen \in Metadata
      /\ \A a \in Attachments :
           [procs[w].seen EXCEPT ![procs[w].file] = a] \in Metadata
  <2>1. procs[w].seen \in Metadata
    BY DEF TH!AddRecord, TH!AddReference, TH!RemoveRecord,
           TH!UpdateConversation, ThreadInv, OwnFiles, Loaded
  <2> QED BY <2>1 DEF Metadata
<1>3. /\ [kind |-> "upload", used |-> FALSE] \in Attachments
      /\ [kind |-> "reference", used |-> FALSE] \in Attachments
      /\ TH!NoAtt \in Attachments
  BY DEF Attachments, TH!NoAtt
<1>4. CASE TH!AddRecord(w)
  <2>1. procs' = [procs EXCEPT ![w] = [procs[w] EXCEPT !.pc = "sweep"]]
    BY <1>4 DEF TH!AddRecord, TH!To
  <2>2. PICK a \in Attachments : a = [kind |-> "upload", used |-> FALSE]
    BY <1>3
  <2>3. PICK m \in Metadata : m = [procs[w].seen EXCEPT ![procs[w].file] = a]
    BY <1>2
  <2> QED BY <1>1, <1>4, <2>1, <2>2, <2>3, SaveKept DEF TH!AddRecord
<1>5. CASE TH!AddReference(w)
  <2>1. PICK a \in Attachments : a = [kind |-> "reference", used |-> FALSE]
    BY <1>3
  <2>2. PICK m \in Metadata : m = [procs[w].seen EXCEPT ![procs[w].file] = a]
    BY <1>2
  <2> QED BY <1>1, <1>5, <2>1, <2>2, SaveKept DEF TH!AddReference, TH!Done
<1>6. CASE TH!RemoveRecord(w)
  <2>1. CASE TH!Removable(w)
    <3>1. PICK m \in Metadata :
            m = [procs[w].seen EXCEPT ![procs[w].file] = TH!NoAtt]
      BY <1>2, <1>3
    <3>2. PICK s \in ClientStates :
            /\ procs' = [procs EXCEPT ![w] = s]
            /\ IF procs[w].seen[procs[w].file].kind = "upload"
                 THEN s = [procs[w] EXCEPT !.pc = "unlink"] ELSE s = TH!Idle
      BY <1>1, <1>6, <2>1 DEF TH!RemoveRecord, TH!To, TH!Done
    <3> QED BY <1>3, <1>6, <2>1, <3>1, <3>2, SaveKept DEF TH!RemoveRecord
  <2>2. CASE ~TH!Removable(w)
    BY <1>6, <2>2, QuietKept DEF TH!RemoveRecord, TH!Done, ThreadInv, ThreadTyped
  <2> QED BY <2>1, <2>2
<1>7. CASE TH!UpdateConversation(w)
  BY <1>1, <1>2, <1>3, <1>7, SaveKept DEF TH!UpdateConversation, TH!Done
<1> QED BY <1>4, <1>5, <1>6, <1>7

\* A request is submitted with an attachment, and is done.
LEMMA RequestKept ==
  ASSUME ThreadConstants, ThreadInv,
         \/ TH!Finish
         \/ \E f \in TH!Files, st \in {"queued", "running"} : TH!Submit(f, st)
  PROVE  ThreadInv'
<1>1. /\ procs' = procs /\ outside' = outside /\ rows \in ThreadRows
      /\ ghost \in ThreadGhosts /\ rows.atts \in Metadata
  BY DEF TH!Finish, TH!Submit, ThreadInv, ThreadTyped, ThreadRows
<1>2. /\ rows' \in ThreadRows /\ rows'.conv = rows.conv
      /\ rows'.project = rows.project
      /\ \A f \in TH!Files : /\ rows'.atts[f].kind = rows.atts[f].kind
                             /\ rows.atts[f].used => rows'.atts[f].used
  <2>1. CASE TH!Finish
    BY <1>1, <2>1 DEF TH!Finish, ThreadRows
  <2>2. CASE \E f \in TH!Files, st \in {"queued", "running"} : TH!Submit(f, st)
    <3>1. PICK f \in TH!Files, st \in {"queued", "running"} :
            rows' = [rows EXCEPT !.req = st, !.atts[f].used = TRUE]
      BY <2>2 DEF TH!Submit
    <3>2. rows'.atts = [rows.atts EXCEPT ![f].used = TRUE]
      BY <1>1, <3>1 DEF ThreadRows
    <3>3. rows'.atts \in Metadata
      BY <1>1, <3>2 DEF Metadata, Attachments
    <3>4. rows' \in ThreadRows /\ rows'.conv = rows.conv
            /\ rows'.project = rows.project
      BY <1>1, <3>1, <3>3 DEF ThreadRows
    <3> QED BY <1>1, <3>2, <3>4 DEF Metadata, Attachments
  <2> QED BY <2>1, <2>2
<1>3. /\ ghost' \in ThreadGhosts /\ ghost'.answers = ghost.answers
      /\ ghost'.ids = ghost.ids /\ ghost'.left = ghost.left
      /\ ghost'.stale = ghost.stale
  <2>1. PICK n \in SUBSET TH!Files : ghost' = [ghost EXCEPT !.needs = n]
    BY DEF TH!Finish, TH!Submit
  <2> QED BY <1>1, <2>1 DEF ThreadGhosts
<1>4. Placed'
  BY <1>1, <1>2, <1>3, PlacedKept
<1>5. OwnFiles'
  BY <1>1, <1>3 DEF ThreadInv, OwnFiles, New, TH!Pc
<1>6. Recorded'
  BY <1>1, <1>2, <1>3 DEF ThreadInv, OwnFiles, Recorded, New, TH!Pc, Loaded
<1>7. Bytes' /\ TH!RecordsHaveBytes'
  BY <1>1, <1>2, <1>3 DEF ThreadInv, ThreadTyped, ThreadStore, Bytes, TH!Pc,
     TH!RecordsHaveBytes
<1>8. Needed'
  <2>1. CASE TH!Finish
    BY <1>1, <2>1 DEF TH!Finish, ThreadGhosts, Needed
  <2>2. CASE \E f \in TH!Files, st \in {"queued", "running"} : TH!Submit(f, st)
    <3>1. PICK f \in TH!Files, st \in {"queued", "running"} :
            /\ rows.atts[f].kind # "none"
            /\ rows' = [rows EXCEPT !.req = st, !.atts[f].used = TRUE]
            /\ ghost' = [ghost EXCEPT !.needs = {f}]
      BY <2>2 DEF TH!Submit
    <3>2. ghost'.needs = {f} /\ rows'.req = st
      BY <1>1, <3>1 DEF ThreadGhosts, ThreadRows
    <3>3. rows'.atts[f].used
      BY <1>1, <3>1 DEF ThreadRows, Metadata, Attachments
    <3> QED BY <1>2, <3>1, <3>2, <3>3 DEF Needed
  <2> QED BY <2>1, <2>2
<1> QED BY <1>1, <1>2, <1>3, <1>4, <1>5, <1>6, <1>7, <1>8
        DEF ThreadInv, ThreadTyped

LEMMA ThreadStep ==
  ASSUME ThreadConstants, ThreadInv, [TH!Next]_(TH!vars) PROVE ThreadInv'
<1>1. CASE UNCHANGED TH!vars
  BY <1>1 DEF TH!vars, ThreadInv, ThreadTyped, Placed, OwnFiles, Recorded, Bytes,
     Needed, New, TH!Pc, TH!NoOrphanConversation, TH!IntentKept,
     TH!RecordsHaveBytes
<1>2. CASE TH!Next
  BY <1>2, ProjectsKept, QuietSteps, RequestKept, LookKept, CreateSteps,
     AddKept, AnswerKept, LoadSteps, FileSteps, SaveSteps DEF TH!Next, Projects
<1> QED BY <1>1, <1>2

LEMMA ThreadSafe == ASSUME ThreadInv PROVE TH!ThreadsSafe
BY DEF ThreadInv, Placed, Bytes, Needed, TH!RequestKeepsFiles, TH!NoStrayBytes,
       TH!ThreadsSafe

\* A live conversation belongs to a live project, a client gets the project
\* it asked for, records have their bytes, requests their files, and no bytes
\* are lost track of, for any number of clients and attachments
\* (services/conversation_service.py, attachment_service.py).
THEOREM ThreadsAreSafe == ThreadConstants => (TH!Spec => []TH!ThreadsSafe)
<1> SUFFICES ASSUME ThreadConstants PROVE TH!Spec => []TH!ThreadsSafe
  OBVIOUS
<1>1. TH!Init => ThreadInv
  BY ThreadInit
<1>2. ThreadInv /\ [TH!Next]_(TH!vars) => ThreadInv'
  BY ThreadStep
<1>3. ThreadInv => TH!ThreadsSafe
  BY ThreadSafe
<1> QED BY <1>1, <1>2, <1>3, PTL DEF TH!Spec

-----------------------------------------------------------------------------
(* Accounts, keys and logins.                                              *)

\* Request ids of keys are not codes of CLIs; accounts of OIDC subjects are
\* named for them, or, in raw mode, none is.
IdentityConstants ==
  /\ NoOne \notin Users \cup Keys \cup Codes \cup Subs
  /\ Keys \cap Codes = {} /\ There \subseteq Users
  /\ MaxFails \in Nat /\ Raw \in BOOLEAN
  /\ OidcRole \in {"user", "admin", "superadmin"}
  /\ IF Raw THEN Users \cap Subs = {} ELSE Subs \subseteq Users

UserRows ==
  [st : {"none", "active", "deleted"}, role : {"user", "admin", "superadmin"},
   dept : Nat, pw : {"own", "set", "wiped"}, fails : Nat, locked : BOOLEAN]
KeyRows ==
  [user : Users \cup {NoOne}, dept : Nat, enabled : BOOLEAN, revoked : BOOLEAN]
CodeRows ==
  [st : {"none", "pending", "approved", "consumed", "expired"},
   user : Users \cup {NoOne}, over : BOOLEAN]
AllKeys == Keys \cup Codes
IdentityRows ==
  [user : [Users -> UserRows], key : [AllKeys -> KeyRows],
   cli : [Codes -> CodeRows], dept : SUBSET (Nat \ {0}),
   bound : SUBSET (Subs \X Users)]
Callbacks == {"token", "bind", "restore", "create"}
Requests ==
  [at : {"idle", "init", "write", "key", "keywrite", "login"} \cup Callbacks,
   user : Users \cup {NoOne}, key : AllKeys \cup Subs \cup {NoOne}, val : Nat]
IdentityGhosts ==
  [late : BOOLEAN, raced : BOOLEAN, dead : SUBSET AllKeys,
   fails : [Users -> Nat]]
IdentityTyped ==
  /\ rows \in IdentityRows /\ procs \in [Workers -> Requests]
  /\ outside \in [tokens : SUBSET (Subs \X Users)] /\ ghost \in IdentityGhosts
  /\ \A w \in Workers :
       /\ procs[w].at \in {"write", "key", "login"} \cup Callbacks =>
            procs[w].user \in Users
       /\ procs[w].at \in {"key", "keywrite"} => procs[w].key \in AllKeys
       /\ procs[w].at \in Callbacks => procs[w].key \in Subs

\* Accounts are in departments that are there, the first of them among these;
\* a request that has read an account finds it, be it deleted meanwhile.
Members ==
  /\ \A u \in Users : IF rows.user[u].st = "none" THEN rows.user[u] = ID!NoUser
                      ELSE rows.user[u].dept \in rows.dept
  /\ rows.dept # {} => ID!Default \in rows.dept
  /\ \A w \in Workers : procs[w].at \in {"write", "login", "restore", "bind"} =>
       rows.user[procs[w].user].st # "none"

\* One request at a time initialises a system, and one that has no superadmin
\* unless logins by OIDC make them.
FirstRun ==
  /\ OidcRole # "superadmin" =>
       /\ \A u, v \in Users :
            rows.user[u].role = "superadmin"
              /\ rows.user[v].role = "superadmin" => u = v
       /\ \A w \in Workers : procs[w].at = "init" =>
            \A u \in Users : rows.user[u].role # "superadmin"
  /\ \A v, w \in Workers :
       procs[v].at = "init" /\ procs[w].at = "init" => v = w

\* Who makes a key holds its id, the account and, for a CLI, the approval.
MakesKey(w) ==
  LET k == procs[w].key  u == procs[w].user
  IN /\ ID!Active(u) /\ rows.key[k].user = NoOne
     /\ procs[w].val \in {0, rows.user[u].dept}
     /\ k \in Codes => rows.cli[k].st = "approved" /\ rows.cli[k].user = u
     /\ \A v \in Workers : procs[v].at = "key" /\ procs[v].key = k => v = w
KeysHeld ==
  /\ \A k \in AllKeys : rows.key[k].user = NoOne => rows.key[k] = ID!NoKey
  /\ \A w \in Workers : procs[w].at = "key" => MakesKey(w)
  /\ \A w \in Workers : procs[w].at = "keywrite" =>
       rows.key[procs[w].key].user # NoOne
  /\ \A k \in ghost.dead : rows.key[k].revoked
  /\ \A c \in Codes : rows.cli[c].st = "approved" => rows.cli[c].user \in Users
  /\ ID!DeletedHasNoKey /\ ID!KeyDepartmentThere /\ ID!CliKeyIsApprovers

\* A login that no other one overlaps has read the number of failures.
Counted ==
  /\ ID!FailuresCounted
  /\ ~ghost.raced =>
       \A w \in Workers : procs[w].at = "login" =>
         /\ procs[w].val = rows.user[procs[w].user].fails
         /\ ~rows.user[procs[w].user].locked /\ MaxFails > 0
         /\ \A v \in Workers :
              procs[v].at = "login" /\ procs[v].user = procs[w].user => v = w

\* An account that is a subject's alone.
Its(s, u) == u \in ID!BySub(s, "active") /\ ~ID!Shared(u)

\* A subject has one account of its own at most; its callback has found no
\* other one, or none.
CalledBack(w) ==
  LET s == procs[w].key  u == procs[w].user
  IN /\ procs[w].at = "bind" =>
          \A x \in Users : Its(s, x) => x = u
     /\ procs[w].at = "restore" =>
          /\ \A x \in Users : ~Its(s, x)
          /\ IF Raw THEN <<s, u>> \in rows.bound ELSE u = s
     /\ procs[w].at = "create" =>
          (\A x \in Users : ~Its(s, x)) /\ (Raw \/ u = s)
     /\ \A v \in Workers :
          procs[v].at \in Callbacks /\ procs[v].key = s => v = w
Bindings ==
  /\ Raw \/ rows.bound = {}
  /\ \A s \in Subs, u \in Users :
       <<s, u>> \in rows.bound => rows.user[u].st # "none"
  /\ ~ghost.raced =>
       /\ \A s \in Subs, u, v \in Users : Its(s, u) /\ Its(s, v) => u = v
       /\ \A w \in Workers : procs[w].at \in Callbacks => CalledBack(w)

IdentityInv ==
  /\ IdentityTyped /\ Members /\ FirstRun /\ KeysHeld /\ Counted
  /\ ID!DeletedStaysWiped /\ Bindings

LEMMA IdentityInit == ASSUME IdentityConstants, ID!Init PROVE IdentityInv
<1>1. IdentityTyped
  <2>1. /\ ID!NoUser \in UserRows /\ [ID!NoUser EXCEPT !.st = "active"] \in UserRows
    BY DEF ID!NoUser, UserRows, ID!Default
  <2>2. ID!NoKey \in KeyRows /\ ID!NoCode \in CodeRows /\ ID!Idle \in Requests
    BY DEF ID!NoKey, KeyRows, ID!NoCode, CodeRows, ID!Idle, Requests
  <2>3. rows \in IdentityRows
    BY <2>1, <2>2 DEF ID!Init, IdentityRows, AllKeys, ID!Default
  <2>4. procs \in [Workers -> Requests] /\ \A w \in Workers : procs[w].at = "idle"
    BY <2>2 DEF ID!Init, ID!Idle
  <2> QED BY <2>3, <2>4 DEF IdentityTyped, ID!Init, IdentityGhosts, Callbacks
<1>2. Members
  BY DEF ID!Init, Members, ID!NoUser, ID!Default, ID!Idle
<1>3. FirstRun
  BY DEF ID!Init, FirstRun, ID!NoUser, ID!Idle
<1>4. KeysHeld
  BY DEF ID!Init, KeysHeld, ID!NoKey, ID!NoCode, ID!Idle, AllKeys,
         ID!DeletedHasNoKey, ID!KeyDepartmentThere, ID!CliKeyIsApprovers
<1>5. Counted /\ ID!DeletedStaysWiped
  BY DEF IdentityConstants, ID!Init, Counted, ID!NoUser, ID!Idle,
         ID!FailuresCounted, ID!DeletedStaysWiped
<1>6. Bindings
  BY DEF ID!Init, Bindings, Its, ID!BySub, ID!Idle, Callbacks
<1> QED BY <1>1, <1>2, <1>3, <1>4, <1>5, <1>6 DEF IdentityInv

\* What the parts of the invariant rest on.
LEMMA MembersKept ==
  ASSUME IdentityInv, rows'.user = rows.user, rows'.dept = rows.dept,
         \A w \in Workers :
           procs'[w].at \in {"write", "login", "restore", "bind"} =>
             procs'[w] = procs[w] \/ rows.user[procs'[w].user].st # "none"
  PROVE  Members'
BY DEF IdentityInv, Members

LEMMA FirstKept ==
  ASSUME IdentityInv,
         OidcRole # "superadmin" =>
           \A u \in Users : rows'.user[u].role = "superadmin" =>
                              rows.user[u].role = "superadmin",
         \A w \in Workers : procs'[w].at = "init" => procs[w].at = "init"
  PROVE  FirstRun'
BY DEF IdentityInv, FirstRun

LEMMA KeysKept ==
  ASSUME IdentityInv, rows' \in IdentityRows, rows'.key = rows.key,
         rows'.cli = rows.cli, rows.dept \subseteq rows'.dept,
         ghost'.dead = ghost.dead,
         \A u \in Users :
           rows'.user[u].st = "deleted" => rows.user[u].st = "deleted",
         \A w \in Workers : procs'[w].at = "key" =>
           /\ procs'[w] = procs[w]
           /\ rows'.user[procs[w].user] = rows.user[procs[w].user],
         \A w \in Workers : procs'[w].at = "keywrite" => procs'[w] = procs[w]
  PROVE  KeysHeld'
<1>1. \A w \in Workers : procs'[w].at = "key" => MakesKey(w)'
  BY DEF IdentityInv, KeysHeld, MakesKey, ID!Active
<1>2. /\ ID!DeletedHasNoKey' /\ ID!KeyDepartmentThere' /\ ID!CliKeyIsApprovers'
  <2>1. \A k \in AllKeys : rows.key[k].user \in Users \cup {NoOne}
    BY DEF IdentityInv, IdentityTyped, IdentityRows, KeyRows
  <2>2. DOMAIN rows.key = AllKeys
    BY DEF IdentityInv, IdentityTyped, IdentityRows
  <2> QED BY <2>1, <2>2 DEF IdentityInv, KeysHeld, ID!DeletedHasNoKey,
             ID!KeyDepartmentThere, ID!CliKeyIsApprovers
<1> QED BY <1>1, <1>2 DEF IdentityInv, KeysHeld

LEMMA CountedKept ==
  ASSUME IdentityInv, ghost.raced => ghost'.raced, ghost'.fails = ghost.fails,
         \A u \in Users : /\ rows'.user[u].fails = rows.user[u].fails
                          /\ rows'.user[u].locked = rows.user[u].locked,
         \A w \in Workers : procs'[w].at = "login" => procs'[w] = procs[w]
  PROVE  Counted'
<1>1. ID!FailuresCounted'
  BY DEF IdentityInv, Counted, ID!FailuresCounted
<1>2. \A w \in Workers : procs[w].at = "login" => procs[w].user \in Users
  BY DEF IdentityInv, IdentityTyped
<1> QED BY <1>1, <1>2 DEF IdentityInv, Counted

LEMMA BindingsKept ==
  ASSUME IdentityInv, rows' \in IdentityRows, rows'.bound = rows.bound,
         ghost.raced => ghost'.raced,
         \A u \in Users :
           /\ rows.user[u].st # "none" => rows'.user[u].st # "none"
           /\ rows'.user[u].st = "active" =>
                \/ rows.user[u].st = "active"
                \/ rows.user[u].st = "none" /\ u \notin Subs,
         \A w \in Workers : procs'[w].at \in Callbacks => procs'[w] = procs[w]
  PROVE  Bindings'
<1>1. ASSUME NEW s \in Subs, NEW u \in Users, Its(s, u)' PROVE Its(s, u)
  <2>1. rows'.user[u].st = "active" /\ (u = s \/ <<s, u>> \in rows.bound)
    BY <1>1 DEF Its, ID!BySub
  <2>2. rows.user[u].st = "active"
    BY <2>1 DEF IdentityInv, Bindings
  <2>3. ~ID!Shared(u)
    BY <1>1 DEF Its, ID!Shared
  <2> QED BY <2>1, <2>2, <2>3 DEF Its, ID!BySub
<1>2. \A w \in Workers : procs[w].at \in Callbacks =>
        procs[w].key \in Subs /\ procs[w].user \in Users
  BY DEF IdentityInv, IdentityTyped
<1>3. ASSUME ~ghost'.raced, NEW w \in Workers, procs'[w].at \in Callbacks
      PROVE  CalledBack(w)'
  <2>1. procs'[w] = procs[w] /\ CalledBack(w)
    BY <1>3 DEF IdentityInv, Bindings
  <2> QED BY <1>1, <1>2, <1>3, <2>1 DEF CalledBack
<1>4. /\ Raw \/ rows'.bound = {}
      /\ \A s \in Subs, u \in Users :
           <<s, u>> \in rows'.bound => rows'.user[u].st # "none"
  BY DEF IdentityInv, Bindings
<1>5. ~ghost'.raced =>
        \A s \in Subs, u, v \in Users : Its(s, u)' /\ Its(s, v)' => u = v
  BY <1>1 DEF IdentityInv, Bindings
<1> QED BY <1>3, <1>4, <1>5 DEF Bindings

LEMMA RequestGoes ==
  ASSUME IdentityInv, NEW w \in Workers, NEW r \in Requests,
         procs' = [procs EXCEPT ![w] = r],
         r.at \in {"write", "key", "login"} \cup Callbacks => r.user \in Users,
         r.at \in {"key", "keywrite"} => r.key \in AllKeys,
         r.at \in Callbacks => r.key \in Subs
  PROVE  /\ procs' \in [Workers -> Requests] /\ procs'[w] = r
         /\ \A v \in Workers : v # w => procs'[v] = procs[v]
         /\ \A v \in Workers :
              /\ procs'[v].at \in {"write", "key", "login"} \cup Callbacks =>
                   procs'[v].user \in Users
              /\ procs'[v].at \in {"key", "keywrite"} => procs'[v].key \in AllKeys
              /\ procs'[v].at \in Callbacks => procs'[v].key \in Subs
BY DEF IdentityInv, IdentityTyped

LEMMA RequestEnds ==
  ASSUME IdentityInv, NEW w \in Workers, ID!Ends(w)
  PROVE  /\ procs' \in [Workers -> Requests] /\ procs'[w].at = "idle"
         /\ \A v \in Workers : v # w => procs'[v] = procs[v]
         /\ \A v \in Workers :
              /\ procs'[v].at \in {"write", "key", "login"} \cup Callbacks =>
                   procs'[v].user \in Users
              /\ procs'[v].at \in {"key", "keywrite"} => procs'[v].key \in AllKeys
              /\ procs'[v].at \in Callbacks => procs'[v].key \in Subs
<1>1. ID!Idle \in Requests /\ ID!Idle.at = "idle"
  BY DEF ID!Idle, Requests
<1> QED BY <1>1, RequestGoes DEF ID!Ends, Callbacks

\* Steps that read: nothing but the request changes.
LEMMA ReadSteps ==
  ASSUME IdentityConstants, IdentityInv, NEW w \in Workers, NEW r \in Requests,
         procs' = [procs EXCEPT ![w] = r], rows' = rows, outside' = outside,
         ghost' = ghost, r.at \in {"write", "key", "login"} => r.user \in Users,
         r.at \in {"key", "keywrite"} => r.key \in AllKeys,
         r.at \notin Callbacks \cup {"login"},
         r.at = "write" => ID!Active(r.user),
         r.at = "init" => ID!InitFree /\ \A u \in Users : rows.user[u].st = "none",
         r.at = "key" =>
           /\ ID!Active(r.user) /\ rows.key[r.key].user = NoOne
           /\ r.val \in {0, rows.user[r.user].dept}
           /\ r.key \in Codes => rows.cli[r.key].st = "approved"
                                   /\ rows.cli[r.key].user = r.user
           /\ \A v \in Workers : procs[v].at = "key" => procs[v].key # r.key,
         r.at = "keywrite" => rows.key[r.key].user # NoOne
  PROVE  IdentityInv'
<1>1. /\ procs' \in [Workers -> Requests] /\ procs'[w] = r
      /\ \A v \in Workers : v # w => procs'[v] = procs[v]
      /\ \A v \in Workers :
           /\ procs'[v].at \in {"write", "key", "login"} \cup Callbacks =>
                procs'[v].user \in Users
           /\ procs'[v].at \in {"key", "keywrite"} => procs'[v].key \in AllKeys
           /\ procs'[v].at \in Callbacks => procs'[v].key \in Subs
  BY RequestGoes
<1>2. IdentityTyped'
  BY <1>1 DEF IdentityInv, IdentityTyped
<1>3. FirstRun'
  <2>1. r.at = "init" => /\ \A v \in Workers : procs[v].at # "init"
                         /\ \A u \in Users : rows.user[u].role # "superadmin"
    BY DEF ID!InitFree, ID!At, IdentityInv, Members, ID!NoUser
  <2> QED BY <1>1, <2>1 DEF IdentityInv, FirstRun
<1>4. KeysHeld'
  <2>1. \A v \in Workers : procs'[v].at = "key" => MakesKey(v)'
    BY <1>1 DEF IdentityInv, KeysHeld, MakesKey, ID!Active
  <2> QED BY <1>1, <2>1 DEF IdentityInv, KeysHeld, ID!DeletedHasNoKey,
             ID!KeyDepartmentThere, ID!CliKeyIsApprovers
<1>5. Counted'
  BY <1>1, CountedKept
<1>6. Bindings'
  BY <1>1, BindingsKept DEF IdentityInv, IdentityTyped
<1>7. Members' /\ ID!DeletedStaysWiped'
  BY <1>1, MembersKept DEF IdentityInv, ID!DeletedStaysWiped, ID!Active, Callbacks
<1> QED BY <1>2, <1>3, <1>4, <1>5, <1>6, <1>7 DEF IdentityInv

LEMMA LockSteps ==
  ASSUME IdentityConstants, IdentityInv, NEW w \in Workers, NEW k \in AllKeys,
         NEW u \in Users, NEW d \in Nat, ID!LockForKey(w, k, u, d),
         k \in Codes => rows.cli[k].st = "approved" /\ rows.cli[k].user = u,
         UNCHANGED <<rows, outside, ghost>>
  PROVE  IdentityInv'
<1> DEFINE r == [at |-> "key", user |-> u, key |-> k, val |-> d]
<1>1. r \in Requests /\ r.at = "key" /\ r.user = u /\ r.key = k /\ r.val = d
  BY DEF Requests
<1>2. procs' = [procs EXCEPT ![w] = r] /\ r.at \notin Callbacks \cup {"login"}
  BY <1>1 DEF ID!LockForKey, ID!Goes, Callbacks
<1>3. /\ ID!Active(u) /\ rows.key[k].user = NoOne
      /\ d \in {0, rows.user[u].dept}
      /\ \A v \in Workers : procs[v].at = "key" => procs[v].key # k
  BY DEF ID!LockForKey, ID!At
<1> HIDE DEF r
<1> QED BY <1>1, <1>2, <1>3, ReadSteps

LEMMA KeyRequests ==
  ASSUME IdentityConstants, IdentityInv, NEW w \in Workers,
         \/ \E k \in Keys, u \in Users, d \in {0} \cup rows.dept :
              ID!CreateKey(w, k, u, d)
         \/ \E c \in Codes : ID!CliExchange(w, c)
  PROVE  IdentityInv'
<1>1. ASSUME NEW k \in Keys, NEW u \in Users, NEW d \in {0} \cup rows.dept,
             ID!CreateKey(w, k, u, d)
      PROVE  IdentityInv'
  <2>1. k \in AllKeys /\ k \notin Codes /\ d \in Nat
    BY DEF IdentityConstants, AllKeys, IdentityInv, IdentityTyped, IdentityRows
  <2> QED BY <1>1, <2>1, LockSteps DEF ID!CreateKey
<1>2. ASSUME NEW c \in Codes, ID!CliExchange(w, c) PROVE IdentityInv'
  <2>1. c \in AllKeys /\ rows.cli[c].st = "approved" /\ rows.cli[c].user \in Users
    BY <1>2 DEF AllKeys, ID!CliExchange, IdentityInv, KeysHeld
  <2> QED BY <1>2, <2>1, LockSteps DEF ID!CliExchange
<1> QED BY <1>1, <1>2

LEMMA QuietRequests ==
  ASSUME IdentityConstants, IdentityInv, NEW w \in Workers,
         \/ ID!Initialize(w) \/ ID!Rollback(w)
         \/ \E u \in There : ID!ReadUser(w, u)
         \/ \E k \in Keys \cup Codes : ID!ReadKey(w, k)
  PROVE  IdentityInv'
<1>1. ASSUME ID!Initialize(w) PROVE IdentityInv'
  <2> DEFINE r == [at |-> "init", user |-> NoOne, key |-> NoOne, val |-> 0]
  <2>1. r \in Requests /\ r.at = "init"
    BY DEF Requests
  <2>2. procs' = [procs EXCEPT ![w] = r] /\ r.at \notin Callbacks \cup {"login"}
    BY <1>1, <2>1 DEF ID!Initialize, ID!Goes, Callbacks
  <2> HIDE DEF r
  <2> QED BY <1>1, <2>1, <2>2, ReadSteps DEF ID!Initialize
<1>2. ASSUME ID!Rollback(w) PROVE IdentityInv'
  <2>1. ID!Idle \in Requests /\ ID!Idle.at = "idle"
    BY DEF Requests, ID!Idle
  <2>2. procs' = [procs EXCEPT ![w] = ID!Idle]
    BY <1>2 DEF ID!Rollback, ID!Ends
  <2>3. ID!Idle.at \notin Callbacks \cup {"login"}
    BY <2>1 DEF Callbacks
  <2> QED BY <1>2, <2>1, <2>2, <2>3, ReadSteps DEF ID!Rollback
<1>3. ASSUME NEW u \in There, ID!ReadUser(w, u) PROVE IdentityInv'
  <2>1. PICK what \in {0} \cup rows.dept : ID!Goes(w, "write", u, NoOne, what)
    BY <1>3 DEF ID!ReadUser, ID!Password
  <2> DEFINE r == [at |-> "write", user |-> u, key |-> NoOne, val |-> what]
  <2>2. what \in Nat
    BY DEF IdentityInv, IdentityTyped, IdentityRows
  <2>3. r \in Requests /\ r.at = "write" /\ r.user = u /\ u \in Users
    BY <2>2 DEF Requests, IdentityConstants
  <2>4. procs' = [procs EXCEPT ![w] = r] /\ r.at \notin Callbacks \cup {"login"}
    BY <2>1, <2>3 DEF ID!Goes, Callbacks
  <2> HIDE DEF r
  <2> QED BY <1>3, <2>3, <2>4, ReadSteps DEF ID!ReadUser
<1>4. ASSUME NEW k \in AllKeys, ID!ReadKey(w, k) PROVE IdentityInv'
  <2>1. PICK how \in {0, 1, 2} : ID!Goes(w, "keywrite", NoOne, k, how)
    BY <1>4 DEF ID!ReadKey, ID!Off, ID!On, ID!Drop
  <2> DEFINE r == [at |-> "keywrite", user |-> NoOne, key |-> k, val |-> how]
  <2>2. r \in Requests /\ r.at = "keywrite" /\ r.key = k
    BY DEF Requests
  <2>3. procs' = [procs EXCEPT ![w] = r] /\ r.at \notin Callbacks \cup {"login"}
    BY <2>1, <2>2 DEF ID!Goes, Callbacks
  <2> HIDE DEF r
  <2> QED BY <1>4, <2>2, <2>3, ReadSteps DEF ID!ReadKey
<1> QED BY <1>1, <1>2, <1>3, <1>4 DEF AllKeys

LEMMA LoginReads ==
  ASSUME IdentityConstants, IdentityInv, NEW w \in Workers, NEW u \in Users,
         ID!LoginRead(w, u)
  PROVE  IdentityInv'
<1> DEFINE r == [at |-> "login", user |-> u, key |-> NoOne,
                 val |-> rows.user[u].fails]
<1>1. rows.user[u].fails \in Nat /\ ghost \in IdentityGhosts
  BY DEF IdentityInv, IdentityTyped, IdentityRows, UserRows
<1>2. /\ r \in Requests /\ r.at = "login" /\ r.user = u
      /\ r.val = rows.user[u].fails
  BY <1>1 DEF Requests
<1>3. procs' = [procs EXCEPT ![w] = r] /\ r.at \notin Callbacks
  BY <1>2 DEF ID!LoginRead, ID!Goes, Callbacks
<1>4. /\ ID!Active(u) /\ ~rows.user[u].locked /\ MaxFails > 0
      /\ rows' = rows /\ outside' = outside
      /\ ghost' = [ghost EXCEPT !.raced =
                     @ \/ \E v \in ID!At("login") : procs[v].user = u]
  BY DEF ID!LoginRead
<1>5. /\ ghost' \in IdentityGhosts /\ ghost'.late = ghost.late
      /\ ghost'.dead = ghost.dead /\ ghost'.fails = ghost.fails
      /\ ghost.raced => ghost'.raced
      /\ ~ghost'.raced =>
           \A v \in Workers : procs[v].at = "login" => procs[v].user # u
  BY <1>1, <1>4 DEF IdentityGhosts, ID!At
<1> HIDE DEF r
<1>6. /\ procs' \in [Workers -> Requests] /\ procs'[w] = r
      /\ \A v \in Workers : v # w => procs'[v] = procs[v]
      /\ \A v \in Workers :
           /\ procs'[v].at \in {"write", "key", "login"} \cup Callbacks =>
                procs'[v].user \in Users
           /\ procs'[v].at \in {"key", "keywrite"} => procs'[v].key \in AllKeys
           /\ procs'[v].at \in Callbacks => procs'[v].key \in Subs
  BY <1>2, <1>3, RequestGoes
<1>7. IdentityTyped'
  BY <1>4, <1>5, <1>6 DEF IdentityInv, IdentityTyped
<1>8. Members' /\ FirstRun' /\ ID!DeletedStaysWiped'
  <2>1. Members'
    BY <1>2, <1>4, <1>6, MembersKept DEF ID!Active
  <2>2. FirstRun'
    BY <1>2, <1>4, <1>6, FirstKept
  <2> QED BY <2>1, <2>2, <1>4, <1>5 DEF IdentityInv, ID!DeletedStaysWiped
<1>9. KeysHeld'
  BY <1>2, <1>4, <1>5, <1>6, KeysKept DEF IdentityInv, IdentityTyped
<1>10. Counted'
  <2>1. ID!FailuresCounted'
    BY <1>4, <1>5 DEF IdentityInv, Counted, ID!FailuresCounted
  <2> QED BY <2>1, <1>2, <1>4, <1>5, <1>6 DEF IdentityInv, Counted
<1>11. Bindings'
  BY <1>2, <1>3, <1>4, <1>5, <1>6, BindingsKept DEF IdentityInv, IdentityTyped
<1> QED BY <1>7, <1>8, <1>9, <1>10, <1>11 DEF IdentityInv

\* What a callback has decided (oidc_callback_handler).
LEMMA CallbackDecided ==
  ASSUME IdentityConstants, IdentityInv, NEW s \in Subs, NEW n \in Users,
         Raw <=> n \notin Subs, NEW d \in ID!Decided(s, n)
  PROVE  /\ d[1] \in Callbacks /\ d[2] \in Users
         /\ d[1] = "bind" => /\ rows.user[d[2]].st # "none"
                             /\ \A x \in Users : Its(s, x) => x = d[2]
         /\ d[1] = "restore" =>
              /\ rows.user[d[2]].st # "none"
              /\ \A x \in Users : ~Its(s, x)
              /\ IF Raw THEN <<s, d[2]>> \in rows.bound ELSE d[2] = s
         /\ d[1] = "create" =>
              (\A x \in Users : ~Its(s, x)) /\ (Raw \/ d[2] = s)
<1>1. CASE Raw /\ ID!Active(n)
  <2>1. d = <<"bind", n>> /\ ID!ByName(s, n)
    BY <1>1 DEF ID!Decided
  <2> QED BY <1>1, <2>1 DEF Callbacks, ID!ByName, ID!Active, Its
<1>2. CASE ~(Raw /\ ID!Active(n)) /\ ID!BySub(s, "active") # {}
  <2>1. PICK u \in ID!BySub(s, "active") : d = <<"token", u>>
    BY <1>2 DEF ID!Decided
  <2> QED BY <2>1 DEF Callbacks, ID!BySub
<1>3. CASE /\ ~(Raw /\ ID!Active(n)) /\ ID!BySub(s, "active") = {}
           /\ ID!BySub(s, "deleted") # {}
  <2>1. PICK u \in ID!BySub(s, "deleted") : d = <<"restore", u>>
    BY <1>3 DEF ID!Decided
  <2>2. u \in Users /\ rows.user[u].st = "deleted" /\ (u = s \/ <<s, u>> \in rows.bound)
    BY DEF ID!BySub
  <2>3. IF Raw THEN <<s, u>> \in rows.bound ELSE u = s
    BY <2>2 DEF IdentityConstants, IdentityInv, Bindings
  <2> QED BY <1>3, <2>1, <2>2, <2>3 DEF Callbacks, Its
<1>4. CASE /\ ~(Raw /\ ID!Active(n)) /\ ID!BySub(s, "active") = {}
           /\ ID!BySub(s, "deleted") = {}
  <2>1. d = <<"create", IF Raw THEN n ELSE s>>
    BY <1>4 DEF ID!Decided
  <2>2. ~Raw => s \in Users
    BY DEF IdentityConstants
  <2> QED BY <1>4, <2>1, <2>2 DEF Callbacks, Its
<1> QED BY <1>1, <1>2, <1>3, <1>4

LEMMA CallbackReads ==
  ASSUME IdentityConstants, IdentityInv, NEW w \in Workers, NEW s \in Subs,
         NEW n \in Users, Raw <=> n \notin Subs, ID!OidcCallback(w, s, n)
  PROVE  IdentityInv'
<1>1. PICK d \in ID!Decided(s, n) : ID!Goes(w, d[1], d[2], s, 0)
  BY DEF ID!OidcCallback
<1> DEFINE r == [at |-> d[1], user |-> d[2], key |-> s, val |-> 0]
<1>2. /\ d[1] \in Callbacks /\ d[2] \in Users
      /\ d[1] = "bind" => /\ rows.user[d[2]].st # "none"
                          /\ \A x \in Users : Its(s, x) => x = d[2]
      /\ d[1] = "restore" =>
           /\ rows.user[d[2]].st # "none"
           /\ \A x \in Users : ~Its(s, x)
           /\ IF Raw THEN <<s, d[2]>> \in rows.bound ELSE d[2] = s
      /\ d[1] = "create" =>
           (\A x \in Users : ~Its(s, x)) /\ (Raw \/ d[2] = s)
  BY CallbackDecided
<1>3. r \in Requests /\ r.at = d[1] /\ r.user = d[2] /\ r.key = s
  BY <1>2 DEF Requests
<1>4. procs' = [procs EXCEPT ![w] = r]
  BY <1>1 DEF ID!Goes
<1> HIDE DEF r
<1>5. r.at \notin {"idle", "init", "write", "key", "keywrite", "login"}
  BY <1>2, <1>3 DEF Callbacks
<1>6. /\ procs' \in [Workers -> Requests] /\ procs'[w] = r
      /\ \A v \in Workers : v # w => procs'[v] = procs[v]
      /\ \A v \in Workers :
           /\ procs'[v].at \in {"write", "key", "login"} \cup Callbacks =>
                procs'[v].user \in Users
           /\ procs'[v].at \in {"key", "keywrite"} => procs'[v].key \in AllKeys
           /\ procs'[v].at \in Callbacks => procs'[v].key \in Subs
  BY <1>2, <1>3, <1>4, <1>5, RequestGoes
<1>7. /\ rows' = rows /\ outside' = outside /\ ghost \in IdentityGhosts
      /\ ghost' = [ghost EXCEPT !.raced = @ \/ \E v \in Workers : procs[v].key = s]
  BY DEF ID!OidcCallback, IdentityInv, IdentityTyped
<1>8. /\ ghost' \in IdentityGhosts /\ ghost'.late = ghost.late
      /\ ghost'.dead = ghost.dead /\ ghost'.fails = ghost.fails
      /\ ghost.raced => ghost'.raced
      /\ ~ghost'.raced => \A v \in Workers : procs[v].key # s
  BY <1>7 DEF IdentityGhosts
<1>9. IdentityTyped'
  BY <1>6, <1>7, <1>8 DEF IdentityInv, IdentityTyped
<1>10. Members' /\ FirstRun' /\ ID!DeletedStaysWiped'
  <2>1. Members'
    BY <1>2, <1>3, <1>5, <1>6, <1>7, MembersKept
  <2>2. FirstRun'
    BY <1>5, <1>6, <1>7, FirstKept
  <2> QED BY <2>1, <2>2, <1>7, <1>8 DEF IdentityInv, ID!DeletedStaysWiped
<1>11. KeysHeld'
  BY <1>5, <1>6, <1>7, <1>8, KeysKept DEF IdentityInv, IdentityTyped
<1>12. Counted'
  BY <1>5, <1>6, <1>7, <1>8, CountedKept
<1>13. Bindings'
  <2>1. \A t \in Subs, x \in Users : Its(t, x)' <=> Its(t, x)
    BY <1>7 DEF Its, ID!BySub, ID!Shared
  <2>2. ASSUME ~ghost'.raced, NEW v \in Workers, procs'[v].at \in Callbacks
        PROVE  CalledBack(v)'
    <3>1. CASE v = w
      BY <1>2, <1>3, <1>6, <1>7, <1>8, <2>1, <2>2, <3>1 DEF CalledBack
    <3>2. CASE v # w
      <4>1. procs'[v] = procs[v] /\ CalledBack(v) /\ procs[v].key # s
        BY <1>6, <1>8, <2>2, <3>2 DEF IdentityInv, Bindings
      <4>2. procs[v].key \in Subs /\ procs[v].user \in Users
        BY <1>6, <2>2, <4>1
      <4> QED BY <1>3, <1>6, <1>7, <2>1, <4>1, <4>2 DEF CalledBack
    <3> QED BY <3>1, <3>2
  <2>3. /\ Raw \/ rows'.bound = {}
        /\ \A t \in Subs, x \in Users :
             <<t, x>> \in rows'.bound => rows'.user[x].st # "none"
    BY <1>7 DEF IdentityInv, Bindings
  <2>4. ~ghost'.raced =>
          \A t \in Subs, x, y \in Users : Its(t, x)' /\ Its(t, y)' => x = y
    BY <1>8, <2>1 DEF IdentityInv, Bindings
  <2> QED BY <2>2, <2>3, <2>4 DEF Bindings
<1> QED BY <1>9, <1>10, <1>11, <1>12, <1>13 DEF IdentityInv

\* No request begins, one may end.
Settles ==
  /\ procs' \in [Workers -> Requests]
  /\ \A w \in Workers : procs'[w] = procs[w] \/ procs'[w].at = "idle"

LEMMA Settled ==
  ASSUME IdentityInv, procs' = procs \/ \E w \in Workers : ID!Ends(w)
  PROVE  Settles
<1>1. CASE procs' = procs
  BY <1>1 DEF IdentityInv, IdentityTyped, Settles
<1>2. CASE \E w \in Workers : ID!Ends(w)
  <2>1. PICK w \in Workers : ID!Ends(w)
    BY <1>2
  <2> QED BY <2>1, RequestEnds DEF Settles
<1> QED BY <1>1, <1>2

LEMMA TypedKept ==
  ASSUME IdentityInv, Settles, rows' \in IdentityRows,
         outside' \in [tokens : SUBSET (Subs \X Users)], ghost' \in IdentityGhosts
  PROVE  IdentityTyped'
BY DEF IdentityInv, IdentityTyped, Settles, Callbacks

\* A row that was free becomes an account.
LEMMA NewAccount ==
  ASSUME IdentityConstants, IdentityInv, Settles, NEW u \in Users,
         rows.user[u].st = "none", NEW r \in UserRows, r.st = "active",
         r.fails = 0, r.locked = FALSE, rows' \in IdentityRows,
         rows'.user = [rows.user EXCEPT ![u] = r], r.dept \in rows'.dept,
         rows'.key = rows.key, rows'.cli = rows.cli,
         rows.dept \subseteq rows'.dept, ID!Default \in rows'.dept,
         ghost' = ghost, outside' \in [tokens : SUBSET (Subs \X Users)]
  PROVE  /\ IdentityTyped' /\ Members' /\ KeysHeld' /\ Counted'
         /\ ID!DeletedStaysWiped'
<1>1. /\ rows \in IdentityRows /\ rows.user[u] = ID!NoUser
      /\ \A x \in Users : x # u => rows'.user[x] = rows.user[x]
      /\ rows'.user[u] = r
  BY DEF IdentityInv, IdentityTyped, IdentityRows, Members
<1>2. IdentityTyped'
  BY TypedKept DEF IdentityInv, IdentityTyped
<1>3. Members'
  <2>1. \A x \in Users : IF rows'.user[x].st = "none" THEN rows'.user[x] = ID!NoUser
                         ELSE rows'.user[x].dept \in rows'.dept
    BY <1>1 DEF IdentityInv, Members
  <2>2. \A w \in Workers : procs'[w].at \in {"write", "login", "restore", "bind"} =>
          procs'[w] = procs[w] /\ procs[w].user \in Users
    BY DEF Settles, IdentityInv, IdentityTyped, Callbacks
  <2>3. \A w \in Workers : procs'[w].at \in {"write", "login", "restore", "bind"} =>
          rows'.user[procs'[w].user].st # "none"
    BY <1>1, <2>2 DEF IdentityInv, Members
  <2> QED BY <2>1, <2>3 DEF Members
<1>4. KeysHeld'
  <2>1. \A w \in Workers : procs[w].at = "key" =>
          procs[w].user \in Users /\ rows.user[procs[w].user].st = "active"
    BY DEF IdentityInv, IdentityTyped, KeysHeld, MakesKey, ID!Active
  <2>2. \A w \in Workers :
          /\ procs'[w].at = "key" =>
               /\ procs'[w] = procs[w]
               /\ rows'.user[procs[w].user] = rows.user[procs[w].user]
          /\ procs'[w].at = "keywrite" => procs'[w] = procs[w]
    BY <1>1, <2>1 DEF Settles
  <2>3. \A x \in Users : rows'.user[x].st = "deleted" => rows.user[x].st = "deleted"
    BY <1>1
  <2> QED BY <2>2, <2>3, KeysKept
<1>5. Counted'
  <2>1. rows.user[u].fails = 0 /\ rows.user[u].locked = FALSE
    BY <1>1 DEF ID!NoUser
  <2>2. \A x \in Users : /\ rows'.user[x].fails = rows.user[x].fails
                         /\ rows'.user[x].locked = rows.user[x].locked
    BY <1>1, <2>1
  <2>3. \A w \in Workers : procs'[w].at = "login" => procs'[w] = procs[w]
    BY DEF Settles
  <2> QED BY <2>2, <2>3, CountedKept
<1>6. ID!DeletedStaysWiped'
  BY <1>1 DEF IdentityInv, ID!DeletedStaysWiped
<1> QED BY <1>2, <1>3, <1>4, <1>5, <1>6

LEMMA RowsOfNew ==
  ASSUME IdentityInv, NEW u \in Users, NEW r \in UserRows, NEW d \in Nat \ {0},
         \/ rows' = [rows EXCEPT !.user[u] = r]
         \/ rows' = [rows EXCEPT !.user[u] = r, !.dept = @ \cup {d}]
  PROVE  /\ rows' \in IdentityRows /\ rows'.user = [rows.user EXCEPT ![u] = r]
         /\ rows'.key = rows.key /\ rows'.cli = rows.cli
         /\ rows'.bound = rows.bound /\ rows.dept \subseteq rows'.dept
         /\ rows' = [rows EXCEPT !.user[u] = r] => rows'.dept = rows.dept
         /\ rows' = [rows EXCEPT !.user[u] = r, !.dept = @ \cup {d}] =>
              rows'.dept = rows.dept \cup {d}
<1>1. rows \in IdentityRows
  BY DEF IdentityInv, IdentityTyped
<1>2. CASE rows' = [rows EXCEPT !.user[u] = r]
  BY <1>1, <1>2 DEF IdentityRows
<1>3. CASE rows' = [rows EXCEPT !.user[u] = r, !.dept = @ \cup {d}]
  BY <1>1, <1>3 DEF IdentityRows
<1> QED BY <1>2, <1>3

\* create_user, create_department_with_admin, initialize_system_admin.
LEMMA MadeAccounts ==
  ASSUME IdentityConstants, IdentityInv, NEW u \in Users, u \notin Subs,
         \/ \E w \in Workers : ID!InitializeCommit(w, u)
         \/ \E r \in {"user", "admin"}, d \in rows.dept : ID!CreateUser(u, r, d)
         \/ ID!CreateDepartment(u, 2)
  PROVE  IdentityInv'
<1>1. ASSUME NEW r \in UserRows, NEW e \in Nat \ {0}, Settles,
             UNCHANGED <<outside, ghost>>, rows.user[u].st = "none",
             r.st = "active", r.fails = 0, r.locked = FALSE,
             \/ rows' = [rows EXCEPT !.user[u] = r]
             \/ rows' = [rows EXCEPT !.user[u] = r, !.dept = @ \cup {e}],
             ID!Default \in rows'.dept, r.dept \in rows'.dept,
             r.role = "superadmin" =>
               /\ OidcRole # "superadmin" =>
                    \A x \in Users : rows.user[x].role # "superadmin"
               /\ \A w \in Workers : procs'[w].at # "init"
      PROVE  IdentityInv'
  <2>3. /\ rows' \in IdentityRows /\ rows'.user = [rows.user EXCEPT ![u] = r]
        /\ rows'.key = rows.key /\ rows'.cli = rows.cli
        /\ rows'.bound = rows.bound /\ rows.dept \subseteq rows'.dept
    BY <1>1, RowsOfNew, ZenonT(40)
  <2>4. /\ ghost' = ghost /\ outside' = outside
        /\ outside' \in [tokens : SUBSET (Subs \X Users)]
    BY <1>1 DEF IdentityInv, IdentityTyped
  <2>5. /\ IdentityTyped' /\ Members' /\ KeysHeld' /\ Counted'
        /\ ID!DeletedStaysWiped'
    BY <1>1, <2>3, <2>4, NewAccount
  <2>6. /\ \A x \in Users : x # u => rows'.user[x] = rows.user[x]
        /\ rows'.user[u] = r
    BY <2>3 DEF IdentityInv, IdentityTyped, IdentityRows
  <2>7. FirstRun'
    <3>1. \A w \in Workers : procs'[w].at = "init" => procs'[w] = procs[w]
      BY <1>1 DEF Settles
    <3>2. CASE r.role = "superadmin"
      BY <1>1, <2>6, <3>1, <3>2 DEF IdentityInv, FirstRun
    <3>3. CASE r.role # "superadmin"
      BY <2>6, <3>1, <3>3, FirstKept
    <3> QED BY <3>2, <3>3
  <2>8. Bindings'
    <3>1. \A w \in Workers : procs'[w].at \in Callbacks => procs'[w] = procs[w]
      BY <1>1 DEF Settles, Callbacks
    <3>2. \A x \in Users :
            /\ rows.user[x].st # "none" => rows'.user[x].st # "none"
            /\ rows'.user[x].st = "active" =>
                 \/ rows.user[x].st = "active"
                 \/ rows.user[x].st = "none" /\ x \notin Subs
      BY <1>1, <2>6
    <3> QED BY <2>3, <2>4, <3>1, <3>2, BindingsKept
  <2> QED BY <2>5, <2>7, <2>8 DEF IdentityInv
<1>2. ASSUME NEW w \in Workers, ID!InitializeCommit(w, u) PROVE IdentityInv'
  <2>1. Settles /\ \A v \in Workers : procs'[v].at # "init"
    <3>1. procs'[w].at = "idle" /\ \A v \in Workers : v # w => procs'[v] = procs[v]
      BY <1>2, RequestEnds DEF ID!InitializeCommit
    <3>2. procs[w].at = "init" /\ ID!Ends(w)
      BY <1>2 DEF ID!InitializeCommit
    <3> QED BY <3>1, <3>2, Settled DEF IdentityInv, FirstRun
  <2>2. OidcRole # "superadmin" =>
          \A x \in Users : rows.user[x].role # "superadmin"
    BY <1>2 DEF ID!InitializeCommit, IdentityInv, FirstRun
  <2> DEFINE r == [ID!NoUser EXCEPT !.st = "active", !.role = "superadmin"]
  <2>3. /\ r \in UserRows /\ r.st = "active" /\ r.fails = 0 /\ r.locked = FALSE
        /\ r.dept = 1
    BY DEF UserRows, ID!NoUser, ID!Default
  <2>4. /\ rows.user[u].st = "none" /\ UNCHANGED <<outside, ghost>>
        /\ rows' = [rows EXCEPT !.user[u] = r, !.dept = @ \cup {1}]
    BY <1>2 DEF ID!InitializeCommit, ID!Default
  <2> HIDE DEF r
  <2>5. 1 \in rows'.dept /\ 1 \in Nat \ {0}
    BY <2>4 DEF IdentityInv, IdentityTyped, IdentityRows
  <2> QED BY <1>1, <2>1, <2>2, <2>3, <2>4, <2>5 DEF ID!Default
<1>3. ASSUME NEW role \in {"user", "admin"}, NEW d \in rows.dept,
             ID!CreateUser(u, role, d)
      PROVE  IdentityInv'
  <2> DEFINE r == [ID!NoUser EXCEPT !.st = "active", !.role = role, !.dept = d]
  <2>1. Settles /\ d \in Nat \ {0}
    BY <1>3, Settled DEF ID!CreateUser, IdentityInv, IdentityTyped, IdentityRows
  <2>2. /\ r \in UserRows /\ r.st = "active" /\ r.fails = 0 /\ r.locked = FALSE
        /\ r.dept = d /\ r.role # "superadmin"
    BY <2>1 DEF UserRows, ID!NoUser
  <2>3. /\ rows.user[u].st = "none" /\ UNCHANGED <<outside, ghost>>
        /\ rows' = [rows EXCEPT !.user[u] = r]
    BY <1>3 DEF ID!CreateUser, ID!SetUser
  <2> HIDE DEF r
  <2>4. rows'.dept = rows.dept /\ ID!Default \in rows.dept
    BY <2>3 DEF IdentityInv, IdentityTyped, IdentityRows, Members
  <2> QED BY <1>1, <2>1, <2>2, <2>3, <2>4
<1>4. ASSUME ID!CreateDepartment(u, 2) PROVE IdentityInv'
  <2> DEFINE r == [ID!NoUser EXCEPT !.st = "active", !.role = "admin", !.dept = 2]
  <2>1. Settles /\ 2 \in Nat \ {0}
    BY <1>4, Settled DEF ID!CreateDepartment
  <2>2. /\ r \in UserRows /\ r.st = "active" /\ r.fails = 0 /\ r.locked = FALSE
        /\ r.dept = 2 /\ r.role # "superadmin"
    BY DEF UserRows, ID!NoUser
  <2>3. /\ rows.user[u].st = "none" /\ UNCHANGED <<outside, ghost>>
        /\ rows' = [rows EXCEPT !.user[u] = r, !.dept = @ \cup {2}]
    BY <1>4 DEF ID!CreateDepartment
  <2> HIDE DEF r
  <2>4. rows.dept # {}
    BY <1>4 DEF ID!CreateDepartment, ID!Active, IdentityInv, Members
  <2>5. rows'.dept = rows.dept \cup {2} /\ ID!Default \in rows.dept
    BY <2>3, <2>4 DEF IdentityInv, IdentityTyped, IdentityRows, Members
  <2> QED BY <1>1, <2>1, <2>2, <2>3, <2>5
<1> QED BY <1>2, <1>3, <1>4

\* The row of an account changes while nobody makes a key for it.
LEMMA OldAccount ==
  ASSUME IdentityConstants, IdentityInv, Settles, NEW u \in Users,
         rows.user[u].st # "none", ID!UserFree(u), NEW r \in UserRows,
         r.st # "none", r.st = "deleted" => rows.user[u].st = "deleted",
         r.role = rows.user[u].role, r.dept \in rows.dept,
         rows' = [rows EXCEPT !.user[u] = r], ghost' \in IdentityGhosts,
         ghost'.dead = ghost.dead, outside' \in [tokens : SUBSET (Subs \X Users)]
  PROVE  /\ rows' \in IdentityRows /\ rows'.user[u] = r
         /\ \A x \in Users : x # u => rows'.user[x] = rows.user[x]
         /\ rows'.bound = rows.bound
         /\ IdentityTyped' /\ Members' /\ FirstRun' /\ KeysHeld'
<1>1. /\ rows' \in IdentityRows /\ rows'.user[u] = r
      /\ \A x \in Users : x # u => rows'.user[x] = rows.user[x]
      /\ rows'.bound = rows.bound /\ rows'.key = rows.key
      /\ rows'.cli = rows.cli /\ rows'.dept = rows.dept
  BY DEF IdentityInv, IdentityTyped, IdentityRows
<1>2. IdentityTyped'
  BY <1>1, TypedKept
<1>3. Members'
  <2>1. \A x \in Users : IF rows'.user[x].st = "none" THEN rows'.user[x] = ID!NoUser
                         ELSE rows'.user[x].dept \in rows'.dept
    BY <1>1 DEF IdentityInv, Members
  <2>2. \A w \in Workers : procs'[w].at \in {"write", "login", "restore", "bind"} =>
          procs'[w] = procs[w] /\ procs[w].user \in Users
    BY DEF Settles, IdentityInv, IdentityTyped, Callbacks
  <2>3. \A w \in Workers : procs'[w].at \in {"write", "login", "restore", "bind"} =>
          rows'.user[procs'[w].user].st # "none"
    BY <1>1, <2>2 DEF IdentityInv, Members
  <2> QED BY <1>1, <2>1, <2>3 DEF IdentityInv, Members
<1>4. FirstRun'
  <2>1. \A x \in Users : rows'.user[x].role = rows.user[x].role
    BY <1>1
  <2>2. \A w \in Workers : procs'[w].at = "init" => procs[w].at = "init"
    BY DEF Settles
  <2> QED BY <2>1, <2>2, FirstKept
<1>5. KeysHeld'
  <2>1. \A w \in Workers : procs[w].at = "key" =>
          procs[w].user \in Users /\ procs[w].user # u
    BY DEF IdentityInv, IdentityTyped, ID!UserFree, ID!At
  <2>2. \A w \in Workers :
          /\ procs'[w].at = "key" =>
               /\ procs'[w] = procs[w]
               /\ rows'.user[procs[w].user] = rows.user[procs[w].user]
          /\ procs'[w].at = "keywrite" => procs'[w] = procs[w]
    BY <1>1, <2>1 DEF Settles
  <2>3. \A x \in Users : rows'.user[x].st = "deleted" => rows.user[x].st = "deleted"
    BY <1>1
  <2> QED BY <1>1, <2>2, <2>3, KeysKept
<1> QED BY <1>1, <1>2, <1>3, <1>4, <1>5

\* The bindings do not depend on what an account holds.
LEMMA StandingKept ==
  ASSUME IdentityInv, Settles, rows' \in IdentityRows, rows'.bound = rows.bound,
         ghost.raced => ghost'.raced,
         \A x \in Users : rows'.user[x].st = rows.user[x].st
  PROVE  Bindings'
<1>1. \A w \in Workers : procs'[w].at \in Callbacks => procs'[w] = procs[w]
  BY DEF Settles, Callbacks
<1> QED BY <1>1, BindingsKept

LEMMA AccountIs ==
  ASSUME IdentityInv, NEW u \in Users
  PROVE  /\ rows.user[u] \in UserRows
         /\ rows.user[u].st # "none" => rows.user[u].dept \in rows.dept
BY DEF IdentityInv, IdentityTyped, IdentityRows, Members

LEMMA UserWrites ==
  ASSUME IdentityConstants, IdentityInv, NEW w \in Workers, ID!WriteUser(w)
  PROVE  IdentityInv'
<1> DEFINE u == procs[w].user
           r == rows.user[u]
           late == [ghost EXCEPT !.late = @ \/ ~ID!Active(u)]
<1>1. /\ u \in Users /\ r.st # "none" /\ ID!UserFree(u) /\ procs[w].val \in Nat
  BY DEF ID!WriteUser, IdentityInv, IdentityTyped, Members, Requests
<1>2. r \in UserRows /\ r.dept \in rows.dept
  BY <1>1, AccountIs
<1>3. /\ ghost' = late /\ outside' = outside /\ ID!Ends(w) /\ Settles
  BY Settled DEF ID!WriteUser
<1>4. /\ ghost' \in IdentityGhosts /\ ghost'.dead = ghost.dead
      /\ ghost'.raced = ghost.raced /\ ghost'.fails = ghost.fails
      /\ ghost'.late = (ghost.late \/ r.st # "active")
      /\ outside' \in [tokens : SUBSET (Subs \X Users)]
  BY <1>3 DEF IdentityInv, IdentityTyped, IdentityGhosts, ID!Active
<1>5. PICK q \in UserRows :
        /\ q.st = r.st /\ q.role = r.role /\ q.dept \in rows.dept
        /\ q.fails = r.fails /\ q.locked = r.locked
        /\ rows' = [rows EXCEPT !.user[u] = q]
  <2>1. CASE procs[w].val = 0
    <3> DEFINE q == [r EXCEPT !.pw = "set"]
    <3>1. /\ q \in UserRows /\ q.st = r.st /\ q.role = r.role /\ q.dept = r.dept
          /\ q.fails = r.fails /\ q.locked = r.locked
      BY <1>2 DEF UserRows
    <3>2. rows' = [rows EXCEPT !.user[u] = q]
      BY <2>1 DEF ID!WriteUser, ID!SetUser, ID!Password
    <3> QED BY <1>2, <3>1, <3>2
  <2>2. CASE procs[w].val # 0 /\ procs[w].val \in rows.dept
    <3> DEFINE q == [r EXCEPT !.dept = procs[w].val]
    <3>1. /\ q \in UserRows /\ q.st = r.st /\ q.role = r.role
          /\ q.dept = procs[w].val /\ q.fails = r.fails /\ q.locked = r.locked
      BY <1>1, <1>2 DEF UserRows
    <3>2. rows' = [rows EXCEPT !.user[u] = q]
      BY <2>2 DEF ID!WriteUser, ID!SetUser, ID!Password
    <3> QED BY <2>2, <3>1, <3>2
  <2>3. CASE procs[w].val # 0 /\ procs[w].val \notin rows.dept
    <3>1. rows' = rows
      BY <2>3 DEF ID!WriteUser, ID!Password
    <3>2. rows = [rows EXCEPT !.user[u] = r]
      BY <1>1 DEF IdentityInv, IdentityTyped, IdentityRows
    <3> QED BY <1>2, <3>1, <3>2
  <2> QED BY <2>1, <2>2, <2>3
<1> HIDE DEF u, r
<1>6. /\ rows' \in IdentityRows /\ rows'.user[u] = q
      /\ \A x \in Users : x # u => rows'.user[x] = rows.user[x]
      /\ rows'.bound = rows.bound
      /\ IdentityTyped' /\ Members' /\ FirstRun' /\ KeysHeld'
  BY <1>1, <1>3, <1>4, <1>5, OldAccount DEF r
<1>7. \A x \in Users : /\ rows'.user[x].fails = rows.user[x].fails
                       /\ rows'.user[x].locked = rows.user[x].locked
                       /\ rows'.user[x].st = rows.user[x].st
  BY <1>5, <1>6 DEF r
<1>8. Counted'
  BY <1>3, <1>4, <1>7, CountedKept DEF Settles
<1>9. Bindings'
  BY <1>3, <1>4, <1>6, <1>7, StandingKept
<1>10. ID!DeletedStaysWiped'
  <2>1. CASE r.st # "active"
    BY <1>4, <2>1 DEF ID!DeletedStaysWiped
  <2>2. CASE r.st = "active"
    BY <1>4, <1>5, <1>6, <2>2 DEF IdentityInv, ID!DeletedStaysWiped
  <2> QED BY <2>1, <2>2
<1> QED BY <1>6, <1>8, <1>9, <1>10 DEF IdentityInv

LEMMA LoginWrites ==
  ASSUME IdentityConstants, IdentityInv, NEW w \in Workers, ID!LoginWrite(w)
  PROVE  IdentityInv'
<1> DEFINE u == procs[w].user
           r == rows.user[u]
           n == procs[w].val + 1
<1>1. /\ u \in Users /\ r.st # "none" /\ ID!UserFree(u) /\ procs[w].val \in Nat
      /\ procs[w].at = "login"
  BY DEF ID!LoginWrite, IdentityInv, IdentityTyped, Members, Requests
<1>2. r \in UserRows /\ r.dept \in rows.dept /\ r.fails \in Nat
  BY <1>1, AccountIs DEF UserRows
<1>3. outside' = outside /\ Settles /\ ghost.fails[u] \in Nat /\ MaxFails \in Nat
  BY <1>1, Settled DEF ID!LoginWrite, IdentityInv, IdentityTyped,
     IdentityGhosts, IdentityConstants
<1>4. /\ procs'[w].at = "idle" /\ \A v \in Workers : v # w => procs'[v] = procs[v]
  BY RequestEnds DEF ID!LoginWrite
<1>5. ~ghost.raced =>
        /\ procs[w].val = r.fails /\ ~r.locked /\ MaxFails > 0
        /\ r.fails = ghost.fails[u]
        /\ \A v \in Workers : procs[v].at = "login" /\ procs[v].user = u => v = w
  BY <1>1 DEF IdentityInv, Counted, ID!FailuresCounted
<1>6. PICK q \in UserRows, m \in Nat :
        /\ q.st = r.st /\ q.role = r.role /\ q.dept = r.dept /\ q.pw = r.pw
        /\ rows' = [rows EXCEPT !.user[u] = q]
        /\ ghost' = [ghost EXCEPT !.fails[u] = m]
        /\ ~ghost.raced => q.fails = m /\ (q.locked <=> m >= MaxFails)
  <2>1. CASE /\ ID!SetUser(u, [r EXCEPT !.fails = n, !.locked = @ \/ ID!Locks(n)])
             /\ ghost' = [ghost EXCEPT !.fails[u] = @ + 1]
    <3> DEFINE q == [r EXCEPT !.fails = n, !.locked = @ \/ ID!Locks(n)]
    <3>1. n \in Nat /\ (ID!Locks(n) <=> n >= MaxFails)
      BY <1>1 DEF ID!Locks
    <3>2. /\ q \in UserRows /\ q.st = r.st /\ q.role = r.role /\ q.dept = r.dept
          /\ q.pw = r.pw /\ q.fails = n /\ (q.locked <=> r.locked \/ n >= MaxFails)
      BY <1>2, <3>1 DEF UserRows
    <3>3. ~ghost.raced => n = ghost.fails[u] + 1
      BY <1>5
    <3>4. /\ rows' = [rows EXCEPT !.user[u] = q]
          /\ ghost' = [ghost EXCEPT !.fails[u] = ghost.fails[u] + 1]
      BY <2>1 DEF ID!SetUser
    <3> HIDE DEF q, n
    <3>5. ~ghost.raced =>
            q.fails = ghost.fails[u] + 1
              /\ (q.locked <=> ghost.fails[u] + 1 >= MaxFails)
      BY <1>5, <3>2, <3>3
    <3>6. ghost.fails[u] + 1 \in Nat
      BY <1>3
    <3> QED BY <3>2, <3>4, <3>5, <3>6
  <2>2. CASE /\ ID!SetUser(u, [r EXCEPT !.fails = IF procs[w].val = 0 THEN @ ELSE 0])
             /\ ghost' = [ghost EXCEPT !.fails[u] = 0]
    <3> DEFINE q == [r EXCEPT !.fails = IF procs[w].val = 0 THEN @ ELSE 0]
    <3>1. /\ q \in UserRows /\ q.st = r.st /\ q.role = r.role /\ q.dept = r.dept
          /\ q.pw = r.pw /\ q.locked = r.locked
          /\ q.fails = IF procs[w].val = 0 THEN r.fails ELSE 0
      BY <1>2 DEF UserRows
    <3>2. /\ rows' = [rows EXCEPT !.user[u] = q]
          /\ ghost' = [ghost EXCEPT !.fails[u] = 0]
      BY <2>2 DEF ID!SetUser
    <3> HIDE DEF q
    <3>3. ~ghost.raced => q.fails = 0 /\ (q.locked <=> 0 >= MaxFails)
      BY <1>3, <1>5, <3>1
    <3> QED BY <3>1, <3>2, <3>3
  <2> QED BY <2>1, <2>2 DEF ID!LoginWrite
<1>7. /\ ghost' \in IdentityGhosts /\ ghost'.dead = ghost.dead
      /\ ghost'.raced = ghost.raced /\ ghost'.late = ghost.late
      /\ ghost'.fails[u] = m
      /\ \A x \in Users : x # u => ghost'.fails[x] = ghost.fails[x]
      /\ outside' \in [tokens : SUBSET (Subs \X Users)]
  BY <1>1, <1>3, <1>6 DEF IdentityInv, IdentityTyped, IdentityGhosts
<1> HIDE DEF u, r, n
<1>8. /\ rows' \in IdentityRows /\ rows'.user[u] = q
      /\ \A x \in Users : x # u => rows'.user[x] = rows.user[x]
      /\ rows'.bound = rows.bound
      /\ IdentityTyped' /\ Members' /\ FirstRun' /\ KeysHeld'
  BY <1>1, <1>2, <1>3, <1>6, <1>7, OldAccount DEF r
<1>9. Counted'
  <2>1. ID!FailuresCounted'
    BY <1>5, <1>6, <1>7, <1>8 DEF IdentityInv, Counted, ID!FailuresCounted
  <2>2. ASSUME ~ghost.raced, NEW v \in Workers, procs'[v].at = "login"
        PROVE  procs'[v] = procs[v] /\ procs[v].user # u /\ procs[v].user \in Users
    BY <1>4, <1>5, <2>2 DEF IdentityInv, IdentityTyped
  <2> QED BY <1>7, <1>8, <2>1, <2>2 DEF IdentityInv, Counted
<1>10. Bindings'
  <2>1. \A x \in Users : rows'.user[x].st = rows.user[x].st
    BY <1>6, <1>8 DEF r
  <2> QED BY <1>3, <1>7, <1>8, <2>1, StandingKept
<1>11. ID!DeletedStaysWiped'
  BY <1>6, <1>7, <1>8 DEF IdentityInv, ID!DeletedStaysWiped, r
<1> QED BY <1>8, <1>9, <1>10, <1>11 DEF IdentityInv

LEMMA Unlocks ==
  ASSUME IdentityConstants, IdentityInv, NEW u \in Users, ID!Unlock(u)
  PROVE  IdentityInv'
<1> DEFINE r == rows.user[u]
           q == [r EXCEPT !.fails = 0, !.locked = FALSE]
<1>1. r.st # "none" /\ ID!UserFree(u) /\ r.locked
  BY DEF ID!Unlock, IdentityInv, Members, ID!NoUser
<1>2. r \in UserRows /\ r.dept \in rows.dept
  BY <1>1, AccountIs
<1>3. /\ q \in UserRows /\ q.st = r.st /\ q.role = r.role /\ q.dept = r.dept
      /\ q.pw = r.pw /\ q.fails = 0 /\ q.locked = FALSE
  BY <1>2 DEF UserRows
<1>4. /\ outside' = outside /\ Settles /\ procs' = procs
      /\ rows' = [rows EXCEPT !.user[u] = q]
      /\ ghost' = [ghost EXCEPT !.fails[u] = 0]
  BY Settled DEF ID!Unlock, ID!SetUser
<1>5. /\ ghost' \in IdentityGhosts /\ ghost'.dead = ghost.dead
      /\ ghost'.raced = ghost.raced /\ ghost'.late = ghost.late
      /\ ghost'.fails[u] = 0
      /\ \A x \in Users : x # u => ghost'.fails[x] = ghost.fails[x]
      /\ outside' \in [tokens : SUBSET (Subs \X Users)]
  BY <1>4 DEF IdentityInv, IdentityTyped, IdentityGhosts
<1> HIDE DEF r, q
<1>6. /\ rows' \in IdentityRows /\ rows'.user[u] = q
      /\ \A x \in Users : x # u => rows'.user[x] = rows.user[x]
      /\ rows'.bound = rows.bound
      /\ IdentityTyped' /\ Members' /\ FirstRun' /\ KeysHeld'
  BY <1>1, <1>2, <1>3, <1>4, <1>5, OldAccount DEF r
<1>7. Counted'
  <2>1. ID!FailuresCounted'
    BY <1>3, <1>5, <1>6 DEF IdentityInv, Counted, ID!FailuresCounted,
       IdentityConstants
  <2>2. ASSUME ~ghost.raced, NEW v \in Workers, procs[v].at = "login"
        PROVE  procs[v].user # u /\ procs[v].user \in Users
    BY <1>1, <2>2 DEF IdentityInv, IdentityTyped, Counted, r
  <2> QED BY <1>4, <1>5, <1>6, <2>1, <2>2 DEF IdentityInv, Counted
<1>8. Bindings'
  <2>1. \A x \in Users : rows'.user[x].st = rows.user[x].st
    BY <1>3, <1>6 DEF r
  <2> QED BY <1>4, <1>5, <1>6, <2>1, StandingKept
<1>9. ID!DeletedStaysWiped'
  BY <1>3, <1>5, <1>6 DEF IdentityInv, ID!DeletedStaysWiped, r
<1> QED BY <1>6, <1>7, <1>8, <1>9 DEF IdentityInv

LEMMA KeyIs ==
  ASSUME IdentityInv, NEW k \in AllKeys
  PROVE  /\ rows.key[k] \in KeyRows /\ DOMAIN rows.key = AllKeys
         /\ rows.key[k].user = NoOne => rows.key[k].dept = 0
BY DEF IdentityInv, IdentityTyped, IdentityRows, KeysHeld, ID!NoKey

\* Keys are revoked, nobody who makes one loses its account.
LEMMA Revokes ==
  ASSUME IdentityConstants, IdentityInv, procs' = procs,
         rows' \in IdentityRows, rows'.cli = rows.cli,
         ghost' = [ghost EXCEPT
           !.dead = @ \cup {k \in AllKeys : rows'.key[k].revoked}],
         \A k \in AllKeys : /\ rows'.key[k].user = rows.key[k].user
                            /\ rows.key[k].revoked => rows'.key[k].revoked
                            /\ rows.key[k].user = NoOne => rows'.key[k] = rows.key[k]
                            /\ rows'.key[k].dept \in {0} \cup rows'.dept,
         \A w \in Workers : procs[w].at = "key" =>
           rows'.user[procs[w].user] = rows.user[procs[w].user],
         \A k \in AllKeys : LET u == rows.key[k].user
           IN u # NoOne /\ rows'.user[u].st = "deleted" => rows'.key[k].revoked
  PROVE  KeysHeld' /\ ghost' \in IdentityGhosts /\ ghost'.late = ghost.late
         /\ ghost'.raced = ghost.raced /\ ghost'.fails = ghost.fails
<1>1. /\ ghost' \in IdentityGhosts /\ ghost'.late = ghost.late
      /\ ghost'.raced = ghost.raced /\ ghost'.fails = ghost.fails
      /\ ghost'.dead = ghost.dead \cup {k \in AllKeys : rows'.key[k].revoked}
  BY DEF IdentityInv, IdentityTyped, IdentityGhosts
<1>2. \A w \in Workers : procs[w].at = "key" => MakesKey(w)'
  BY DEF IdentityInv, IdentityTyped, KeysHeld, MakesKey, ID!Active
<1>3. \A w \in Workers : procs[w].at = "keywrite" =>
        rows'.key[procs[w].key].user # NoOne
  BY DEF IdentityInv, IdentityTyped, KeysHeld
<1>4. \A k \in ghost'.dead : rows'.key[k].revoked
  BY <1>1 DEF IdentityInv, IdentityTyped, IdentityGhosts, KeysHeld
<1>5. \A k \in AllKeys : rows'.key[k].user = NoOne => rows'.key[k] = ID!NoKey
  BY DEF IdentityInv, KeysHeld
<1>6. DOMAIN rows'.key = AllKeys
  BY DEF IdentityRows
<1>7. ID!DeletedHasNoKey' /\ ID!KeyDepartmentThere'
  BY <1>6 DEF ID!DeletedHasNoKey, ID!KeyDepartmentThere
<1>8. ID!CliKeyIsApprovers'
  BY DEF IdentityInv, KeysHeld, ID!CliKeyIsApprovers, AllKeys
<1> QED BY <1>1, <1>2, <1>3, <1>4, <1>5, <1>7, <1>8 DEF IdentityInv, KeysHeld

\* What is left of the invariant when accounts are deleted or moved.
LEMMA LeavesRest ==
  ASSUME IdentityConstants, IdentityInv, procs' = procs, outside' = outside,
         rows' \in IdentityRows, rows'.bound = rows.bound, KeysHeld',
         ghost' \in IdentityGhosts, ghost'.late = ghost.late,
         ghost'.raced = ghost.raced, ghost'.fails = ghost.fails,
         \A x \in Users :
           /\ \/ rows'.user[x].st = rows.user[x].st
              \/ /\ rows.user[x].st = "active" /\ rows'.user[x].st = "deleted"
                 /\ rows'.user[x].pw = "wiped"
           /\ rows'.user[x].st = rows.user[x].st =>
                rows'.user[x].pw = rows.user[x].pw
           /\ rows'.user[x].role = rows.user[x].role
           /\ rows'.user[x].fails = rows.user[x].fails
           /\ rows'.user[x].locked = rows.user[x].locked
           /\ rows.user[x].st = "none" => rows'.user[x] = rows.user[x]
           /\ rows.user[x].st # "none" => rows'.user[x].dept \in rows'.dept,
         rows'.dept # {} => ID!Default \in rows'.dept
  PROVE  IdentityInv'
<1>1. Settles
  BY Settled
<1>2. IdentityTyped'
  BY <1>1, TypedKept DEF IdentityInv, IdentityTyped
<1>3. Members'
  <2>1. \A x \in Users : IF rows'.user[x].st = "none" THEN rows'.user[x] = ID!NoUser
                         ELSE rows'.user[x].dept \in rows'.dept
    BY DEF IdentityInv, Members
  <2>2. \A w \in Workers : procs[w].at \in {"write", "login", "restore", "bind"} =>
          procs[w].user \in Users
    BY DEF IdentityInv, IdentityTyped, Callbacks
  <2> QED BY <2>1, <2>2 DEF IdentityInv, Members
<1>4. FirstRun'
  BY FirstKept
<1>5. Counted'
  BY CountedKept
<1>6. Bindings'
  <2>1. \A x \in Users :
          /\ rows.user[x].st # "none" => rows'.user[x].st # "none"
          /\ rows'.user[x].st = "active" => rows.user[x].st = "active"
    OBVIOUS
  <2> QED BY <2>1, BindingsKept
<1>7. ID!DeletedStaysWiped'
  BY DEF IdentityInv, ID!DeletedStaysWiped
<1> QED BY <1>2, <1>3, <1>4, <1>5, <1>6, <1>7 DEF IdentityInv

LEMMA UserDeleted ==
  ASSUME IdentityConstants, IdentityInv, NEW u \in Users, ID!DeleteUser(u)
  PROVE  IdentityInv'
<1> DEFINE its == {k \in AllKeys : rows.key[k].user = u}
           r == rows.user[u]
           q == [r EXCEPT !.st = "deleted", !.pw = "wiped"]
<1>1. /\ r.st = "active" /\ ID!UserFree(u) /\ u # NoOne
      /\ procs' = procs /\ outside' = outside /\ DOMAIN rows.key = AllKeys
  BY DEF ID!DeleteUser, ID!Active, IdentityConstants, IdentityInv,
     IdentityTyped, IdentityRows
<1>2. r \in UserRows /\ r.dept \in rows.dept
  BY <1>1, AccountIs
<1>3. /\ q \in UserRows /\ q.st = "deleted" /\ q.pw = "wiped" /\ q.role = r.role
      /\ q.dept = r.dept /\ q.fails = r.fails /\ q.locked = r.locked
  BY <1>2 DEF UserRows
<1>4. \A k \in AllKeys :
        [rows.key[k] EXCEPT !.enabled = FALSE, !.revoked = TRUE] \in KeyRows
  BY KeyIs DEF KeyRows
<1>5. ID!Revoked(its) \in [AllKeys -> KeyRows]
  BY <1>1, <1>4, KeyIs DEF ID!Revoked
<1>6. rows' = [rows EXCEPT !.user[u] = q, !.key = ID!Revoked(its)]
  BY <1>1 DEF ID!DeleteUser, ID!Wiped
<1>7. ghost' = [ghost EXCEPT
                  !.dead = @ \cup {k \in AllKeys : rows'.key[k].revoked}]
  BY <1>1 DEF ID!DeleteUser, ID!MarkDead
<1> HIDE DEF q
<1>8. /\ rows' \in IdentityRows /\ rows'.user[u] = q
      /\ \A x \in Users : x # u => rows'.user[x] = rows.user[x]
      /\ rows'.bound = rows.bound /\ rows'.key = ID!Revoked(its)
      /\ rows'.cli = rows.cli /\ rows'.dept = rows.dept
  BY <1>3, <1>5, <1>6 DEF IdentityInv, IdentityTyped, IdentityRows
<1>9. \A k \in AllKeys :
        /\ rows'.key[k].user = rows.key[k].user
        /\ rows'.key[k].dept = rows.key[k].dept
        /\ rows.key[k].revoked => rows'.key[k].revoked
        /\ k \notin its => rows'.key[k] = rows.key[k]
        /\ k \in its => rows'.key[k].revoked
  <2> SUFFICES ASSUME NEW k \in AllKeys
        PROVE  /\ rows'.key[k].user = rows.key[k].user
               /\ rows'.key[k].dept = rows.key[k].dept
               /\ rows.key[k].revoked => rows'.key[k].revoked
               /\ k \notin its => rows'.key[k] = rows.key[k]
               /\ k \in its => rows'.key[k].revoked
    OBVIOUS
  <2>1. CASE k \in its
    BY <1>1, <1>8, <2>1, KeyIs DEF ID!Revoked, KeyRows
  <2>2. CASE k \notin its
    BY <1>1, <1>8, <2>2 DEF ID!Revoked
  <2> QED BY <2>1, <2>2
<1>10. \A k \in AllKeys : rows'.key[k].dept \in {0} \cup rows'.dept
  BY <1>1, <1>8, <1>9 DEF IdentityInv, KeysHeld, ID!KeyDepartmentThere
<1>11. \A w \in Workers : procs[w].at = "key" =>
         rows'.user[procs[w].user] = rows.user[procs[w].user]
  BY <1>1, <1>8 DEF IdentityInv, IdentityTyped, ID!UserFree, ID!At
<1>12. \A k \in AllKeys : LET x == rows.key[k].user
         IN x # NoOne /\ rows'.user[x].st = "deleted" => rows'.key[k].revoked
  <2> SUFFICES ASSUME NEW k \in AllKeys, rows.key[k].user # NoOne,
                      rows'.user[rows.key[k].user].st = "deleted"
               PROVE  rows'.key[k].revoked
    OBVIOUS
  <2>1. rows.key[k].user \in Users
    BY KeyIs DEF KeyRows
  <2>2. CASE k \in its
    BY <1>9, <2>2
  <2>3. CASE k \notin its
    BY <1>1, <1>8, <1>9, <2>1, <2>3 DEF IdentityInv, KeysHeld, ID!DeletedHasNoKey
  <2> QED BY <2>2, <2>3
<1>13. \A k \in AllKeys : rows.key[k].user = NoOne => rows'.key[k] = rows.key[k]
  BY <1>1, <1>9
<1> HIDE DEF its
<1>14. KeysHeld' /\ ghost' \in IdentityGhosts /\ ghost'.late = ghost.late
         /\ ghost'.raced = ghost.raced /\ ghost'.fails = ghost.fails
  BY <1>1, <1>7, <1>8, <1>9, <1>10, <1>11, <1>12, <1>13, Revokes
<1>15. \A x \in Users : rows.user[x].st # "none" => rows.user[x].dept \in rows.dept
  BY AccountIs
<1>16. \A x \in Users :
           /\ \/ rows'.user[x].st = rows.user[x].st
              \/ /\ rows.user[x].st = "active" /\ rows'.user[x].st = "deleted"
                 /\ rows'.user[x].pw = "wiped"
           /\ rows'.user[x].st = rows.user[x].st =>
                rows'.user[x].pw = rows.user[x].pw
           /\ rows'.user[x].role = rows.user[x].role
           /\ rows'.user[x].fails = rows.user[x].fails
           /\ rows'.user[x].locked = rows.user[x].locked
           /\ rows.user[x].st = "none" => rows'.user[x] = rows.user[x]
           /\ rows.user[x].st # "none" => rows'.user[x].dept \in rows'.dept
  BY <1>1, <1>2, <1>3, <1>8, <1>15 DEF r
<1>17. rows'.dept # {} => ID!Default \in rows'.dept
  BY <1>8 DEF IdentityInv, Members
<1> QED BY <1>1, <1>8, <1>14, <1>16, <1>17, LeavesRest

LEMMA DepartmentDeleted ==
  ASSUME IdentityConstants, IdentityInv, NEW d \in rows.dept,
         ID!DeleteDepartment(d)
  PROVE  IdentityInv'
<1> DEFINE its == {k \in AllKeys : rows.key[k].dept = d}
           members == {x \in Users : rows.user[x].st # "none"
                                       /\ rows.user[x].dept = d}
           users == [x \in Users |-> IF x \in members
                       THEN [rows.user[x] EXCEPT !.dept = ID!Default]
                       ELSE rows.user[x]]
           keys == [k \in AllKeys |-> IF k \in its
                      THEN [ID!Revoked(its)[k] EXCEPT !.dept = 0]
                      ELSE rows.key[k]]
<1>1. /\ d \in Nat \ {0} /\ d # 1 /\ \A x \in members : ID!UserFree(x)
      /\ procs' = procs /\ outside' = outside /\ DOMAIN rows.key = AllKeys
      /\ rows \in IdentityRows
  BY DEF ID!DeleteDepartment, ID!Default, IdentityInv, IdentityTyped, IdentityRows
<1>2. /\ rows' = [rows EXCEPT !.dept = @ \ {d}, !.user = users, !.key = keys]
  BY <1>1 DEF ID!DeleteDepartment
<1>3. ASSUME NEW x \in Users
      PROVE  /\ users[x] \in UserRows
             /\ users[x].st = rows.user[x].st /\ users[x].pw = rows.user[x].pw
             /\ users[x].role = rows.user[x].role
             /\ users[x].fails = rows.user[x].fails
             /\ users[x].locked = rows.user[x].locked
             /\ x \notin members => users[x] = rows.user[x]
             /\ x \in members => users[x].dept = ID!Default
  <2>1. CASE x \in members
    BY <2>1, AccountIs DEF UserRows, ID!Default
  <2>2. CASE x \notin members
    BY <2>2, AccountIs
  <2> QED BY <2>1, <2>2
<1>4. ASSUME NEW k \in AllKeys
      PROVE  /\ keys[k] \in KeyRows /\ keys[k].user = rows.key[k].user
             /\ k \notin its => keys[k] = rows.key[k]
             /\ k \in its => keys[k].revoked /\ keys[k].dept = 0
  <2>1. CASE k \in its
    <3>1. ID!Revoked(its)[k] = [rows.key[k] EXCEPT !.enabled = FALSE, !.revoked = TRUE]
      BY <1>1, <2>1 DEF ID!Revoked
    <3>2. /\ ID!Revoked(its)[k] \in KeyRows /\ ID!Revoked(its)[k].revoked
          /\ ID!Revoked(its)[k].user = rows.key[k].user
      BY <3>1, KeyIs DEF KeyRows
    <3>3. keys[k] = [ID!Revoked(its)[k] EXCEPT !.dept = 0]
      BY <2>1
    <3>4. \A q \in KeyRows : /\ [q EXCEPT !.dept = 0] \in KeyRows
                             /\ [q EXCEPT !.dept = 0].user = q.user
                             /\ [q EXCEPT !.dept = 0].revoked = q.revoked
                             /\ [q EXCEPT !.dept = 0].dept = 0
      BY DEF KeyRows
    <3> HIDE DEF keys, its
    <3> QED BY <2>1, <3>2, <3>3, <3>4
  <2>2. CASE k \notin its
    BY <2>2, KeyIs
  <2> QED BY <2>1, <2>2
<1>5. users \in [Users -> UserRows] /\ keys \in [AllKeys -> KeyRows]
  BY <1>3, <1>4
<1> HIDE DEF users, keys
<1>6. /\ rows' \in IdentityRows /\ rows'.user = users /\ rows'.key = keys
      /\ rows'.bound = rows.bound /\ rows'.cli = rows.cli
      /\ rows'.dept = rows.dept \ {d}
  BY <1>1, <1>2, <1>5 DEF IdentityRows
<1>7. ghost' = [ghost EXCEPT
                  !.dead = @ \cup {k \in AllKeys : rows'.key[k].revoked}]
  BY <1>1 DEF ID!DeleteDepartment, ID!MarkDead
<1>8. \A k \in AllKeys :
        /\ rows.key[k].revoked => rows'.key[k].revoked
        /\ rows.key[k].user = NoOne => rows'.key[k] = rows.key[k]
        /\ rows'.key[k].user = rows.key[k].user
  <2>1. \A k \in AllKeys : rows.key[k].user = NoOne => k \notin its
    BY <1>1, KeyIs
  <2> QED BY <1>4, <1>6, <2>1
<1>9. \A k \in AllKeys : rows'.key[k].dept \in {0} \cup rows'.dept
  BY <1>1, <1>4, <1>6 DEF IdentityInv, KeysHeld, ID!KeyDepartmentThere
<1>10. \A w \in Workers : procs[w].at = "key" =>
         rows'.user[procs[w].user] = rows.user[procs[w].user]
  <2>1. \A w \in Workers : procs[w].at = "key" =>
          procs[w].user \in Users /\ procs[w].user \notin members
    BY <1>1 DEF IdentityInv, IdentityTyped, ID!UserFree, ID!At
  <2> QED BY <1>3, <1>6, <2>1
<1>11. \A k \in AllKeys : LET x == rows.key[k].user
         IN x # NoOne /\ rows'.user[x].st = "deleted" => rows'.key[k].revoked
  <2>1. \A k \in AllKeys : rows.key[k].user \in Users \cup {NoOne}
    BY KeyIs DEF KeyRows
  <2> QED BY <1>1, <1>3, <1>6, <1>8, <2>1 DEF IdentityInv, KeysHeld, ID!DeletedHasNoKey
<1>12. KeysHeld' /\ ghost' \in IdentityGhosts /\ ghost'.late = ghost.late
         /\ ghost'.raced = ghost.raced /\ ghost'.fails = ghost.fails
  BY <1>1, <1>6, <1>7, <1>8, <1>9, <1>10, <1>11, Revokes
<1>13. ID!Default \in rows'.dept
  BY <1>1, <1>6 DEF IdentityInv, Members, ID!Default
<1>14. \A x \in Users :
         /\ rows.user[x].st = "none" => rows'.user[x] = rows.user[x]
         /\ rows.user[x].st # "none" => rows'.user[x].dept \in rows'.dept
  BY <1>3, <1>6, <1>13, AccountIs
<1> HIDE DEF its, members
<1>15. \A x \in Users :
           /\ \/ rows'.user[x].st = rows.user[x].st
              \/ /\ rows.user[x].st = "active" /\ rows'.user[x].st = "deleted"
                 /\ rows'.user[x].pw = "wiped"
           /\ rows'.user[x].st = rows.user[x].st =>
                rows'.user[x].pw = rows.user[x].pw
           /\ rows'.user[x].role = rows.user[x].role
           /\ rows'.user[x].fails = rows.user[x].fails
           /\ rows'.user[x].locked = rows.user[x].locked
           /\ rows.user[x].st = "none" => rows'.user[x] = rows.user[x]
           /\ rows.user[x].st # "none" => rows'.user[x].dept \in rows'.dept
  BY <1>3, <1>6, <1>14
<1> QED BY <1>1, <1>6, <1>12, <1>13, <1>15, LeavesRest

\* Only keys and authorisations change.
LEMMA AccountsRest ==
  ASSUME IdentityConstants, IdentityInv, Settles, rows' \in IdentityRows,
         rows'.user = rows.user, rows'.dept = rows.dept,
         rows'.bound = rows.bound, outside' = outside, ghost' \in IdentityGhosts,
         ghost'.late = ghost.late, ghost'.raced = ghost.raced,
         ghost'.fails = ghost.fails, KeysHeld'
  PROVE  IdentityInv'
<1>1. IdentityTyped'
  BY TypedKept DEF IdentityInv, IdentityTyped
<1>2. Members'
  BY MembersKept DEF Settles
<1>3. FirstRun'
  BY FirstKept DEF Settles
<1>4. Counted'
  BY CountedKept DEF Settles
<1>5. Bindings'
  BY StandingKept
<1>6. ID!DeletedStaysWiped'
  BY DEF IdentityInv, ID!DeletedStaysWiped
<1> QED BY <1>1, <1>2, <1>3, <1>4, <1>5, <1>6 DEF IdentityInv

LEMMA KeyCommits ==
  ASSUME IdentityConstants, IdentityInv, NEW w \in Workers, ID!CommitKey(w)
  PROVE  IdentityInv'
<1> DEFINE k == procs[w].key
           q == [user |-> procs[w].user, dept |-> procs[w].val,
                 enabled |-> TRUE, revoked |-> FALSE]
           cli == [c \in Codes |-> IF c = k
                     THEN [rows.cli[c] EXCEPT !.st = "consumed"] ELSE rows.cli[c]]
<1>1. /\ procs[w].at = "key" /\ k \in AllKeys /\ procs[w].user \in Users
      /\ procs[w].val \in Nat /\ MakesKey(w) /\ rows \in IdentityRows
      /\ procs[w].user # NoOne
  BY DEF ID!CommitKey, IdentityInv, IdentityTyped, KeysHeld, Requests,
     IdentityConstants
<1>2. /\ rows' = [rows EXCEPT !.key[k] = q, !.cli = cli]
      /\ Settles /\ outside' = outside /\ ghost' = ghost
  BY Settled DEF ID!CommitKey
<1>3. /\ q \in KeyRows /\ q.user = procs[w].user /\ q.dept = procs[w].val
      /\ ~q.revoked
  BY <1>1 DEF KeyRows
<1>4. ASSUME NEW c \in Codes
      PROVE  /\ cli[c] \in CodeRows /\ cli[c].user = rows.cli[c].user
             /\ c = k => cli[c].st = "consumed"
             /\ c # k => cli[c] = rows.cli[c]
  <2>1. rows.cli[c] \in CodeRows
    BY <1>1 DEF IdentityRows
  <2> QED BY <2>1 DEF CodeRows
<1>5. cli \in [Codes -> CodeRows]
  BY <1>4
<1> HIDE DEF q, cli
<1>6. /\ rows' \in IdentityRows /\ rows'.key[k] = q /\ rows'.cli = cli
      /\ \A j \in AllKeys : j # k => rows'.key[j] = rows.key[j]
      /\ rows'.user = rows.user /\ rows'.dept = rows.dept
      /\ rows'.bound = rows.bound /\ DOMAIN rows'.key = AllKeys
      /\ DOMAIN rows.key = AllKeys
  BY <1>1, <1>2, <1>3, <1>5 DEF IdentityRows
<1>7. /\ procs'[w].at = "idle" /\ \A v \in Workers : v # w => procs'[v] = procs[v]
  BY RequestEnds DEF ID!CommitKey
<1>8. /\ rows.user[procs[w].user].st = "active" /\ rows.key[k].user = NoOne
      /\ rows.key[k] = ID!NoKey
      /\ procs[w].val \in {0} \cup rows.dept
      /\ k \in Codes => rows.cli[k].user = procs[w].user
      /\ \A v \in Workers : procs[v].at = "key" /\ procs[v].key = k => v = w
  BY <1>1, AccountIs DEF MakesKey, ID!Active, IdentityInv, KeysHeld
<1>9. KeysHeld'
  <2>1. \A j \in AllKeys : rows'.key[j].user = NoOne => rows'.key[j] = ID!NoKey
    BY <1>1, <1>3, <1>6 DEF IdentityInv, KeysHeld
  <2>2. ASSUME NEW v \in Workers, procs'[v].at = "key" PROVE MakesKey(v)'
    <3>1. /\ procs'[v] = procs[v] /\ v # w /\ MakesKey(v) /\ procs[v].key # k
          /\ procs[v].key \in AllKeys
      BY <1>7, <1>8, <2>2 DEF IdentityInv, IdentityTyped, KeysHeld
    <3>2. \A x \in Workers : procs'[x].at = "key" /\ procs'[x].key = procs[v].key =>
            x = v
      BY <1>7, <3>1 DEF MakesKey
    <3>3. procs[v].key \in Codes => cli[procs[v].key] = rows.cli[procs[v].key]
      BY <1>4, <3>1
    <3> QED BY <1>6, <3>1, <3>2, <3>3 DEF MakesKey, ID!Active
  <2>3. ASSUME NEW v \in Workers, procs'[v].at = "keywrite"
        PROVE  rows'.key[procs'[v].key].user # NoOne
    <3>1. procs'[v] = procs[v] /\ procs[v].key \in AllKeys
      BY <1>7, <2>3 DEF IdentityInv, IdentityTyped
    <3> QED BY <1>1, <1>3, <1>6, <2>3, <3>1 DEF IdentityInv, KeysHeld
  <2>4. \A j \in ghost'.dead : rows'.key[j].revoked
    <3>1. ghost.dead \subseteq AllKeys /\ k \notin ghost.dead
      BY <1>8 DEF IdentityInv, IdentityTyped, IdentityGhosts, KeysHeld, ID!NoKey
    <3> QED BY <1>2, <1>6, <3>1 DEF IdentityInv, KeysHeld
  <2>5. \A c \in Codes : rows'.cli[c].st = "approved" => rows'.cli[c].user \in Users
    BY <1>4, <1>6 DEF IdentityInv, KeysHeld
  <2>6. ID!DeletedHasNoKey'
    BY <1>3, <1>6, <1>8 DEF IdentityInv, KeysHeld, ID!DeletedHasNoKey
  <2>7. ID!KeyDepartmentThere'
    BY <1>3, <1>6, <1>8 DEF IdentityInv, KeysHeld, ID!KeyDepartmentThere
  <2>8. ID!CliKeyIsApprovers'
    <3> SUFFICES ASSUME NEW c \in Codes
          PROVE  /\ rows'.key[c].user # NoOne =>
                      /\ rows'.cli[c].st = "consumed"
                      /\ rows'.key[c].user = rows'.cli[c].user
                 /\ rows'.cli[c].st = "consumed" => rows'.key[c].user # NoOne
      BY DEF ID!CliKeyIsApprovers
    <3>1. CASE c = k
      BY <1>1, <1>3, <1>4, <1>6, <1>8, <3>1
    <3>2. CASE c # k
      BY <1>4, <1>6, <3>2 DEF IdentityInv, KeysHeld, ID!CliKeyIsApprovers, AllKeys
    <3> QED BY <3>1, <3>2
  <2> QED BY <2>1, <2>2, <2>3, <2>4, <2>5, <2>6, <2>7, <2>8 DEF KeysHeld
<1> QED BY <1>2, <1>6, <1>9, AccountsRest DEF IdentityInv, IdentityTyped

LEMMA KeyWrites ==
  ASSUME IdentityConstants, IdentityInv, NEW w \in Workers, ID!WriteKey(w)
  PROVE  IdentityInv'
<1> DEFINE k == procs[w].key
           q == ID!Written(rows.key[k], procs[w].val)
<1>1. /\ procs[w].at = "keywrite" /\ k \in AllKeys /\ rows.key[k].user # NoOne
      /\ rows \in IdentityRows /\ DOMAIN rows.key = AllKeys /\ rows.key[k] \in KeyRows
  BY DEF ID!WriteKey, IdentityInv, IdentityTyped, IdentityRows, KeysHeld
<1>2. /\ rows' = [rows EXCEPT !.key[k] = q] /\ Settles /\ outside' = outside
      /\ ghost' = [ghost EXCEPT
                     !.dead = @ \cup {j \in AllKeys : rows'.key[j].revoked}]
  BY <1>1, Settled DEF ID!WriteKey, ID!MarkDead
<1>3. /\ q \in KeyRows /\ q.user = rows.key[k].user /\ q.dept = rows.key[k].dept
      /\ rows.key[k].revoked => q.revoked
  BY <1>1 DEF KeyRows, ID!Written
<1> HIDE DEF q
<1>4. /\ rows' \in IdentityRows /\ rows'.key[k] = q /\ rows'.cli = rows.cli
      /\ \A j \in AllKeys : j # k => rows'.key[j] = rows.key[j]
      /\ rows'.user = rows.user /\ rows'.dept = rows.dept
      /\ rows'.bound = rows.bound /\ DOMAIN rows'.key = AllKeys
  BY <1>1, <1>2, <1>3 DEF IdentityRows
<1>5. \A j \in AllKeys :
        /\ rows'.key[j].user = rows.key[j].user
        /\ rows'.key[j].dept = rows.key[j].dept
        /\ rows.key[j].revoked => rows'.key[j].revoked
        /\ rows.key[j].user = NoOne => rows'.key[j] = rows.key[j]
  BY <1>1, <1>3, <1>4
<1>6. /\ ghost' \in IdentityGhosts /\ ghost'.late = ghost.late
      /\ ghost'.raced = ghost.raced /\ ghost'.fails = ghost.fails
      /\ ghost'.dead = ghost.dead \cup {j \in AllKeys : rows'.key[j].revoked}
  BY <1>2 DEF IdentityInv, IdentityTyped, IdentityGhosts
<1>7. KeysHeld'
  <2>1. \A j \in AllKeys : rows'.key[j].user = NoOne => rows'.key[j] = ID!NoKey
    BY <1>5 DEF IdentityInv, KeysHeld
  <2>2. ASSUME NEW v \in Workers, procs'[v].at = "key" PROVE MakesKey(v)'
    <3>1. /\ procs'[v] = procs[v] /\ MakesKey(v) /\ procs[v].key \in AllKeys
      BY <1>2, <2>2 DEF IdentityInv, IdentityTyped, KeysHeld, Settles
    <3>2. \A x \in Workers : procs'[x].at = "key" /\ procs'[x].key = procs[v].key =>
            x = v
      BY <1>2, <3>1 DEF MakesKey, Settles
    <3> QED BY <1>4, <1>5, <3>1, <3>2 DEF MakesKey, ID!Active
  <2>3. ASSUME NEW v \in Workers, procs'[v].at = "keywrite"
        PROVE  rows'.key[procs'[v].key].user # NoOne
    <3>1. procs'[v] = procs[v] /\ procs[v].key \in AllKeys
      BY <1>2, <2>3 DEF IdentityInv, IdentityTyped, Settles
    <3> QED BY <1>5, <2>3, <3>1 DEF IdentityInv, KeysHeld
  <2>4. \A j \in ghost'.dead : rows'.key[j].revoked
    BY <1>5, <1>6 DEF IdentityInv, IdentityTyped, IdentityGhosts, KeysHeld
  <2>5. ID!DeletedHasNoKey' /\ ID!KeyDepartmentThere'
    BY <1>1, <1>4, <1>5 DEF IdentityInv, KeysHeld, ID!DeletedHasNoKey,
       ID!KeyDepartmentThere
  <2>6. ID!CliKeyIsApprovers'
    BY <1>4, <1>5 DEF IdentityInv, KeysHeld, ID!CliKeyIsApprovers, AllKeys
  <2> QED BY <1>4, <2>1, <2>2, <2>3, <2>4, <2>5, <2>6 DEF IdentityInv, KeysHeld
<1> QED BY <1>2, <1>4, <1>6, <1>7, AccountsRest

LEMMA CodeSteps ==
  ASSUME IdentityConstants, IdentityInv, NEW c \in Codes,
         \/ ID!CliCreate(c) \/ ID!CliTime(c) \/ ID!CliExpire(c)
         \/ \E u \in Users : ID!CliApprove(c, u)
  PROVE  IdentityInv'
<1>1. rows.cli[c] \in CodeRows /\ rows \in IdentityRows
  BY DEF IdentityInv, IdentityTyped, IdentityRows
<1>2. \A w \in Workers : procs[w].at = "key" /\ procs[w].key = c =>
        rows.cli[c].st = "approved"
  BY DEF IdentityInv, KeysHeld, MakesKey
<1>3. PICK q \in CodeRows :
        /\ ID!SetCode(c, q)
        /\ q.st = "approved" => q.user \in Users
        /\ \/ q.st = rows.cli[c].st /\ q.user = rows.cli[c].user
           \/ /\ q.st # "consumed" /\ rows.cli[c].st # "consumed"
              /\ \A w \in Workers : procs[w].at = "key" => procs[w].key # c
  <2>1. CASE ID!CliCreate(c)
    <3> DEFINE q == [ID!NoCode EXCEPT !.st = "pending"]
    <3>1. q \in CodeRows /\ q.st = "pending"
      BY DEF CodeRows, ID!NoCode
    <3>2. ID!SetCode(c, q) /\ rows.cli[c].st = "none"
      BY <2>1 DEF ID!CliCreate
    <3> HIDE DEF q
    <3> QED BY <1>2, <3>1, <3>2
  <2>2. CASE ID!CliTime(c)
    <3> DEFINE q == [rows.cli[c] EXCEPT !.over = TRUE]
    <3>1. q \in CodeRows /\ q.st = rows.cli[c].st /\ q.user = rows.cli[c].user
      BY <1>1 DEF CodeRows
    <3>2. ID!SetCode(c, q)
      BY <2>2 DEF ID!CliTime
    <3>3. rows.cli[c].st = "approved" => rows.cli[c].user \in Users
      BY DEF IdentityInv, KeysHeld
    <3> HIDE DEF q
    <3> QED BY <3>1, <3>2, <3>3
  <2>3. CASE ID!CliExpire(c)
    <3> DEFINE q == [rows.cli[c] EXCEPT !.st = "expired"]
    <3>1. q \in CodeRows /\ q.st = "expired"
      BY <1>1 DEF CodeRows
    <3>2. /\ ID!SetCode(c, q) /\ rows.cli[c].st # "consumed"
          /\ \A w \in Workers : procs[w].at = "key" => procs[w].key # c
      BY <2>3 DEF ID!CliExpire, ID!CodeFree, ID!At
    <3> HIDE DEF q
    <3> QED BY <3>1, <3>2
  <2>4. ASSUME NEW u \in Users, ID!CliApprove(c, u)
        PROVE  \E q \in CodeRows :
                 /\ ID!SetCode(c, q)
                 /\ q.st = "approved" => q.user \in Users
                 /\ \/ q.st = rows.cli[c].st /\ q.user = rows.cli[c].user
                    \/ /\ q.st # "consumed" /\ rows.cli[c].st # "consumed"
                       /\ \A w \in Workers :
                            procs[w].at = "key" => procs[w].key # c
    <3> DEFINE q == [rows.cli[c] EXCEPT !.st = "approved", !.user = u]
    <3>1. q \in CodeRows /\ q.st = "approved" /\ q.user = u
      BY <1>1 DEF CodeRows
    <3>2. ID!SetCode(c, q) /\ rows.cli[c].st = "pending"
      BY <2>4 DEF ID!CliApprove
    <3> HIDE DEF q
    <3> QED BY <1>2, <3>1, <3>2
  <2> QED BY <2>1, <2>2, <2>3, <2>4
<1>4. /\ rows' = [rows EXCEPT !.cli[c] = q] /\ procs' = procs
      /\ outside' = outside /\ ghost' = ghost /\ Settles
  BY <1>3, Settled DEF ID!SetCode
<1>5. /\ rows' \in IdentityRows /\ rows'.cli[c] = q /\ rows'.key = rows.key
      /\ \A x \in Codes : x # c => rows'.cli[x] = rows.cli[x]
      /\ rows'.user = rows.user /\ rows'.dept = rows.dept
      /\ rows'.bound = rows.bound
  BY <1>1, <1>4 DEF IdentityRows
<1>6. KeysHeld'
  <2>1. ASSUME NEW v \in Workers, procs[v].at = "key" PROVE MakesKey(v)'
    <3>1. MakesKey(v)
      BY <2>1 DEF IdentityInv, KeysHeld
    <3>2. procs[v].key \in Codes =>
            /\ rows'.cli[procs[v].key].st = rows.cli[procs[v].key].st
            /\ rows'.cli[procs[v].key].user = rows.cli[procs[v].key].user
      BY <1>3, <1>5, <2>1
    <3> QED BY <1>4, <1>5, <3>1, <3>2 DEF MakesKey, ID!Active
  <2>2. ID!CliKeyIsApprovers'
    BY <1>3, <1>5 DEF IdentityInv, KeysHeld, ID!CliKeyIsApprovers
  <2>3. \A x \in Codes : rows'.cli[x].st = "approved" => rows'.cli[x].user \in Users
    BY <1>3, <1>5 DEF IdentityInv, KeysHeld
  <2> QED BY <1>4, <1>5, <2>1, <2>2, <2>3 DEF IdentityInv, KeysHeld,
             ID!DeletedHasNoKey, ID!KeyDepartmentThere
<1> QED BY <1>4, <1>5, <1>6, AccountsRest DEF IdentityInv, IdentityTyped

\* Who ends its callback was the only one of its subject.
LEMMA CallbackEnds ==
  ASSUME IdentityConstants, IdentityInv, NEW w \in Workers, ID!Ends(w),
         procs[w].at \in Callbacks, NEW t \in Subs, procs[w].key = t,
         ghost' = ghost, rows' \in IdentityRows,
         rows.bound \subseteq rows'.bound, Raw \/ rows'.bound = {},
         \A s \in Subs, u \in Users :
           <<s, u>> \in rows'.bound => rows'.user[u].st # "none",
         ~ghost.raced =>
           /\ \A s \in Subs, u \in Users : Its(s, u)' /\ s # t => Its(s, u)
           /\ \A u, v \in Users : Its(t, u)' /\ Its(t, v)' => u = v
  PROVE  Bindings'
<1>1. procs'[w].at = "idle" /\ \A v \in Workers : v # w => procs'[v] = procs[v]
  BY RequestEnds
<1>2. ASSUME ~ghost.raced, NEW v \in Workers, procs'[v].at \in Callbacks
      PROVE  CalledBack(v)'
  <2>1. procs'[v] = procs[v] /\ v # w
    BY <1>1, <1>2 DEF Callbacks
  <2>2. procs[v].at \in Callbacks /\ CalledBack(v) /\ CalledBack(w)
    BY <1>2, <2>1 DEF IdentityInv, Bindings
  <2>3. procs[v].key # t /\ procs[v].key \in Subs /\ procs[v].user \in Users
    BY <2>1, <2>2 DEF CalledBack, IdentityInv, IdentityTyped
  <2>4. PICK y \in Subs : y = procs[v].key
    BY <2>3
  <2>5. \A x \in Users : Its(y, x)' => Its(y, x)
    BY <1>2, <2>3, <2>4
  <2>6. \A x \in Workers :
          procs'[x].at \in Callbacks /\ procs'[x].key = procs[v].key => x = v
    BY <1>1, <2>1, <2>2 DEF CalledBack, Callbacks
  <2> QED BY <2>1, <2>2, <2>3, <2>4, <2>5, <2>6 DEF CalledBack
<1>3. ~ghost.raced =>
        \A x \in Subs, u, v \in Users : Its(x, u)' /\ Its(x, v)' => u = v
  BY DEF IdentityInv, Bindings
<1> QED BY <1>2, <1>3 DEF Bindings

\* An account of two subjects stays one as bindings are added.
LEMMA SharedStays ==
  ASSUME NEW x, rows.bound \subseteq rows'.bound, ID!Shared(x)
  PROVE  ID!Shared(x)'
<1>1. PICK s, t \in Subs :
        s # t /\ {<<s, x>>, <<t, x>>} \subseteq rows.bound
  BY DEF ID!Shared
<1>2. s # t /\ {<<s, x>>, <<t, x>>} \subseteq rows'.bound
  BY <1>1
<1> QED BY <1>2 DEF ID!Shared

\* Subject t is bound to account v, or was.
LEMMA Bound ==
  ASSUME IdentityConstants, IdentityInv, NEW w \in Workers, ID!Ends(w),
         procs[w].at \in Callbacks, NEW t \in Subs, procs[w].key = t,
         NEW v \in Users, rows.user[v].st # "none",
         rows' = [rows EXCEPT !.bound = ID!Binds(t, v)], ghost' = ghost,
         outside' \in [tokens : SUBSET (Subs \X Users)],
         ~ghost.raced => \A x \in Users : Its(t, x) => x = v
  PROVE  IdentityInv'
<1>1. /\ rows \in IdentityRows /\ Settles
      /\ rows.bound \subseteq ID!Binds(t, v)
      /\ ID!Binds(t, v) \subseteq rows.bound \cup {<<t, v>>}
      /\ ID!Binds(t, v) \subseteq Subs \X Users
      /\ Raw \/ ID!Binds(t, v) = {}
  <2>1. rows \in IdentityRows /\ Settles /\ rows.bound \subseteq Subs \X Users
    BY Settled DEF IdentityInv, IdentityTyped, IdentityRows
  <2> QED BY <2>1 DEF ID!Binds, IdentityInv, Bindings
<1>2. /\ rows' \in IdentityRows /\ rows'.bound = ID!Binds(t, v)
      /\ rows'.user = rows.user /\ rows'.key = rows.key /\ rows'.cli = rows.cli
      /\ rows'.dept = rows.dept
  BY <1>1 DEF IdentityRows
<1>3. \A x \in Workers : procs'[x] = procs[x] \/ procs'[x].at = "idle"
  BY <1>1 DEF Settles
<1>4. IdentityTyped'
  BY <1>1, <1>2, TypedKept DEF IdentityInv, IdentityTyped
<1>5. Members' /\ FirstRun'
  BY <1>2, <1>3, MembersKept, FirstKept
<1>6. KeysHeld'
  BY <1>2, <1>3, KeysKept
<1>7. Counted'
  BY <1>2, <1>3, CountedKept
<1>8. ID!DeletedStaysWiped'
  BY <1>2 DEF IdentityInv, ID!DeletedStaysWiped
<1>9. Bindings'
  <2>1. ASSUME NEW s \in Subs, NEW x \in Users, Its(s, x)'
        PROVE  Its(s, x) \/ (s = t /\ x = v)
    <3>1. rows.user[x].st = "active" /\ (x = s \/ <<s, x>> \in ID!Binds(t, v))
      BY <1>2, <2>1 DEF Its, ID!BySub
    <3>2. ~ID!Shared(x)
      <4>1. rows.bound \subseteq rows'.bound
        BY <1>1, <1>2
      <4>2. ID!Shared(x) => ID!Shared(x)'
        BY <4>1, SharedStays
      <4> QED BY <2>1, <4>2 DEF Its
    <3>3. x = s \/ <<s, x>> \in rows.bound \/ (s = t /\ x = v)
      BY <1>1, <3>1
    <3> QED BY <3>1, <3>2, <3>3 DEF Its, ID!BySub
  <2>2. \A s \in Subs, x \in Users :
          <<s, x>> \in rows'.bound => rows'.user[x].st # "none"
    BY <1>1, <1>2 DEF IdentityInv, Bindings
  <2>3. ~ghost.raced =>
          /\ \A s \in Subs, x \in Users : Its(s, x)' /\ s # t => Its(s, x)
          /\ \A x, y \in Users : Its(t, x)' /\ Its(t, y)' => x = y
    BY <2>1
  <2> QED BY <1>1, <1>2, <2>2, <2>3, CallbackEnds
<1> QED BY <1>4, <1>5, <1>6, <1>7, <1>8, <1>9 DEF IdentityInv

LEMMA Restores ==
  ASSUME IdentityConstants, IdentityInv, NEW w \in Workers, ID!Ends(w),
         procs[w].at = "restore", NEW t \in Subs, procs[w].key = t,
         NEW u \in Users, procs[w].user = u, ID!UserFree(u), ghost' = ghost,
         outside' \in [tokens : SUBSET (Subs \X Users)],
         ID!SetUser(u, [rows.user[u] EXCEPT !.st = "active",
                          !.pw = IF @ = "wiped" THEN "own" ELSE @])
  PROVE  IdentityInv'
<1> DEFINE r == rows.user[u]
           q == [r EXCEPT !.st = "active", !.pw = IF @ = "wiped" THEN "own" ELSE @]
<1>1. r.st # "none" /\ Settles /\ procs[w].at \in Callbacks
  BY Settled DEF IdentityInv, Members, Callbacks
<1>2. r \in UserRows /\ r.dept \in rows.dept
  BY <1>1, AccountIs
<1>3. /\ q \in UserRows /\ q.st = "active" /\ q.role = r.role /\ q.dept = r.dept
      /\ q.fails = r.fails /\ q.locked = r.locked
  BY <1>2 DEF UserRows
<1>4. rows' = [rows EXCEPT !.user[u] = q] /\ ghost' \in IdentityGhosts
  BY DEF ID!SetUser, IdentityInv, IdentityTyped
<1> HIDE DEF q, r
<1>5. /\ rows' \in IdentityRows /\ rows'.user[u] = q
      /\ \A x \in Users : x # u => rows'.user[x] = rows.user[x]
      /\ rows'.bound = rows.bound
      /\ IdentityTyped' /\ Members' /\ FirstRun' /\ KeysHeld'
  BY <1>1, <1>2, <1>3, <1>4, OldAccount DEF r
<1>6. Counted'
  <2>1. \A x \in Users : /\ rows'.user[x].fails = rows.user[x].fails
                         /\ rows'.user[x].locked = rows.user[x].locked
    BY <1>3, <1>5 DEF r
  <2> QED BY <1>1, <2>1, CountedKept DEF Settles
<1>7. ID!DeletedStaysWiped'
  BY <1>3, <1>5 DEF IdentityInv, ID!DeletedStaysWiped
<1>8. Bindings'
  <2>1. ~ghost.raced => /\ \A x \in Users : ~Its(t, x)
                        /\ IF Raw THEN <<t, u>> \in rows.bound ELSE u = t
    BY <1>1 DEF IdentityInv, Bindings, CalledBack
  <2>2. ASSUME ~ghost.raced, NEW s \in Subs, NEW x \in Users, Its(s, x)'
        PROVE  Its(s, x) \/ (s = t /\ x = u)
    <3>1. rows'.user[x].st = "active" /\ (x = s \/ <<s, x>> \in rows.bound)
      BY <1>5, <2>2 DEF Its, ID!BySub
    <3>2. ~ID!Shared(x)
      <4>1. rows'.bound = rows.bound
        BY <1>5
      <4>2. ID!Shared(x) => ID!Shared(x)'
        BY <4>1, SharedStays
      <4> QED BY <2>2, <4>2 DEF Its
    <3>3. CASE x # u
      BY <1>5, <3>1, <3>2, <3>3 DEF Its, ID!BySub
    <3>4. CASE x = u /\ s # t /\ Raw
      <4>1. <<s, u>> \in rows.bound /\ <<t, u>> \in rows.bound
        BY <2>1, <2>2, <3>1, <3>4 DEF IdentityConstants
      <4> QED BY <3>2, <3>4, <4>1 DEF ID!Shared
    <3>5. CASE x = u /\ s # t /\ ~Raw
      BY <2>1, <2>2, <3>1, <3>5 DEF IdentityInv, Bindings
    <3> QED BY <3>3, <3>4, <3>5
  <2>3. \A s \in Subs, x \in Users :
          <<s, x>> \in rows'.bound => rows'.user[x].st # "none"
    BY <1>3, <1>5 DEF IdentityInv, Bindings
  <2>4. ~ghost.raced =>
          /\ \A s \in Subs, x \in Users : Its(s, x)' /\ s # t => Its(s, x)
          /\ \A x, y \in Users : Its(t, x)' /\ Its(t, y)' => x = y
    BY <2>1, <2>2
  <2>5. Raw \/ rows'.bound = {}
    BY <1>5 DEF IdentityInv, Bindings
  <2> QED BY <1>1, <1>5, <2>3, <2>4, <2>5, CallbackEnds
<1> QED BY <1>5, <1>6, <1>7, <1>8 DEF IdentityInv

LEMMA Creates ==
  ASSUME IdentityConstants, IdentityInv, NEW w \in Workers, ID!Ends(w),
         procs[w].at = "create", NEW t \in Subs, procs[w].key = t,
         NEW u \in Users, procs[w].user = u, rows.user[u].st = "none",
         ghost' = ghost, outside' \in [tokens : SUBSET (Subs \X Users)],
         rows' = [rows EXCEPT !.user[u] = [ID!NoUser EXCEPT !.st = "active",
                                                            !.role = OidcRole],
                              !.dept = @ \cup {ID!Default},
                              !.bound = ID!Binds(t, u)]
  PROVE  IdentityInv'
<1> DEFINE q == [ID!NoUser EXCEPT !.st = "active", !.role = OidcRole]
<1>1. Settles /\ procs[w].at \in Callbacks
  BY Settled DEF Callbacks
<1>2. /\ q \in UserRows /\ q.st = "active" /\ q.role = OidcRole
      /\ q.dept = ID!Default /\ q.fails = 0 /\ q.locked = FALSE
  BY DEF IdentityConstants, UserRows, ID!NoUser, ID!Default
<1>3. /\ rows \in IdentityRows
      /\ rows.bound \subseteq ID!Binds(t, u)
      /\ ID!Binds(t, u) \subseteq rows.bound \cup {<<t, u>>}
      /\ ID!Binds(t, u) \subseteq Subs \X Users
      /\ Raw \/ ID!Binds(t, u) = {}
  <2>1. rows \in IdentityRows /\ rows.bound \subseteq Subs \X Users
    BY DEF IdentityInv, IdentityTyped, IdentityRows
  <2> QED BY <2>1 DEF ID!Binds, IdentityInv, Bindings
<1>4. rows' = [rows EXCEPT !.user[u] = q, !.dept = @ \cup {ID!Default},
                           !.bound = ID!Binds(t, u)]
  OBVIOUS
<1> HIDE DEF q
<1>5. /\ rows' \in IdentityRows /\ rows'.bound = ID!Binds(t, u)
      /\ rows'.user = [rows.user EXCEPT ![u] = q]
      /\ rows'.key = rows.key /\ rows'.cli = rows.cli
      /\ rows'.dept = rows.dept \cup {ID!Default}
  <2>1. ID!Default \in Nat \ {0} /\ [rows.user EXCEPT ![u] = q] \in [Users -> UserRows]
    BY <1>2, <1>3 DEF IdentityRows, ID!Default
  <2>2. ID!Binds(t, u) \in SUBSET (Subs \X Users)
    BY <1>3
  <2> DEFINE us == [rows.user EXCEPT ![u] = q]
             b == ID!Binds(t, u)
             d == ID!Default
  <2>3. /\ rows' = [rows EXCEPT !.user = us, !.dept = @ \cup {d}, !.bound = b]
        /\ us \in [Users -> UserRows] /\ d \in Nat \ {0}
        /\ b \in SUBSET (Subs \X Users)
    BY <1>4, <2>1, <2>2
  <2> HIDE DEF us, b, d
  <2>4. /\ rows'.bound = b /\ rows'.user = us /\ rows'.key = rows.key
        /\ rows'.cli = rows.cli /\ rows'.dept = rows.dept \cup {d}
    BY <1>3, <2>3 DEF IdentityRows
  <2>5. rows' \in IdentityRows
    <3>1. rows.dept \cup {d} \in SUBSET (Nat \ {0})
      BY <1>3, <2>3 DEF IdentityRows
    <3>2. rows' = [user |-> us, key |-> rows.key, cli |-> rows.cli,
                   dept |-> rows.dept \cup {d}, bound |-> b]
      BY <1>3, <2>3 DEF IdentityRows
    <3> QED BY <1>3, <2>3, <3>1, <3>2 DEF IdentityRows
  <2> QED BY <2>4, <2>5 DEF us, b, d
<1>6. /\ \A x \in Users : x # u => rows'.user[x] = rows.user[x]
      /\ rows'.user[u] = q
  BY <1>3, <1>5 DEF IdentityRows
<1>7. /\ IdentityTyped' /\ Members' /\ KeysHeld' /\ Counted'
      /\ ID!DeletedStaysWiped'
  BY <1>1, <1>2, <1>5, NewAccount
<1>8. FirstRun'
  <2>1. OidcRole # "superadmin" =>
          \A x \in Users : rows'.user[x].role = "superadmin" =>
                             rows.user[x].role = "superadmin"
    BY <1>2, <1>6
  <2> QED BY <1>1, <2>1, FirstKept DEF Settles
<1>9. Bindings'
  <2>1. ~ghost.raced => (\A x \in Users : ~Its(t, x)) /\ (Raw \/ u = t)
    BY <1>1 DEF IdentityInv, Bindings, CalledBack
  <2>2. ASSUME ~ghost.raced, NEW s \in Subs, NEW x \in Users, Its(s, x)'
        PROVE  Its(s, x) \/ (s = t /\ x = u)
    <3>1. rows'.user[x].st = "active" /\ (x = s \/ <<s, x>> \in ID!Binds(t, u))
      BY <1>5, <2>2 DEF Its, ID!BySub
    <3>2. x = s \/ <<s, x>> \in rows.bound \/ (s = t /\ x = u)
      BY <1>3, <3>1
    <3>3. CASE x # u
      <4>1. ~ID!Shared(x)
        <5>1. rows.bound \subseteq rows'.bound
          BY <1>3, <1>5
        <5>2. ID!Shared(x) => ID!Shared(x)'
          BY <5>1, SharedStays
        <5> QED BY <2>2, <5>2 DEF Its
      <4> QED BY <1>6, <3>1, <3>2, <3>3, <4>1 DEF Its, ID!BySub
    <3>4. CASE x = u
      <4>1. <<s, x>> \notin rows.bound
        BY <3>4 DEF IdentityInv, Bindings
      <4>2. x = s => ~Raw
        BY <3>4 DEF IdentityConstants
      <4> QED BY <2>1, <2>2, <3>2, <3>4, <4>1, <4>2
    <3> QED BY <3>3, <3>4
  <2>3. \A s \in Subs, x \in Users :
          <<s, x>> \in rows'.bound => rows'.user[x].st # "none"
    BY <1>2, <1>3, <1>5, <1>6 DEF IdentityInv, Bindings
  <2>4. ~ghost.raced =>
          /\ \A s \in Subs, x \in Users : Its(s, x)' /\ s # t => Its(s, x)
          /\ \A x, y \in Users : Its(t, x)' /\ Its(t, y)' => x = y
    BY <2>1, <2>2
  <2> QED BY <1>1, <1>3, <1>5, <2>3, <2>4, CallbackEnds
<1> QED BY <1>7, <1>8, <1>9 DEF IdentityInv

LEMMA CallbackWrites ==
  ASSUME IdentityConstants, IdentityInv, NEW w \in Workers, ID!OidcFinish(w)
  PROVE  IdentityInv'
<1> DEFINE tokens(s, v) == [tokens |-> outside.tokens \cup {<<s, v>>}]
<1>1. /\ procs[w].at \in Callbacks /\ procs[w].key \in Subs
      /\ procs[w].user \in Users /\ ID!Ends(w) /\ ghost' = ghost
      /\ outside \in [tokens : SUBSET (Subs \X Users)]
  <2>1. procs[w].at \in Callbacks
    BY DEF ID!OidcFinish, Callbacks
  <2> QED BY <2>1 DEF ID!OidcFinish, IdentityInv, IdentityTyped
<1>2. PICK s \in Subs, u \in Users : s = procs[w].key /\ u = procs[w].user
  BY <1>1
<1>3. \A v \in Users : tokens(s, v) \in [tokens : SUBSET (Subs \X Users)]
  BY <1>1
<1>4. ~ghost.raced => CalledBack(w)
  BY <1>1 DEF IdentityInv, Bindings
<1>5. CASE procs[w].at = "token" /\ outside' = tokens(s, u) /\ UNCHANGED rows
  <2>1. /\ Settles /\ rows' = rows
        /\ \A x \in Workers : procs'[x] = procs[x] \/ procs'[x].at = "idle"
    BY <1>1, <1>5, Settled DEF Settles
  <2>2. IdentityTyped'
    BY <1>1, <1>3, <1>5, <2>1, TypedKept DEF IdentityInv, IdentityTyped
  <2>3. Members' /\ FirstRun' /\ Counted'
    BY <1>1, <2>1, MembersKept, FirstKept, CountedKept
  <2>4. KeysHeld'
    BY <1>1, <2>1, KeysKept DEF IdentityInv, IdentityTyped
  <2>5. Bindings' /\ ID!DeletedStaysWiped'
    BY <1>1, <2>1, StandingKept DEF IdentityInv, IdentityTyped, ID!DeletedStaysWiped
  <2> QED BY <2>2, <2>3, <2>4, <2>5 DEF IdentityInv
<1>6. CASE /\ procs[w].at = "bind" /\ outside' = tokens(s, u)
           /\ rows' = [rows EXCEPT !.bound = ID!Binds(s, u)]
  <2>1. rows.user[u].st # "none"
    BY <1>2, <1>6 DEF IdentityInv, Members
  <2>2. ~ghost.raced => \A x \in Users : Its(s, x) => x = u
    BY <1>2, <1>4, <1>6 DEF CalledBack
  <2> QED BY <1>1, <1>2, <1>3, <1>6, <2>1, <2>2, Bound
<1>7. CASE /\ procs[w].at = "restore" /\ ID!UserFree(u) /\ outside' = tokens(s, u)
           /\ ID!SetUser(u, [rows.user[u] EXCEPT !.st = "active",
                               !.pw = IF @ = "wiped" THEN "own" ELSE @])
  BY <1>1, <1>2, <1>3, <1>7, Restores
<1>8. CASE /\ procs[w].at = "create" /\ rows.user[u].st = "none"
           /\ outside' = tokens(s, u)
           /\ rows' = [rows EXCEPT !.user[u] = [ID!NoUser EXCEPT !.st = "active",
                                                                 !.role = OidcRole],
                                   !.dept = @ \cup {ID!Default},
                                   !.bound = ID!Binds(s, u)]
  BY <1>1, <1>2, <1>3, <1>8, Creates
<1>9. ASSUME procs[w].at = "create", NEW v \in ID!Found(s, u),
             outside' = tokens(s, v), rows' = [rows EXCEPT !.bound = ID!Binds(s, v)]
      PROVE  IdentityInv'
  <2>1. v \in Users /\ rows.user[v].st # "none"
    BY DEF ID!Found, ID!Active, ID!BySub
  <2>2. ~ghost.raced => \A x \in Users : Its(s, x) => x = v
    BY <1>2, <1>4, <1>9 DEF CalledBack
  <2> QED BY <1>1, <1>2, <1>3, <1>9, <2>1, <2>2, Bound
<1>10. CASE UNCHANGED <<rows, outside>>
  <2>1. /\ Settles /\ rows' = rows /\ outside' = outside
        /\ \A x \in Workers : procs'[x] = procs[x] \/ procs'[x].at = "idle"
    BY <1>1, <1>10, Settled DEF Settles
  <2>2. KeysHeld'
    BY <1>1, <2>1, KeysKept DEF IdentityInv, IdentityTyped
  <2> QED BY <1>1, <2>1, <2>2, AccountsRest DEF IdentityInv, IdentityTyped
<1> QED BY <1>2, <1>5, <1>6, <1>7, <1>8, <1>9, <1>10 DEF ID!OidcFinish

LEMMA RequestSteps ==
  ASSUME IdentityConstants, IdentityInv, NEW w \in Workers, ID!Requests(w)
  PROVE  IdentityInv'
BY QuietRequests, KeyRequests, MadeAccounts, UserWrites, KeyCommits, KeyWrites,
   LoginReads, LoginWrites, CallbackReads, CallbackWrites DEF ID!Requests

LEMMA IdentityStep ==
  ASSUME IdentityConstants, IdentityInv, [ID!Next]_(ID!vars) PROVE IdentityInv'
<1>1. CASE UNCHANGED ID!vars
  <2>1. rows' = rows /\ procs' = procs /\ outside' = outside /\ ghost' = ghost
    BY <1>1 DEF ID!vars
  <2>2. Settles /\ rows' \in IdentityRows /\ ghost' \in IdentityGhosts
    BY <2>1, Settled DEF IdentityInv, IdentityTyped
  <2>3. KeysHeld'
    BY <2>1, <2>2, KeysKept
  <2> QED BY <2>1, <2>2, <2>3, AccountsRest
<1>2. CASE ID!Next
  <2>1. ASSUME NEW w \in Workers, ID!Requests(w) PROVE IdentityInv'
    BY <2>1, RequestSteps
  <2>2. ASSUME NEW u \in Users \ (There \cup Subs),
               \/ \E r \in {"user", "admin"}, d \in rows.dept : ID!CreateUser(u, r, d)
               \/ ID!CreateDepartment(u, 2)
        PROVE  IdentityInv'
    BY <2>2, MadeAccounts
  <2>3. ASSUME NEW u \in Users, ID!DeleteUser(u) \/ ID!Unlock(u) PROVE IdentityInv'
    BY <2>3, UserDeleted, Unlocks
  <2>4. ASSUME NEW d \in rows.dept, ID!DeleteDepartment(d) PROVE IdentityInv'
    BY <2>4, DepartmentDeleted
  <2>5. ASSUME NEW c \in Codes,
               \/ ID!CliCreate(c) \/ ID!CliTime(c) \/ ID!CliExpire(c)
               \/ \E u \in Users : ID!CliApprove(c, u)
        PROVE  IdentityInv'
    BY <2>5, CodeSteps
  <2> QED BY <1>2, <2>1, <2>2, <2>3, <2>4, <2>5, ZenonT(60) DEF ID!Next
<1> QED BY <1>1, <1>2

LEMMA AtMostOne ==
  ASSUME NEW S, \A x, y \in S : x = y PROVE ID!Cardinality(S) <= 1
<1>1. ID!Cardinality(S) = Cardinality(S)
  BY DEF ID!Cardinality, Cardinality
<1>2. CASE S = {}
  BY <1>1, <1>2, FS_EmptySet
<1>3. CASE S # {}
  <2>1. PICK x \in S : S = {x}
    BY <1>3
  <2> QED BY <1>1, <2>1, FS_Singleton
<1> QED BY <1>2, <1>3

LEMMA AccountsSafe == ASSUME IdentityInv PROVE ID!IdentitySafe
<1>1. ID!OneSuperadmin
  <2> SUFFICES ASSUME OidcRole # "superadmin" PROVE ID!OneSuperadmin
    BY DEF ID!OneSuperadmin
  <2> DEFINE S == {u \in Users : rows.user[u].role = "superadmin"}
  <2>1. \A x, y \in S : x = y
    BY DEF IdentityInv, FirstRun
  <2> HIDE DEF S
  <2>2. ID!Cardinality(S) <= 1
    BY <2>1, AtMostOne
  <2> QED BY <2>2 DEF ID!OneSuperadmin, S
<1>2. ID!RevokedIsFinal
  BY DEF IdentityInv, KeysHeld, ID!RevokedIsFinal, ID!Usable
<1>3. ID!SubjectKeepsAccount
  BY DEF IdentityInv, Bindings, ID!SubjectKeepsAccount, Its
<1> QED BY <1>1, <1>2, <1>3 DEF IdentityInv, KeysHeld, Counted, ID!IdentitySafe

\* There is one superadmin at most, unless OIDC logins are configured to make
\* them; a deleted account has no live key and a
\* revoked key stays so; keys are of departments that are there and of the
\* user who approved them; failures are counted, a deleted account stays
\* wiped, and a subject has one account of its own: for any number of
\* accounts, keys, CLI sessions, subjects and requests
\* (server/routers/auth_router.py, user_router.py, services/oidc_service.py).
THEOREM IdentityIsSafe == IdentityConstants => (ID!Spec => []ID!IdentitySafe)
<1> SUFFICES ASSUME IdentityConstants PROVE ID!Spec => []ID!IdentitySafe
  OBVIOUS
<1>1. ID!Init => IdentityInv
  BY IdentityInit
<1>2. IdentityInv /\ [ID!Next]_(ID!vars) => IdentityInv'
  BY IdentityStep
<1>3. IdentityInv => ID!IdentitySafe
  BY AccountsSafe
<1> QED BY <1>1, <1>2, <1>3, PTL DEF ID!Spec

=============================================================================
