----------------------------- MODULE Components -----------------------------
(***************************************************************************)
(* The components next to the AgentRun protocol, each with an instance     *)
(* small enough for TLC.  They keep their state in the same variables, and *)
(* area says which of them a behaviour is about; it never changes, so a    *)
(* behaviour of this module is a behaviour of one component.               *)
(***************************************************************************)
EXTENDS Naturals, FiniteSets, TLC

CONSTANTS w1, w2  \* executions, workers or requests that are alike

\* They are none of the others that hold leases, and "none" is nobody.
ASSUME NoneIsNobody == {w1, w2} \cap {"none", "api", "sup", "run"} = {}

VARIABLES area, lease, rows, procs, outside, ghost

vars == <<area, lease, rows, procs, outside, ghost>>

Symmetry == Permutations({w1, w2})

SB(up, ok, ttl) == [gen |-> 1, ask |-> [who |-> "a", ttl |-> ttl], ok |-> ok,
                    up |-> up, dying |-> FALSE]
NB == [gen |-> 0, ask |-> [who |-> "none", ttl |-> "global"], ok |-> TRUE,
       up |-> FALSE, dying |-> FALSE]
Ask(who, ttl) == [who |-> who, ttl |-> ttl]

\* Requests against deletions and the reaper; quiescence; Kubernetes; a
\* restart, requests for others' containers and terminals.
P1 == INSTANCE SandboxProvisioner WITH
        Boxes <- {"s"}, Threads <- {w1, w2}, Reaper <- "reaper",
        NoThread <- "none", Kube <- FALSE,
        Kinds <- {"create", "proxy", "delete"},
        Asks <- {Ask("a", "never")}, Before <- {SB(TRUE, TRUE, "global")},
        MaxGen <- 2, DeleteSlots <- 1, MayFail <- FALSE, MayRestart <- FALSE
P2 == INSTANCE SandboxProvisioner WITH
        Boxes <- {"s"}, Threads <- {w1, w2}, Reaper <- "reaper",
        NoThread <- "none", Kube <- FALSE,
        Kinds <- {"create", "get", "quiesce"},
        Asks <- {Ask("a", "global")}, Before <- {SB(TRUE, FALSE, "never")},
        MaxGen <- 2, DeleteSlots <- 1, MayFail <- TRUE, MayRestart <- FALSE
P3 == INSTANCE SandboxProvisioner WITH
        Boxes <- {"s"}, Threads <- {w1, w2}, Reaper <- "reaper",
        NoThread <- "none", Kube <- TRUE, Kinds <- {"create", "get"},
        Asks <- {Ask("a", "never")},
        Before <- {SB(TRUE, FALSE, "global"), SB(TRUE, TRUE, "global")},
        MaxGen <- 2, DeleteSlots <- 1, MayFail <- TRUE, MayRestart <- FALSE
P4 == INSTANCE SandboxProvisioner WITH
        Boxes <- {"s"}, Threads <- {w1, w2}, Reaper <- "reaper",
        NoThread <- "none", Kube <- FALSE, Kinds <- {"create", "ws"},
        Asks <- {Ask("a", "global"), Ask("b", "global")},
        Before <- {SB(TRUE, TRUE, "global"), NB},
        MaxGen <- 2, DeleteSlots <- 1, MayFail <- FALSE, MayRestart <- TRUE

MA == INSTANCE MessageAudit WITH
        Workers <- {w1, w2}, NoWorker <- "none", MaxOps <- 2, MaxRetries <- 1

\* Creations of a thread; one attachment and every use of it; two.
T1 == INSTANCE Threads WITH
        Clients <- {w1, w2}, Kinds <- {"create"}, Begun <- FALSE,
        MaxFiles <- 1
T2 == INSTANCE Threads WITH
        Clients <- {w1, w2},
        Kinds <- {"confirm", "reference", "delete", "update"},
        Begun <- TRUE, MaxFiles <- 1
T3 == INSTANCE Threads WITH
        Clients <- {w1, w2}, Kinds <- {"confirm", "reference", "update"},
        Begun <- TRUE, MaxFiles <- 2

\* Bindings of repositories and their jobs; worktrees of a task.
G1 == INSTANCE ProjectGit WITH
        Workers <- {w1, w2}, NoWorker <- "none", Part <- "bindings",
        MaxGen <- 4
G2 == INSTANCE ProjectGit WITH
        Workers <- {w1, w2}, NoWorker <- "none", Part <- "worktrees",
        MaxGen <- 2

\* The storage migrator, from every release it supports.
SM == INSTANCE SchemaMigration WITH
        Migrators <- {w1, w2}, Servers <- {"s"}, NoOne <- "none"

\* Installations of skills; edits; projections; skills of runs.
S1 == INSTANCE Skills WITH
        Clients <- {w1, w2}, NoClient <- "none", Users <- <<"u1",
        "u2">>, Part <- "install"
S4 == INSTANCE Skills WITH
        Clients <- {w1, w2}, NoClient <- "none", Users <- <<"u1", "u2">>,
        Part <- "edit"
S2 == INSTANCE Skills WITH
        Clients <- {w1, w2}, NoClient <- "none", Users <- <<"u1",
        "u2">>, Part <- "projection"
S3 == INSTANCE Skills WITH
        Clients <- {w1, w2}, NoClient <- "none", Users <- <<"u1",
        "u2">>, Part <- "runtime"

\* Graphs of knowledge bases: builds and repairs; with deletions; with a reset.
KG1 == INSTANCE KnowledgeGraph WITH
        Tasks <- 1 .. 2, Workers <- {w1, w2}, NoWorker <- "none",
        Chunks <- {1}, Records <- {"e"}, Of <- <<{"e"}>>, MaxAttempts
        <- 1, Actions <- {"all_vectors"}, MayDelete <- {}, MayReset <-
        FALSE
KG2 == INSTANCE KnowledgeGraph WITH
        Tasks <- {1}, Workers <- {w1}, NoWorker <- "none", Chunks <- 1
        .. 2, Records <- {"e"}, Of <- <<{"e"}, {"e"}>>, MaxAttempts <-
        2, Actions <- {"failed"}, MayDelete <- {1}, MayReset <- FALSE
KG3 == INSTANCE KnowledgeGraph WITH
        Tasks <- {1}, Workers <- {w1}, NoWorker <- "none", Chunks <-
        {1}, Records <- {"e"}, Of <- <<{"e"}>>, MaxAttempts <- 2,
        Actions <- {"build"}, MayDelete <- {}, MayReset <- TRUE

\* Identity: a CLI, keys, logins, the first run, OIDC accounts.
ID1 == INSTANCE Identity WITH
        Workers <- {w1, w2}, NoOne <- "none", Users <- {"a"}, There <-
        {"a"}, Keys <- {}, Codes <- {"c"}, Subs <- {}, Raw <- FALSE,
        OidcRole <- "user", MaxFails <- 0
ID2 == INSTANCE Identity WITH
        Workers <- {w1, w2}, NoOne <- "none", Users <- {"a"}, There <-
        {"a"}, Keys <- {"k"}, Codes <- {}, Subs <- {}, Raw <- FALSE,
        OidcRole <- "user", MaxFails <- 0
ID3 == INSTANCE Identity WITH
        Workers <- {w1, w2}, NoOne <- "none", Users <- {"a"}, There <-
        {"a"}, Keys <- {}, Codes <- {}, Subs <- {}, Raw <- FALSE,
        OidcRole <- "user", MaxFails <- 2
ID4 == INSTANCE Identity WITH
        Workers <- {w1, w2}, NoOne <- "none", Users <- {"a", "b"},
        There <- {}, Keys <- {}, Codes <- {}, Subs <- {}, Raw <-
        FALSE, OidcRole <- "user", MaxFails <- 0
ID5 == INSTANCE Identity WITH
        Workers <- {w1, w2}, NoOne <- "none", Users <- {"s"}, There <-
        {}, Keys <- {"k"}, Codes <- {}, Subs <- {"s"}, Raw <- FALSE,
        OidcRole <- "user", MaxFails <- 0
ID6 == INSTANCE Identity WITH
        Workers <- {w1, w2}, NoOne <- "none", Users <- {"n", "m"},
        There <- {}, Keys <- {}, Codes <- {}, Subs <- {"s", "t"},
        Raw <- TRUE, OidcRole <- "admin", MaxFails <- 0

\* Knowledge bases: configuration, statistics, mind map, deletion; folders.
KB1 == INSTANCE KnowledgeBases WITH
        Workers <- {w1, w2}, NoOne <- "none", Settings <- {"s", "t"},
        Options <- {"o"}, Files <- {}, Ops <- {"create", "read",
        "update", "merge"}
KB2 == INSTANCE KnowledgeBases WITH
        Workers <- {w1, w2}, NoOne <- "none", Settings <- {"s"},
        Options <- {}, Files <- {"f", "g"}, Ops <- {"update", "file"}
KB3 == INSTANCE KnowledgeBases WITH
        Workers <- {w1, w2}, NoOne <- "none", Settings <- {}, Options
        <- {}, Files <- {"f"}, Ops <- {"file", "remove", "map"}
KB4 == INSTANCE KnowledgeBases WITH
        Workers <- {w1, w2}, NoOne <- "none", Settings <- {}, Options
        <- {}, Files <- {"f"}, Ops <- {"file", "read", "remove",
        "delete"}
KT1 == INSTANCE KnowledgeTree WITH
        Workers <- {w1, w2}, NoOne <- "none", Tree <- [a |-> [there
        |-> TRUE, folder |-> TRUE, parent |-> "none", name |->
        <<"x">>], b |-> [there |-> TRUE, folder |-> TRUE, parent |->
        "none", name |-> <<"y">>], f |-> [there |-> TRUE, folder |->
        FALSE, parent |-> "a", name |-> <<"f">>]], Order <- <<"f">>,
        New <- {}, Renames <- {"y"}, Moves <- {"a", "b", "f"},
        MaxMoves <- 2, Converts <- FALSE
KT2 == INSTANCE KnowledgeTree WITH
        Workers <- {w1, w2}, NoOne <- "none", Tree <- [f |-> [there
        |-> TRUE, folder |-> FALSE, parent |-> "none", name |-> <<"x",
        "y", "f">>], g |-> [there |-> TRUE, folder |-> FALSE, parent
        |-> "none", name |-> <<"x", "g">>], h |-> [there |-> TRUE,
        folder |-> FALSE, parent |-> "none", name |-> <<"x", "y",
        "h">>]], Order <- <<"f", "g", "h">>, New <- {"n", "m"},
        Renames <- {}, Moves <- {"g"}, MaxMoves <- 1, Converts <- TRUE
KT3 == INSTANCE KnowledgeTree WITH
        Workers <- {w1, w2}, NoOne <- "none", Tree <- [a |-> [there
        |-> TRUE, folder |-> TRUE, parent |-> "none", name |->
        <<"x">>], f |-> [there |-> TRUE, folder |-> FALSE, parent |->
        "none", name |-> <<"x", "f">>], g |-> [there |-> TRUE, folder
        |-> FALSE, parent |-> "none", name |-> <<"x", "g">>]], Order
        <- <<"f", "g">>, New <- {"n"}, Renames <- {"x", "z"}, Moves <-
        {}, MaxMoves <- 0, Converts <- TRUE
RT1 == INSTANCE Retrieval WITH
        Workers <- {w1, w2}, Files <- {"f"}, Orphans <- {"o"}, TopK <-
        1, Recall <- 2, Weights <- {1}, Slots <- 1
RT2 == INSTANCE Retrieval WITH
        Workers <- {w1}, Files <- {"f", "g"}, Orphans <- {"o"}, TopK
        <- 2, Recall <- 2, Weights <- {1, 2}, Slots <- 1

\* Servers of tools and providers of models.
MC1 == INSTANCE McpServers WITH
        Workers <- {w1, w2}, Host <- [w \in {w1, w2} |-> "api"], Confs
        <- {"c", "d"}, CodeConf <- "c", Kind <- "custom", Tools <-
        {"t"}, First <- [there |-> TRUE, conf |-> "c", remote |->
        TRUE, on |-> TRUE, off |-> {}], Ops <- {"update"}
MC2 == INSTANCE McpServers WITH
        Workers <- {w1, w2}, Host <- [w \in {w1, w2} |-> w], Confs <-
        {"c"}, CodeConf <- "c", Kind <- "custom", Tools <- {"t"},
        First <- [there |-> TRUE, conf |-> "c", remote |-> FALSE, on
        |-> TRUE, off |-> {}], Ops <- {"create", "update", "delete",
        "enable", "disable"}
MC3 == INSTANCE McpServers WITH
        Workers <- {w1, w2}, Host <- [w \in {w1, w2} |-> w], Confs <-
        {"c", "d"}, CodeConf <- "c", Kind <- "builtin", Tools <-
        {"t"}, First <- [there |-> TRUE, conf |-> "d", remote |->
        TRUE, on |-> TRUE, off |-> {}], Ops <- {"enable", "disable"}
MC4 == INSTANCE McpServers WITH
        Workers <- {w1, w2}, Host <- [w \in {w1, w2} |-> "api"], Confs
        <- {"c"}, CodeConf <- "c", Kind <- "custom", Tools <- {"t",
        "u"}, First <- [there |-> TRUE, conf |-> "c", remote |-> TRUE,
        on |-> TRUE, off |-> {}], Ops <- {"toggle"}
MC5 == INSTANCE McpServers WITH
        Workers <- {w1, w2}, Host <- [w \in {w1, w2} |-> "api"], Confs
        <- {"c"}, CodeConf <- "c", Kind <- "retired", Tools <- {"t"},
        First <- [there |-> TRUE, conf |-> "c", remote |-> TRUE, on
        |-> TRUE, off |-> {}], Ops <- {}
MC6 == INSTANCE McpServers WITH
        Workers <- {w1, w2}, Host <- [w \in {w1, w2} |-> "api"], Confs
        <- {"c"}, CodeConf <- "c", Kind <- "builtin", Tools <- {"t"},
        First <- [there |-> TRUE, conf |-> "c", remote |-> TRUE, on
        |-> TRUE, off |-> {}], Ops <- {"toggle", "change"}
MP1 == INSTANCE ModelProviders WITH
        Workers <- {w1, w2}, Providers <- {"p"}, Builtin <- {"p"},
        Changes <- {[type |-> "anthropic"], [models |-> [over |->
        TRUE, kinds |-> {"chat"}]]}, Ops <- {"update", "restart"}
MP2 == INSTANCE ModelProviders WITH
        Workers <- {w1, w2}, Providers <- {"p"}, Builtin <- {"p"},
        Changes <- {[models |-> [over |-> FALSE, kinds |-> {"chat",
        "rerank"}]], [caps |-> {"chat"}], [caps |-> {"chat",
        "rerank"}, models |-> [over |-> FALSE, kinds |-> {}]]}, Ops <-
        {"update"}
MP3 == INSTANCE ModelProviders WITH
        Workers <- {w1, w2}, Providers <- {"p"}, Builtin <- {},
        Changes <- {[on |-> FALSE]}, Ops <- {"create", "update",
        "delete", "refresh"}

\* The components that have proofs come last, each as an instance of the
\* module of its proofs, which extends or instantiates the component's own,
\* so that ComponentsProofs may cite them.

\* Dedicated sandboxes, coding sessions and credentials, as DS, CS and CC of
\* the module that has their proofs: two executions, jobs of one turn, and
\* credentials of two providers; requests of users, turns of both kinds, and
\* keys of every kind; rebuilds that ask, and keys that change; two scopes;
\* keys that refer to a provider's.
E1 == INSTANCE CodingProofs WITH
        Workers <- {w1, w2}, NoOne <- "none", Confirm <- FALSE,
        Requests <- {}, MaxGen <- 1, MaxKeys <- 1, Budget <- 1,
        Modes <- {"async"}, MaxTurns <- 1, Clients <- {w1, w2},
        Scopes <- {"user"}, Providers <- {"p", "q"}, Keys <- {"a"},
        KeyModes <- {"manual"}, Ops <- {"write", "delete"}, MaxVersion <- 2
E2 == INSTANCE CodingProofs WITH
        Workers <- {w1}, NoOne <- "none", Confirm <- FALSE,
        Requests <- {"ensure", "suspend", "rebuild"}, MaxGen <- 2,
        MaxKeys <- 2, Budget <- 1, Modes <- {"sync", "async"},
        MaxTurns <- 2, Clients <- {w1, w2}, Scopes <- {"user"},
        Providers <- {"p"}, Keys <- {"a", "b"},
        KeyModes <- {"manual", "inherit", "custom"},
        Ops <- {"write", "delete"}, MaxVersion <- 2
E3 == INSTANCE CodingProofs WITH
        Workers <- {w1}, NoOne <- "none", Confirm <- TRUE,
        Requests <- {"rebuild"}, MaxGen <- 2, MaxKeys <- 2, Budget <- 0,
        Modes <- {}, MaxTurns <- 0, Clients <- {w1, w2},
        Scopes <- {"user"}, Providers <- {"p"}, Keys <- {"a", "b"},
        KeyModes <- {"manual"}, Ops <- {"write", "ready"}, MaxVersion <- 3
E4 == INSTANCE CodingProofs WITH
        Workers <- {}, NoOne <- "none", Confirm <- FALSE, Requests <- {},
        MaxGen <- 0, MaxKeys <- 0, Budget <- 0, Modes <- {}, MaxTurns <- 0,
        Clients <- {w1}, Scopes <- {"user", "global"},
        Providers <- {"p", "q"}, Keys <- {"a"},
        KeyModes <- {"manual", "inherit"},
        Ops <- {"write", "delete", "ready", "lose"}, MaxVersion <- 1
E5 == INSTANCE CodingProofs WITH
        Workers <- {}, NoOne <- "none", Confirm <- FALSE, Requests <- {},
        MaxGen <- 0, MaxKeys <- 0, Budget <- 0, Modes <- {}, MaxTurns <- 0,
        Clients <- {w1}, Scopes <- {"user"}, Providers <- {"p"},
        Keys <- {"a", "b"}, KeyModes <- {"manual", "inherit", "custom"},
        Ops <- {"write", "delete", "provider", "ready", "lose"},
        MaxVersion <- 2

\* Scheduled tasks, delegations and governance, as SA, DE and GV of the
\* module that has their proofs: two executions; tasks that end, and a
\* sandbox; pulls of more issues and pages; reviews.
O1 == INSTANCE OutboundProofs WITH
        Workers <- {w1, w2}, NoOne <- "none", MaxOcc <- 2, Manual <- {9},
        MayEnd <- {}, Multica <- TRUE, MaxItems <- 2, Issues <- 1 .. 2,
        MaxTime <- 2, MaxPages <- 1, Users <- {}
O2 == INSTANCE OutboundProofs WITH
        Workers <- {w1, w2}, NoOne <- "none", MaxOcc <- 1, Manual <- {9},
        MayEnd <- {"project", "user"}, Multica <- FALSE, MaxItems <- 2,
        Issues <- {}, MaxTime <- 0, MaxPages <- 0, Users <- {}
O3 == INSTANCE OutboundProofs WITH
        Workers <- {w1}, NoOne <- "none", MaxOcc <- 0, Manual <- {},
        MayEnd <- {}, Multica <- FALSE, MaxItems <- 0, Issues <- 1 .. 3,
        MaxTime <- 2, MaxPages <- 3, Users <- {}
O4 == INSTANCE OutboundProofs WITH
        Workers <- {w1}, NoOne <- "none", MaxOcc <- 0, Manual <- {},
        MayEnd <- {}, Multica <- FALSE, MaxItems <- 0, Issues <- {1},
        MaxTime <- 2, MaxPages <- 1, Users <- {"u"}

\* One task and two executions; two tasks that may be for the same thing;
\* two tasks and two executions for one slot; rows without a handler.  And
\* datasets and evaluations, as EV: of two executions; with readers; runs.
D1 == INSTANCE DurableTaskProofs WITH
        Tasks <- {"t1"}, LegacyTasks <- {}, UnknownTasks <- {},
        Workers <- {w1, w2}, Keys <- {}, NoWorker <- "none",
        NoTask <- "none", NoKey <- "none", MaxRunning <- 1, Keep <- 1,
        MaxWrites <- 2, Jobs <- 1 .. 2, Runners <- {w1, w2}, Total <- 2,
        Batch <- 2, Every <- 2, Ops <- {"generate", "resume"}
D2 == INSTANCE DurableTaskProofs WITH
        Tasks <- {"t1", "t2"}, LegacyTasks <- {}, UnknownTasks <- {},
        Workers <- {w1}, Keys <- {"k"}, NoWorker <- "none",
        NoTask <- "none", NoKey <- "none", MaxRunning <- 1, Keep <- 1,
        MaxWrites <- 0, Jobs <- 1 .. 2, Runners <- {w1}, Total <- 1,
        Batch <- 1, Every <- 2, Ops <- {"generate", "resume", "look"}
D3 == INSTANCE DurableTaskProofs WITH
        Tasks <- {"t1", "t2"}, LegacyTasks <- {}, UnknownTasks <- {},
        Workers <- {w1, w2}, Keys <- {}, NoWorker <- "none",
        NoTask <- "none", NoKey <- "none", MaxRunning <- 1, Keep <- 2,
        MaxWrites <- 0, Jobs <- 1 .. 1, Runners <- {w1}, Total <- 3,
        Batch <- 2, Every <- 2,
        Ops <- {"generate", "upload", "evaluate", "look", "delete"}
D4 == INSTANCE DurableTaskProofs WITH
        Tasks <- {"t1", "t2", "t3"}, LegacyTasks <- {"t2"},
        UnknownTasks <- {"t3"}, Workers <- {w1}, Keys <- {},
        NoWorker <- "none", NoTask <- "none", NoKey <- "none",
        MaxRunning <- 1, Keep <- 2, MaxWrites <- 0, Jobs <- {},
        Runners <- {}, Total <- 1, Batch <- 1, Every <- 1, Ops <- {}
\* Files of a knowledge base, as KnowledgeFiles says.
KF == INSTANCE KnowledgeFilesProofs WITH
        Tasks <- {"t1", "t2"}, Workers <- {w1, w2}, NoWorker <- "none",
        Files <- {1}, MaxChunks <- 2, NoTask <- "none",
        Kinds <- {"index"}, Before <- {"parsed"}, MayDelete <- {1},
        MayRepair <- {}
KL == INSTANCE KnowledgeFilesProofs WITH
        Tasks <- {"t1"}, Workers <- {w1}, NoWorker <- "none",
        Files <- {1, 2}, MaxChunks <- 1, NoTask <- "none",
        Kinds <- {"ingest", "parse", "index", "parse_pending",
                  "index_pending"},
        Before <- {"absent", "uploaded", "parsed"}, MayDelete <- {},
        MayRepair <- {1}

Init ==
  \/ area = "credentials" /\ E1!CC!Init /\ lease = <<>>
  \/ area = "credential modes" /\ E2!CC!Init /\ lease = <<>>
  \/ area = "credentials rotated" /\ E3!CC!Init /\ lease = <<>>
  \/ area = "credentials of scopes" /\ E4!CC!Init /\ lease = <<>>
  \/ area = "credentials referred" /\ E5!CC!Init /\ lease = <<>>
  \/ area = "mcp updated" /\ MC1!Init /\ lease = <<>>
  \/ area = "mcp" /\ MC2!Init /\ lease = <<>>
  \/ area = "mcp builtin" /\ MC3!Init /\ lease = <<>>
  \/ area = "mcp tools" /\ MC4!Init /\ lease = <<>>
  \/ area = "mcp retired" /\ MC5!Init /\ lease = <<>>
  \/ area = "mcp changes" /\ MC6!Init /\ lease = <<>>
  \/ area = "models scope" /\ MP1!Init /\ lease = <<>>
  \/ area = "models kinds" /\ MP2!Init /\ lease = <<>>
  \/ area = "models" /\ MP3!Init /\ lease = <<>>
  \/ area = "datasets" /\ D1!EV!Init
  \/ area = "datasets read" /\ D2!EV!Init
  \/ area = "evaluations" /\ D3!EV!Init
  \/ area = "base settings" /\ KB1!Init /\ lease = <<>>
  \/ area = "base statistics" /\ KB2!Init /\ lease = <<>>
  \/ area = "mind map" /\ KB3!Init /\ lease = <<>>
  \/ area = "base deletion" /\ KB4!Init /\ lease = <<>>
  \/ area = "folders" /\ KT1!Init /\ lease = <<>>
  \/ area = "paths" /\ KT2!Init /\ lease = <<>>
  \/ area = "paths and folders" /\ KT3!Init /\ lease = <<>>
  \/ area = "queries" /\ RT1!Init /\ lease = <<>>
  \/ area = "graph queries" /\ RT2!Init /\ lease = <<>>
  \/ area = "CLI" /\ ID1!Init /\ lease = <<>>
  \/ area = "keys" /\ ID2!Init /\ lease = <<>>
  \/ area = "logins" /\ ID3!Init /\ lease = <<>>
  \/ area = "first run" /\ ID4!Init /\ lease = <<>>
  \/ area = "OIDC" /\ ID5!Init /\ lease = <<>>
  \/ area = "OIDC names" /\ ID6!Init /\ lease = <<>>
  \/ area = "scheduled tasks" /\ O1!SA!Init /\ lease = <<>>
  \/ area = "scheduled ends" /\ O2!SA!Init /\ lease = <<>>
  \/ area = "delegation to Multica" /\ O1!DE!Init /\ lease = <<>>
  \/ area = "delegation to a sandbox" /\ O2!DE!Init /\ lease = <<>>
  \/ area = "pulls" /\ O1!GV!Init /\ lease = <<>>
  \/ area = "pages" /\ O3!GV!Init /\ lease = <<>>
  \/ area = "reviews" /\ O4!GV!Init /\ lease = <<>>
  \/ area = "coding jobs" /\ E1!CS!Init /\ lease = <<>>
  \/ area = "coding session" /\ E2!CS!Init /\ lease = <<>>
  \/ area = "dedicated sandbox" /\ E1!DS!Init /\ lease = <<>>
  \/ area = "dedicated requests" /\ E2!DS!Init /\ lease = <<>>
  \/ area = "dedicated confirm" /\ E3!DS!Init /\ lease = <<>>
  \/ area = "graph builds" /\ KG1!Init
  \/ area = "graph deletions" /\ KG2!Init
  \/ area = "graph resets" /\ KG3!Init
  \/ area = "skill files" /\ S4!Init /\ lease = <<>>
  \/ area = "skills" /\ S1!Init /\ lease = <<>>
  \/ area = "projections" /\ S2!Init /\ lease = <<>>
  \/ area = "skills of runs" /\ S3!Init /\ lease = <<>>
  \/ area = "migration" /\ SM!Init /\ lease = <<>>
  \/ area = "git bindings" /\ G1!Init /\ lease = <<>>
  \/ area = "git worktrees" /\ G2!Init /\ lease = <<>>
  \/ area = "threads" /\ T1!Init /\ lease = <<>>
  \/ area = "attachment" /\ T2!Init /\ lease = <<>>
  \/ area = "attachments" /\ T3!Init /\ lease = <<>>
  \/ area = "messages" /\ MA!Init /\ lease = <<>>
  \/ area = "docker" /\ P1!Init /\ lease = <<>>
  \/ area = "quiescence" /\ P2!Init /\ lease = <<>>
  \/ area = "pods" /\ P3!Init /\ lease = <<>>
  \/ area = "provisioner restart" /\ P4!Init /\ lease = <<>>
  \/ area = "tasks" /\ D1!Init /\ lease = <<>>
  \/ area = "task keys" /\ D2!Init /\ lease = <<>>
  \/ area = "task slots" /\ D3!Init /\ lease = <<>>
  \/ area = "legacy tasks" /\ D4!Init /\ lease = <<>>
  \/ area = "files" /\ KF!Init
  \/ area = "files loop" /\ KL!Init

Next ==
  /\ UNCHANGED area
  /\ \/ area = "credentials" /\ E1!CC!Next /\ UNCHANGED lease
     \/ area = "credential modes" /\ E2!CC!Next /\ UNCHANGED lease
     \/ area = "credentials rotated" /\ E3!CC!Next /\ UNCHANGED lease
     \/ area = "credentials of scopes" /\ E4!CC!Next /\ UNCHANGED lease
     \/ area = "credentials referred" /\ E5!CC!Next /\ UNCHANGED lease
     \/ area = "mcp updated" /\ MC1!Next /\ UNCHANGED lease
     \/ area = "mcp" /\ MC2!Next /\ UNCHANGED lease
     \/ area = "mcp builtin" /\ MC3!Next /\ UNCHANGED lease
     \/ area = "mcp tools" /\ MC4!Next /\ UNCHANGED lease
     \/ area = "mcp retired" /\ MC5!Next /\ UNCHANGED lease
     \/ area = "mcp changes" /\ MC6!Next /\ UNCHANGED lease
     \/ area = "models scope" /\ MP1!Next /\ UNCHANGED lease
     \/ area = "models kinds" /\ MP2!Next /\ UNCHANGED lease
     \/ area = "models" /\ MP3!Next /\ UNCHANGED lease
     \/ area = "datasets" /\ D1!EV!Next
     \/ area = "datasets read" /\ D2!EV!Next
     \/ area = "evaluations" /\ D3!EV!Next
     \/ area = "base settings" /\ KB1!Next /\ UNCHANGED lease
     \/ area = "base statistics" /\ KB2!Next /\ UNCHANGED lease
     \/ area = "mind map" /\ KB3!Next /\ UNCHANGED lease
     \/ area = "base deletion" /\ KB4!Next /\ UNCHANGED lease
     \/ area = "folders" /\ KT1!Next /\ UNCHANGED lease
     \/ area = "paths" /\ KT2!Next /\ UNCHANGED lease
     \/ area = "paths and folders" /\ KT3!Next /\ UNCHANGED lease
     \/ area = "queries" /\ RT1!Next /\ UNCHANGED lease
     \/ area = "graph queries" /\ RT2!Next /\ UNCHANGED lease
     \/ area = "CLI" /\ ID1!Next /\ UNCHANGED lease
     \/ area = "keys" /\ ID2!Next /\ UNCHANGED lease
     \/ area = "logins" /\ ID3!Next /\ UNCHANGED lease
     \/ area = "first run" /\ ID4!Next /\ UNCHANGED lease
     \/ area = "OIDC" /\ ID5!Next /\ UNCHANGED lease
     \/ area = "OIDC names" /\ ID6!Next /\ UNCHANGED lease
     \/ area = "scheduled tasks" /\ O1!SA!Next /\ UNCHANGED lease
     \/ area = "scheduled ends" /\ O2!SA!Next /\ UNCHANGED lease
     \/ area = "delegation to Multica" /\ O1!DE!Next /\ UNCHANGED lease
     \/ area = "delegation to a sandbox" /\ O2!DE!Next /\ UNCHANGED lease
     \/ area = "pulls" /\ O1!GV!Next /\ UNCHANGED lease
     \/ area = "pages" /\ O3!GV!Next /\ UNCHANGED lease
     \/ area = "reviews" /\ O4!GV!Next /\ UNCHANGED lease
     \/ area = "coding jobs" /\ E1!CS!Next /\ UNCHANGED lease
     \/ area = "coding session" /\ E2!CS!Next /\ UNCHANGED lease
     \/ area = "dedicated sandbox" /\ E1!DS!Next /\ UNCHANGED lease
     \/ area = "dedicated requests" /\ E2!DS!Next /\ UNCHANGED lease
     \/ area = "dedicated confirm" /\ E3!DS!Next /\ UNCHANGED lease
     \/ area = "graph builds" /\ KG1!Next
     \/ area = "graph deletions" /\ KG2!Next
     \/ area = "graph resets" /\ KG3!Next
     \/ area = "skill files" /\ S4!Next /\ UNCHANGED lease
     \/ area = "skills" /\ S1!Next /\ UNCHANGED lease
     \/ area = "projections" /\ S2!Next /\ UNCHANGED lease
     \/ area = "skills of runs" /\ S3!Next /\ UNCHANGED lease
     \/ area = "migration" /\ SM!Next /\ UNCHANGED lease
     \/ area = "git bindings" /\ G1!Next /\ UNCHANGED lease
     \/ area = "git worktrees" /\ G2!Next /\ UNCHANGED lease
     \/ area = "threads" /\ T1!Next /\ UNCHANGED lease
     \/ area = "attachment" /\ T2!Next /\ UNCHANGED lease
     \/ area = "attachments" /\ T3!Next /\ UNCHANGED lease
     \/ area = "messages" /\ MA!Next /\ UNCHANGED lease
     \/ area = "docker" /\ P1!Next /\ UNCHANGED lease
     \/ area = "quiescence" /\ P2!Next /\ UNCHANGED lease
     \/ area = "pods" /\ P3!Next /\ UNCHANGED lease
     \/ area = "provisioner restart" /\ P4!Next /\ UNCHANGED lease
     \/ area = "tasks" /\ D1!Next /\ UNCHANGED lease
     \/ area = "task keys" /\ D2!Next /\ UNCHANGED lease
     \/ area = "task slots" /\ D3!Next /\ UNCHANGED lease
     \/ area = "legacy tasks" /\ D4!Next /\ UNCHANGED lease
     \/ area = "files" /\ KF!Next
     \/ area = "files loop" /\ KL!Next

Spec == Init /\ [][Next]_vars

-----------------------------------------------------------------------------

\* Durable tasks: slots, one execution, one active task per dedupe key, and
\* domain rows that agree with the task (DurableTask); datasets without
\* gaps and runs that end as their task does (Evaluation).
TasksSafe ==
  /\ area = "tasks" => D1!ExecutedOnce /\ D1!TasksAgree
  /\ area = "task keys" => D2!OneActivePerIntent /\ D2!TasksAgree
  /\ area = "task slots" => D3!SlotsRespected /\ D3!ExecutedOnce
  /\ area = "legacy tasks" => D4!TasksAgree
  /\ area = "datasets" => D1!EV!ItemsContiguous /\ D1!EV!StatusFollowsTask
  /\ area = "datasets read" =>
       /\ D2!EV!ItemsContiguous /\ D2!EV!CompletedHasAll
       /\ D2!EV!StatusFollowsTask
  /\ area = "evaluations" =>
       D3!EV!RunsAgree /\ D3!EV!FiguresAgree /\ D3!EV!CompletedHasAll

\* Knowledge files: states in progress are owned, indexed files are complete
\* in both stores, and a loop takes a file up once (KnowledgeFiles).
FilesSafe ==
  /\ area = "files" => KF!InProgressIsOwned /\ KF!IndexedIsComplete
  /\ area = "files loop" => KL!IndexedIsComplete /\ KL!TakenUpOnce

\* DurableTask implements TaskLease, nothing of a task changes after its end,
\* and an execution that has lost its task does not move a file forward.
ExecutionsFenced ==
  [][/\ area = "tasks" => D1!LeaseStep /\ D1!QuietStep
     /\ area = "task slots" => D3!LeaseStep
     /\ area = "legacy tasks" => D4!LeaseStep
     /\ area = "files" => KF!FencedStep]_vars

\* A sandbox that one request deletes is used by no other, residents and used
\* ones are not reaped, quiescence lasts, nobody gets another's container,
\* and containers keep their network (SandboxProvisioner).
SandboxesSafe ==
  /\ area = "docker" => P1!RequestsDrain /\ P1!ResidentStays /\ P1!BoxHasNet
  /\ area = "quiescence" => P2!QuietForGood /\ P2!BoxHasNet
  /\ area = "pods" => P3!RequestsDrain /\ P3!ResidentStays
  /\ area = "provisioner restart" => P4!OwnContainer /\ P4!BoxHasNet

\* The records of a run: all closed at its end, a resumable tool call stays
\* pending, ToolCall rows and history agree with them (MessageAudit).
MessagesSafe ==
  area = "messages" => /\ MA!AuditsClosed /\ MA!ResumeFindsCall /\ MA!CallAgrees
                       /\ MA!OutputIsOwn /\ MA!HistoryProven

\* Conversations live in live projects of the intent they were asked for,
\* and attachments, their bytes and the requests that use them stay together
\* (Threads).
ThreadsSafe ==
  /\ area = "threads" => T1!ThreadsSafe
  /\ area = "attachment" => T2!ThreadsSafe
  /\ area = "attachments" => T3!ThreadsSafe

\* Git: a binding that is off has left no key behind, an active one is usable
\* and of a live project; a worktree stays under its run and loses no commit
\* (ProjectGit).
GitSafe ==
  /\ area = "git bindings" => /\ G1!RevokedForGood /\ G1!ActiveIsUsable
                              /\ G1!NoBindingLeft
  /\ area = "git worktrees" => /\ G2!TreeStays /\ G2!WorkIsKept
                               /\ G2!OneLeaseHolder

\* Migration: recorded versions are true, servers find the schema they need,
\* files of older releases are kept, and no run is failed in use
\* (SchemaMigration).
MigrationSafe ==
  area = "migration" => /\ SM!VersionsAreTrue /\ SM!NothingRefused
                        /\ SM!ServersHaveSchema /\ SM!FilesKept
                        /\ SM!RunsSpared

\* Skills: rows, directories and files agree, nothing is projected beyond what is
\* granted, and tools are offered with their activated skill only (Skills).
\* An agent is given tools of a server under the configuration it read, less
\* what is switched off (McpServers); models are those of the providers'
\* rows, and fit their provider (ModelProviders).
SkillsSafe ==
  /\ area = "skills" => S1!RowsAndFilesAgree
  /\ area = "skill files" => S4!NameAgrees
  /\ area = "projections" => S2!NothingProjectedBeyondGrants
  /\ area = "skills of runs" => S3!OfferedWhenActive
  /\ area = "mcp updated" => MC1!GivenIsAllowed /\ MC1!CacheKeyed
  /\ area = "mcp" => MC2!StartedClean /\ MC2!GivenIsAllowed
  /\ area = "mcp builtin" => MC3!StartedClean /\ MC3!GivenIsAllowed
  /\ area = "mcp tools" => MC4!GivenIsAllowed /\ MC4!TogglesKept
  /\ area = "mcp retired" => MC5!StartedClean
  /\ area = "mcp changes" => MC6!GivenIsAllowed /\ MC6!CacheKeyed
  /\ area = "models scope" => MP1!ScopeHolds /\ MP1!RedisSettles
  /\ area = "models kinds" => MP2!KindsFit /\ MP2!RedisSettles
  /\ area = "models" => MP3!RedisSettles /\ MP3!OwnChangesSeen

\* Graphs: an indexed chunk has its structure and its vectors whoever built
\* it, a build succeeds only when it is complete, and a deleted file leaves
\* nothing behind (KnowledgeGraph).
GraphSafe ==
  /\ area = "graph builds" =>
       /\ KG1!IndexedHasStructure
       /\ KG1!IndexedHasVectors
       /\ KG1!SuccessIsComplete
       /\ KG1!NothingLeftBehind
       /\ KG1!NoStrayVector
  /\ area = "graph deletions" =>
       /\ KG2!IndexedHasStructure
       /\ KG2!IndexedHasVectors
       /\ KG2!SuccessIsComplete
       /\ KG2!NothingLeftBehind
       /\ KG2!NoStrayVector
  /\ area = "graph resets" =>
       /\ KG3!IndexedHasStructure
       /\ KG3!IndexedHasVectors
       /\ KG3!SuccessIsComplete
       /\ KG3!NothingLeftBehind
       /\ KG3!NoStrayVector

\* Dedicated sandboxes: who works in one has the credentials prepared for it,
\* the row knows the container, and the supervisor spares those who hold a
\* lease (DedicatedSandboxes).
DedicatedSafe ==
  /\ area = "dedicated sandbox" =>
       /\ E1!DS!HoldersHaveCredentials
       /\ E1!DS!RowKnowsBox
       /\ E1!DS!SupervisorSpares
  /\ area = "dedicated requests" =>
       /\ E2!DS!HoldersHaveCredentials
       /\ E2!DS!RowKnowsBox
       /\ E2!DS!SupervisorSpares
  /\ area = "dedicated confirm" =>
       /\ E3!DS!HoldersHaveCredentials
       /\ E3!DS!RowKnowsBox
       /\ E3!DS!SupervisorSpares

\* Coding sessions: a turn is started and ended at most once however many
\* jobs it has, the session follows its turns, and only what was asked for is
\* cancelled (CodingSessions).  A credential in use can be decrypted and is
\* the only one of its executor, and its fingerprint tells a sandbox with
\* its key from one with another (CodingCredentials).
CodingSafe ==
  /\ area = "credentials" => E1!CC!KeysKept /\ E1!CC!OneInUse
  /\ area = "credential modes" => E2!CC!KeysKept
  /\ area = "credentials rotated" =>
       /\ E3!CC!KeysKept
       /\ E3!CC!PrintTellsKeys
  /\ area = "credentials of scopes" =>
       /\ E4!CC!OneInUse
       /\ E4!CC!PrintTellsKeys
  /\ area = "credentials referred" =>
       /\ E5!CC!KeysKept
       /\ E5!CC!PrintTellsKeys
  /\ area = "coding jobs" =>
       /\ E1!CS!StartedOnce
       /\ E1!CS!EndedOnce
       /\ E1!CS!SessionFollowsTurns
       /\ E1!CS!CancelledWasAsked
  /\ area = "coding session" =>
       /\ E2!CS!StartedOnce
       /\ E2!CS!EndedOnce
       /\ E2!CS!SessionFollowsTurns
       /\ E2!CS!CancelledWasAsked

\* Work sent off: a scheduled task has one execution at a time and its
\* records tell the truth about their requests (ScheduledAgents); a
\* delegation makes one work item and keeps its result (Delegations).
OutboundSafe ==
  /\ area = "scheduled tasks" =>
       /\ O1!SA!NoOverlap
       /\ O1!SA!RecordIsTrue
  /\ area = "scheduled ends" =>
       /\ O2!SA!NoOverlap
       /\ O2!SA!RecordIsTrue
  /\ area = "delegation to Multica" =>
       /\ O1!DE!OneItem
       /\ O1!DE!HandleIsItem
       /\ O1!DE!ReclaimedStays
  /\ area = "delegation to a sandbox" =>
       /\ O2!DE!OneItem
       /\ O2!DE!HandleIsItem
       /\ O2!DE!ReclaimedStays

\* Governance: no issue before the cursor is left out, the cursor does not
\* move back, and a review stands (Governance).
GovernanceSafe ==
  /\ area = "pulls" =>
       /\ O1!GV!NothingSkipped
       /\ O1!GV!CursorForward
       /\ O1!GV!ReviewStands
  /\ area = "pages" =>
       /\ O3!GV!NothingSkipped
       /\ O3!GV!CursorForward
       /\ O3!GV!ReviewStands
  /\ area = "reviews" =>
       /\ O4!GV!NothingSkipped
       /\ O4!GV!CursorForward
       /\ O4!GV!ReviewStands

\* Identity: one superadmin; no usable key of a deleted account or after its
\* revocation; a CLI's key is its approver's; failures lock; a subject keeps
\* its account (Identity).
IdentitySafe ==
  /\ area = "CLI" => ID1!IdentitySafe
  /\ area = "keys" => ID2!IdentitySafe
  /\ area = "logins" => ID3!IdentitySafe
  /\ area = "first run" => ID4!IdentitySafe
  /\ area = "OIDC" => ID5!IdentitySafe
  /\ area = "OIDC names" => ID6!IdentitySafe

\* Knowledge bases: the cache is the row, no option is lost, statistics and
\* mind map settle, a deletion leaves nothing unreachable (KnowledgeBases);
\* folders form a tree and the conversion of path names moves no file
\* (KnowledgeTree); no query answers with what is gone (Retrieval).
BasesSafe ==
  /\ area = "base settings" =>
       /\ KB1!CacheFresh
       /\ KB1!NoOptionLost
  /\ area = "base statistics" =>
       /\ KB2!StatsSettle
       /\ KB2!NoOptionLost
       /\ KB2!CacheFresh
  /\ area = "mind map" =>
       /\ KB3!MapPruned
       /\ KB3!StatsSettle
  /\ area = "base deletion" =>
       /\ KB4!NothingUnreachable
       /\ KB4!CacheFresh
  /\ area = "folders" =>
       /\ KT1!TreeIsRooted
       /\ KT1!ParentsAreFolders
  /\ area = "paths" =>
       /\ KT2!TreeIsRooted
       /\ KT2!ParentsAreFolders
       /\ KT2!ConversionKeepsPaths
  /\ area = "paths and folders" =>
       /\ KT3!TreeIsRooted
       /\ KT3!ParentsAreFolders
       /\ KT3!ConversionKeepsPaths
  /\ area = "queries" =>
       /\ RT1!AnswersAreLive
       /\ RT1!ThreadsBounded
  /\ area = "graph queries" =>
       /\ RT2!AnswersAreLive
       /\ RT2!FusionRespectsBoth

-----------------------------------------------------------------------------

(***************************************************************************)
(* What the repository's documents say and the code does not do.  The      *)
(* modules define every such claim next to the property that holds; these  *)
(* three are checked by runs of their own, which must fail.                *)
(***************************************************************************)

\* delegation/multica.py:97: an operation is looked for by its mark before it
\* is created, so that it makes no second work item.  Two executions may look
\* before either has created.
OperationMakesOneItem == area = "delegation to Multica" => O1!DE!NoSecondItem

\* docs/advanced/project-git-reference.md:140: however the creation of a key
\* and the end of its binding interleave, no permission is left.  The
\* deletion of a project reads its bindings without a lock.
KeysEndWithBinding == area = "git bindings" => G1!PermissionsRevoked

\* sandbox_provisioner/app.py:444: a deletion waits for the requests that
\* have begun, and no new one passes.  Two deletions share one mark, which
\* the first to end takes away.
DeletionsAreExclusive == area = "docker" => P1!DeletionsDrain

=============================================================================
