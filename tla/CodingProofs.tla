---------------------------- MODULE CodingProofs ----------------------------
(***************************************************************************)
(* Proofs of where and how coding executors work: their sandboxes          *)
(* (DedicatedSandboxes), their sessions and turns (CodingSessions) and     *)
(* their credentials (CodingCredentials).  The three keep their state in   *)
(* the same variables, as in Components, which instantiates this module.   *)
(***************************************************************************)
EXTENDS Naturals, Sequences, TLAPS

CONSTANTS Workers, NoOne, Confirm, Requests, MaxGen, MaxKeys, Budget, Modes,
          MaxTurns, Clients, Scopes, Providers, Keys, KeyModes, Ops, MaxVersion

VARIABLES rows, procs, outside, ghost

DS == INSTANCE DedicatedSandboxes WITH Holders <- Workers
CS == INSTANCE CodingSessions
CC == INSTANCE CodingCredentials WITH Workers <- Clients, Modes <- KeyModes

-----------------------------------------------------------------------------
(* The sandbox of an agent in a project.                                   *)

\* Executions, the API and the supervisor are not each other, or no one.
SandboxConstants ==
  /\ Workers \cap {NoOne, "api", "sup"} = {} /\ NoOne \notin {"api", "sup"}
  /\ Confirm \in BOOLEAN

States == {"absent", "active", "suspended"}
SandboxRows ==
  [st : States, key : Nat, owner : Workers \cup {NoOne}, live : BOOLEAN]
Transactions ==
  [by : Workers \cup {NoOne, "api", "sup"},
   pc : {"none", "look", "delete", "create", "raise", "commit"}, st : States,
   key : Nat, want : Nat, made : BOOLEAN, last : BOOLEAN, blind : BOOLEAN]
HolderStates ==
  [pc : {"idle", "bound", "leased", "ready", "work"}, want : Nat, gen : Nat]
Ticks == [pc : {"idle", "rows", "suspend"}, has : BOOLEAN]
SandboxProcs ==
  [tx : Transactions, h : [Workers -> HolderStates], tick : Ticks,
   cache : [worker : Nat, api : Nat]]
Containers == [gen : Nat, key : Nat]
SandboxTyped ==
  /\ rows \in SandboxRows
  /\ procs \in SandboxProcs
  /\ outside \in [box : Containers, made : Nat, key : Nat]
  /\ ghost \in [orphan : BOOLEAN, fresh : SUBSET Workers, killed : BOOLEAN]

HasBox == DS!Box # DS!NoBox

\* Generations are numbered in the order they are made, and no holder was
\* given one that is yet to be made.
Numbered ==
  /\ HasBox => DS!Box.gen \in 1 .. outside.made
  /\ ghost.orphan => HasBox
  /\ \A w \in Workers : DS!H(w).gen <= outside.made

\* What the transaction knows at each of its steps.
TxKnows ==
  /\ DS!Tx.by = NoOne => DS!Tx.pc = "none"
  /\ DS!Tx.by \in Workers =>
       /\ DS!H(DS!Tx.by).pc = "leased" /\ DS!H(DS!Tx.by).want = DS!Tx.want
       /\ ~DS!Tx.last
  /\ DS!Tx.made => DS!Tx.pc = "commit"
  /\ DS!Tx.pc = "look" => DS!Tx.st = "active" /\ DS!Tx.key = rows.key
  /\ DS!Tx.pc = "create" => ~HasBox \/ ghost.orphan
  /\ DS!Tx.pc = "commit" /\ ~DS!Tx.last => DS!Tx.key = DS!Tx.want
  /\ DS!Tx.pc = "commit" /\ HasBox /\ ~ghost.orphan =>
       DS!Tx.st = "active" /\ DS!Tx.key = DS!Box.key

\* The row knows the container, until a transaction has made another one.
RowIsTrue ==
  ~DS!Tx.made /\ HasBox /\ ~ghost.orphan =>
    rows.st = "active" /\ DS!Box.key = rows.key

\* The container a holder was given has the credentials it was prepared for.
GivenKeys ==
  \A w \in Workers :
    DS!H(w).pc \in {"ready", "work"} /\ DS!H(w).gen = DS!Box.gen /\ HasBox
      /\ ~ghost.orphan => DS!Box.key = DS!H(w).want

\* Whoever has a lease while the supervisor is about to suspend has taken it
\* since the row was read.
Spared ==
  /\ rows.owner = NoOne => ~rows.live
  /\ rows.live /\ (procs.tick.pc = "suspend" \/ DS!Tx.by = "sup") =>
       rows.owner \in ghost.fresh
  /\ ~ghost.killed

SandboxInv ==
  SandboxTyped /\ Numbered /\ TxKnows /\ RowIsTrue /\ GivenKeys /\ Spared

LEMMA SandboxInit ==
  ASSUME SandboxConstants, DS!Init PROVE SandboxInv
<1> USE DEF DS!Init, DS!NoTx, DS!IdleHolder, DS!NoBox
<1>1. SandboxTyped
  <2>1. DS!NoTx \in Transactions /\ DS!IdleHolder \in HolderStates
    BY DEF Transactions, HolderStates, States
  <2>2. procs \in SandboxProcs
    BY <2>1 DEF SandboxProcs, Ticks
  <2> QED BY <2>2 DEF SandboxTyped, SandboxRows, Containers, States
<1>2. Numbered /\ TxKnows /\ RowIsTrue /\ GivenKeys /\ Spared
  BY DEF SandboxConstants, Numbered, TxKnows, RowIsTrue, GivenKeys, Spared,
         HasBox, DS!Tx, DS!Box, DS!H
<1> QED BY <1>1, <1>2 DEF SandboxInv

\* The types of what a step writes.
LEMMA SandboxProcsWritten ==
  ASSUME procs \in SandboxProcs
  PROVE  /\ \A w \in Workers, e \in HolderStates :
              [procs EXCEPT !.h[w] = e] \in SandboxProcs
         /\ \A tx \in Transactions : [procs EXCEPT !.tx = tx] \in SandboxProcs
         /\ \A tx \in Transactions, g \in Nat, p \in {"worker", "api"} :
              [procs EXCEPT !.cache[p] = g, !.tx = tx] \in SandboxProcs
         /\ \A t \in Ticks : [procs EXCEPT !.tick = t] \in SandboxProcs
         /\ \A tx \in Transactions, h \in [Workers -> HolderStates],
               t \in Ticks :
              [procs EXCEPT !.tx = tx, !.h = h, !.tick = t] \in SandboxProcs
BY DEF SandboxProcs

\* What a step that changes one holder leaves alone.
LEMMA HolderWritten ==
  ASSUME procs \in SandboxProcs, NEW w \in Workers, NEW e \in HolderStates,
         procs' = [procs EXCEPT !.h[w] = e]
  PROVE  /\ procs' \in SandboxProcs
         /\ procs'.tx = procs.tx /\ procs'.tick = procs.tick
         /\ procs'.cache = procs.cache
         /\ procs'.h = [procs.h EXCEPT ![w] = e]
BY DEF SandboxProcs

\* A step of a holder outside transactions.
LEMMA HolderKept ==
  ASSUME SandboxConstants, SandboxInv, NEW w \in Workers,
         DS!Bind(w) \/ DS!Acquire(w) \/ DS!GiveUpWaiting(w) \/ DS!Enter(w)
           \/ DS!Leave(w)
  PROVE  SandboxInv'
<1> USE DEF DS!Free, DS!H, DS!Tx, DS!Box
<1> SandboxTyped
  BY DEF SandboxInv
<1>0. procs.h[w] \in HolderStates
  BY DEF SandboxTyped, SandboxProcs
<1>1. PICK e \in HolderStates :
        /\ procs' = [procs EXCEPT !.h[w] = e]
        /\ e.gen \in {0, procs.h[w].gen}
        /\ e.pc \in {"ready", "work"} =>
             procs.h[w].pc \in {"ready", "work"} /\ e.want = procs.h[w].want
               /\ e.gen = procs.h[w].gen
  <2>1. CASE DS!Bind(w)
    <3> DEFINE e == [pc |-> "bound", want |-> outside.key, gen |-> 0]
    <3>1. e \in HolderStates
      BY DEF HolderStates, SandboxTyped
    <3> QED BY <2>1, <3>1 DEF DS!Bind
  <2>2. CASE DS!Acquire(w) \/ DS!Enter(w)
    <3> DEFINE e(p) == [procs.h[w] EXCEPT !.pc = p]
    <3>1. /\ e("leased") \in HolderStates /\ e("work") \in HolderStates
          /\ e("leased").gen = procs.h[w].gen /\ e("leased").pc = "leased"
          /\ e("work").gen = procs.h[w].gen
          /\ e("work").want = procs.h[w].want
      BY <1>0 DEF HolderStates
    <3>2. CASE DS!Acquire(w)
      <4>1. procs' = [procs EXCEPT !.h[w] = e("leased")]
        BY <3>2 DEF DS!Acquire
      <4> QED BY <3>1, <4>1
    <3>3. CASE DS!Enter(w)
      <4>1. procs' = [procs EXCEPT !.h[w] = e("work")]
              /\ procs.h[w].pc = "ready"
        BY <3>3 DEF DS!Enter
      <4> QED BY <3>1, <4>1
    <3> QED BY <2>2, <3>2, <3>3
  <2>3. CASE DS!GiveUpWaiting(w) \/ DS!Leave(w)
    <3>1. DS!IdleHolder \in HolderStates
      BY DEF HolderStates, DS!IdleHolder
    <3> QED BY <2>3, <3>1 DEF DS!GiveUpWaiting, DS!Leave, DS!IdleHolder
  <2> QED BY <2>1, <2>2, <2>3
<1>2. /\ procs' \in SandboxProcs /\ procs'.tx = procs.tx
      /\ procs'.tick = procs.tick
      /\ procs'.h = [procs.h EXCEPT ![w] = e]
  BY <1>1, HolderWritten DEF SandboxTyped
<1>3. /\ UNCHANGED outside /\ ghost'.orphan = ghost.orphan
      /\ ghost'.killed = ghost.killed /\ rows'.key = rows.key
      /\ rows.st # "absent" => rows'.st = rows.st
      /\ DS!Tx.by # NoOne => procs.h[w].pc = "bound" /\ UNCHANGED rows
      /\ rows' \in SandboxRows
      /\ ghost' \in [orphan : BOOLEAN, fresh : SUBSET Workers,
                     killed : BOOLEAN]
      /\ \/ rows'.live = rows.live /\ rows'.owner = rows.owner
              /\ UNCHANGED ghost
         \/ ~rows'.live /\ UNCHANGED ghost
         \/ /\ rows'.live /\ rows'.owner = w /\ DS!Tx.by = NoOne
            /\ procs.tick.pc = "suspend" => w \in ghost'.fresh
  <2> USE DEF SandboxTyped, SandboxRows, States
  <2>1. CASE DS!Bind(w)
    BY <2>1 DEF DS!Bind
  <2>2. CASE DS!Acquire(w)
    BY <2>2 DEF DS!Acquire
  <2>3. CASE DS!GiveUpWaiting(w) \/ DS!Enter(w)
    BY <2>3 DEF DS!GiveUpWaiting, DS!Enter
  <2>4. CASE DS!Leave(w)
    BY <2>4 DEF DS!Leave
  <2> QED BY <2>1, <2>2, <2>3, <2>4
<1>4. SandboxTyped'
  BY <1>2, <1>3 DEF SandboxTyped
<1> USE DEF HasBox
<1>5. Numbered'
  BY <1>1, <1>2, <1>3 DEF SandboxInv, Numbered, SandboxTyped, SandboxProcs,
                          HolderStates
<1>6. TxKnows'
  BY <1>1, <1>2, <1>3 DEF SandboxInv, TxKnows, SandboxTyped, SandboxProcs,
                          SandboxConstants
<1>7. RowIsTrue'
  BY <1>2, <1>3 DEF SandboxInv, RowIsTrue
<1>8. GivenKeys'
  BY <1>1, <1>2, <1>3 DEF SandboxInv, GivenKeys, SandboxTyped, SandboxProcs
<1>9. Spared'
  BY <1>2, <1>3 DEF SandboxInv, Spared, SandboxConstants, SandboxTyped,
                    SandboxRows
<1> QED BY <1>4, <1>5, <1>6, <1>7, <1>8, <1>9 DEF SandboxInv

\* What a step that changes the transaction leaves alone.
LEMMA TxWritten ==
  ASSUME procs \in SandboxProcs, NEW tx \in Transactions,
         \/ procs' = [procs EXCEPT !.tx = tx]
         \/ \E g \in Nat, p \in {"worker", "api"} :
              procs' = [procs EXCEPT !.cache[p] = g, !.tx = tx]
  PROVE  /\ procs' \in SandboxProcs /\ procs'.tx = tx
         /\ procs'.h = procs.h /\ procs'.tick = procs.tick
BY DEF SandboxProcs

\* A transaction begins.
LEMMA BeginKept ==
  ASSUME SandboxConstants, SandboxInv,
         \/ \E w \in Workers : DS!BeginEnsure(w)
         \/ \E q \in Requests : DS!BeginRequest(q)
         \/ DS!TickSuspend
  PROVE  SandboxInv'
<1> USE DEF DS!Free, DS!H, DS!Tx, DS!Box
<1> SandboxTyped
  BY DEF SandboxInv
<1> DEFINE Pcs == {"look", "delete", "create", "raise"}
<1>1. PICK a \in Workers \cup {"api", "sup"}, p \in Pcs, want \in Nat,
           last \in BOOLEAN :
        /\ DS!Begin(a, p, want, last)
        /\ a \in Workers =>
             procs.h[a].pc = "leased" /\ want = procs.h[a].want /\ ~last
        /\ p = "look" => rows.st = "active"
        /\ p = "create" => rows.st # "active"
        /\ a = "sup" => procs.tick.pc = "suspend"
  <2>0. /\ DS!FirstStep \in Pcs /\ DS!ResumeOrRaise \in Pcs \ {"look"}
        /\ DS!FirstStep = "look" => rows.st = "active"
        /\ DS!FirstStep = "create" => rows.st # "active"
    BY DEF DS!FirstStep, DS!ResumeOrRaise, SandboxTyped, SandboxRows, States
  <2>1. CASE \E w \in Workers : DS!BeginEnsure(w)
    <3>1. PICK w \in Workers : DS!BeginEnsure(w)
      BY <2>1
    <3>2. procs.h[w].want \in Nat
      BY DEF SandboxTyped, SandboxProcs, HolderStates
    <3> QED BY <2>0, <3>1, <3>2 DEF DS!BeginEnsure, SandboxConstants
  <2>2. CASE \E q \in Requests : DS!BeginRequest(q)
    <3>1. "api" \notin Workers /\ outside.key \in Nat
      BY DEF SandboxConstants, SandboxTyped
    <3>2. PICK q \in Requests : DS!BeginRequest(q)
      BY <2>2
    <3>3. \/ DS!Begin("api", DS!FirstStep, outside.key, FALSE)
          \/ DS!Begin("api", "delete", 0, TRUE)
          \/ DS!Begin("api", "delete", outside.key, FALSE)
          \/ DS!Begin("api", DS!ResumeOrRaise, outside.key, FALSE)
               /\ rows.st # "active"
      BY <3>2 DEF DS!BeginRequest
    <3>4. "api" \in Workers \cup {"api", "sup"} /\ "api" # "sup"
      OBVIOUS
    <3>5. CASE DS!Begin("api", DS!FirstStep, outside.key, FALSE)
      BY <2>0, <3>1, <3>4, <3>5
    <3>6. CASE DS!Begin("api", "delete", 0, TRUE)
      BY <3>1, <3>4, <3>6
    <3>7. CASE DS!Begin("api", "delete", outside.key, FALSE)
      BY <3>1, <3>4, <3>7
    <3>8. CASE DS!Begin("api", DS!ResumeOrRaise, outside.key, FALSE)
                 /\ rows.st # "active"
      BY <2>0, <3>1, <3>4, <3>8
    <3> QED BY <3>3, <3>5, <3>6, <3>7, <3>8
  <2>3. CASE DS!TickSuspend
    BY <2>3 DEF DS!TickSuspend, SandboxConstants
  <2> QED BY <2>1, <2>2, <2>3
<1>2. /\ DS!Tx.by = NoOne /\ UNCHANGED <<rows, outside, ghost>>
  BY <1>1 DEF DS!Begin, DS!BeginEnsure, DS!BeginRequest, DS!TickSuspend
<1> DEFINE tx == [DS!NoTx EXCEPT !.by = a, !.pc = p, !.st = rows.st,
                    !.key = rows.key, !.want = want, !.last = last]
<1>3. /\ tx \in Transactions /\ tx.by = a /\ tx.pc = p /\ tx.st = rows.st
      /\ tx.key = rows.key /\ tx.want = want /\ tx.last = last /\ ~tx.made
  BY DEF DS!NoTx, Transactions, SandboxTyped, SandboxRows
<1>4. procs' = [procs EXCEPT !.tx = tx]
  BY <1>1 DEF DS!Begin
<1> HIDE DEF tx
<1>5. /\ procs' \in SandboxProcs /\ procs'.tx = tx /\ procs'.h = procs.h
      /\ procs'.tick = procs.tick
  BY <1>3, <1>4, TxWritten DEF SandboxTyped
<1>6. SandboxTyped'
  BY <1>2, <1>5 DEF SandboxTyped
<1> USE DEF HasBox
<1>7. Numbered' /\ GivenKeys'
  BY <1>2, <1>5 DEF SandboxInv, Numbered, GivenKeys
<1>8. RowIsTrue /\ ~DS!Tx.made
  BY <1>2 DEF SandboxInv, TxKnows
<1>9. RowIsTrue'
  BY <1>2, <1>5, <1>8 DEF RowIsTrue
<1>10. TxKnows'
  BY <1>1, <1>2, <1>3, <1>5, <1>8 DEF TxKnows, RowIsTrue, SandboxConstants
<1>11. Spared'
  BY <1>1, <1>2, <1>3, <1>5 DEF SandboxInv, Spared
<1> QED BY <1>6, <1>7, <1>9, <1>10, <1>11 DEF SandboxInv

\* A transaction goes on: it looks for the container, deletes it or makes it.
LEMMA TxGoesOn ==
  ASSUME SandboxConstants, SandboxInv,
         DS!Look \/ DS!Delete \/ DS!Create \/ DS!CreateBelieved
  PROVE  SandboxInv'
<1> USE DEF DS!Free, DS!H, DS!Tx, DS!Box
<1> SandboxTyped
  BY DEF SandboxInv
<1>0. /\ procs.tx \in Transactions /\ DS!Of(procs.tx.by) \in {"worker", "api"}
      /\ DS!Cached \in Nat /\ outside.box.gen \in Nat
      /\ DS!ResumeOrRaise \in {"raise", "create"}
  BY DEF SandboxTyped, SandboxProcs, DS!Of, DS!Cached, Containers,
         DS!ResumeOrRaise
<1> USE DEF HasBox
<1>1. CASE DS!Look
  <2> DEFINE found == IF DS!KeepsBox THEN "commit" ELSE "delete"
             tx1 == [procs.tx EXCEPT !.pc = found]
             tx2 == [procs.tx EXCEPT !.st = "suspended",
                                     !.pc = DS!ResumeOrRaise]
             tx3 == [procs.tx EXCEPT !.pc = found, !.blind = TRUE]
  <2>1. PICK tx \in Transactions :
          /\ \E g \in Nat, p \in {"worker", "api"} :
               procs' = [procs EXCEPT !.cache[p] = g, !.tx = tx]
          /\ tx.by = procs.tx.by /\ tx.want = procs.tx.want
          /\ tx.last = procs.tx.last /\ tx.made = procs.tx.made
          /\ tx.key = procs.tx.key /\ tx.pc \notin {"none", "look"}
          /\ tx.pc = "commit" => tx.key = tx.want /\ tx.st = procs.tx.st
          /\ tx.pc = "create" => ~HasBox
    <3>1. tx1 \in Transactions /\ tx2 \in Transactions /\ tx3 \in Transactions
      BY <1>0 DEF Transactions, States
    <3>2. /\ tx1.by = procs.tx.by /\ tx1.want = procs.tx.want
          /\ tx1.last = procs.tx.last /\ tx1.made = procs.tx.made
          /\ tx1.key = procs.tx.key /\ tx1.pc = found
          /\ tx1.st = procs.tx.st
          /\ tx2.by = procs.tx.by /\ tx2.want = procs.tx.want
          /\ tx2.last = procs.tx.last /\ tx2.made = procs.tx.made
          /\ tx2.key = procs.tx.key /\ tx2.pc = DS!ResumeOrRaise
          /\ tx3.by = procs.tx.by /\ tx3.want = procs.tx.want
          /\ tx3.last = procs.tx.last /\ tx3.made = procs.tx.made
          /\ tx3.key = procs.tx.key /\ tx3.pc = found
          /\ tx3.st = procs.tx.st
      BY <1>0 DEF Transactions
    <3>3. found = "commit" => procs.tx.key = procs.tx.want
      BY DEF DS!KeepsBox
    <3>4. \/ HasBox /\ DS!Remembers(outside.box.gen, tx1)
          \/ ~HasBox /\ DS!Remembers(0, tx2)
          \/ DS!Remembers(DS!Cached, tx3)
      BY <1>1 DEF DS!Look
    <3>5. found \in {"commit", "delete"}
      OBVIOUS
    <3> HIDE DEF found, tx1, tx2, tx3
    <3>6. CASE HasBox /\ DS!Remembers(outside.box.gen, tx1)
      BY <1>0, <3>1, <3>2, <3>3, <3>5, <3>6 DEF DS!Remembers
    <3>7. CASE ~HasBox /\ DS!Remembers(0, tx2)
      BY <1>0, <3>1, <3>2, <3>7 DEF DS!Remembers
    <3>8. CASE DS!Remembers(DS!Cached, tx3)
      BY <1>0, <3>1, <3>2, <3>3, <3>5, <3>8 DEF DS!Remembers
    <3> QED BY <3>4, <3>6, <3>7, <3>8
  <2>2. UNCHANGED <<rows, outside, ghost>> /\ procs.tx.pc = "look"
    BY <1>1 DEF DS!Look
  <2>3. /\ procs' \in SandboxProcs /\ procs'.tx = tx /\ procs'.h = procs.h
        /\ procs'.tick = procs.tick
    BY <2>1, TxWritten DEF SandboxTyped
  <2>4. /\ ~procs.tx.made /\ procs.tx.st = "active"
        /\ procs.tx.key = rows.key /\ procs.tx.by # NoOne
    BY <2>2 DEF SandboxInv, TxKnows
  <2>5. SandboxTyped'
    BY <2>2, <2>3 DEF SandboxTyped
  <2>6. Numbered' /\ GivenKeys' /\ Spared'
    BY <2>1, <2>2, <2>3 DEF SandboxInv, Numbered, GivenKeys, Spared
  <2>7. RowIsTrue'
    BY <2>1, <2>2, <2>3 DEF SandboxInv, RowIsTrue
  <2>8. TxKnows'
    BY <2>1, <2>2, <2>3, <2>4 DEF SandboxInv, TxKnows, RowIsTrue
  <2> QED BY <2>5, <2>6, <2>7, <2>8 DEF SandboxInv
<1>2. CASE DS!Delete
  <2>1. PICK tx \in Transactions :
          /\ \/ procs' = [procs EXCEPT !.tx = tx]
             \/ \E g \in Nat, p \in {"worker", "api"} :
                  procs' = [procs EXCEPT !.cache[p] = g, !.tx = tx]
          /\ tx.by = procs.tx.by /\ tx.want = procs.tx.want
          /\ tx.last = procs.tx.last /\ tx.made = procs.tx.made
          /\ \/ tx.pc = "raise" /\ UNCHANGED <<outside, ghost>>
             \/ /\ tx.pc \in {"raise", "create"} \/ (tx.pc = "commit" /\ tx.last)
                /\ outside' = [outside EXCEPT !.box = DS!NoBox]
                /\ ghost' = [ghost EXCEPT !.orphan = FALSE, !.killed =
                     @ \/ /\ procs.tx.by = "sup" /\ HasBox
                          /\ rows.live /\ rows.owner \notin ghost.fresh]
    <3> DEFINE tx1 == [procs.tx EXCEPT !.pc = "raise"]
               pc2 == IF procs.tx.last THEN "commit" ELSE DS!ResumeOrRaise
               tx2 == [procs.tx EXCEPT !.st = "suspended", !.blind = FALSE,
                                       !.pc = pc2]
    <3>1. tx1 \in Transactions /\ tx2 \in Transactions
      BY <1>0 DEF Transactions, States
    <3>2. /\ tx1.by = procs.tx.by /\ tx1.want = procs.tx.want
          /\ tx1.last = procs.tx.last /\ tx1.made = procs.tx.made
          /\ tx1.pc = "raise"
          /\ tx2.by = procs.tx.by /\ tx2.want = procs.tx.want
          /\ tx2.last = procs.tx.last /\ tx2.made = procs.tx.made
          /\ tx2.pc = pc2
      BY <1>0 DEF Transactions
    <3>3. CASE DS!TxGoes("raise") /\ UNCHANGED <<outside, ghost>>
      <4>1. procs' = [procs EXCEPT !.tx = tx1]
        BY <3>3 DEF DS!TxGoes
      <4> HIDE DEF tx1, tx2, pc2
      <4> QED BY <3>1, <3>2, <3>3, <4>1
    <3>4. CASE /\ DS!Remembers(0, tx2)
               /\ outside' = [outside EXCEPT !.box = DS!NoBox]
               /\ ghost' = [ghost EXCEPT !.orphan = FALSE, !.killed =
                    @ \/ /\ procs.tx.by = "sup" /\ HasBox
                         /\ rows.live /\ rows.owner \notin ghost.fresh]
      <4>1. pc2 \in {"raise", "create"} \/ (pc2 = "commit" /\ procs.tx.last)
        BY <1>0, Zenon
      <4> HIDE DEF tx1, tx2, pc2
      <4>2. \E g \in Nat, p \in {"worker", "api"} :
              procs' = [procs EXCEPT !.cache[p] = g, !.tx = tx2]
        BY <1>0, <3>4 DEF DS!Remembers
      <4> QED BY <3>1, <3>2, <3>4, <4>1, <4>2
    <3> QED BY <1>2, <3>3, <3>4 DEF DS!Delete
  <2>2. UNCHANGED rows /\ procs.tx.pc = "delete"
    BY <1>2 DEF DS!Delete
  <2>3. /\ procs' \in SandboxProcs /\ procs'.tx = tx /\ procs'.h = procs.h
        /\ procs'.tick = procs.tick
    BY <2>1, TxWritten DEF SandboxTyped
  <2>4. ~procs.tx.made /\ procs.tx.by # NoOne
    BY <2>2 DEF SandboxInv, TxKnows
  <2>5. \/ tx.pc = "raise" /\ UNCHANGED <<outside, ghost>>
        \/ /\ tx.pc \in {"raise", "create"} \/ (tx.pc = "commit" /\ tx.last)
           /\ outside'.box = DS!NoBox /\ outside'.made = outside.made
           /\ outside'.key = outside.key
           /\ ~ghost'.orphan /\ ghost'.fresh = ghost.fresh
           /\ ghost'.killed = (ghost.killed \/
                /\ procs.tx.by = "sup" /\ HasBox
                /\ rows.live /\ rows.owner \notin ghost.fresh)
    BY <2>1 DEF SandboxTyped
  <2>6. SandboxTyped'
    <3>1. DS!NoBox \in Containers
      BY DEF Containers, DS!NoBox
    <3>2. outside' \in [box : Containers, made : Nat, key : Nat]
      BY <2>1, <3>1 DEF SandboxTyped
    <3>3. ghost' \in [orphan : BOOLEAN, fresh : SUBSET Workers,
                      killed : BOOLEAN]
      BY <2>1 DEF SandboxTyped
    <3> QED BY <2>2, <2>3, <3>2, <3>3 DEF SandboxTyped
  <2>7. Numbered'
    BY <2>3, <2>5 DEF SandboxInv, Numbered
  <2>8. GivenKeys'
    BY <2>3, <2>5 DEF SandboxInv, GivenKeys
  <2>9. Spared'
    BY <2>1, <2>2, <2>3, <2>5 DEF SandboxInv, Spared
  <2>10. RowIsTrue'
    BY <2>1, <2>2, <2>3, <2>5 DEF SandboxInv, RowIsTrue
  <2>11. TxKnows'
    BY <2>1, <2>2, <2>3, <2>4, <2>5 DEF SandboxInv, TxKnows
  <2> QED BY <2>6, <2>7, <2>8, <2>9, <2>10, <2>11 DEF SandboxInv
<1>3. CASE DS!Create
  <2> DEFINE new == [gen |-> outside.made + 1, key |-> procs.tx.want]
             box == IF outside.box = DS!NoBox THEN new ELSE outside.box
             tx == [procs.tx EXCEPT !.st = "active", !.key = procs.tx.want,
                      !.made = outside.box = DS!NoBox, !.pc = "commit"]
  <2>1. new \in Containers /\ box \in Containers /\ box.gen \in Nat
    BY <1>0 DEF Containers, SandboxTyped, Transactions
  <2>2. /\ tx \in Transactions /\ tx.by = procs.tx.by
        /\ tx.want = procs.tx.want /\ tx.key = procs.tx.want
        /\ tx.last = procs.tx.last /\ tx.made = ~HasBox
        /\ tx.st = "active" /\ tx.pc = "commit"
    BY <1>0 DEF Transactions, States
  <2>3. /\ procs.tx.pc = "create" /\ UNCHANGED <<rows, ghost>>
        /\ DS!Remembers(box.gen, tx)
        /\ outside' = [outside EXCEPT !.box = box, !.made =
                         IF outside.box = DS!NoBox THEN @ + 1 ELSE @]
    BY <1>3 DEF DS!Create
  <2>4. /\ outside'.box = box
        /\ outside' \in [box : Containers, made : Nat, key : Nat]
        /\ outside'.made =
             IF HasBox THEN outside.made ELSE outside.made + 1
    BY <2>1, <2>3 DEF SandboxTyped
  <2>5. /\ HasBox => box = outside.box
        /\ ~HasBox => box.gen = outside.made + 1 /\ box.key = procs.tx.want
        /\ box # DS!NoBox
    BY DEF DS!NoBox, SandboxTyped
  <2> HIDE DEF new, box, tx
  <2>6. /\ procs' \in SandboxProcs /\ procs'.tx = tx /\ procs'.h = procs.h
        /\ procs'.tick = procs.tick
    BY <1>0, <2>1, <2>2, <2>3, TxWritten DEF SandboxTyped, DS!Remembers
  <2>7. procs.tx.by # NoOne /\ (~HasBox \/ ghost.orphan)
    BY <2>3 DEF SandboxInv, TxKnows
  <2>8. SandboxTyped'
    BY <2>3, <2>4, <2>6 DEF SandboxTyped
  <2>9. Numbered'
    BY <2>3, <2>4, <2>5, <2>6 DEF SandboxInv, Numbered, SandboxTyped,
         SandboxProcs, HolderStates
  <2>10. GivenKeys'
    <3> SUFFICES ASSUME NEW w \in Workers,
                        procs.h[w].gen = box.gen, ~ghost.orphan
                 PROVE  FALSE
      BY <2>3, <2>4, <2>6 DEF GivenKeys
    <3>1. procs.h[w].gen <= outside.made /\ procs.h[w].gen \in Nat
            /\ outside.made \in Nat
      BY DEF SandboxInv, Numbered, SandboxTyped, SandboxProcs, HolderStates
    <3> QED BY <2>5, <2>7, <3>1
  <2>11. Spared'
    BY <2>2, <2>3, <2>6 DEF SandboxInv, Spared
  <2>12. RowIsTrue'
    BY <2>2, <2>3, <2>4, <2>6, <2>7 DEF RowIsTrue
  <2>13. TxKnows'
    BY <2>2, <2>3, <2>4, <2>5, <2>6, <2>7 DEF SandboxInv, TxKnows
  <2> QED BY <2>8, <2>9, <2>10, <2>11, <2>12, <2>13 DEF SandboxInv
<1>4. CASE DS!CreateBelieved
  <2> DEFINE tx == [procs.tx EXCEPT !.st = "active", !.key = procs.tx.want,
                      !.blind = TRUE, !.pc = "commit"]
  <2>1. /\ tx \in Transactions /\ tx.by = procs.tx.by
        /\ tx.want = procs.tx.want /\ tx.key = procs.tx.want
        /\ tx.last = procs.tx.last /\ tx.made = procs.tx.made
        /\ tx.st = "active" /\ tx.pc = "commit"
    BY <1>0 DEF Transactions, States
  <2>2. /\ procs.tx.pc = "create" /\ UNCHANGED <<rows, outside, ghost>>
        /\ DS!Remembers(DS!Cached, tx)
    BY <1>4 DEF DS!CreateBelieved
  <2> HIDE DEF tx
  <2>3. /\ procs' \in SandboxProcs /\ procs'.tx = tx /\ procs'.h = procs.h
        /\ procs'.tick = procs.tick
    BY <1>0, <2>1, <2>2, TxWritten DEF SandboxTyped, DS!Remembers
  <2>4. /\ procs.tx.by # NoOne /\ ~procs.tx.made
        /\ ~HasBox \/ ghost.orphan
    BY <2>2 DEF SandboxInv, TxKnows
  <2>5. SandboxTyped'
    BY <2>2, <2>3 DEF SandboxTyped
  <2>6. Numbered' /\ GivenKeys' /\ Spared'
    BY <2>1, <2>2, <2>3 DEF SandboxInv, Numbered, GivenKeys, Spared
  <2>7. RowIsTrue'
    BY <2>1, <2>2, <2>3, <2>4 DEF RowIsTrue
  <2>8. TxKnows'
    BY <2>1, <2>2, <2>3, <2>4 DEF SandboxInv, TxKnows
  <2> QED BY <2>5, <2>6, <2>7, <2>8 DEF SandboxInv
<1> QED BY <1>1, <1>2, <1>3, <1>4

LEMMA NoTxIsTransaction ==
  ASSUME SandboxConstants
  PROVE  /\ DS!NoTx \in Transactions /\ DS!NoTx.by = NoOne
         /\ DS!NoTx.pc = "none" /\ ~DS!NoTx.made
BY DEF DS!NoTx, Transactions, States

\* What the end of a transaction leaves.
LEMMA TxEnds ==
  ASSUME SandboxConstants, SandboxTyped, NEW p \in {"ready", "leased"},
         DS!EndTx(p)
  PROVE  /\ procs' \in SandboxProcs /\ procs'.tx = DS!NoTx
         /\ procs'.tick = IF procs.tx.by = "sup"
                            THEN [pc |-> "idle", has |-> FALSE]
                            ELSE procs.tick
         /\ \A w \in Workers :
              IF w = procs.tx.by
                THEN /\ procs'.h[w].pc = p
                     /\ procs'.h[w].want = procs.h[w].want
                     /\ procs'.h[w].gen =
                          IF p = "ready" /\ ~procs.tx.blind
                            THEN outside.box.gen ELSE 0
                ELSE procs'.h[w] = procs.h[w]
<1> USE DEF DS!Tx, DS!Box
<1>0. /\ procs.h \in [Workers -> HolderStates] /\ outside.box.gen \in Nat
      /\ procs.tick \in Ticks
  BY DEF SandboxTyped, SandboxProcs, Containers
<1> DEFINE g == IF p = "ready" /\ ~procs.tx.blind THEN outside.box.gen ELSE 0
           tick == IF procs.tx.by = "sup" THEN [pc |-> "idle", has |-> FALSE]
                                          ELSE procs.tick
<1>1. g \in Nat /\ tick \in Ticks
  BY <1>0 DEF Ticks
<1>2. /\ DS!After(p) \in [Workers -> HolderStates]
      /\ \A w \in Workers :
           IF w = procs.tx.by
             THEN /\ DS!After(p)[w].pc = p
                  /\ DS!After(p)[w].want = procs.h[w].want
                  /\ DS!After(p)[w].gen = g
             ELSE DS!After(p)[w] = procs.h[w]
  <2>1. CASE procs.tx.by \in Workers
    <3> DEFINE a == procs.tx.by
               e == [[procs.h[a] EXCEPT !.pc = p] EXCEPT !.gen = g]
    <3>1. DS!After(p) = [procs.h EXCEPT ![a].pc = p, ![a].gen = g]
      BY <2>1 DEF DS!After
    <3>2. DS!After(p) = [procs.h EXCEPT ![a] = e]
      BY <3>1, <1>0, <2>1
    <3>3. /\ e \in HolderStates /\ e.pc = p /\ e.gen = g
          /\ e.want = procs.h[a].want
      BY <1>0, <1>1, <2>1 DEF HolderStates
    <3> HIDE DEF e, g
    <3> QED BY <1>0, <2>1, <3>2, <3>3
  <2>2. CASE procs.tx.by \notin Workers
    BY <1>0, <2>2 DEF DS!After
  <2> QED BY <2>1, <2>2
<1>3. procs' = [procs EXCEPT !.tx = DS!NoTx, !.h = DS!After(p),
                             !.tick = tick]
  BY DEF DS!EndTx
<1> HIDE DEF g, tick
<1>4. /\ procs' \in SandboxProcs /\ procs'.tx = DS!NoTx
      /\ procs'.tick = tick /\ procs'.h = DS!After(p)
  BY <1>1, <1>2, <1>3, NoTxIsTransaction DEF SandboxTyped, SandboxProcs
<1> QED BY <1>2, <1>4 DEF g, tick

\* A transaction is committed, or taken back.
LEMMA EndKept ==
  ASSUME SandboxConstants, SandboxInv, DS!Commit \/ DS!Rollback
  PROVE  SandboxInv'
<1> USE DEF DS!Free, DS!H, DS!Tx, DS!Box
<1> SandboxTyped
  BY DEF SandboxInv
<1>0. /\ procs.tx \in Transactions /\ procs.h \in [Workers -> HolderStates]
      /\ outside.box \in Containers
  BY DEF SandboxTyped, SandboxProcs
<1> USE DEF HasBox
<1>1. CASE DS!Commit
  <2>1. /\ procs.tx.pc = "commit" /\ DS!EndTx("ready")
        /\ UNCHANGED <<outside, ghost>>
        /\ rows' = [rows EXCEPT !.st = procs.tx.st, !.key = procs.tx.key]
    BY <1>1 DEF DS!Commit
  <2>2. /\ rows' \in SandboxRows /\ rows'.st = procs.tx.st
        /\ rows'.key = procs.tx.key /\ rows'.owner = rows.owner
        /\ rows'.live = rows.live
    BY <1>0, <2>1 DEF SandboxTyped, SandboxRows, Transactions
  <2>3. SandboxTyped'
    BY <2>1, <2>2, TxEnds DEF SandboxTyped
  <2>4. RowIsTrue' /\ TxKnows'
    BY <2>1, <2>2, TxEnds, NoTxIsTransaction
    DEF SandboxInv, TxKnows, RowIsTrue, SandboxConstants
  <2>5. Numbered'
    BY <1>0, <2>1, TxEnds DEF SandboxInv, Numbered, DS!NoBox, Containers,
                              SandboxTyped
  <2>6. GivenKeys'
    <3> SUFFICES ASSUME NEW w \in Workers,
                        procs'.h[w].pc \in {"ready", "work"},
                        procs'.h[w].gen = outside.box.gen, HasBox,
                        ~ghost.orphan
                 PROVE  outside.box.key = procs'.h[w].want
      BY <2>1 DEF GivenKeys
    <3>1. CASE w # procs.tx.by
      BY <2>1, <3>1, TxEnds DEF SandboxInv, GivenKeys
    <3>2. CASE w = procs.tx.by
      BY <2>1, <3>2, TxEnds DEF SandboxInv, TxKnows
    <3> QED BY <3>1, <3>2
  <2>7. Spared'
    BY <2>1, <2>2, TxEnds, NoTxIsTransaction
    DEF SandboxInv, Spared, SandboxConstants
  <2> QED BY <2>3, <2>4, <2>5, <2>6, <2>7 DEF SandboxInv
<1>2. CASE DS!Rollback
  <2>1. /\ procs.tx.by # NoOne /\ DS!EndTx("leased")
        /\ UNCHANGED <<rows, outside>>
        /\ ghost' = [ghost EXCEPT !.orphan =
                       @ \/ (procs.tx.made /\ HasBox)]
    BY <1>2 DEF DS!Rollback
  <2>2. /\ ghost' \in [orphan : BOOLEAN, fresh : SUBSET Workers,
                       killed : BOOLEAN]
        /\ ghost'.orphan = (ghost.orphan \/ (procs.tx.made /\ HasBox))
        /\ ghost'.fresh = ghost.fresh /\ ghost'.killed = ghost.killed
    BY <2>1 DEF SandboxTyped
  <2>3. SandboxTyped'
    BY <2>1, <2>2, TxEnds DEF SandboxTyped
  <2>4. RowIsTrue' /\ TxKnows'
    BY <2>1, <2>2, TxEnds, NoTxIsTransaction
    DEF SandboxInv, TxKnows, RowIsTrue, SandboxConstants
  <2>5. Numbered'
    BY <1>0, <2>1, <2>2, TxEnds DEF SandboxInv, Numbered, SandboxTyped
  <2>6. GivenKeys'
    BY <2>1, <2>2, TxEnds DEF SandboxInv, GivenKeys
  <2>7. Spared'
    BY <2>1, <2>2, TxEnds, NoTxIsTransaction
    DEF SandboxInv, Spared, SandboxConstants
  <2> QED BY <2>3, <2>4, <2>5, <2>6, <2>7 DEF SandboxInv
<1> QED BY <1>1, <1>2

\* The worker process dies.
LEMMA WorkerDies ==
  ASSUME SandboxConstants, SandboxInv, DS!Crash PROVE SandboxInv'
<1> USE DEF DS!H, DS!Tx, DS!Box, HasBox
<1> SandboxTyped
  BY DEF SandboxInv
<1> DEFINE tx == IF procs.tx.by = "api" THEN procs.tx ELSE DS!NoTx
           idle == [w \in Workers |-> DS!IdleHolder]
           tick == [pc |-> "idle", has |-> FALSE]
<1>0. /\ tx \in Transactions /\ idle \in [Workers -> HolderStates]
      /\ tick \in Ticks
  BY NoTxIsTransaction DEF SandboxTyped, SandboxProcs, HolderStates,
                           DS!IdleHolder, Ticks
<1>1. /\ procs' = [procs EXCEPT !.tx = tx, !.h = idle, !.tick = tick,
                                !.cache.worker = 0]
      /\ UNCHANGED <<rows, outside>>
      /\ ghost' = [ghost EXCEPT !.orphan = @ \/ (procs.tx.by # "api"
                                  /\ procs.tx.made /\ HasBox)]
  BY DEF DS!Crash
<1>2. \A w \in Workers : idle[w].pc = "idle" /\ idle[w].gen = 0
  BY DEF DS!IdleHolder
<1> HIDE DEF tx, idle
<1>3. /\ procs' \in SandboxProcs /\ procs'.tx = tx /\ procs'.h = idle
      /\ procs'.tick.pc = "idle"
  BY <1>0, <1>1 DEF SandboxTyped, SandboxProcs
<1>4. /\ ghost' \in [orphan : BOOLEAN, fresh : SUBSET Workers,
                     killed : BOOLEAN]
      /\ ghost'.orphan = (ghost.orphan \/ (procs.tx.by # "api"
                            /\ procs.tx.made /\ HasBox))
      /\ ghost'.fresh = ghost.fresh /\ ghost'.killed = ghost.killed
  BY <1>1 DEF SandboxTyped
<1>5. SandboxTyped'
  BY <1>1, <1>3, <1>4 DEF SandboxTyped
<1>6. Numbered' /\ GivenKeys'
  BY <1>1, <1>2, <1>3, <1>4 DEF SandboxInv, Numbered, GivenKeys, SandboxTyped
<1>7. \/ tx = procs.tx /\ procs.tx.by = "api" /\ ghost'.orphan = ghost.orphan
      \/ /\ procs.tx.by # "api" /\ tx.by = NoOne /\ tx.pc = "none"
         /\ ~tx.made
  BY <1>4, NoTxIsTransaction DEF tx, SandboxTyped
<1>8. RowIsTrue' /\ TxKnows'
  BY <1>1, <1>3, <1>4, <1>7 DEF SandboxInv, RowIsTrue, TxKnows,
                                SandboxConstants
<1>9. Spared'
  BY <1>1, <1>3, <1>4, <1>7 DEF SandboxInv, Spared, SandboxConstants
<1> QED BY <1>5, <1>6, <1>8, <1>9 DEF SandboxInv

\* The supervisor reads the row.
LEMMA TickReadKept ==
  ASSUME SandboxConstants, SandboxInv, DS!TickRead PROVE SandboxInv'
<1> USE DEF DS!H, DS!Tx, DS!Box, DS!Free, HasBox
<1> SandboxTyped
  BY DEF SandboxInv
<1>1. /\ UNCHANGED outside /\ ghost' = [ghost EXCEPT !.fresh = {}]
      /\ procs.tx.by # "sup"
  BY DEF DS!TickRead
<1>2. /\ rows' \in SandboxRows /\ rows'.st = rows.st /\ rows'.key = rows.key
      /\ rows'.live = rows.live
      /\ \/ rows' = rows /\ (rows.owner = NoOne \/ rows.live)
         \/ rows'.owner = NoOne /\ ~rows.live /\ procs.tx.by = NoOne
  BY DEF DS!TickRead, SandboxTyped, SandboxRows
<1>3. /\ ghost' \in [orphan : BOOLEAN, fresh : SUBSET Workers,
                     killed : BOOLEAN]
      /\ ghost'.orphan = ghost.orphan /\ ghost'.killed = ghost.killed
  BY <1>1 DEF SandboxTyped
<1> DEFINE tx == [DS!NoTx EXCEPT !.by = "sup", !.pc = "delete",
                    !.st = rows.st, !.key = rows.key]
<1>4. /\ tx \in Transactions /\ tx.by = "sup" /\ tx.pc = "delete" /\ ~tx.made
  BY DEF DS!NoTx, Transactions, SandboxTyped, SandboxRows, States
<1> DEFINE late == [procs EXCEPT !.tick.pc = "suspend"]
           done == [procs EXCEPT !.tick = [pc |-> "idle", has |-> FALSE]]
<1>5. \/ /\ ~rows.live /\ procs.tx.by = NoOne
         /\ procs' = [procs EXCEPT !.tx = tx]
      \/ procs' = late /\ (rows.owner = NoOne \/ ~rows.live)
      \/ procs' = done
  BY DEF DS!TickRead, DS!Spares
<1>6. /\ late \in SandboxProcs /\ done \in SandboxProcs
      /\ late.tx = procs.tx /\ late.h = procs.h /\ late.tick.pc = "suspend"
      /\ done.tx = procs.tx /\ done.h = procs.h /\ done.tick.pc = "idle"
  BY DEF SandboxTyped, SandboxProcs, Ticks
<1> HIDE DEF tx, late, done
<1>7. CASE /\ ~rows.live /\ procs.tx.by = NoOne
           /\ procs' = [procs EXCEPT !.tx = tx]
  <2>1. /\ procs' \in SandboxProcs /\ procs'.tx = tx /\ procs'.h = procs.h
    BY <1>4, <1>7, TxWritten DEF SandboxTyped
  <2>2. SandboxTyped'
    BY <1>1, <1>2, <1>3, <2>1 DEF SandboxTyped
  <2>3. ~procs.tx.made
    BY <1>7 DEF SandboxInv, TxKnows
  <2>4. Numbered' /\ GivenKeys' /\ RowIsTrue'
    BY <1>1, <1>2, <1>3, <1>4, <2>1, <2>3 DEF SandboxInv, Numbered,
         GivenKeys, RowIsTrue
  <2>5. TxKnows'
    BY <1>4, <2>1 DEF TxKnows, SandboxConstants
  <2>6. Spared'
    BY <1>2, <1>3, <1>7 DEF SandboxInv, Spared
  <2> QED BY <2>2, <2>4, <2>5, <2>6 DEF SandboxInv
<1>8. CASE procs' = late \/ procs' = done
  <2>1. /\ procs' \in SandboxProcs /\ procs'.tx = procs.tx
        /\ procs'.h = procs.h
        /\ procs'.tick.pc = "suspend" => rows.owner = NoOne \/ ~rows.live
    BY <1>4, <1>5, <1>6, <1>8
  <2>2. SandboxTyped'
    BY <1>1, <1>2, <1>3, <2>1 DEF SandboxTyped
  <2>3. Numbered' /\ GivenKeys' /\ RowIsTrue'
    BY <1>1, <1>2, <1>3, <2>1 DEF SandboxInv, Numbered, GivenKeys, RowIsTrue
  <2>4. TxKnows'
    BY <1>1, <1>2, <1>3, <2>1 DEF SandboxInv, TxKnows
  <2>5. Spared'
    BY <1>1, <1>2, <1>3, <2>1 DEF SandboxInv, Spared
  <2> QED BY <2>2, <2>3, <2>4, <2>5 DEF SandboxInv
<1> QED BY <1>5, <1>7, <1>8

\* The rest: leases end, the supervisor lists the containers, one dies, the
\* user changes credentials.
LEMMA AroundKept ==
  ASSUME SandboxConstants, SandboxInv,
         DS!LeaseEnds \/ DS!TickList \/ DS!BoxDies \/ DS!NewKey
  PROVE  SandboxInv'
<1> USE DEF DS!H, DS!Tx, DS!Box, HasBox
<1> SandboxTyped
  BY DEF SandboxInv
<1>1. CASE DS!LeaseEnds
  <2>1. /\ rows' \in SandboxRows /\ rows'.st = rows.st /\ rows'.key = rows.key
        /\ ~rows'.live /\ UNCHANGED <<procs, outside, ghost>>
    BY <1>1 DEF DS!LeaseEnds, SandboxTyped, SandboxRows
  <2> QED BY <2>1 DEF SandboxInv, SandboxTyped, Numbered, TxKnows, RowIsTrue,
                      GivenKeys, Spared
<1>2. CASE DS!TickList
  <2>1. /\ procs' \in SandboxProcs /\ procs'.tx = procs.tx
        /\ procs'.h = procs.h /\ procs'.tick.pc = "rows"
        /\ UNCHANGED <<rows, outside, ghost>>
    BY <1>2 DEF DS!TickList, SandboxTyped, SandboxProcs, Ticks
  <2> QED BY <2>1 DEF SandboxInv, SandboxTyped, Numbered, TxKnows, RowIsTrue,
                      GivenKeys, Spared
<1>3. CASE DS!BoxDies
  <2>1. /\ outside'.box = DS!NoBox /\ outside'.made = outside.made
        /\ ~ghost'.orphan /\ ghost'.fresh = ghost.fresh
        /\ ghost'.killed = ghost.killed /\ UNCHANGED <<rows, procs>>
    BY <1>3 DEF DS!BoxDies, SandboxTyped
  <2>2. DS!NoBox \in Containers
    BY DEF DS!NoBox, Containers
  <2>3. SandboxTyped'
    BY <1>3, <2>2 DEF DS!BoxDies, SandboxTyped
  <2>4. Numbered' /\ TxKnows'
    BY <2>1 DEF SandboxInv, Numbered, TxKnows
  <2>5. RowIsTrue' /\ GivenKeys' /\ Spared'
    BY <2>1 DEF SandboxInv, RowIsTrue, GivenKeys, Spared
  <2> QED BY <2>3, <2>4, <2>5 DEF SandboxInv
<1>4. CASE DS!NewKey
  <2>1. /\ outside'.box = outside.box /\ outside'.made = outside.made
        /\ UNCHANGED <<rows, procs, ghost>>
        /\ outside' \in [box : Containers, made : Nat, key : Nat]
    BY <1>4 DEF DS!NewKey, SandboxTyped
  <2> QED BY <2>1 DEF SandboxInv, SandboxTyped, Numbered, TxKnows, RowIsTrue,
                      GivenKeys, Spared
<1> QED BY <1>1, <1>2, <1>3, <1>4

LEMMA SandboxKept ==
  ASSUME SandboxConstants, SandboxInv, [DS!Next]_(DS!vars)
  PROVE  SandboxInv'
<1>1. CASE UNCHANGED DS!vars
  BY <1>1 DEF DS!vars, SandboxInv, SandboxTyped, Numbered, TxKnows, RowIsTrue,
              GivenKeys, Spared, HasBox, DS!H, DS!Tx, DS!Box
<1>2. CASE DS!Next
  <2>1. ASSUME NEW w \in Workers,
               DS!Bind(w) \/ DS!Acquire(w) \/ DS!GiveUpWaiting(w)
                 \/ DS!BeginEnsure(w) \/ DS!Enter(w) \/ DS!Leave(w)
        PROVE  SandboxInv'
    BY <2>1, HolderKept, BeginKept
  <2> QED
    BY <1>2, <2>1, BeginKept, TxGoesOn, EndKept, WorkerDies, TickReadKept,
       AroundKept DEF DS!Next
<1> QED BY <1>1, <1>2

LEMMA SandboxSafe ==
  ASSUME SandboxInv
  PROVE  DS!HoldersHaveCredentials /\ DS!RowKnowsBox /\ DS!SupervisorSpares
BY DEF SandboxInv, GivenKeys, TxKnows, RowIsTrue, Spared, HasBox,
       DS!HoldersHaveCredentials, DS!RowKnowsBox, DS!SupervisorSpares,
       DS!H, DS!Tx, DS!Box, DS!Free

\* Whoever works in a container has the credentials prepared for it, the row
\* knows the container between transactions, and the supervisor takes none
\* from an execution that held its lease when the row was read: for every set
\* of executions and every number of containers and changes of credentials
\* (services/sandbox_lifecycle_service.py, sandbox_lease_service.py,
\* sandbox_lifecycle_supervisor_service.py).
THEOREM DedicatedSandboxesSafe ==
  SandboxConstants =>
    (DS!Spec => [](DS!HoldersHaveCredentials /\ DS!RowKnowsBox
                     /\ DS!SupervisorSpares))
<1> SUFFICES ASSUME SandboxConstants
             PROVE  DS!Spec => [](DS!HoldersHaveCredentials /\ DS!RowKnowsBox
                                    /\ DS!SupervisorSpares)
  OBVIOUS
<1>1. DS!Init => SandboxInv
  BY SandboxInit
<1>2. SandboxInv /\ [DS!Next]_(DS!vars) => SandboxInv'
  BY SandboxKept
<1>3. SandboxInv => DS!HoldersHaveCredentials /\ DS!RowKnowsBox
                      /\ DS!SupervisorSpares
  BY SandboxSafe
<1> QED BY <1>1, <1>2, <1>3, PTL DEF DS!Spec

-----------------------------------------------------------------------------
(* A coding session and its turns.                                         *)

\* Workers are not the agent run, or no one.
SessionConstants ==
  Workers \cap {NoOne, "run"} = {} /\ NoOne # "run" /\ MaxTurns \in Nat

Over == {"completed", "failed", "cancelled"}
TurnRows == [st : Over \cup {"pending", "running"}, mode : {"sync", "async"}]
SessionRows ==
  [s : Over \cup {"none", "idle", "running"}, turns : Seq(TurnRows),
   marker : Nat, owner : Workers \cup {NoOne, "run"}, live : BOOLEAN, of : Nat]
Jobs == [pc : {"idle", "acquire", "leased", "started", "exec"}, t : Nat]
SessionProcs ==
  [run : BOOLEAN, call : Nat,
   ctl : [pc : {"none", "act"}, saw : {"none", "idle", "running"}],
   job : [Workers -> Jobs], old : SUBSET Nat]
SessionGhosts ==
  [ran : [CS!Turns -> Nat], again : BOOLEAN, asked : SUBSET Nat,
   late : BOOLEAN, blind : BOOLEAN]
SessionTyped ==
  /\ rows \in SessionRows
  /\ procs \in SessionProcs
  /\ outside \in [queue : SUBSET Nat, signal : BOOLEAN]
  /\ ghost \in SessionGhosts

Known == 1 .. Len(rows.turns)
Going == {"started", "exec"}

\* Whatever names a turn names one of the session.
Named ==
  /\ Len(rows.turns) <= MaxTurns
  /\ outside.queue \subseteq Known /\ procs.old \subseteq Known
  /\ procs.call \in {0} \cup Known
  /\ \A w \in Workers : procs.job[w].pc # "idle" => procs.job[w].t \in Known

\* One job at most has taken a turn, and the turn is running until the job
\* has ended it or the lease of the job is lost.
TakenBy(w, t) ==
  /\ procs.job[w].pc \in Going =>
       /\ rows.turns[t].st # "pending" /\ procs.call # t
       /\ \A u \in Workers \ {w} :
            procs.job[u].pc \in Going => procs.job[u].t # t
  /\ procs.job[w].pc = "started" =>
       rows.turns[t].st = "running" /\ t \notin procs.old
         /\ ghost.ran[t] = 0
  /\ procs.job[w].pc = "exec" /\ rows.owner = w /\ rows.live =>
       rows.turns[t].st = "running"
  /\ procs.job[w].pc \in Going \cup {"leased"} /\ rows.owner = w =>
       rows.of = t
TakenOnce == \A w \in Workers : TakenBy(w, procs.job[w].t)

\* So is the turn the agent run waits for.
CallRuns ==
  /\ procs.call # 0 => rows.turns[procs.call].st = "running"
                         /\ procs.call \notin procs.old
  /\ \A t \in procs.old : rows.turns[t].st # "pending"

\* Only a turn that has been taken has run.
RanOnce ==
  \A t \in CS!Turns :
    /\ ghost.ran[t] <= 1
    /\ t > Len(rows.turns) => ghost.ran[t] = 0
    /\ t <= Len(rows.turns) /\ rows.turns[t].st = "pending" =>
         ghost.ran[t] = 0

\* A signal was meant for the turn that is active, or the session is over.
SignalMeant ==
  outside.signal /\ ~ghost.late /\ ~ghost.blind =>
    CS!ActiveTurns \subseteq ghost.asked /\ rows.s \notin {"none", "idle"}

SessionInv ==
  /\ SessionTyped /\ Named /\ TakenOnce /\ CallRuns /\ RanOnce
  /\ CS!EndedOnce /\ CS!SessionFollowsTurns /\ SignalMeant
  /\ CS!CancelledWasAsked

LEMMA SessionInit ==
  ASSUME SessionConstants, CS!Init PROVE SessionInv
<1> USE DEF CS!Init, CS!IdleJob, CS!NoCtl
<1>1. rows.turns = <<>> /\ Len(rows.turns) = 0 /\ <<>> \in Seq(TurnRows)
  OBVIOUS
<1>2. SessionTyped
  BY <1>1 DEF SessionTyped, SessionRows, SessionProcs, SessionGhosts, Jobs,
              Over
<1>3. CS!ActiveTurns = {}
  BY <1>1 DEF CS!ActiveTurns
<1> QED
  BY <1>1, <1>2, <1>3 DEF SessionInv, Named, TakenOnce, TakenBy,
     CallRuns, RanOnce, CS!EndedOnce, CS!SessionFollowsTurns, SignalMeant, CS!CancelledWasAsked,
     Known, Going, SessionConstants

\* What there is of the turns.
LEMMA TurnsAre ==
  ASSUME SessionTyped
  PROVE  /\ Len(rows.turns) \in Nat /\ DOMAIN rows.turns = Known
         /\ \A t \in Known : rows.turns[t] \in TurnRows
         /\ CS!ActiveTurns =
              {t \in Known : rows.turns[t].st \in {"pending", "running"}}
<1>1. rows.turns \in Seq(TurnRows)
  BY DEF SessionTyped, SessionRows
<1>2. Len(rows.turns) \in Nat /\ DOMAIN rows.turns = Known
  BY <1>1 DEF Known
<1>3. \A t \in Known : rows.turns[t] \in TurnRows
  BY <1>1 DEF Known
<1> QED BY <1>2, <1>3 DEF CS!ActiveTurns, CS!Active, CS!Status

LEMMA TurnsWillBe ==
  ASSUME SessionTyped'
  PROVE  /\ Len(rows'.turns) \in Nat /\ DOMAIN rows'.turns = Known'
         /\ CS!ActiveTurns' =
              {t \in Known' : rows'.turns[t].st \in {"pending", "running"}}
<1>1. rows'.turns \in Seq(TurnRows)
  BY DEF SessionTyped, SessionRows
<1>2. Len(rows'.turns) \in Nat /\ DOMAIN rows'.turns = Known'
  BY <1>1 DEF Known
<1> QED BY <1>2 DEF CS!ActiveTurns, CS!Active, CS!Status

\* Writing the status of a turn.
Marked(s, t, v) == [s EXCEPT ![t].st = v]

LEMMA TurnWritten ==
  ASSUME NEW s \in Seq(TurnRows), NEW t \in 1 .. Len(s),
         NEW v \in Over \cup {"pending", "running"}
  PROVE  /\ Marked(s, t, v) \in Seq(TurnRows)
         /\ Len(Marked(s, t, v)) = Len(s)
         /\ \A u \in 1 .. Len(s) :
              Marked(s, t, v)[u].st = IF u = t THEN v ELSE s[u].st
<1> DEFINE e == [s[t] EXCEPT !.st = v]
<1>1. s[t] \in TurnRows
  OBVIOUS
<1>2. e \in TurnRows /\ e.st = v
  BY <1>1 DEF TurnRows
<1>3. Marked(s, t, v) = [s EXCEPT ![t] = e]
  BY DEF Marked
<1> HIDE DEF e
<1>4. /\ [s EXCEPT ![t] = e] \in Seq(TurnRows)
      /\ Len([s EXCEPT ![t] = e]) = Len(s)
      /\ \A u \in 1 .. Len(s) :
           [s EXCEPT ![t] = e][u] = IF u = t THEN e ELSE s[u]
  BY <1>2
<1> QED BY <1>2, <1>3, <1>4

\* A turn ends: what every step that ends one has to see to.
LEMMA TurnEnds ==
  ASSUME SessionConstants, SessionInv, NEW t \in Known, NEW v \in Over,
         rows.turns[t].st \in {"pending", "running"},
         rows'.turns = Marked(rows.turns, t, v),
         rows' \in SessionRows, procs' \in SessionProcs,
         outside' \in [queue : SUBSET Nat, signal : BOOLEAN],
         ghost' \in SessionGhosts,
         ghost.blind \/ rows'.s \in {"idle", "failed", "cancelled"},
         rows'.s = "idle" => ~outside'.signal \/ ghost'.late \/ ghost.blind,
         v = "cancelled" => ghost.late \/ ghost.blind \/ t \in ghost.asked,
         outside'.queue \subseteq outside.queue,
         outside'.signal => outside.signal,
         ghost'.ran = ghost.ran, ghost'.asked = ghost.asked,
         ghost'.blind = ghost.blind, ghost'.again = ghost.again,
         ghost.late => ghost'.late,
         procs'.old = procs.old, procs'.call \in {0, procs.call},
         procs'.call # t,
         \A w \in Workers :
           /\ procs'.job[w] = procs.job[w] \/ procs'.job[w].pc = "idle"
           /\ procs'.job[w].pc = "started" => procs'.job[w].t # t
           /\ procs'.job[w].pc = "exec" /\ rows'.owner = w /\ rows'.live =>
                procs'.job[w].t # t,
         \/ rows'.owner = rows.owner /\ rows'.of = rows.of
              /\ rows'.live = rows.live
         \/ rows'.owner = NoOne
  PROVE  SessionInv'
<1> SessionTyped /\ SessionTyped'
  BY DEF SessionInv, SessionTyped
<1>1. /\ Len(rows'.turns) = Len(rows.turns) /\ Known' = Known
      /\ \A u \in Known :
           rows'.turns[u].st = IF u = t THEN v ELSE rows.turns[u].st
  <2>1. rows.turns \in Seq(TurnRows) /\ t \in 1 .. Len(rows.turns)
    BY DEF SessionTyped, SessionRows, Known
  <2>2. v \in Over \cup {"pending", "running"}
    OBVIOUS
  <2> QED BY <2>1, <2>2, TurnWritten DEF Known
<1>2. CS!ActiveTurns' = CS!ActiveTurns \ {t} /\ t \in CS!ActiveTurns
  BY <1>1, TurnsAre, TurnsWillBe DEF Over
<1>3. Named'
  BY <1>1, TurnsAre DEF SessionInv, Named
<1>4. TakenOnce'
  <2> SUFFICES ASSUME NEW w \in Workers, procs'.job[w].pc # "idle"
               PROVE  TakenBy(w, procs.job[w].t)'
    BY DEF TakenOnce, TakenBy, Going
  <2>1. /\ procs'.job[w] = procs.job[w] /\ procs.job[w].pc # "idle"
        /\ procs.job[w].t \in Known /\ procs.job[w].t # 0
    BY DEF SessionInv, Named, Known
  <2>4. rows'.owner = w => rows.owner = w /\ rows'.of = rows.of
                             /\ (rows'.live => rows.live)
    BY DEF SessionConstants, SessionTyped, SessionRows
  <2>2. TakenBy(w, procs.job[w].t)
    BY DEF SessionInv, TakenOnce
  <2>3. \A u \in Workers : procs'.job[u].pc \in Going =>
                             procs'.job[u] = procs.job[u]
    BY DEF Going
  <2> DEFINE a == procs.job[w].t
  <2>10. procs'.job[w].pc \in Going =>
           rows'.turns[a].st # "pending" /\ procs'.call # a
    BY <1>1, <2>1, <2>2, <2>3 DEF TakenBy, Over, Going
  <2>11. procs'.job[w].pc \in Going =>
           \A u \in Workers \ {w} :
             procs'.job[u].pc \in Going => procs'.job[u].t # a
    BY <2>1, <2>2, <2>3 DEF TakenBy, Going
  <2>12. procs'.job[w].pc = "started" =>
           rows'.turns[a].st = "running" /\ a \notin procs'.old
             /\ ghost'.ran[a] = 0
    BY <1>1, <2>1, <2>2, <2>3 DEF TakenBy, Going
  <2>13. procs'.job[w].pc = "exec" /\ rows'.owner = w /\ rows'.live =>
           rows'.turns[a].st = "running"
    BY <1>1, <2>1, <2>2, <2>4 DEF TakenBy
  <2>14. procs'.job[w].pc \in Going \cup {"leased"} /\ rows'.owner = w =>
           rows'.of = a
    BY <2>1, <2>2, <2>4 DEF TakenBy
  <2>15. procs'.job[w].t = a
    BY <2>1, <2>2, <2>3
  <2> QED BY <2>10, <2>11, <2>12, <2>13, <2>14, <2>15 DEF TakenBy
<1>5. CallRuns' /\ RanOnce'
  BY <1>1, <1>3, TurnsAre DEF SessionInv, CallRuns, RanOnce, Named, Over,
                              Known, CS!Turns
<1>6. ghost.blind \/ (CS!ActiveTurns = {t} /\ CS!ActiveTurns' = {})
  BY <1>2 DEF SessionInv, CS!SessionFollowsTurns
<1>7. CS!EndedOnce' /\ CS!SessionFollowsTurns' /\ SignalMeant'
  BY <1>2, <1>6 DEF SessionInv, CS!EndedOnce, CS!SessionFollowsTurns,
                    SignalMeant
<1>8. CS!CancelledWasAsked'
  BY <1>1, TurnsAre, TurnsWillBe DEF SessionInv, CS!CancelledWasAsked,
                                   CS!Status
<1> QED BY <1>3, <1>4, <1>5, <1>7, <1>8 DEF SessionInv

\* A turn begins: run at once, or queued.
LEMMA NewTurn ==
  ASSUME SessionConstants, SessionInv, NEW e \in TurnRows,
         rows.s \in {"none", "idle"}, rows'.s = "running",
         Len(rows.turns) < MaxTurns,
         rows'.turns = Append(rows.turns, e), e.st \in {"pending", "running"},
         rows' \in SessionRows, procs' \in SessionProcs,
         outside' \in [queue : SUBSET Nat, signal : BOOLEAN],
         ghost' \in SessionGhosts,
         rows'.owner = rows.owner, rows'.live = rows.live,
         rows'.of = rows.of, outside'.signal = outside.signal,
         outside'.queue \subseteq outside.queue \cup {Len(rows.turns) + 1},
         procs'.old = procs.old, procs'.job = procs.job,
         \/ procs'.call = procs.call
         \/ procs'.call = Len(rows.turns) + 1 /\ e.st = "running",
         ghost'.asked = ghost.asked, ghost'.late = ghost.late,
         ghost'.blind = ghost.blind, ghost'.again = ghost.again,
         \/ ghost'.ran = ghost.ran
         \/ /\ e.st = "running"
            /\ ghost'.ran = [ghost.ran EXCEPT ![Len(rows.turns) + 1] = @ + 1]
  PROVE  SessionInv'
<1> DEFINE t == Len(rows.turns) + 1
<1> SessionTyped /\ SessionTyped'
  BY DEF SessionInv, SessionTyped
<1>0. Len(rows.turns) \in Nat /\ t \notin Known /\ t # 0
  BY TurnsAre DEF Known
<1>1. /\ Len(rows'.turns) = t /\ Known' = Known \cup {t}
      /\ \A u \in Known : rows'.turns[u] = rows.turns[u]
      /\ rows'.turns[t] = e
  BY <1>0 DEF SessionTyped, SessionRows, Known
<1>2. CS!ActiveTurns' = CS!ActiveTurns \cup {t}
  BY <1>0, <1>1, TurnsAre, TurnsWillBe
<1>3. t \in CS!Turns
  BY <1>0 DEF CS!Turns, SessionConstants
<1>4. /\ \A u \in CS!Turns \ {t} : ghost'.ran[u] = ghost.ran[u]
      /\ ghost.ran[t] = 0
      /\ ghost'.ran[t] = 0 \/ (e.st = "running" /\ ghost'.ran[t] = 1)
  BY <1>0, <1>3 DEF SessionInv, RanOnce, SessionTyped, SessionGhosts
<1> HIDE DEF t
<1>5. Named'
  BY <1>0, <1>1, <1>3 DEF SessionInv, Named, t, SessionConstants
<1>6. TakenOnce'
  <2>1. \A w \in Workers :
          procs.job[w].pc # "idle" =>
            procs.job[w].t \in Known /\ procs.job[w].t # t
    BY <1>0 DEF SessionInv, Named
  <2>2. \A u \in Known : u \in CS!Turns
    BY <1>0 DEF SessionInv, Named, CS!Turns, Known, SessionConstants
  <2> SUFFICES ASSUME NEW w \in Workers, procs'.job[w].pc # "idle"
               PROVE  TakenBy(w, procs.job[w].t)'
    BY DEF TakenOnce, TakenBy, Going
  <2>3. TakenBy(w, procs.job[w].t)
    BY DEF SessionInv, TakenOnce
  <2> DEFINE a == procs.job[w].t
  <2>10. procs'.job[w].pc \in Going =>
           rows'.turns[a].st # "pending" /\ procs'.call # a
    BY <1>0, <1>1, <1>4, <2>1, <2>2, <2>3 DEF TakenBy, Going, t
  <2>11. procs'.job[w].pc \in Going =>
           \A u \in Workers \ {w} :
             procs'.job[u].pc \in Going => procs'.job[u].t # a
    BY <2>1, <2>2, <2>3 DEF TakenBy, Going
  <2>9. procs.job[w].pc # "idle" => a \in CS!Turns \ {t} /\ a \in Known
    BY <2>1, <2>2
  <2>12. procs'.job[w].pc = "started" =>
           rows'.turns[a].st = "running" /\ a \notin procs'.old
             /\ ghost'.ran[a] = 0
    BY <1>1, <1>4, <2>3, <2>9 DEF TakenBy
  <2>13. procs'.job[w].pc = "exec" /\ rows'.owner = w /\ rows'.live =>
           rows'.turns[a].st = "running"
    BY <1>0, <1>1, <1>4, <2>1, <2>2, <2>3 DEF TakenBy, Going, SessionConstants
  <2>14. procs'.job[w].pc \in Going \cup {"leased"} /\ rows'.owner = w =>
           rows'.of = a
    BY <1>0, <1>1, <1>4, <2>1, <2>2, <2>3 DEF TakenBy, Going, SessionConstants
  <2>15. procs'.job[w].t = a
    BY <2>1, <2>2, <2>3
  <2> QED BY <2>10, <2>11, <2>12, <2>13, <2>14, <2>15 DEF TakenBy
<1>7. CallRuns'
  BY <1>0, <1>1 DEF SessionInv, CallRuns, Named, t
<1>8. RanOnce'
  BY <1>0, <1>1, <1>4 DEF SessionInv, RanOnce, CS!Turns, t, Known
<1>9. ghost.blind \/ (CS!ActiveTurns = {} /\ CS!ActiveTurns' = {t})
  BY <1>2 DEF SessionInv, CS!SessionFollowsTurns
<1>10. CS!EndedOnce' /\ CS!SessionFollowsTurns' /\ SignalMeant'
  BY <1>2, <1>9 DEF SessionInv, CS!EndedOnce, CS!SessionFollowsTurns,
                    SignalMeant
<1>11. CS!CancelledWasAsked'
  BY <1>0, <1>1, TurnsAre, TurnsWillBe DEF SessionInv, CS!CancelledWasAsked,
                                         CS!Status
<1> QED BY <1>5, <1>6, <1>7, <1>8, <1>10, <1>11 DEF SessionInv

\* The turns stay as they are and whoever has taken one keeps it, or stops.
LEMMA TurnsStay ==
  ASSUME SessionConstants, SessionInv, rows'.turns = rows.turns,
         rows' \in SessionRows, procs' \in SessionProcs,
         outside' \in [queue : SUBSET Nat, signal : BOOLEAN],
         ghost' \in SessionGhosts,
         outside'.queue \subseteq Known,
         procs'.call \in {0, procs.call},
         \/ procs'.old = procs.old
         \/ \E t \in Known :
              /\ procs'.old = procs.old \cup {t}
              /\ rows.turns[t].st # "pending" /\ procs.call # t
              /\ \A w \in Workers : procs.job[w].t = t =>
                                      procs.job[w].pc = "exec",
         \A w \in Workers :
           \/ procs'.job[w] = procs.job[w] \/ procs'.job[w].pc = "idle"
           \/ procs'.job[w].pc = "acquire" /\ procs'.job[w].t \in Known
           \/ /\ procs.job[w].pc = "acquire" /\ procs'.job[w].pc = "leased"
              /\ procs'.job[w].t = procs.job[w].t
              /\ rows'.owner = w /\ rows'.of = procs.job[w].t,
         \/ rows'.owner = rows.owner /\ rows'.of = rows.of
              /\ (rows'.live => rows.live)
         \/ rows'.owner \in {NoOne, "run"}
         \/ rows'.owner \in Workers
              /\ procs'.job[rows'.owner].pc = "leased"
              /\ procs'.job[rows'.owner].t = rows'.of,
         ghost'.ran = ghost.ran, ghost'.again = ghost.again,
         ghost.asked \subseteq ghost'.asked, ghost.late => ghost'.late,
         ghost.blind => ghost'.blind,
         \/ rows'.s = rows.s
         \/ rows.s = "idle" /\ rows'.s \in Over
         \/ ghost'.blind,
         \/ outside'.signal => outside.signal
         \/ ghost'.late
         \/ CS!ActiveTurns # {} /\ CS!ActiveTurns \subseteq ghost'.asked
  PROVE  SessionInv'
<1> SessionTyped /\ SessionTyped'
  BY DEF SessionInv, SessionTyped
<1>1. Known' = Known /\ CS!ActiveTurns' = CS!ActiveTurns
  BY TurnsAre, TurnsWillBe DEF Known
<1>2. Named' /\ CallRuns'
  BY <1>1 DEF SessionInv, Named, CallRuns
<1>3. TakenOnce'
  <2> SUFFICES ASSUME NEW w \in Workers,
                      procs'.job[w].pc \in Going \cup {"leased"}
               PROVE  TakenBy(w, procs.job[w].t)'
    BY DEF TakenOnce, TakenBy, Going
  <2>1. TakenBy(w, procs.job[w].t)
    BY DEF SessionInv, TakenOnce
  <2>2. \A u \in Workers : procs'.job[u].pc \in Going =>
                             procs'.job[u] = procs.job[u]
    BY DEF Going
  <2>3. CASE procs'.job[w] = procs.job[w]
    <3> DEFINE a == procs.job[w].t
    <3>10. procs'.job[w].pc \in Going =>
             rows'.turns[a].st # "pending" /\ procs'.call # a
      <4>1. procs'.job[w].pc \in Going => procs.job[w].t # 0
        BY <2>3 DEF SessionInv, Named, Known, Going
      <4> QED BY <2>1, <2>3, <4>1 DEF TakenBy, Going
    <3>11. procs'.job[w].pc \in Going =>
             \A u \in Workers \ {w} :
               procs'.job[u].pc \in Going => procs'.job[u].t # a
      BY <2>1, <2>2, <2>3 DEF TakenBy, Going
    <3>12. procs'.job[w].pc = "started" =>
             rows'.turns[a].st = "running" /\ a \notin procs'.old
               /\ ghost'.ran[a] = 0
      BY <1>2, <2>1, <2>2, <2>3 DEF TakenBy, Going
    <3>13. procs'.job[w].pc = "exec" /\ rows'.owner = w /\ rows'.live =>
             rows'.turns[a].st = "running"
      BY <1>2, <2>1, <2>2, <2>3 DEF TakenBy, Going, SessionConstants
    <3>14. procs'.job[w].pc \in Going \cup {"leased"} /\ rows'.owner = w =>
             rows'.of = a
      BY <1>2, <2>1, <2>2, <2>3 DEF TakenBy, Going, SessionConstants
    <3>15. procs'.job[w].t = a
      BY <2>1, <2>2, <2>3
    <3> QED BY <3>10, <3>11, <3>12, <3>13, <3>14, <3>15 DEF TakenBy
  <2>4. CASE procs'.job[w].pc = "leased" /\ procs'.job[w] # procs.job[w]
    BY <2>4 DEF TakenBy, Going
  <2> QED BY <2>2, <2>3, <2>4
<1>4. RanOnce' /\ CS!EndedOnce'
  BY DEF SessionInv, RanOnce, CS!EndedOnce
<1>5. CS!SessionFollowsTurns' /\ SignalMeant'
  BY <1>1 DEF SessionInv, CS!SessionFollowsTurns, SignalMeant, Over,
              SessionTyped, SessionRows, SessionGhosts
<1>6. CS!CancelledWasAsked'
  BY DEF SessionInv, CS!CancelledWasAsked, CS!Status
<1> QED BY <1>2, <1>3, <1>4, <1>5, <1>6 DEF SessionInv

\* What a step of a job writes.
LEMMA JobWritten ==
  ASSUME procs \in SessionProcs, NEW w \in Workers, NEW e \in Jobs,
         procs' = [procs EXCEPT !.job[w] = e]
  PROVE  /\ procs' \in SessionProcs /\ procs'.call = procs.call
         /\ procs'.old = procs.old /\ procs'.job[w] = e
         /\ \A u \in Workers \ {w} : procs'.job[u] = procs.job[u]
BY DEF SessionProcs

LEMMA JobSteps ==
  ASSUME procs \in SessionProcs, NEW w \in Workers
  PROVE  /\ CS!JobOver(w) =>
              /\ procs' \in SessionProcs /\ procs'.call = procs.call
              /\ procs'.old = procs.old /\ procs'.job[w].pc = "idle"
              /\ \A u \in Workers \ {w} : procs'.job[u] = procs.job[u]
         /\ \A pc \in {"leased", "started", "exec"} :
              CS!JobGoes(w, pc) =>
                /\ procs' \in SessionProcs /\ procs'.call = procs.call
                /\ procs'.old = procs.old /\ procs'.job[w].pc = pc
                /\ procs'.job[w].t = procs.job[w].t
                /\ \A u \in Workers \ {w} : procs'.job[u] = procs.job[u]
<1>1. CS!IdleJob \in Jobs /\ CS!IdleJob.pc = "idle"
  BY DEF CS!IdleJob, Jobs
<1>2. ASSUME CS!JobOver(w)
      PROVE  /\ procs' \in SessionProcs /\ procs'.call = procs.call
             /\ procs'.old = procs.old /\ procs'.job[w].pc = "idle"
             /\ \A u \in Workers \ {w} : procs'.job[u] = procs.job[u]
  BY <1>1, <1>2, JobWritten DEF CS!JobOver
<1>3. ASSUME NEW pc \in {"leased", "started", "exec"}, CS!JobGoes(w, pc)
      PROVE  /\ procs' \in SessionProcs /\ procs'.call = procs.call
             /\ procs'.old = procs.old /\ procs'.job[w].pc = pc
             /\ procs'.job[w].t = procs.job[w].t
             /\ \A u \in Workers \ {w} : procs'.job[u] = procs.job[u]
  <2> DEFINE e == [procs.job[w] EXCEPT !.pc = pc]
  <2>1. e \in Jobs /\ e.pc = pc /\ e.t = procs.job[w].t
    BY DEF SessionProcs, Jobs
  <2>2. procs' = [procs EXCEPT !.job[w] = e]
    BY <1>3 DEF CS!JobGoes
  <2> HIDE DEF e
  <2> QED BY <2>1, <2>2, JobWritten
<1> QED BY <1>2, <1>3

\* A lease that is given back.
LEMMA ReleasedIs ==
  ASSUME NEW r \in SessionRows, NEW w
  PROVE  /\ CS!Released(w, r) \in SessionRows
         /\ CS!Released(w, r).s = r.s /\ CS!Released(w, r).turns = r.turns
         /\ CS!Released(w, r).marker = r.marker
         /\ \/ CS!Released(w, r) = r
            \/ CS!Released(w, r).owner = NoOne
BY DEF CS!Released, SessionRows

\* The agent run comes and goes.
LEMMA RunKept ==
  ASSUME SessionConstants, SessionInv,
         CS!RunStarts \/ CS!RunEnds \/ CS!RunDies
  PROVE  SessionInv'
<1> SessionTyped
  BY DEF SessionInv
<1>1. /\ rows' \in SessionRows /\ rows'.turns = rows.turns /\ rows'.s = rows.s
      /\ \/ rows' = rows
         \/ rows'.owner \in {NoOne, "run"}
  <2>1. CASE CS!RunEnds
    BY <2>1, ReleasedIs DEF CS!RunEnds, SessionTyped
  <2>2. CASE CS!RunStarts
    BY <2>2 DEF CS!RunStarts, SessionTyped, SessionRows
  <2>3. CASE CS!RunDies
    BY <2>3 DEF CS!RunDies, SessionTyped
  <2> QED BY <2>1, <2>2, <2>3
<1>2. /\ procs' \in SessionProcs /\ procs'.call \in {0, procs.call}
      /\ procs'.old = procs.old /\ procs'.job = procs.job
  <2>1. CASE CS!RunStarts \/ CS!RunEnds
    BY <2>1 DEF CS!RunStarts, CS!RunEnds, SessionTyped, SessionProcs
  <2>2. CASE CS!RunDies
    BY <2>2 DEF CS!RunDies, CS!NoCtl, SessionTyped, SessionProcs
  <2> QED BY <2>1, <2>2
<1>3. UNCHANGED <<outside, ghost>>
  BY DEF CS!RunStarts, CS!RunEnds, CS!RunDies
<1>4. outside.queue \subseteq Known
  BY DEF SessionInv, Named
<1> QED BY <1>1, <1>2, <1>3, <1>4, TurnsStay DEF SessionTyped

\* It asks for a turn.
LEMMA AskKept ==
  ASSUME SessionConstants, SessionInv, CS!RunTurn \/ CS!QueueTurn
  PROVE  SessionInv'
<1> SessionTyped
  BY DEF SessionInv
<1>0. /\ rows.turns \in Seq(TurnRows) /\ Len(rows.turns) \in Nat
      /\ outside.queue \subseteq Known
  BY TurnsAre DEF SessionInv, SessionTyped, SessionRows, Named
<1> DEFINE t == Len(rows.turns) + 1
           e1 == [st |-> "running", mode |-> "sync"]
           e2 == [st |-> "pending", mode |-> "async"]
<1>1. /\ e1 \in TurnRows /\ e2 \in TurnRows
      /\ e1.st = "running" /\ e2.st = "pending"
  BY DEF TurnRows
<1>2. /\ Append(rows.turns, e1) \in Seq(TurnRows)
      /\ Append(rows.turns, e2) \in Seq(TurnRows)
  BY <1>0, <1>1
<1> HIDE DEF e1, e2
<1>3. CASE CS!RunTurn /\ rows.s = "idle" /\ Len(rows.turns) >= Budget
             /\ rows' = [rows EXCEPT !.s = "failed"] /\ UNCHANGED <<procs, ghost>>
  <2>1. /\ rows' \in SessionRows /\ rows'.turns = rows.turns
        /\ rows'.s = "failed" /\ rows'.owner = rows.owner
        /\ rows'.of = rows.of /\ rows'.live = rows.live
        /\ UNCHANGED <<procs, outside, ghost>>
    BY <1>3 DEF CS!RunTurn, SessionTyped, SessionRows, Over
  <2> QED BY <1>0, <1>3, <2>1, TurnsStay DEF SessionTyped, Over
<1>4. CASE /\ CS!RunTurn /\ CS!MayBegin
           /\ rows' = [rows EXCEPT !.s = "running",
                                   !.turns = Append(@, e1)]
           /\ procs' = [procs EXCEPT !.call = t]
           /\ ghost' = [ghost EXCEPT !.ran[t] = @ + 1]
  <2>1. /\ rows' \in SessionRows /\ rows'.turns = Append(rows.turns, e1)
        /\ rows'.s = "running" /\ rows'.owner = rows.owner
        /\ rows'.of = rows.of /\ rows'.live = rows.live
    BY <1>2, <1>4 DEF SessionTyped, SessionRows
  <2>2. /\ procs' \in SessionProcs /\ procs'.call = t
        /\ procs'.old = procs.old /\ procs'.job = procs.job
    BY <1>0, <1>4 DEF SessionTyped, SessionProcs
  <2>3. UNCHANGED outside /\ rows.s \in {"none", "idle"}
          /\ Len(rows.turns) < MaxTurns
    BY <1>4 DEF CS!RunTurn, CS!MayBegin
  <2>4. /\ ghost' \in SessionGhosts /\ ghost'.asked = ghost.asked
        /\ ghost'.late = ghost.late /\ ghost'.blind = ghost.blind
        /\ ghost'.again = ghost.again
        /\ ghost'.ran = [ghost.ran EXCEPT ![t] = @ + 1]
    <3>1. t \in CS!Turns
      BY <1>0, <2>3 DEF CS!Turns, SessionConstants
    <3>2. [ghost.ran EXCEPT ![t] = @ + 1] \in [CS!Turns -> Nat]
      BY <3>1 DEF SessionTyped, SessionGhosts
    <3> HIDE DEF t
    <3> QED BY <1>4, <3>2 DEF SessionTyped, SessionGhosts
  <2> QED
    BY <1>0, <1>1, <2>1, <2>2, <2>3, <2>4, NewTurn DEF SessionTyped
<1>5. CASE CS!QueueTurn
  <2>1. PICK sent \in {{t}, {}} :
          /\ rows' = [rows EXCEPT !.s = "running", !.marker = t,
                                  !.turns = Append(@, e2)]
          /\ outside' = [outside EXCEPT !.queue = @ \cup sent]
          /\ UNCHANGED <<procs, ghost>>
          /\ rows.s \in {"none", "idle"} /\ Len(rows.turns) < MaxTurns
    BY <1>5 DEF CS!QueueTurn, CS!MayBegin, e2
  <2>2. /\ rows' \in SessionRows /\ rows'.turns = Append(rows.turns, e2)
        /\ rows'.s = "running" /\ rows'.owner = rows.owner
        /\ rows'.of = rows.of /\ rows'.live = rows.live
    <3>1. t \in Nat
      BY <1>0
    <3> HIDE DEF t
    <3> QED BY <1>2, <2>1, <3>1 DEF SessionTyped, SessionRows
  <2>3. /\ outside' \in [queue : SUBSET Nat, signal : BOOLEAN]
        /\ outside'.signal = outside.signal
        /\ outside'.queue \subseteq outside.queue \cup {t}
    BY <1>0, <2>1 DEF SessionTyped
  <2> QED
    BY <1>0, <1>1, <2>1, <2>2, <2>3, NewTurn DEF SessionTyped
<1> QED BY <1>3, <1>4, <1>5 DEF CS!RunTurn, e1

\* Cancellations, and time.
LEMMA ControlKept ==
  ASSUME SessionConstants, SessionInv,
         CS!ControlReads \/ CS!ControlSignals \/ CS!ControlCancels
           \/ CS!SignalExpires \/ CS!LeaseEnds
  PROVE  SessionInv'
<1> SessionTyped
  BY DEF SessionInv
<1>0. outside.queue \subseteq Known /\ CS!ActiveTurns \subseteq Nat
  BY TurnsAre DEF SessionInv, Named, Known
<1>1. CASE CS!ControlReads
  <2>1. /\ procs' \in SessionProcs /\ procs'.call = procs.call
        /\ procs'.old = procs.old /\ procs'.job = procs.job
        /\ UNCHANGED <<rows, outside, ghost>>
    BY <1>1 DEF CS!ControlReads, SessionTyped, SessionProcs
  <2> QED BY <1>0, <2>1, TurnsStay DEF SessionTyped
<1>2. CASE CS!ControlSignals
  <2>1. /\ procs' \in SessionProcs /\ procs'.call = procs.call
        /\ procs'.old = procs.old /\ procs'.job = procs.job /\ UNCHANGED rows
    BY <1>2 DEF CS!ControlSignals, CS!NoCtl, SessionTyped, SessionProcs
  <2>2. /\ outside' \in [queue : SUBSET Nat, signal : BOOLEAN]
        /\ outside'.queue = outside.queue
    BY <1>2 DEF CS!ControlSignals, SessionTyped
  <2>3. /\ ghost' \in SessionGhosts /\ ghost'.ran = ghost.ran
        /\ ghost'.again = ghost.again /\ ghost'.blind = ghost.blind
        /\ ghost'.asked = ghost.asked \cup CS!ActiveTurns
        /\ ghost'.late = (ghost.late \/ CS!ActiveTurns = {})
    BY <1>0, <1>2 DEF CS!ControlSignals, SessionTyped, SessionGhosts
  <2> QED BY <1>0, <2>1, <2>2, <2>3, TurnsStay DEF SessionTyped
<1>3. CASE CS!ControlCancels
  <2>1. /\ procs' \in SessionProcs /\ procs'.call = procs.call
        /\ procs'.old = procs.old /\ procs'.job = procs.job
        /\ UNCHANGED outside
    BY <1>3 DEF CS!ControlCancels, CS!NoCtl, SessionTyped, SessionProcs
  <2>2. /\ rows' \in SessionRows /\ rows'.turns = rows.turns
        /\ rows'.s = "cancelled" /\ rows'.owner = rows.owner
        /\ rows'.of = rows.of /\ rows'.live = rows.live
    BY <1>3 DEF CS!ControlCancels, SessionTyped, SessionRows, Over
  <2>3. /\ ghost' \in SessionGhosts /\ ghost'.ran = ghost.ran
        /\ ghost'.again = ghost.again /\ ghost'.asked = ghost.asked
        /\ ghost'.late = ghost.late
        /\ ghost'.blind = (ghost.blind \/ rows.s # "idle")
    BY <1>3 DEF CS!ControlCancels, SessionTyped, SessionGhosts
  <2> QED BY <1>0, <2>1, <2>2, <2>3, TurnsStay DEF SessionTyped, Over
<1>4. CASE CS!SignalExpires
  <2>1. /\ outside' \in [queue : SUBSET Nat, signal : BOOLEAN]
        /\ outside'.queue = outside.queue /\ ~outside'.signal
        /\ UNCHANGED <<rows, procs, ghost>>
    BY <1>4 DEF CS!SignalExpires, SessionTyped
  <2> QED BY <1>0, <2>1, TurnsStay DEF SessionTyped
<1>5. CASE CS!LeaseEnds
  <2>1. /\ rows' \in SessionRows /\ rows'.turns = rows.turns
        /\ rows'.s = rows.s /\ rows'.owner = rows.owner
        /\ rows'.of = rows.of /\ ~rows'.live
        /\ UNCHANGED <<procs, outside, ghost>>
    BY <1>5 DEF CS!LeaseEnds, SessionTyped, SessionRows
  <2> QED BY <1>0, <2>1, TurnsStay DEF SessionTyped
<1> QED BY <1>1, <1>2, <1>3, <1>4, <1>5

\* A row with a turn that has ended.
EndRow(r, t, v, ss, m) ==
  [r EXCEPT !.turns[t].st = v, !.s = ss, !.marker = m]

LEMMA EndWritten ==
  ASSUME NEW r \in SessionRows, NEW t \in 1 .. Len(r.turns), NEW v \in Over,
         NEW ss \in Over \cup {"none", "idle", "running"}, NEW m \in Nat
  PROVE  /\ EndRow(r, t, v, ss, m) \in SessionRows
         /\ EndRow(r, t, v, ss, m).s = ss
         /\ EndRow(r, t, v, ss, m).owner = r.owner
         /\ EndRow(r, t, v, ss, m).of = r.of
         /\ EndRow(r, t, v, ss, m).live = r.live
         /\ EndRow(r, t, v, ss, m).turns = Marked(r.turns, t, v)
<1> DEFINE seq == Marked(r.turns, t, v)
<1>1. seq \in Seq(TurnRows)
  BY TurnWritten DEF SessionRows
<1>2. EndRow(r, t, v, ss, m) =
        [r EXCEPT !.turns = seq, !.s = ss, !.marker = m]
  BY DEF SessionRows, EndRow, Marked
<1> HIDE DEF seq
<1>3. /\ EndRow(r, t, v, ss, m) \in SessionRows
      /\ EndRow(r, t, v, ss, m).s = ss
      /\ EndRow(r, t, v, ss, m).owner = r.owner
      /\ EndRow(r, t, v, ss, m).of = r.of
      /\ EndRow(r, t, v, ss, m).live = r.live
      /\ EndRow(r, t, v, ss, m).turns = seq
  BY <1>1, <1>2 DEF SessionRows
<1> QED BY <1>3 DEF seq

\* The command of a turn comes to an end while the turn is running.
LEMMA TailKept ==
  ASSUME SessionConstants, SessionInv, NEW t \in Known,
         rows.turns[t].st = "running", NEW r \in SessionRows,
         r.s = rows.s, r.turns = rows.turns, r.marker = rows.marker,
         r = rows \/ r.owner = NoOne,
         CS!TurnTail(t, r), procs' \in SessionProcs,
         procs'.old = procs.old, procs'.call \in {0, procs.call},
         procs'.call # t,
         \A w \in Workers :
           /\ procs'.job[w] = procs.job[w] \/ procs'.job[w].pc = "idle"
           /\ procs'.job[w].pc \in Going => procs'.job[w].t # t
  PROVE  SessionInv'
<1> SessionTyped
  BY DEF SessionInv
<1>1. PICK cancelled \in {outside.signal, FALSE},
           keeps \in {outside.signal, FALSE}, o \in CS!Outcomes :
        LET st == IF cancelled THEN "cancelled" ELSE o
            ss == IF st = "completed" THEN "idle" ELSE st
        IN /\ rows' = [r EXCEPT !.turns[t].st = st, !.s = ss, !.marker =
                         IF ~cancelled /\ @ = t THEN 0 ELSE @]
           /\ ghost' = [ghost EXCEPT !.again =
                          @ \/ CS!Status(t) \notin CS!Active,
                          !.late = @ \/ keeps]
           /\ outside' = [outside EXCEPT !.signal = keeps]
  BY DEF CS!TurnTail
<1> DEFINE v == IF cancelled THEN "cancelled" ELSE o
           ss == IF v = "completed" THEN "idle" ELSE v
           m == IF ~cancelled /\ r.marker = t THEN 0 ELSE r.marker
<1>2. /\ v \in Over /\ ss \in {"idle", "failed", "cancelled"} /\ m \in Nat
      /\ cancelled \in BOOLEAN /\ keeps \in BOOLEAN
      /\ v = "cancelled" => cancelled
  BY DEF CS!Outcomes, Over, SessionTyped, SessionRows
<1>3. rows' = EndRow(r, t, v, ss, m)
  BY <1>1 DEF EndRow
<1> HIDE DEF v, ss, m
<1>4. /\ rows' \in SessionRows /\ rows'.s = ss /\ rows'.owner = r.owner
      /\ rows'.of = r.of /\ rows'.live = r.live
      /\ rows'.turns = Marked(rows.turns, t, v)
  <2>1. /\ t \in 1 .. Len(r.turns) /\ v \in Over /\ m \in Nat
        /\ ss \in Over \cup {"none", "idle", "running"}
    BY <1>2 DEF Known, Over
  <2>2. /\ EndRow(r, t, v, ss, m) \in SessionRows
        /\ EndRow(r, t, v, ss, m).s = ss
        /\ EndRow(r, t, v, ss, m).owner = r.owner
        /\ EndRow(r, t, v, ss, m).of = r.of
        /\ EndRow(r, t, v, ss, m).live = r.live
        /\ EndRow(r, t, v, ss, m).turns = Marked(r.turns, t, v)
    BY <2>1, EndWritten
  <2> QED BY <1>3, <2>2
<1>5. /\ ghost' \in SessionGhosts /\ ghost'.ran = ghost.ran
      /\ ghost'.asked = ghost.asked /\ ghost'.blind = ghost.blind
      /\ ghost'.again = ghost.again /\ ghost'.late = (ghost.late \/ keeps)
  <2>1. CS!Status(t) \in CS!Active
    BY DEF CS!Status, CS!Active
  <2>2. (ghost.again \/ CS!Status(t) \notin CS!Active) = ghost.again
    BY <2>1 DEF SessionTyped, SessionGhosts
  <2>3. ghost' = [ghost EXCEPT !.again = ghost.again,
                               !.late = ghost.late \/ keeps]
    BY <1>1, <2>2
  <2> QED BY <1>2, <2>3 DEF SessionTyped, SessionGhosts
<1>6. /\ outside' \in [queue : SUBSET Nat, signal : BOOLEAN]
      /\ outside'.queue = outside.queue /\ outside'.signal = keeps
      /\ keeps => outside.signal
      /\ cancelled => outside.signal
  BY <1>1, <1>2 DEF SessionTyped
<1>7. v = "cancelled" => ghost.late \/ ghost.blind \/ t \in ghost.asked
  BY <1>2, <1>6, TurnsAre DEF SessionInv, SignalMeant
<1>8. \/ rows'.owner = rows.owner /\ rows'.of = rows.of
           /\ rows'.live = rows.live
      \/ rows'.owner = NoOne
  BY <1>4
<1>9. /\ ghost.blind \/ rows'.s \in {"idle", "failed", "cancelled"}
      /\ rows'.s = "idle" => ~outside'.signal \/ ghost'.late
      /\ ghost.late => ghost'.late
      /\ outside'.signal => outside.signal
  BY <1>2, <1>4, <1>5, <1>6
<1>10. \A w \in Workers :
         /\ procs'.job[w].pc = "started" => procs'.job[w].t # t
         /\ procs'.job[w].pc = "exec" => procs'.job[w].t # t
  BY DEF Going
<1> QED
  BY <1>2, <1>4, <1>5, <1>6, <1>7, <1>8, <1>9, <1>10, TurnEnds

LEMMA ReturnKept ==
  ASSUME SessionConstants, SessionInv, CS!TurnReturns PROVE SessionInv'
<1> SessionTyped
  BY DEF SessionInv
<1>1. /\ procs.call # 0 /\ CS!TurnTail(procs.call, rows)
      /\ procs' = [procs EXCEPT !.call = 0]
  BY DEF CS!TurnReturns
<1>2. procs.call \in Known /\ rows.turns[procs.call].st = "running"
  BY <1>1 DEF SessionInv, Named, CallRuns
<1>3. /\ procs' \in SessionProcs /\ procs'.old = procs.old
      /\ procs'.call = 0 /\ procs'.job = procs.job
  BY <1>1 DEF SessionTyped, SessionProcs
<1>4. \A w \in Workers :
        procs.job[w].pc \in Going => procs.job[w].t # procs.call
  BY DEF SessionInv, TakenOnce, TakenBy
<1>5. rows \in SessionRows
  BY DEF SessionTyped
<1> QED BY <1>1, <1>2, <1>3, <1>4, <1>5, TailKept

\* A job whose command is at its end writes the result under its lease.
LEMMA FinishKept ==
  ASSUME SessionConstants, SessionInv, NEW w \in Workers, CS!Finish(w)
  PROVE  SessionInv'
<1> SessionTyped
  BY DEF SessionInv
<1> DEFINE t == procs.job[w].t
<1>1. /\ procs.job[w].pc = "exec" /\ rows.owner = w /\ rows.live
      /\ CS!TurnTail(t, CS!Released(w, rows)) /\ CS!JobOver(w)
  BY DEF CS!Finish, CS!Job, CS!OwnsTurn
<1>2. TakenBy(w, t) /\ t \in Known
  BY <1>1 DEF SessionInv, TakenOnce, Named
<1>3. /\ rows.turns[t].st = "running" /\ procs.call # t
      /\ \A u \in Workers \ {w} :
           procs.job[u].pc \in Going => procs.job[u].t # t
  BY <1>1, <1>2 DEF TakenBy, Going
<1>4. /\ procs' \in SessionProcs /\ procs'.call = procs.call
      /\ procs'.old = procs.old /\ procs'.job[w].pc = "idle"
      /\ \A u \in Workers \ {w} : procs'.job[u] = procs.job[u]
  BY <1>1, JobSteps DEF SessionTyped
<1> DEFINE r == CS!Released(w, rows)
<1>5. /\ r \in SessionRows /\ r.s = rows.s /\ r.turns = rows.turns
      /\ r.marker = rows.marker /\ (r = rows \/ r.owner = NoOne)
  BY ReleasedIs DEF SessionTyped
<1>6. \A u \in Workers :
        /\ procs'.job[u] = procs.job[u] \/ procs'.job[u].pc = "idle"
        /\ procs'.job[u].pc \in Going => procs'.job[u].t # t
  BY <1>3, <1>4 DEF Going
<1> HIDE DEF r, t
<1> QED BY <1>1, <1>2, <1>3, <1>4, <1>5, <1>6, TailKept DEF r

\* Jobs that do not touch a turn, or find that they need not.
LEMMA JobStays ==
  ASSUME SessionConstants, SessionInv, NEW w \in Workers,
         CS!AcquireLease(w) \/ CS!Busy(w) \/ CS!LostOwnership(w)
           \/ CS!Crash(w)
  PROVE  SessionInv'
<1> SessionTyped
  BY DEF SessionInv
<1>0. outside.queue \subseteq Known
  BY DEF SessionInv, Named
<1>1. CASE CS!AcquireLease(w)
  <2>1. /\ procs.job[w].pc = "acquire" /\ CS!JobGoes(w, "leased")
        /\ rows' = [rows EXCEPT !.owner = w, !.live = TRUE,
                                !.of = procs.job[w].t]
        /\ UNCHANGED <<outside, ghost>>
    BY <1>1 DEF CS!AcquireLease, CS!Job
  <2>2. procs.job[w].t \in Nat
    BY DEF SessionTyped, SessionProcs, Jobs
  <2>3. /\ rows' \in SessionRows /\ rows'.turns = rows.turns
        /\ rows'.s = rows.s /\ rows'.owner = w
        /\ rows'.of = procs.job[w].t
    BY <2>1, <2>2 DEF SessionTyped, SessionRows
  <2>4. /\ procs' \in SessionProcs /\ procs'.call = procs.call
        /\ procs'.old = procs.old /\ procs'.job[w].pc = "leased"
        /\ procs'.job[w].t = procs.job[w].t
        /\ \A u \in Workers \ {w} : procs'.job[u] = procs.job[u]
    BY <2>1, JobSteps DEF SessionTyped
  <2>5. \A u \in Workers :
          \/ procs'.job[u] = procs.job[u]
          \/ /\ procs.job[u].pc = "acquire" /\ procs'.job[u].pc = "leased"
             /\ procs'.job[u].t = procs.job[u].t
             /\ rows'.owner = u /\ rows'.of = procs.job[u].t
    BY <2>1, <2>3, <2>4
  <2> QED BY <1>0, <2>1, <2>3, <2>4, <2>5, TurnsStay DEF SessionTyped
<1>2. CASE CS!Busy(w) \/ CS!LostOwnership(w) \/ CS!Crash(w)
  <2>1. /\ CS!JobOver(w) /\ UNCHANGED <<outside, ghost>>
        /\ rows' = rows \/ rows' = CS!Released(w, rows)
    BY <1>2 DEF CS!Busy, CS!LostOwnership, CS!Crash
  <2>2. /\ rows' \in SessionRows /\ rows'.turns = rows.turns
        /\ rows'.s = rows.s /\ (rows' = rows \/ rows'.owner = NoOne)
    BY <2>1, ReleasedIs DEF SessionTyped
  <2>3. /\ procs' \in SessionProcs /\ procs'.call = procs.call
        /\ procs'.old = procs.old /\ procs'.job[w].pc = "idle"
        /\ \A u \in Workers \ {w} : procs'.job[u] = procs.job[u]
    BY <2>1, JobSteps DEF SessionTyped
  <2>4. \A u \in Workers :
          procs'.job[u] = procs.job[u] \/ procs'.job[u].pc = "idle"
    BY <2>3
  <2> QED BY <1>0, <2>1, <2>2, <2>3, <2>4, TurnsStay DEF SessionTyped
<1> QED BY <1>1, <1>2

\* A turn that is pending or running ends as failed or cancelled, by whoever.
LEMMA BrokenOff ==
  ASSUME SessionConstants, SessionInv, NEW t \in Known,
         NEW v \in {"failed", "cancelled"},
         rows.turns[t].st \in {"pending", "running"},
         NEW ss \in Over \cup {"none", "idle", "running"},
         ghost.blind \/ ss \in {"failed", "cancelled"},
         v = "cancelled" => ghost.late \/ ghost.blind \/ t \in ghost.asked,
         NEW m \in Nat,
         \/ rows' = EndRow(rows, t, v, ss, m)
         \/ \E w : rows' = CS!Released(w, EndRow(rows, t, v, ss, m)),
         procs' \in SessionProcs,
         procs'.old = procs.old, procs'.call = procs.call, procs.call # t,
         \A w \in Workers :
           /\ procs'.job[w] = procs.job[w] \/ procs'.job[w].pc = "idle"
           /\ procs'.job[w].pc = "started" => procs'.job[w].t # t
           /\ procs'.job[w].pc = "exec" /\ rows.owner = w /\ rows.live =>
                procs'.job[w].t # t,
         outside' \in [queue : SUBSET Nat, signal : BOOLEAN],
         outside'.queue \subseteq outside.queue,
         outside'.signal => outside.signal,
         ghost' = ghost
  PROVE  SessionInv'
<1> SessionTyped
  BY DEF SessionInv
<1>1. v \in Over
  BY DEF Over
<1> DEFINE q == EndRow(rows, t, v, ss, m)
<1>2. /\ q \in SessionRows /\ q.s = ss /\ q.owner = rows.owner
      /\ q.of = rows.of /\ q.live = rows.live
      /\ q.turns = Marked(rows.turns, t, v)
  <2>1. rows \in SessionRows /\ t \in 1 .. Len(rows.turns)
    BY DEF SessionTyped, Known
  <2> QED BY <1>1, <2>1, EndWritten
<1> HIDE DEF q
<1>3. /\ rows' \in SessionRows /\ rows'.s = ss
      /\ rows'.turns = Marked(rows.turns, t, v)
      /\ \/ rows'.owner = rows.owner /\ rows'.of = rows.of
              /\ rows'.live = rows.live
         \/ rows'.owner = NoOne
  <2>1. CASE rows' = q
    BY <1>2, <2>1
  <2>2. CASE \E w : rows' = CS!Released(w, q)
    <3>1. PICK w : rows' = CS!Released(w, q)
      BY <2>2
    <3>2. /\ rows' \in SessionRows /\ rows'.s = q.s
          /\ rows'.turns = q.turns /\ (rows' = q \/ rows'.owner = NoOne)
      BY <1>2, <3>1, ReleasedIs
    <3> QED BY <1>2, <3>2
  <2> QED BY <2>1, <2>2 DEF q
<1>4. \A w \in Workers :
        procs'.job[w].pc = "exec" /\ rows'.owner = w /\ rows'.live =>
          procs'.job[w].t # t
  BY <1>3 DEF SessionConstants, SessionTyped, SessionRows
<1> QED
  BY <1>1, <1>3, <1>4, TurnEnds DEF SessionTyped

\* A job is taken from the queue.
LEMMA TakeKept ==
  ASSUME SessionConstants, SessionInv, NEW w \in Workers, CS!TakeJob(w)
  PROVE  SessionInv'
<1> SessionTyped
  BY DEF SessionInv
<1>1. PICK t \in outside.queue :
        /\ CS!Job(w) = CS!IdleJob
        /\ outside' = [outside EXCEPT !.queue = @ \ {t}]
        /\ CASE CS!Status(t) # "pending" -> UNCHANGED <<rows, procs, ghost>>
             [] CS!Status(t) = "pending" /\ rows.s \in CS!SessionTerminal ->
                  CS!EndsTurn(t, "cancelled", rows.s, TRUE)
                    /\ UNCHANGED procs
             [] OTHER -> /\ procs' = [procs EXCEPT !.job[w] =
                                        [pc |-> "acquire", t |-> t]]
                         /\ UNCHANGED <<rows, ghost>>
  BY DEF CS!TakeJob
<1>2. /\ t \in Known /\ t \in Nat /\ procs.job[w].pc = "idle"
      /\ outside.queue \subseteq Known
  BY <1>1 DEF SessionInv, Named, Known, CS!Job, CS!IdleJob
<1>3. /\ outside' \in [queue : SUBSET Nat, signal : BOOLEAN]
      /\ outside'.queue \subseteq outside.queue
      /\ outside'.signal = outside.signal
  BY <1>1 DEF SessionTyped
<1>4. CASE UNCHANGED <<rows, procs, ghost>>
  BY <1>2, <1>3, <1>4, TurnsStay DEF SessionTyped
<1>5. CASE /\ CS!Status(t) = "pending" /\ rows.s \in CS!SessionTerminal
           /\ CS!EndsTurn(t, "cancelled", rows.s, TRUE) /\ UNCHANGED procs
  <2> DEFINE m == IF TRUE /\ rows.marker = t THEN 0 ELSE rows.marker
  <2>1. /\ rows' = EndRow(rows, t, "cancelled", rows.s, m)
        /\ ghost' = [ghost EXCEPT !.again =
                       @ \/ CS!Status(t) \notin CS!Active]
    BY <1>5 DEF CS!EndsTurn, EndRow
  <2>2. ghost' = ghost
    BY <1>5, <2>1 DEF CS!Active, SessionTyped, SessionGhosts
  <2>3. rows.turns[t].st = "pending" /\ m \in Nat
    BY <1>5 DEF CS!Status, SessionTyped, SessionRows
  <2>4. t \in CS!ActiveTurns /\ ghost.blind
    BY <1>2, <1>5, <2>3, TurnsAre DEF SessionInv, CS!SessionFollowsTurns,
                                      CS!SessionTerminal
  <2>5. /\ procs.call # t
        /\ \A u \in Workers : procs.job[u].pc \in Going => procs.job[u].t # t
    <3>1. t # 0
      BY <1>2 DEF Known
    <3> QED BY <2>3, <3>1 DEF SessionInv, CallRuns, TakenOnce, TakenBy
  <2>6. rows.s \in Over
    BY <1>5 DEF CS!SessionTerminal, Over
  <2> HIDE DEF m
  <2> QED
    BY <1>2, <1>3, <1>5, <2>1, <2>2, <2>3, <2>4, <2>5, <2>6, BrokenOff
    DEF SessionTyped, Going, Over
<1>6. CASE /\ procs' = [procs EXCEPT !.job[w] = [pc |-> "acquire", t |-> t]]
           /\ UNCHANGED <<rows, ghost>>
  <2> DEFINE e == [pc |-> "acquire", t |-> t]
  <2>1. e \in Jobs /\ e.pc = "acquire" /\ e.t = t
    BY <1>2 DEF Jobs
  <2> HIDE DEF e
  <2>2. procs' = [procs EXCEPT !.job[w] = e]
    BY <1>6 DEF e
  <2>3. /\ procs' \in SessionProcs /\ procs'.call = procs.call
        /\ procs'.old = procs.old /\ procs'.job[w] = e
        /\ \A u \in Workers \ {w} : procs'.job[u] = procs.job[u]
    BY <2>1, <2>2, JobWritten DEF SessionTyped
  <2>4. \A u \in Workers :
          \/ procs'.job[u] = procs.job[u]
          \/ procs'.job[u].pc = "acquire" /\ procs'.job[u].t \in Known
    BY <1>2, <2>1, <2>3
  <2> QED BY <1>2, <1>3, <1>6, <2>3, <2>4, TurnsStay DEF SessionTyped
<1> QED BY <1>1, <1>4, <1>5, <1>6

\* A pending turn is taken by a job that holds the lease.
LEMMA StartKept ==
  ASSUME SessionConstants, SessionInv, NEW w \in Workers,
         procs.job[w].pc = "leased",
         rows.turns[procs.job[w].t].st = "pending",
         rows' = [rows EXCEPT !.turns[procs.job[w].t].st = "running"],
         CS!JobGoes(w, "started"), UNCHANGED <<outside, ghost>>
  PROVE  SessionInv'
<1> DEFINE t == procs.job[w].t
<1> SessionTyped
  BY DEF SessionInv
<1>1. t \in Known /\ t # 0 /\ t \in CS!Turns
  BY TurnsAre DEF SessionInv, Named, Known, CS!Turns, SessionConstants
<1>2. /\ rows.turns \in Seq(TurnRows) /\ t \in 1 .. Len(rows.turns)
      /\ "running" \in Over \cup {"pending", "running"}
  BY <1>1 DEF SessionTyped, SessionRows, Known
<1> DEFINE seq == Marked(rows.turns, t, "running")
<1>3. rows' = [rows EXCEPT !.turns = seq]
  BY DEF Marked
<1>4. /\ seq \in Seq(TurnRows) /\ Len(seq) = Len(rows.turns)
      /\ \A u \in 1 .. Len(rows.turns) :
           seq[u].st = IF u = t THEN "running" ELSE rows.turns[u].st
  BY <1>2, TurnWritten
<1> HIDE DEF seq, t
<1>5. /\ rows' \in SessionRows /\ rows'.turns = seq /\ rows'.s = rows.s
      /\ rows'.owner = rows.owner /\ rows'.live = rows.live
      /\ rows'.of = rows.of
  BY <1>3, <1>4 DEF SessionTyped, SessionRows
<1>6. /\ procs' \in SessionProcs /\ procs'.call = procs.call
      /\ procs'.old = procs.old /\ procs'.job[w].pc = "started"
      /\ procs'.job[w].t = t
      /\ \A u \in Workers \ {w} : procs'.job[u] = procs.job[u]
  BY JobSteps DEF SessionTyped, t
<1>7. SessionTyped'
  BY <1>5, <1>6 DEF SessionTyped
<1>8. /\ Known' = Known
      /\ \A u \in Known :
           rows'.turns[u].st = IF u = t THEN "running" ELSE rows.turns[u].st
  BY <1>4, <1>5 DEF Known
<1>9. CS!ActiveTurns' = CS!ActiveTurns
  <2>1. rows.turns[t].st = "pending"
    BY DEF t
  <2>2. CS!ActiveTurns =
          {u \in Known : rows.turns[u].st \in {"pending", "running"}}
    BY TurnsAre
  <2>3. CS!ActiveTurns' =
          {u \in Known : rows'.turns[u].st \in {"pending", "running"}}
    BY <1>7, <1>8, TurnsWillBe
  <2>4. \A u \in Known : rows'.turns[u].st \in {"pending", "running"}
                           <=> rows.turns[u].st \in {"pending", "running"}
    BY <1>8, <2>1
  <2> QED BY <2>2, <2>3, <2>4
<1>10. Named'
  BY <1>1, <1>4, <1>5, <1>6, <1>8 DEF SessionInv, Named
<1>11. /\ procs.call # t /\ t \notin procs.old /\ ghost.ran[t] = 0
       /\ \A u \in Workers : procs.job[u].pc \in Going => procs.job[u].t # t
  <2>1. rows.turns[t].st = "pending" /\ t <= Len(rows.turns)
    BY <1>2 DEF t
  <2> QED
    BY <1>1, <2>1 DEF SessionInv, CallRuns, RanOnce, TakenOnce, TakenBy
<1>12. TakenOnce'
  <2>1. ASSUME NEW u \in Workers, u # w
        PROVE  TakenBy(u, procs.job[u].t)'
    <3> DEFINE a == procs.job[u].t
    <3>1. TakenBy(u, a)
      BY DEF SessionInv, TakenOnce
    <3>2. procs'.job[u] = procs.job[u] /\ (procs.job[u].pc # "idle" => a \in Known)
      BY <1>6, <2>1 DEF SessionInv, Named
    <3>3. procs.job[u].pc \in Going => a # t /\ rows'.turns[a].st = rows.turns[a].st
      BY <1>8, <1>11, <3>2 DEF Going
    <3>4. \A x \in Workers \ {u} :
            x = w \/ procs'.job[x] = procs.job[x]
      BY <1>6
    <3>5. procs.job[u].pc \in Going =>
            \A x \in Workers \ {u} :
              procs'.job[x].pc \in Going => procs'.job[x].t # a
      BY <1>6, <3>1, <3>3, <3>4 DEF TakenBy
    <3> QED BY <1>5, <1>6, <3>1, <3>2, <3>3, <3>5 DEF TakenBy, Going
  <2>2. TakenBy(w, procs.job[w].t)'
    <3>1. rows'.owner = w => rows'.of = t
      BY <1>5 DEF SessionInv, TakenOnce, TakenBy, t
    <3>2. \A x \in Workers \ {w} :
            procs'.job[x].pc \in Going => procs'.job[x].t # t
      BY <1>6, <1>11
    <3>3. rows'.turns[t].st = "running"
      BY <1>1, <1>8
    <3> QED BY <1>6, <1>11, <3>1, <3>2, <3>3 DEF TakenBy
  <2> QED BY <2>1, <2>2 DEF TakenOnce
<1>13. CallRuns'
  BY <1>6, <1>8, <1>11 DEF SessionInv, CallRuns, Named
<1>14. RanOnce'
  BY <1>2, <1>4, <1>5, <1>8, TurnsAre DEF SessionInv, RanOnce, Known, CS!Turns
<1>15. CS!EndedOnce' /\ CS!SessionFollowsTurns' /\ SignalMeant'
  BY <1>5, <1>9 DEF SessionInv, CS!EndedOnce, CS!SessionFollowsTurns,
                    SignalMeant
<1>16. CS!CancelledWasAsked'
  BY <1>7, <1>8, TurnsAre, TurnsWillBe
  DEF SessionInv, CS!CancelledWasAsked, CS!Status
<1> QED
  BY <1>7, <1>10, <1>12, <1>13, <1>14, <1>15, <1>16 DEF SessionInv

\* Its command is started.
LEMMA ExecuteKept ==
  ASSUME SessionConstants, SessionInv, NEW w \in Workers, CS!Execute(w)
  PROVE  SessionInv'
<1> DEFINE t == procs.job[w].t
<1> SessionTyped
  BY DEF SessionInv
<1>1. /\ procs.job[w].pc = "started" /\ CS!JobGoes(w, "exec")
      /\ ghost' = [ghost EXCEPT !.ran[t] = @ + 1]
      /\ UNCHANGED <<rows, outside>>
  BY DEF CS!Execute, CS!Job
<1>2. t \in Known /\ t \in CS!Turns
  BY <1>1, TurnsAre DEF SessionInv, Named, Known, CS!Turns, SessionConstants
<1>3. TakenBy(w, t) /\ ghost.ran[t] = 0 /\ rows.turns[t].st = "running"
  BY <1>1 DEF SessionInv, TakenOnce, TakenBy
<1>4. /\ ghost' \in SessionGhosts /\ ghost'.ran[t] = 1
      /\ \A u \in CS!Turns \ {t} : ghost'.ran[u] = ghost.ran[u]
      /\ ghost'.again = ghost.again /\ ghost'.asked = ghost.asked
      /\ ghost'.late = ghost.late /\ ghost'.blind = ghost.blind
  <2> HIDE DEF t
  <2>1. [ghost.ran EXCEPT ![t] = @ + 1] \in [CS!Turns -> Nat]
    BY <1>2, <1>3 DEF SessionTyped, SessionGhosts
  <2> QED BY <1>1, <1>2, <1>3, <2>1 DEF SessionTyped, SessionGhosts
<1>5. /\ procs' \in SessionProcs /\ procs'.call = procs.call
      /\ procs'.old = procs.old /\ procs'.job[w].pc = "exec"
      /\ procs'.job[w].t = t
      /\ \A u \in Workers \ {w} : procs'.job[u] = procs.job[u]
  BY <1>1, JobSteps DEF SessionTyped
<1> HIDE DEF t
<1>6. SessionTyped' /\ Known' = Known /\ CS!ActiveTurns' = CS!ActiveTurns
  BY <1>1, <1>4, <1>5 DEF SessionTyped, Known, CS!ActiveTurns, CS!Status
<1>7. Named' /\ CallRuns'
  BY <1>1, <1>2, <1>5, <1>6 DEF SessionInv, Named, CallRuns
<1>8. TakenOnce'
  <2>1. ASSUME NEW u \in Workers, u # w
        PROVE  TakenBy(u, procs.job[u].t)'
    <3> DEFINE a == procs.job[u].t
    <3>1. TakenBy(u, a)
      BY DEF SessionInv, TakenOnce
    <3>2. procs'.job[u] = procs.job[u]
            /\ (procs.job[u].pc # "idle" => a \in CS!Turns)
      BY <1>5, <2>1, TurnsAre DEF SessionInv, Named, Known, CS!Turns,
                                  SessionConstants
    <3>3. procs.job[u].pc \in Going => a # t
      BY <1>1, <2>1, <3>1 DEF TakenBy, Going, t
    <3>4. \A x \in Workers : procs'.job[x].pc \in Going =>
            procs'.job[x].t = procs.job[x].t /\ procs.job[x].pc \in Going
      BY <1>1, <1>5 DEF Going, t
    <3>5. procs.job[u].pc = "started" => ghost'.ran[a] = ghost.ran[a]
      BY <1>4, <3>2, <3>3 DEF Going
    <3> QED BY <1>1, <1>5, <3>1, <3>2, <3>4, <3>5 DEF TakenBy, Going
  <2>2. TakenBy(w, procs.job[w].t)'
    <3>1. \A x \in Workers \ {w} :
            procs'.job[x].pc \in Going => procs'.job[x].t # t
      BY <1>1, <1>3, <1>5 DEF TakenBy, Going
    <3> QED BY <1>1, <1>3, <1>5, <3>1 DEF TakenBy, Going
  <2> QED BY <2>1, <2>2 DEF TakenOnce
<1>9. RanOnce'
  <2> SUFFICES ASSUME NEW u \in CS!Turns
               PROVE  /\ ghost'.ran[u] <= 1
                      /\ u > Len(rows.turns) => ghost'.ran[u] = 0
                      /\ u <= Len(rows.turns) /\ rows.turns[u].st = "pending"
                           => ghost'.ran[u] = 0
    BY <1>1 DEF RanOnce
  <2>1. CASE u = t
    BY <1>2, <1>3, <1>4, <2>1, TurnsAre DEF Known
  <2>2. CASE u # t
    BY <1>4, <2>2 DEF SessionInv, RanOnce
  <2> QED BY <2>1, <2>2
<1>10. CS!EndedOnce' /\ CS!SessionFollowsTurns' /\ SignalMeant'
         /\ CS!CancelledWasAsked'
  BY <1>1, <1>4, <1>6 DEF SessionInv, CS!EndedOnce, CS!SessionFollowsTurns,
     SignalMeant, CS!CancelledWasAsked, CS!Status
<1> QED BY <1>6, <1>7, <1>8, <1>9, <1>10 DEF SessionInv

\* A job with the lease looks at its turn.
LEMMA MarkKept ==
  ASSUME SessionConstants, SessionInv, NEW w \in Workers, CS!MarkRunning(w)
  PROVE  SessionInv'
<1> DEFINE t == procs.job[w].t
<1> SessionTyped
  BY DEF SessionInv
<1>1. /\ procs.job[w].pc = "leased" /\ UNCHANGED <<outside, ghost>>
      /\ t \in Known /\ t # 0 /\ outside.queue \subseteq Known
  BY DEF CS!MarkRunning, CS!Job, SessionInv, Named, Known
<1>2. ASSUME CS!JobOver(w)
      PROVE  /\ procs' \in SessionProcs /\ procs'.call = procs.call
             /\ procs'.old = procs.old
             /\ \A u \in Workers :
                  /\ procs'.job[u] = procs.job[u] \/ procs'.job[u].pc = "idle"
                  /\ u = w => procs'.job[u].pc = "idle"
  BY <1>2, JobSteps DEF SessionTyped
<1>3. CASE CS!JobOver(w) /\ rows' = CS!Released(w, rows)
  <2>1. /\ rows' \in SessionRows /\ rows'.turns = rows.turns
        /\ rows'.s = rows.s /\ (rows' = rows \/ rows'.owner = NoOne)
    BY <1>3, ReleasedIs DEF SessionTyped
  <2> QED BY <1>1, <1>2, <1>3, <2>1, TurnsStay DEF SessionTyped
<1>4. CASE /\ CS!StillPending(t) /\ rows.s \in CS!SessionTerminal
           /\ rows' = CS!Released(w, [rows EXCEPT !.turns[t].st = "cancelled",
                            !.marker = IF @ = t THEN 0 ELSE @])
           /\ CS!JobOver(w)
  <2> DEFINE m == IF rows.marker = t THEN 0 ELSE rows.marker
  <2>1. /\ rows.turns[t].st = "pending" /\ rows.s \in Over /\ m \in Nat
    BY <1>4 DEF CS!StillPending, CS!Status, CS!SessionTerminal, Over,
                SessionTyped, SessionRows
  <2>2. rows' = CS!Released(w, EndRow(rows, t, "cancelled", rows.s, m))
    <3>1. [rows EXCEPT !.turns[t].st = "cancelled",
                       !.marker = IF @ = t THEN 0 ELSE @]
            = EndRow(rows, t, "cancelled", rows.s, m)
      BY DEF EndRow, SessionTyped, SessionRows
    <3> QED BY <1>4, <3>1
  <2>3. ghost.blind
    BY <1>1, <2>1, TurnsAre DEF SessionInv, CS!SessionFollowsTurns, Over
  <2>4. /\ procs.call # t
        /\ \A u \in Workers : procs.job[u].pc \in Going => procs.job[u].t # t
    BY <1>1, <2>1 DEF SessionInv, CallRuns, TakenOnce, TakenBy
  <2> HIDE DEF m, t
  <2> QED
    BY <1>1, <1>2, <1>4, <2>1, <2>2, <2>3, <2>4, BrokenOff
    DEF SessionTyped, Going, Over
<1>5. CASE /\ CS!StillPending(t)
           /\ rows' = [rows EXCEPT !.turns[t].st = "running"]
           /\ CS!JobGoes(w, "started")
  BY <1>1, <1>5, StartKept DEF CS!StillPending, CS!Status
<1> QED BY <1>3, <1>4, <1>5 DEF CS!MarkRunning, CS!Job

\* A turn that has been taken is cancelled before its command, or fails.
LEMMA TakenEndsKept ==
  ASSUME SessionConstants, SessionInv, NEW w \in Workers,
         CS!CancelledBefore(w) \/ CS!FailOwned(w)
  PROVE  SessionInv'
<1> DEFINE t == procs.job[w].t
           m == IF rows.marker = t THEN 0 ELSE rows.marker
<1> SessionTyped
  BY DEF SessionInv
<1>1. procs.job[w].pc \in Going /\ CS!JobOver(w)
  BY DEF CS!CancelledBefore, CS!FailOwned, CS!Job, Going
<1>2. /\ t \in Known /\ TakenBy(w, t) /\ procs.call # t
      /\ \A u \in Workers \ {w} :
           procs.job[u].pc \in Going => procs.job[u].t # t
      /\ outside.queue \subseteq Known /\ m \in Nat
  BY <1>1 DEF SessionInv, Named, TakenOnce, TakenBy, SessionTyped,
              SessionRows, Going
<1>3. /\ procs' \in SessionProcs /\ procs'.call = procs.call
      /\ procs'.old = procs.old
      /\ \A u \in Workers :
           /\ procs'.job[u] = procs.job[u] \/ procs'.job[u].pc = "idle"
           /\ procs'.job[u].pc = "started" => procs'.job[u].t # t
           /\ procs'.job[u].pc = "exec" => procs'.job[u].t # t
  <2>1. /\ procs' \in SessionProcs /\ procs'.call = procs.call
        /\ procs'.old = procs.old /\ procs'.job[w].pc = "idle"
        /\ \A u \in Workers \ {w} : procs'.job[u] = procs.job[u]
    BY <1>1, JobSteps DEF SessionTyped
  <2> QED BY <1>2, <2>1 DEF Going
<1>4. CASE CS!CancelledBefore(w)
  <2>1. /\ procs.job[w].pc = "started" /\ outside.signal
        /\ rows' = CS!Released(w, EndRow(rows, t, "cancelled", "cancelled", m))
        /\ outside' = [outside EXCEPT !.signal = FALSE]
        /\ ghost' = [ghost EXCEPT !.again = @ \/ CS!Status(t) # "running"]
    BY <1>4 DEF CS!CancelledBefore, CS!Job, EndRow
  <2>2. rows.turns[t].st = "running"
    BY <1>2, <2>1 DEF TakenBy
  <2>3. ghost' = ghost
    BY <2>1, <2>2 DEF CS!Status, SessionTyped, SessionGhosts
  <2>4. ghost.late \/ ghost.blind \/ t \in ghost.asked
    BY <1>2, <2>1, <2>2, TurnsAre DEF SessionInv, SignalMeant
  <2>5. /\ outside' \in [queue : SUBSET Nat, signal : BOOLEAN]
        /\ outside'.queue = outside.queue /\ ~outside'.signal
    BY <2>1 DEF SessionTyped
  <2> HIDE DEF t, m
  <2> QED
    BY <1>2, <1>3, <2>1, <2>2, <2>3, <2>4, <2>5, BrokenOff DEF Over
<1>5. CASE /\ CS!FailOwned(w) /\ rows.turns[t].st = "running"
           /\ CS!OwnsTurn(w)
  <2> DEFINE ss == IF rows.s = "running" THEN "failed" ELSE rows.s
  <2>1. /\ rows' = CS!Released(w, EndRow(rows, t, "failed", ss, m))
        /\ UNCHANGED <<outside, ghost>>
    <3>1. rows' = CS!Released(w, [rows EXCEPT !.turns[t].st = "failed",
                    !.marker = IF @ = t THEN 0 ELSE @,
                    !.s = IF @ = "running" THEN "failed" ELSE @])
            /\ UNCHANGED <<outside, ghost>>
      BY <1>5 DEF CS!FailOwned, CS!Job, CS!Status
    <3>2. [rows EXCEPT !.turns[t].st = "failed",
             !.marker = IF @ = t THEN 0 ELSE @,
             !.s = IF @ = "running" THEN "failed" ELSE @]
            = EndRow(rows, t, "failed", ss, m)
      BY DEF EndRow, SessionTyped, SessionRows
    <3> QED BY <3>1, <3>2
  <2>2. ghost.blind \/ rows.s = "running"
    BY <1>2, <1>5, TurnsAre DEF SessionInv, CS!SessionFollowsTurns
  <2>3. /\ ss \in Over \cup {"none", "idle", "running"}
        /\ ghost.blind \/ ss = "failed"
    BY <2>2 DEF SessionTyped, SessionRows, Over
  <2>4. outside' \in [queue : SUBSET Nat, signal : BOOLEAN]
    BY <2>1 DEF SessionTyped
  <2> HIDE DEF t, m, ss
  <2> QED
    BY <1>2, <1>3, <1>5, <2>1, <2>3, <2>4, BrokenOff
<1>6. CASE /\ CS!FailOwned(w)
           /\ ~(rows.turns[t].st = "running" /\ CS!OwnsTurn(w))
  <2>1. rows' = CS!Released(w, rows) /\ UNCHANGED <<outside, ghost>>
    BY <1>6 DEF CS!FailOwned, CS!Job, CS!Status
  <2>2. /\ rows' \in SessionRows /\ rows'.turns = rows.turns
        /\ rows'.s = rows.s /\ (rows' = rows \/ rows'.owner = NoOne)
    BY <2>1, ReleasedIs DEF SessionTyped
  <2> QED BY <1>2, <1>3, <2>1, <2>2, TurnsStay DEF SessionTyped
<1> QED BY <1>4, <1>5, <1>6

\* The reconciler: it publishes a pending turn again, and fails a turn that
\* has been running for too long when no job of the turn holds the lease.
LEMMA ReconcileKept ==
  ASSUME SessionConstants, SessionInv, NEW t \in CS!Turns,
         CS!GetsOld(t) \/ CS!Republish(t) \/ CS!FailLost(t)
  PROVE  SessionInv'
<1> SessionTyped
  BY DEF SessionInv
<1>0. outside.queue \subseteq Known /\ t \in Nat
  BY DEF SessionInv, Named, CS!Turns
<1>1. CASE CS!GetsOld(t)
  <2>1. /\ t \in Known /\ rows.turns[t].st = "running" /\ procs.call # t
        /\ \A w \in Workers : procs.job[w].t = t => procs.job[w].pc = "exec"
        /\ procs' = [procs EXCEPT !.old = procs.old \cup {t}]
        /\ UNCHANGED <<rows, outside, ghost>>
    BY <1>1, TurnsAre DEF CS!GetsOld, CS!Status, CS!Job
  <2>2. /\ procs' \in SessionProcs /\ procs'.old = procs.old \cup {t}
        /\ procs'.call = procs.call /\ procs'.job = procs.job
    BY <1>0, <2>1 DEF SessionTyped, SessionProcs
  <2> QED BY <1>0, <2>1, <2>2, TurnsStay DEF SessionTyped
<1>2. CASE CS!Republish(t)
  <2>1. /\ t \in Known /\ UNCHANGED <<rows, procs, ghost>>
        /\ outside' = [outside EXCEPT !.queue = outside.queue \cup {t}]
    BY <1>2, TurnsAre DEF CS!Republish
  <2>2. /\ outside' \in [queue : SUBSET Nat, signal : BOOLEAN]
        /\ outside'.queue \subseteq Known
        /\ outside'.signal = outside.signal
    BY <1>0, <2>1 DEF SessionTyped
  <2> QED BY <2>1, <2>2, TurnsStay DEF SessionTyped
<1>3. CASE CS!FailLost(t)
  <2> DEFINE ss == IF rows.s = "running" THEN "failed" ELSE rows.s
             m == IF rows.marker = t THEN 0 ELSE rows.marker
  <2>1. /\ t \in procs.old /\ rows.turns[t].st = "running"
        /\ ~(rows.live /\ rows.of = t) /\ UNCHANGED <<procs, outside>>
        /\ rows' = EndRow(rows, t, "failed", ss, m)
        /\ ghost' = [ghost EXCEPT !.again =
                       @ \/ CS!Status(t) \notin CS!Active]
    BY <1>3 DEF CS!FailLost, CS!EndsTurn, CS!Held, CS!Status, EndRow
  <2>2. ghost' = ghost
    BY <2>1 DEF CS!Active, CS!Status, SessionTyped, SessionGhosts
  <2>3. t \in Known /\ t # 0 /\ m \in Nat
    BY <2>1 DEF SessionInv, Named, Known, SessionTyped, SessionRows
  <2>4. ghost.blind \/ rows.s = "running"
    BY <2>1, <2>3, TurnsAre DEF SessionInv, CS!SessionFollowsTurns
  <2>5. /\ ss \in Over \cup {"none", "idle", "running"}
        /\ ghost.blind \/ ss = "failed"
    BY <2>4 DEF SessionTyped, SessionRows, Over
  <2>6. procs.call # t
    BY <2>1, <2>3 DEF SessionInv, CallRuns
  <2>7. \A w \in Workers :
          /\ procs.job[w].pc = "started" => procs.job[w].t # t
          /\ procs.job[w].pc = "exec" /\ rows.owner = w /\ rows.live =>
               procs.job[w].t # t
    BY <2>1 DEF SessionInv, TakenOnce, TakenBy, Going
  <2> HIDE DEF m, ss
  <2> QED
    BY <2>1, <2>2, <2>3, <2>5, <2>6, <2>7, BrokenOff DEF SessionTyped
<1> QED BY <1>1, <1>2, <1>3

\* Every step keeps the invariant.
LEMMA SessionKept ==
  ASSUME SessionConstants, SessionInv, [CS!Next]_(CS!vars)
  PROVE  SessionInv'
<1>1. CASE UNCHANGED CS!vars
  <2>1. UNCHANGED <<rows, procs, outside, ghost>>
    BY <1>1 DEF CS!vars
  <2> QED
    BY <2>1 DEF SessionInv, SessionTyped, Named, TakenOnce, TakenBy,
       CallRuns, RanOnce, SignalMeant, Known, CS!EndedOnce,
       CS!SessionFollowsTurns, CS!CancelledWasAsked, CS!ActiveTurns,
       CS!Status
<1>2. CASE CS!RunStarts \/ CS!RunEnds \/ CS!RunDies
  BY <1>2, RunKept
<1>3. CASE CS!RunTurn \/ CS!QueueTurn
  BY <1>3, AskKept
<1>4. CASE CS!TurnReturns
  BY <1>4, ReturnKept
<1>5. CASE CS!ControlReads \/ CS!ControlSignals \/ CS!ControlCancels
             \/ CS!SignalExpires \/ CS!LeaseEnds
  BY <1>5, ControlKept
<1>6. ASSUME NEW w \in Workers,
             CS!TakeJob(w) \/ CS!AcquireLease(w) \/ CS!Busy(w)
               \/ CS!MarkRunning(w) \/ CS!CancelledBefore(w)
               \/ CS!Execute(w) \/ CS!Finish(w) \/ CS!LostOwnership(w)
               \/ CS!FailOwned(w) \/ CS!Crash(w)
      PROVE  SessionInv'
  BY <1>6, TakeKept, JobStays, MarkKept, TakenEndsKept, ExecuteKept,
     FinishKept
<1>7. ASSUME NEW t \in CS!Turns,
             CS!GetsOld(t) \/ CS!Republish(t) \/ CS!FailLost(t)
      PROVE  SessionInv'
  BY <1>7, ReconcileKept
<1> QED
  BY <1>1, <1>2, <1>3, <1>4, <1>5, <1>6, <1>7 DEF CS!Next

LEMMA SessionSafe ==
  ASSUME SessionInv
  PROVE  CS!StartedOnce /\ CS!EndedOnce /\ CS!SessionFollowsTurns
           /\ CS!CancelledWasAsked
BY DEF SessionInv, RanOnce, CS!StartedOnce

\* The command of a turn starts at most once and a turn ends at most once,
\* whatever jobs, deaths and leases come between; a session is running while
\* one of its turns is, and only what was asked for is cancelled, but for the
\* two races CodingSessions names (services/coding_execution_service.py).
THEOREM CodingSessionsSafe ==
  SessionConstants =>
    (CS!Spec => [](CS!StartedOnce /\ CS!EndedOnce
                     /\ CS!SessionFollowsTurns /\ CS!CancelledWasAsked))
<1> SUFFICES ASSUME SessionConstants
             PROVE  CS!Spec => [](CS!StartedOnce /\ CS!EndedOnce
                       /\ CS!SessionFollowsTurns /\ CS!CancelledWasAsked)
  OBVIOUS
<1>1. CS!Init => SessionInv
  BY SessionInit
<1>2. SessionInv /\ [CS!Next]_(CS!vars) => SessionInv'
  BY SessionKept
<1>3. SessionInv => /\ CS!StartedOnce /\ CS!EndedOnce
                    /\ CS!SessionFollowsTurns /\ CS!CancelledWasAsked
  BY SessionSafe
<1> QED BY <1>1, <1>2, <1>3, PTL DEF CS!Spec

-----------------------------------------------------------------------------
(* Credentials of a coding executor.                                       *)

\* There is something to write, and a request is not no one.
CredentialConstants ==
  /\ NoOne \notin Clients /\ Scopes # {} /\ Providers # {}
  /\ KeyModes \subseteq {"manual", "inherit", "custom"}

KeysOrNone == Keys \cup {"none"}
Ways == {"manual", "inherit", "custom"}
Creds ==
  [id : Clients \cup {NoOne}, on : BOOLEAN, mode : Ways, key : KeysOrNone,
   bound : Clients \cup {NoOne}, kv : BOOLEAN, ver : Nat]
Prints ==
  [p : Providers \cup {"none"}, mode : Ways, hash : KeysOrNone, ver : Nat]
Writing == {"get", "flush", "others", "commit"}
Uses ==
  [pc : Writing \cup {"idle", "delete", "ready"},
   op : {"none", "write", "delete"}, s : Scopes, p : Providers, new : Creds,
   read : Creds, others : SUBSET [p : Providers, read : Creds],
   print : Prints, key : KeysOrNone]
CredentialRows ==
  [cred : [Scopes -> [Providers -> Creds]],
   lock : [Scopes -> [Providers -> Clients \cup {NoOne}]],
   prov : [Providers -> [on : BOOLEAN, key : KeysOrNone]]]
Boxes == [there : BOOLEAN, key : KeysOrNone, print : Prints]
CredentialGhosts ==
  [stale : SUBSET (Scopes \X Providers), copied : SUBSET (Scopes \X Providers),
   twins : SUBSET Scopes, bare : BOOLEAN]
CredentialTyped ==
  /\ rows \in CredentialRows /\ procs \in [Clients -> Uses]
  /\ outside \in Boxes /\ ghost \in CredentialGhosts

Is(s, p) == rows.cred[s][p].id # NoOne

\* An active row is there, and a row that is there has a version.
RowsNumbered ==
  \A s \in Scopes, p \in Providers :
    /\ rows.cred[s][p].on => Is(s, p)
    /\ Is(s, p) => rows.cred[s][p].ver >= 1

\* A key, if it belongs to the row, can be decrypted for it.
KeyFits(r) ==
  IF r.on /\ r.mode # "inherit" THEN r.kv /\ r.bound = r.id
  ELSE r.key = "none"

\* What was read for a row that is there was a row, and what is to be
\* written comes with its key.
Meant(e) ==
  /\ e.pc \in Writing =>
       /\ e.new.on /\ e.new.id # NoOne
       /\ e.new.mode # "inherit" => e.new.kv /\ e.new.bound # NoOne
       /\ e.new.mode = "inherit" => e.new.key = "none"
       /\ e.read.id # NoOne => Is(e.s, e.p)
  /\ e.pc \in Writing \ {"get"} =>
       /\ e.new.ver = e.read.ver + 1
       /\ e.read.id # NoOne => e.new.id = e.read.id
  /\ e.pc = "delete" => e.read.on /\ e.read.id # NoOne /\ Is(e.s, e.p)
  /\ \A o \in e.others : o.read.on /\ o.read.id # NoOne /\ Is(e.s, o.p)

\* A fingerprint with a hash has the hash of its key; one without is that of
\* a row whose version tells the key.
OfVersion(print, key, cred, copied) ==
  \E s \in Scopes :
    /\ print.p \in Providers /\ cred[s][print.p].id # NoOne
    /\ <<s, print.p>> \notin copied =>
         LET r == cred[s][print.p]
         IN /\ print.ver <= r.ver
            /\ print.ver = r.ver /\ r.on /\ r.mode = "manual" => key = r.key
Tells(print, key) ==
  print # CC!NoPrint =>
    IF print.mode = "manual"
      THEN OfVersion(print, key, rows.cred, ghost.copied)
      ELSE print.hash = key

AllMeant == \A w \in Clients : Meant(procs[w])
AllTell ==
  /\ outside.there /\ ~ghost.bare => Tells(outside.print, outside.key)
  /\ \A w \in Clients :
       procs[w].pc = "ready" => Tells(procs[w].print, procs[w].key)
FittingKeys ==
  \A s \in Scopes, p \in Providers :
    <<s, p>> \notin ghost.stale => KeyFits(rows.cred[s][p])

CredentialInv ==
  /\ CredentialTyped /\ RowsNumbered /\ FittingKeys /\ AllMeant /\ AllTell
  /\ CC!OneInUse

LEMMA NothingIs ==
  ASSUME CredentialConstants
  PROVE  /\ CC!NoCred \in Creds /\ CC!NoCred.id = NoOne
         /\ CC!NoPrint \in Prints
         /\ CC!Idle \in Uses /\ CC!Idle.pc = "idle" /\ CC!Idle.others = {}
         /\ CC!Idle.print = CC!NoPrint
<1>1. CC!NoCred \in Creds /\ CC!NoCred.id = NoOne /\ CC!NoPrint \in Prints
  BY DEF CC!NoCred, CC!NoPrint, CC!NoKey, Creds, Prints, Ways, KeysOrNone
<1>2. (CHOOSE s \in Scopes : TRUE) \in Scopes
        /\ (CHOOSE p \in Providers : TRUE) \in Providers
  BY DEF CredentialConstants
<1> QED BY <1>1, <1>2 DEF CC!Idle, Uses, Writing, CC!NoKey, KeysOrNone

\* Columns that were changed, over the row as it is.
LEMMA WrittenIs ==
  ASSUME NEW now \in Creds, NEW read \in Creds, NEW new \in Creds
  PROVE  /\ CC!Written(now, read, new) \in Creds
         /\ read = now => CC!Written(now, read, new) = new
         /\ CC!Written(now, read, new).id \in {now.id, new.id}
         /\ new.id # read.id => CC!Written(now, read, new).id = new.id
         /\ new.on # read.on => CC!Written(now, read, new).on = new.on
         /\ new.ver # read.ver => CC!Written(now, read, new).ver = new.ver
BY DEF CC!Written, Creds

LEMMA CredentialInit ==
  ASSUME CredentialConstants, CC!Init PROVE CredentialInv
<1> USE NothingIs
<1>1. CredentialTyped
  BY DEF CC!Init, CredentialTyped, CredentialRows, Boxes, CredentialGhosts,
         KeysOrNone, CC!NoKey
<1>2. /\ \A s \in Scopes, p \in Providers : rows.cred[s][p] = CC!NoCred
      /\ \A w \in Clients : procs[w] = CC!Idle
      /\ ~outside.there
  BY DEF CC!Init
<1>3. ~CC!NoCred.on /\ CC!NoCred.key = "none"
  BY DEF CC!NoCred, CC!NoKey
<1> QED
  BY <1>1, <1>2, <1>3 DEF CredentialInv, RowsNumbered, FittingKeys, KeyFits,
     AllMeant, AllTell, CC!OneInUse, Meant, Writing, Is, CC!Active

\* A request takes a step and no credential is written.
LEMMA RequestSteps ==
  ASSUME CredentialConstants, CredentialInv, NEW w \in Clients, NEW e \in Uses,
         CC!Becomes(w, e), Meant(e),
         e.pc = "ready" => Tells(e.print, e.key),
         rows' \in CredentialRows, rows'.cred = rows.cred,
         ghost' = ghost, outside' = outside
  PROVE  CredentialInv'
<1>1. procs' \in [Clients -> Uses] /\ procs'[w] = e
        /\ \A u \in Clients \ {w} : procs'[u] = procs[u]
  BY DEF CC!Becomes, CredentialInv, CredentialTyped
<1>2. CredentialTyped' /\ RowsNumbered' /\ FittingKeys' /\ CC!OneInUse'
  BY <1>1 DEF CredentialInv, CredentialTyped, RowsNumbered, Is, FittingKeys,
              CC!OneInUse, CC!Active
<1>3. AllMeant'
  BY <1>1 DEF CredentialInv, AllMeant, Meant, Is
<1>4. AllTell'
  BY <1>1 DEF CredentialInv, AllTell, Tells
<1> QED BY <1>2, <1>3, <1>4 DEF CredentialInv

\* Credentials are written: each row stays as it is, or is written from a
\* copy, or gets a higher version with a key that fits.
LEMMA CredentialsWritten ==
  ASSUME CredentialConstants, CredentialInv, NEW w \in Clients,
         CC!Becomes(w, CC!Idle), rows' \in CredentialRows,
         ghost' \in CredentialGhosts, outside' = outside,
         ghost'.bare = ghost.bare, ghost.copied \subseteq ghost'.copied,
         \A s \in Scopes, p \in Providers :
           \/ /\ rows'.cred[s][p] = rows.cred[s][p]
              /\ <<s, p>> \in ghost.stale => <<s, p>> \in ghost'.stale
           \/ /\ rows'.cred[s][p].id # NoOne /\ rows'.cred[s][p].ver >= 1
              /\ \/ <<s, p>> \in ghost'.copied /\ <<s, p>> \in ghost'.stale
                 \/ /\ KeyFits(rows'.cred[s][p])
                    /\ rows'.cred[s][p].ver > rows.cred[s][p].ver,
         CC!OneInUse'
  PROVE  CredentialInv'
<1>1. procs' \in [Clients -> Uses] /\ procs'[w] = CC!Idle
        /\ \A u \in Clients \ {w} : procs'[u] = procs[u]
  BY NothingIs DEF CC!Becomes, CredentialInv, CredentialTyped
<1>2. CredentialTyped'
  BY <1>1 DEF CredentialInv, CredentialTyped
<1>3. RowsNumbered'
  BY DEF CredentialInv, RowsNumbered, Is
<1>4. FittingKeys'
  BY DEF CredentialInv, FittingKeys, KeyFits
<1>5. \A s \in Scopes, p \in Providers : Is(s, p) => Is(s, p)'
  BY DEF Is
<1>6. AllMeant'
  <2> SUFFICES ASSUME NEW u \in Clients, u # w PROVE Meant(procs[u])'
    BY <1>1, NothingIs DEF AllMeant, Meant, Writing
  <2>1. procs[u] \in Uses /\ Meant(procs[u]) /\ procs'[u] = procs[u]
    BY <1>1 DEF CredentialInv, AllMeant, CredentialTyped
  <2>2. /\ procs[u].s \in Scopes /\ procs[u].p \in Providers
        /\ \A o \in procs[u].others : o.p \in Providers
    BY <2>1 DEF Uses
  <2> HIDE DEF Is
  <2> QED BY <1>5, <2>1, <2>2 DEF Meant
<1>7. ASSUME NEW print \in Prints, NEW key,
             OfVersion(print, key, rows.cred, ghost.copied)
      PROVE  OfVersion(print, key, rows'.cred, ghost'.copied)
  <2>1. PICK s \in Scopes :
          /\ print.p \in Providers /\ rows.cred[s][print.p].id # NoOne
          /\ <<s, print.p>> \notin ghost.copied =>
               LET r == rows.cred[s][print.p]
               IN /\ print.ver <= r.ver
                  /\ print.ver = r.ver /\ r.on /\ r.mode = "manual" =>
                       key = r.key
    BY <1>7 DEF OfVersion
  <2>2. /\ print.ver \in Nat /\ rows.cred[s][print.p].ver \in Nat
        /\ rows'.cred[s][print.p].ver \in Nat
    BY <2>1 DEF Prints, CredentialInv, CredentialTyped, CredentialRows, Creds
  <2>3. rows'.cred[s][print.p].id # NoOne
    BY <1>5, <2>1 DEF Is
  <2>4. <<s, print.p>> \notin ghost'.copied =>
          LET r == rows'.cred[s][print.p]
          IN /\ print.ver <= r.ver
             /\ print.ver = r.ver /\ r.on /\ r.mode = "manual" => key = r.key
    BY <2>1, <2>2
  <2> QED BY <2>1, <2>3, <2>4 DEF OfVersion
<1>8. AllTell'
  <2>1. /\ outside.print \in Prints
        /\ \A u \in Clients : procs[u].print \in Prints
    BY DEF CredentialInv, CredentialTyped, Boxes, Uses
  <2>2. ASSUME outside.there, ~ghost.bare
        PROVE  Tells(outside.print, outside.key)'
    <3>1. Tells(outside.print, outside.key)
      BY <2>2 DEF CredentialInv, AllTell
    <3> QED BY <1>7, <2>1, <3>1 DEF Tells
  <2>3. ASSUME NEW u \in Clients, procs'[u].pc = "ready"
        PROVE  Tells(procs[u].print, procs[u].key)'
    <3>1. procs'[u] = procs[u]
      BY <1>1, <2>3, NothingIs
    <3>2. Tells(procs[u].print, procs[u].key)
      BY <2>3, <3>1 DEF CredentialInv, AllTell
    <3> QED BY <1>7, <2>1, <3>1, <3>2 DEF Tells
  <2> QED BY <2>2, <2>3 DEF AllTell
<1> QED BY <1>2, <1>3, <1>4, <1>6, <1>8 DEF CredentialInv

\* A request to write, or to delete, begins.
LEMMA AskedKept ==
  ASSUME CredentialConstants, CredentialInv, NEW w \in Clients,
         NEW s \in Scopes, NEW p \in Providers,
         \/ \E mode \in KeyModes, k \in Keys : CC!Write(w, s, p, mode, k)
         \/ CC!Delete(w, s, p)
  PROVE  CredentialInv'
<1>1. rows.cred[s][p] \in Creds /\ rows \in CredentialRows
  BY DEF CredentialInv, CredentialTyped, CredentialRows
<1>2. ASSUME NEW mode \in KeyModes, NEW k \in Keys, CC!Write(w, s, p, mode, k)
      PROVE  CredentialInv'
  <2> DEFINE r == rows.cred[s][p]
             id == IF CC!OwnKey(mode) /\ CC!There(r) THEN r.id ELSE w
             new == [CC!NoCred EXCEPT !.id = id, !.on = TRUE, !.mode = mode]
             n == IF CC!OwnKey(mode)
                    THEN [new EXCEPT !.key = k, !.bound = id, !.kv = TRUE]
                    ELSE new
             d == IF CC!OwnKey(mode) THEN r ELSE CC!NoCred
             e == [CC!Idle EXCEPT !.pc = "get", !.op = "write", !.s = s,
                                  !.p = p, !.read = d, !.new = n]
  <2>1. CC!Becomes(w, e) /\ UNCHANGED <<rows, outside, ghost>>
    BY <1>2 DEF CC!Write
  <2>2. mode \in Ways
    BY DEF CredentialConstants, Ways
  <2>3. id \in Clients
    BY <1>1 DEF CC!There, Creds
  <2>4. /\ n \in Creds /\ n.on /\ n.id = id
        /\ mode # "inherit" => n.kv /\ n.bound = id
        /\ mode = "inherit" => n.key = "none"
        /\ n.mode = mode
    <3> HIDE DEF id
    <3> QED
      BY <2>2, <2>3 DEF CC!NoCred, CC!NoKey, CC!OwnKey, Creds, KeysOrNone
  <2>5. d \in Creds /\ (d.id # NoOne => Is(s, p))
    BY <1>1, NothingIs DEF Is
  <2> HIDE DEF n, d
  <2>6. /\ e \in Uses /\ e.pc = "get" /\ e.new = n /\ e.read = d
        /\ e.s = s /\ e.p = p /\ e.others = {}
    BY <2>4, <2>5, NothingIs DEF Uses, Writing
  <2> HIDE DEF e, id
  <2>7. Meant(e)
    BY <2>3, <2>4, <2>5, <2>6 DEF Meant, Writing, CredentialConstants
  <2> QED BY <1>1, <2>1, <2>6, <2>7, RequestSteps
<1>3. CASE CC!Delete(w, s, p)
  <2> DEFINE e == [CC!Idle EXCEPT !.pc = "delete", !.op = "delete", !.s = s,
                                  !.p = p, !.read = rows.cred[s][p]]
  <2>1. CC!Becomes(w, e) /\ UNCHANGED <<rows, outside, ghost>>
          /\ rows.cred[s][p].on
    BY <1>3 DEF CC!Delete
  <2>2. /\ e \in Uses /\ e.pc = "delete" /\ e.read = rows.cred[s][p]
        /\ e.s = s /\ e.p = p /\ e.others = {}
    BY <1>1, NothingIs DEF Uses, Writing
  <2> HIDE DEF e
  <2>3. Is(s, p)
    BY <2>1 DEF CredentialInv, RowsNumbered
  <2>4. Meant(e)
    BY <2>1, <2>2, <2>3 DEF Meant, Writing, Is
  <2> QED BY <1>1, <2>1, <2>2, <2>4, RequestSteps
<1> QED BY <1>2, <1>3

\* A request to write goes on: it reads the row, takes its lock, reads the
\* other rows, or is ended by a deadlock.
LEMMA WriteGoesOn ==
  ASSUME CredentialConstants, CredentialInv, NEW w \in Clients,
         \/ CC!Get(w) \/ CC!Flush(w) \/ CC!Others(w)
         \/ \E o \in Clients \ {w} : CC!Deadlock(w, o)
  PROVE  CredentialInv'
<1> DEFINE a == procs[w]
<1>0. /\ rows \in CredentialRows /\ a \in Uses /\ Meant(a)
      /\ \A s \in Scopes, p \in Providers : rows.cred[s][p] \in Creds
  BY DEF CredentialInv, CredentialTyped, AllMeant, CredentialRows
<1>1. a.s \in Scopes /\ a.p \in Providers /\ a.new \in Creds /\ a.read \in Creds
  BY <1>0 DEF Uses
<1>2. CASE CC!Get(w)
  <2> DEFINE r == IF CC!There(a.read) THEN a.read ELSE rows.cred[a.s][a.p]
             n == [a.new EXCEPT !.id = IF CC!There(r) THEN r.id ELSE @,
                                !.ver = r.ver + 1]
             e == [a EXCEPT !.pc = "flush", !.read = r, !.new = n]
  <2>1. a.pc = "get" /\ CC!Becomes(w, e) /\ UNCHANGED <<rows, outside, ghost>>
    BY <1>2, <1>0 DEF CC!Get, CC!At, CC!Row, Uses
  <2>2. r \in Creds /\ (r.id # NoOne => Is(a.s, a.p))
    BY <1>0, <1>1, <2>1 DEF CC!There, Is, Meant, Writing
  <2> HIDE DEF r
  <2>3. /\ n \in Creds /\ n.ver = r.ver + 1
        /\ n.id = IF r.id # NoOne THEN r.id ELSE a.new.id
        /\ n.on = a.new.on /\ n.mode = a.new.mode /\ n.kv = a.new.kv
        /\ n.bound = a.new.bound /\ n.key = a.new.key
    <3> DEFINE i == IF r.id # NoOne THEN r.id ELSE a.new.id
               v == r.ver + 1
    <3>1. i \in Clients \cup {NoOne} /\ v \in Nat
      BY <1>1, <2>2 DEF Creds
    <3>2. n = [a.new EXCEPT !.id = i, !.ver = v]
      BY DEF CC!There
    <3> HIDE DEF i, v, a, n
    <3>3. /\ n \in Creds /\ n.ver = v /\ n.id = i
          /\ n.on = a.new.on /\ n.mode = a.new.mode /\ n.kv = a.new.kv
          /\ n.bound = a.new.bound /\ n.key = a.new.key
      BY <1>1, <3>1, <3>2 DEF Creds
    <3> QED BY <3>3 DEF i, v
  <2> HIDE DEF n
  <2>4. /\ e \in Uses /\ e.pc = "flush" /\ e.new = n /\ e.read = r
        /\ e.s = a.s /\ e.p = a.p /\ e.others = a.others
    BY <1>0, <2>2, <2>3 DEF Uses, Writing
  <2> HIDE DEF e, a
  <2>5. Meant(e)
    BY <1>0, <2>1, <2>2, <2>3, <2>4 DEF Meant, Writing
  <2> QED BY <1>0, <2>1, <2>4, <2>5, RequestSteps
<1>3. ASSUME CC!Becomes(w, CC!Idle), UNCHANGED <<outside, ghost>>,
             rows' \in CredentialRows, rows'.cred = rows.cred
      PROVE  CredentialInv'
  <2>1. Meant(CC!Idle)
    BY NothingIs DEF Meant, Writing
  <2> QED BY <1>3, <2>1, NothingIs, RequestSteps
<1>4. CASE CC!Flush(w)
  <2>1. CASE /\ rows' = [rows EXCEPT !.lock[a.s][a.p] = w]
             /\ CC!Becomes(w, [a EXCEPT !.pc = "others"])
    <3> DEFINE e == [a EXCEPT !.pc = "others"]
    <3>1. a.pc = "flush" /\ UNCHANGED <<outside, ghost>>
      BY <1>4 DEF CC!Flush, CC!At
    <3>2. /\ e \in Uses /\ e.pc = "others" /\ e.new = a.new
          /\ e.read = a.read /\ e.s = a.s /\ e.p = a.p /\ e.others = a.others
      BY <1>0 DEF Uses, Writing
    <3>3. rows' \in CredentialRows /\ rows'.cred = rows.cred
      BY <1>0, <2>1 DEF CredentialRows
    <3>4. CC!Becomes(w, e)
      BY <2>1
    <3> HIDE DEF e, a
    <3>5. Meant(e)
      BY <1>0, <3>1, <3>2 DEF Meant, Writing
    <3> QED BY <3>1, <3>2, <3>3, <3>4, <3>5, RequestSteps
  <2>2. CASE UNCHANGED rows /\ CC!Becomes(w, CC!Idle)
    BY <1>0, <1>3, <1>4, <2>2 DEF CC!Flush
  <2> QED BY <1>4, <2>1, <2>2 DEF CC!Flush, CC!At
<1>5. CASE CC!Others(w)
  <2> DEFINE os == {[p |-> p, read |-> rows.cred[a.s][p]] :
                      p \in CC!ActiveOthers(w)}
             e == [a EXCEPT !.pc = "commit", !.others = os]
  <2>1. a.pc = "others" /\ CC!Becomes(w, e) /\ UNCHANGED <<rows, outside, ghost>>
    BY <1>5 DEF CC!Others, CC!At
  <2>2. /\ os \subseteq [p : Providers, read : Creds]
        /\ \A o \in os : o.read = rows.cred[a.s][o.p] /\ o.read.on
             /\ o.p \in Providers
    BY <1>0, <1>1 DEF CC!ActiveOthers, CC!At
  <2> HIDE DEF os
  <2>3. \A o \in os : o.read.on /\ o.read.id # NoOne /\ Is(a.s, o.p)
    BY <1>1, <2>2 DEF CredentialInv, RowsNumbered, Is
  <2>4. /\ e \in Uses /\ e.pc = "commit" /\ e.new = a.new
        /\ e.read = a.read /\ e.s = a.s /\ e.p = a.p /\ e.others = os
    BY <1>0, <2>2 DEF Uses, Writing
  <2> HIDE DEF e, a
  <2>5. Meant(e)
    BY <1>0, <2>1, <2>3, <2>4 DEF Meant, Writing
  <2> QED BY <1>0, <2>1, <2>4, <2>5, RequestSteps
<1>6. CASE \E o \in Clients \ {w} : CC!Deadlock(w, o)
  <2>1. /\ rows' = [rows EXCEPT !.lock = CC!Unlock(w)]
        /\ CC!Becomes(w, CC!Idle) /\ UNCHANGED <<outside, ghost>>
    BY <1>6 DEF CC!Deadlock
  <2>2. rows' \in CredentialRows /\ rows'.cred = rows.cred
    <3>1. CC!Unlock(w) \in [Scopes -> [Providers -> Clients \cup {NoOne}]]
      BY <1>0 DEF CC!Unlock, CredentialRows
    <3> QED BY <1>0, <2>1, <3>1 DEF CredentialRows
  <2> QED BY <1>3, <2>1, <2>2
<1> QED BY <1>2, <1>4, <1>5, <1>6

\* An environment is put together from the credential that decides.
LEMMA ResolveKept ==
  ASSUME CredentialConstants, CredentialInv, NEW w \in Clients, CC!Resolve(w)
  PROVE  CredentialInv'
<1>0. rows \in CredentialRows /\ UNCHANGED <<rows, outside, ghost>>
  BY DEF CredentialInv, CredentialTyped, CC!Resolve
<1>1. ASSUME NEW print \in Prints, NEW key \in KeysOrNone, Tells(print, key),
             CC!Becomes(w, [CC!Idle EXCEPT !.pc = "ready", !.key = key,
                                           !.print = print])
      PROVE  CredentialInv'
  <2> DEFINE e == [CC!Idle EXCEPT !.pc = "ready", !.key = key,
                                  !.print = print]
  <2>1. /\ e \in Uses /\ e.pc = "ready" /\ e.print = print /\ e.key = key
        /\ e.others = {}
    BY NothingIs DEF Uses, Writing
  <2> HIDE DEF e
  <2>2. Meant(e)
    BY <2>1 DEF Meant, Writing
  <2>3. CC!Becomes(w, e)
    BY <1>1 DEF e
  <2> QED BY <1>0, <1>1, <2>1, <2>2, <2>3, RequestSteps
<1>2. CASE CC!Becomes(w, [CC!Idle EXCEPT !.pc = "ready"])
  <2> DEFINE e == [CC!Idle EXCEPT !.pc = "ready"]
  <2>1. /\ e \in Uses /\ e.pc = "ready" /\ e.print = CC!NoPrint
        /\ e.others = {}
    BY NothingIs DEF Uses, Writing
  <2> HIDE DEF e
  <2>2. Meant(e) /\ Tells(e.print, e.key)
    BY <2>1 DEF Meant, Writing, Tells
  <2>3. CC!Becomes(w, e)
    BY <1>2 DEF e
  <2> QED BY <1>0, <2>1, <2>2, <2>3, RequestSteps
<1>3. ASSUME NEW s \in Scopes, NEW p \in CC!Active(s),
             CC!Becomes(w, [CC!Idle EXCEPT !.pc = "ready",
               !.key = CC!KeyOf(s, p), !.print = CC!Fingerprint(s, p)])
      PROVE  CredentialInv'
  <2> DEFINE r == rows.cred[s][p]
  <2>1. p \in Providers /\ r \in Creds /\ r.id # NoOne
    BY DEF CC!Active, CredentialInv, CredentialTyped, CredentialRows,
           RowsNumbered, Is
  <2>2. rows.prov[p].key \in KeysOrNone
    BY <1>0, <2>1 DEF CredentialRows
  <2>3. CC!KeyOf(s, p) = IF r.mode = "inherit" THEN rows.prov[p].key ELSE r.key
    BY DEF CC!KeyOf
  <2>4. CC!KeyOf(s, p) \in KeysOrNone
    BY <2>1, <2>2, <2>3 DEF Creds
  <2>5. /\ CC!Fingerprint(s, p) \in Prints /\ CC!Fingerprint(s, p).p = p
        /\ CC!Fingerprint(s, p).mode = r.mode
        /\ CC!Fingerprint(s, p).ver = r.ver
        /\ r.mode # "manual" => CC!Fingerprint(s, p).hash = CC!KeyOf(s, p)
    BY <2>1, <2>4 DEF CC!Fingerprint, Prints, Creds, CC!NoKey, KeysOrNone
  <2>6. Tells(CC!Fingerprint(s, p), CC!KeyOf(s, p))
    BY <2>1, <2>3, <2>5 DEF Tells, OfVersion, Creds
  <2> QED BY <1>1, <1>3, <2>4, <2>5, <2>6
<1> QED
  <2>1. \A s \in CC!Deciding : s \in Scopes
    BY DEF CC!Deciding
  <2> QED BY <1>2, <1>3, <2>1 DEF CC!Resolve

\* A row that is switched off.
LEMMA OffIs ==
  ASSUME NEW r \in Creds
  PROVE  /\ CC!Off(r) \in Creds /\ ~CC!Off(r).on /\ CC!Off(r).key = "none"
         /\ CC!Off(r).id = r.id /\ CC!Off(r).ver = r.ver + 1
<1> DEFINE v == r.ver + 1
<1>1. v \in Nat
  BY DEF Creds
<1>2. CC!Off(r) = [r EXCEPT !.on = FALSE, !.key = "none", !.bound = NoOne,
                            !.kv = FALSE, !.ver = v]
  BY DEF CC!Off, CC!NoKey
<1> HIDE DEF v
<1>3. /\ CC!Off(r) \in Creds /\ ~CC!Off(r).on /\ CC!Off(r).key = "none"
      /\ CC!Off(r).id = r.id /\ CC!Off(r).ver = v
  BY <1>1, <1>2 DEF Creds, KeysOrNone
<1> QED BY <1>3 DEF v

\* Switching a row off, whatever the row is by now.
LEMMA SwitchedOff ==
  ASSUME NEW now \in Creds, NEW read \in Creds, read.on, now.id # NoOne
  PROVE  LET r == CC!Written(now, read, CC!Off(read))
         IN /\ r \in Creds /\ ~r.on /\ r.id # NoOne /\ r.ver >= 1
            /\ read = now => KeyFits(r) /\ r.ver > now.ver
<1> DEFINE f == CC!Off(read)
           r == CC!Written(now, read, f)
<1>1. /\ f \in Creds /\ ~f.on /\ f.key = "none" /\ f.id = read.id
      /\ f.ver = read.ver + 1
  BY OffIs
<1>2. read.ver \in Nat /\ now.ver \in Nat /\ f.on \in BOOLEAN
  BY <1>1 DEF Creds
<1> HIDE DEF f
<1>3. r \in Creds /\ ~r.on /\ r.ver = read.ver + 1
        /\ (read = now => r = f)
  BY <1>1, <1>2, WrittenIs
<1>4. r.id # NoOne
  <2>1. f.id = read.id => r.id = now.id
    BY <1>1 DEF CC!Written, Creds
  <2> QED BY <1>1, <2>1
<1>5. read = now => KeyFits(r) /\ r.ver > now.ver
  BY <1>1, <1>2, <1>3 DEF KeyFits
<1> QED BY <1>2, <1>3, <1>4, <1>5 DEF f

LEMMA DeleteKept ==
  ASSUME CredentialConstants, CredentialInv, NEW w \in Clients,
         CC!CommitDelete(w)
  PROVE  CredentialInv'
<1> DEFINE a == procs[w]
           now == rows.cred[a.s][a.p]
           r == CC!Written(now, a.read, CC!Off(a.read))
           copies == IF a.read = now THEN {} ELSE {<<a.s, a.p>>}
<1>0. /\ rows \in CredentialRows /\ a \in Uses /\ Meant(a)
      /\ ghost \in CredentialGhosts
  BY DEF CredentialInv, CredentialTyped, AllMeant
<1>1. /\ a.s \in Scopes /\ a.p \in Providers /\ a.read \in Creds
      /\ now \in Creds
  BY <1>0 DEF Uses, CredentialRows
<1>2. /\ a.pc = "delete" /\ CC!Becomes(w, CC!Idle) /\ outside' = outside
      /\ rows' = [rows EXCEPT !.cred[a.s][a.p] = r]
      /\ ghost' = [ghost EXCEPT
                     !.stale = (ghost.stale \ {<<a.s, a.p>>}) \cup copies,
                     !.copied = ghost.copied \cup copies]
  BY DEF CC!CommitDelete, CC!At, CC!Row
<1>3. a.read.on /\ now.id # NoOne
  BY <1>0, <1>2 DEF Meant, Is
<1>4. /\ r \in Creds /\ ~r.on /\ r.id # NoOne /\ r.ver >= 1
      /\ a.read = now => KeyFits(r) /\ r.ver > now.ver
  BY <1>1, <1>3, SwitchedOff
<1> HIDE DEF r
<1>5. /\ rows' \in CredentialRows /\ rows'.cred[a.s][a.p] = r
      /\ \A s \in Scopes, p \in Providers :
           s # a.s \/ p # a.p => rows'.cred[s][p] = rows.cred[s][p]
  BY <1>0, <1>1, <1>2, <1>4 DEF CredentialRows
<1>6. copies \subseteq Scopes \X Providers
  BY <1>1
<1> HIDE DEF a, now, copies
<1>7. /\ ghost' \in CredentialGhosts /\ ghost'.bare = ghost.bare
      /\ ghost'.copied = ghost.copied \cup copies /\ ghost'.twins = ghost.twins
      /\ ghost'.stale = (ghost.stale \ {<<a.s, a.p>>}) \cup copies
  BY <1>0, <1>2, <1>6 DEF CredentialGhosts
<1>8. ASSUME NEW s \in Scopes, NEW p \in Providers
      PROVE
           \/ /\ rows'.cred[s][p] = rows.cred[s][p]
              /\ <<s, p>> \in ghost.stale => <<s, p>> \in ghost'.stale
           \/ /\ rows'.cred[s][p].id # NoOne /\ rows'.cred[s][p].ver >= 1
              /\ \/ <<s, p>> \in ghost'.copied /\ <<s, p>> \in ghost'.stale
                 \/ /\ KeyFits(rows'.cred[s][p])
                    /\ rows'.cred[s][p].ver > rows.cred[s][p].ver
  <2>1. CASE s = a.s /\ p = a.p
    BY <1>4, <1>5, <1>7, <2>1 DEF copies, now
  <2>2. CASE s # a.s \/ p # a.p
    BY <1>5, <1>7, <2>2
  <2> QED BY <2>1, <2>2
<1>9. CC!OneInUse'
  <2>1. \A s \in Scopes : CC!Active(s)' \subseteq CC!Active(s)
    BY <1>4, <1>5 DEF CC!Active
  <2> QED BY <1>7, <2>1 DEF CredentialInv, CC!OneInUse
<1> QED BY <1>2, <1>5, <1>7, <1>8, <1>9, CredentialsWritten

\* A credential is written and the others of the scope switched off.
LEMMA CommitKept ==
  ASSUME CredentialConstants, CredentialInv, NEW w \in Clients, CC!Commit(w)
  PROVE  CredentialInv'
<1> DEFINE a == procs[w]
           now == rows.cred[a.s][a.p]
           off == {o.p : o \in a.others}
           readOf(p) == (CHOOSE o \in a.others : o.p = p).read
           copies == {<<a.s, q>> :
                        q \in {o \in off : readOf(o) # rows.cred[a.s][o]}}
                       \cup IF a.read # now \/ a.new.bound \notin
                                 {NoOne, a.new.id}
                              THEN {<<a.s, a.p>>} ELSE {}
           r == CC!Written(now, a.read, a.new)
           new(p) == IF p = a.p THEN r
                     ELSE IF p \in off
                     THEN CC!Written(rows.cred[a.s][p], readOf(p),
                                     CC!Off(readOf(p)))
                     ELSE rows.cred[a.s][p]
<1>0. /\ rows \in CredentialRows /\ a \in Uses /\ Meant(a)
      /\ ghost \in CredentialGhosts
  BY DEF CredentialInv, CredentialTyped, AllMeant
<1>1. /\ a.s \in Scopes /\ a.p \in Providers /\ a.read \in Creds
      /\ a.new \in Creds
      /\ \A s \in Scopes, p \in Providers : rows.cred[s][p] \in Creds
      /\ \A o \in a.others : o.p \in Providers /\ o.read \in Creds
  BY <1>0 DEF Uses, CredentialRows
<1>2. /\ a.pc = "commit" /\ CC!Becomes(w, CC!Idle) /\ outside' = outside
      /\ rows' = [rows EXCEPT !.lock = CC!Unlock(w), !.cred[a.s] =
                    [p \in Providers |-> new(p)]]
      /\ ghost' = [ghost EXCEPT
           !.stale = (ghost.stale \ ({a.s} \X (off \cup {a.p}))) \cup copies,
           !.copied = ghost.copied \cup copies,
           !.twins = IF CC!ActiveOthers(w) \subseteq off
                       THEN ghost.twins \ {a.s} ELSE ghost.twins \cup {a.s}]
  BY DEF CC!Commit, CC!At, CC!Row
<1>3. /\ a.new.on /\ a.new.id # NoOne /\ a.new.ver = a.read.ver + 1
      /\ a.new.mode # "inherit" => a.new.kv /\ a.new.bound # NoOne
      /\ a.new.mode = "inherit" => a.new.key = "none"
      /\ a.read.id # NoOne => now.id # NoOne /\ a.new.id = a.read.id
      /\ \A o \in a.others : o.read.on /\ rows.cred[a.s][o.p].id # NoOne
  BY <1>0, <1>2 DEF Meant, Is, Writing
<1>4. /\ r \in Creds /\ r.id # NoOne /\ r.ver >= 1
      /\ <<a.s, a.p>> \notin copies => KeyFits(r) /\ r.ver > now.ver
  <2>1. now \in Creds /\ a.read.ver \in Nat /\ now.ver \in Nat
    BY <1>1 DEF Creds
  <2>2. r \in Creds /\ r.ver = a.read.ver + 1 /\ (a.read = now => r = a.new)
    BY <1>1, <1>3, <2>1, WrittenIs
  <2>3. r.id # NoOne
    BY <1>1, <1>3, <2>1, WrittenIs
  <2>4. ASSUME a.read = now, a.new.bound \in {NoOne, a.new.id}
        PROVE  KeyFits(r) /\ r.ver > now.ver
    <3>1. KeyFits(a.new)
      BY <1>3, <2>4 DEF KeyFits
    <3> HIDE DEF r, a
    <3> QED BY <1>3, <2>1, <2>2, <2>4, <3>1
  <2> QED BY <2>1, <2>2, <2>3, <2>4
<1>5. ASSUME NEW p \in off
      PROVE  /\ p \in Providers /\ readOf(p) \in Creds /\ readOf(p).on
             /\ rows.cred[a.s][p] \in Creds /\ rows.cred[a.s][p].id # NoOne
  <2>1. PICK o \in a.others : o.p = p
    BY <1>5
  <2>2. (CHOOSE x \in a.others : x.p = p) \in a.others
    BY <2>1
  <2> QED BY <1>1, <1>3, <2>1, <2>2
<1> HIDE DEF readOf, off, r
<1>6. ASSUME NEW p \in off, p # a.p
      PROVE  /\ new(p) \in Creds /\ ~new(p).on /\ new(p).id # NoOne
             /\ new(p).ver >= 1
             /\ readOf(p) = rows.cred[a.s][p] =>
                  KeyFits(new(p)) /\ new(p).ver > rows.cred[a.s][p].ver
  BY <1>5, <1>6, SwitchedOff
<1>7. \A p \in Providers : new(p) \in Creds
  BY <1>1, <1>4, <1>6
<1>8. /\ new(a.p) = r
      /\ \A p \in Providers : p # a.p /\ p \notin off =>
                                new(p) = rows.cred[a.s][p]
  OBVIOUS
<1> HIDE DEF new, copies, a, now
<1>9. /\ rows' \in CredentialRows
      /\ \A p \in Providers : rows'.cred[a.s][p] = new(p)
      /\ \A s \in Scopes \ {a.s} : rows'.cred[s] = rows.cred[s]
  <2>1. CC!Unlock(w) \in [Scopes -> [Providers -> Clients \cup {NoOne}]]
    BY <1>0 DEF CC!Unlock, CredentialRows
  <2>2. [p \in Providers |-> new(p)] \in [Providers -> Creds]
    BY <1>7
  <2> QED BY <1>0, <1>1, <1>2, <2>1, <2>2 DEF CredentialRows
<1>10. /\ copies \subseteq Scopes \X Providers
       /\ \A s, p : <<s, p>> \in copies =>
            s = a.s /\ (p = a.p \/ (p \in off /\ readOf(p) # rows.cred[a.s][p]))
       /\ \A p \in off : readOf(p) # rows.cred[a.s][p] => <<a.s, p>> \in copies
  BY <1>1, <1>5 DEF copies
<1>11. /\ ghost' \in CredentialGhosts /\ ghost'.bare = ghost.bare
       /\ ghost'.copied = ghost.copied \cup copies
       /\ ghost'.stale = (ghost.stale \ ({a.s} \X (off \cup {a.p}))) \cup copies
       /\ ghost'.twins = IF CC!ActiveOthers(w) \subseteq off
                           THEN ghost.twins \ {a.s} ELSE ghost.twins \cup {a.s}
  BY <1>0, <1>1, <1>2, <1>10 DEF CredentialGhosts
<1>12. ASSUME NEW s \in Scopes, NEW p \in Providers
       PROVE
           \/ /\ rows'.cred[s][p] = rows.cred[s][p]
              /\ <<s, p>> \in ghost.stale => <<s, p>> \in ghost'.stale
           \/ /\ rows'.cred[s][p].id # NoOne /\ rows'.cred[s][p].ver >= 1
              /\ \/ <<s, p>> \in ghost'.copied /\ <<s, p>> \in ghost'.stale
                 \/ /\ KeyFits(rows'.cred[s][p])
                    /\ rows'.cred[s][p].ver > rows.cred[s][p].ver
  <2>1. CASE s # a.s
    BY <1>9, <1>11, <2>1
  <2>2. CASE s = a.s /\ p = a.p
    BY <1>4, <1>8, <1>9, <1>11, <2>2 DEF now
  <2>3. CASE s = a.s /\ p # a.p /\ p \in off
    BY <1>6, <1>9, <1>10, <1>11, <2>3
  <2>4. CASE s = a.s /\ p # a.p /\ p \notin off
    BY <1>8, <1>9, <1>11, <2>4
  <2> QED BY <2>1, <2>2, <2>3, <2>4
<1>13. CC!OneInUse'
  <2> SUFFICES ASSUME NEW s \in Scopes, s \notin ghost'.twins,
                      NEW p \in CC!Active(s)', NEW q \in CC!Active(s)'
               PROVE  p = q
    BY DEF CC!OneInUse
  <2>1. CASE s # a.s
    <3>1. CC!Active(s)' = CC!Active(s) /\ s \notin ghost.twins
      BY <1>9, <1>11, <2>1 DEF CC!Active
    <3> QED BY <3>1 DEF CredentialInv, CC!OneInUse
  <2>2. CASE s = a.s
    <3>1. CC!ActiveOthers(w) \subseteq off
      BY <1>11, <2>2
    <3>2. \A x \in Providers : x # a.p => ~new(x).on
      <4>1. ASSUME NEW x \in Providers, x # a.p, x \notin off
            PROVE  ~rows.cred[a.s][x].on
        BY <3>1, <4>1 DEF CC!ActiveOthers, CC!At, a
      <4> QED BY <1>6, <1>8, <4>1
    <3> QED BY <1>9, <2>2, <3>2 DEF CC!Active
  <2> QED BY <2>1, <2>2
<1> QED BY <1>2, <1>9, <1>11, <1>12, <1>13, CredentialsWritten

\* The sandbox is made ready, or lost, and a provider is changed.
LEMMA BoxKept ==
  ASSUME CredentialConstants, CredentialInv,
         \/ \E w \in Clients : CC!Ready(w)
         \/ \E p \in Providers, on \in BOOLEAN, k \in Keys \cup {CC!NoKey} :
              CC!ChangeProvider(p, on, k)
         \/ CC!LoseBox
  PROVE  CredentialInv'
<1>0. /\ rows \in CredentialRows /\ procs \in [Clients -> Uses]
      /\ outside \in Boxes /\ ghost \in CredentialGhosts
  BY DEF CredentialInv, CredentialTyped
<1>1. ASSUME rows' \in CredentialRows, rows'.cred = rows.cred,
             procs' \in [Clients -> Uses], outside' \in Boxes,
             ghost' \in CredentialGhosts, ghost'.stale = ghost.stale,
             ghost'.copied = ghost.copied, ghost'.twins = ghost.twins,
             \A w \in Clients : procs'[w] = procs[w] \/ procs'[w] = CC!Idle,
             outside'.there /\ ~ghost'.bare =>
               Tells(outside'.print, outside'.key)
      PROVE  CredentialInv'
  <2>1. CredentialTyped' /\ RowsNumbered' /\ FittingKeys' /\ CC!OneInUse'
    BY <1>1 DEF CredentialInv, CredentialTyped, RowsNumbered, Is,
                FittingKeys, CC!OneInUse, CC!Active
  <2>2. AllMeant'
    BY <1>1, NothingIs DEF CredentialInv, AllMeant, Meant, Is, Writing
  <2>3. AllTell'
    <3>1. outside'.there /\ ~ghost'.bare => Tells(outside.print, outside.key)'
      BY <1>1 DEF Tells
    <3>2. \A w \in Clients : procs'[w].pc = "ready" =>
                               Tells(procs[w].print, procs[w].key)'
      BY <1>1, NothingIs DEF CredentialInv, AllTell, Tells
    <3> QED BY <3>1, <3>2 DEF AllTell
  <2> QED BY <2>1, <2>2, <2>3 DEF CredentialInv
<1>2. ASSUME NEW w \in Clients, CC!Ready(w) PROVE CredentialInv'
  <2> DEFINE e == procs[w]
             none == e.print = CC!NoPrint
             build == ~outside.there \/ (~none /\ outside.print # e.print)
  <2>1. /\ e.pc = "ready" /\ CC!Becomes(w, CC!Idle) /\ rows' = rows
        /\ outside' = IF build
             THEN [there |-> TRUE, key |-> e.key,
                   print |-> IF none THEN outside.print ELSE e.print]
             ELSE outside
        /\ ghost' = [ghost EXCEPT !.bare = IF build THEN none ELSE @]
    BY <1>2 DEF CC!Ready, CC!At
  <2>2. e \in Uses /\ e.key \in KeysOrNone /\ e.print \in Prints
          /\ outside.print \in Prints
    BY <1>0 DEF Uses, Boxes
  <2>3. /\ procs' \in [Clients -> Uses]
        /\ \A u \in Clients : procs'[u] = procs[u] \/ procs'[u] = CC!Idle
    BY <1>0, <2>1, NothingIs DEF CC!Becomes
  <2>4. Tells(e.print, e.key)
    BY <2>1 DEF CredentialInv, AllTell
  <2>5. outside.there /\ ~ghost.bare => Tells(outside.print, outside.key)
    BY DEF CredentialInv, AllTell
  <2>6. build \in BOOLEAN /\ none \in BOOLEAN /\ ghost.bare \in BOOLEAN
    BY <1>0 DEF CredentialGhosts, Boxes
  <2> HIDE DEF e, none, build
  <2>7. /\ ghost' \in CredentialGhosts /\ ghost'.stale = ghost.stale
        /\ ghost'.copied = ghost.copied /\ ghost'.twins = ghost.twins
        /\ ghost'.bare = IF build THEN none ELSE ghost.bare
    BY <1>0, <2>1, <2>6 DEF CredentialGhosts
  <2>8. outside' \in Boxes
    BY <1>0, <2>1, <2>2 DEF Boxes
  <2>9. outside'.there /\ ~ghost'.bare => Tells(outside'.print, outside'.key)
    BY <2>1, <2>4, <2>5, <2>7
  <2> QED BY <1>0, <1>1, <2>1, <2>3, <2>7, <2>8, <2>9
<1>3. ASSUME NEW p \in Providers, NEW on \in BOOLEAN,
             NEW k \in Keys \cup {CC!NoKey}, CC!ChangeProvider(p, on, k)
      PROVE  CredentialInv'
  <2>1. /\ rows' = [rows EXCEPT !.prov[p] = [on |-> on, key |-> k]]
        /\ UNCHANGED <<procs, outside, ghost>>
    BY <1>3 DEF CC!ChangeProvider
  <2>2. rows' \in CredentialRows /\ rows'.cred = rows.cred
    <3>1. k \in KeysOrNone
      BY DEF CC!NoKey, KeysOrNone
    <3> QED BY <1>0, <2>1, <3>1 DEF CredentialRows
  <2> QED BY <1>0, <1>1, <2>1, <2>2 DEF CredentialInv, AllTell
<1>4. CASE CC!LoseBox
  <2>1. /\ outside' = [outside EXCEPT !.there = FALSE, !.key = "none"]
        /\ UNCHANGED <<rows, procs, ghost>>
    BY <1>4 DEF CC!LoseBox, CC!NoKey
  <2>2. outside' \in Boxes /\ ~outside'.there
    BY <1>0, <2>1 DEF Boxes, KeysOrNone
  <2> QED BY <1>0, <1>1, <2>1, <2>2
<1> QED BY <1>2, <1>3, <1>4

LEMMA CredentialKept ==
  ASSUME CredentialConstants, CredentialInv, [CC!Next]_(CC!vars)
  PROVE  CredentialInv'
<1>1. CASE UNCHANGED CC!vars
  BY <1>1 DEF CC!vars, CredentialInv, CredentialTyped, RowsNumbered,
     FittingKeys, AllMeant, Meant, AllTell, Tells, CC!OneInUse, Is, CC!Active
<1>2. ASSUME NEW w \in Clients, NEW s \in Scopes, NEW p \in Providers,
             \/ \E mode \in KeyModes, k \in Keys : CC!Write(w, s, p, mode, k)
             \/ CC!Delete(w, s, p)
      PROVE  CredentialInv'
  BY <1>2, AskedKept
<1>3. ASSUME NEW w \in Clients,
             \/ CC!Get(w) \/ CC!Flush(w) \/ CC!Others(w)
             \/ \E o \in Clients \ {w} : CC!Deadlock(w, o)
      PROVE  CredentialInv'
  BY <1>3, WriteGoesOn
<1>4. ASSUME NEW w \in Clients,
             CC!Commit(w) \/ CC!CommitDelete(w) \/ CC!Resolve(w)
      PROVE  CredentialInv'
  BY <1>4, CommitKept, DeleteKept, ResolveKept
<1>5. CASE \/ \E w \in Clients : CC!Ready(w)
           \/ \E p \in Providers, on \in BOOLEAN, k \in Keys \cup {CC!NoKey} :
                CC!ChangeProvider(p, on, k)
           \/ CC!LoseBox
  BY <1>5, BoxKept
<1> QED
  BY <1>1, <1>2, <1>3, <1>4, <1>5 DEF CC!Next

LEMMA CredentialSafe ==
  ASSUME CredentialInv
  PROVE  CC!KeysKept /\ CC!OneInUse /\ CC!PrintTellsKeys
<1>1. CC!KeysKept
  BY DEF CredentialInv, FittingKeys, KeyFits, CC!KeysKept, CC!OwnKey,
         CC!Readable, CC!NoKey
<1>2. CC!OneInUse
  BY DEF CredentialInv
<1>3. CC!PrintTellsKeys
  <2> SUFFICES ASSUME NEW s \in CC!Deciding, NEW p \in CC!Active(s),
                      outside.there, ~ghost.bare,
                      <<s, p>> \notin ghost.copied,
                      \A o \in Scopes \ {s} : ~CC!There(rows.cred[o][p]),
                      outside.print = CC!Fingerprint(s, p)
               PROVE  outside.key = CC!KeyOf(s, p)
    BY DEF CC!PrintTellsKeys
  <2> DEFINE r == rows.cred[s][p]
  <2>1. /\ s \in Scopes /\ p \in Providers /\ r \in Creds /\ r.on
        /\ r.id # NoOne /\ r.ver >= 1
    BY DEF CC!Deciding, CC!Active, CredentialInv, CredentialTyped,
           CredentialRows, RowsNumbered, Is
  <2>2. /\ outside.print.p = p /\ outside.print.mode = r.mode
        /\ outside.print.ver = r.ver
        /\ r.mode # "manual" => outside.print.hash = CC!KeyOf(s, p)
    BY DEF CC!Fingerprint
  <2>3. outside.print # CC!NoPrint
    BY <2>1, <2>2 DEF CC!NoPrint
  <2>4. Tells(outside.print, outside.key)
    BY DEF CredentialInv, AllTell
  <2>5. CASE r.mode # "manual"
    BY <2>2, <2>3, <2>4, <2>5 DEF Tells
  <2>6. CASE r.mode = "manual"
    <3>1. OfVersion(outside.print, outside.key, rows.cred, ghost.copied)
      BY <2>2, <2>3, <2>4, <2>6 DEF Tells
    <3>2. PICK o \in Scopes :
            /\ rows.cred[o][p].id # NoOne
            /\ <<o, p>> \notin ghost.copied =>
                 LET q == rows.cred[o][p]
                 IN outside.print.ver = q.ver /\ q.on /\ q.mode = "manual"
                      => outside.key = q.key
      BY <2>2, <3>1 DEF OfVersion
    <3>3. o = s
      BY <3>2 DEF CC!There
    <3> QED BY <2>1, <2>2, <2>6, <3>2, <3>3 DEF CC!KeyOf
  <2> QED BY <2>5, <2>6
<1> QED BY <1>1, <1>2, <1>3

\* A credential in use can be decrypted and one that is off has no key, a
\* scope has one in use, and a fingerprint tells keys apart, with what
\* CodingCredentials leaves out, for every set of requests, scopes, providers
\* and keys and any number of versions (services/coding_credential_service.py,
\* repositories/coding_credential_repository.py, coding/credentials.py).
THEOREM CodingCredentialsSafe ==
  CredentialConstants =>
    (CC!Spec => [](CC!KeysKept /\ CC!OneInUse /\ CC!PrintTellsKeys))
<1> SUFFICES ASSUME CredentialConstants
             PROVE  CC!Spec => [](CC!KeysKept /\ CC!OneInUse
                                    /\ CC!PrintTellsKeys)
  OBVIOUS
<1>1. CC!Init => CredentialInv
  BY CredentialInit
<1>2. CredentialInv /\ [CC!Next]_(CC!vars) => CredentialInv'
  BY CredentialKept
<1>3. CredentialInv => CC!KeysKept /\ CC!OneInUse /\ CC!PrintTellsKeys
  BY CredentialSafe
<1> QED BY <1>1, <1>2, <1>3, PTL DEF CC!Spec

\* The three, for the modules that instantiate this one.
LEMMA CodingKept ==
  /\ SandboxConstants =>
       /\ DS!Init => SandboxInv
       /\ SandboxInv /\ [DS!Next]_(DS!vars) => SandboxInv'
       /\ SandboxInv => DS!HoldersHaveCredentials /\ DS!RowKnowsBox
                          /\ DS!SupervisorSpares
  /\ SessionConstants =>
       /\ CS!Init => SessionInv
       /\ SessionInv /\ [CS!Next]_(CS!vars) => SessionInv'
       /\ SessionInv => CS!StartedOnce /\ CS!EndedOnce
                          /\ CS!SessionFollowsTurns /\ CS!CancelledWasAsked
  /\ CredentialConstants =>
       /\ CC!Init => CredentialInv
       /\ CredentialInv /\ [CC!Next]_(CC!vars) => CredentialInv'
       /\ CredentialInv => CC!KeysKept /\ CC!OneInUse /\ CC!PrintTellsKeys
BY SandboxInit, SandboxKept, SandboxSafe, SessionInit, SessionKept,
   SessionSafe, CredentialInit, CredentialKept, CredentialSafe
=============================================================================
