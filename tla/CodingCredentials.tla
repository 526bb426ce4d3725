--------------------------- MODULE CodingCredentials ---------------------------
(***************************************************************************)
(* Credentials of one coding executor: services/coding_credential_service, *)
(* its repository and routes, coding/credentials.py, and what              *)
(* SandboxLifecycleService.ensure_ready makes of the fingerprint.  A       *)
(* credential has a key of its own, encrypted for its row, or refers to a  *)
(* provider of models and may take the provider's key.                     *)
(***************************************************************************)
EXTENDS Naturals

CONSTANTS Workers,    \* requests; each is also the id of a row it inserts
          NoOne,
          Scopes,     \* within {"user", "global"}
          Providers,
          Keys,
          Modes,      \* within {"manual", "inherit", "custom"}
          Ops,        \* "write", "delete", "provider", "ready", "lose"
          MaxVersion  \* bound on writes of a row

VARIABLES
  rows,     \* coding_credentials, the locks on its rows, the providers
  procs,    \* requests
  outside,  \* the sandbox of the user: its key, and the row's fingerprint
  ghost     \* stale: rows last written from a copy that was not the row;
            \*   copied: rows that ever were; twins: scopes last written
            \*   without sight of another row that was active; bare: the
            \*   sandbox was rebuilt without credentials

vars == <<rows, procs, outside, ghost>>

NoKey == "none"

\* on: status is active; key and bound: the ciphertext, and the id it was
\* encrypted for; kv: key_version is set.
NoCred == [id |-> NoOne, on |-> FALSE, mode |-> "manual", key |-> NoKey,
           bound |-> NoOne, kv |-> FALSE, ver |-> 0]
NoPrint == [p |-> "none", mode |-> "manual", hash |-> NoKey, ver |-> 0]
Idle == [pc |-> "idle", op |-> "none", s |-> CHOOSE s \in Scopes : TRUE,
         p |-> CHOOSE p \in Providers : TRUE, new |-> NoCred,
         read |-> NoCred, others |-> {}, print |-> NoPrint, key |-> NoKey]

Init ==
  /\ rows = [cred |-> [s \in Scopes |-> [p \in Providers |-> NoCred]],
             lock |-> [s \in Scopes |-> [p \in Providers |-> NoOne]],
             prov |-> [p \in Providers |-> [on |-> TRUE, key |-> NoKey]]]
  /\ procs = [w \in Workers |-> Idle]
  /\ outside = [there |-> FALSE, key |-> NoKey, print |-> NoPrint]
  /\ ghost = [stale |-> {}, copied |-> {}, twins |-> {}, bare |-> FALSE]

At(w) == procs[w]
Becomes(w, e) == procs' = [procs EXCEPT ![w] = e]
Row(w) == rows.cred[At(w).s][At(w).p]
There(r) == r.id # NoOne
Unlocked(w, s, p) == rows.lock[s][p] \in {NoOne, w}

\* Columns that differ from the row as it was loaded are written over the
\* row as it is.
Written(now, read, new) ==
  [f \in DOMAIN now |-> IF new[f] # read[f] THEN new[f] ELSE now[f]]

-----------------------------------------------------------------------------
(* Writing a credential.                                                   *)

OwnKey(mode) == mode # "inherit"

\* A provider that is referred to must be enabled.  A key is encrypted for
\* the row, if one is found, and else for the row to be inserted.
Write(w, s, p, mode, k) ==
  /\ "write" \in Ops /\ At(w).pc = "idle"
  /\ rows.cred[s][p].ver < MaxVersion
  /\ mode \in Modes /\ (mode # "manual" => rows.prov[p].on)
  /\ LET r == rows.cred[s][p]
         id == IF OwnKey(mode) /\ There(r) THEN r.id ELSE w
         new == [NoCred EXCEPT !.id = id, !.on = TRUE, !.mode = mode]
     IN Becomes(w, [Idle EXCEPT !.pc = "get", !.op = "write", !.s = s, !.p = p,
          !.read = IF OwnKey(mode) THEN r ELSE NoCred,
          !.new = IF OwnKey(mode)
                    THEN [new EXCEPT !.key = k, !.bound = id, !.kv = TRUE]
                    ELSE new])
  /\ UNCHANGED <<rows, outside, ghost>>

\* CodingCredentialRepository.upsert looks for the row again; the session
\* gives back the copy it has, if it has one.
Get(w) ==
  /\ At(w).pc = "get"
  /\ LET r == IF There(At(w).read) THEN At(w).read ELSE Row(w)
     IN Becomes(w, [At(w) EXCEPT !.pc = "flush", !.read = r,
          !.new.id = IF There(r) THEN r.id ELSE @, !.new.ver = r.ver + 1])
  /\ UNCHANGED <<rows, outside, ghost>>

\* The row is inserted, or written, and stays locked; an insertion fails if
\* another has been committed.
Flush(w) ==
  /\ At(w).pc = "flush" /\ Unlocked(w, At(w).s, At(w).p)
  /\ IF There(At(w).read) = There(Row(w))
       THEN /\ rows' = [rows EXCEPT !.lock[At(w).s][At(w).p] = w]
            /\ Becomes(w, [At(w) EXCEPT !.pc = "others"])
       ELSE UNCHANGED rows /\ Becomes(w, Idle)
  /\ UNCHANGED <<outside, ghost>>

ActiveOthers(w) ==
  {p \in Providers \ {At(w).p} : rows.cred[At(w).s][p].on}

\* deactivate_other_executor_rows: the rows of the scope that are active.
Others(w) ==
  /\ At(w).pc = "others"
  /\ Becomes(w, [At(w) EXCEPT !.pc = "commit", !.others =
       {[p |-> p, read |-> rows.cred[At(w).s][p]] : p \in ActiveOthers(w)}])
  /\ UNCHANGED <<rows, outside, ghost>>

\* A row that is switched off loses its key.
Off(r) == [r EXCEPT !.on = FALSE, !.key = NoKey, !.bound = NoOne,
                    !.kv = FALSE, !.ver = @ + 1]

Unlock(w) == [s \in Scopes |-> [p \in Providers |->
                IF rows.lock[s][p] = w THEN NoOne ELSE rows.lock[s][p]]]

\* They are switched off and all is committed.
Commit(w) ==
  /\ At(w).pc = "commit"
  /\ \A o \in At(w).others : Unlocked(w, At(w).s, o.p)
  /\ LET s == At(w).s
         off == {o.p : o \in At(w).others}
         readOf(p) == (CHOOSE o \in At(w).others : o.p = p).read
         copies == {<<s, q>> : q \in {o \in off : readOf(o) # rows.cred[s][o]}}
                     \cup IF At(w).read # Row(w)
                               \/ At(w).new.bound \notin {NoOne, At(w).new.id}
                            THEN {<<s, At(w).p>>} ELSE {}
     IN /\ rows' = [rows EXCEPT !.lock = Unlock(w), !.cred[s] =
             [p \in Providers |->
               IF p = At(w).p THEN Written(Row(w), At(w).read, At(w).new)
               ELSE IF p \in off
               THEN Written(rows.cred[s][p], readOf(p), Off(readOf(p)))
               ELSE rows.cred[s][p]]]
        /\ ghost' = [ghost EXCEPT
             !.stale = (@ \ ({s} \X (off \cup {At(w).p}))) \cup copies,
             !.copied = @ \cup copies,
             !.twins = IF ActiveOthers(w) \subseteq off THEN @ \ {s}
                       ELSE @ \cup {s}]
  /\ Becomes(w, Idle)
  /\ UNCHANGED outside

\* Two writes wait for each other's row: PostgreSQL ends one of them.
Deadlock(w, o) ==
  /\ At(w).pc = "commit" /\ At(o).pc = "commit" /\ At(w).s = At(o).s
  /\ \E x \in At(w).others : rows.lock[At(w).s][x.p] = o
  /\ \E x \in At(o).others : rows.lock[At(w).s][x.p] = w
  /\ rows' = [rows EXCEPT !.lock = Unlock(w)]
  /\ Becomes(w, Idle)
  /\ UNCHANGED <<outside, ghost>>

\* Only an active credential is deleted.
Delete(w, s, p) ==
  /\ "delete" \in Ops /\ At(w).pc = "idle" /\ rows.cred[s][p].on
  /\ Becomes(w, [Idle EXCEPT !.pc = "delete", !.op = "delete", !.s = s,
                             !.p = p, !.read = rows.cred[s][p]])
  /\ UNCHANGED <<rows, outside, ghost>>

CommitDelete(w) ==
  /\ At(w).pc = "delete" /\ Unlocked(w, At(w).s, At(w).p)
  /\ rows' = [rows EXCEPT !.cred[At(w).s][At(w).p] =
                Written(@, At(w).read, Off(At(w).read))]
  /\ LET row == {<<At(w).s, At(w).p>>}
         copies == IF At(w).read = Row(w) THEN {} ELSE row
     IN ghost' = [ghost EXCEPT !.stale = (@ \ row) \cup copies,
                               !.copied = @ \cup copies]
  /\ Becomes(w, Idle)
  /\ UNCHANGED outside

\* An administrator changes a provider (ModelProviders).
ChangeProvider(p, on, k) ==
  /\ "provider" \in Ops
  /\ rows' = [rows EXCEPT !.prov[p] = [on |-> on, key |-> k]]
  /\ UNCHANGED <<procs, outside, ghost>>

-----------------------------------------------------------------------------
(* Using it.                                                               *)

\* CodingCredentialOwner.decrypt.
Readable(r) == r.on /\ r.kv /\ r.bound = r.id

Active(s) == {p \in Providers : rows.cred[s][p].on}

\* The scope that decides: the user's, if it has an active credential.
Deciding == LET given == {s \in Scopes : Active(s) # {}}
            IN IF "user" \in given THEN {"user"} ELSE given

\* _reference_context: the provider is there and has the key that is needed.
Available(s, p) ==
  LET r == rows.cred[s][p]
  IN r.mode # "manual" =>
       /\ rows.prov[p].on
       /\ r.mode = "inherit" => rows.prov[p].key # NoKey
       /\ r.mode = "custom" => r.key # NoKey

KeyOf(s, p) == IF rows.cred[s][p].mode = "inherit" THEN rows.prov[p].key
               ELSE rows.cred[s][p].key

\* credential_fingerprint: the version stands for the key, and the key's
\* hash is in it only where a provider is referred to.
Fingerprint(s, p) ==
  LET r == rows.cred[s][p]
  IN [p |-> p, mode |-> r.mode, ver |-> r.ver,
      hash |-> IF r.mode = "manual" THEN NoKey ELSE KeyOf(s, p)]

\* build_coding_environment.  Of several active rows the one written last by
\* the clocks of their writers is taken, any of them here; a key that cannot
\* be decrypted is an error; a credential that is missing or not available
\* leaves the environment and fingerprint empty.
Resolve(w) ==
  /\ "ready" \in Ops /\ At(w).pc = "idle"
  /\ \/ /\ Deciding = {}
        /\ Becomes(w, [Idle EXCEPT !.pc = "ready"])
     \/ \E s \in Deciding : \E p \in Active(s) :
          IF Available(s, p)
            THEN /\ OwnKey(rows.cred[s][p].mode) => Readable(rows.cred[s][p])
                 /\ Becomes(w, [Idle EXCEPT !.pc = "ready", !.key = KeyOf(s, p),
                                            !.print = Fingerprint(s, p)])
            ELSE Becomes(w, [Idle EXCEPT !.pc = "ready"])
  /\ UNCHANGED <<rows, outside, ghost>>

\* ensure_ready: a sandbox that is missing is built, and one whose
\* fingerprint is another is built anew, if there is a fingerprint; the row
\* keeps its fingerprint if there is none.
Ready(w) ==
  /\ At(w).pc = "ready"
  /\ LET e == At(w)
         none == e.print = NoPrint
         build == ~outside.there \/ (~none /\ outside.print # e.print)
     IN /\ outside' = IF build
             THEN [there |-> TRUE, key |-> e.key,
                   print |-> IF none THEN outside.print ELSE e.print]
             ELSE outside
        /\ ghost' = [ghost EXCEPT !.bare = IF build THEN none ELSE @]
  /\ Becomes(w, Idle)
  /\ UNCHANGED rows

\* It is suspended, or its container is gone.
LoseBox ==
  /\ "lose" \in Ops /\ outside.there
  /\ outside' = [outside EXCEPT !.there = FALSE, !.key = NoKey]
  /\ UNCHANGED <<rows, procs, ghost>>

Next ==
  \/ \E w \in Workers :
       \/ \E s \in Scopes, p \in Providers :
            \/ \E mode \in Modes, k \in Keys : Write(w, s, p, mode, k)
            \/ Delete(w, s, p)
       \/ Get(w) \/ Flush(w) \/ Others(w) \/ Commit(w)
       \/ \E o \in Workers \ {w} : Deadlock(w, o)
       \/ CommitDelete(w) \/ Resolve(w) \/ Ready(w)
  \/ \E p \in Providers, on \in BOOLEAN, k \in Keys \cup {NoKey} :
       ChangeProvider(p, on, k)
  \/ LoseBox

Spec == Init /\ [][Next]_vars

-----------------------------------------------------------------------------
(* What holds of credentials.                                              *)

\* A credential in use can be decrypted, and one that was switched off or
\* deleted has lost its key, unless the last to write the row had a copy of
\* it that was not the row.
KeysKept ==
  \A s \in Scopes, p \in Providers :
    LET r == rows.cred[s][p]
    IN <<s, p>> \notin ghost.stale =>
         IF r.on /\ OwnKey(r.mode) THEN Readable(r) ELSE r.key = NoKey

\* A scope has one credential of an executor in use, unless the last write
\* did not see another one that was being written.
OneInUse ==
  \A s \in Scopes \ ghost.twins : \A p, q \in Active(s) : p = q

\* As documented, and not so: a scope keeps one active credential of an
\* executor.
OneActiveKept == \A s \in Scopes : \A p, q \in Active(s) : p = q

\* A fingerprint tells keys apart: if the sandbox has that of the credential
\* that decides, it has its key, so that a change is noticed when it is made
\* ready.  This leaves out rows once written from a copy, whose version may
\* have gone back, a sandbox built without credentials under an older
\* fingerprint, and a provider that the user and the administrators both
\* have a credential of.
PrintTellsKeys ==
  \A s \in Deciding : \A p \in Active(s) :
    /\ outside.there /\ ~ghost.bare
    /\ <<s, p>> \notin ghost.copied
    /\ \A o \in Scopes \ {s} : ~There(rows.cred[o][p])
    /\ Available(s, p) /\ outside.print = Fingerprint(s, p)
    => outside.key = KeyOf(s, p)

=============================================================================
