------------------------------ MODULE Identity ------------------------------
(***************************************************************************)
(* Accounts, their credentials and departments: server/routers/            *)
(* auth_router.py, auth_dept_router.py and user_router.py with             *)
(* services/auth_service.py (authorising a CLI), identity_admin_service.py *)
(* and oidc_service.py.                                                    *)
(*                                                                         *)
(* What a transaction does under a row lock is one step, or two with the   *)
(* lock held between them.  Requests that read without a lock and write    *)
(* later are two steps; they write only the columns they change.           *)
(***************************************************************************)
EXTENDS Naturals, FiniteSets

CONSTANTS Workers,  \* requests under way
          NoOne,
          Users,    \* accounts, by their uid
          There,    \* those there at the beginning; none: first run
          Keys,     \* request ids of API keys
          Codes,    \* CLI authorisations; the code is the key's request id
          Subs,     \* OIDC subjects
          Raw,      \* OIDC accounts take the provider's user name as uid
          OidcRole, \* OIDC_DEFAULT_ROLE, taken as it is
          MaxFails  \* login failures that lock an account

VARIABLES
  rows,    \* user, key, cli: the rows; dept: the departments, 1 the default
           \*   one; bound: the pairs of subject and account in placeholders
  procs,   \* per request: what it does next and what it has read
  outside, \* tokens: the logins of OIDC subjects, <<subject, account>>
  ghost    \* late: an account was written after its deletion by a request
           \*   that had read it before; raced: logins of one account, or of
           \*   one subject, overlapped; fails: failures since the last
           \*   successful login or unlocking; dead: keys that were ever revoked

vars == <<rows, procs, outside, ghost>>

Default == 1
NoUser == [st |-> "none", role |-> "user", dept |-> Default, pw |-> "own",
           fails |-> 0, locked |-> FALSE]
NoKey == [user |-> NoOne, dept |-> 0, enabled |-> FALSE, revoked |-> FALSE]
NoCode == [st |-> "none", user |-> NoOne, over |-> FALSE]
Idle == [at |-> "idle", user |-> NoOne, key |-> NoOne, val |-> 0]

Init ==
  /\ rows = [user |-> [u \in Users |-> IF u \in There
                         THEN [NoUser EXCEPT !.st = "active"] ELSE NoUser],
             key |-> [k \in Keys \cup Codes |-> NoKey],
             cli |-> [c \in Codes |-> NoCode],
             dept |-> IF There = {} THEN {} ELSE {Default, 2},
             bound |-> {}]
  /\ procs = [w \in Workers |-> Idle]
  /\ outside = [tokens |-> {}]
  /\ ghost = [late |-> FALSE, raced |-> FALSE, dead |-> {},
              fails |-> [u \in Users |-> 0]]

Active(u) == rows.user[u].st = "active"
At(at) == {w \in Workers : procs[w].at = at}
Goes(w, at, u, k, v) ==
  procs' = [procs EXCEPT ![w] = [at |-> at, user |-> u, key |-> k, val |-> v]]
Ends(w) == procs' = [procs EXCEPT ![w] = Idle]
MarkDead == ghost' = [ghost EXCEPT
  !.dead = @ \cup {k \in DOMAIN rows.key : rows'.key[k].revoked}]
SetUser(u, r) == rows' = [rows EXCEPT !.user[u] = r]

\* Faulty variant: the account is not locked while a key is made for it.
UserFreeAlways(u) == TRUE

\* Requests that hold the row of the account.
UserFree(u) == \A w \in At("key") : procs[w].user # u

-----------------------------------------------------------------------------
(* The first run, and the accounts an administrator makes.                 *)

InitFree == At("init") = {}

\* The count includes deleted accounts.
Initialize(w) ==
  /\ procs[w] = Idle /\ InitFree
  /\ \A u \in Users : rows.user[u].st = "none"
  /\ Goes(w, "init", NoOne, NoOne, 0)
  /\ UNCHANGED <<rows, outside, ghost>>

InitializeCommit(w, u) ==
  /\ procs[w].at = "init" /\ rows.user[u].st = "none"
  /\ rows' = [rows EXCEPT
       !.user[u] = [NoUser EXCEPT !.st = "active", !.role = "superadmin"],
       !.dept = @ \cup {Default}]
  /\ Ends(w) /\ UNCHANGED <<outside, ghost>>

\* create_user: the unique uid decides.
CreateUser(u, role, d) ==
  /\ \E s \in Users : Active(s)
  /\ rows.user[u].st = "none" /\ d \in rows.dept
  /\ SetUser(u, [NoUser EXCEPT !.st = "active", !.role = role, !.dept = d])
  /\ UNCHANGED <<procs, outside, ghost>>

\* create_department_with_admin, in one transaction.
CreateDepartment(u, d) ==
  /\ \E s \in Users : Active(s)
  /\ rows.user[u].st = "none" /\ d \notin rows.dept
  /\ rows' = [rows EXCEPT
       !.user[u] = [NoUser EXCEPT !.st = "active", !.role = "admin", !.dept = d],
       !.dept = @ \cup {d}]
  /\ UNCHANGED <<procs, outside, ghost>>

Password == 0

\* update_user and update_profile: read without a lock, written later.
ReadUser(w, u) ==
  /\ procs[w] = Idle /\ Active(u)
  /\ \E what \in {Password} \cup rows.dept : Goes(w, "write", u, NoOne, what)
  /\ UNCHANGED <<rows, outside, ghost>>

WriteUser(w) ==
  LET u == procs[w].user  v == procs[w].val  r == rows.user[u] IN
  /\ procs[w].at = "write" /\ UserFree(u)
  /\ IF v = Password THEN SetUser(u, [r EXCEPT !.pw = "set"])
     ELSE IF v \in rows.dept THEN SetUser(u, [r EXCEPT !.dept = v])
     ELSE UNCHANGED rows  \* the foreign key
  /\ ghost' = [ghost EXCEPT !.late = @ \/ ~Active(u)]
  /\ Ends(w) /\ UNCHANGED outside

\* The keys, those of ks revoked.
Revoked(ks) ==
  [k \in DOMAIN rows.key |->
     IF k \in ks
     THEN [rows.key[k] EXCEPT !.enabled = FALSE, !.revoked = TRUE]
     ELSE rows.key[k]]

Wiped(r) == [r EXCEPT !.st = "deleted", !.pw = "wiped"]

\* delete_user, by the superadmin or by an admin of the department.
DeleteUser(u) ==
  LET its == {k \in DOMAIN rows.key : rows.key[k].user = u} IN
  /\ Active(u) /\ UserFree(u) /\ rows.user[u].role # "superadmin"
  /\ rows' = [rows EXCEPT !.user[u] = Wiped(@), !.key = Revoked(its)]
  /\ MarkDead /\ UNCHANGED <<procs, outside>>

\* delete_and_migrate_users; writing the accounts waits for their locks.
DeleteDepartment(d) ==
  LET its == {k \in DOMAIN rows.key : rows.key[k].dept = d}
      members == {u \in Users : rows.user[u].st # "none"
                                /\ rows.user[u].dept = d} IN
  /\ d \in rows.dept \ {Default} /\ \A u \in members : UserFree(u)
  /\ rows' = [rows EXCEPT
       !.dept = @ \ {d},
       !.user = [u \in Users |-> IF u \in members
                   THEN [rows.user[u] EXCEPT !.dept = Default]
                   ELSE rows.user[u]],
       !.key = [k \in DOMAIN rows.key |-> IF k \in its
                  THEN [Revoked(its)[k] EXCEPT !.dept = 0] ELSE @[k]]]
  /\ MarkDead /\ UNCHANGED <<procs, outside>>

-----------------------------------------------------------------------------
(* API keys.                                                               *)

Usable(k) ==
  /\ rows.key[k].enabled /\ ~rows.key[k].revoked
  /\ rows.key[k].user # NoOne /\ Active(rows.key[k].user)

\* APIKeyRepository.create up to its flush: the request id and the account
\* are locked.  An id seen before is replayed or refused, nothing changes.
LockForKey(w, k, u, d) ==
  /\ procs[w] = Idle /\ \A v \in At("key") : procs[v].key # k
  /\ Active(u) /\ UserFree(u) /\ d \in {0, rows.user[u].dept}
  /\ rows.key[k].user = NoOne
  /\ Goes(w, "key", u, k, d)

CreateKey(w, k, u, d) ==
  /\ LockForKey(w, k, u, d)
  /\ UNCHANGED <<rows, outside, ghost>>

\* The commit; of a CLI's key with its authorisation.
CommitKey(w) ==
  LET k == procs[w].key IN
  /\ procs[w].at = "key"
  /\ rows' = [rows EXCEPT
       !.key[k] = [user |-> procs[w].user, dept |-> procs[w].val,
                   enabled |-> TRUE, revoked |-> FALSE],
       !.cli = [c \in Codes |-> IF c = k THEN [@[c] EXCEPT !.st = "consumed"]
                                         ELSE @[c]]]
  /\ Ends(w) /\ UNCHANGED <<outside, ghost>>

Rollback(w) ==
  /\ procs[w].at \in {"key", "init"}
  /\ Ends(w) /\ UNCHANGED <<rows, outside, ghost>>

Off == 0
On == 1
Drop == 2

\* update_api_key and delete_api_key: a key not revoked, read without a lock.
ReadKey(w, k) ==
  /\ procs[w] = Idle /\ rows.key[k].user # NoOne /\ ~rows.key[k].revoked
  /\ \E how \in {Off, On, Drop} : Goes(w, "keywrite", NoOne, k, how)
  /\ UNCHANGED <<rows, outside, ghost>>

\* Only the columns of the request.
Written(r, how) ==
  [r EXCEPT !.enabled = (how = On), !.revoked = @ \/ how = Drop]

WriteKey(w) ==
  LET k == procs[w].key IN
  /\ procs[w].at = "keywrite"
  /\ rows' = [rows EXCEPT !.key[k] = Written(@, procs[w].val)]
  /\ MarkDead /\ Ends(w) /\ UNCHANGED outside

-----------------------------------------------------------------------------
(* The authorisation of a CLI: each request holds the session's row.       *)

CodeFree(c) == \A w \in At("key") : procs[w].key # c
SetCode(c, r) == /\ rows' = [rows EXCEPT !.cli[c] = r]
                 /\ UNCHANGED <<procs, outside, ghost>>

CliCreate(c) ==
  /\ rows.cli[c].st = "none" /\ SetCode(c, [NoCode EXCEPT !.st = "pending"])

CliApprove(c, u) ==
  /\ rows.cli[c].st = "pending" /\ ~rows.cli[c].over /\ Active(u)
  /\ SetCode(c, [rows.cli[c] EXCEPT !.st = "approved", !.user = u])

\* Ten minutes are over.
CliTime(c) ==
  /\ rows.cli[c].st # "none" /\ ~rows.cli[c].over
  /\ SetCode(c, [rows.cli[c] EXCEPT !.over = TRUE])

CliExpire(c) ==
  /\ rows.cli[c].st \in {"pending", "approved"} /\ rows.cli[c].over
  /\ CodeFree(c) /\ SetCode(c, [rows.cli[c] EXCEPT !.st = "expired"])

\* The key is made for the user who approved, under the code's request id;
\* a consumed session only shows the same secret again.
CliExchange(w, c) ==
  /\ rows.cli[c].st = "approved" /\ ~rows.cli[c].over
  /\ LockForKey(w, c, rows.cli[c].user, 0)
  /\ UNCHANGED <<rows, outside, ghost>>

-----------------------------------------------------------------------------
(* Logins with a password.                                                 *)

LoginRead(w, u) ==
  /\ procs[w] = Idle /\ Active(u) /\ ~rows.user[u].locked
  /\ MaxFails > 0 /\ rows.user[u].pw # "wiped"
  /\ Goes(w, "login", u, NoOne, rows.user[u].fails)
  /\ ghost' = [ghost EXCEPT !.raced =
                 @ \/ \E v \in At("login") : procs[v].user = u]
  /\ UNCHANGED <<rows, outside>>

\* increment_failed_login counts on from the value that was read.
Locks(n) == n >= MaxFails

\* The password is wrong, or right: what is then equal to what was read is
\* not written.
LoginWrite(w) ==
  LET u == procs[w].user  n == procs[w].val + 1 IN
  /\ procs[w].at = "login" /\ UserFree(u)
  /\ \/ /\ SetUser(u, [rows.user[u] EXCEPT !.fails = n, !.locked = @ \/ Locks(n)])
        /\ ghost' = [ghost EXCEPT !.fails[u] = @ + 1]
     \/ /\ SetUser(u, [rows.user[u] EXCEPT
                          !.fails = IF procs[w].val = 0 THEN @ ELSE 0])
        /\ ghost' = [ghost EXCEPT !.fails[u] = 0]
  /\ Ends(w) /\ UNCHANGED outside

\* A lock that is over is cleared by the next login.
Unlock(u) ==
  /\ rows.user[u].locked /\ UserFree(u)
  /\ SetUser(u, [rows.user[u] EXCEPT !.fails = 0, !.locked = FALSE])
  /\ ghost' = [ghost EXCEPT !.fails[u] = 0]
  /\ UNCHANGED <<procs, outside>>

-----------------------------------------------------------------------------
(* oidc_callback_handler for subject s whose user name at the provider is  *)
(* n: one step reads, the next writes.  A standard account has the subject *)
(* as uid, in raw mode a placeholder binds the subject to an account.      *)

\* find_user_by_oidc_sub, find_deleted_oidc_user_by_sub
BySub(s, st) ==
  {u \in Users : rows.user[u].st = st /\ (u = s \/ <<s, u>> \in rows.bound)}

\* A subject bound to another account is turned away.
ByName(s, n) == BySub(s, "active") \subseteq {n}

\* <<what is to be done, the account>>
Decided(s, n) ==
  IF Raw /\ ~ByName(s, n) THEN {}
  ELSE IF Raw /\ Active(n) THEN {<<"bind", n>>}
  ELSE IF BySub(s, "active") # {}
       THEN {<<"token", u>> : u \in BySub(s, "active")}
  ELSE IF BySub(s, "deleted") # {}
       THEN {<<"restore", u>> : u \in BySub(s, "deleted")}
  ELSE {<<"create", IF Raw THEN n ELSE s>>}

OidcCallback(w, s, n) ==
  /\ procs[w] = Idle
  /\ \E d \in Decided(s, n) : Goes(w, d[1], d[2], s, 0)
  /\ ghost' = [ghost EXCEPT !.raced = @ \/ \E v \in Workers : procs[v].key = s]
  /\ UNCHANGED <<rows, outside>>

Binds(s, u) == IF Raw THEN rows.bound \cup {<<s, u>>} ELSE rows.bound

\* create_oidc_user when its uid is taken: the account of that name, if the
\* subject may be bound to it, or the one another callback has made.
Found(s, u) ==
  IF Raw /\ Active(u) THEN {v \in {u} : ByName(s, u)} ELSE BySub(s, "active")

\* The token is for the account that was found, as it was when it was read.
OidcFinish(w) ==
  LET u == procs[w].user  s == procs[w].key  at == procs[w].at
      Token(v) == outside' = [tokens |-> outside.tokens \cup {<<s, v>>}] IN
  /\ \/ at = "token" /\ Token(u) /\ UNCHANGED rows
     \/ at = "bind" /\ Token(u) /\ rows' = [rows EXCEPT !.bound = Binds(s, u)]
     \/ /\ at = "restore" /\ UserFree(u) /\ Token(u)
        /\ SetUser(u, [rows.user[u] EXCEPT !.st = "active",
                         !.pw = IF @ = "wiped" THEN "own" ELSE @])
     \/ /\ at = "create" /\ rows.user[u].st = "none" /\ Token(u)
        /\ rows' = [rows EXCEPT !.user[u] = [NoUser EXCEPT !.st = "active",
                                                           !.role = OidcRole],
                                !.dept = @ \cup {Default},
                                !.bound = Binds(s, u)]
     \/ /\ at = "create" /\ rows.user[u].st # "none"
        /\ \/ \E v \in Found(s, u) :
                Token(v) /\ rows' = [rows EXCEPT !.bound = Binds(s, v)]
           \/ Found(s, u) = {} /\ UNCHANGED <<rows, outside>>
  /\ Ends(w) /\ UNCHANGED ghost

-----------------------------------------------------------------------------
Requests(w) ==
  \/ Initialize(w)
  \/ \E u \in Users \ Subs : InitializeCommit(w, u)
  \/ \E u \in There : ReadUser(w, u)
  \/ WriteUser(w)
  \/ \E k \in Keys, u \in Users, d \in {0} \cup rows.dept : CreateKey(w, k, u, d)
  \/ CommitKey(w) \/ Rollback(w)
  \/ \E k \in Keys \cup Codes : ReadKey(w, k)
  \/ WriteKey(w)
  \/ \E c \in Codes : CliExchange(w, c)
  \/ \E u \in Users : LoginRead(w, u)
  \/ LoginWrite(w)
  \/ \E s \in Subs, n \in Users : (Raw <=> n \notin Subs) /\ OidcCallback(w, s, n)
  \/ OidcFinish(w)

Next ==
  \/ \E w \in Workers : Requests(w)
  \/ \E u \in Users \ (There \cup Subs), r \in {"user", "admin"}, d \in rows.dept :
       CreateUser(u, r, d)
  \/ \E u \in Users \ (There \cup Subs) : CreateDepartment(u, 2)
  \/ \E u \in Users : DeleteUser(u) \/ Unlock(u)
  \/ \E d \in rows.dept : DeleteDepartment(d)
  \/ \E c \in Codes : CliCreate(c) \/ CliTime(c) \/ CliExpire(c)
  \/ \E c \in Codes, u \in Users : CliApprove(c, u)

Spec == Init /\ [][Next]_vars

-----------------------------------------------------------------------------
\* The system has one superadmin: two requests to initialise it do not make
\* two (initialize_system_admin).  Where OIDC_DEFAULT_ROLE names that role,
\* every new account of a subject has it.
OneSuperadmin ==
  OidcRole # "superadmin" =>
    Cardinality({u \in Users : rows.user[u].role = "superadmin"}) <= 1

\* A deleted account has no key that is not revoked, whatever was under way
\* when it was deleted: making a key holds the account's row (delete_for_admin,
\* APIKeyRepository.create).
DeletedHasNoKey ==
  \A k \in DOMAIN rows.key :
    rows.key[k].user # NoOne /\ rows.user[rows.key[k].user].st = "deleted"
      => rows.key[k].revoked

\* A revoked key is never usable again: not by enabling it, and not when its
\* account comes back by OIDC (restore_deleted_oidc_user).
RevokedIsFinal == \A k \in ghost.dead : ~Usable(k)

\* A key with a department is of a department that is there; with the
\* department go the keys made for it (delete_and_migrate_users).
KeyDepartmentThere ==
  \A k \in DOMAIN rows.key : rows.key[k].dept \in {0} \cup rows.dept

\* A CLI gets a key of the user who approved it, and only by a session that
\* was consumed (exchange_cli_auth_token).
CliKeyIsApprovers ==
  \A c \in Codes : /\ rows.key[c].user # NoOne =>
                        /\ rows.cli[c].st = "consumed"
                        /\ rows.key[c].user = rows.cli[c].user
                   /\ rows.cli[c].st = "consumed" => rows.key[c].user # NoOne

\* Failures of logins that did not overlap are all counted, and lock the
\* account at the limit (login_for_access_token).
FailuresCounted ==
  ghost.raced \/ \A u \in Users :
    /\ rows.user[u].fails = ghost.fails[u]
    /\ rows.user[u].locked <=> ghost.fails[u] >= MaxFails /\ MaxFails > 0

\* The password of a deleted account stays wiped, but for an update that had
\* read the account before (update_user, delete_user).
DeletedStaysWiped ==
  ghost.late \/ \A u \in Users :
    rows.user[u].st = "deleted" => rows.user[u].pw = "wiped"

\* Accounts that several subjects are bound to.
Shared(u) ==
  \E s, t \in Subs : s # t /\ {<<s, u>>, <<t, u>>} \subseteq rows.bound

\* A subject keeps its account: while the account it has logged in to is
\* there, it gets into no other one, whatever its user name has become, but
\* for two of its callbacks at the same time (oidc_callback_handler), and for
\* an account it shares, which another subject may have brought back.
SubjectKeepsAccount ==
  ghost.raced \/ \A s \in Subs, u, v \in Users :
    {<<s, u>>, <<s, v>>} \subseteq outside.tokens /\ u # v
      => \/ Shared(u) \/ Shared(v)
         \/ ~({u, v} \subseteq BySub(s, "active"))

\* One superadmin, unless OIDC logins make more; no usable key of a deleted account or after its revocation;
\* a CLI's key is its approver's; failures lock; a subject keeps its account.
IdentitySafe ==
  /\ OneSuperadmin /\ DeletedHasNoKey /\ RevokedIsFinal
  /\ KeyDepartmentThere /\ CliKeyIsApprovers /\ FailuresCounted
  /\ DeletedStaysWiped /\ SubjectKeepsAccount

=============================================================================
