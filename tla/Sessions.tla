------------------------------ MODULE Sessions ------------------------------
(***************************************************************************)
(* Accounts and sign-ins of p4n4-api: the tables users and refresh_tokens, *)
(* the access tokens clients hold, and every handler that writes them      *)
(* (POST /auth/token, /refresh, /logout, /password; the admin routes under *)
(* /users; the `p4n4-api users` command).                                  *)
(*                                                                         *)
(* Handlers run concurrently in a thread pool, each on its own SQLite      *)
(* connection.  Python's sqlite3 opens a transaction at a handler's first  *)
(* INSERT, UPDATE or DELETE, so the SELECTs before it see the database at  *)
(* an earlier moment: a handler is a read step, a wait (argon2 runs in     *)
(* it) and one atomic write step.  A request that raises, or whose process *)
(* dies, rolls its write step back.                                        *)
(*                                                                         *)
(* Tokens are numbered in the order they are issued (uuid4 in the code)    *)
(* and a sign-in (refresh_tokens.family, the access token's "sid") has the *)
(* number of its first refresh token.                                      *)
(***************************************************************************)
EXTENDS Naturals, FiniteSets

CONSTANTS
  Users,       \* usernames
  Passwords,
  Roles,       \* includes "admin"; the other roles differ only in rank
  DevUsers,    \* the development accounts (DEV_USERS), if they are seeded
  Requests,    \* the requests and commands that can be in progress at the same time
  AccessTTL,   \* lifetime of an access token, in ticks of the clock
  RefreshTTL,  \* lifetime of a refresh token
  None,        \* no value
  MaxTokens, MaxGen, MaxTime,  \* bounds: sign-ins and refreshes, token_gen, clock
  Upgrades     \* bound: whether stored hashes become outdated in this instance

ASSUME RolesAssumption == "admin" \in Roles /\ None \notin Roles
ASSUME UsersAssumption == IsFiniteSet(Users) /\ DevUsers \subseteq Users
ASSUME TTLAssumption ==
  AccessTTL \in Nat \ {0} /\ RefreshTTL \in Nat /\ AccessTTL <= RefreshTTL
ASSUME BoundsAssumption == MaxTokens \in Nat /\ MaxGen \in Nat /\ MaxTime \in Nat
                           /\ Upgrades \in BOOLEAN

VARIABLES
  users,           \* the table users, by username
  refresh_tokens,  \* the table refresh_tokens, a set of rows
  issued,          \* how many refresh tokens were ever issued
  access,          \* the access tokens issued that have not expired
  ended,           \* history: the sign-ins revoked on purpose, not by expiry
  now,             \* the clock
  audit,           \* the entry the last step added to audit_log, or None
  req              \* what each request in progress has read and will do

vars == <<users, refresh_tokens, issued, access, ended, now, audit, req>>

Account == [pw: Passwords, old_hash: BOOLEAN, role: Roles, gen: Nat, must_change: BOOLEAN]
NoAccount == [pw |-> None, old_hash |-> FALSE, role |-> None,
              gen |-> 0, must_change |-> FALSE]

Row == [jti: Nat, username: Users, family: Nat, expires_at: Nat, used: BOOLEAN]
AccessToken == [sub: Users, gen: Nat, sid: Nat, exp: Nat]
Entry == [actor: Users, action: {"create", "update", "sign_out", "delete"}, target: Users]

Idle == [op |-> "idle"]
Request ==
  {Idle}
  \cup [op: {"login", "password"}, name: Users, pw: Passwords, seen: Account]
                                                     \* pw verified on the row seen
  \cup [op: {"rotate", "revoke"}, row: Row]          \* refresh token looked up
  \cup [op: {"me"}, name: Users]                     \* /password: signed in
  \cup [op: {"admin"}, actor: Users]                 \* /users: allowed in
  \cup [op: {"found"}, actor: Users, name: Users]    \* ... and the user exists

\* The values of the tables, of the tokens clients hold and of the requests in progress.
TypeOK ==
  /\ users \in [Users -> Account \cup {NoAccount}]
  /\ refresh_tokens \subseteq Row
  /\ issued \in Nat
  /\ access \subseteq AccessToken
  /\ ended \subseteq Nat
  /\ now \in Nat
  /\ audit \in Entry \cup {None}
  /\ req \in [Requests -> Request]

-----------------------------------------------------------------------------
(* The tables *)

Exists(u) == users[u].role # None
Admins == {u \in Users : users[u].role = "admin"}

\* _NOT_LAST_ADMIN: the row isn't an admin, or another admin remains.
\* A defect to test the properties with: the count includes the row itself.
SomeAdmin(u) == users[u].role # "admin" \/ Cardinality(Admins) > 0
NotLastAdmin(u) == users[u].role # "admin" \/ Cardinality(Admins) > 1

RowsOf(rows, f) == {r \in rows : r.family = f}
SignInsOf(rows, u) == {r.family : r \in {x \in rows : x.username = u}}

\* A defect to test the properties with: DELETE ... AND used = 0.
WithoutUnusedOfFamily(rows, f) == {r \in rows : r.family # f \/ r.used}
WithoutFamily(rows, f) == {r \in rows : r.family # f}

\* A defect to test the properties with: used rows outlive their user.
WithoutUnusedOfUser(rows, u) == {r \in rows : r.username # u \/ r.used}
WithoutUser(rows, u) == {r \in rows : r.username # u}

\* A defect to test the properties with: the old refresh token keeps working.
MarkNothing(rows, j) == rows
MarkUsed(rows, j) == {IF r.jti = j THEN [r EXCEPT !.used = TRUE] ELSE r : r \in rows}

\* A defect to test the properties with: the comparison the wrong way round.
PrunedBackwards(rows) == {r \in rows : r.expires_at <= now}
Pruned(rows) == {r \in rows : r.expires_at >= now}

\* The sid of a new sign-in.  A defect to test the properties with: one default for all.
OldSignIn == 1
NewSignIn == issued + 1

\* issue_tokens: a new pair for sign-in f of user u, over the rows the transaction has.
NewRow(u, f) == [jti |-> issued + 1, username |-> u, family |-> f,
                 expires_at |-> now + RefreshTTL, used |-> FALSE]
NewAccess(u, gen, f) == [sub |-> u, gen |-> gen, sid |-> f, exp |-> now + AccessTTL]

IssueTokens(u, gen, f, rows) ==
  /\ issued < MaxTokens
  /\ issued' = issued + 1
  /\ refresh_tokens' = Pruned(rows \cup {NewRow(u, f)})
  /\ access' = access \cup {NewAccess(u, gen, f)}

\* current_user: the access token is genuine and unexpired, its user and its sign-in are
\* there, and no password change or sign-out came since.
Accepted(a) ==
  /\ a.exp > now
  /\ Exists(a.sub)
  /\ a.gen = users[a.sub].gen
  /\ \E r \in refresh_tokens : r.family = a.sid /\ r.username = a.sub

\* A field the body leaves out keeps its value.  A defect to test the properties with: it is
\* written anyway.
RoleOverwritten(acc, role) == [acc EXCEPT !.role = role]
WithRole(acc, role) == IF role # None THEN [acc EXCEPT !.role = role] ELSE acc

WithPassword(acc, pw, must) ==
  [pw |-> pw, old_hash |-> FALSE, role |-> acc.role, gen |-> acc.gen + 1,
   must_change |-> must]

-----------------------------------------------------------------------------
(* Requests *)

Become(p, r) == req' = [req EXCEPT ![p] = r]
Done(p) == Become(p, Idle)

Tables == <<users, refresh_tokens, issued, access, ended>>
ReadOnly == UNCHANGED <<Tables, now>> /\ audit' = None

\* The answer is an error and the transaction, if any, is rolled back: a refused change,
\* "database is locked" after 10 s, the process killed.
Fail(p) ==
  /\ req[p] # Idle
  /\ Done(p)
  /\ ReadOnly

\* token(): authenticate reads the row and verifies the password against it ...
LoginRead(p, u, pw) ==
  /\ req[p] = Idle
  /\ Exists(u) /\ users[u].pw = pw
  /\ Become(p, [op |-> "login", name |-> u, pw |-> pw, seen |-> users[u]])
  /\ ReadOnly

\* ... then stores a new hash of it if the old one's parameters are outdated, and issues
\* tokens.  The foreign key refuses the token of a user deleted meanwhile.
\* A defect to test the properties with: every sign-in stores a new hash.
RehashAlways(acc, pw, seen) == [acc EXCEPT !.pw = pw, !.old_hash = FALSE]
Rehash(acc, pw, seen) ==
  IF seen.old_hash THEN [acc EXCEPT !.pw = pw, !.old_hash = FALSE] ELSE acc

LoginWrite(p) ==
  /\ req[p].op = "login"
  /\ LET u == req[p].name IN
     /\ Exists(u)
     /\ users' = [users EXCEPT ![u] = Rehash(@, req[p].pw, req[p].seen)]
     /\ IssueTokens(u, req[p].seen.gen, NewSignIn, refresh_tokens)
  /\ Done(p)
  /\ audit' = None
  /\ UNCHANGED <<ended, now>>

\* _refresh_row, for /refresh and /logout.
TokenRead(p, op, r) ==
  /\ req[p] = Idle
  /\ r \in refresh_tokens /\ r.expires_at > now
  /\ Become(p, [op |-> op, row |-> r])
  /\ ReadOnly

RotateWrite(p) ==
  /\ req[p].op = "rotate"
  /\ LET row == req[p].row IN
     /\ ~row.used
     /\ Exists(row.username)
     /\ IssueTokens(row.username, users[row.username].gen, row.family,
                    MarkUsed(refresh_tokens, row.jti))
  /\ Done(p)
  /\ audit' = None
  /\ UNCHANGED <<users, ended, now>>

\* A token that was used before: the sign-in is revoked, and the request refused.
ReuseWrite(p) ==
  /\ req[p].op = "rotate"
  /\ req[p].row.used
  /\ refresh_tokens' = WithoutFamily(refresh_tokens, req[p].row.family)
  /\ ended' = ended \cup {req[p].row.family}
  /\ Done(p)
  /\ audit' = None
  /\ UNCHANGED <<users, issued, access, now>>

RevokeWrite(p) ==
  /\ req[p].op = "revoke"
  /\ refresh_tokens' = WithoutFamily(refresh_tokens, req[p].row.family)
  /\ ended' = ended \cup {req[p].row.family}
  /\ Done(p)
  /\ audit' = None
  /\ UNCHANGED <<users, issued, access, now>>

\* change_password: current_user, then authenticate, then one transaction.
CurrentUser(p, a) ==
  /\ req[p] = Idle
  /\ Accepted(a)
  /\ Become(p, [op |-> "me", name |-> a.sub])
  /\ ReadOnly

PasswordRead(p, pw) ==
  /\ req[p].op = "me"
  /\ Exists(req[p].name) /\ users[req[p].name].pw = pw
  /\ Become(p, [op |-> "password", name |-> req[p].name, pw |-> pw,
                seen |-> users[req[p].name]])
  /\ ReadOnly

PasswordWrite(p, new) ==
  /\ req[p].op = "password"
  /\ LET u == req[p].name IN
     /\ Exists(u) /\ users[u].gen < MaxGen
     /\ users' = [users EXCEPT ![u] = WithPassword(@, new, FALSE)]
     /\ IssueTokens(u, users[u].gen + 1, NewSignIn, WithoutUser(refresh_tokens, u))
     /\ ended' = ended \cup SignInsOf(refresh_tokens, u)
  /\ Done(p)
  /\ audit' = None
  /\ UNCHANGED now

\* require_role("admin"), for every route under /users.
RequireAdmin(p, a) ==
  /\ req[p] = Idle
  /\ Accepted(a)
  /\ users[a.sub].role = "admin" /\ ~users[a.sub].must_change
  /\ Become(p, [op |-> "admin", actor |-> a.sub])
  /\ ReadOnly

\* A defect to test the properties with: the actor and the target swapped.
AuditedSwapped(p, action, u) ==
  audit' = [actor |-> u, action |-> action, target |-> req[p].actor]
Audited(p, action, u) ==
  audit' = [actor |-> req[p].actor, action |-> action, target |-> u]

NewAccount(pw, role, must) ==
  [pw |-> pw, old_hash |-> FALSE, role |-> role, gen |-> 0, must_change |-> must]

CreateWrite(p, u, pw, role, must) ==
  /\ req[p].op = "admin"
  /\ ~Exists(u)
  /\ users' = [users EXCEPT ![u] = NewAccount(pw, role, must)]
  /\ Audited(p, "create", u)
  /\ Done(p)
  /\ UNCHANGED <<refresh_tokens, issued, access, ended, now>>

\* _existing
FindUser(p, u) ==
  /\ req[p].op = "admin"
  /\ Exists(u)
  /\ Become(p, [op |-> "found", actor |-> req[p].actor, name |-> u])
  /\ ReadOnly

\* The part of a set_password or sign_out_everywhere that ends u's sign-ins, and of a
\* delete (ON DELETE CASCADE).
EndSignIns(u) ==
  /\ refresh_tokens' = WithoutUser(refresh_tokens, u)
  /\ ended' = ended \cup SignInsOf(refresh_tokens, u)

\* update_user: password (with must_change), else must_change, then role; None is a field
\* the body leaves out.  Demoting the last admin rolls everything back, as does a user
\* deleted meanwhile.
UpdateWrite(p, pw, must, role) ==
  /\ req[p].op = "found"
  /\ LET u == req[p].name
         acc == IF pw # None THEN WithPassword(users[u], pw, must = TRUE)
                ELSE IF must # None THEN [users[u] EXCEPT !.must_change = must]
                ELSE users[u]
     IN
     /\ Exists(u)
     /\ role \in {None, "admin"} \/ NotLastAdmin(u)
     /\ pw # None => users[u].gen < MaxGen
     /\ users' = [users EXCEPT ![u] = WithRole(acc, role)]
     /\ IF pw # None THEN EndSignIns(u) ELSE UNCHANGED <<refresh_tokens, ended>>
     /\ Audited(p, "update", u)
  /\ Done(p)
  /\ UNCHANGED <<issued, access, now>>

SignedOut(acc) == [acc EXCEPT !.gen = @ + 1]

SignOutWrite(p) ==
  /\ req[p].op = "found"
  /\ LET u == req[p].name IN
     /\ users[u].gen < MaxGen
     /\ users' = IF Exists(u) THEN [users EXCEPT ![u] = SignedOut(@)] ELSE users
     /\ EndSignIns(u)
     /\ Audited(p, "sign_out", u)
  /\ Done(p)
  /\ UNCHANGED <<issued, access, now>>

\* delete_user answers 204, with an audit entry, also when the user is already gone.
DeleteWrite(p) ==
  /\ req[p].op = "found"
  /\ LET u == req[p].name IN
     /\ NotLastAdmin(u)
     /\ users' = [users EXCEPT ![u] = NoAccount]
     /\ EndSignIns(u)
     /\ Audited(p, "delete", u)
  /\ Done(p)
  /\ UNCHANGED <<issued, access, now>>

-----------------------------------------------------------------------------
(* The command `p4n4-api users`: no sign-in, no audit entry, and it may remove or    *)
(* demote the last admin.  It finds the user missing or writes in one transaction.   *)

Command(p) ==
  /\ req[p] = Idle
  /\ audit' = None
  /\ UNCHANGED <<issued, access, now, req>>

CliAdd(p, u, pw, role, must) ==
  /\ ~Exists(u)
  /\ users' = [users EXCEPT ![u] = NewAccount(pw, role, must)]
  /\ UNCHANGED <<refresh_tokens, ended>>
  /\ Command(p)

CliBootstrap(p, u, pw) ==
  /\ \A v \in Users : ~Exists(v)
  /\ users' = [users EXCEPT ![u] = NewAccount(pw, "admin", FALSE)]
  /\ UNCHANGED <<refresh_tokens, ended>>
  /\ Command(p)

CliRemove(p, u) ==
  /\ Exists(u)
  /\ users' = [users EXCEPT ![u] = NoAccount]
  /\ EndSignIns(u)
  /\ Command(p)

CliPasswd(p, u, pw, must) ==
  /\ Exists(u) /\ users[u].gen < MaxGen
  /\ users' = [users EXCEPT ![u] = WithPassword(@, pw, must)]
  /\ EndSignIns(u)
  /\ Command(p)

CliSignOut(p, u) ==
  /\ Exists(u) /\ users[u].gen < MaxGen
  /\ users' = [users EXCEPT ![u] = SignedOut(@)]
  /\ EndSignIns(u)
  /\ Command(p)

CliRole(p, u, role) ==
  /\ Exists(u)
  /\ users' = [users EXCEPT ![u].role = role]
  /\ UNCHANGED <<refresh_tokens, ended>>
  /\ Command(p)

-----------------------------------------------------------------------------
(* The environment *)

\* seed_dev_users, at a start with P4N4_API_DEV_USERS=true: the development accounts that are
\* missing.  Other processes on the database may have requests in progress.
SeedDevUsers(roles, pw) ==
  /\ users' = [u \in Users |-> IF u \in DevUsers /\ ~Exists(u)
                               THEN NewAccount(pw, roles[u], FALSE) ELSE users[u]]
  /\ audit' = None
  /\ UNCHANGED <<refresh_tokens, issued, access, ended, now, req>>

\* An upgrade brings argon2 parameters that outdate the stored hashes.  Requests in
\* progress end with the old process.
Upgrade ==
  /\ Upgrades
  /\ req = [p \in Requests |-> Idle]
  /\ users' = [u \in Users |-> IF Exists(u) THEN [users[u] EXCEPT !.old_hash = TRUE]
                                          ELSE users[u]]
  /\ audit' = None
  /\ UNCHANGED <<refresh_tokens, issued, access, ended, now, req>>

Tick ==
  /\ now < MaxTime
  /\ now' = now + 1
  /\ access' = {a \in access : a.exp > now + 1}
  /\ audit' = None
  /\ UNCHANGED <<users, refresh_tokens, issued, ended, req>>

Init ==
  /\ users = [u \in Users |-> NoAccount]
  /\ refresh_tokens = {} /\ issued = 0 /\ access = {} /\ ended = {}
  /\ now = 0
  /\ audit = None
  /\ req = [p \in Requests |-> Idle]

SignInStep(p) ==
  \/ \E u \in Users, pw \in Passwords : LoginRead(p, u, pw)
  \/ LoginWrite(p)
  \/ \E r \in refresh_tokens, op \in {"rotate", "revoke"} : TokenRead(p, op, r)
  \/ RotateWrite(p)
  \/ ReuseWrite(p)
  \/ RevokeWrite(p)
  \/ \E a \in access : CurrentUser(p, a)
  \/ \E pw \in Passwords : PasswordRead(p, pw)
  \/ \E pw \in Passwords : PasswordWrite(p, pw)
  \/ Fail(p)

AdminStep(p) ==
  \/ \E a \in access : RequireAdmin(p, a)
  \/ \E u \in Users, pw \in Passwords, role \in Roles, must \in BOOLEAN :
       CreateWrite(p, u, pw, role, must)
  \/ \E u \in Users : FindUser(p, u)
  \/ \E pw \in Passwords \cup {None}, must \in BOOLEAN \cup {None}, role \in Roles \cup {None} :
       UpdateWrite(p, pw, must, role)
  \/ SignOutWrite(p)
  \/ DeleteWrite(p)

CliStep(p) ==
  \/ \E u \in Users, pw \in Passwords, role \in Roles, must \in BOOLEAN :
       CliAdd(p, u, pw, role, must)
  \/ \E u \in Users, pw \in Passwords : CliBootstrap(p, u, pw)
  \/ \E u \in Users : CliRemove(p, u)
  \/ \E u \in Users, pw \in Passwords, must \in BOOLEAN : CliPasswd(p, u, pw, must)
  \/ \E u \in Users : CliSignOut(p, u)
  \/ \E u \in Users, role \in Roles : CliRole(p, u, role)

Next ==
  \/ \E p \in Requests : SignInStep(p) \/ AdminStep(p) \/ CliStep(p)
  \/ \E roles \in [DevUsers -> Roles], pw \in Passwords : SeedDevUsers(roles, pw)
  \/ Upgrade
  \/ Tick

Spec == Init /\ [][Next]_vars

-----------------------------------------------------------------------------
(* Properties *)

\* Foreign key and family integrity: a refresh token belongs to an account that exists,
\* and all the tokens of a sign-in, refresh and access, to the same user - although
\* rotate writes a family and a username it read before other requests' deletions.
SignInsHaveOwners ==
  \A r \in refresh_tokens :
    /\ Exists(r.username)
    /\ \A s \in refresh_tokens : s.family = r.family => s.username = r.username
    /\ \A a \in access : a.sid = r.family => a.sub = r.username

\* _session_live's comment: expiry pruning never ends a live sign-in early.  While an access
\* token has not expired, its sign-in keeps a row unless it was revoked on purpose.
SignInOutlivesAccess ==
  \A a \in access : a.sid \notin ended =>
    \E r \in refresh_tokens : r.family = a.sid /\ r.username = a.sub

\* No request leaves the system without an admin, whatever two admins do to each other at
\* the same time (the guard is in the write); only the command on the server can.
AdminRemains ==
  [][(\E p \in Requests : req'[p] # req[p]) /\ Admins # {} => Admins' # {}]_vars

\* A sign-in without rows gets one again only from a refresh that had read one of its
\* tokens before they were deleted: the window of rotate is the only way back.
RevivalNeedsRefresh ==
  [][\A f \in 1 .. issued :
       /\ RowsOf(refresh_tokens, f) = {}
       /\ \A p \in Requests : req[p].op = "rotate" => req[p].row.family # f
       => RowsOf(refresh_tokens', f) = {}]_vars

\* set_password ends a user's access tokens with the old password (token_gen), and neither a
\* sign-in under way, which verified a password that was changed since, nor a start that seeds
\* the development accounts brings an older password back - but a sign-in that found the
\* hash outdated as well.
PasswordsStay ==
  [][\A u \in Users :
       /\ Exists(u) /\ Exists(u)' /\ users'[u].pw # users[u].pw
       /\ \A p \in Requests :
            req[p].op = "login" /\ req[p].name = u => ~req[p].seen.old_hash
       => users'[u].gen = users[u].gen + 1]_vars

\* An account changes through a request of an admin only together with an entry in the
\* audit log that names that admin and that account.
AdminChangesAreAudited ==
  [][\A p \in Requests, u \in Users :
       req[p].op \in {"admin", "found"} /\ req'[p] = Idle /\ users'[u] # users[u]
       => audit' \in Entry /\ audit'.actor = req[p].actor /\ audit'.target = u]_vars

\* The refresh token given for a new pair was unused and unrevoked when the pair was issued
\* (rotate: "Each refresh token works once").
RefreshTokenWorksOnce ==
  [][\A p \in Requests :
       req[p].op = "rotate" /\ req'[p] # req[p] /\ issued' # issued
       => \E r \in refresh_tokens : r.jti = req[p].row.jti /\ ~r.used]_vars

\* Signing out, reusing a refresh token, changing a password and removing a user end
\* sign-ins for good: a revoked sign-in has no refresh token.
RevokedStaysRevoked ==
  \A f \in ended : RowsOf(refresh_tokens, f) = {}

-----------------------------------------------------------------------------
(* One request at a time, sign-ins are what SignIns promises. *)

Working(f) == {r.jti : r \in {x \in RowsOf(refresh_tokens, f) : ~x.used}}

Promise == INSTANCE SignIns WITH
  Ids <- 1 .. MaxTokens,
  taken <- 1 .. issued,
  current <- [f \in 1 .. MaxTokens |->
                IF Working(f) = {} THEN 0 ELSE CHOOSE j \in Working(f) : TRUE]

\* rotate, revoke, set_password, sign_out_everywhere, delete and pruning implement a table
\* of sign-ins with one current token each, where what is over stays over.
ImplementsSignIns == Promise!Spec
=============================================================================
