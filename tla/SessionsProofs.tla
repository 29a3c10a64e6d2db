--------------------------- MODULE SessionsProofs ---------------------------
(***************************************************************************)
(* Proofs about Sessions, for any number of users, requests and tokens.    *)
(***************************************************************************)
EXTENDS Sessions, FiniteSetTheorems, TLAPS

-----------------------------------------------------------------------------
(* Types *)

\* What the `op` of a request in progress says about its other fields.
LEMMA RequestFields ==
  ASSUME TypeOK, NEW p \in Requests
  PROVE  /\ req[p].op \in {"login", "password"} =>
              /\ req[p].name \in Users
              /\ req[p].pw \in Passwords
              /\ req[p].seen \in Account
         /\ req[p].op \in {"rotate", "revoke"} => req[p].row \in Row
         /\ req[p].op = "me" => req[p].name \in Users
         /\ req[p].op = "admin" => req[p].actor \in Users
         /\ req[p].op = "found" => req[p].actor \in Users /\ req[p].name \in Users
  BY DEF TypeOK, Request, Idle

\* The row of an account that exists is a complete one.
LEMMA ExistingAccount ==
  ASSUME TypeOK, NEW u \in Users, Exists(u)
  PROVE  users[u] \in Account
  BY DEF TypeOK, Exists, NoAccount

\* The row functions keep to the rows they are given, up to `used`.
LEMMA RowFunctions ==
  ASSUME NEW rows \in SUBSET Row
  PROVE  /\ \A f : WithoutFamily(rows, f) \in SUBSET Row
         /\ \A u : WithoutUser(rows, u) \in SUBSET Row
         /\ \A j : MarkUsed(rows, j) \in SUBSET Row
         /\ Pruned(rows) \in SUBSET Row
<1>1. \A j : MarkUsed(rows, j) \in SUBSET Row
  <2>1. ASSUME NEW r \in Row
        PROVE  [r EXCEPT !.used = TRUE] \in Row
    BY DEF Row
  <2>2. QED
    BY <2>1 DEF MarkUsed
<1>2. QED
  BY <1>1 DEF WithoutFamily, WithoutUser, Pruned

LEMMA IssueTokensType ==
  ASSUME TypeOK, NEW u \in Users, NEW gen \in Nat, NEW f \in Nat,
         NEW rows \in SUBSET Row, IssueTokens(u, gen, f, rows)
  PROVE  issued' \in Nat /\ refresh_tokens' \subseteq Row /\ access' \subseteq AccessToken
<1>1. NewRow(u, f) \in Row
  BY TTLAssumption DEF TypeOK, NewRow, Row
<1>2. NewAccess(u, gen, f) \in AccessToken
  BY TTLAssumption DEF TypeOK, NewAccess, AccessToken
<1>3. Pruned(rows \cup {NewRow(u, f)}) \subseteq Row
  BY <1>1 DEF Pruned
<1>4. issued \in Nat /\ access \subseteq AccessToken
  BY DEF TypeOK
<1>5. QED
  BY <1>2, <1>3, <1>4 DEF IssueTokens

LEMMA SignInsType ==
  ASSUME TypeOK, NEW u \in Users
  PROVE  SignInsOf(refresh_tokens, u) \subseteq Nat
  BY DEF SignInsOf, TypeOK, Row

\* One step of each kind keeps the types.
LEMMA SignInTypes ==
  ASSUME TypeOK, NEW p \in Requests, SignInStep(p)
  PROVE  TypeOK'
<1> USE DEF Tables, Done, Become
<1>0. Idle \in Request
  BY DEF Request
<1>1. ASSUME NEW r \in Request, req' = [req EXCEPT ![p] = r]
      PROVE  req' \in [Requests -> Request]
  BY <1>1 DEF TypeOK
<1>2. ASSUME NEW u \in Users, NEW pw \in Passwords, LoginRead(p, u, pw)
      PROVE  TypeOK'
  <2>1. [op |-> "login", name |-> u, pw |-> pw, seen |-> users[u]] \in Request
    BY <1>2, ExistingAccount DEF LoginRead, Request
  <2>2. QED
    BY <1>1, <1>2, <2>1 DEF LoginRead, ReadOnly, TypeOK
<1>3. CASE LoginWrite(p)
  <2> DEFINE u == req[p].name
  <2>1. u \in Users /\ req[p].pw \in Passwords /\ req[p].seen \in Account
    BY <1>3, RequestFields DEF LoginWrite
  <2>2. users[u] \in Account
    BY <1>3, <2>1, ExistingAccount DEF LoginWrite
  <2>3. Rehash(users[u], req[p].pw, req[p].seen) \in Account
    BY <2>1, <2>2 DEF Rehash, Account
  <2>4. users' \in [Users -> Account \cup {NoAccount}]
    BY <1>3, <2>1, <2>3 DEF LoginWrite, TypeOK
  <2>5. NewSignIn \in Nat /\ req[p].seen.gen \in Nat /\ refresh_tokens \in SUBSET Row
    BY <2>1 DEF NewSignIn, TypeOK, Account
  <2>6. issued' \in Nat /\ refresh_tokens' \subseteq Row /\ access' \subseteq AccessToken
    BY <1>3, <2>1, <2>5, IssueTokensType DEF LoginWrite
  <2>7. QED
    BY <1>0, <1>1, <1>3, <2>4, <2>6 DEF LoginWrite, TypeOK
<1>4. ASSUME NEW r \in refresh_tokens, NEW op \in {"rotate", "revoke"}, TokenRead(p, op, r)
      PROVE  TypeOK'
  <2>1. [op |-> op, row |-> r] \in Request
    BY DEF Request, TypeOK
  <2>2. QED
    BY <1>1, <1>4, <2>1 DEF TokenRead, ReadOnly, TypeOK
<1>5. CASE RotateWrite(p)
  <2> DEFINE row == req[p].row
  <2>1. row \in Row
    BY <1>5, RequestFields DEF RotateWrite
  <2>2. row.username \in Users /\ row.family \in Nat
    BY <2>1 DEF Row
  <2>3. users[row.username] \in Account
    BY <1>5, <2>2, ExistingAccount DEF RotateWrite
  <2>4. users[row.username].gen \in Nat
    BY <2>3 DEF Account
  <2>5. MarkUsed(refresh_tokens, row.jti) \in SUBSET Row
    BY RowFunctions DEF TypeOK
  <2>6. issued' \in Nat /\ refresh_tokens' \subseteq Row /\ access' \subseteq AccessToken
    BY <1>5, <2>2, <2>4, <2>5, IssueTokensType DEF RotateWrite
  <2>7. QED
    BY <1>0, <1>1, <1>5, <2>6 DEF RotateWrite, TypeOK
<1>6. CASE ReuseWrite(p)
  <2>1. req[p].row.family \in Nat
    BY <1>6, RequestFields DEF ReuseWrite, Row
  <2>2. WithoutFamily(refresh_tokens, req[p].row.family) \in SUBSET Row
    BY RowFunctions DEF TypeOK
  <2>3. QED
    BY <1>0, <1>1, <1>6, <2>1, <2>2 DEF ReuseWrite, TypeOK
<1>7. CASE RevokeWrite(p)
  <2>1. req[p].row.family \in Nat
    BY <1>7, RequestFields DEF RevokeWrite, Row
  <2>2. WithoutFamily(refresh_tokens, req[p].row.family) \in SUBSET Row
    BY RowFunctions DEF TypeOK
  <2>3. QED
    BY <1>0, <1>1, <1>7, <2>1, <2>2 DEF RevokeWrite, TypeOK
<1>8. ASSUME NEW a \in access, CurrentUser(p, a)
      PROVE  TypeOK'
  <2>1. [op |-> "me", name |-> a.sub] \in Request
    BY DEF Request, TypeOK, AccessToken
  <2>2. QED
    BY <1>1, <1>8, <2>1 DEF CurrentUser, ReadOnly, TypeOK
<1>9. ASSUME NEW pw \in Passwords, PasswordRead(p, pw)
      PROVE  TypeOK'
  <2>1. req[p].name \in Users
    BY <1>9, RequestFields DEF PasswordRead
  <2>2. users[req[p].name] \in Account
    BY <1>9, <2>1, ExistingAccount DEF PasswordRead
  <2>3. [op |-> "password", name |-> req[p].name, pw |-> pw, seen |-> users[req[p].name]]
          \in Request
    BY <2>1, <2>2 DEF Request
  <2>4. QED
    BY <1>1, <1>9, <2>3 DEF PasswordRead, ReadOnly, TypeOK
<1>10. ASSUME NEW pw \in Passwords, PasswordWrite(p, pw)
       PROVE  TypeOK'
  <2> DEFINE u == req[p].name
  <2>1. u \in Users
    BY <1>10, RequestFields DEF PasswordWrite
  <2>2. users[u] \in Account
    BY <1>10, <2>1, ExistingAccount DEF PasswordWrite
  <2>3. WithPassword(users[u], pw, FALSE) \in Account
    BY <2>2 DEF WithPassword, Account
  <2>4. users' \in [Users -> Account \cup {NoAccount}]
    BY <1>10, <2>1, <2>3 DEF PasswordWrite, TypeOK
  <2>5. users[u].gen + 1 \in Nat /\ NewSignIn \in Nat
    BY <2>2 DEF Account, NewSignIn, TypeOK
  <2>6. WithoutUser(refresh_tokens, u) \in SUBSET Row
    BY RowFunctions DEF TypeOK
  <2>7. issued' \in Nat /\ refresh_tokens' \subseteq Row /\ access' \subseteq AccessToken
    BY <1>10, <2>1, <2>5, <2>6, IssueTokensType DEF PasswordWrite
  <2>8. ended' \subseteq Nat
    BY <1>10, <2>1, SignInsType DEF PasswordWrite, TypeOK
  <2>9. QED
    BY <1>0, <1>1, <1>10, <2>4, <2>7, <2>8 DEF PasswordWrite, TypeOK
<1>11. CASE Fail(p)
  BY <1>0, <1>1, <1>11 DEF Fail, ReadOnly, TypeOK
<1>12. QED
  BY <1>2, <1>3, <1>4, <1>5, <1>6, <1>7, <1>8, <1>9, <1>10, <1>11 DEF SignInStep

LEMMA EndSignInsType ==
  ASSUME TypeOK, NEW u \in Users, EndSignIns(u)
  PROVE  refresh_tokens' \subseteq Row /\ ended' \subseteq Nat
<1>1. WithoutUser(refresh_tokens, u) \in SUBSET Row
  BY RowFunctions DEF TypeOK
<1>2. SignInsOf(refresh_tokens, u) \subseteq Nat
  BY SignInsType
<1>3. QED
  BY <1>1, <1>2 DEF EndSignIns, TypeOK

LEMMA NewAccountType ==
  ASSUME NEW pw \in Passwords, NEW role \in Roles, NEW must \in BOOLEAN
  PROVE  NewAccount(pw, role, must) \in Account
  BY DEF NewAccount, Account

LEMMA AdminTypes ==
  ASSUME TypeOK, NEW p \in Requests, AdminStep(p)
  PROVE  TypeOK'
<1> USE DEF Tables, Done, Become
<1>0. Idle \in Request
  BY DEF Request
<1>1. ASSUME NEW r \in Request, req' = [req EXCEPT ![p] = r]
      PROVE  req' \in [Requests -> Request]
  BY <1>1 DEF TypeOK
<1>2. ASSUME NEW a \in access, RequireAdmin(p, a)
      PROVE  TypeOK'
  <2>1. [op |-> "admin", actor |-> a.sub] \in Request
    BY DEF Request, TypeOK, AccessToken
  <2>2. QED
    BY <1>1, <1>2, <2>1 DEF RequireAdmin, ReadOnly, TypeOK
<1>3. ASSUME NEW u \in Users, NEW pw \in Passwords, NEW role \in Roles, NEW must \in BOOLEAN,
             CreateWrite(p, u, pw, role, must)
      PROVE  TypeOK'
  <2>1. req[p].actor \in Users
    BY <1>3, RequestFields DEF CreateWrite
  <2>2. audit' \in Entry
    BY <1>3, <2>1 DEF CreateWrite, Audited, Entry
  <2>3. users' \in [Users -> Account \cup {NoAccount}]
    BY <1>3, NewAccountType DEF CreateWrite, TypeOK
  <2>4. QED
    BY <1>0, <1>1, <1>3, <2>2, <2>3 DEF CreateWrite, TypeOK
<1>4. ASSUME NEW u \in Users, FindUser(p, u)
      PROVE  TypeOK'
  <2>1. [op |-> "found", actor |-> req[p].actor, name |-> u] \in Request
    BY <1>4, RequestFields DEF FindUser, Request
  <2>2. QED
    BY <1>1, <1>4, <2>1 DEF FindUser, ReadOnly, TypeOK
<1>5. ASSUME NEW pw \in Passwords \cup {None}, NEW must \in BOOLEAN \cup {None},
             NEW role \in Roles \cup {None}, UpdateWrite(p, pw, must, role)
      PROVE  TypeOK'
  <2> DEFINE u == req[p].name
             acc == IF pw # None THEN WithPassword(users[u], pw, must = TRUE)
                    ELSE IF must # None THEN [users[u] EXCEPT !.must_change = must]
                    ELSE users[u]
  <2>1. u \in Users /\ req[p].actor \in Users
    BY <1>5, RequestFields DEF UpdateWrite
  <2>2. users[u] \in Account
    BY <1>5, <2>1, ExistingAccount DEF UpdateWrite
  <2>3. acc \in Account
    <3>1. CASE pw # None
      <4>1. (must = TRUE) \in BOOLEAN
        OBVIOUS
      <4>2. pw \in Passwords
        BY <3>1
      <4>3. QED
        BY <2>2, <3>1, <4>1, <4>2 DEF WithPassword, Account
    <3>2. CASE pw = None /\ must # None
      <4>1. must \in BOOLEAN
        BY <3>2
      <4>2. QED
        BY <2>2, <3>2, <4>1 DEF Account
    <3>3. CASE pw = None /\ must = None
      BY <2>2, <3>3
    <3>4. QED
      BY <3>1, <3>2, <3>3
  <2>4. WithRole(acc, role) \in Account
    <3> HIDE DEF acc
    <3>1. QED
      BY <2>3 DEF WithRole, Account
  <2>5. users' = [users EXCEPT ![u] = WithRole(acc, role)]
    BY <1>5 DEF UpdateWrite
  <2>6. users' \in [Users -> Account \cup {NoAccount}]
    <3> HIDE DEF acc
    <3>1. QED
      BY <2>1, <2>4, <2>5 DEF TypeOK
  <2>7. refresh_tokens' \subseteq Row /\ ended' \subseteq Nat
    <3>1. CASE pw # None
      BY <1>5, <2>1, <3>1, EndSignInsType DEF UpdateWrite
    <3>2. CASE pw = None
      BY <1>5, <3>2 DEF UpdateWrite, TypeOK
    <3>3. QED
      BY <3>1, <3>2
  <2>8. audit' \in Entry
    BY <1>5, <2>1 DEF UpdateWrite, Audited, Entry
  <2>9. req' \in [Requests -> Request] /\ UNCHANGED <<issued, access, now>>
    BY <1>0, <1>1, <1>5 DEF UpdateWrite
  <2>10. QED
    BY <2>6, <2>7, <2>8, <2>9 DEF TypeOK
<1>6. CASE SignOutWrite(p)
  <2> DEFINE u == req[p].name
  <2>1. u \in Users /\ req[p].actor \in Users
    BY <1>6, RequestFields DEF SignOutWrite
  <2>2. users' \in [Users -> Account \cup {NoAccount}]
    <3>1. CASE Exists(u)
      <4>1. SignedOut(users[u]) \in Account
        BY <2>1, <3>1, ExistingAccount DEF SignedOut, Account
      <4>2. QED
        BY <1>6, <2>1, <3>1, <4>1 DEF SignOutWrite, TypeOK
    <3>2. CASE ~Exists(u)
      BY <1>6, <3>2 DEF SignOutWrite, TypeOK
    <3>3. QED
      BY <3>1, <3>2
  <2>3. refresh_tokens' \subseteq Row /\ ended' \subseteq Nat
    BY <1>6, <2>1, EndSignInsType DEF SignOutWrite
  <2>4. audit' \in Entry
    BY <1>6, <2>1 DEF SignOutWrite, Audited, Entry
  <2>5. QED
    BY <1>0, <1>1, <1>6, <2>2, <2>3, <2>4 DEF SignOutWrite, TypeOK
<1>7. CASE DeleteWrite(p)
  <2> DEFINE u == req[p].name
  <2>1. u \in Users /\ req[p].actor \in Users
    BY <1>7, RequestFields DEF DeleteWrite
  <2>2. users' \in [Users -> Account \cup {NoAccount}]
    BY <1>7, <2>1 DEF DeleteWrite, TypeOK
  <2>3. refresh_tokens' \subseteq Row /\ ended' \subseteq Nat
    BY <1>7, <2>1, EndSignInsType DEF DeleteWrite
  <2>4. audit' \in Entry
    BY <1>7, <2>1 DEF DeleteWrite, Audited, Entry
  <2>5. QED
    BY <1>0, <1>1, <1>7, <2>2, <2>3, <2>4 DEF DeleteWrite, TypeOK
<1>8. QED
  BY <1>2, <1>3, <1>4, <1>5, <1>6, <1>7 DEF AdminStep

LEMMA CliTypes ==
  ASSUME TypeOK, NEW p \in Requests, CliStep(p)
  PROVE  TypeOK'
<1>1. ASSUME NEW u \in Users, NEW pw \in Passwords, NEW role \in Roles, NEW must \in BOOLEAN,
             CliAdd(p, u, pw, role, must)
      PROVE  TypeOK'
  BY <1>1, NewAccountType DEF CliAdd, Command, TypeOK
<1>2. ASSUME NEW u \in Users, NEW pw \in Passwords, CliBootstrap(p, u, pw)
      PROVE  TypeOK'
  BY <1>2, NewAccountType, RolesAssumption DEF CliBootstrap, Command, TypeOK
<1>3. ASSUME NEW u \in Users, CliRemove(p, u)
      PROVE  TypeOK'
  BY <1>3, EndSignInsType DEF CliRemove, Command, TypeOK
<1>4. ASSUME NEW u \in Users, NEW pw \in Passwords, NEW must \in BOOLEAN,
             CliPasswd(p, u, pw, must)
      PROVE  TypeOK'
  <2>1. WithPassword(users[u], pw, must) \in Account
    BY <1>4, ExistingAccount DEF CliPasswd, WithPassword, Account
  <2>2. QED
    BY <1>4, <2>1, EndSignInsType DEF CliPasswd, Command, TypeOK
<1>5. ASSUME NEW u \in Users, CliSignOut(p, u)
      PROVE  TypeOK'
  <2>1. SignedOut(users[u]) \in Account
    BY <1>5, ExistingAccount DEF CliSignOut, SignedOut, Account
  <2>2. QED
    BY <1>5, <2>1, EndSignInsType DEF CliSignOut, Command, TypeOK
<1>6. ASSUME NEW u \in Users, NEW role \in Roles, CliRole(p, u, role)
      PROVE  TypeOK'
  <2>1. [users[u] EXCEPT !.role = role] \in Account
    BY <1>6, ExistingAccount DEF CliRole, Account
  <2>2. QED
    BY <1>6, <2>1 DEF CliRole, Command, TypeOK
<1>7. QED
  BY <1>1, <1>2, <1>3, <1>4, <1>5, <1>6 DEF CliStep

Seeding ==
  \E roles \in [DevUsers -> Roles], pw \in Passwords : SeedDevUsers(roles, pw)

LEMMA EnvironmentTypes ==
  ASSUME TypeOK, Upgrade \/ Tick \/ Seeding
  PROVE  TypeOK'
<1>1. CASE Upgrade
  <2>1. ASSUME NEW u \in Users, Exists(u)
        PROVE  [users[u] EXCEPT !.old_hash = TRUE] \in Account
    BY <2>1, ExistingAccount DEF Account
  <2>2. QED
    BY <1>1, <2>1 DEF Upgrade, TypeOK
<1>2. CASE Tick
  BY <1>2 DEF Tick, TypeOK
<1>3. CASE Seeding
  <2>1. PICK roles \in [DevUsers -> Roles], pw \in Passwords : SeedDevUsers(roles, pw)
    BY <1>3 DEF Seeding
  <2>2. \A u \in DevUsers : NewAccount(pw, roles[u], FALSE) \in Account
    BY NewAccountType
  <2> QED BY <2>1, <2>2 DEF SeedDevUsers, TypeOK
<1>4. QED
  BY <1>1, <1>2, <1>3

\* Every variable keeps its type, in every step of every request and command.
THEOREM TypeCorrect == Spec => []TypeOK
<1>1. Init => TypeOK
  BY DEF Init, TypeOK, NoAccount, Request
<1>2. TypeOK /\ [Next]_vars => TypeOK'
  <2>1. TypeOK /\ UNCHANGED vars => TypeOK'
    BY DEF TypeOK, vars
  <2>2. TypeOK /\ Next => TypeOK'
    BY SignInTypes, AdminTypes, CliTypes, EnvironmentTypes DEF Next, Seeding
  <2>3. QED
    BY <2>1, <2>2
<1>3. QED
  BY <1>1, <1>2, PTL DEF Spec

-----------------------------------------------------------------------------
(* What a step does to the tokens.  Every step is of one of six kinds. *)

Kept == UNCHANGED <<refresh_tokens, issued, access, ended, now>>

\* The rows S are deleted and their sign-ins revoked.
Deleted(S) ==
  /\ refresh_tokens' = refresh_tokens \ S
  /\ ended \cup {r.family : r \in S} \subseteq ended'
  /\ UNCHANGED <<issued, access, now>>

Issuing(p) ==
  LoginWrite(p) \/ RotateWrite(p) \/ \E pw \in Passwords : PasswordWrite(p, pw)

LEMMA RevocationKind ==
  ASSUME NEW f, refresh_tokens' = WithoutFamily(refresh_tokens, f), ended' = ended \cup {f},
         UNCHANGED <<issued, access, now>>
  PROVE  \E S \in SUBSET refresh_tokens : Deleted(S)
<1> DEFINE S == RowsOf(refresh_tokens, f)
<1>1. Deleted(S)
  BY DEF Deleted, RowsOf, WithoutFamily
<1>2. QED
  BY <1>1 DEF RowsOf

LEMMA EndSignInsKind ==
  ASSUME NEW u, EndSignIns(u), UNCHANGED <<issued, access, now>>
  PROVE  \E S \in SUBSET refresh_tokens : Deleted(S)
<1> DEFINE S == {r \in refresh_tokens : r.username = u}
<1>1. Deleted(S)
  BY DEF Deleted, EndSignIns, WithoutUser, SignInsOf
<1>2. QED
  BY <1>1

LEMMA StepKinds ==
  ASSUME TypeOK, Next
  PROVE  \/ Kept
         \/ Tick
         \/ \E S \in SUBSET refresh_tokens : Deleted(S)
         \/ \E p \in Requests : Issuing(p)
<1> USE DEF Tables, Kept, ReadOnly
<1>1. ASSUME NEW p \in Requests, SignInStep(p)
      PROVE  Kept \/ Issuing(p) \/ \E S \in SUBSET refresh_tokens : Deleted(S)
  <2>1. CASE ReuseWrite(p) \/ RevokeWrite(p)
    BY <2>1, RevocationKind DEF ReuseWrite, RevokeWrite
  <2>2. CASE Issuing(p)
    BY <2>2
  <2>3. QED
    BY <1>1, <2>1, <2>2
       DEF SignInStep, Issuing, LoginRead, TokenRead, CurrentUser, PasswordRead, Fail
<1>2. ASSUME NEW p \in Requests, AdminStep(p)
      PROVE  Kept \/ \E S \in SUBSET refresh_tokens : Deleted(S)
  <2>1. ASSUME NEW pw \in Passwords \cup {None}, NEW must \in BOOLEAN \cup {None},
               NEW role \in Roles \cup {None}, UpdateWrite(p, pw, must, role)
        PROVE  Kept \/ \E S \in SUBSET refresh_tokens : Deleted(S)
    BY <2>1, EndSignInsKind DEF UpdateWrite
  <2>2. CASE SignOutWrite(p) \/ DeleteWrite(p)
    BY <2>2, EndSignInsKind DEF SignOutWrite, DeleteWrite
  <2>3. QED
    BY <1>2, <2>1, <2>2 DEF AdminStep, RequireAdmin, CreateWrite, FindUser
<1>3. ASSUME NEW p \in Requests, CliStep(p)
      PROVE  Kept \/ \E S \in SUBSET refresh_tokens : Deleted(S)
  BY <1>3, EndSignInsKind
     DEF CliStep, CliAdd, CliBootstrap, CliRemove, CliPasswd, CliSignOut, CliRole, Command
<1>4. QED
  BY <1>1, <1>2, <1>3 DEF Next, Upgrade, SeedDevUsers

\* Every row of MarkUsed is a row it was given, up to `used`, and the reverse.
LEMMA MarkUsedKeeps ==
  ASSUME NEW rows \in SUBSET Row, NEW j
  PROVE  /\ \A r \in MarkUsed(rows, j) : \E s \in rows :
              s.family = r.family /\ s.username = r.username /\ s.expires_at = r.expires_at
         /\ \A s \in rows : \E r \in MarkUsed(rows, j) :
              s.family = r.family /\ s.username = r.username /\ s.expires_at = r.expires_at
<1>1. ASSUME NEW s \in rows
      PROVE  LET r == IF s.jti = j THEN [s EXCEPT !.used = TRUE] ELSE s
             IN  s.family = r.family /\ s.username = r.username /\ s.expires_at = r.expires_at
  BY DEF Row
<1>2. QED
  BY <1>1 DEF MarkUsed

-----------------------------------------------------------------------------
(* Families have one owner *)

\* User u is linked to sign-in f: by a row, by an access token, or by the row that a request
\* in progress has read.
Claim(f, u) ==
  \/ \E r \in refresh_tokens : r.family = f /\ r.username = u
  \/ \E a \in access : a.sid = f /\ a.sub = u
  \/ \E p \in Requests : /\ req[p].op \in {"rotate", "revoke"}
                         /\ req[p].row.family = f /\ req[p].row.username = u

OneOwner ==
  /\ \A f, u : Claim(f, u) => f \in 1 .. issued
  /\ \A f, u, v : Claim(f, u) /\ Claim(f, v) => u = v

\* A request in progress only holds rows that it read.
LEMMA RequestsRead ==
  ASSUME TypeOK, Next, NEW p \in Requests, req'[p].op \in {"rotate", "revoke"}
  PROVE  req'[p] = req[p] \/ req'[p].row \in refresh_tokens
<1>1. ASSUME NEW q \in Requests, NEW r, req' = [req EXCEPT ![q] = r],
             r.op \in {"rotate", "revoke"} => r.row \in refresh_tokens
      PROVE  req'[p] = req[p] \/ req'[p].row \in refresh_tokens
  BY <1>1 DEF TypeOK
<1> USE DEF Become, Done, Idle
<1>2. ASSUME NEW q \in Requests, SignInStep(q)
      PROVE  req'[p] = req[p] \/ req'[p].row \in refresh_tokens
  BY <1>1, <1>2 DEF SignInStep, LoginRead, LoginWrite, TokenRead, RotateWrite, ReuseWrite,
     RevokeWrite, CurrentUser, PasswordRead, PasswordWrite, Fail
<1>3. ASSUME NEW q \in Requests, AdminStep(q)
      PROVE  req'[p] = req[p] \/ req'[p].row \in refresh_tokens
  BY <1>1, <1>3 DEF AdminStep, RequireAdmin, CreateWrite, FindUser, UpdateWrite,
     SignOutWrite, DeleteWrite
<1>4. ASSUME NEW q \in Requests, CliStep(q)
      PROVE  req'[p] = req[p]
  BY <1>4 DEF CliStep, CliAdd, CliBootstrap, CliRemove, CliPasswd, CliSignOut, CliRole, Command
<1>5. QED
  BY <1>2, <1>3, <1>4 DEF Next, Upgrade, Tick, SeedDevUsers

\* Issuing tokens links its sign-in to its user, and nothing else.
LEMMA IssueTokensClaims ==
  ASSUME TypeOK, NEW u \in Users, NEW gen, NEW f, NEW rows \in SUBSET Row,
         IssueTokens(u, gen, f, rows),
         \A r \in rows : \E s \in refresh_tokens :
           s.family = r.family /\ s.username = r.username
  PROVE  /\ \A r \in refresh_tokens' :
              \/ r.family = f /\ r.username = u
              \/ \E s \in refresh_tokens : s.family = r.family /\ s.username = r.username
         /\ \A a \in access' : (a.sid = f /\ a.sub = u) \/ a \in access
<1>1. NewRow(u, f).family = f /\ NewRow(u, f).username = u
  BY DEF NewRow
<1>2. NewAccess(u, gen, f).sid = f /\ NewAccess(u, gen, f).sub = u
  BY DEF NewAccess
<1>3. QED
  BY <1>1, <1>2 DEF IssueTokens, Pruned

\* A request in progress has read a row of sign-in f of user u, to refresh it.
Refreshing(f, u) ==
  \E p \in Requests :
    req[p].op = "rotate" /\ req[p].row.family = f /\ req[p].row.username = u

\* User u gets tokens for sign-in f, a new one or one of u's; rows is what the step leaves of
\* the table's rows, and the sign-ins of the others are revoked.
IssuesFor(u, gen, f, rows) ==
  /\ IssueTokens(u, gen, f, rows)
  /\ f = issued + 1 \/ Refreshing(f, u)
  /\ Exists(u) /\ \A v \in Users : Exists(v) => Exists(v)'
  /\ \A r \in rows : \E s \in refresh_tokens :
       s.family = r.family /\ s.username = r.username
  /\ \A s \in refresh_tokens :
       \/ s.family \in ended'
       \/ \E r \in rows : s.family = r.family /\ s.username = r.username
                          /\ s.expires_at = r.expires_at
  /\ ended \subseteq ended' /\ now' = now

\* Which sign-in an issuing step works on, and for whom.
LEMMA IssuingSignIn ==
  ASSUME TypeOK, NEW p \in Requests, Issuing(p)
  PROVE  \E u \in Users, gen \in Nat, f \in Nat, rows \in SUBSET Row :
           IssuesFor(u, gen, f, rows)
<1> USE DEF NewSignIn
<1>1. CASE LoginWrite(p)
  <2> DEFINE u == req[p].name
  <2>1. u \in Users /\ req[p].seen.gen \in Nat
    BY <1>1, RequestFields DEF LoginWrite, Account
  <2>2. Rehash(users[u], req[p].pw, req[p].seen).role = users[u].role
    BY <1>1, <2>1, ExistingAccount DEF LoginWrite, Rehash, Account
  <2>3. \A v \in Users : Exists(v) => Exists(v)'
    BY <1>1, <2>1, <2>2 DEF LoginWrite, Exists, TypeOK
  <2>4. /\ IssueTokens(u, req[p].seen.gen, issued + 1, refresh_tokens)
        /\ Exists(u) /\ now' = now /\ ended' = ended
    BY <1>1 DEF LoginWrite
  <2>5. issued + 1 \in Nat /\ refresh_tokens \in SUBSET Row
    BY DEF TypeOK
  <2>6. QED
    BY <2>1, <2>3, <2>4, <2>5 DEF IssuesFor
<1>2. CASE RotateWrite(p)
  <2> DEFINE u == req[p].row.username
             f == req[p].row.family
             rows == MarkUsed(refresh_tokens, req[p].row.jti)
  <2>1. u \in Users /\ f \in Nat
    BY <1>2, RequestFields DEF RotateWrite, Row
  <2>2. users[u].gen \in Nat
    BY <1>2, <2>1, ExistingAccount DEF RotateWrite, Account
  <2>3. /\ IssueTokens(u, users[u].gen, f, rows)
        /\ Exists(u) /\ now' = now /\ ended' = ended
        /\ \A v \in Users : Exists(v) => Exists(v)'
    BY <1>2 DEF RotateWrite, Exists
  <2>4. Refreshing(f, u)
    BY <1>2 DEF RotateWrite, Refreshing
  <2>5. refresh_tokens \in SUBSET Row
    BY DEF TypeOK
  <2>6. /\ rows \in SUBSET Row
        /\ \A r \in rows : \E s \in refresh_tokens :
             s.family = r.family /\ s.username = r.username
        /\ \A s \in refresh_tokens : \E r \in rows :
             s.family = r.family /\ s.username = r.username /\ s.expires_at = r.expires_at
    BY <2>5, RowFunctions, MarkUsedKeeps
  <2> HIDE DEF rows
  <2>7. QED
    BY <2>1, <2>2, <2>3, <2>4, <2>6 DEF IssuesFor
<1>3. ASSUME NEW pw \in Passwords, PasswordWrite(p, pw)
      PROVE  \E u \in Users, gen \in Nat, f \in Nat, rows \in SUBSET Row :
               IssuesFor(u, gen, f, rows)
  <2> DEFINE u == req[p].name
             rows == WithoutUser(refresh_tokens, u)
  <2>1. u \in Users
    BY <1>3, RequestFields DEF PasswordWrite
  <2>2. users[u].gen + 1 \in Nat /\ issued + 1 \in Nat
    BY <1>3, <2>1, ExistingAccount DEF PasswordWrite, Account, TypeOK
  <2>3. /\ IssueTokens(u, users[u].gen + 1, issued + 1, rows)
        /\ Exists(u) /\ now' = now
    BY <1>3 DEF PasswordWrite
  <2>4. \A v \in Users : Exists(v) => Exists(v)'
    BY <1>3, <2>1 DEF PasswordWrite, Exists, WithPassword, TypeOK
  <2>5. rows \in SUBSET Row /\ rows \subseteq refresh_tokens
    BY DEF WithoutUser, TypeOK
  <2>6. /\ \A s \in refresh_tokens : s \in rows \/ s.family \in ended'
        /\ ended \subseteq ended'
    BY <1>3 DEF PasswordWrite, WithoutUser, SignInsOf
  <2> HIDE DEF rows
  <2>7. QED
    BY <2>1, <2>2, <2>3, <2>4, <2>5, <2>6 DEF IssuesFor
<1>4. QED
  BY <1>1, <1>2, <1>3 DEF Issuing

\* A step links at most one more pair: the sign-in it issues tokens for, and its user.
LEMMA ClaimsGrow ==
  ASSUME TypeOK, Next
  PROVE  \/ issued' = issued /\ \A f, u : Claim(f, u)' => Claim(f, u)
         \/ /\ issued' = issued + 1
            /\ \E g \in Nat, w \in Users :
                 /\ g = issued + 1 \/ Claim(g, w)
                 /\ \A f, u : Claim(f, u)' => Claim(f, u) \/ (f = g /\ u = w)
<1>1. ASSUME refresh_tokens' \subseteq refresh_tokens, access' \subseteq access
      PROVE  \A f, u : Claim(f, u)' => Claim(f, u)
  BY <1>1, RequestsRead DEF Claim
<1>2. CASE Kept \/ Tick \/ \E S \in SUBSET refresh_tokens : Deleted(S)
  <2>1. refresh_tokens' \subseteq refresh_tokens /\ access' \subseteq access /\ issued' = issued
    BY <1>2 DEF Kept, Tick, Deleted
  <2>2. QED
    BY <1>1, <2>1
<1>3. ASSUME NEW p \in Requests, Issuing(p)
      PROVE  /\ issued' = issued + 1
             /\ \E g \in Nat, w \in Users :
                  /\ g = issued + 1 \/ Claim(g, w)
                  /\ \A f, u : Claim(f, u)' => Claim(f, u) \/ (f = g /\ u = w)
  <2>1. PICK w \in Users, gen \in Nat, g \in Nat, rows \in SUBSET Row :
          IssuesFor(w, gen, g, rows)
    BY <1>3, IssuingSignIn
  <2>2. /\ \A r \in refresh_tokens' :
             \/ r.family = g /\ r.username = w
             \/ \E s \in refresh_tokens : s.family = r.family /\ s.username = r.username
        /\ \A a \in access' : (a.sid = g /\ a.sub = w) \/ a \in access
    BY <2>1, IssueTokensClaims DEF IssuesFor
  <2>3. \A f, u : Claim(f, u)' => Claim(f, u) \/ (f = g /\ u = w)
    BY <2>2, RequestsRead DEF Claim
  <2>4. issued' = issued + 1
    BY <2>1 DEF IssuesFor, IssueTokens
  <2>5. g = issued + 1 \/ Claim(g, w)
    BY <2>1 DEF IssuesFor, Refreshing, Claim
  <2>6. QED
    BY <2>3, <2>4, <2>5
<1>4. QED
  BY <1>2, <1>3, StepKinds

LEMMA OneOwnerStep ==
  ASSUME TypeOK, OneOwner, Next
  PROVE  OneOwner'
<1>1. issued \in Nat
  BY DEF TypeOK
<1>2. CASE issued' = issued /\ \A f, u : Claim(f, u)' => Claim(f, u)
  <2> HIDE DEF Claim
  <2>1. QED
    BY <1>2 DEF OneOwner
<1>3. ASSUME issued' = issued + 1, NEW g \in Nat, NEW w \in Users,
             g = issued + 1 \/ Claim(g, w),
             \A f, u : Claim(f, u)' => Claim(f, u) \/ (f = g /\ u = w)
      PROVE  OneOwner'
  <2>1. ASSUME NEW f, NEW u, Claim(f, u)'
        PROVE  f \in 1 .. issued'
    BY <1>1, <1>3, <2>1 DEF OneOwner
  <2>2. ASSUME NEW f, NEW u, NEW v, Claim(f, u)', Claim(f, v)'
        PROVE  u = v
    BY <1>1, <1>3, <2>2 DEF OneOwner
  <2>3. QED
    BY <2>1, <2>2 DEF OneOwner
<1>4. QED
  BY <1>2, <1>3, ClaimsGrow

-----------------------------------------------------------------------------
(* Foreign keys *)

ForeignKeys == \A r \in refresh_tokens : Exists(r.username)

\* An account is only lost together with its rows.
LEMMA AccountLost ==
  ASSUME TypeOK, Next, NEW u \in Users, Exists(u), ~Exists(u)'
  PROVE  refresh_tokens' = WithoutUser(refresh_tokens, u)
<1>0. users[u] \in Account /\ \A v \in Users : Exists(v) => users[v] \in Account
  BY ExistingAccount
<1>2. ~UNCHANGED users
  BY DEF Exists
<1>3. ASSUME NEW p \in Requests, SignInStep(p)
      PROVE  FALSE
  <2>1. ~Issuing(p)
    BY IssuingSignIn DEF IssuesFor
  <2>2. QED
    BY <1>2, <1>3, <2>1 DEF SignInStep, Issuing, LoginRead, TokenRead, ReuseWrite, RevokeWrite,
       CurrentUser, PasswordRead, Fail, ReadOnly, Tables
<1>4. ASSUME NEW p \in Requests, AdminStep(p)
      PROVE  refresh_tokens' = WithoutUser(refresh_tokens, u)
  <2>1. CASE DeleteWrite(p)
    <3>1. req[p].name \in Users
      BY <2>1, RequestFields DEF DeleteWrite
    <3>2. req[p].name = u
      BY <2>1, <3>1 DEF DeleteWrite, Exists, TypeOK
    <3>3. QED
      BY <2>1, <3>2 DEF DeleteWrite, EndSignIns
  <2>2. ASSUME NEW v \in Users, NEW pw \in Passwords, NEW role \in Roles, NEW must \in BOOLEAN,
               CreateWrite(p, v, pw, role, must)
        PROVE  FALSE
    <3>1. NewAccount(pw, role, must).role # None
      BY RolesAssumption DEF NewAccount
    <3>2. QED
      BY <2>2, <3>1 DEF CreateWrite, Exists, TypeOK
  <2>3. ASSUME NEW pw \in Passwords \cup {None}, NEW must \in BOOLEAN \cup {None},
               NEW role \in Roles \cup {None}, UpdateWrite(p, pw, must, role)
        PROVE  FALSE
    <3> DEFINE v == req[p].name
               acc == IF pw # None THEN WithPassword(users[v], pw, must = TRUE)
                      ELSE IF must # None THEN [users[v] EXCEPT !.must_change = must]
                      ELSE users[v]
    <3>1. v \in Users /\ Exists(v)
      BY <2>3, RequestFields DEF UpdateWrite
    <3>2. users[v] \in Account
      BY <3>1, ExistingAccount
    <3>3. DOMAIN acc = DOMAIN users[v] /\ acc.role \in Roles
      BY <3>2 DEF Account, WithPassword
    <3>4. WithRole(acc, role).role \in Roles
      <4>1. acc = [pw |-> acc.pw, old_hash |-> acc.old_hash, role |-> acc.role,
                   gen |-> acc.gen, must_change |-> acc.must_change]
        BY <3>2 DEF Account, WithPassword
      <4> HIDE DEF acc
      <4>2. QED
        BY <3>3, <4>1 DEF WithRole
    <3>5. users' = [users EXCEPT ![v] = WithRole(acc, role)]
      BY <2>3 DEF UpdateWrite
    <3> HIDE DEF acc
    <3>6. QED
      BY <3>1, <3>4, <3>5, RolesAssumption DEF Exists, TypeOK
  <2>4. CASE SignOutWrite(p)
    <3>1. req[p].name \in Users
      BY <2>4, RequestFields DEF SignOutWrite
    <3>2. Exists(req[p].name) => SignedOut(users[req[p].name]).role = users[req[p].name].role
      BY <1>0, <3>1 DEF SignedOut, Account
    <3>3. QED
      BY <2>4, <3>1, <3>2 DEF SignOutWrite, Exists, TypeOK
  <2>5. QED
    BY <1>2, <1>4, <2>1, <2>2, <2>3, <2>4
       DEF AdminStep, RequireAdmin, FindUser, ReadOnly, Tables
<1>5. ASSUME NEW p \in Requests, CliStep(p)
      PROVE  refresh_tokens' = WithoutUser(refresh_tokens, u)
  <2>1. ASSUME NEW v \in Users, CliRemove(p, v)
        PROVE  refresh_tokens' = WithoutUser(refresh_tokens, u)
    <3>1. v = u
      BY <2>1 DEF CliRemove, Exists, TypeOK
    <3>2. QED
      BY <2>1, <3>1 DEF CliRemove, EndSignIns
  <2>2. ASSUME NEW v \in Users, NEW pw \in Passwords, NEW role \in Roles, NEW must \in BOOLEAN,
               CliAdd(p, v, pw, role, must) \/ CliPasswd(p, v, pw, must)
        PROVE  FALSE
    <3>1. Exists(v) => WithPassword(users[v], pw, must).role = users[v].role
      BY <1>0 DEF WithPassword, Account
    <3>2. NewAccount(pw, role, must).role # None
      BY RolesAssumption DEF NewAccount
    <3>3. QED
      BY <2>2, <3>1, <3>2 DEF CliAdd, CliPasswd, Exists, TypeOK
  <2>3. ASSUME NEW v \in Users, NEW role \in Roles, CliSignOut(p, v) \/ CliRole(p, v, role)
        PROVE  FALSE
    <3>1. Exists(v) => /\ SignedOut(users[v]).role = users[v].role
                       /\ [users[v] EXCEPT !.role = role].role = role
      BY <1>0 DEF SignedOut, Account
    <3>2. role # None
      BY RolesAssumption
    <3>3. QED
      BY <2>3, <3>1, <3>2 DEF CliSignOut, CliRole, Exists, TypeOK
  <2>4. ASSUME NEW v \in Users, NEW pw \in Passwords, CliBootstrap(p, v, pw)
        PROVE  FALSE
    BY <2>4 DEF CliBootstrap
  <2>5. QED
    BY <1>5, <2>1, <2>2, <2>3, <2>4, RolesAssumption DEF CliStep
<1>6. CASE Upgrade
  <2>1. [users[u] EXCEPT !.old_hash = TRUE].role = users[u].role
    BY <1>0 DEF Account
  <2>2. QED
    BY <1>6, <2>1 DEF Upgrade, Exists
<1>7. CASE Seeding
  BY <1>7 DEF Seeding, SeedDevUsers, Exists
<1>8. QED
  BY <1>2, <1>3, <1>4, <1>5, <1>6, <1>7 DEF Next, Tick, Seeding

LEMMA ForeignKeysStep ==
  ASSUME TypeOK, ForeignKeys, Next
  PROVE  ForeignKeys'
<1>1. \A r \in refresh_tokens : r.username \in Users
  BY DEF TypeOK, Row
<1>2. CASE Kept \/ Tick \/ \E S \in SUBSET refresh_tokens : Deleted(S)
  <2>1. refresh_tokens' \subseteq refresh_tokens
    BY <1>2 DEF Kept, Tick, Deleted
  <2>2. ASSUME NEW r \in refresh_tokens', ~Exists(r.username)'
        PROVE  FALSE
    <3>1. r.username \in Users /\ Exists(r.username)
      BY <1>1, <2>1 DEF ForeignKeys
    <3>2. refresh_tokens' = WithoutUser(refresh_tokens, r.username)
      BY <2>2, <3>1, AccountLost
    <3>3. QED
      BY <3>2 DEF WithoutUser
  <2>3. QED
    BY <2>2 DEF ForeignKeys
<1>3. ASSUME NEW p \in Requests, Issuing(p)
      PROVE  ForeignKeys'
  <2>1. PICK w \in Users, gen \in Nat, g \in Nat, rows \in SUBSET Row :
          IssuesFor(w, gen, g, rows)
    BY <1>3, IssuingSignIn
  <2>2. \A r \in refresh_tokens' :
          r.username = w \/ \E s \in refresh_tokens : s.username = r.username
    BY <2>1, IssueTokensClaims DEF IssuesFor
  <2>3. QED
    BY <1>1, <2>1, <2>2 DEF IssuesFor, ForeignKeys
<1>4. QED
  BY <1>2, <1>3, StepKinds

\* In every reachable state, whatever requests interleave, each refresh token belongs to an
\* account that exists and each sign-in to one user.
THEOREM OwnersCorrect == Spec => []SignInsHaveOwners
<1>1. Init => OneOwner /\ ForeignKeys
  BY DEF Init, OneOwner, Claim, ForeignKeys, Idle
<1>2. TypeOK /\ OneOwner /\ ForeignKeys /\ [Next]_vars => (OneOwner /\ ForeignKeys)'
  <2>1. UNCHANGED vars /\ OneOwner /\ ForeignKeys => (OneOwner /\ ForeignKeys)'
    BY DEF vars, OneOwner, Claim, ForeignKeys, Exists
  <2>2. QED
    BY <2>1, OneOwnerStep, ForeignKeysStep
<1>3. OneOwner /\ ForeignKeys => SignInsHaveOwners
  BY DEF OneOwner, ForeignKeys, SignInsHaveOwners, Claim
<1>4. QED
  BY <1>1, <1>2, <1>3, TypeCorrect, PTL DEF Spec

-----------------------------------------------------------------------------
(* Pruning *)

\* The row that keeps a sign-in live expires no earlier than its access tokens, so the prune
\* of any transaction finds it still needed.
Outlives ==
  \A a \in access :
    /\ a.exp > now
    /\ a.sid \notin ended =>
         \E r \in refresh_tokens :
           r.family = a.sid /\ r.username = a.sub /\ r.expires_at >= a.exp

LEMMA OutlivesStep ==
  ASSUME TypeOK, Outlives, Next
  PROVE  Outlives'
<1>0. /\ now \in Nat
      /\ \A a \in access : a.exp \in Nat
      /\ \A r \in refresh_tokens : r.expires_at \in Nat
  BY DEF TypeOK, AccessToken, Row
<1>1. CASE Kept
  BY <1>1 DEF Kept, Outlives
<1>2. CASE Tick
  BY <1>0, <1>2 DEF Tick, Outlives
<1>3. ASSUME NEW S \in SUBSET refresh_tokens, Deleted(S)
      PROVE  Outlives'
  BY <1>3 DEF Deleted, Outlives
<1>4. ASSUME NEW p \in Requests, Issuing(p)
      PROVE  Outlives'
  <2>1. PICK w \in Users, gen \in Nat, g \in Nat, rows \in SUBSET Row :
          IssuesFor(w, gen, g, rows)
    BY <1>4, IssuingSignIn
  <2>2. \A r \in rows \cup {NewRow(w, g)} : r.expires_at >= now => r \in refresh_tokens'
    BY <2>1 DEF IssuesFor, IssueTokens, Pruned
  <2>3. ASSUME NEW a \in access, a.sid \notin ended'
        PROVE  \E r \in refresh_tokens' :
                 r.family = a.sid /\ r.username = a.sub /\ r.expires_at >= a.exp
    <3>1. PICK s \in refresh_tokens :
            s.family = a.sid /\ s.username = a.sub /\ s.expires_at >= a.exp
      BY <2>1, <2>3 DEF IssuesFor, Outlives
    <3>2. PICK r \in rows : s.family = r.family /\ s.username = r.username
                            /\ s.expires_at = r.expires_at
      BY <2>1, <2>3, <3>1 DEF IssuesFor
    <3>3. r.expires_at >= now
      BY <1>0, <3>1, <3>2 DEF Outlives
    <3>4. QED
      BY <2>2, <3>1, <3>2, <3>3
  <2>4. /\ NewRow(w, g) \in refresh_tokens'
        /\ NewRow(w, g).family = NewAccess(w, gen, g).sid
        /\ NewRow(w, g).username = NewAccess(w, gen, g).sub
        /\ NewRow(w, g).expires_at >= NewAccess(w, gen, g).exp
        /\ NewAccess(w, gen, g).exp > now
    BY <1>0, <2>2, TTLAssumption DEF NewRow, NewAccess
  <2>5. access' = access \cup {NewAccess(w, gen, g)} /\ now' = now
    BY <2>1 DEF IssuesFor, IssueTokens
  <2>6. QED
    BY <2>3, <2>4, <2>5 DEF Outlives
<1>5. QED
  BY <1>1, <1>2, <1>3, <1>4, StepKinds

\* Pruning expired refresh tokens, in any transaction and at any time, never ends a sign-in
\* that an access token still needs.
THEOREM PruningIsSafe == Spec => []SignInOutlivesAccess
<1>1. Init => Outlives
  BY DEF Init, Outlives
<1>2. TypeOK /\ Outlives /\ [Next]_vars => Outlives'
  <2>1. UNCHANGED vars /\ Outlives => Outlives'
    BY DEF vars, Outlives
  <2>2. QED
    BY <2>1, OutlivesStep
<1>3. Outlives => SignInOutlivesAccess
  BY DEF Outlives, SignInOutlivesAccess
<1>4. QED
  BY <1>1, <1>2, <1>3, TypeCorrect, PTL DEF Spec

-----------------------------------------------------------------------------
(* Action properties *)

\* A step brings back no sign-in without rows, unless a refresh of it is in progress.
LEMMA NoRevival ==
  ASSUME TypeOK, Next, NEW f \in 1 .. issued, RowsOf(refresh_tokens, f) = {},
         \A p \in Requests : req[p].op = "rotate" => req[p].row.family # f
  PROVE  RowsOf(refresh_tokens', f) = {}
<1>1. CASE Kept \/ Tick \/ \E S \in SUBSET refresh_tokens : Deleted(S)
  BY <1>1 DEF Kept, Tick, Deleted, RowsOf
<1>2. ASSUME NEW p \in Requests, Issuing(p)
      PROVE  RowsOf(refresh_tokens', f) = {}
  <2>1. PICK w \in Users, gen \in Nat, g \in Nat, rows \in SUBSET Row :
          IssuesFor(w, gen, g, rows)
    BY <1>2, IssuingSignIn
  <2>2. g # f
    BY <2>1 DEF IssuesFor, Refreshing, TypeOK
  <2>3. \A r \in refresh_tokens' :
          r.family = g \/ \E s \in refresh_tokens : s.family = r.family
    BY <2>1, IssueTokensClaims DEF IssuesFor
  <2>4. QED
    BY <2>2, <2>3 DEF RowsOf
<1>3. QED
  BY <1>1, <1>2, StepKinds

\* A sign-in without rows gets one again only from a refresh that read one of its tokens
\* before: neither a login, nor a password change, nor any deletion revives it.
THEOREM RevivalCorrect == Spec => RevivalNeedsRefresh
<1> DEFINE Step == \A f \in 1 .. issued :
      /\ RowsOf(refresh_tokens, f) = {}
      /\ \A p \in Requests : req[p].op = "rotate" => req[p].row.family # f
      => RowsOf(refresh_tokens', f) = {}
<1>1. TypeOK /\ Next => Step
  BY NoRevival
<1>2. TypeOK /\ [Next]_vars => [Step]_vars
  BY <1>1
<1>3. Spec => [][Step]_vars
  BY <1>2, TypeCorrect, PTL DEF Spec
<1>4. QED
  BY <1>3 DEF RevivalNeedsRefresh

\* The guard of a write sees every admin: one that isn't the last leaves another.
LEMMA AnotherAdmin ==
  ASSUME NEW u \in Users, NotLastAdmin(u), Admins # {}
  PROVE  \E v \in Admins : v # u
<1>1. IsFiniteSet(Admins)
  BY UsersAssumption, FS_Subset DEF Admins
<1>2. CASE u \in Admins
  <2>1. Cardinality(Admins) > 1
    BY <1>2 DEF NotLastAdmin, Admins
  <2>2. Cardinality(Admins \ {u}) = Cardinality(Admins) - 1 /\ IsFiniteSet(Admins \ {u})
    BY <1>1, <1>2, FS_RemoveElement
  <2>3. Admins \ {u} # {}
    BY <1>1, <2>1, <2>2, FS_EmptySet, FS_CardinalityType
  <2>4. QED
    BY <2>3
<1>3. CASE u \notin Admins
  BY <1>3
<1>4. QED
  BY <1>2, <1>3

\* Requests of people who sign in keep every role.
LEMMA RolesKept ==
  ASSUME TypeOK, NEW p \in Requests, SignInStep(p)
  PROVE  \A u \in Users : users'[u].role = users[u].role
<1>1. CASE LoginWrite(p)
  <2>1. req[p].name \in Users /\ users[req[p].name] \in Account
    BY <1>1, RequestFields, ExistingAccount DEF LoginWrite
  <2>2. Rehash(users[req[p].name], req[p].pw, req[p].seen).role = users[req[p].name].role
    BY <2>1 DEF Rehash, Account
  <2>3. QED
    BY <1>1, <2>1, <2>2 DEF LoginWrite, TypeOK
<1>2. ASSUME NEW pw \in Passwords, PasswordWrite(p, pw)
      PROVE  \A u \in Users : users'[u].role = users[u].role
  <2>1. req[p].name \in Users
    BY <1>2, RequestFields DEF PasswordWrite
  <2>2. QED
    BY <1>2, <2>1 DEF PasswordWrite, WithPassword, TypeOK
<1>3. QED
  BY <1>1, <1>2 DEF SignInStep, LoginRead, TokenRead, RotateWrite, ReuseWrite, RevokeWrite,
     CurrentUser, PasswordRead, Fail, ReadOnly, Tables

LEMMA AdminStepKeepsAdmins ==
  ASSUME TypeOK, NEW p \in Requests, AdminStep(p), Admins # {}
  PROVE  Admins' # {}
<1>1. ASSUME NEW v \in Admins, users'[v].role = "admin"
      PROVE  Admins' # {}
  BY <1>1 DEF Admins
<1>2. ASSUME NEW u \in Users, NEW pw \in Passwords, NEW role \in Roles, NEW must \in BOOLEAN,
             CreateWrite(p, u, pw, role, must)
      PROVE  Admins' # {}
  <2>1. \A v \in Admins : v # u
    BY <1>2, RolesAssumption DEF CreateWrite, Exists, Admins
  <2>2. QED
    BY <1>1, <1>2, <2>1 DEF CreateWrite, Admins, TypeOK
<1>3. ASSUME NEW pw \in Passwords \cup {None}, NEW must \in BOOLEAN \cup {None},
             NEW role \in Roles \cup {None}, UpdateWrite(p, pw, must, role)
      PROVE  Admins' # {}
  <2> DEFINE u == req[p].name
             acc == IF pw # None THEN WithPassword(users[u], pw, must = TRUE)
                    ELSE IF must # None THEN [users[u] EXCEPT !.must_change = must]
                    ELSE users[u]
  <2>1. u \in Users
    BY <1>3, RequestFields DEF UpdateWrite
  <2>2. users[u] \in Account
    BY <1>3, <2>1, ExistingAccount DEF UpdateWrite
  <2>3. acc.role = users[u].role /\ [acc EXCEPT !.role = "admin"].role = "admin"
    <3>1. users[u].role = [users[u] EXCEPT !.must_change = must].role
          /\ [[users[u] EXCEPT !.must_change = must] EXCEPT !.role = "admin"].role = "admin"
      BY <2>2 DEF Account
    <3>2. [users[u] EXCEPT !.role = "admin"].role = "admin"
      BY <2>2 DEF Account
    <3>3. WithPassword(users[u], pw, must = TRUE).role = users[u].role
          /\ [WithPassword(users[u], pw, must = TRUE) EXCEPT !.role = "admin"].role = "admin"
      BY DEF WithPassword
    <3>4. QED
      BY <3>1, <3>2, <3>3
  <2>4. users' = [users EXCEPT ![u] = WithRole(acc, role)]
    BY <1>3 DEF UpdateWrite
  <2> HIDE DEF acc
  <2>5. CASE role \in {None, "admin"}
    <3>1. u \in Admins => users'[u].role = "admin"
      BY <2>1, <2>3, <2>4, <2>5 DEF WithRole, Admins, TypeOK
    <3>2. \A v \in Users \ {u} : users'[v] = users[v]
      BY <2>4 DEF TypeOK
    <3>3. QED
      BY <1>1, <3>1, <3>2 DEF Admins
  <2>6. CASE NotLastAdmin(u)
    <3>1. PICK v \in Admins : v # u
      BY <2>1, <2>6, AnotherAdmin
    <3>2. users'[v] = users[v]
      BY <2>4, <3>1 DEF TypeOK, Admins
    <3>3. QED
      BY <1>1, <3>1, <3>2 DEF Admins
  <2>7. QED
    BY <1>3, <2>5, <2>6 DEF UpdateWrite
<1>4. CASE SignOutWrite(p)
  <2>1. req[p].name \in Users
    BY <1>4, RequestFields DEF SignOutWrite
  <2>2. Exists(req[p].name) => SignedOut(users[req[p].name]).role = users[req[p].name].role
    BY <2>1, ExistingAccount DEF SignedOut, Account
  <2>3. QED
    BY <1>1, <1>4, <2>1, <2>2 DEF SignOutWrite, Admins, TypeOK
<1>5. CASE DeleteWrite(p)
  <2>1. req[p].name \in Users
    BY <1>5, RequestFields DEF DeleteWrite
  <2>2. PICK v \in Admins : v # req[p].name
    BY <1>5, <2>1, AnotherAdmin DEF DeleteWrite
  <2>3. QED
    BY <1>1, <1>5, <2>1, <2>2 DEF DeleteWrite, Admins, TypeOK
<1>6. CASE UNCHANGED users
  BY <1>6 DEF Admins
<1>7. QED
  BY <1>2, <1>3, <1>4, <1>5, <1>6 DEF AdminStep, RequireAdmin, FindUser, ReadOnly, Tables

\* No request, and no two requests of admins who demote or delete each other, leave the
\* system without an admin.
THEOREM AdminsCorrect == Spec => AdminRemains
<1> DEFINE Step == (\E p \in Requests : req'[p] # req[p]) /\ Admins # {} => Admins' # {}
<1>1. TypeOK /\ Next => Step
  <2>1. ASSUME TypeOK, NEW p \in Requests, SignInStep(p), Admins # {}
        PROVE  Admins' # {}
    BY <2>1, RolesKept DEF Admins
  <2>2. ASSUME NEW p \in Requests, CliStep(p)
        PROVE  UNCHANGED req
    BY <2>2 DEF CliStep, CliAdd, CliBootstrap, CliRemove, CliPasswd, CliSignOut, CliRole, Command
  <2>3. QED
    BY <2>1, <2>2, AdminStepKeepsAdmins DEF Next, Upgrade, Tick, SeedDevUsers
<1>2. TypeOK /\ [Next]_vars => [Step]_vars
  BY <1>1
<1>3. Spec => [][Step]_vars
  BY <1>2, TypeCorrect, PTL DEF Spec
<1>4. QED
  BY <1>3 DEF AdminRemains

\* A request that acts for an admin, and is over with the step, makes the step.
LEMMA AdminActs ==
  ASSUME TypeOK, Next, NEW p \in Requests, req[p].op \in {"admin", "found"}, req'[p] = Idle
  PROVE  AdminStep(p) \/ Fail(p)
<1>0. req[p] # Idle
  BY DEF Idle
<1>1. ASSUME NEW q \in Requests, SignInStep(q) \/ AdminStep(q), q # p
      PROVE  req'[p] = req[p]
  BY <1>1
     DEF TypeOK, SignInStep, LoginRead, LoginWrite, TokenRead, RotateWrite, ReuseWrite,
     RevokeWrite, CurrentUser, PasswordRead, PasswordWrite, Fail, AdminStep, RequireAdmin,
     CreateWrite, FindUser, UpdateWrite, SignOutWrite, DeleteWrite, Done, Become
<1>2. ASSUME NEW q \in Requests, CliStep(q)
      PROVE  UNCHANGED req
  BY <1>2 DEF CliStep, CliAdd, CliBootstrap, CliRemove, CliPasswd, CliSignOut, CliRole, Command
<1>3. ASSUME SignInStep(p)
      PROVE  Fail(p)
  BY <1>0, <1>3
     DEF SignInStep, LoginRead, LoginWrite, TokenRead, RotateWrite, ReuseWrite, RevokeWrite,
     CurrentUser, PasswordRead, PasswordWrite, Become, TypeOK, Idle
<1>4. QED
  BY <1>0, <1>1, <1>2, <1>3 DEF Next, Upgrade, Tick, SeedDevUsers

\* What an admin's request does to an account is in the log, with who did it and to whom.
THEOREM AuditCorrect == Spec => AdminChangesAreAudited
<1> DEFINE Step == \A p \in Requests, u \in Users :
      req[p].op \in {"admin", "found"} /\ req'[p] = Idle /\ users'[u] # users[u]
      => audit' \in Entry /\ audit'.actor = req[p].actor /\ audit'.target = u
<1>1. TypeOK /\ Next => Step
  <2> SUFFICES ASSUME TypeOK, Next, NEW p \in Requests, NEW u \in Users,
                      req[p].op \in {"admin", "found"}, req'[p] = Idle, users'[u] # users[u]
               PROVE  audit' \in Entry /\ audit'.actor = req[p].actor /\ audit'.target = u
    OBVIOUS
  <2>1. req[p].actor \in Users
    BY RequestFields
  <2>2. ASSUME NEW v \in Users, NEW action \in {"create", "update", "sign_out", "delete"},
               Audited(p, action, v), \A w \in Users : w # v => users'[w] = users[w]
        PROVE  audit' \in Entry /\ audit'.actor = req[p].actor /\ audit'.target = u
    BY <2>1, <2>2 DEF Audited, Entry
  <2>3. AdminStep(p)
    BY AdminActs DEF Fail, ReadOnly, Tables
  <2>4. ASSUME NEW v \in Users, NEW pw \in Passwords, NEW role \in Roles, NEW must \in BOOLEAN,
               CreateWrite(p, v, pw, role, must)
        PROVE  audit' \in Entry /\ audit'.actor = req[p].actor /\ audit'.target = u
    BY <2>2, <2>4 DEF CreateWrite, TypeOK
  <2>5. ASSUME NEW pw \in Passwords \cup {None}, NEW must \in BOOLEAN \cup {None},
               NEW role \in Roles \cup {None}, UpdateWrite(p, pw, must, role)
        PROVE  audit' \in Entry /\ audit'.actor = req[p].actor /\ audit'.target = u
    <3>1. req[p].name \in Users /\ Audited(p, "update", req[p].name)
      BY <2>5, RequestFields DEF UpdateWrite
    <3>2. \A w \in Users : w # req[p].name => users'[w] = users[w]
      BY <2>5, <3>1 DEF UpdateWrite, TypeOK
    <3> QED BY <2>2, <3>1, <3>2
  <2>6. CASE SignOutWrite(p)
    BY <2>2, <2>6, RequestFields DEF SignOutWrite, TypeOK
  <2>7. CASE DeleteWrite(p)
    BY <2>2, <2>7, RequestFields DEF DeleteWrite, TypeOK
  <2> QED
    BY <2>3, <2>4, <2>5, <2>6, <2>7
       DEF AdminStep, RequireAdmin, FindUser, ReadOnly, Tables
<1>2. TypeOK /\ [Next]_vars => [Step]_vars
  BY <1>1
<1>3. Spec => [][Step]_vars
  BY <1>2, TypeCorrect, PTL DEF Spec
<1>4. QED
  BY <1>3 DEF AdminChangesAreAudited

\* However sign-ins, password changes and starts interleave, a changed password stays changed,
\* but for a sign-in under way that found its hash outdated.
THEOREM PasswordsCorrect == Spec => PasswordsStay
<1> DEFINE Step == \A u \in Users :
      /\ Exists(u) /\ Exists(u)' /\ users'[u].pw # users[u].pw
      /\ \A p \in Requests :
           req[p].op = "login" /\ req[p].name = u => ~req[p].seen.old_hash
      => users'[u].gen = users[u].gen + 1
<1>1. TypeOK /\ Next => Step
  <2> SUFFICES ASSUME TypeOK, Next, NEW u \in Users,
                      Exists(u), Exists(u)', users'[u].pw # users[u].pw,
                      \A p \in Requests :
                        req[p].op = "login" /\ req[p].name = u => ~req[p].seen.old_hash
               PROVE  users'[u].gen = users[u].gen + 1
    OBVIOUS
  <2>1. users[u] \in Account
    BY ExistingAccount
  <2>2. ASSUME NEW pw, NEW must, users'[u] = WithPassword(users[u], pw, must)
        PROVE  users'[u].gen = users[u].gen + 1
    BY <2>2 DEF WithPassword
  <2>3. ASSUME NEW p \in Requests, SignInStep(p)
        PROVE  users'[u].gen = users[u].gen + 1
    <3>1. ~LoginWrite(p)
      BY DEF LoginWrite, Rehash, TypeOK
    <3>2. ASSUME NEW pw \in Passwords, PasswordWrite(p, pw)
          PROVE  users'[u].gen = users[u].gen + 1
      BY <2>2, <3>2 DEF PasswordWrite, TypeOK
    <3> QED
      BY <2>3, <3>1, <3>2
         DEF SignInStep, LoginRead, TokenRead, RotateWrite, ReuseWrite, RevokeWrite,
             CurrentUser, PasswordRead, Fail, ReadOnly, Tables
  <2>4. ASSUME NEW p \in Requests, AdminStep(p)
        PROVE  users'[u].gen = users[u].gen + 1
    <3>1. ASSUME NEW v \in Users, NEW pw \in Passwords, NEW role \in Roles,
                 NEW must \in BOOLEAN, CreateWrite(p, v, pw, role, must)
          PROVE  FALSE
      BY <3>1 DEF CreateWrite, TypeOK
    <3>2. ASSUME NEW pw \in Passwords \cup {None}, NEW must \in BOOLEAN \cup {None},
                 NEW role \in Roles \cup {None}, UpdateWrite(p, pw, must, role)
          PROVE  users'[u].gen = users[u].gen + 1
      <4> DEFINE acc == IF pw # None THEN WithPassword(users[u], pw, must = TRUE)
                        ELSE IF must # None THEN [users[u] EXCEPT !.must_change = must]
                        ELSE users[u]
      <4>1. u = req[p].name /\ users'[u] = WithRole(acc, role)
        BY <3>2 DEF UpdateWrite, TypeOK
      <4>2. /\ [users[u] EXCEPT !.must_change = must].pw = users[u].pw
            /\ [users[u] EXCEPT !.role = role].pw = users[u].pw
            /\ [[users[u] EXCEPT !.must_change = must] EXCEPT !.role = role].pw = users[u].pw
        BY <2>1 DEF Account
      <4>3. pw # None
        BY <4>1, <4>2 DEF WithRole
      <4>4. /\ WithPassword(users[u], pw, must = TRUE).gen = users[u].gen + 1
            /\ [WithPassword(users[u], pw, must = TRUE) EXCEPT !.role = role].gen
                 = users[u].gen + 1
        BY DEF WithPassword
      <4> QED BY <4>1, <4>3, <4>4 DEF WithRole
    <3>3. ~SignOutWrite(p)
      BY <2>1 DEF SignOutWrite, SignedOut, Account, TypeOK
    <3>4. ~DeleteWrite(p)
      BY DEF DeleteWrite, NoAccount, Exists, TypeOK
    <3> QED
      BY <2>4, <3>1, <3>2, <3>3, <3>4
         DEF AdminStep, RequireAdmin, FindUser, ReadOnly, Tables
  <2>5. ASSUME NEW p \in Requests, CliStep(p)
        PROVE  users'[u].gen = users[u].gen + 1
    <3>1. ASSUME NEW v \in Users, NEW pw \in Passwords, NEW role \in Roles,
                 NEW must \in BOOLEAN, CliAdd(p, v, pw, role, must)
          PROVE  FALSE
      BY <3>1 DEF CliAdd, TypeOK
    <3>2. ASSUME NEW v \in Users, NEW pw \in Passwords, CliBootstrap(p, v, pw)
          PROVE  FALSE
      BY <3>2 DEF CliBootstrap
    <3>3. ASSUME NEW v \in Users, CliRemove(p, v)
          PROVE  FALSE
      BY <3>3 DEF CliRemove, NoAccount, Exists, TypeOK
    <3>4. ASSUME NEW v \in Users, NEW pw \in Passwords, NEW must \in BOOLEAN,
                 CliPasswd(p, v, pw, must)
          PROVE  users'[u].gen = users[u].gen + 1
      BY <2>2, <3>4 DEF CliPasswd, TypeOK
    <3>5. ASSUME NEW v \in Users, CliSignOut(p, v)
          PROVE  FALSE
      BY <2>1, <3>5 DEF CliSignOut, SignedOut, Account, TypeOK
    <3>6. ASSUME NEW v \in Users, NEW role \in Roles, CliRole(p, v, role)
          PROVE  FALSE
      BY <2>1, <3>6 DEF CliRole, Account, TypeOK
    <3> QED BY <2>5, <3>1, <3>2, <3>3, <3>4, <3>5, <3>6 DEF CliStep
  <2>6. ~Upgrade
    BY <2>1 DEF Upgrade, Account
  <2>7. ~Seeding
    BY DEF Seeding, SeedDevUsers
  <2> QED BY <2>3, <2>4, <2>5, <2>6, <2>7 DEF Next, Tick, Seeding
<1>2. TypeOK /\ [Next]_vars => [Step]_vars
  BY <1>1
<1>3. Spec => [][Step]_vars
  BY <1>2, TypeCorrect, PTL DEF Spec
<1>4. QED
  BY <1>3 DEF PasswordsStay

-----------------------------------------------------------------------------
(* One request at a time *)

OneRequest == \A p, q \in Requests : p = q

\* The row that a refresh has read is still there when it writes.
RowsHeld == \A p \in Requests : req[p].op = "rotate" => req[p].row \in refresh_tokens

Revoked == ended \subseteq 1 .. issued /\ RevokedStaysRevoked

LEMMA RowsHeldStep ==
  ASSUME OneRequest, TypeOK, RowsHeld, Next
  PROVE  RowsHeld'
<1> SUFFICES ASSUME NEW p \in Requests, req'[p].op = "rotate"
             PROVE  req'[p].row \in refresh_tokens'
  BY DEF RowsHeld
<1>1. req'[p].row \in refresh_tokens
  BY RequestsRead DEF RowsHeld
<1>2. \A q \in Requests : q = p
  BY DEF OneRequest
<1> USE DEF Become, Done, Idle
<1>3. ASSUME NEW r, req' = [req EXCEPT ![p] = r], r.op # "rotate"
      PROVE  FALSE
  BY <1>3 DEF TypeOK
<1>4. ASSUME SignInStep(p)
      PROVE  refresh_tokens' = refresh_tokens
  <2>1. ~LoginWrite(p) /\ ~RotateWrite(p) /\ ~ReuseWrite(p) /\ ~RevokeWrite(p)
    BY <1>3 DEF LoginWrite, RotateWrite, ReuseWrite, RevokeWrite
  <2>2. ASSUME NEW pw \in Passwords
        PROVE  ~PasswordWrite(p, pw)
    BY <1>3 DEF PasswordWrite
  <2>3. QED
    BY <1>4, <2>1, <2>2 DEF SignInStep, LoginRead, TokenRead, CurrentUser, PasswordRead, Fail,
       ReadOnly, Tables
<1>5. ~AdminStep(p)
  <2>1. ASSUME NEW u \in Users, NEW pw \in Passwords, NEW role \in Roles, NEW must \in BOOLEAN
        PROVE  ~CreateWrite(p, u, pw, role, must)
    BY <1>3 DEF CreateWrite
  <2>2. ASSUME NEW pw \in Passwords \cup {None}, NEW must \in BOOLEAN \cup {None},
               NEW role \in Roles \cup {None}
        PROVE  ~UpdateWrite(p, pw, must, role)
    BY <1>3 DEF UpdateWrite
  <2>3. ~SignOutWrite(p) /\ ~DeleteWrite(p)
    BY <1>3 DEF SignOutWrite, DeleteWrite
  <2>4. ASSUME NEW a \in access
        PROVE  ~RequireAdmin(p, a)
    BY <1>3 DEF RequireAdmin
  <2>5. ASSUME NEW u \in Users
        PROVE  ~FindUser(p, u)
    BY <1>3 DEF FindUser
  <2>6. QED
    BY <2>1, <2>2, <2>3, <2>4, <2>5 DEF AdminStep
<1>6. ASSUME CliStep(p)
      PROVE  req'[p] = [op |-> "idle"]
  BY <1>6 DEF CliStep, CliAdd, CliBootstrap, CliRemove, CliPasswd, CliSignOut, CliRole, Command
<1>7. ~CliStep(p)
  BY <1>6
<1>8. CASE Upgrade \/ Tick \/ Seeding
  BY <1>1, <1>8 DEF Upgrade, Tick, Seeding, SeedDevUsers
<1>9. QED
  BY <1>1, <1>2, <1>4, <1>5, <1>7, <1>8 DEF Next, Seeding

\* A step that ends sign-ins leaves none of their rows.
LEMMA EndSignInsRevokes ==
  ASSUME TypeOK, OneOwner, NEW u, NEW f \in SignInsOf(refresh_tokens, u)
  PROVE  f \in 1 .. issued /\ RowsOf(WithoutUser(refresh_tokens, u), f) = {}
<1>1. Claim(f, u)
  BY DEF SignInsOf, Claim
<1>2. \A r \in refresh_tokens : r.family = f => Claim(f, r.username)
  BY DEF Claim
<1>3. QED
  BY <1>1, <1>2 DEF OneOwner, RowsOf, WithoutUser

LEMMA NewlyEnded ==
  ASSUME TypeOK, OneOwner, Next, NEW f \in ended' \ ended
  PROVE  f \in 1 .. issued' /\ RowsOf(refresh_tokens', f) = {}
<1>1. ASSUME NEW u, EndSignIns(u), UNCHANGED issued
      PROVE  f \in 1 .. issued' /\ RowsOf(refresh_tokens', f) = {}
  BY <1>1, EndSignInsRevokes DEF EndSignIns
<1>2. ASSUME NEW p \in Requests, ReuseWrite(p) \/ RevokeWrite(p)
      PROVE  f \in 1 .. issued' /\ RowsOf(refresh_tokens', f) = {}
  <2>1. f = req[p].row.family
    BY <1>2 DEF ReuseWrite, RevokeWrite
  <2>2. Claim(f, req[p].row.username)
    BY <1>2, <2>1 DEF ReuseWrite, RevokeWrite, Claim
  <2>3. QED
    BY <1>2, <2>1, <2>2 DEF OneOwner, ReuseWrite, RevokeWrite, RowsOf, WithoutFamily
<1>3. ASSUME NEW p \in Requests, NEW pw \in Passwords, PasswordWrite(p, pw)
      PROVE  f \in 1 .. issued' /\ RowsOf(refresh_tokens', f) = {}
  <2> DEFINE u == req[p].name
  <2>1. f \in 1 .. issued /\ RowsOf(WithoutUser(refresh_tokens, u), f) = {}
    BY <1>3, EndSignInsRevokes DEF PasswordWrite
  <2>2. issued' = issued + 1 /\ issued \in Nat
    BY <1>3 DEF PasswordWrite, IssueTokens, TypeOK
  <2>3. refresh_tokens' \subseteq WithoutUser(refresh_tokens, u) \cup {NewRow(u, issued + 1)}
    BY <1>3 DEF PasswordWrite, IssueTokens, Pruned, NewSignIn
  <2>4. NewRow(u, issued + 1).family = issued + 1
    BY DEF NewRow
  <2>5. QED
    BY <2>1, <2>2, <2>3, <2>4 DEF RowsOf
<1>4. ASSUME NEW p \in Requests, SignInStep(p)
      PROVE  f \in 1 .. issued' /\ RowsOf(refresh_tokens', f) = {}
  BY <1>2, <1>3, <1>4 DEF SignInStep, LoginRead, LoginWrite, TokenRead, RotateWrite,
     CurrentUser, PasswordRead, Fail, ReadOnly, Tables
<1>5. ASSUME NEW p \in Requests, AdminStep(p)
      PROVE  f \in 1 .. issued' /\ RowsOf(refresh_tokens', f) = {}
  <2>1. ASSUME NEW pw \in Passwords \cup {None}, NEW must \in BOOLEAN \cup {None},
               NEW role \in Roles \cup {None}, UpdateWrite(p, pw, must, role)
        PROVE  EndSignIns(req[p].name) /\ UNCHANGED issued
    BY <2>1 DEF UpdateWrite
  <2>2. QED
    BY <1>1, <1>5, <2>1 DEF AdminStep, RequireAdmin, CreateWrite, FindUser, SignOutWrite,
       DeleteWrite, ReadOnly, Tables
<1>6. ASSUME NEW p \in Requests, CliStep(p)
      PROVE  f \in 1 .. issued' /\ RowsOf(refresh_tokens', f) = {}
  BY <1>1, <1>6
     DEF CliStep, CliAdd, CliBootstrap, CliRemove, CliPasswd, CliSignOut, CliRole, Command
<1>7. QED
  BY <1>4, <1>5, <1>6 DEF Next, Upgrade, Tick, SeedDevUsers

\* While requests come one at a time, a sign-in that is revoked has no refresh token again,
\* for any number of users, tokens and administrators' changes.
THEOREM RevokedCorrect == OneRequest => (Spec => []RevokedStaysRevoked)
<1> SUFFICES ASSUME OneRequest
             PROVE  Spec => []RevokedStaysRevoked
  OBVIOUS
<1>1. Init => OneOwner /\ RowsHeld /\ Revoked
  BY DEF Init, OneOwner, Claim, RowsHeld, Revoked, RevokedStaysRevoked, Idle
<1>2. /\ TypeOK /\ OneOwner /\ RowsHeld /\ Revoked
      /\ [Next]_vars
      => (OneOwner /\ RowsHeld /\ Revoked)'
  <2>1. UNCHANGED vars /\ OneOwner /\ RowsHeld /\ Revoked
        => (OneOwner /\ RowsHeld /\ Revoked)'
    BY DEF vars, OneOwner, Claim, RowsHeld, Revoked, RevokedStaysRevoked
  <2>2. ASSUME TypeOK, OneOwner, RowsHeld, Revoked, Next
        PROVE  Revoked'
    <3>1. issued \in Nat /\ (issued' = issued \/ issued' = issued + 1)
      BY <2>2, ClaimsGrow DEF TypeOK
    <3>2. ASSUME NEW f \in ended
          PROVE  f \in 1 .. issued' /\ RowsOf(refresh_tokens', f) = {}
      <4>1. f \in 1 .. issued /\ RowsOf(refresh_tokens, f) = {}
        BY <2>2 DEF Revoked, RevokedStaysRevoked
      <4>2. \A p \in Requests : req[p].op = "rotate" => req[p].row.family # f
        BY <2>2, <4>1 DEF RowsHeld, RowsOf
      <4>3. RowsOf(refresh_tokens', f) = {}
        BY <2>2, <4>1, <4>2, NoRevival
      <4>4. QED
        BY <3>1, <4>1, <4>3
    <3>3. \A f \in ended' : f \in 1 .. issued' /\ RowsOf(refresh_tokens', f) = {}
      BY <2>2, <3>2, NewlyEnded
    <3>4. QED
      BY <3>3 DEF Revoked, RevokedStaysRevoked, RowsOf
  <2>3. QED
    BY <2>1, <2>2, OneOwnerStep, RowsHeldStep
<1>3. Revoked => RevokedStaysRevoked
  BY DEF Revoked
<1>4. QED
  BY <1>1, <1>2, <1>3, TypeCorrect, PTL DEF Spec

\* While requests come one at a time, no refresh token is exchanged for a second pair.
THEOREM RefreshOnceCorrect == OneRequest => (Spec => RefreshTokenWorksOnce)
<1> SUFFICES ASSUME OneRequest
             PROVE  Spec => RefreshTokenWorksOnce
  OBVIOUS
<1> DEFINE Step == \A p \in Requests :
      req[p].op = "rotate" /\ req'[p] # req[p] /\ issued' # issued
      => \E r \in refresh_tokens : r.jti = req[p].row.jti /\ ~r.used
<1>1. Init => RowsHeld
  BY DEF Init, RowsHeld, Idle
<1>2. TypeOK /\ RowsHeld /\ [Next]_vars => RowsHeld'
  <2>1. UNCHANGED vars /\ RowsHeld => RowsHeld'
    BY DEF vars, RowsHeld
  <2>2. QED
    BY <2>1, RowsHeldStep
<1>3. TypeOK /\ RowsHeld /\ Next => Step
  <2> SUFFICES ASSUME TypeOK, RowsHeld, Next, NEW p \in Requests, req[p].op = "rotate",
                      issued' # issued
               PROVE  \E r \in refresh_tokens : r.jti = req[p].row.jti /\ ~r.used
    OBVIOUS
  <2>1. Issuing(p)
    BY StepKinds DEF Kept, Tick, Deleted, OneRequest
  <2>2. RotateWrite(p)
    BY <2>1 DEF Issuing, LoginWrite, PasswordWrite
  <2>3. QED
    BY <2>2 DEF RotateWrite, RowsHeld
<1>4. TypeOK /\ RowsHeld /\ [Next]_vars => [Step]_vars
  BY <1>3
<1>5. Spec => [][Step]_vars
  BY <1>1, <1>2, <1>4, TypeCorrect, PTL DEF Spec
<1>6. QED
  BY <1>5 DEF RefreshTokenWorksOnce

-----------------------------------------------------------------------------
(* One request at a time, sign-ins implement SignIns *)

\* What the table is of sign-ins: a token is in one row, and a sign-in has one that works.
OneToken ==
  /\ issued \in 0 .. MaxTokens
  /\ \A r \in refresh_tokens : r.jti \in 1 .. issued
  /\ \A r, s \in refresh_tokens : r.jti = s.jti => r = s
  /\ \A r, s \in refresh_tokens : r.family = s.family /\ ~r.used /\ ~s.used => r = s

\* What a pair for sign-in f is issued over: rows of the table, those of f used up.
IssuedOver(u, f, rows) ==
  /\ issued < MaxTokens /\ issued' = issued + 1
  /\ refresh_tokens' = Pruned(rows \cup {NewRow(u, f)})
  /\ \A r \in rows : \E s \in refresh_tokens : r.jti = s.jti /\ r.family = s.family
  /\ \A r \in rows : r.used \/ r \in refresh_tokens
  /\ \A r, s \in rows : r.jti = s.jti => r = s
  /\ \A r \in rows : r.family = f => r.used
  /\ f = issued + 1 \/ (f \in 1 .. issued /\ Working(f) # {})

\* MarkUsed marks the row of a token, and no other.
LEMMA MarkUsedMarks ==
  ASSUME NEW rows \in SUBSET Row, NEW m \in rows, ~m.used,
         \A r, s \in rows : r.jti = s.jti => r = s,
         \A r, s \in rows : r.family = s.family /\ ~r.used /\ ~s.used => r = s
  PROVE  LET marked == MarkUsed(rows, m.jti) IN
         /\ \A r \in marked : \E s \in rows : r.jti = s.jti /\ r.family = s.family
         /\ \A r \in marked : r.used \/ r \in rows
         /\ \A r, s \in marked : r.jti = s.jti => r = s
         /\ \A r \in marked : r.family = m.family => r.used
<1> DEFINE Marked(r) == IF r.jti = m.jti THEN [r EXCEPT !.used = TRUE] ELSE r
<1>1. ASSUME NEW r \in rows
      PROVE  /\ Marked(r).jti = r.jti /\ Marked(r).family = r.family
             /\ Marked(r).used \/ Marked(r) = r
             /\ r.family = m.family => Marked(r).used
  <2>1. [r EXCEPT !.used = TRUE].jti = r.jti /\ [r EXCEPT !.used = TRUE].family = r.family
        /\ [r EXCEPT !.used = TRUE].used
    BY DEF Row
  <2>2. r.family = m.family => r.used \/ r.jti = m.jti
    OBVIOUS
  <2>3. QED
    BY <2>1, <2>2
<1>2. MarkUsed(rows, m.jti) = {Marked(r) : r \in rows}
  BY DEF MarkUsed
<1> HIDE DEF Marked
<1>3. QED
  BY <1>1, <1>2

LEMMA IssuingOver ==
  ASSUME TypeOK, OneOwner, RowsHeld, OneToken, NEW p \in Requests, Issuing(p)
  PROVE  \E u \in Users, f \in Nat, rows \in SUBSET Row : IssuedOver(u, f, rows)
<1>0. /\ issued \in Nat /\ refresh_tokens \in SUBSET Row
      /\ \A r \in refresh_tokens : r.family \in 1 .. issued
  BY DEF TypeOK, OneOwner, Claim
<1>1. ASSUME NEW u \in Users, NEW gen, NEW rows \in SUBSET refresh_tokens,
             IssueTokens(u, gen, NewSignIn, rows)
      PROVE  IssuedOver(u, NewSignIn, rows) /\ NewSignIn \in Nat /\ rows \in SUBSET Row
  BY <1>0, <1>1 DEF IssuedOver, IssueTokens, NewSignIn, OneToken
<1>2. CASE LoginWrite(p)
  <2>1. req[p].name \in Users
    BY <1>2, RequestFields DEF LoginWrite
  <2>2. IssueTokens(req[p].name, req[p].seen.gen, NewSignIn, refresh_tokens)
    BY <1>2 DEF LoginWrite
  <2>3. QED
    BY <1>1, <2>1, <2>2
<1>3. ASSUME NEW pw \in Passwords, PasswordWrite(p, pw)
      PROVE  \E u \in Users, f \in Nat, rows \in SUBSET Row : IssuedOver(u, f, rows)
  <2> DEFINE u == req[p].name
             rows == WithoutUser(refresh_tokens, u)
  <2>1. u \in Users
    BY <1>3, RequestFields DEF PasswordWrite
  <2>2. IssueTokens(u, users[u].gen + 1, NewSignIn, rows)
    BY <1>3 DEF PasswordWrite
  <2>3. rows \in SUBSET refresh_tokens
    BY DEF WithoutUser
  <2> HIDE DEF rows
  <2>4. QED
    BY <1>1, <2>1, <2>2, <2>3
<1>4. CASE RotateWrite(p)
  <2> DEFINE m == req[p].row
             rows == MarkUsed(refresh_tokens, m.jti)
  <2>1. m \in refresh_tokens /\ ~m.used /\ m \in Row
    BY <1>0, <1>4 DEF RotateWrite, RowsHeld
  <2>2. m.username \in Users /\ m.family \in Nat
    BY <2>1 DEF Row
  <2>3. IssueTokens(m.username, users[m.username].gen, m.family, rows)
    BY <1>4 DEF RotateWrite
  <2>4. /\ \A r \in rows : \E s \in refresh_tokens : r.jti = s.jti /\ r.family = s.family
        /\ \A r \in rows : r.used \/ r \in refresh_tokens
        /\ \A r, s \in rows : r.jti = s.jti => r = s
        /\ \A r \in rows : r.family = m.family => r.used
    BY <1>0, <2>1, MarkUsedMarks DEF OneToken
  <2>5. rows \in SUBSET Row
    BY <1>0, RowFunctions
  <2>6. m.family \in 1 .. issued /\ Working(m.family) # {}
    BY <1>0, <2>1 DEF Working, RowsOf
  <2> HIDE DEF rows, m
  <2>7. IssuedOver(m.username, m.family, rows)
    BY <2>3, <2>4, <2>6 DEF IssuedOver, IssueTokens
  <2>8. QED
    BY <2>2, <2>5, <2>7
<1>5. QED
  BY <1>2, <1>3, <1>4 DEF Issuing

LEMMA OneTokenStep ==
  ASSUME TypeOK, OneOwner, RowsHeld, OneToken, Next
  PROVE  OneToken'
<1>1. CASE Kept \/ Tick \/ \E S \in SUBSET refresh_tokens : Deleted(S)
  <2>1. refresh_tokens' \subseteq refresh_tokens /\ issued' = issued
    BY <1>1 DEF Kept, Tick, Deleted
  <2>2. QED
    BY <2>1 DEF OneToken
<1>2. ASSUME NEW p \in Requests, Issuing(p)
      PROVE  OneToken'
  <2>1. PICK u \in Users, f \in Nat, rows \in SUBSET Row : IssuedOver(u, f, rows)
    BY <1>2, IssuingOver
  <2>2. NewRow(u, f).jti = issued + 1 /\ NewRow(u, f).family = f
    BY DEF NewRow
  <2>3. refresh_tokens' \subseteq rows \cup {NewRow(u, f)}
    BY <2>1 DEF IssuedOver, Pruned
  <2>4. issued \in 0 .. MaxTokens /\ MaxTokens \in Nat /\ issued < MaxTokens
        /\ issued' = issued + 1
    BY <2>1, BoundsAssumption DEF IssuedOver, OneToken
  <2>5. \A r \in rows : r.jti \in 1 .. issued
    BY <2>1 DEF IssuedOver, OneToken
  <2>6. \A r \in refresh_tokens' : r.jti \in 1 .. issued'
    BY <2>2, <2>3, <2>4, <2>5
  <2>7. \A r, s \in refresh_tokens' : r.jti = s.jti => r = s
    <3>1. \A r, s \in rows : r.jti = s.jti => r = s
      BY <2>1 DEF IssuedOver
    <3>2. \A r \in rows : r.jti # NewRow(u, f).jti
      BY <2>2, <2>4, <2>5
    <3>3. QED
      BY <2>3, <3>1, <3>2
  <2>8. \A r, s \in refresh_tokens' : r.family = s.family /\ ~r.used /\ ~s.used => r = s
    <3>1. \A r, s \in rows : r.family = s.family /\ ~r.used /\ ~s.used => r = s
      BY <2>1 DEF IssuedOver, OneToken
    <3>2. \A r \in rows : r.family = NewRow(u, f).family => r.used
      BY <2>1, <2>2 DEF IssuedOver
    <3>3. QED
      BY <2>3, <3>1, <3>2
  <2>9. QED
    BY <2>4, <2>6, <2>7, <2>8 DEF OneToken
<1>3. QED
  BY <1>1, <1>2, StepKinds

\* The mapping: the token of each sign-in that works.
Current == [f \in 1 .. MaxTokens |->
              IF Working(f) = {} THEN 0 ELSE CHOOSE j \in Working(f) : TRUE]

LEMMA WorkingIsCurrent ==
  ASSUME OneToken, NEW f \in 1 .. MaxTokens
  PROVE  /\ Working(f) = {} => Current[f] = 0
         /\ \A j \in Working(f) : Current[f] = j /\ j # 0
<1>1. \A j \in Working(f) : j \in 1 .. issued
  BY DEF OneToken, Working, RowsOf
<1>2. \A i, j \in Working(f) : i = j
  BY DEF OneToken, Working, RowsOf
<1>3. \A j \in Working(f) : j # 0
  BY <1>1
<1>4. QED
  BY <1>2, <1>3 DEF Current

\* The sign-ins other than f that a step ends.
Over(f) == {g \in 1 .. MaxTokens : g # f /\ Working(g) # {} /\ Working(g)' = {}}

\* A step that brings no token back, but for sign-in f, changes the others as SignIns does.
LEMMA OthersEnd ==
  ASSUME OneToken, OneToken', NEW f, NEW g \in 1 .. MaxTokens, g # f,
         Working(g)' \subseteq Working(g)
  PROVE  Current'[g] = IF g \in Over(f) THEN 0 ELSE Current[g]
<1>1. /\ Working(g) = {} => Current[g] = 0
      /\ \A j \in Working(g) : Current[g] = j
  BY WorkingIsCurrent
<1>2. /\ Working(g)' = {} => Current'[g] = 0
      /\ \A j \in Working(g)' : Current'[g] = j
  <2>1. \A j \in Working(g)' : j \in 1 .. issued'
    BY DEF OneToken, Working, RowsOf
  <2>2. \A i, j \in Working(g)' : i = j
    BY DEF OneToken, Working, RowsOf
  <2>3. QED
    BY <2>1, <2>2 DEF Current
<1>3. QED
  BY <1>1, <1>2 DEF Over

LEMMA CurrentStep ==
  ASSUME TypeOK, OneOwner, RowsHeld, OneToken, OneToken', [Next]_vars
  PROVE  [Promise!Next]_<<Current, 1 .. issued>>
<1>0. issued \in Nat /\ MaxTokens \in Nat /\ issued \in 0 .. MaxTokens
  BY BoundsAssumption DEF TypeOK, OneToken
<1>1. CASE UNCHANGED <<refresh_tokens, issued>>
  <2>1. UNCHANGED Current
    BY <1>1, Zenon DEF Current, Working, RowsOf
  <2>2. UNCHANGED (1 .. issued)
    BY <1>1
  <2>3. QED
    BY <2>1, <2>2
<1>2. ASSUME NEW f
      PROVE  Over(f) \in SUBSET Promise!Live
  BY WorkingIsCurrent DEF Over, Promise!Live, Current
<1>3. ASSUME NEW S \in SUBSET refresh_tokens, Deleted(S)
      PROVE  [Promise!Next]_<<Current, 1 .. issued>>
  <2>1. \A g : Working(g)' \subseteq Working(g)
    BY <1>3 DEF Deleted, Working, RowsOf
  <2>2. \A g \in 1 .. MaxTokens : Current'[g] = IF g \in Over(0) THEN 0 ELSE Current[g]
    BY <2>1, OthersEnd
  <2>3. Current' = [g \in 1 .. MaxTokens |-> IF g \in Over(0) THEN 0 ELSE Current[g]]
    BY <2>2 DEF Current
  <2>4. UNCHANGED (1 .. issued)
    BY <1>3 DEF Deleted
  <2>5. Promise!End(Over(0))
    BY <2>3, <2>4 DEF Promise!End, Current
  <2>6. QED
    BY <1>2, <2>5 DEF Promise!Next
<1>4. ASSUME NEW p \in Requests, Issuing(p)
      PROVE  [Promise!Next]_<<Current, 1 .. issued>>
  <2>1. PICK u \in Users, f \in Nat, rows \in SUBSET Row : IssuedOver(u, f, rows)
    BY <1>4, IssuingOver
  <2> DEFINE t == issued + 1
  <2>2. /\ t \in 1 .. MaxTokens /\ t \notin 1 .. issued
        /\ 1 .. issued' = (1 .. issued) \cup {t}
        /\ f \in 1 .. MaxTokens
    BY <1>0, <2>1 DEF IssuedOver
  <2>3. NewRow(u, f).jti = t /\ NewRow(u, f).family = f /\ ~NewRow(u, f).used
        /\ NewRow(u, f).expires_at >= now
    BY TTLAssumption DEF NewRow, TypeOK
  <2>4. refresh_tokens' = Pruned(rows \cup {NewRow(u, f)})
    BY <2>1 DEF IssuedOver
  <2>5. \A r \in rows : ~r.used => r \in refresh_tokens /\ r.family # f
    BY <2>1 DEF IssuedOver
  <2>6. \A g : g # f => Working(g)' \subseteq Working(g)
    BY <2>3, <2>4, <2>5 DEF Working, RowsOf, Pruned
  <2>7. t \in Working(f)'
    BY <2>3, <2>4 DEF Working, RowsOf, Pruned
  <2>8. Current'[f] = t
    <3>1. \A i, j \in Working(f)' : i = j
      BY DEF OneToken, Working, RowsOf
    <3>2. QED
      BY <2>2, <2>7, <3>1 DEF Current
  <2>9. \A g \in 1 .. MaxTokens :
          g # f => Current'[g] = IF g \in Over(f) THEN 0 ELSE Current[g]
    BY <2>6, OthersEnd
  <2>10. Current' = [g \in 1 .. MaxTokens |->
                       IF g = f THEN t ELSE IF g \in Over(f) THEN 0 ELSE Current[g]]
    BY <2>8, <2>9 DEF Current
  <2>11. Current' = Promise!With(Over(f), f, t)
    BY <2>10 DEF Promise!With, Current
  <2>12. CASE f = t
    <3>1. Promise!SignIn(Over(f), t)
      BY <2>2, <2>11, <2>12 DEF Promise!SignIn, Current
    <3>2. QED
      BY <1>2, <2>2, <3>1 DEF Promise!Next
  <2>13. CASE f # t
    <3>1. Working(f) # {}
      BY <2>1, <2>13 DEF IssuedOver
    <3>2. f \in Promise!Live \ Over(f)
      BY <2>2, <3>1, WorkingIsCurrent DEF Promise!Live, Over, Current
    <3>3. Promise!Exchange(Over(f), f, t)
      BY <2>2, <2>11, <3>2 DEF Promise!Exchange, Current
    <3>4. QED
      BY <1>2, <2>2, <3>3 DEF Promise!Next
  <2>14. QED
    BY <2>12, <2>13
<1>5. QED
  BY <1>1, <1>3, <1>4, StepKinds DEF Kept, Tick, vars

\* While requests come one at a time, the tables and tokens are what SignIns promises: a sign-in
\* has one token that works, an exchange replaces it, and what is over stays over.
THEOREM SignInsImplemented == OneRequest => (Spec => ImplementsSignIns)
<1> SUFFICES ASSUME OneRequest
             PROVE  Spec => ImplementsSignIns
  OBVIOUS
<1>1. Init => OneOwner /\ RowsHeld /\ OneToken
  BY BoundsAssumption DEF Init, OneOwner, Claim, RowsHeld, OneToken, Idle
<1>2. TypeOK /\ OneOwner /\ RowsHeld /\ OneToken /\ [Next]_vars
      => (OneOwner /\ RowsHeld /\ OneToken)'
  <2>1. UNCHANGED vars /\ OneOwner /\ RowsHeld /\ OneToken
        => (OneOwner /\ RowsHeld /\ OneToken)'
    BY DEF vars, OneOwner, Claim, RowsHeld, OneToken
  <2>2. QED
    BY <2>1, OneOwnerStep, RowsHeldStep, OneTokenStep
<1>3. Init => Promise!Init
  <2> SUFFICES ASSUME Init
               PROVE  Promise!Init
    OBVIOUS
  <2>1. \A f : Working(f) = {}
    BY DEF Init, Working, RowsOf
  <2>2. 1 .. issued = {}
    BY DEF Init
  <2>3. QED
    BY <2>1, <2>2 DEF Promise!Init
<1>4. TypeOK /\ OneOwner /\ RowsHeld /\ OneToken /\ OneToken' /\ [Next]_vars
      => [Promise!Next]_<<Current, 1 .. issued>>
  BY CurrentStep
<1>5. [Promise!Next]_<<Current, 1 .. issued>> <=>
      [Promise!Next]_<<[f \in 1 .. MaxTokens |->
          IF Working(f) = {} THEN 0 ELSE CHOOSE j \in Working(f) : TRUE], 1 .. issued>>
  BY DEF Current
<1>6. QED
  BY <1>1, <1>2, <1>3, <1>4, <1>5, TypeCorrect, PTL DEF Spec, ImplementsSignIns, Promise!Spec

=============================================================================
