---------------------------- MODULE StartupProofs ---------------------------
(***************************************************************************)
(* The schema and the signing key that processes share, for any number of  *)
(* processes, starts and released versions: Startup.tla proved.  The       *)
(* theorems about the schema are for upgrades in which processes migrate   *)
(* at the same time from version 4 on only (the run migrated_again shows   *)
(* what happens below it).                                                 *)
(***************************************************************************)
EXTENDS Startup, TLAPS

\* A process at a time.
Process == [at: {"down", "migrate", "key", "link", "write", "read", "up"},
            next: 0 .. Latest + 1, serving: BOOLEAN, key: Contents]

LEMMA DownType == Down \in Process
BY DEF Down, Process, Contents, Latest

\* SchemaOf, one version after the other.
LEMMA Schemas ==
  ASSUME NEW v \in 0 .. Latest
  PROVE  /\ SchemaOf(v) \subseteq Features
         /\ v < Latest => (SchemaOf(v) \cup {Adds[v + 1]}) \ (IF v + 1 = 4 THEN {"last_login_at"} ELSE {})
                            = SchemaOf(v + 1)
         /\ \A i \in 1 .. v : Adds[i] \in SchemaOf(v)
<1>1. /\ Adds[1] = "users" /\ Adds[2] = "devices" /\ Adds[3] = "audit_log"
      /\ Adds[4] = "normie" /\ Adds[5] = "settings" /\ Adds[6] = "last_login_at"
  BY DEF Adds
<1>2. v \in Nat /\ v <= 6 /\ \A i \in 1 .. v : Adds[i] \in Features
  BY <1>1 DEF Latest, Features
<1>3. SchemaOf(v) \subseteq Features /\ \A i \in 1 .. v : Adds[i] \in SchemaOf(v)
  BY <1>2 DEF SchemaOf
<1>4. ASSUME v < Latest
      PROVE  (SchemaOf(v) \cup {Adds[v + 1]}) \ (IF v + 1 = 4 THEN {"last_login_at"} ELSE {})
               = SchemaOf(v + 1)
  <2>1. SchemaOf(v) \cup {Adds[v + 1]} = SchemaOf(v + 1)
    BY <1>2 DEF SchemaOf
  <2>2. ASSUME v + 1 = 4 PROVE "last_login_at" \notin SchemaOf(v + 1)
    <3>1. \A i \in 1 .. 4 : Adds[i] # "last_login_at"
      BY <1>1
    <3> QED BY <2>2, <3>1 DEF SchemaOf
  <2> QED BY <2>1, <2>2
<1> QED BY <1>3, <1>4

\* The migration a process is about to run has a number from 1.
TypeInv ==
  /\ TypeOK
  /\ \A p \in Procs : At(p, "migrate") => proc[p].next > 0

LEMMA TypeInit == ASSUME Init PROVE TypeInv
<1>1. version \in 0 .. Latest
  BY ReleasedAssumption DEF Init
<1> QED BY <1>1, Schemas, DownType, BoundsAssumption DEF Init, TypeInv, TypeOK, Process, Contents, At, Down

\* Most steps move one process, and may make the key.
LEMMA ProcessMoves ==
  ASSUME TypeInv, NEW p \in Procs, NEW r \in Process, r.at = "migrate" => r.next > 0, proc' = [proc EXCEPT ![p] = r],
         version' \in 0 .. Latest, schema' \subseteq Features, file' \in Contents, hasLink' = hasLink,
         starts' \in 0 .. MaxStarts
  PROVE  TypeInv'
BY DEF TypeInv, TypeOK, Process, At

LEMMA TypeStep == ASSUME TypeInv, [Next]_vars PROVE TypeInv'
<1>a. /\ \A p \in Procs : proc[p] \in Process
      /\ DOMAIN proc = Procs
      /\ version \in 0 .. Latest /\ schema \subseteq Features /\ file \in Contents
      /\ starts \in 0 .. MaxStarts /\ MaxStarts \in Nat
      /\ \A p \in Procs : KeyOf(p) \in Contents /\ Empty \in Contents
  BY BoundsAssumption DEF TypeInv, TypeOK, Process, Contents
<1>b. FirstPending(version) \in 1 .. Latest + 1
  BY <1>a DEF FirstPending, Latest
<1>c. \A p \in Procs : proc[p].next \in 0 .. Latest + 1
  BY <1>a DEF Process
<1>1. ASSUME NEW p \in Procs, NEW s \in BOOLEAN, Open(p, s), starts' \in 0 .. MaxStarts
      PROVE  TypeInv'
  <2> DEFINE r == [proc[p] EXCEPT !.at = "migrate", !.next = FirstPending(version),
                                  !.serving = s]
  <2>1. r \in Process /\ r.next > 0
    <3>1. proc[p] \in Process /\ FirstPending(version) \in 0 .. Latest + 1 /\ FirstPending(version) > 0
      BY <1>a, <1>b DEF Latest
    <3>2. r.next = FirstPending(version)
      BY <3>1 DEF Process
    <3> QED BY <3>1, <3>2 DEF Process
  <2>2. proc' = [proc EXCEPT ![p] = r]
    BY <1>1, <1>a DEF Open
  <2> HIDE DEF r
  <2> QED BY <1>1, <1>a, <2>1, <2>2, ProcessMoves DEF Open
<1>2. ASSUME NEW p \in Procs, Migrate(p) PROVE TypeInv'
  <2>1. proc[p].next \in 1 .. Latest
    BY <1>2, <1>c DEF Migrate, Latest, TypeInv
  <2>2. [proc[p] EXCEPT !.next = @ + 1] \in Process
    BY <1>a, <2>1 DEF Process, Latest
  <2>3. Adds[proc[p].next] \in Features
    BY <2>1, Schemas DEF Latest
  <2>4. After(proc[p].next) \subseteq Features
    BY <1>a, <2>3 DEF After
  <2>5. proc' = [proc EXCEPT ![p] = [proc[p] EXCEPT !.next = @ + 1]]
    BY <1>2, <1>a DEF Migrate
  <2>6. version' \in 0 .. Latest
    BY <1>2, <2>1 DEF Migrate, Latest
  <2> DEFINE r == [proc[p] EXCEPT !.next = @ + 1]
  <2>7. r.next > 0
    BY <1>a, <2>1 DEF Process, Latest
  <2> HIDE DEF r
  <2> QED BY <1>2, <1>a, <2>2, <2>4, <2>5, <2>6, <2>7, ProcessMoves DEF Migrate, r
<1>3. ASSUME NEW p \in Procs, proc' = [proc EXCEPT ![p] = Down],
             UNCHANGED <<version, schema, file, hasLink, starts>>
      PROVE  TypeInv'
  <2>1. Down.at # "migrate"
    BY DEF Down
  <2> QED BY <1>3, <1>a, <2>1, DownType, ProcessMoves
<1>4. ASSUME NEW p \in Procs, NEW s \in {"up", "key", "read", "link", "write"}, To(p, s),
             file' \in Contents, UNCHANGED <<version, schema, hasLink, starts>>
      PROVE  TypeInv'
  <2> DEFINE r == [proc[p] EXCEPT !.at = s]
  <2>1. r \in Process /\ r.at # "migrate"
    BY <1>a DEF Process
  <2>2. proc' = [proc EXCEPT ![p] = r]
    BY <1>4, <1>a DEF To
  <2> HIDE DEF r
  <2> QED BY <1>4, <1>a, <2>1, <2>2, ProcessMoves
<1>6. ASSUME NEW p \in Procs, CreateKey(p) PROVE TypeInv'
  <2> DEFINE r == [proc[p] EXCEPT !.key = Empty]
  <2>1. r \in Process /\ r.at # "migrate"
    BY <1>6, <1>a DEF Process, CreateKey, At
  <2>2. proc' = [proc EXCEPT ![p] = r]
    BY <1>6, <1>a DEF CreateKey
  <2> HIDE DEF r
  <2> QED BY <1>6, <1>a, <2>1, <2>2, ProcessMoves DEF CreateKey
<1>7. ASSUME NEW p \in Procs, ReadKey(p) PROVE TypeInv'
  <2> DEFINE r == [proc[p] EXCEPT !.at = "up", !.key = file]
  <2>1. r \in Process /\ r.at # "migrate"
    BY <1>a DEF Process
  <2>2. proc' = [proc EXCEPT ![p] = r]
    BY <1>7, <1>a DEF ReadKey
  <2> HIDE DEF r
  <2> QED BY <1>7, <1>a, <2>1, <2>2, ProcessMoves DEF ReadKey
<1>8. ASSUME NEW p \in Procs, Start(p) \/ Connect(p) PROVE TypeInv'
  <2>1. CASE Start(p)
    <3>1. Open(p, FALSE) /\ starts' = starts + 1 /\ starts < MaxStarts
      BY <2>1 DEF Start
    <3>2. starts' \in 0 .. MaxStarts
      BY <3>1, <1>a
    <3> QED BY <3>1, <3>2, <1>1
  <2>2. CASE Connect(p)
    BY <2>2, <1>1, <1>a DEF Connect
  <2> QED BY <1>8, <2>1, <2>2
<1>9. ASSUME NEW p \in Procs, MigrateFails(p) \/ Migrated(p) \/ Stop(p) PROVE TypeInv'
  BY <1>3, <1>4, <1>9, <1>a DEF MigrateFails, Migrated, Stop
<1>10. ASSUME NEW p \in Procs, FindKey(p) \/ LinkKey(p) \/ WriteKey(p) PROVE TypeInv'
  <2>1. file' \in Contents
    BY <1>10, <1>a DEF FindKey, LinkKey, WriteKey
  <2> QED BY <1>4, <1>10, <2>1 DEF FindKey, LinkKey, WriteKey
<1>5. CASE UNCHANGED vars
  BY <1>5 DEF vars, TypeInv, TypeOK, At
<1> QED BY <1>2, <1>5, <1>6, <1>7, <1>8, <1>9, <1>10 DEF Next, MigrationStep, KeyStep

-----------------------------------------------------------------------------
(* The schema *)

\* What a process is about to migrate is next, or was done by another: then it is one of the
\* migrations that fail a second time.  Below version 4 nobody else is migrating.
SchemaInv ==
  /\ TypeOK
  /\ VersionTellsSchema
  /\ \A p \in Procs : At(p, "migrate") =>
       /\ proc[p].next \in 1 .. version + 1
       /\ proc[p].next = version + 1 \/ proc[p].next > 4
  /\ \A p, q \in Procs : At(p, "migrate") /\ At(q, "migrate") /\ p # q => version >= 4

LEMMA SchemaInit == ASSUME Init PROVE SchemaInv
BY TypeInit DEF Init, SchemaInv, TypeInv, VersionTellsSchema, At, Down

\* A migration that is applied is the next one.
LEMMA MigratesNext ==
  ASSUME SchemaInv, NEW p \in Procs, Migrate(p)
  PROVE  proc[p].next = version + 1
<1>1. version \in 0 .. Latest /\ version \in Nat
  BY DEF SchemaInv, TypeOK, Latest
<1>2. proc[p].next \in 1 .. version + 1 /\ (proc[p].next = version + 1 \/ proc[p].next > 4)
  BY DEF SchemaInv, Migrate
<1> SUFFICES ASSUME proc[p].next \in 1 .. version, proc[p].next > 4
             PROVE  FALSE
  BY <1>1, <1>2
<1>3. Adds[proc[p].next] \in schema
  BY <1>1, Schemas DEF SchemaInv, VersionTellsSchema
<1> QED BY <1>3 DEF Migrate, Runs

LEMMA SchemaStep == ASSUME OverlapFrom >= 4, SchemaInv, [Next]_vars PROVE SchemaInv'
<1>a. TypeOK /\ TypeOK' /\ version \in Nat /\ OverlapFrom \in Nat
  <2>1. version \in Nat
    BY DEF SchemaInv, TypeOK
  <2>2. TypeInv
    BY <2>1 DEF SchemaInv, TypeInv
  <2> QED BY <2>1, <2>2, TypeStep, BoundsAssumption DEF TypeInv
<1>1. ASSUME NEW p \in Procs, NEW s \in BOOLEAN, Open(p, s), ~At(p, "migrate") PROVE SchemaInv'
  <2>1. version' = version /\ schema' = schema
    BY <1>1 DEF Open
  <2>2. proc'[p].at = "migrate" /\ proc'[p].next = version + 1
    BY <1>1, <1>a DEF Open, TypeOK, FirstPending
  <2>3. \A q \in Procs : q # p => proc'[q] = proc[q]
    BY <1>1, <1>a DEF Open, TypeOK
  <2>4. version >= 4 \/ \A q \in Procs : ~At(q, "migrate")
    BY <1>1, <1>a DEF Open
  <2>5. VersionTellsSchema'
    BY <2>1 DEF SchemaInv, VersionTellsSchema
  <2>6. \A q \in Procs : At(q, "migrate")' =>
          /\ proc'[q].next \in 1 .. version' + 1
          /\ proc'[q].next = version' + 1 \/ proc'[q].next > 4
    BY <1>a, <2>1, <2>2, <2>3 DEF SchemaInv, At
  <2>7. \A q, r \in Procs : At(q, "migrate")' /\ At(r, "migrate")' /\ q # r => version' >= 4
    BY <1>a, <2>1, <2>2, <2>3, <2>4 DEF SchemaInv, At
  <2> QED BY <1>a, <2>5, <2>6, <2>7 DEF SchemaInv
<1>2. ASSUME NEW p \in Procs, Migrate(p) PROVE SchemaInv'
  <2>1. proc[p].next = version + 1 /\ version' = version + 1 /\ version + 1 <= Latest
    BY <1>2, MigratesNext DEF Migrate
  <2>2. VersionTellsSchema'
    <3>1. version < Latest /\ version \in 0 .. Latest
      BY <1>a, <2>1 DEF Latest
    <3> QED BY <1>2, <2>1, <3>1, Schemas DEF SchemaInv, VersionTellsSchema, Migrate, After
  <2>3. proc'[p].next = version' + 1 /\ \A q \in Procs : q # p => proc'[q] = proc[q]
    BY <1>2, <1>a, <2>1 DEF Migrate, TypeOK
  <2>4. \A q \in Procs : proc'[q].at = proc[q].at
    BY <1>2, <1>a DEF Migrate, TypeOK
  <2>5. ASSUME NEW q \in Procs, At(q, "migrate")'
        PROVE  /\ proc'[q].next \in 1 .. version' + 1
               /\ proc'[q].next = version' + 1 \/ proc'[q].next > 4
    <3>1. CASE q = p
      BY <3>1, <1>a, <2>1, <2>3
    <3>2. CASE q # p
      <4>1. At(q, "migrate") /\ At(p, "migrate") /\ proc'[q] = proc[q]
        BY <1>2, <2>3, <2>4, <2>5, <3>2 DEF Migrate, At
      <4>2. version >= 4
        BY <3>2, <4>1 DEF SchemaInv
      <4> QED BY <1>a, <2>1, <4>1, <4>2 DEF SchemaInv
    <3> QED BY <3>1, <3>2
  <2>6. \A q, r \in Procs : At(q, "migrate")' /\ At(r, "migrate")' /\ q # r => version' >= 4
    BY <1>a, <2>1, <2>4 DEF SchemaInv, At
  <2> QED BY <1>a, <2>2, <2>5, <2>6 DEF SchemaInv
<1>3. ASSUME version' = version, schema' = schema,
             \A p \in Procs : At(p, "migrate")' => proc'[p] = proc[p]
      PROVE  SchemaInv'
  BY <1>3, <1>a DEF SchemaInv, VersionTellsSchema, At
<1>4. ASSUME NEW p \in Procs, MigrateFails(p) \/ Migrated(p) \/ Stop(p) \/ KeyStep(p)
      PROVE  SchemaInv'
  <2>1. version' = version /\ schema' = schema
    BY <1>4 DEF MigrateFails, Migrated, Stop, KeyStep, FindKey, LinkKey, CreateKey, WriteKey, ReadKey
  <2>2. \A q \in Procs : q # p => proc'[q] = proc[q]
    BY <1>4, <1>a DEF TypeOK, MigrateFails, Migrated, Stop, KeyStep, FindKey, LinkKey, CreateKey,
                      WriteKey, ReadKey, To
  <2>3. proc'[p].at # "migrate"
    BY <1>4, <1>a DEF TypeOK, MigrateFails, Migrated, Stop, KeyStep, FindKey, LinkKey, CreateKey,
                      WriteKey, ReadKey, To, Down, At
  <2> QED BY <1>3, <2>1, <2>2, <2>3 DEF At
<1>5. CASE UNCHANGED vars
  BY <1>3, <1>5 DEF vars, At
<1> QED
  BY <1>1, <1>2, <1>4, <1>5 DEF Next, MigrationStep, Start, Connect, At

-----------------------------------------------------------------------------
(* The key *)

Complete == file \notin {NoFile, Empty}
Serves(p) == At(p, "up") \/ (At(p, "migrate") /\ proc[p].serving)

\* With links nobody creates the file empty, and it never changes once it is there.
KeyInv ==
  /\ TypeInv
  /\ hasLink => /\ file # Empty
                /\ \A p \in Procs :
                     /\ ~At(p, "write")
                     /\ At(p, "read") => Complete
                     /\ Serves(p) => proc[p].key = file /\ Complete

LEMMA KeyInit == ASSUME Init PROVE KeyInv
BY TypeInit DEF Init, KeyInv, At, Serves, Down, NoFile, Empty

LEMMA KeyStepKeeps == ASSUME KeyInv, [Next]_vars PROVE KeyInv'
<1>a. TypeInv' /\ TypeOK /\ hasLink' = hasLink
  BY TypeStep DEF TypeInv, KeyInv, Next, vars, Start, Connect, Open, MigrationStep, Migrate, MigrateFails,
                  Migrated, KeyStep, FindKey, LinkKey, CreateKey, WriteKey, ReadKey, Stop
<1> SUFFICES ASSUME hasLink
             PROVE  /\ file' # Empty
                    /\ \A q \in Procs :
                         /\ ~At(q, "write")'
                         /\ At(q, "read")' => Complete'
                         /\ Serves(q)' => proc'[q].key = file' /\ Complete'
  BY <1>a DEF KeyInv
<1>b. /\ file # Empty
      /\ \A q \in Procs : /\ ~At(q, "write")
                          /\ At(q, "read") => Complete
                          /\ Serves(q) => proc[q].key = file /\ Complete
  BY DEF KeyInv
<1>1. ASSUME NEW p \in Procs, LinkKey(p)
      PROVE  /\ file' # Empty
             /\ \A q \in Procs :
                  /\ ~At(q, "write")'
                  /\ At(q, "read")' => Complete'
                  /\ Serves(q)' => proc'[q].key = file' /\ Complete'
  <2>1. KeyOf(p) # Empty /\ KeyOf(p) # NoFile
    BY DEF KeyOf, Empty, NoFile
  <2>2. Complete' /\ (Complete => file' = file)
    BY <1>1, <1>b, <2>1 DEF LinkKey, Complete
  <2>3. proc'[p].at = "read" /\ \A q \in Procs : q # p => proc'[q] = proc[q]
    BY <1>1, <1>a DEF LinkKey, To, TypeOK
  <2> QED BY <1>b, <2>2, <2>3 DEF At, Serves, Complete
<1>2. ASSUME NEW p \in Procs, file' = file,
             \A q \in Procs : q # p => proc'[q] = proc[q],
             ~At(p, "write")', At(p, "read")' => Complete,
             Serves(p)' => proc'[p].key = file /\ Complete
      PROVE  /\ file' # Empty
             /\ \A q \in Procs :
                  /\ ~At(q, "write")'
                  /\ At(q, "read")' => Complete'
                  /\ Serves(q)' => proc'[q].key = file' /\ Complete'
  BY <1>2, <1>b DEF At, Serves, Complete
<1>3. ASSUME NEW p \in Procs, Start(p) \/ Connect(p) \/ MigrationStep(p) \/ FindKey(p) \/ ReadKey(p)
                              \/ Stop(p)
      PROVE  /\ file' = file
             /\ \A q \in Procs : q # p => proc'[q] = proc[q]
             /\ ~At(p, "write")'
             /\ At(p, "read")' => Complete
             /\ Serves(p)' => proc'[p].key = file /\ Complete
  <2>1. file' = file
    BY <1>3 DEF Start, Connect, Open, MigrationStep, Migrate, MigrateFails, Migrated, FindKey,
                ReadKey, Stop
  <2>2. \A q \in Procs : q # p => proc'[q] = proc[q]
    BY <1>3, <1>a DEF TypeOK, Start, Connect, Open, MigrationStep, Migrate, MigrateFails, Migrated,
                      FindKey, ReadKey, Stop, To
  <2>3. CASE Start(p)
    BY <2>1, <2>2, <2>3, <1>a DEF TypeOK, Start, Open, At, Serves
  <2>4. CASE Connect(p)
    BY <2>1, <2>2, <2>4, <1>a, <1>b DEF TypeOK, Connect, Open, At, Serves
  <2>5. CASE MigrationStep(p)
    BY <2>1, <2>2, <2>5, <1>a, <1>b
    DEF TypeOK, MigrationStep, Migrate, MigrateFails, Migrated, To, Down, At, Serves
  <2>6. CASE FindKey(p)
    BY <2>1, <2>2, <2>6, <1>a, <1>b DEF TypeOK, FindKey, To, At, Serves, Complete
  <2>7. CASE ReadKey(p)
    BY <2>1, <2>2, <2>7, <1>a, <1>b DEF TypeOK, ReadKey, At, Serves
  <2>8. CASE Stop(p)
    BY <2>1, <2>2, <2>8, <1>a DEF TypeOK, Stop, Down, At, Serves
  <2> QED BY <1>3, <2>3, <2>4, <2>5, <2>6, <2>7, <2>8
<1>4. CASE UNCHANGED vars
  <2>1. file' = file /\ proc' = proc
    BY <1>4 DEF vars
  <2> QED BY <1>b, <2>1 DEF At, Serves, Complete
<1> QED
  BY <1>1, <1>2, <1>3, <1>4, <1>b DEF Next, KeyStep, CreateKey, WriteKey

-----------------------------------------------------------------------------
(* The theorems *)

\* The types of what is on disk and of the processes (db.py, auth.py).
THEOREM TypeCorrect == Spec => []TypeOK
<1>1. Init => TypeInv
  BY TypeInit
<1>2. TypeInv /\ [Next]_vars => TypeInv'
  BY TypeStep
<1>3. TypeInv => TypeOK
  BY DEF TypeInv
<1> QED BY <1>1, <1>2, <1>3, PTL DEF Spec

\* _migrate: whatever processes are killed, user_version tells the schema, if those that find a
\* version below 4 migrate one after another.
THEOREM SchemaCorrect == ASSUME OverlapFrom >= 4 PROVE Spec => []VersionTellsSchema
<1>1. Init => SchemaInv
  BY SchemaInit
<1>2. SchemaInv /\ [Next]_vars => SchemaInv'
  BY SchemaStep
<1>3. SchemaInv => VersionTellsSchema
  BY DEF SchemaInv
<1> QED BY <1>1, <1>2, <1>3, PTL DEF Spec

\* _migrate: then each migration is also applied once, to the version before it.
THEOREM OrderCorrect == ASSUME OverlapFrom >= 4 PROVE Spec => AppliedInOrder
<1>1. Init => SchemaInv
  BY SchemaInit
<1>2. SchemaInv /\ [Next]_vars => SchemaInv'
  BY SchemaStep
<1>3. SchemaInv /\ [Next]_vars => [version' \in {version, version + 1}]_vars
  <2> SUFFICES ASSUME SchemaInv, Next PROVE version' \in {version, version + 1}
    OBVIOUS
  <2>1. ASSUME NEW p \in Procs, Migrate(p) PROVE version' = version + 1
    BY <2>1, MigratesNext DEF Migrate
  <2> QED
    BY <2>1 DEF Next, Start, Connect, Open, MigrationStep, MigrateFails, Migrated, KeyStep, FindKey,
                LinkKey, CreateKey, WriteKey, ReadKey, Stop
<1> QED BY <1>1, <1>2, <1>3, PTL DEF Spec, AppliedInOrder

\* jwt_secret: where there are links, every process that serves signs with the key in the file.
THEOREM KeyCorrect == Spec => []OneKey
<1>1. Init => KeyInv
  BY KeyInit
<1>2. KeyInv /\ [Next]_vars => KeyInv'
  BY KeyStepKeeps
<1>3. KeyInv => OneKey
  <2>1. \A p \in Procs : At(p, "up") => Serves(p)
    BY DEF Serves
  <2> QED BY <2>1 DEF KeyInv, OneKey, Complete
<1> QED BY <1>1, <1>2, <1>3, PTL DEF Spec
=============================================================================
