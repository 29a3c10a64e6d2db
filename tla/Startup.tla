------------------------------ MODULE Startup -------------------------------
(***************************************************************************)
(* What processes of p4n4-api share on disk before they serve: the schema  *)
(* of api.db, migrated by every db.connect(), and the key that signs       *)
(* tokens, made by the first auth.jwt_secret().  The server and the        *)
(* `p4n4-api users` command are processes; they start, are killed and      *)
(* start again at any time, and a server that serves opens the database    *)
(* for every request.                                                      *)
(*                                                                         *)
(* A schema is the set of the features the migrations add.  A migration is *)
(* one transaction, together with the user_version it sets; which ones are *)
(* still to run is read outside it.                                        *)
(***************************************************************************)
EXTENDS Naturals

CONSTANTS
  Procs,       \* processes
  Released,    \* the schema versions that databases can be at before an upgrade
  OverlapFrom, \* bound: the version from which processes migrate at the same time
  MaxStarts    \* bound: starts of processes

Latest == 6

ASSUME ReleasedAssumption == Released \subseteq 0 .. Latest
ASSUME BoundsAssumption == OverlapFrom \in Nat /\ MaxStarts \in Nat

VARIABLES
  version,  \* PRAGMA user_version
  schema,   \* the features there are
  file,     \* the key file: NoFile, Empty, or the process whose key is in it
  hasLink,  \* os.link exists on this host (not on Android)
  proc,     \* where each process is, its next migration, whether it serves, the key it read
  starts

vars == <<version, schema, file, hasLink, proc, starts>>

NoFile == <<"no file">>
Empty == <<"empty">>
KeyOf(p) == <<"key", p>>
Contents == {NoFile, Empty} \cup {KeyOf(p) : p \in Procs}

Features == {"users", "devices", "audit_log", "normie", "settings", "last_login_at"}
Down == [at |-> "down", next |-> 0, serving |-> FALSE, key |-> NoFile]

\* The values of what is on disk, and of where each process is.
TypeOK ==
  /\ version \in 0 .. Latest
  /\ schema \subseteq Features
  /\ file \in Contents
  /\ hasLink \in BOOLEAN
  /\ proc \in [Procs -> [at: {"down", "migrate", "key", "link", "write", "read", "up"},
                         next: 0 .. Latest + 1, serving: BOOLEAN, key: Contents]]
  /\ starts \in 0 .. MaxStarts

-----------------------------------------------------------------------------
(* MIGRATIONS *)

\* The feature that each script adds.  4 builds users again from its first five columns, and
\* so removes the columns that 6 adds; the others only create or add, and fail if it is there.
Adds == <<"users", "devices", "audit_log", "normie", "settings", "last_login_at">>
Runs(v) == IF v = 4 THEN "users" \in schema ELSE Adds[v] \notin schema
After(v) == (schema \cup {Adds[v]}) \ (IF v = 4 THEN {"last_login_at"} ELSE {})

SchemaOf(v) == {Adds[i] : i \in 1 .. v}

At(p, step) == proc[p].at = step
To(p, step) == proc' = [proc EXCEPT ![p].at = step]

\* connect(), _migrate(): user_version is read ...
\* A defect to test the properties with: MIGRATIONS[current + 1:].
SkipsOne(v) == v + 2
FirstPending(v) == v + 1

Open(p, serving) ==
  /\ version >= OverlapFrom \/ \A q \in Procs : ~At(q, "migrate")
  /\ proc' = [proc EXCEPT ![p].at = "migrate", ![p].next = FirstPending(version),
                          ![p].serving = serving]
  /\ UNCHANGED <<version, schema, file, hasLink>>

Start(p) ==
  /\ At(p, "down") /\ starts < MaxStarts
  /\ Open(p, FALSE)
  /\ starts' = starts + 1

\* A request, or the same process's next command.
Connect(p) ==
  /\ At(p, "up")
  /\ Open(p, TRUE)
  /\ UNCHANGED starts

\* ... then each script after it runs in a transaction that ends by setting it.
\* A defect to test the properties with: user_version is set before the script's transaction,
\* in one of its own, and the process can end between the two.
VersionFirst(p) ==
  /\ At(p, "migrate") /\ proc[p].next <= Latest /\ Runs(proc[p].next)
  /\ version' = proc[p].next
  /\ \/ schema' = After(proc[p].next) /\ proc' = [proc EXCEPT ![p].next = @ + 1]
     \/ UNCHANGED schema /\ proc' = [proc EXCEPT ![p] = Down]
  /\ UNCHANGED <<file, hasLink, starts>>

Migrate(p) ==
  /\ At(p, "migrate") /\ proc[p].next <= Latest /\ Runs(proc[p].next)
  /\ schema' = After(proc[p].next)
  /\ version' = proc[p].next
  /\ proc' = [proc EXCEPT ![p].next = @ + 1]
  /\ UNCHANGED <<file, hasLink, starts>>

\* The script fails, and rolls back: the request answers 500, the start or command ends.
MigrateFails(p) ==
  /\ At(p, "migrate") /\ proc[p].next <= Latest /\ ~Runs(proc[p].next)
  /\ IF proc[p].serving THEN To(p, "up") ELSE proc' = [proc EXCEPT ![p] = Down]
  /\ UNCHANGED <<version, schema, file, hasLink, starts>>

Migrated(p) ==
  /\ At(p, "migrate") /\ proc[p].next > Latest
  /\ To(p, IF proc[p].serving THEN "up" ELSE "key")
  /\ UNCHANGED <<version, schema, file, hasLink, starts>>

-----------------------------------------------------------------------------
(* jwt_secret() without P4N4_API_JWT_SECRET *)

\* The file is looked for ...
FindKey(p) ==
  /\ At(p, "key")
  /\ To(p, IF file # NoFile THEN "read" ELSE IF hasLink THEN "link" ELSE "write")
  /\ UNCHANGED <<version, schema, file, hasLink, starts>>

\* ... and, if missing, a complete temporary file is linked into its place; a link does not
\* replace a file.  A defect to test the properties with: a rename, which does.
RenameKey(p) ==
  /\ At(p, "link")
  /\ file' = KeyOf(p)
  /\ To(p, "read")
  /\ UNCHANGED <<version, schema, hasLink, starts>>

LinkKey(p) ==
  /\ At(p, "link")
  /\ file' = IF file = NoFile THEN KeyOf(p) ELSE file
  /\ To(p, "read")
  /\ UNCHANGED <<version, schema, hasLink, starts>>

\* Without links it is created exclusively, empty, and then written.
CreateKey(p) ==
  /\ At(p, "write") /\ file = NoFile
  /\ file' = Empty
  /\ proc' = [proc EXCEPT ![p].key = Empty]   \* it has the file open
  /\ UNCHANGED <<version, schema, hasLink, starts>>

WriteKey(p) ==
  /\ At(p, "write") /\ file # NoFile
  /\ file' = IF proc[p].key = Empty THEN KeyOf(p) ELSE file
  /\ To(p, "read")
  /\ UNCHANGED <<version, schema, hasLink, starts>>

ReadKey(p) ==
  /\ At(p, "read")
  /\ proc' = [proc EXCEPT ![p].at = "up", ![p].key = file]
  /\ UNCHANGED <<version, schema, file, hasLink, starts>>

\* A process ends: killed, or a command is done.
Stop(p) ==
  /\ ~At(p, "down")
  /\ proc' = [proc EXCEPT ![p] = Down]
  /\ UNCHANGED <<version, schema, file, hasLink, starts>>

Init ==
  /\ version \in Released
  /\ schema = SchemaOf(version)
  /\ file = NoFile
  /\ hasLink \in BOOLEAN
  /\ proc = [p \in Procs |-> Down]
  /\ starts = 0

KeyStep(p) == FindKey(p) \/ LinkKey(p) \/ CreateKey(p) \/ WriteKey(p) \/ ReadKey(p)
MigrationStep(p) == Migrate(p) \/ MigrateFails(p) \/ Migrated(p)

Next == \E p \in Procs :
  Start(p) \/ Connect(p) \/ MigrationStep(p) \/ KeyStep(p) \/ Stop(p)

Spec == Init /\ [][Next]_vars

-----------------------------------------------------------------------------
(* Properties *)

\* user_version tells the schema, whatever migration a process was killed in: a migration
\* and its version are one transaction.
VersionTellsSchema == schema = SchemaOf(version)

\* "A concurrent starter either wins or reads the complete file, never an empty one": all
\* processes sign with the same complete key.
OneKey ==
  hasLink => \A p \in Procs : At(p, "up") => proc[p].key = file /\ file \notin {NoFile, Empty}

\* "One entry per schema version, applied in order": each migration is applied once, to the
\* version before it.
AppliedInOrder == [][version' \in {version, version + 1}]_vars
=============================================================================
