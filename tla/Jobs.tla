-------------------------------- MODULE Jobs --------------------------------
(***************************************************************************)
(* Background stack actions of p4n4-api (jobs.py, routes/control.py): the  *)
(* registry _jobs, the one-thread pool behind it, the Compose processes a  *)
(* job runs, and the audit entries written around it.                      *)
(*                                                                         *)
(* Request threads share _jobs under _lock; the worker writes the fields   *)
(* of a job without it, one assignment at a time.  A submit registers the  *)
(* job under the lock and hands it to the pool after releasing it.         *)
(***************************************************************************)
EXTENDS Naturals, FiniteSets, Sequences

CONSTANTS
  Keys,      \* (action, stack, service, pull): what makes two jobs identical
  Requests,  \* the request threads
  Commands,  \* Compose invocations of a job: its stacks, in order
  KeepJobs,  \* KEEP_JOBS
  MaxJobs    \* bound: jobs ever created

ASSUME CommandsAssumption == Commands \in Nat \ {0}
ASSUME KeepAssumption == KeepJobs \in Nat \ {0} /\ MaxJobs \in Nat

VARIABLES
  jobs,       \* the Job objects, numbered in the order of creation
  created,    \* how many were ever created
  kept,       \* the ids in _jobs
  pool,       \* the queue of the executor
  worker,     \* the pool's thread: its job (0: none), the command it is at, the last exit code
  ran,        \* history: how many commands of each job succeeded
  compose,    \* the jobs whose Compose process is running
  accepting,  \* the server takes requests: not between the end of lifespan and the exit
  req,        \* where each request thread is
  audit       \* the newest entry of audit_log: <<event, job>>

vars == <<jobs, created, kept, pool, worker, ran, compose, accepting, req, audit>>

Ids == 1 .. MaxJobs
Ended == {"succeeded", "failed"}
Unset == 2   \* exit_code None; 0 is success and 1 any other code

Job == [key: Keys, status: {"queued", "running", "forgotten"} \cup Ended,
        exit_code: {0, 1, Unset}, finished_at: BOOLEAN]
Steps == {"command", "compose", "exit_code", "status", "finished_at", "audit"}
Events == {"queued", "already queued", "finished"}
Free == [at |-> "free", job |-> 0, cmd |-> 0, code |-> 0]
Idle == [at |-> "idle", job |-> 0]

\* The values of the registry, the queue, the worker, the request threads and the audit log.
TypeOK ==
  /\ created \in 0 .. MaxJobs
  /\ jobs \in [1 .. created -> Job]
  /\ kept \subseteq 1 .. created
  /\ pool \in Seq(1 .. created)
  /\ worker \in {Free} \cup [at: Steps, job: 1 .. created, cmd: 0 .. Commands, code: {0, 1}]
  /\ ran \in [1 .. created -> 0 .. Commands]
  /\ compose \subseteq 1 .. created
  /\ accepting \in BOOLEAN
  /\ req \in [Requests -> {Idle} \cup [at: {"submit"} \cup Events, job: 1 .. created]]
  /\ audit \in {<<>>} \cup (Events \X (1 .. created))

Init ==
  /\ created = 0 /\ jobs = <<>> /\ ran = <<>> /\ kept = {} /\ pool = <<>>
  /\ worker = Free /\ compose = {} /\ accepting = TRUE
  /\ req = [r \in Requests |-> Idle]
  /\ audit = <<>>

-----------------------------------------------------------------------------
(* Requests: submit() and _queue() *)

Go(r, step, j) == req' = [req EXCEPT ![r] = [at |-> step, job |-> j]]

\* The identical jobs still waiting.  A defect to test the properties with: they are looked
\* for in the pool, where a job arrives after the lock is released.
WaitingInPool(k) == {j \in kept : jobs[j].key = k /\ \E i \in DOMAIN pool : pool[i] = j}
Waiting(k) == {j \in kept : jobs[j].key = k /\ jobs[j].status = "queued"}

\* What remains of _jobs with a new job in it: the oldest finished ones beyond KEEP_JOBS go.
\* A defect to test the properties with: the oldest go, finished or not.
Oldest(S, n) == {i \in S : Cardinality({j \in S : j < i}) < n}
Excess == IF Cardinality(kept) >= KeepJobs THEN Cardinality(kept) + 1 - KeepJobs ELSE 0
PrunedOfAny == kept \ Oldest(kept, Excess)
Pruned == kept \ Oldest({j \in kept : jobs[j].finished_at}, Excess)

NewJob(k) ==
  [key |-> k, status |-> "queued", exit_code |-> Unset, finished_at |-> FALSE]

\* The part of submit() under the lock.  lifespan ends when no request is in progress, so
\* the pool that _pool() returned before is not shut down meanwhile.
Submit(r, k) ==
  /\ accepting /\ req[r] = Idle
  /\ Waiting(k) = {}
  /\ created < MaxJobs
  /\ created' = created + 1
  /\ jobs' = Append(jobs, NewJob(k))
  /\ ran' = Append(ran, 0)
  /\ kept' = Pruned \cup {created + 1}
  /\ Go(r, "submit", created + 1)
  /\ UNCHANGED <<pool, worker, compose, accepting, audit>>

Reuse(r, k) ==
  /\ accepting /\ req[r] = Idle
  /\ \E j \in Waiting(k) :
       /\ \A i \in Waiting(k) : j <= i
       /\ Go(r, "already queued", j)
  /\ UNCHANGED <<jobs, created, kept, pool, worker, ran, compose, accepting, audit>>

\* pool.submit, after the lock.
PoolSubmit(r) ==
  /\ req[r].at = "submit"
  /\ pool' = Append(pool, req[r].job)
  /\ Go(r, "queued", req[r].job)
  /\ UNCHANGED <<jobs, created, kept, worker, ran, compose, accepting, audit>>

\* The audit entry has a connection of its own, and may fail (database locked).
RecordQueued(r) ==
  /\ req[r].at \in Events
  /\ audit' \in {audit, <<req[r].at, req[r].job>>}
  /\ req' = [req EXCEPT ![r] = Idle]
  /\ UNCHANGED <<jobs, created, kept, pool, worker, ran, compose, accepting>>

-----------------------------------------------------------------------------
(* The worker: _execute() and _run() *)

At(step) == worker.at = step
Set(field, value) == jobs' = [jobs EXCEPT ![worker.job][field] = value]

\* A defect to test the properties with: the job still shows as queued while it runs.
TakeUnmarked ==
  /\ worker = Free /\ pool # <<>>
  /\ worker' = [at |-> "command", job |-> Head(pool), cmd |-> 0, code |-> 0]
  /\ pool' = Tail(pool)
  /\ UNCHANGED <<jobs, created, kept, ran, compose, accepting, req, audit>>

Take ==
  /\ worker = Free /\ pool # <<>>
  /\ worker' = [at |-> "command", job |-> Head(pool), cmd |-> 0, code |-> 0]
  /\ pool' = Tail(pool)
  /\ jobs' = [jobs EXCEPT ![Head(pool)].status = "running"]
  /\ UNCHANGED <<created, kept, ran, compose, accepting, req, audit>>

StartCompose ==
  /\ At("command")
  /\ compose' = compose \cup {worker.job}
  /\ worker' = [worker EXCEPT !.at = "compose", !.cmd = @ + 1]
  /\ UNCHANGED <<jobs, created, kept, pool, ran, accepting, req, audit>>

\* The last assignments of _execute, in order.  A defect to test the properties with.
StatusFirst == <<"status", "exit_code", "finished_at", "audit">>
Finishing == <<"exit_code", "status", "finished_at", "audit">>
StepAfter(step) == CHOOSE s \in Steps :
  \E i \in 1 .. 3 : Finishing[i] = step /\ Finishing[i + 1] = s
Proceed == worker' = [worker EXCEPT !.at = StepAfter(@)]

\* The first command that fails ends the job, as later stacks may depend on this one.
\* A defect to test the properties with: it only ends the commands of its stack.
NextOfStack(code) == IF worker.cmd < Commands THEN "command" ELSE Finishing[1]
AfterCommand(code) == IF code = 0 /\ worker.cmd < Commands THEN "command" ELSE Finishing[1]

\* Compose ends with some exit code.  When the watchdog's timer fired, a 0 becomes 1.
ComposeEnds(code) ==
  /\ At("compose")
  /\ compose' = compose \ {worker.job}
  /\ ran' = [ran EXCEPT ![worker.job] = IF code = 0 THEN @ + 1 ELSE @]
  /\ worker' = [worker EXCEPT !.at = AfterCommand(code), !.code = code]
  /\ UNCHANGED <<jobs, created, kept, pool, accepting, req, audit>>

\* Popen raises: Compose or the directory is missing.
ComposeMissing ==
  /\ At("command")
  /\ worker' = [worker EXCEPT !.at = Finishing[1], !.code = 1]
  /\ UNCHANGED <<jobs, created, kept, pool, ran, compose, accepting, req, audit>>

SetExitCode ==
  /\ At("exit_code")
  /\ Set("exit_code", worker.code)
  /\ Proceed
  /\ UNCHANGED <<created, kept, pool, ran, compose, accepting, req, audit>>

SetStatus ==
  /\ At("status")
  /\ Set("status", IF worker.code = 0 THEN "succeeded" ELSE "failed")
  /\ Proceed
  /\ UNCHANGED <<created, kept, pool, ran, compose, accepting, req, audit>>

SetFinishedAt ==
  /\ At("finished_at")
  /\ Set("finished_at", TRUE)
  /\ Proceed
  /\ UNCHANGED <<created, kept, pool, ran, compose, accepting, req, audit>>

\* The entry may fail to be written: the pool takes the next job either way.
\* A defect to test the properties with: the exception ends the thread.
RecordFinishedOrDie ==
  /\ At("audit")
  /\ \/ audit' = <<"finished", worker.job>> /\ worker' = Free
     \/ UNCHANGED audit /\ worker' = [worker EXCEPT !.at = "dead"]
  /\ UNCHANGED <<jobs, created, kept, pool, ran, compose, accepting, req>>

RecordFinished ==
  /\ At("audit")
  /\ audit' \in {audit, <<"finished", worker.job>>}
  /\ worker' = Free
  /\ UNCHANGED <<jobs, created, kept, pool, ran, compose, accepting, req>>

-----------------------------------------------------------------------------
(* The process *)

\* The end of lifespan, once no request is in progress: shutdown() drops the queued jobs ...
Shutdown ==
  /\ accepting /\ req = [r \in Requests |-> Idle]
  /\ accepting' = FALSE
  /\ pool' = <<>>
  /\ UNCHANGED <<jobs, created, kept, worker, ran, compose, req, audit>>

\* What a new process knows of the jobs of the one before.
NewProcess ==
  /\ jobs' = [j \in 1 .. created |-> [jobs[j] EXCEPT !.status = "forgotten"]]
  /\ kept' = {} /\ pool' = <<>> /\ worker' = Free
  /\ accepting' = TRUE /\ req' = [r \in Requests |-> Idle]
  /\ UNCHANGED <<created, ran, audit>>

\* ... and the interpreter exits when the pool's thread is done.
Exit ==
  /\ ~accepting /\ worker = Free
  /\ NewProcess
  /\ UNCHANGED compose

\* The process is killed.  Compose may die with it, or go on.
Crash ==
  /\ created > 0
  /\ NewProcess
  /\ compose' \in SUBSET compose

OrphanEnds(j) ==
  /\ j \in compose /\ jobs[j].status = "forgotten"
  /\ compose' = compose \ {j}
  /\ UNCHANGED <<jobs, created, kept, pool, worker, ran, accepting, req, audit>>

Worker ==
  \/ Take
  \/ StartCompose
  \/ ComposeMissing
  \/ \E code \in {0, 1} : ComposeEnds(code)
  \/ SetExitCode
  \/ SetStatus
  \/ SetFinishedAt
  \/ RecordFinished

Next ==
  \/ \E r \in Requests :
       \/ \E k \in Keys : Submit(r, k) \/ Reuse(r, k)
       \/ PoolSubmit(r)
       \/ RecordQueued(r)
  \/ Worker
  \/ Shutdown
  \/ Exit
  \/ Crash
  \/ \E j \in Ids : OrphanEnds(j)

\* Threads that can run do; nothing says that a server is stopped, or that Compose ends by
\* itself: the watchdog's ComposeEnds(1) is what keeps the worker going.
Fairness ==
  /\ WF_vars(Worker)
  /\ WF_vars(Exit)
  /\ \A r \in Requests : WF_vars(PoolSubmit(r))

Spec == Init /\ [][Next]_vars
FairSpec == Spec /\ Fairness

-----------------------------------------------------------------------------
(* Properties *)

\* "A double-clicked button doesn't run Compose twice": there are never two identical jobs
\* waiting, although a job reaches the pool after the lock is released.
NoTwins ==
  \A i, j \in kept :
    jobs[i].status = "queued" /\ jobs[j].status = "queued" /\ jobs[i].key = jobs[j].key
    => i = j

\* The prune forgets no job that a thread still has in hand or that waits in the pool: its
\* Location answers until it is finished.
UnfinishedIsKept ==
  /\ \A i \in DOMAIN pool : pool[i] \in kept
  /\ \A r \in Requests : req[r].at = "submit" => req[r].job \in kept
  /\ worker # Free /\ worker.at # "audit" => worker.job \in kept

\* A poll sees the fields of a job between any two assignments of the worker.  Once the status
\* is an outcome its exit code is there and agrees; a time of finishing, which may still be
\* missing then, is never there before the outcome; and the audit log has the outcome only of a
\* job that shows all three.
OutcomeIsComplete ==
  \A j \in kept :
    /\ jobs[j].status \in Ended =>
         jobs[j].exit_code = IF jobs[j].status = "succeeded" THEN 0 ELSE 1
    /\ jobs[j].finished_at => jobs[j].status \in Ended
    /\ audit = <<"finished", j>> => jobs[j].finished_at

\* A job that succeeded has run all its commands, and each of them succeeded.
SuccessIsOfAll ==
  \A j \in kept : jobs[j].status = "succeeded" => ran[j] = Commands

\* Every job ends, unless the process does first: no interleaving of submits, no failed audit
\* entry and no Compose that hangs leaves one waiting for ever.
EveryJobEnds ==
  \A j \in Ids :
    created >= j ~> created >= j /\ jobs[j].status \in Ended \cup {"forgotten"}

\* The registry, the pool and the worker together are a queue of jobs that run one at a time.
Promise == INSTANCE SerialJobs WITH
  state <- [j \in Ids |-> IF j > created THEN "none" ELSE jobs[j].status]

\* Whatever is killed, times out or fails to be recorded: jobs run one at a time, end once,
\* and what they ended with stays until the process ends.
ImplementsSerialJobs == Promise!Spec
=============================================================================
