----------------------------- MODULE JobsProofs -----------------------------
(***************************************************************************)
(* The queue of background jobs, for any number of identical and different *)
(* requests, threads, commands and jobs kept, and the logs that clients    *)
(* follow, for any number of them and of lines: Jobs.tla and Logs.tla      *)
(* proved.                                                                 *)
(***************************************************************************)
EXTENDS Jobs, Logs, SequenceTheorems, TLAPS

-----------------------------------------------------------------------------
(* Sequences and the operators of Jobs *)

\* A sequence with one more element.
LEMMA AppendType ==
  ASSUME NEW S, NEW n \in Nat, NEW f \in [1 .. n -> S], NEW e \in S
  PROVE  /\ Append(f, e) \in [1 .. n + 1 -> S]
         /\ \A i \in 1 .. n : Append(f, e)[i] = f[i]
         /\ Append(f, e)[n + 1] = e
<1>1. Len(f) = n /\ f \in Seq(S)
  OBVIOUS
<1>2. /\ Append(f, e) \in Seq(S)
      /\ Len(Append(f, e)) = n + 1
      /\ \A i \in 1 .. n : Append(f, e)[i] = f[i]
      /\ Append(f, e)[n + 1] = e
  BY <1>1, AppendProperties
<1>3. Append(f, e) \in [1 .. n + 1 -> S]
  BY <1>2, LenProperties
<1> QED BY <1>2, <1>3

\* Numbers of jobs stay numbers of jobs.
LEMMA SeqGrows ==
  ASSUME NEW n \in Nat, NEW s \in Seq(1 .. n)
  PROVE  s \in Seq(1 .. n + 1)
<1>1. Len(s) \in Nat /\ s \in [1 .. Len(s) -> 1 .. n]
  OBVIOUS
<1>2. s \in [1 .. Len(s) -> 1 .. n + 1]
  BY <1>1
<1> QED BY <1>1, <1>2

\* The elements of a queue after one is taken out of it.
LEMMA TailElements ==
  ASSUME NEW S, NEW s \in Seq(S), s # <<>>
  PROVE  /\ Head(s) \in S /\ Tail(s) \in Seq(S)
         /\ 1 \in DOMAIN s /\ Head(s) = s[1]
         /\ \A i \in DOMAIN Tail(s) : i + 1 \in DOMAIN s /\ Tail(s)[i] = s[i + 1]
                                      /\ i + 1 # 1 /\ i \in Nat
OBVIOUS

\* The prune forgets finished jobs only.
LEMMA PruneKeeps ==
  /\ Pruned \subseteq kept
  /\ \A j \in kept : ~jobs[j].finished_at => j \in Pruned
BY DEF Pruned, Oldest

\* The order of the last assignments of a job.
LEMMA Order ==
  /\ Finishing[1] = "exit_code"
  /\ StepAfter("exit_code") = "status"
  /\ StepAfter("status") = "finished_at"
  /\ StepAfter("finished_at") = "audit"
<1>1. /\ Finishing[1] = "exit_code" /\ Finishing[2] = "status"
      /\ Finishing[3] = "finished_at" /\ Finishing[4] = "audit"
  BY DEF Finishing
<1>2. \A s : s \in Steps /\ (\E i \in 1 .. 3 : Finishing[i] = "exit_code" /\ Finishing[i + 1] = s)
             <=> s = "status"
  BY <1>1 DEF Steps
<1>3. \A s : s \in Steps /\ (\E i \in 1 .. 3 : Finishing[i] = "status" /\ Finishing[i + 1] = s)
             <=> s = "finished_at"
  BY <1>1 DEF Steps
<1>4. \A s : s \in Steps /\ (\E i \in 1 .. 3 : Finishing[i] = "finished_at" /\ Finishing[i + 1] = s)
             <=> s = "audit"
  BY <1>1 DEF Steps
<1> QED BY <1>1, <1>2, <1>3, <1>4 DEF StepAfter

-----------------------------------------------------------------------------
(* The inductive invariant *)

\* What waits in the pool is kept, and waits there once.
PoolInv ==
  /\ \A i \in DOMAIN pool : pool[i] \in kept /\ jobs[pool[i]].status = "queued"
  /\ \A i, k \in DOMAIN pool : pool[i] = pool[k] => i = k

\* What a thread is about to hand to the pool is kept, and only this thread hands it.
HandInv ==
  /\ \A r \in Requests : req[r].at = "submit" =>
       /\ req[r].job \in kept /\ jobs[req[r].job].status = "queued"
       /\ \A i \in DOMAIN pool : pool[i] # req[r].job
  /\ \A r, s \in Requests : req[r].at = "submit" /\ req[s].at = "submit"
                            /\ req[r].job = req[s].job => r = s
  /\ \A r \in Requests : req[r].at # "finished"

Early == {"command", "compose", "exit_code", "status"}

\* How far the worker is with its job.
WorkerInv ==
  worker # Free =>
    LET j == worker.job IN
    /\ worker.at # "audit" => j \in kept /\ ~jobs[j].finished_at
    /\ worker.at = "audit" => jobs[j].finished_at
    /\ worker.at \in Early => jobs[j].status = "running"
    /\ worker.at \in {"finished_at", "audit"} =>
         jobs[j].status = IF worker.code = 0 THEN "succeeded" ELSE "failed"
    /\ worker.at \in {"status", "finished_at", "audit"} => jobs[j].exit_code = worker.code
    /\ worker.at = "command" => worker.cmd < Commands /\ ran[j] = worker.cmd
    /\ worker.at = "compose" => worker.cmd > 0 /\ ran[j] = worker.cmd - 1
    /\ worker.at \notin {"command", "compose"} /\ worker.code = 0 => ran[j] = Commands

\* What is true of each job.
JobInv(j) ==
  /\ j \in kept => jobs[j].status # "forgotten"
  /\ jobs[j].status = "queued" => ran[j] = 0 /\ ~jobs[j].finished_at
  /\ jobs[j].status = "running" => worker # Free /\ worker.job = j /\ ~jobs[j].finished_at
  /\ jobs[j].status \in Ended =>
       jobs[j].exit_code = IF jobs[j].status = "succeeded" THEN 0 ELSE 1
  /\ jobs[j].status = "succeeded" => ran[j] = Commands
  /\ audit = <<"finished", j>> => jobs[j].status \in Ended \cup {"forgotten"} /\ jobs[j].finished_at

JobsInv ==
  /\ TypeOK
  /\ PoolInv /\ HandInv /\ WorkerInv
  /\ \A j \in 1 .. created : JobInv(j)
  /\ NoTwins

-----------------------------------------------------------------------------
(* Types *)

LEMMA TypeInit == ASSUME Init PROVE JobsInv
BY CommandsAssumption, KeepAssumption
DEF Init, JobsInv, TypeOK, PoolInv, HandInv, WorkerInv, NoTwins, Idle, Free, Job

\* The worker at a time.
Working(n) == [at: Steps, job: 1 .. n, cmd: 0 .. Commands, code: {0, 1}]

LEMMA TypeStep == ASSUME JobsInv, [Next]_vars PROVE TypeOK'
<1> USE CommandsAssumption, KeepAssumption
<1>a. /\ created \in Nat /\ created \in 0 .. MaxJobs
      /\ jobs \in [1 .. created -> Job] /\ kept \subseteq 1 .. created
      /\ pool \in Seq(1 .. created) /\ worker \in {Free} \cup Working(created)
      /\ ran \in [1 .. created -> 0 .. Commands] /\ compose \subseteq 1 .. created
      /\ req \in [Requests -> {Idle} \cup [at: {"submit"} \cup Events, job: 1 .. created]]
      /\ audit \in {<<>>} \cup (Events \X (1 .. created))
  BY DEF JobsInv, TypeOK, Working
<1>b. worker # Free => /\ worker.at = "command" => worker.cmd < Commands
                       /\ worker.at = "compose" => ran[worker.job] < Commands
  BY <1>a DEF JobsInv, WorkerInv, Working
<1>1. ASSUME NEW r \in Requests, NEW k \in Keys, Submit(r, k) PROVE TypeOK'
  <2>1. created' = created + 1 /\ created' \in 0 .. MaxJobs /\ 1 .. created \subseteq 1 .. created'
        /\ created' \in 1 .. created'
    BY <1>1, <1>a DEF Submit
  <2>2. NewJob(k) \in Job
    BY DEF NewJob, Job, Unset
  <2>3. jobs' \in [1 .. created' -> Job]
    BY <1>1, <1>a, <2>1, <2>2, AppendType DEF Submit
  <2>4. ran' \in [1 .. created' -> 0 .. Commands]
    <3>1. 0 \in 0 .. Commands
      OBVIOUS
    <3>2. ran' = Append(ran, 0)
      BY <1>1 DEF Submit
    <3> QED BY <1>a, <2>1, <3>1, <3>2, AppendType
  <2>5. kept' \subseteq 1 .. created'
    BY <1>1, <1>a, <2>1, PruneKeeps DEF Submit
  <2>6. pool' \in Seq(1 .. created')
    BY <1>1, <1>a, <2>1, SeqGrows DEF Submit
  <2>7. worker' \in {Free} \cup Working(created')
    BY <1>1, <1>a, <2>1 DEF Submit, Working
  <2>8. req' \in [Requests -> {Idle} \cup [at: {"submit"} \cup Events, job: 1 .. created']]
    BY <1>1, <1>a, <2>1 DEF Submit, Go
  <2>9. audit' \in {<<>>} \cup (Events \X (1 .. created'))
    BY <1>1, <1>a, <2>1 DEF Submit
  <2>10. compose' \subseteq 1 .. created' /\ accepting' \in BOOLEAN
    BY <1>1, <1>a, <2>1 DEF Submit, JobsInv, TypeOK
  <2> QED BY <2>1, <2>3, <2>4, <2>5, <2>6, <2>7, <2>8, <2>9, <2>10 DEF TypeOK, Working
<1>2. ASSUME NEW r \in Requests, NEW k \in Keys, Reuse(r, k) PROVE TypeOK'
  <2>1. PICK j \in Waiting(k) : Go(r, "already queued", j)
    BY <1>2 DEF Reuse
  <2>2. j \in 1 .. created
    BY <1>a DEF Waiting
  <2>3. [at |-> "already queued", job |-> j] \in [at: {"submit"} \cup Events, job: 1 .. created]
    BY <2>2 DEF Events
  <2>4. req' \in [Requests -> {Idle} \cup [at: {"submit"} \cup Events, job: 1 .. created]]
    BY <1>a, <2>1, <2>3 DEF Go
  <2> QED BY <1>2, <2>4 DEF Reuse, JobsInv, TypeOK
<1>3. ASSUME NEW r \in Requests, PoolSubmit(r) PROVE TypeOK'
  <2>1. req[r].job \in 1 .. created
    BY <1>3, <1>a DEF PoolSubmit, Idle
  <2>2. pool' \in Seq(1 .. created)
    BY <1>3, <1>a, <2>1 DEF PoolSubmit
  <2> QED BY <1>3, <1>a, <2>1, <2>2 DEF PoolSubmit, Go, Events, JobsInv, TypeOK
<1>4. ASSUME NEW r \in Requests, RecordQueued(r) PROVE TypeOK'
  <2>1. req[r].job \in 1 .. created /\ req[r].at \in Events
    <3>1. req[r].at \in Events /\ Idle.at \notin Events
      BY <1>4 DEF RecordQueued, Idle, Events
    <3>2. req[r] \in [at: {"submit"} \cup Events, job: 1 .. created]
      BY <1>a, <3>1
    <3> QED BY <3>1, <3>2
  <2> QED BY <1>4, <1>a, <2>1 DEF RecordQueued, JobsInv, TypeOK
<1>5. CASE Take
  <2>1. Head(pool) \in 1 .. created /\ Tail(pool) \in Seq(1 .. created)
    BY <1>5, <1>a, TailElements DEF Take
  <2>2. jobs' \in [1 .. created -> Job]
    BY <1>5, <1>a, <2>1 DEF Take, Job
  <2>3. worker' \in Working(created)
    BY <1>5, <1>a, <2>1 DEF Take, Working, Steps
  <2> QED BY <1>5, <1>a, <2>1, <2>2, <2>3 DEF Take, JobsInv, TypeOK, Working
<1>6. CASE StartCompose
  <2>1. worker # Free /\ worker \in Working(created) /\ worker.cmd < Commands
    BY <1>6, <1>a, <1>b DEF StartCompose, At, Free
  <2>2. worker' \in Working(created) /\ compose' \subseteq 1 .. created
    <3>1. worker' = [worker EXCEPT !.at = "compose", !.cmd = @ + 1]
          /\ compose' = compose \cup {worker.job}
      BY <1>6 DEF StartCompose
    <3>2. worker.cmd + 1 \in 0 .. Commands /\ worker.job \in 1 .. created
      BY <2>1 DEF Working
    <3> QED BY <1>a, <2>1, <3>1, <3>2 DEF Working, Steps
  <2> QED BY <1>6, <1>a, <2>2 DEF StartCompose, JobsInv, TypeOK, Working
<1>7. CASE ComposeMissing
  <2>1. worker # Free /\ worker \in Working(created)
    BY <1>7, <1>a DEF ComposeMissing, At, Free
  <2>2. worker' \in Working(created)
    BY <1>7, <2>1, Order DEF ComposeMissing, Working, Steps
  <2> QED BY <1>7, <1>a, <2>2 DEF ComposeMissing, JobsInv, TypeOK, Working
<1>8. ASSUME NEW code \in {0, 1}, ComposeEnds(code) PROVE TypeOK'
  <2>1. worker # Free /\ worker \in Working(created) /\ ran[worker.job] < Commands
    BY <1>8, <1>a, <1>b DEF ComposeEnds, At, Free
  <2>2. worker' \in Working(created)
    BY <1>8, <2>1, Order DEF ComposeEnds, Working, Steps, AfterCommand
  <2>3. ran' \in [1 .. created -> 0 .. Commands]
    BY <1>8, <1>a, <2>1 DEF ComposeEnds, Working
  <2> QED BY <1>8, <1>a, <2>2, <2>3 DEF ComposeEnds, JobsInv, TypeOK, Working
<1>9. ASSUME NEW field \in {"exit_code", "status", "finished_at"}, NEW value,
             worker.at = field, Set(field, value), Proceed,
             worker.code \in {0, 1} /\ field = "exit_code" => value \in {0, 1},
             field = "status" => value \in Ended,
             field = "finished_at" => value \in BOOLEAN,
             UNCHANGED <<created, kept, pool, ran, compose, accepting, req, audit>>
      PROVE  TypeOK'
  <2>1. worker # Free /\ worker \in Working(created)
    BY <1>9, <1>a DEF Free
  <2>2. worker' \in Working(created)
    BY <1>9, <2>1, Order DEF Proceed, Working, Steps
  <2>3. worker.job \in 1 .. created /\ worker.code \in {0, 1}
    BY <2>1 DEF Working
  <2>4. jobs[worker.job] \in Job
    BY <1>a, <2>3
  <2>5. [jobs[worker.job] EXCEPT ![field] = value] \in Job
    <3>1. CASE field = "exit_code"
      BY <1>9, <2>3, <2>4, <3>1 DEF Job
    <3>2. CASE field = "status"
      BY <1>9, <2>3, <2>4, <3>2 DEF Job
    <3>3. CASE field = "finished_at"
      BY <1>9, <2>3, <2>4, <3>3 DEF Job
    <3> QED BY <1>9, <3>1, <3>2, <3>3
  <2>6. jobs' = [jobs EXCEPT ![worker.job] = [jobs[worker.job] EXCEPT ![field] = value]]
    BY <1>9, <1>a DEF Set
  <2>7. jobs' \in [1 .. created -> Job]
    BY <1>a, <2>3, <2>5, <2>6
  <2> QED BY <1>9, <1>a, <2>2, <2>7 DEF JobsInv, TypeOK, Working
<1>15. CASE SetExitCode \/ SetStatus \/ SetFinishedAt
  <2>1. CASE SetExitCode
    BY <1>9, <2>1 DEF SetExitCode, At
  <2>2. CASE SetStatus
    BY <1>9, <2>2 DEF SetStatus, At, Ended
  <2>3. CASE SetFinishedAt
    BY <1>9, <2>3 DEF SetFinishedAt, At
  <2> QED BY <1>15, <2>1, <2>2, <2>3
<1>10. CASE RecordFinished
  <2>1. worker # Free /\ worker \in Working(created)
    BY <1>10, <1>a DEF RecordFinished, At, Free
  <2>2. <<"finished", worker.job>> \in Events \X (1 .. created)
    BY <2>1 DEF Working, Events
  <2>3. audit' \in {<<>>} \cup (Events \X (1 .. created)) /\ worker' = Free
    BY <1>10, <1>a, <2>2 DEF RecordFinished
  <2> QED BY <1>10, <2>3 DEF RecordFinished, JobsInv, TypeOK
<1>11. CASE Shutdown
  <2>1. pool' \in Seq(1 .. created) /\ accepting' \in BOOLEAN
    BY <1>11, EmptySeq DEF Shutdown
  <2> QED BY <1>11, <2>1 DEF Shutdown, JobsInv, TypeOK
<1>12. ASSUME NewProcess, compose' \subseteq compose PROVE TypeOK'
  <2>1. jobs' \in [1 .. created -> Job]
    BY <1>12, <1>a DEF NewProcess, Job
  <2> QED BY <1>12, <1>a, <2>1 DEF NewProcess, JobsInv, TypeOK
<1>13. ASSUME NEW j \in Ids, OrphanEnds(j) PROVE TypeOK'
  BY <1>13, <1>a DEF OrphanEnds, JobsInv, TypeOK
<1>14. CASE UNCHANGED vars
  BY <1>14 DEF vars, JobsInv, TypeOK
<1> QED
  BY <1>1, <1>2, <1>3, <1>4, <1>5, <1>6, <1>7, <1>8, <1>10, <1>11, <1>12, <1>13, <1>14, <1>15
  DEF Next, Worker, Exit, Crash

-----------------------------------------------------------------------------
(* The steps of requests *)

\* What the types say of the jobs that threads and the worker have in hand.
InHand ==
  /\ created \in Nat /\ jobs \in [1 .. created -> Job] /\ kept \subseteq 1 .. created
  /\ ran \in [1 .. created -> 0 .. Commands]
  /\ pool \in Seq(1 .. created) /\ \A i \in DOMAIN pool : pool[i] \in 1 .. created
  /\ \A r \in Requests : req[r].at \in {"submit"} \cup Events => req[r].job \in 1 .. created
  /\ worker # Free => /\ worker.job \in 1 .. created /\ worker.at \in Steps
                      /\ worker.cmd \in 0 .. Commands /\ worker.code \in {0, 1}
  /\ \A j : audit = <<"finished", j>> => j \in 1 .. created
  /\ DOMAIN req = Requests

LEMMA InHandType == ASSUME TypeOK PROVE InHand
<1>1. created \in Nat /\ jobs \in [1 .. created -> Job] /\ kept \subseteq 1 .. created
      /\ ran \in [1 .. created -> 0 .. Commands] /\ DOMAIN req = Requests
  BY KeepAssumption DEF TypeOK
<1>2. pool \in Seq(1 .. created) /\ \A i \in DOMAIN pool : pool[i] \in 1 .. created
  BY ElementOfSeq, LenProperties DEF TypeOK
<1>3. ASSUME NEW r \in Requests, req[r].at \in {"submit"} \cup Events
      PROVE  req[r].job \in 1 .. created
  <2>1. Idle.at \notin {"submit"} \cup Events
    BY DEF Idle, Events
  <2> QED BY <1>3, <2>1 DEF TypeOK
<1>4. worker # Free => /\ worker.job \in 1 .. created /\ worker.at \in Steps
                       /\ worker.cmd \in 0 .. Commands /\ worker.code \in {0, 1}
  BY DEF TypeOK
<1>5. ASSUME NEW j, audit = <<"finished", j>> PROVE j \in 1 .. created
  BY <1>5 DEF TypeOK
<1> QED BY <1>1, <1>2, <1>3, <1>4, <1>5 DEF InHand

LEMMA SubmitStep ==
  ASSUME JobsInv, TypeOK', NEW r \in Requests, NEW k \in Keys, Submit(r, k)
  PROVE  JobsInv'
<1> DEFINE n == created + 1
<1>a. InHand
  BY InHandType DEF JobsInv
<1>b. /\ n \in Nat /\ n \notin 1 .. created /\ n \notin kept /\ created' = n
      /\ \A j \in 1 .. n : j \in 1 .. created \/ j = n
  BY <1>a DEF Submit, InHand
<1>c. /\ \A j \in 1 .. created : jobs'[j] = jobs[j] /\ ran'[j] = ran[j]
      /\ jobs'[n] = NewJob(k) /\ ran'[n] = 0
  <2>1. NewJob(k) \in Job /\ 0 \in 0 .. Commands /\ created \in Nat
        /\ jobs' = Append(jobs, NewJob(k)) /\ ran' = Append(ran, 0)
    BY <1>a, CommandsAssumption DEF NewJob, Job, Unset, Submit, InHand
  <2> QED BY <1>a, <2>1, AppendType DEF InHand
<1>d. /\ kept' = Pruned \cup {n} /\ Pruned \subseteq kept
      /\ \A j \in kept : ~jobs[j].finished_at => j \in kept'
  BY PruneKeeps DEF Submit
<1>e. /\ req'[r] = [at |-> "submit", job |-> n]
      /\ \A s \in Requests : s # r => req'[s] = req[s]
      /\ pool' = pool /\ worker' = worker /\ audit' = audit
  BY <1>a DEF Submit, Go, InHand
<1>f. \A j \in 1 .. created : jobs[j].status = "queued" => ~jobs[j].finished_at
  BY DEF JobsInv, JobInv
<1>1. PoolInv'
  BY <1>a, <1>c, <1>d, <1>e, <1>f DEF JobsInv, PoolInv, InHand
<1>2. HandInv'
  <2>1. \A s \in Requests : s # r /\ req[s].at = "submit" => req[s].job \in 1 .. created
    BY <1>a DEF InHand
  <2>2. \A i \in DOMAIN pool : pool[i] # n
    BY <1>a, <1>b DEF InHand
  <2>3. n \in kept' /\ jobs'[n].status = "queued"
    BY <1>c, <1>d DEF NewJob
  <2>4. ASSUME NEW s \in Requests, s # r, req[s].at = "submit"
        PROVE  /\ req[s].job \in kept' /\ jobs'[req[s].job].status = "queued"
               /\ req[s].job # n
               /\ \A i \in DOMAIN pool : pool[i] # req[s].job
    <3>1. req[s].job \in 1 .. created /\ req[s].job \in kept /\ jobs[req[s].job].status = "queued"
          /\ \A i \in DOMAIN pool : pool[i] # req[s].job
      BY <2>1, <2>4 DEF JobsInv, HandInv
    <3> QED BY <1>b, <1>c, <1>d, <1>f, <3>1
  <2> HIDE DEF n
  <2>5. /\ \A s \in Requests : req'[s].at # "finished"
        /\ \A s \in Requests : s # r /\ req'[s].at = "submit" => req[s].at = "submit"
        /\ req'[r].job = n
    BY <1>e DEF JobsInv, HandInv
  <2>6. \A s, q \in Requests : req'[s].at = "submit" /\ req'[q].at = "submit"
                              /\ req'[s].job = req'[q].job => s = q
    BY <1>e, <2>4, <2>5 DEF JobsInv, HandInv
  <2> QED BY <1>e, <2>2, <2>3, <2>4, <2>5, <2>6 DEF HandInv
<1>3. WorkerInv'
  BY <1>a, <1>c, <1>d, <1>e DEF JobsInv, WorkerInv, InHand
<1>4. ASSUME NEW j \in 1 .. created' PROVE JobInv(j)'
  <2>1. CASE j \in 1 .. created
    BY <1>b, <1>c, <1>d, <1>e, <2>1 DEF JobsInv, JobInv
  <2>2. CASE j = n
    BY <1>a, <1>b, <1>c, <1>e, <2>2 DEF JobInv, NewJob, Ended, InHand
  <2> QED BY <1>b, <2>1, <2>2
<1>5. NoTwins'
  <2>1. Waiting(k) = {}
    BY DEF Submit
  <2>2. \A j \in kept : j \in 1 .. created /\ ~(jobs[j].key = k /\ jobs[j].status = "queued")
    BY <1>a, <2>1 DEF Waiting, InHand
  <2> QED BY <1>b, <1>c, <1>d, <2>2 DEF JobsInv, NoTwins, NewJob
<1> QED BY <1>1, <1>2, <1>3, <1>4, <1>5 DEF JobsInv

\* Steps that leave the jobs, the pool and the worker alone.
LEMMA RequestStep ==
  ASSUME JobsInv, TypeOK', UNCHANGED <<jobs, created, kept, pool, worker, ran>>, NEW r \in Requests,
         \A s \in Requests : s # r => req'[s] = req[s],
         req'[r].at \notin {"submit", "finished"},
         \A j : audit' = <<"finished", j>> => audit = audit'
  PROVE  JobsInv'
<1>1. PoolInv' /\ WorkerInv' /\ NoTwins'
  BY DEF JobsInv, PoolInv, WorkerInv, NoTwins
<1>2. HandInv'
  BY DEF JobsInv, HandInv
<1>3. \A j \in 1 .. created : JobInv(j)'
  BY DEF JobsInv, JobInv
<1> QED BY <1>1, <1>2, <1>3 DEF JobsInv

LEMMA PoolSubmitStep ==
  ASSUME JobsInv, TypeOK', NEW r \in Requests, PoolSubmit(r)
  PROVE  JobsInv'
<1> DEFINE j == req[r].job
<1>a. InHand
  BY InHandType DEF JobsInv
<1>b. j \in 1 .. created /\ j \in kept /\ jobs[j].status = "queued"
      /\ \A i \in DOMAIN pool : pool[i] # j
  BY <1>a DEF PoolSubmit, JobsInv, HandInv, InHand
<1>c. /\ pool \in Seq(1 .. created) /\ Len(pool) \in Nat
      /\ DOMAIN pool = 1 .. Len(pool) /\ DOMAIN pool' = 1 .. Len(pool) + 1
      /\ \A i \in DOMAIN pool : pool'[i] = pool[i]
      /\ pool'[Len(pool) + 1] = j
  <2>1. pool \in Seq(1 .. created) /\ pool' = Append(pool, j)
    BY <1>a DEF PoolSubmit, InHand
  <2> QED BY <1>b, <2>1, AppendProperties, LenProperties
<1>d. /\ req'[r].at = "queued" /\ \A s \in Requests : s # r => req'[s] = req[s]
      /\ UNCHANGED <<jobs, created, kept, worker, ran, compose, accepting, audit>>
  BY <1>a DEF PoolSubmit, Go, InHand
<1>e. \A i \in DOMAIN pool' : i \in DOMAIN pool \/ (pool'[i] = j /\ i = Len(pool) + 1)
  BY <1>c
<1>1. PoolInv'
  BY <1>b, <1>c, <1>d, <1>e DEF JobsInv, PoolInv
<1>2. HandInv'
  BY <1>b, <1>c, <1>d, <1>e DEF JobsInv, HandInv, PoolSubmit
<1>3. WorkerInv' /\ NoTwins'
  BY <1>d DEF JobsInv, WorkerInv, NoTwins
<1>4. \A i \in 1 .. created : JobInv(i)'
  BY <1>d DEF JobsInv, JobInv
<1> QED BY <1>1, <1>2, <1>3, <1>4, <1>d DEF JobsInv

-----------------------------------------------------------------------------
(* The steps of the worker *)

\* The steps that set no field of a job.
LEMMA WorkStep ==
  ASSUME JobsInv, TypeOK', UNCHANGED <<jobs, created, kept, pool, req>>, worker # Free, WorkerInv',
         \A i \in 1 .. created : i # worker.job => ran'[i] = ran[i],
         jobs[worker.job].status = "running" => worker' # Free /\ worker'.job = worker.job,
         ran'[worker.job] = ran[worker.job] \/ jobs[worker.job].status = "running",
         \A j : audit' = <<"finished", j>> =>
           audit = audit' \/ (j = worker.job /\ jobs[j].status \in Ended /\ jobs[j].finished_at)
  PROVE  JobsInv'
<1>1. PoolInv' /\ HandInv' /\ NoTwins'
  BY DEF JobsInv, PoolInv, HandInv, NoTwins
<1>2. ASSUME NEW i \in 1 .. created PROVE JobInv(i)'
  <2>1. JobInv(i)
    BY DEF JobsInv
  <2>2. ran'[i] = ran[i] \/ jobs[i].status = "running"
    OBVIOUS
  <2> QED BY <2>1, <2>2 DEF JobInv, Ended
<1> QED BY <1>1, <1>2 DEF JobsInv

\* The steps that set a field of the worker's job.
LEMMA SetStep ==
  ASSUME JobsInv, TypeOK', UNCHANGED <<created, kept, pool, req, ran, audit>>, worker # Free,
         worker.at # "audit", worker' # Free, worker'.job = worker.job, WorkerInv',
         \A i \in 1 .. created : i # worker.job => jobs'[i] = jobs[i],
         jobs'[worker.job].key = jobs[worker.job].key,
         jobs'[worker.job].status \notin {"queued", "forgotten"},
         JobInv(worker.job)'
  PROVE  JobsInv'
<1>a. InHand
  BY InHandType DEF JobsInv
<1>b. worker.job \in 1 .. created /\ jobs[worker.job].status # "queued"
  BY <1>a DEF InHand, JobsInv, WorkerInv, Early, Steps
<1>1. PoolInv'
  BY <1>a, <1>b DEF JobsInv, PoolInv, InHand
<1>2. HandInv'
  BY <1>a, <1>b DEF JobsInv, HandInv, InHand, Events
<1>3. NoTwins'
  <2>1. \A i \in kept : jobs'[i].status = "queued" => jobs'[i] = jobs[i]
    BY <1>a DEF InHand
  <2> QED BY <2>1 DEF JobsInv, NoTwins
<1>4. ASSUME NEW i \in 1 .. created PROVE JobInv(i)'
  <2>1. CASE i = worker.job
    BY <2>1
  <2>2. CASE i # worker.job
    BY <2>2 DEF JobsInv, JobInv
  <2> QED BY <2>1, <2>2
<1> QED BY <1>1, <1>2, <1>3, <1>4 DEF JobsInv

LEMMA TakeStep == ASSUME JobsInv, TypeOK', Take PROVE JobsInv'
<1> DEFINE j == Head(pool)
<1>a. InHand
  BY InHandType DEF JobsInv
<1>b. /\ j \in 1 .. created /\ j \in kept /\ jobs[j].status = "queued"
      /\ \A i \in DOMAIN Tail(pool) : Tail(pool)[i] # j
                                      /\ \E k \in DOMAIN pool : Tail(pool)[i] = pool[k]
      /\ \A i, k \in DOMAIN Tail(pool) : Tail(pool)[i] = Tail(pool)[k] => i = k
  <2>1. pool \in Seq(1 .. created) /\ pool # <<>>
    BY <1>a DEF Take, InHand
  <2>2. /\ 1 \in DOMAIN pool /\ j = pool[1]
        /\ \A i \in DOMAIN Tail(pool) : i + 1 \in DOMAIN pool /\ Tail(pool)[i] = pool[i + 1]
                                        /\ i + 1 # 1 /\ i \in Nat
    BY <2>1, TailElements
  <2>3. \A i, k \in DOMAIN pool : pool[i] = pool[k] => i = k
    BY DEF JobsInv, PoolInv
  <2>4. j \in 1 .. created /\ j \in kept /\ jobs[j].status = "queued"
    BY <1>a, <2>2 DEF JobsInv, PoolInv, InHand
  <2>5. ASSUME NEW i \in DOMAIN Tail(pool) PROVE Tail(pool)[i] # j
    <3>1. i + 1 \in DOMAIN pool /\ Tail(pool)[i] = pool[i + 1] /\ i + 1 # 1
      BY <2>2
    <3> QED BY <2>2, <2>3, <3>1
  <2>6. ASSUME NEW i \in DOMAIN Tail(pool), NEW k \in DOMAIN Tail(pool),
               Tail(pool)[i] = Tail(pool)[k]
        PROVE  i = k
    <3>1. /\ i + 1 \in DOMAIN pool /\ k + 1 \in DOMAIN pool /\ i \in Nat /\ k \in Nat
          /\ pool[i + 1] = pool[k + 1]
      BY <2>2, <2>6
    <3>2. i + 1 = k + 1
      BY <2>3, <3>1
    <3> QED BY <3>1, <3>2
  <2> QED BY <2>2, <2>4, <2>5, <2>6
<1>c. /\ worker = Free /\ worker' = [at |-> "command", job |-> j, cmd |-> 0, code |-> 0]
      /\ pool' = Tail(pool)
      /\ jobs'[j] = [jobs[j] EXCEPT !.status = "running"]
      /\ \A i \in 1 .. created : i # j => jobs'[i] = jobs[i]
      /\ UNCHANGED <<created, kept, ran, req, audit>>
  BY <1>a, <1>b DEF Take, InHand
<1> HIDE DEF j
<1>d. jobs'[j].status = "running" /\ jobs'[j].finished_at = jobs[j].finished_at
      /\ jobs'[j].exit_code = jobs[j].exit_code /\ jobs'[j].key = jobs[j].key
  <2>1. jobs[j] \in Job
    BY <1>a, <1>b DEF InHand
  <2> QED BY <1>c, <2>1 DEF Job
<1>e. JobInv(j)
  BY <1>b DEF JobsInv
<1>1. PoolInv'
  <2>1. ASSUME NEW i \in DOMAIN pool'
        PROVE  pool'[i] \in kept' /\ jobs'[pool'[i]].status = "queued"
    <3>1. PICK k \in DOMAIN pool : pool'[i] = pool[k]
      BY <1>b, <1>c
    <3>2. pool[k] # j /\ pool[k] \in kept /\ jobs[pool[k]].status = "queued"
          /\ pool[k] \in 1 .. created
      BY <1>a, <1>b, <1>c, <3>1 DEF JobsInv, PoolInv, InHand
    <3> QED BY <1>c, <3>1, <3>2
  <2> QED BY <1>b, <1>c, <2>1 DEF PoolInv
<1>2. HandInv'
  <2>1. \A r \in Requests : req[r].at = "submit" =>
          /\ req[r].job \in kept /\ jobs[req[r].job].status = "queued"
          /\ req[r].job \in 1 .. created
          /\ req[r].job # j
          /\ \A i \in DOMAIN pool' : pool'[i] # req[r].job
    <3>1. \E k \in DOMAIN pool : pool[k] = j
      BY <1>a, TailElements DEF Take, InHand, j
    <3>2. ASSUME NEW r \in Requests, req[r].at = "submit"
          PROVE  /\ req[r].job \in kept /\ jobs[req[r].job].status = "queued"
                 /\ req[r].job \in 1 .. created
                 /\ req[r].job # j
                 /\ \A i \in DOMAIN pool' : pool'[i] # req[r].job
      <4>1. /\ req[r].job \in kept /\ jobs[req[r].job].status = "queued"
            /\ \A i \in DOMAIN pool : pool[i] # req[r].job
        BY <3>2 DEF JobsInv, HandInv
      <4>2. req[r].job \in 1 .. created
        BY <1>a, <4>1 DEF InHand
      <4> QED BY <1>b, <1>c, <3>1, <4>1, <4>2
    <3> QED BY <3>2
  <2>2. \A r \in Requests : req[r].at = "submit" =>
          jobs'[req[r].job].status = "queued" /\ req[r].job \in kept'
    BY <1>c, <2>1
  <2> QED BY <1>c, <2>1, <2>2 DEF JobsInv, HandInv
<1>3. WorkerInv'
  <2>1. /\ worker'.at = "command" /\ worker'.job = j /\ worker'.cmd = 0 /\ worker'.code = 0
    BY <1>c
  <2>2. /\ j \in kept' /\ jobs'[j].status = "running" /\ ~jobs'[j].finished_at
        /\ ran'[j] = 0 /\ 0 < Commands
    BY <1>b, <1>c, <1>d, <1>e, CommandsAssumption DEF JobInv
  <2> QED BY <2>1, <2>2 DEF WorkerInv, Early
<1>4. ASSUME NEW i \in 1 .. created PROVE JobInv(i)'
  <2>1. CASE i = j
    BY <2>1, <1>b, <1>c, <1>d, <1>e DEF JobInv, Ended, Free
  <2>2. CASE i # j
    <3>1. JobInv(i) /\ jobs[i].status # "running"
      BY <1>c DEF JobsInv, JobInv
    <3> QED BY <2>2, <1>c, <3>1 DEF JobInv
  <2> QED BY <2>1, <2>2
<1>5. NoTwins'
  <2>1. \A i \in kept : jobs'[i].status = "queued" => jobs'[i] = jobs[i]
    BY <1>a, <1>c, <1>d DEF InHand
  <2> QED BY <1>c, <2>1 DEF JobsInv, NoTwins
<1> QED BY <1>1, <1>2, <1>3, <1>4, <1>5, <1>c DEF JobsInv

\* A command starts, ends, or cannot start; the job's outcome is recorded.
LEMMA CommandStep ==
  ASSUME JobsInv, TypeOK',
         StartCompose \/ ComposeMissing \/ (\E code \in {0, 1} : ComposeEnds(code)) \/ RecordFinished
  PROVE  JobsInv'
<1>a. InHand /\ WorkerInv
  BY InHandType DEF JobsInv
<1>b. worker # Free
  BY DEF StartCompose, ComposeMissing, ComposeEnds, RecordFinished, At, Free
<1>c. /\ worker.job \in 1 .. created /\ worker.at \in Steps
      /\ worker.cmd \in 0 .. Commands /\ worker.code \in {0, 1}
      /\ ran \in [1 .. created -> 0 .. Commands]
      /\ DOMAIN worker = {"at", "job", "cmd", "code"}
  BY <1>a, <1>b DEF InHand, JobsInv, TypeOK
<1>1. CASE StartCompose
  <2>1. worker' = [worker EXCEPT !.at = "compose", !.cmd = @ + 1] /\ ran' = ran /\ worker.at = "command"
        /\ UNCHANGED <<jobs, created, kept, pool, req, audit>>
    BY <1>1 DEF StartCompose, At
  <2>2. worker'.at = "compose" /\ worker'.cmd = worker.cmd + 1 /\ worker'.job = worker.job
        /\ worker' # Free
    BY <1>c, <2>1 DEF Free
  <2>3. WorkerInv'
    BY <1>a, <1>b, <1>c, <2>1, <2>2 DEF WorkerInv, Early
  <2> QED BY <1>b, <2>1, <2>2, <2>3, WorkStep
<1>2. CASE ComposeMissing
  <2>1. worker' = [worker EXCEPT !.at = "exit_code", !.code = 1] /\ ran' = ran
        /\ worker.at = "command" /\ UNCHANGED <<jobs, created, kept, pool, req, audit>>
    BY <1>2, Order DEF ComposeMissing, At
  <2>2. worker'.at = "exit_code" /\ worker'.code = 1 /\ worker'.job = worker.job /\ worker' # Free
    BY <1>c, <2>1 DEF Free
  <2>3. WorkerInv'
    BY <1>a, <1>b, <1>c, <2>1, <2>2 DEF WorkerInv, Early
  <2> QED BY <1>b, <2>1, <2>2, <2>3, WorkStep
<1>3. ASSUME NEW code \in {0, 1}, ComposeEnds(code) PROVE JobsInv'
  <2>1. /\ worker' = [worker EXCEPT !.at = AfterCommand(code), !.code = code]
        /\ ran' = [ran EXCEPT ![worker.job] = IF code = 0 THEN @ + 1 ELSE @]
        /\ worker.at = "compose" /\ UNCHANGED <<jobs, created, kept, pool, req, audit>>
    BY <1>3 DEF ComposeEnds, At
  <2>2. /\ worker'.at = AfterCommand(code) /\ worker'.code = code /\ worker'.job = worker.job
        /\ worker'.cmd = worker.cmd
        /\ AfterCommand(code) \in {"command", "exit_code"}
        /\ AfterCommand(code) = "command" <=> code = 0 /\ worker.cmd < Commands
    BY <1>c, <2>1, Order DEF AfterCommand
  <2>3. worker' # Free
    BY <2>2 DEF Free
  <2>4. ran'[worker.job] = IF code = 0 THEN ran[worker.job] + 1 ELSE ran[worker.job]
    BY <1>c, <2>1
  <2>5. worker.cmd > 0 /\ ran[worker.job] = worker.cmd - 1 /\ worker.job \in kept
        /\ ~jobs[worker.job].finished_at /\ jobs[worker.job].status = "running"
    BY <1>a, <1>b, <2>1 DEF WorkerInv, Early
  <2>6. WorkerInv'
    BY <1>c, <2>1, <2>2, <2>3, <2>4, <2>5, CommandsAssumption DEF WorkerInv, Early
  <2>7. \A i \in 1 .. created : i # worker.job => ran'[i] = ran[i]
    BY <1>c, <2>1
  <2> QED BY <1>b, <2>1, <2>2, <2>3, <2>5, <2>6, <2>7, WorkStep
<1>4. CASE RecordFinished
  <2>1. /\ worker' = Free /\ worker.at = "audit" /\ audit' \in {audit, <<"finished", worker.job>>}
        /\ UNCHANGED <<jobs, created, kept, pool, req, ran>>
    BY <1>4 DEF RecordFinished, At
  <2>2. WorkerInv'
    BY <2>1 DEF WorkerInv
  <2>3. /\ jobs[worker.job].status \in Ended /\ jobs[worker.job].status # "running"
        /\ jobs[worker.job].finished_at
    BY <1>a, <1>b, <2>1 DEF WorkerInv, Ended
  <2> QED BY <1>b, <2>1, <2>2, <2>3, WorkStep
<1> QED BY <1>1, <1>2, <1>3, <1>4

\* The worker assigns a field of its job.
LEMMA FieldStep ==
  ASSUME JobsInv, TypeOK', SetExitCode \/ SetStatus \/ SetFinishedAt
  PROVE  JobsInv'
<1>a. InHand /\ WorkerInv
  BY InHandType DEF JobsInv
<1>b. worker # Free
  <2>1. worker.at \in {"exit_code", "status", "finished_at"}
    BY DEF SetExitCode, SetStatus, SetFinishedAt, At
  <2>2. Free.at = "free"
    BY DEF Free
  <2> QED BY <2>1, <2>2
<1>c. /\ worker.job \in 1 .. created /\ worker.code \in {0, 1}
      /\ jobs \in [1 .. created -> Job] /\ jobs[worker.job] \in Job
      /\ DOMAIN worker = {"at", "job", "cmd", "code"}
  BY <1>a, <1>b DEF InHand, JobsInv, TypeOK
<1>d. JobInv(worker.job)
  BY <1>c DEF JobsInv
<1>e. /\ UNCHANGED <<created, kept, pool, req, ran, audit>>
      /\ worker' = [worker EXCEPT !.at = StepAfter(@)]
  BY DEF SetExitCode, SetStatus, SetFinishedAt, Proceed
<1>f. worker'.at = StepAfter(worker.at) /\ worker'.job = worker.job /\ worker'.code = worker.code
      /\ worker'.cmd = worker.cmd
  BY <1>c, <1>e
<1>1. CASE SetExitCode
  <2>1. worker.at = "exit_code" /\ worker'.at = "status" /\ worker' # Free
    BY <1>1, <1>f, Order DEF SetExitCode, At, Free
  <2>2. jobs' = [jobs EXCEPT ![worker.job] = [jobs[worker.job] EXCEPT !.exit_code = worker.code]]
    BY <1>1, <1>c DEF SetExitCode, Set
  <2>3. /\ jobs'[worker.job].exit_code = worker.code
        /\ jobs'[worker.job].status = jobs[worker.job].status
        /\ jobs'[worker.job].finished_at = jobs[worker.job].finished_at
        /\ jobs'[worker.job].key = jobs[worker.job].key
        /\ \A i \in 1 .. created : i # worker.job => jobs'[i] = jobs[i]
    BY <1>c, <2>2 DEF Job
  <2>4. jobs[worker.job].status = "running"
    BY <1>a, <1>b, <2>1 DEF WorkerInv, Early
  <2>5. WorkerInv'
    BY <1>a, <1>b, <1>e, <1>f, <2>1, <2>3 DEF WorkerInv, Early
  <2>6. JobInv(worker.job)'
    BY <1>d, <1>e, <1>f, <2>1, <2>3, <2>4 DEF JobInv, Ended
  <2> QED BY <1>b, <1>e, <1>f, <2>1, <2>3, <2>4, <2>5, <2>6, SetStep
<1>2. CASE SetStatus
  <2> DEFINE s == IF worker.code = 0 THEN "succeeded" ELSE "failed"
  <2>1. worker.at = "status" /\ worker'.at = "finished_at" /\ worker' # Free
    BY <1>2, <1>f, Order DEF SetStatus, At, Free
  <2>2. jobs' = [jobs EXCEPT ![worker.job] = [jobs[worker.job] EXCEPT !.status = s]]
    BY <1>2, <1>c DEF SetStatus, Set
  <2>3. /\ jobs'[worker.job].exit_code = jobs[worker.job].exit_code
        /\ jobs'[worker.job].status = s
        /\ jobs'[worker.job].finished_at = jobs[worker.job].finished_at
        /\ jobs'[worker.job].key = jobs[worker.job].key
        /\ \A i \in 1 .. created : i # worker.job => jobs'[i] = jobs[i]
    BY <1>c, <2>2 DEF Job
  <2>4. /\ jobs[worker.job].status = "running" /\ jobs[worker.job].exit_code = worker.code
        /\ ~jobs[worker.job].finished_at
        /\ (worker.code = 0 => ran[worker.job] = Commands)
    BY <1>a, <1>b, <2>1 DEF WorkerInv, Early
  <2>5. WorkerInv'
    BY <1>a, <1>b, <1>e, <1>f, <2>1, <2>3, <2>4 DEF WorkerInv, Early
  <2>6. JobInv(worker.job)'
    BY <1>c, <1>d, <1>e, <1>f, <2>1, <2>3, <2>4 DEF JobInv, Ended
  <2> QED BY <1>b, <1>e, <1>f, <2>1, <2>3, <2>4, <2>5, <2>6, SetStep
<1>3. CASE SetFinishedAt
  <2>1. worker.at = "finished_at" /\ worker'.at = "audit" /\ worker' # Free
    BY <1>3, <1>f, Order DEF SetFinishedAt, At, Free
  <2>2. jobs' = [jobs EXCEPT ![worker.job] = [jobs[worker.job] EXCEPT !.finished_at = TRUE]]
    BY <1>3, <1>c DEF SetFinishedAt, Set
  <2>3. /\ jobs'[worker.job].exit_code = jobs[worker.job].exit_code
        /\ jobs'[worker.job].status = jobs[worker.job].status
        /\ jobs'[worker.job].key = jobs[worker.job].key /\ jobs'[worker.job].finished_at
        /\ \A i \in 1 .. created : i # worker.job => jobs'[i] = jobs[i]
    BY <1>c, <2>2 DEF Job
  <2>4. jobs[worker.job].status \in Ended
    BY <1>a, <1>b, <2>1 DEF WorkerInv, Ended
  <2>5. WorkerInv'
    BY <1>a, <1>b, <1>e, <1>f, <2>1, <2>3, <2>4 DEF WorkerInv, Early
  <2>6. JobInv(worker.job)'
    BY <1>d, <1>e, <1>f, <2>1, <2>3, <2>4 DEF JobInv, Ended
  <2> QED BY <1>b, <1>e, <1>f, <2>1, <2>3, <2>4, <2>5, <2>6, SetStep DEF Ended
<1> QED BY <1>1, <1>2, <1>3

-----------------------------------------------------------------------------
(* The steps of the process, and all the steps *)

\* A new process has forgotten every job.
LEMMA NewProcessStep == ASSUME JobsInv, TypeOK', NewProcess PROVE JobsInv'
<1>a. /\ kept' = {} /\ pool' = <<>> /\ worker' = Free /\ created' = created /\ audit' = audit
      /\ \A r \in Requests : req'[r] = Idle
      /\ jobs' = [j \in 1 .. created |-> [jobs[j] EXCEPT !.status = "forgotten"]]
  BY DEF NewProcess
<1>b. \A j \in 1 .. created :
        jobs'[j].status = "forgotten" /\ jobs'[j].finished_at = jobs[j].finished_at
  <2>1. jobs \in [1 .. created -> Job]
    BY DEF JobsInv, TypeOK
  <2> QED BY <1>a, <2>1 DEF Job
<1>1. PoolInv' /\ WorkerInv' /\ NoTwins'
  BY <1>a DEF PoolInv, WorkerInv, NoTwins
<1>2. HandInv'
  BY <1>a DEF HandInv, Idle
<1>3. \A j \in 1 .. created' : JobInv(j)'
  BY <1>a, <1>b DEF JobsInv, JobInv, Ended
<1> QED BY <1>1, <1>2, <1>3 DEF JobsInv

LEMMA JobsStep == ASSUME JobsInv, [Next]_vars PROVE JobsInv'
<1> USE TypeStep
<1>1. ASSUME NEW r \in Requests, NEW k \in Keys, Submit(r, k) PROVE JobsInv'
  BY <1>1, SubmitStep
<1>2. ASSUME NEW r \in Requests, NEW k \in Keys, Reuse(r, k) PROVE JobsInv'
  <2>1. PICK j \in Waiting(k) : Go(r, "already queued", j)
    BY <1>2 DEF Reuse
  <2>2. /\ req'[r].at = "already queued" /\ \A s \in Requests : s # r => req'[s] = req[s]
        /\ UNCHANGED <<jobs, created, kept, pool, worker, ran, audit>>
    BY <1>2, <2>1 DEF Reuse, Go, JobsInv, TypeOK
  <2> QED BY <2>2, RequestStep
<1>3. ASSUME NEW r \in Requests, PoolSubmit(r) PROVE JobsInv'
  BY <1>3, PoolSubmitStep
<1>4. ASSUME NEW r \in Requests, RecordQueued(r) PROVE JobsInv'
  <2>1. /\ req'[r] = Idle /\ \A s \in Requests : s # r => req'[s] = req[s]
        /\ audit' \in {audit, <<req[r].at, req[r].job>>} /\ req[r].at # "finished"
        /\ UNCHANGED <<jobs, created, kept, pool, worker, ran>>
    BY <1>4 DEF RecordQueued, JobsInv, HandInv, TypeOK
  <2>2. req'[r].at \notin {"submit", "finished"}
    BY <2>1 DEF Idle
  <2>3. \A j : audit' = <<"finished", j>> => audit = audit'
    BY <2>1
  <2> QED BY <2>1, <2>2, <2>3, RequestStep
<1>5. CASE Worker
  BY <1>5, TakeStep, CommandStep, FieldStep DEF Worker
<1>6. CASE Shutdown
  <2>1. pool' = <<>> /\ UNCHANGED <<jobs, created, kept, worker, ran, req, audit>>
    BY <1>6 DEF Shutdown
  <2>2. PoolInv' /\ WorkerInv' /\ NoTwins'
    BY <2>1 DEF JobsInv, PoolInv, WorkerInv, NoTwins
  <2>3. HandInv'
    BY <2>1 DEF JobsInv, HandInv
  <2>4. \A j \in 1 .. created' : JobInv(j)'
    BY <2>1 DEF JobsInv, JobInv
  <2> QED BY <2>2, <2>3, <2>4 DEF JobsInv
<1>7. CASE Exit \/ Crash
  BY <1>7, NewProcessStep DEF Exit, Crash
<1>8. CASE UNCHANGED <<jobs, created, kept, pool, worker, ran, req, audit>>
  <2>1. PoolInv' /\ WorkerInv' /\ NoTwins' /\ HandInv'
    BY <1>8 DEF JobsInv, PoolInv, WorkerInv, NoTwins, HandInv
  <2>2. \A j \in 1 .. created' : JobInv(j)'
    BY <1>8 DEF JobsInv, JobInv
  <2> QED BY <2>1, <2>2 DEF JobsInv
<1>9. (\E j \in Ids : OrphanEnds(j)) \/ UNCHANGED vars
      => UNCHANGED <<jobs, created, kept, pool, worker, ran, req, audit>>
  BY DEF OrphanEnds, vars
<1> QED BY <1>1, <1>2, <1>3, <1>4, <1>5, <1>6, <1>7, <1>8, <1>9 DEF Next

LEMMA JobsAlways == Spec => []JobsInv
<1>1. Init => JobsInv
  BY TypeInit
<1>2. JobsInv /\ [Next]_vars => JobsInv'
  BY JobsStep
<1> QED BY <1>1, <1>2, PTL DEF Spec

-----------------------------------------------------------------------------
(* The theorems *)

\* jobs.py, routes/control.py: the registry, the pool and the worker keep their types.
THEOREM TypeCorrect == Spec => []TypeOK
<1>1. JobsInv => TypeOK
  BY DEF JobsInv
<1> QED BY <1>1, JobsAlways, PTL

\* jobs.py submit(): there are never two identical jobs waiting, although a job reaches the
\* pool after the lock is released.
THEOREM TwinsCorrect == Spec => []NoTwins
<1>1. JobsInv => NoTwins
  BY DEF JobsInv
<1> QED BY <1>1, JobsAlways, PTL

\* jobs.py _prune(): no job is forgotten that waits, runs, or is on its way to the pool.
THEOREM KeptCorrect == Spec => []UnfinishedIsKept
<1>1. JobsInv => UnfinishedIsKept
  BY DEF JobsInv, PoolInv, HandInv, WorkerInv, UnfinishedIsKept
<1> QED BY <1>1, JobsAlways, PTL

\* jobs.py _execute(), routes/control.py: between any two assignments of the worker, a finished
\* status comes with the exit code that agrees with it, a time of finishing with a finished
\* status, and an entry of the audit log with all three.
THEOREM OutcomeCorrect == Spec => []OutcomeIsComplete
<1>1. ASSUME JobsInv PROVE OutcomeIsComplete
  <2>1. \A j \in kept : JobInv(j)
    BY <1>1 DEF JobsInv, TypeOK
  <2>2. \A j \in kept : jobs[j].status \in {"queued", "running"} \cup Ended
    BY <1>1, <2>1 DEF JobsInv, TypeOK, Job, JobInv
  <2> QED BY <2>1, <2>2 DEF JobInv, OutcomeIsComplete
<1> QED BY <1>1, JobsAlways, PTL

\* jobs.py _run(): a job that succeeded ran each of its commands, and each one succeeded.
THEOREM SuccessCorrect == Spec => []SuccessIsOfAll
<1>1. ASSUME JobsInv PROVE SuccessIsOfAll
  <2>1. \A j \in kept : JobInv(j)
    BY <1>1 DEF JobsInv, TypeOK
  <2> QED BY <2>1 DEF JobInv, SuccessIsOfAll
<1> QED BY <1>1, JobsAlways, PTL

-----------------------------------------------------------------------------
(* The refinement *)

\* The state of each job, as SerialJobs sees it.
Seen == [j \in Ids |-> IF j > created THEN "none" ELSE jobs[j].status]

LEMMA SeenInit == ASSUME Init PROVE Promise!Init
BY KeepAssumption DEF Init, Promise!Init, Ids

\* A step that changes the status of one job only.
LEMMA SeenOne ==
  ASSUME JobsInv, UNCHANGED created, NEW i \in 1 .. created,
         \A j \in 1 .. created : j # i => jobs'[j].status = jobs[j].status
  PROVE  /\ Seen' = [Seen EXCEPT ![i] = jobs'[i].status] /\ i \in Ids
         /\ \A j \in 1 .. created : Seen[j] = jobs[j].status
<1>1. created \in 0 .. MaxJobs
  BY DEF JobsInv, TypeOK
<1>2. \A j \in Ids : j > created \/ j \in 1 .. created
  BY <1>1, KeepAssumption DEF Ids
<1>3. i \in Ids /\ ~(i > created) /\ \A j \in 1 .. created : j \in Ids /\ ~(j > created)
  BY <1>1, KeepAssumption DEF Ids
<1>4. \A j \in Ids : Seen'[j] = IF j = i THEN jobs'[i].status ELSE Seen[j]
  BY <1>2, <1>3 DEF Seen
<1> QED BY <1>3, <1>4 DEF Seen

LEMMA SeenStep == ASSUME JobsInv, [Next]_vars PROVE [Promise!Next]_Seen
<1>a. InHand /\ created \in 0 .. MaxJobs
  BY InHandType DEF JobsInv, TypeOK
<1>b. \A j \in Ids : j > created \/ j \in 1 .. created
  BY <1>a, KeepAssumption DEF Ids
<1>1. ASSUME NEW r \in Requests, NEW k \in Keys, Submit(r, k) PROVE Promise!Next
  <2> DEFINE n == created + 1
  <2>1. n \in Ids /\ created' = n /\ ~(n > created') /\ n > created
        /\ \A j \in Ids : j > created' => j > created /\ j # n
    BY <1>1, <1>a, KeepAssumption DEF Submit, Ids
  <2>2. /\ \A j \in 1 .. created : jobs'[j] = jobs[j] /\ ~(j > created') /\ j # n
        /\ jobs'[n].status = "queued"
        /\ \A j \in Ids : j > created' \/ j \in 1 .. created \/ j = n
    <3>1. NewJob(k) \in Job /\ jobs' = Append(jobs, NewJob(k)) /\ NewJob(k).status = "queued"
      BY <1>1 DEF NewJob, Job, Unset, Submit
    <3>2. created \in Nat /\ jobs \in [1 .. created -> Job]
      BY <1>a DEF InHand
    <3>3. (\A j \in 1 .. created : jobs'[j] = jobs[j]) /\ jobs'[n] = NewJob(k)
      BY <3>1, <3>2, AppendType
    <3>4. \A j \in 1 .. created : ~(j > created') /\ j # n
      BY <2>1, <3>2
    <3>5. \A j \in Ids : j > created' \/ j \in 1 .. created \/ j = n
      BY <1>b, <2>1, <3>2 DEF Ids
    <3> QED BY <3>1, <3>3, <3>4, <3>5
  <2> HIDE DEF n
  <2>3. Seen[n] = "none" /\ \A j \in Ids : Seen'[j] = IF j = n THEN "queued" ELSE Seen[j]
    <3>1. ASSUME NEW j \in Ids PROVE Seen'[j] = IF j = n THEN "queued" ELSE Seen[j]
      <4>1. CASE j = n
        BY <2>1, <2>2, <4>1 DEF Seen
      <4>2. CASE j > created'
        BY <2>1, <4>2 DEF Seen
      <4>3. CASE j \in 1 .. created
        <5>1. ~(j > created) /\ ~(j > created') /\ jobs'[j] = jobs[j] /\ j # n
          BY <1>a, <2>2, <4>3 DEF InHand
        <5> QED BY <5>1 DEF Seen
      <4> QED BY <2>2, <4>1, <4>2, <4>3
    <3> QED BY <2>1, <3>1 DEF Seen
  <2>4. Seen' = [Seen EXCEPT ![n] = "queued"]
    BY <2>3 DEF Seen
  <2> QED BY <2>1, <2>3, <2>4 DEF Promise!Next, Promise!Queue, Seen
<1>2. CASE Take
  <2> DEFINE i == Head(pool)
  <2>1. pool \in Seq(1 .. created) /\ pool # <<>> /\ worker = Free
    BY <1>2, <1>a DEF Take, InHand
  <2>2. 1 \in DOMAIN pool /\ i = pool[1] /\ i \in 1 .. created
    BY <2>1, TailElements
  <2>3. jobs[i].status = "queued" /\ \A j \in 1 .. created : jobs[j].status # "running"
    BY <2>1, <2>2 DEF JobsInv, PoolInv, JobInv
  <2>4. /\ jobs'[i].status = "running" /\ created' = created
        /\ \A j \in 1 .. created : j # i => jobs'[j].status = jobs[j].status
    <3>1. jobs[i] \in Job
      BY <1>a, <2>2 DEF InHand
    <3> QED BY <1>2, <1>a, <2>2, <3>1 DEF Take, InHand, Job
  <2> HIDE DEF i
  <2>5. Seen' = [Seen EXCEPT ![i] = "running"] /\ i \in Ids /\ Seen[i] = "queued"
    BY <2>2, <2>3, <2>4, SeenOne
  <2>6. \A j \in Ids : Seen[j] # "running"
    BY <1>b, <2>3 DEF Seen
  <2> QED BY <2>5, <2>6 DEF Promise!Next, Promise!Run, Seen
<1>3. CASE SetStatus
  <2> DEFINE i == worker.job
             end == IF worker.code = 0 THEN "succeeded" ELSE "failed"
  <2>1. worker # Free /\ worker.at = "status" /\ i \in 1 .. created
    BY <1>3, <1>a DEF SetStatus, At, Free, InHand
  <2>2. jobs[i].status = "running" /\ jobs[i] \in Job
    BY <1>a, <2>1 DEF JobsInv, WorkerInv, Early, InHand
  <2>3. /\ jobs'[i].status = end /\ created' = created
        /\ \A j \in 1 .. created : j # i => jobs'[j].status = jobs[j].status
    BY <1>3, <1>a, <2>1, <2>2 DEF SetStatus, Set, InHand, Job
  <2>4. end \in Promise!Ends
    BY DEF Promise!Ends
  <2> HIDE DEF i, end
  <2>5. Seen' = [Seen EXCEPT ![i] = end] /\ i \in Ids /\ Seen[i] = "running"
    BY <2>1, <2>2, <2>3, SeenOne
  <2> QED BY <2>4, <2>5 DEF Promise!Next, Promise!Finish, Seen
<1>4. CASE SetExitCode \/ SetFinishedAt
  <2> DEFINE i == worker.job
  <2>1. worker # Free /\ i \in 1 .. created
    <3>1. worker.at \in {"exit_code", "finished_at"} /\ Free.at = "free"
      BY <1>4 DEF SetExitCode, SetFinishedAt, At, Free
    <3>2. worker # Free
      BY <3>1
    <3> QED BY <1>a, <3>2 DEF InHand
  <2>2. jobs[i] \in Job /\ DOMAIN jobs = 1 .. created
    BY <1>a, <2>1 DEF InHand
  <2>3. PICK e \in Job : jobs' = [jobs EXCEPT ![i] = e] /\ e.status = jobs[i].status
    <3>1. CASE SetExitCode
      <4>1. jobs' = [jobs EXCEPT ![i] = [jobs[i] EXCEPT !.exit_code = worker.code]]
        BY <3>1, <2>2 DEF SetExitCode, Set
      <4>2. worker.code \in {0, 1}
        BY <1>a, <2>1 DEF InHand
      <4>3. /\ [jobs[i] EXCEPT !.exit_code = worker.code] \in Job
            /\ [jobs[i] EXCEPT !.exit_code = worker.code].status = jobs[i].status
        BY <2>2, <4>2 DEF Job
      <4> QED BY <4>1, <4>3
    <3>2. CASE SetFinishedAt
      <4>1. jobs' = [jobs EXCEPT ![i] = [jobs[i] EXCEPT !.finished_at = TRUE]]
        BY <3>2, <2>2 DEF SetFinishedAt, Set
      <4>2. /\ [jobs[i] EXCEPT !.finished_at = TRUE] \in Job
            /\ [jobs[i] EXCEPT !.finished_at = TRUE].status = jobs[i].status
        BY <2>2 DEF Job
      <4> QED BY <4>1, <4>2
    <3> QED BY <1>4, <3>1, <3>2
  <2>4. created' = created /\ \A j \in 1 .. created : jobs'[j].status = jobs[j].status
    BY <1>4, <2>2, <2>3 DEF SetExitCode, SetFinishedAt
  <2> QED BY <1>b, <2>4 DEF Seen
<1>5. CASE Exit \/ Crash
  <2>1. created' = created
        /\ jobs' = [j \in 1 .. created |-> [jobs[j] EXCEPT !.status = "forgotten"]]
    BY <1>5 DEF Exit, Crash, NewProcess
  <2>2. \A j \in 1 .. created : jobs[j].status # "none" /\ jobs'[j].status = "forgotten"
    BY <1>a, <2>1 DEF InHand, Job, Ended
  <2>3. \A j \in Ids : Seen'[j] = IF Seen[j] = "none" THEN "none" ELSE "forgotten"
    <3>1. \A j \in 1 .. created : ~(j > created)
      BY <1>a DEF InHand
    <3> QED BY <1>b, <2>1, <2>2, <3>1 DEF Seen
  <2>4. Promise!Restart
    BY <2>3 DEF Promise!Restart, Seen
  <2> QED BY <2>4 DEF Promise!Next
<1>6. CASE UNCHANGED <<jobs, created>>
  BY <1>6 DEF Seen
<1>7. /\ \A r \in Requests :
           /\ \A k \in Keys : Reuse(r, k) => UNCHANGED <<jobs, created>>
           /\ PoolSubmit(r) \/ RecordQueued(r) => UNCHANGED <<jobs, created>>
      /\ StartCompose \/ ComposeMissing \/ (\E code \in {0, 1} : ComposeEnds(code))
         \/ RecordFinished \/ Shutdown \/ (\E j \in Ids : OrphanEnds(j)) \/ UNCHANGED vars
         => UNCHANGED <<jobs, created>>
  BY DEF Reuse, PoolSubmit, RecordQueued, StartCompose, ComposeMissing, ComposeEnds,
         RecordFinished, Shutdown, OrphanEnds, vars
<1> QED BY <1>1, <1>2, <1>3, <1>4, <1>5, <1>6, <1>7 DEF Next, Worker

\* jobs.py: whatever is killed, times out or fails to be recorded, jobs run one at a time, end
\* once, and what they ended with stays until the process ends.
THEOREM SerialCorrect == Spec => ImplementsSerialJobs
<1>1. Init => Promise!Init
  BY SeenInit
<1>2. JobsInv /\ [Next]_vars => [Promise!Next]_Seen
  BY SeenStep
<1>3. [Promise!Next]_Seen <=>
      [Promise!Next]_[j \in Ids |-> IF j > created THEN "none" ELSE jobs[j].status]
  BY DEF Seen
<1> QED BY <1>1, <1>2, <1>3, JobsAlways, PTL DEF Spec, ImplementsSerialJobs, Promise!Spec

-----------------------------------------------------------------------------
(* Followed logs: what was printed is sent, held, or not read yet *)

Asked == [at: LogSteps, follow: BOOLEAN, gone: BOOLEAN, held: {0, 1}, lines: Nat,
          told: {"nothing", "error", "end", "all"}]
Compose == [state: {"none", "orphan", "ended"} \cup Alive, printed: Nat, unread: Nat]

\* Each line printed is accounted for until a client is told that there was an error; at the
\* end nothing is unread, and Compose has ended.
Accounted(l, d) ==
  /\ l.told \in {"end", "all"} =>
       l.at \in {"none", "finally"} /\ l.lines = d.printed /\ d.state = "ended"
  /\ l.told = "nothing" /\ l.at \in {"spawn", "communicate"} \cup Following =>
       l.lines + l.held + d.unread = d.printed
  /\ l.at \in {"spawn", "communicate", "read", "stop", "last"} => l.held = 0
  /\ l.at \in {"spawn", "communicate", "read"} => l.told = "nothing"
  /\ l.at \in {"spawn", "communicate"} => l.lines = 0
  /\ l.at = "spawn" => d.state = "none"
  /\ l.at \in {"stop", "last"} /\ l.told = "nothing" => d.unread = 0 /\ d.state = "ended"

LogsInv ==
  /\ log \in [Clients -> Asked] /\ docker \in [Clients -> Compose]
  /\ \A c \in Clients : Accounted(log[c], docker[c])

LEMMA LogsStart == ASSUME LogsInit PROVE LogsInv
BY DEF LogsInit, LogsInv, Asked, Compose, Accounted, NoRequest, NoProcess, LogSteps, Alive,
       Following

\* A step of one client leaves the others as they were.
LEMMA OneClient ==
  ASSUME LogsInv, NEW c \in Clients, NEW l \in Asked, NEW d \in Compose, Accounted(l, d),
         log' = [log EXCEPT ![c] = l], docker' = [docker EXCEPT ![c] = d]
  PROVE  LogsInv'
BY DEF LogsInv

\* What a client is sent.
LEMMA FollowStep ==
  ASSUME LogsInv, NEW c \in Clients,
         \/ Line(c) \/ Heartbeat(c) \/ TooLong(c) \/ EndOfOutput(c) \/ Taken(c)
         \/ Stopped(c) \/ EndTaken(c) \/ Close(c) \/ Finally(c)
  PROVE  LogsInv'
<1>1. log[c] \in Asked /\ docker[c] \in Compose /\ Accounted(log[c], docker[c])
  BY DEF LogsInv
<1>2. \A l \in Asked, d \in Compose :
        Accounted(l, d) /\ log' = [log EXCEPT ![c] = l] /\ docker' = [docker EXCEPT ![c] = d]
        => LogsInv'
  BY OneClient
<1> USE <1>1 DEF Asked, Compose, LogSteps, Alive, LogAt, LogTo, LogsOver, Left, Stop, Waited
<1>3. docker = [docker EXCEPT ![c] = docker[c]]
  BY DEF LogsInv
<1>4. CASE Line(c)
  <2> DEFINE l == [log[c] EXCEPT !.at = "yield", !.held = 1]
             d == [docker[c] EXCEPT !.unread = @ - 1]
  <2>a. l \in Asked /\ log[c].at = "read" /\ docker[c].unread > 0
    BY <1>4 DEF Line
  <2>b. d \in Compose
    BY <2>a
  <2>1. l \in Asked /\ d \in Compose /\ Accounted(l, d)
    BY <2>a, <2>b DEF Accounted, Following
  <2>2. log' = [log EXCEPT ![c] = l] /\ docker' = [docker EXCEPT ![c] = d]
    BY <1>4 DEF Line, LogsInv
  <2> QED BY <2>1, <2>2, <1>2
<1>5. CASE Heartbeat(c)
  <2> DEFINE l == [log[c] EXCEPT !.at = "yield"]
  <2>1. l \in Asked /\ Accounted(l, docker[c])
    BY <1>5 DEF Heartbeat, Accounted, Following
  <2>2. log' = [log EXCEPT ![c] = l] /\ docker' = [docker EXCEPT ![c] = docker[c]]
    BY <1>3, <1>5 DEF Heartbeat, LogsInv
  <2> QED BY <2>1, <2>2, <1>2
<1>6. CASE TooLong(c)
  <2> DEFINE l == [log[c] EXCEPT !.at = "yield", !.told = "error"]
  <2>1. l \in Asked /\ Accounted(l, docker[c])
    BY <1>6 DEF TooLong, Accounted, Following
  <2>2. log' = [log EXCEPT ![c] = l] /\ docker' = [docker EXCEPT ![c] = docker[c]]
    BY <1>3, <1>6 DEF TooLong, LogsInv
  <2> QED BY <2>1, <2>2, <1>2
<1>7. CASE EndOfOutput(c)
  <2> DEFINE l == [log[c] EXCEPT !.at = "stop"]
  <2>1. l \in Asked /\ Accounted(l, docker[c])
    BY <1>7 DEF EndOfOutput, Accounted, Following
  <2>2. log' = [log EXCEPT ![c] = l] /\ docker' = [docker EXCEPT ![c] = docker[c]]
    BY <1>3, <1>7 DEF EndOfOutput, LogsInv
  <2> QED BY <2>1, <2>2, <1>2
<1>8. CASE Taken(c)
  <2> DEFINE l == [log[c] EXCEPT !.at = IF log[c].told = "error" THEN "stop" ELSE "read",
                                 !.lines = @ + log[c].held, !.held = 0]
             d == [docker[c] EXCEPT !.state =
                     IF log[c].told = "error" /\ @ = "running" THEN "killed" ELSE @]
  <2>a. log[c].lines + log[c].held \in Nat
    OBVIOUS
  <2>b. l \in Asked
    BY <2>a
  <2>1. l \in Asked /\ d \in Compose
    BY <2>b
  <2>2. log[c].told \in {"nothing", "error"}
    BY <1>8 DEF Taken, Accounted
  <2>3. Accounted(l, d)
    BY <1>8, <2>2 DEF Taken, Accounted, Following
  <2>4. log' = [log EXCEPT ![c] = l] /\ docker' = [docker EXCEPT ![c] = d]
    BY <1>3, <1>8 DEF Taken, LogsInv
  <2> QED BY <2>1, <2>3, <2>4, <1>2
<1>9. CASE Stopped(c)
  <2> DEFINE l == [log[c] EXCEPT !.at = "last"]
  <2>1. l \in Asked /\ Accounted(l, docker[c])
    BY <1>9 DEF Stopped, Accounted, Following
  <2>2. log' = [log EXCEPT ![c] = l] /\ docker' = [docker EXCEPT ![c] = docker[c]]
    BY <1>3, <1>9 DEF Stopped, LogsInv
  <2> QED BY <2>1, <2>2, <1>2
<1>10. CASE EndTaken(c)
  <2> DEFINE l == [log[c] EXCEPT !.at = "finally",
                                 !.told = IF @ = "error" THEN "error" ELSE "end"]
  <2>1. l \in Asked /\ log[c].told \in {"nothing", "error"}
    BY <1>10 DEF EndTaken, Accounted
  <2>2. Accounted(l, docker[c])
    BY <1>10, <2>1 DEF EndTaken, Accounted, Following
  <2>3. log' = [log EXCEPT ![c] = l] /\ docker' = [docker EXCEPT ![c] = docker[c]]
    BY <1>3, <1>10 DEF EndTaken, LogsInv
  <2> QED BY <2>1, <2>2, <2>3, <1>2
<1>11. CASE Close(c)
  <2> DEFINE l == [log[c] EXCEPT !.at = "finally"]
             d == [docker[c] EXCEPT !.state = IF @ = "running" THEN "killed" ELSE @]
  <2>1. l \in Asked /\ d \in Compose /\ Accounted(l, d)
    BY <1>11 DEF Close, Accounted, Following
  <2>2. log' = [log EXCEPT ![c] = l] /\ docker' = [docker EXCEPT ![c] = d]
    BY <1>11 DEF Close, LogsInv
  <2> QED BY <2>1, <2>2, <1>2
<1>12. CASE Finally(c)
  <2> DEFINE l == [log[c] EXCEPT !.at = "none"]
  <2>1. l \in Asked /\ Accounted(l, docker[c])
    BY <1>12 DEF Finally, Accounted, Following
  <2>2. log' = [log EXCEPT ![c] = l] /\ docker' = [docker EXCEPT ![c] = docker[c]]
    BY <1>3, <1>12 DEF Finally, LogsInv
  <2> QED BY <2>1, <2>2, <1>2
<1> QED BY <1>4, <1>5, <1>6, <1>7, <1>8, <1>9, <1>10, <1>11, <1>12

\* A request begins, and logs are read whole.
LEMMA WholeStep ==
  ASSUME LogsInv, NEW c \in Clients,
         \/ \E follow \in BOOLEAN : AskLogs(c, follow)
         \/ Spawn(c) \/ SpawnFails(c) \/ Communicated(c) \/ CommunicateTimesOut(c)
  PROVE  LogsInv'
<1>1. log[c] \in Asked /\ docker[c] \in Compose /\ Accounted(log[c], docker[c])
  BY DEF LogsInv
<1>2. \A l \in Asked, d \in Compose :
        Accounted(l, d) /\ log' = [log EXCEPT ![c] = l] /\ docker' = [docker EXCEPT ![c] = d]
        => LogsInv'
  BY OneClient
<1> USE <1>1 DEF Asked, Compose, LogSteps, Alive, LogAt, LogTo, Stop
<1>3. docker = [docker EXCEPT ![c] = docker[c]]
  BY DEF LogsInv
<1>4. ASSUME NEW follow \in BOOLEAN, AskLogs(c, follow)
      PROVE  LogsInv'
  <2> DEFINE l == [NoRequest EXCEPT !.at = "spawn", !.follow = follow]
  <2>a. l \in Asked /\ l.at = "spawn" /\ l.told = "nothing" /\ l.lines = 0 /\ l.held = 0
    BY DEF NoRequest
  <2>1. l \in Asked /\ NoProcess \in Compose /\ Accounted(l, NoProcess)
    BY <2>a DEF NoProcess, Accounted, Following
  <2>2. log' = [log EXCEPT ![c] = l] /\ docker' = [docker EXCEPT ![c] = NoProcess]
    BY <1>4 DEF AskLogs
  <2> QED BY <2>1, <2>2, <1>2
<1>5. CASE Spawn(c)
  <2> DEFINE l == [log[c] EXCEPT !.at = IF log[c].follow THEN "read" ELSE "communicate"]
             d == [docker[c] EXCEPT !.state = "running"]
  <2>1. l \in Asked /\ d \in Compose /\ Accounted(l, d)
    BY <1>5 DEF Spawn, Accounted, Following
  <2>2. log' = [log EXCEPT ![c] = l] /\ docker' = [docker EXCEPT ![c] = d]
    BY <1>5 DEF Spawn, LogsInv
  <2> QED BY <2>1, <2>2, <1>2
<1>6. CASE SpawnFails(c)
  <2>1. NoRequest \in Asked /\ Accounted(NoRequest, docker[c])
    BY DEF NoRequest, Accounted, Following
  <2>2. log' = [log EXCEPT ![c] = NoRequest] /\ docker' = [docker EXCEPT ![c] = docker[c]]
    BY <1>3, <1>6 DEF SpawnFails
  <2> QED BY <2>1, <2>2, <1>2
<1>7. CASE Communicated(c)
  <2> DEFINE l == [log[c] EXCEPT !.at = "finally", !.lines = docker[c].unread, !.told = "all"]
             failed == [log[c] EXCEPT !.at = "finally", !.told = "error"]
             d == [docker[c] EXCEPT !.unread = 0]
  <2>a. /\ log[c].lines = 0 /\ log[c].held = 0 /\ log[c].told = "nothing"
        /\ docker[c].unread = docker[c].printed /\ docker[c].state = "ended"
    BY <1>7 DEF Communicated, Accounted, Following
  <2>b. l \in Asked /\ failed \in Asked /\ d \in Compose
    OBVIOUS
  <2>1. Accounted(l, d) /\ Accounted(failed, d)
    BY <2>a, <2>b DEF Accounted, Following
  <2>2. docker' = [docker EXCEPT ![c] = d]
        /\ (log' = [log EXCEPT ![c] = l] \/ log' = [log EXCEPT ![c] = failed])
    BY <1>7 DEF Communicated, LogsInv
  <2> HIDE DEF l, failed, d
  <2> QED BY <2>b, <2>1, <2>2, <1>2
<1>8. CASE CommunicateTimesOut(c)
  <2> DEFINE l == [log[c] EXCEPT !.at = "finally", !.told = "error"]
             d == [docker[c] EXCEPT !.state = IF @ = "running" THEN "killed" ELSE @]
  <2>1. l \in Asked /\ d \in Compose /\ Accounted(l, d)
    BY <1>8 DEF CommunicateTimesOut, Accounted, Following
  <2>2. log' = [log EXCEPT ![c] = l] /\ docker' = [docker EXCEPT ![c] = d]
    BY <1>8 DEF CommunicateTimesOut, LogsInv
  <2> QED BY <2>1, <2>2, <1>2
<1> QED BY <1>4, <1>5, <1>6, <1>7, <1>8

\* What Compose and its clients do, and a killed p4n4-api.
LEMMA OutsideStep ==
  ASSUME LogsInv,
         \/ \E c \in Clients : \/ Prints(c) \/ DockerEnds(c) \/ Dies(c) \/ OrphanDies(c)
                               \/ LeaveLogs(c)
         \/ Killed
  PROVE  LogsInv'
<1>1. ASSUME NEW c \in Clients, Prints(c) \/ DockerEnds(c) \/ Dies(c) \/ OrphanDies(c)
      PROVE  LogsInv'
  <2>1. log[c] \in Asked /\ docker[c] \in Compose /\ Accounted(log[c], docker[c])
    BY DEF LogsInv
  <2>2. CASE Prints(c)
    <3> DEFINE d == [docker[c] EXCEPT !.printed = @ + 1, !.unread = @ + 1]
    <3>1. docker' = [docker EXCEPT ![c] = d] /\ docker[c].state = "running"
      BY <2>2 DEF Prints, LogsInv
    <3>a. docker[c].printed + 1 \in Nat /\ docker[c].unread + 1 \in Nat
      BY <2>1 DEF Compose
    <3>2. d \in Compose
      BY <2>1, <3>a DEF Compose
    <3>3. Accounted(log[c], d)
      BY <2>1, <3>1 DEF Accounted, Compose, Asked, Following
    <3> QED BY <2>2, <3>1, <3>2, <3>3, <2>1 DEF Prints, LogsInv
  <2>3. CASE DockerEnds(c) \/ Dies(c) \/ OrphanDies(c)
    <3> DEFINE d == [docker[c] EXCEPT !.state = "ended"]
    <3>1. docker' = [docker EXCEPT ![c] = d] /\ docker[c].state # "none" /\ log' = log
      BY <2>3 DEF DockerEnds, Dies, OrphanDies, LogsInv
    <3>2. d \in Compose /\ Accounted(log[c], d)
      BY <2>1, <3>1 DEF Compose, Accounted
    <3> QED BY <3>1, <3>2, <2>1 DEF LogsInv
  <2> QED BY <1>1, <2>2, <2>3
<1>2. ASSUME NEW c \in Clients, LeaveLogs(c)
      PROVE  LogsInv'
  <2> DEFINE l == [log[c] EXCEPT !.gone = TRUE]
  <2>1. log[c] \in Asked /\ docker[c] \in Compose /\ Accounted(log[c], docker[c])
    BY DEF LogsInv
  <2>2. l \in Asked /\ Accounted(l, docker[c])
    BY <2>1 DEF Asked, Accounted
  <2>3. log' = [log EXCEPT ![c] = l] /\ docker' = [docker EXCEPT ![c] = docker[c]]
    BY <1>2 DEF LeaveLogs, LogsInv
  <2> QED BY <2>1, <2>2, <2>3, OneClient
<1>3. CASE Killed
  <2>1. \A c \in Clients : log'[c] = NoRequest /\ docker'[c] \in Compose
    BY <1>3 DEF Killed, LogsInv, Compose
  <2>2. log' \in [Clients -> Asked] /\ docker' \in [Clients -> Compose]
    BY <1>3, <2>1 DEF Killed, NoRequest, Asked, LogSteps
  <2>3. \A c \in Clients : Accounted(log'[c], docker'[c])
    BY <2>1 DEF NoRequest, Accounted, Following
  <2> QED BY <2>2, <2>3 DEF LogsInv
<1> QED BY <1>1, <1>2, <1>3

LEMMA LogsStep == ASSUME LogsInv, [LogsNext]_logsVars PROVE LogsInv'
<1>1. CASE LogsNext
  BY <1>1, FollowStep, WholeStep, OutsideStep DEF LogsNext, LogsWork
<1>2. CASE UNCHANGED logsVars
  BY <1>2 DEF logsVars, LogsInv
<1> QED BY <1>1, <1>2

\* routes/control.py: a client that is told the end, or given the logs whole, has every line
\* Compose printed, whatever was between them, and Compose has ended.
THEOREM EndCorrect == LogsSpec => []EndIsComplete
<1>1. LogsInit => LogsInv
  BY LogsStart
<1>2. LogsInv /\ [LogsNext]_logsVars => LogsInv'
  BY LogsStep
<1>3. LogsInv => EndIsComplete
  BY DEF LogsInv, Accounted, EndIsComplete
<1> QED BY <1>1, <1>2, <1>3, PTL DEF LogsSpec
=============================================================================
