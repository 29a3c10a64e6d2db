----------------------------- MODULE SerialJobs -----------------------------
(***************************************************************************)
(* What the job queue promises for each job: it waits, it runs while no    *)
(* other one runs, it ends once, with an outcome that stays.  Jobs that    *)
(* have not ended when the process does are lost.                          *)
(***************************************************************************)
CONSTANT Ids

VARIABLE state   \* of each job

Ends == {"succeeded", "failed"}

Queue(i) ==
  /\ state[i] = "none"
  /\ state' = [state EXCEPT ![i] = "queued"]

Run(i) ==
  /\ state[i] = "queued"
  /\ \A j \in Ids : state[j] # "running"
  /\ state' = [state EXCEPT ![i] = "running"]

Finish(i, outcome) ==
  /\ state[i] = "running"
  /\ state' = [state EXCEPT ![i] = outcome]

\* The process ends: its jobs are forgotten, also the outcomes.
Restart ==
  state' = [i \in Ids |-> IF state[i] = "none" THEN "none" ELSE "forgotten"]

Init == state = [i \in Ids |-> "none"]

Next ==
  \/ \E i \in Ids : Queue(i) \/ Run(i) \/ \E outcome \in Ends : Finish(i, outcome)
  \/ Restart

Spec == Init /\ [][Next]_state
=============================================================================
