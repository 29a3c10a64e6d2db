------------------------------- MODULE MCJobs -------------------------------
(* Jobs and Logs on small instances.  The two share no state, so that no interleaving of them is
   worth a state: in each behaviour one of them moves. *)
EXTENDS Jobs, Logs

VARIABLE part

EitherInit == part \in {"jobs", "logs"} /\ Init /\ LogsInit

EitherNext ==
  /\ \/ part = "jobs" /\ Next /\ UNCHANGED logsVars
     \/ part = "logs" /\ LogsNext /\ UNCHANGED vars
  /\ UNCHANGED part

Either ==
  /\ EitherInit /\ [][EitherNext]_<<vars, logsVars, part>>
  /\ part = "jobs" => Fairness
  /\ part = "logs" => LogsFairness
=============================================================================
