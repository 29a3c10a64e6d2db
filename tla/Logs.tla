-------------------------------- MODULE Logs ---------------------------------
(***************************************************************************)
(* Container logs (routes/control.py: stack_logs, follow_events, _spawn,   *)
(* _stop): a `docker compose logs` process for each client, read whole or  *)
(* streamed until the client leaves or Compose ends.                       *)
(*                                                                         *)
(* All of it runs in one event loop: a step is what happens between two    *)
(* awaits.  Compose, its output and the clients are external.  What a line *)
(* says does not matter here, only how many there are; the names do not    *)
(* clash with those of other modules.                                      *)
(***************************************************************************)
EXTENDS Naturals

CONSTANTS
  Clients,   \* requests for logs in progress at the same time
  MaxLines   \* bound: lines Compose prints

ASSUME LinesAssumption == MaxLines \in Nat

VARIABLES
  log,     \* where each request is, and what its client was sent
  docker   \* the Compose process of each client, and its output

logsVars == <<log, docker>>

\* follow_events: spawn, read, yield, stop, end; `finally` is the one of either form.  A line is
\* held while the client takes it.
NoRequest == [at |-> "none", follow |-> FALSE, gone |-> FALSE, held |-> 0, lines |-> 0,
              told |-> "nothing"]
NoProcess == [state |-> "none", printed |-> 0, unread |-> 0]

LogSteps == {"none", "spawn", "read", "yield", "stop", "last", "finally", "communicate"}
Alive == {"running", "killed"}

\* The values of the requests and the processes.
LogsTypeOK ==
  /\ log \in [Clients -> [at: LogSteps, follow: BOOLEAN, gone: BOOLEAN, held: {0, 1},
                          lines: 0 .. MaxLines, told: {"nothing", "error", "end", "all"}]]
  /\ docker \in [Clients -> [state: {"none", "orphan", "ended"} \cup Alive,
                             printed: 0 .. MaxLines, unread: 0 .. MaxLines]]

LogsInit ==
  /\ log = [c \in Clients |-> NoRequest]
  /\ docker = [c \in Clients |-> NoProcess]

LogAt(c, step) == log[c].at = step
LogTo(c, step) == log' = [log EXCEPT ![c].at = step]
Left(c) == log[c].gone

-----------------------------------------------------------------------------
(* The handler: stack_logs() and _spawn() *)

\* After the role, the stack and the service are checked.  A client whose orphaned process has
\* not ended yet is another one.
AskLogs(c, follow) ==
  /\ LogAt(c, "none") /\ docker[c].state # "orphan"
  /\ log' = [log EXCEPT ![c] = [NoRequest EXCEPT !.at = "spawn", !.follow = follow]]
  /\ docker' = [docker EXCEPT ![c] = NoProcess]

Spawn(c) ==
  /\ LogAt(c, "spawn")
  /\ docker' = [docker EXCEPT ![c].state = "running"]
  /\ LogTo(c, IF log[c].follow THEN "read" ELSE "communicate")

\* Compose is missing: an error, or a response without body.
SpawnFails(c) ==
  /\ LogAt(c, "spawn")
  /\ log' = [log EXCEPT ![c] = NoRequest]
  /\ UNCHANGED docker

\* The request is over, or its generator closed; what was sent stays.
LogsOver(c) == LogTo(c, "none")

\* A part of _stop(): it kills Compose at once, and then waits for it.
\* A defect to test the properties with: it only waits.
StopWaits(c) == docker' = docker
Stop(c) == docker' = [docker EXCEPT ![c].state = IF @ = "running" THEN "killed" ELSE @]

Waited(c) == docker[c].state = "ended"

-----------------------------------------------------------------------------
(* follow=true: follow_events() *)

Line(c) ==
  /\ LogAt(c, "read") /\ docker[c].unread > 0
  /\ docker' = [docker EXCEPT ![c].unread = @ - 1]
  /\ log' = [log EXCEPT ![c].at = "yield", ![c].held = 1]

\* readline() timed out: what had arrived of a line stays in the reader.
\* A defect to test the properties with: what was read is lost.
HeartbeatLosesLine(c) ==
  /\ LogAt(c, "read")
  /\ docker' = [docker EXCEPT ![c].unread = IF @ > 0 THEN @ - 1 ELSE 0]
  /\ LogTo(c, "yield")

Heartbeat(c) ==
  /\ LogAt(c, "read")
  /\ LogTo(c, "yield")
  /\ UNCHANGED docker

\* A line longer than the read limit: the client is told, and no more is read.
TooLong(c) ==
  /\ LogAt(c, "read") /\ docker[c].unread > 0
  /\ log' = [log EXCEPT ![c].at = "yield", ![c].told = "error"]
  /\ UNCHANGED docker

\* The end of the output: Compose has ended, or is about to.
EndOfOutput(c) ==
  /\ LogAt(c, "read") /\ docker[c].unread = 0 /\ docker[c].state = "ended"
  /\ Stop(c)
  /\ LogTo(c, "stop")

\* The client has taken what was yielded.
Taken(c) ==
  /\ LogAt(c, "yield") /\ ~Left(c)
  /\ log' = [log EXCEPT ![c].at = IF log[c].told = "error" THEN "stop" ELSE "read",
                        ![c].lines = @ + log[c].held, ![c].held = 0]
  /\ IF log[c].told = "error" THEN Stop(c) ELSE UNCHANGED docker

\* The `end` event with the exit code, as the event loop knows it: see README.
Stopped(c) ==
  /\ LogAt(c, "stop") /\ Waited(c)
  /\ LogTo(c, "last")
  /\ UNCHANGED docker

EndTaken(c) ==
  /\ LogAt(c, "last") /\ ~Left(c)
  /\ log' = [log EXCEPT ![c].at = "finally",
                        ![c].told = IF @ = "error" THEN "error" ELSE "end"]
  /\ UNCHANGED docker

Following == {"read", "yield", "stop", "last"}

\* The client has left, and the response stops iterating: `finally`, at whatever await it was.
Close(c) ==
  /\ log[c].at \in Following /\ Left(c)
  /\ Stop(c)
  /\ LogTo(c, "finally")

\* A cancelled response does not wait, a complete one does.
Finally(c) ==
  /\ LogAt(c, "finally")
  /\ Waited(c) \/ Left(c)
  /\ LogsOver(c)
  /\ UNCHANGED docker

-----------------------------------------------------------------------------
(* follow=false: communicate(), which nothing but its timeout interrupts *)

\* With the exit code 0 the lines are the answer, with any other a 502 quotes the last one.
Communicated(c) ==
  /\ LogAt(c, "communicate") /\ docker[c].state = "ended"
  /\ \/ log' = [log EXCEPT ![c].at = "finally", ![c].lines = docker[c].unread,
                           ![c].told = "all"]
     \/ log' = [log EXCEPT ![c].at = "finally", ![c].told = "error"]
  /\ docker' = [docker EXCEPT ![c].unread = 0]

CommunicateTimesOut(c) ==
  /\ LogAt(c, "communicate")
  /\ Stop(c)
  /\ log' = [log EXCEPT ![c].at = "finally", ![c].told = "error"]

-----------------------------------------------------------------------------
(* Compose, clients and the process *)

Prints(c) ==
  /\ docker[c].state = "running" /\ docker[c].printed < MaxLines
  /\ docker' = [docker EXCEPT ![c].printed = @ + 1, ![c].unread = @ + 1]
  /\ UNCHANGED log

\* By itself, when the containers have stopped.
DockerEnds(c) ==
  /\ docker[c].state = "running"
  /\ docker' = [docker EXCEPT ![c].state = "ended"]
  /\ UNCHANGED log

Dies(c) ==
  /\ docker[c].state = "killed"
  /\ docker' = [docker EXCEPT ![c].state = "ended"]
  /\ UNCHANGED log

\* A process without a reader ends with the next line it prints.
OrphanDies(c) ==
  /\ docker[c].state = "orphan"
  /\ docker' = [docker EXCEPT ![c].state = "ended"]
  /\ UNCHANGED log

LeaveLogs(c) ==
  /\ ~LogAt(c, "none") /\ ~Left(c)
  /\ log' = [log EXCEPT ![c].gone = TRUE]
  /\ UNCHANGED docker

\* p4n4-api is killed, and starts again.
Killed ==
  /\ \E c \in Clients : ~LogAt(c, "none")
  /\ log' = [c \in Clients |-> NoRequest]
  /\ docker' = [c \in Clients |-> [docker[c] EXCEPT !.state =
                                     IF @ \in Alive THEN "orphan" ELSE @]]

\* What the event loop and killed processes do.  A client that has left is noticed while something
\* is sent to it, at the latest.
LogsWork(c) ==
  \/ Spawn(c) \/ SpawnFails(c)
  \/ Line(c) \/ Heartbeat(c) \/ TooLong(c) \/ EndOfOutput(c) \/ Taken(c)
  \/ Stopped(c) \/ EndTaken(c) \/ Finally(c)
  \/ LogAt(c, "yield") /\ Close(c)
  \/ Communicated(c) \/ CommunicateTimesOut(c)

LogsNext ==
  \/ \E c \in Clients :
       \/ \E follow \in BOOLEAN : AskLogs(c, follow)
       \/ LogsWork(c) \/ Close(c)
       \/ Prints(c) \/ DockerEnds(c) \/ Dies(c) \/ OrphanDies(c) \/ LeaveLogs(c)
  \/ Killed

LogsFairness == \A c \in Clients : WF_logsVars(LogsWork(c)) /\ WF_logsVars(Dies(c))
LogsSpec == LogsInit /\ [][LogsNext]_logsVars /\ LogsFairness

-----------------------------------------------------------------------------
(* Properties *)

\* "One `data:` per log line" and "an `end` event": a client that is told the end, or given the
\* logs whole, has every line Compose printed, however many heartbeats were between them, and
\* Compose has ended.
EndIsComplete ==
  \A c \in Clients :
    log[c].told \in {"end", "all"} =>
      log[c].lines = docker[c].printed /\ docker[c].state = "ended"

\* "Nothing keeps following logs for nobody": when its client has left, or the request is over,
\* Compose ends, however silent it is - unless p4n4-api was killed.
NobodyIsFollowed ==
  \A c \in Clients :
    docker[c].state \in Alive /\ (Left(c) \/ LogAt(c, "none")) ~> docker[c].state \notin Alive
=============================================================================
