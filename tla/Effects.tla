------------------------------- MODULE Effects -------------------------------
(***************************************************************************)
(* What users do through the API to services behind it: publish an MQTT    *)
(* message (routes/mqtt.py, Bridge.send), act on an item of the feed       *)
(* (routes/feed.py), make a code that links a chat and unlink a chat       *)
(* (routes/chats.py).  Each is a call that may get lost or be late, on the *)
(* way or on the way back, and then an audit entry on a connection of its  *)
(* own (audit.record without `conn`).                                      *)
(*                                                                         *)
(* The broker, the feed and the chats service are external; the chats that *)
(* are linked are the one thing of theirs that matters here.               *)
(***************************************************************************)
EXTENDS Topics

CONSTANTS
  Users, Requests,   \* Requests: in progress at the same time
  Chats, Items,
  Settings,          \* the filters P4N4_API_MQTT_PUBLISH_ALLOW and _DENY may be
  MaxLevels,         \* bound: levels of a topic
  MaxCalls           \* bound: calls made

Topic == {t \in UNION {[1 .. n -> Levels] : n \in 1 .. MaxLevels} : IsTopic(t)}

ASSUME SettingsAssumption ==
  \A s \in Settings : \A f \in s.allow \cup s.deny : IsFilter(f)
ASSUME BoundAssumption == MaxLevels \in Nat /\ MaxCalls \in Nat

VARIABLES
  settings,  \* the filters there are
  made,      \* how many calls there were
  req,       \* where each request is, and its call
  net,       \* calls on their way to a service
  replies,   \* replies on their way back
  linked,    \* the chats that are linked
  done,      \* history: the calls a service has carried out
  log,       \* the audit entries
  told       \* history: the calls answered with success

vars == <<settings, made, req, net, replies, linked, done, log, told>>

\* What a call acts on, by its action; a code has no target.
Target(action) ==
  CASE action = "mqtt.publish" -> Topic
    [] action = "feed.action" -> Items
    [] action = "chats.code" -> {"none"}
    [] action = "chats.unlink" -> Chats

Actions == {"mqtt.publish", "feed.action", "chats.code", "chats.unlink"}
Calls == UNION {[n: 1 .. MaxCalls, user: Users, action: {a}, target: Target(a), qos: {0, 1}] :
                  a \in Actions}
NoCall == [n |-> 0]
Idle == [at |-> "idle", call |-> NoCall]
Numbers(calls) == {c.n : c \in calls}

\* The values of the requests, the network, the services and the log.
TypeOK ==
  /\ settings \in Settings
  /\ made \in 0 .. MaxCalls
  /\ \A p \in Requests : \/ req[p] = Idle
                         \/ req[p].at \in {"sent", "record"} /\ req[p].call \in Calls
  /\ net \subseteq Calls
  /\ replies \subseteq [n: 1 .. made, reply: {"ok", "no JSON", "refused", "not found"}]
  /\ linked \subseteq Chats
  /\ done \subseteq Calls /\ log \subseteq Calls
  /\ told \subseteq 1 .. made
  /\ \A c, d \in net \cup done \cup log : c.n = d.n => c = d

Init ==
  /\ settings \in Settings
  /\ made = 0
  /\ req = [p \in Requests |-> Idle]
  /\ net = {} /\ replies = {} /\ linked = Chats
  /\ done = {} /\ log = {} /\ told = {}

-----------------------------------------------------------------------------
(* The handlers: publish(), act(), new_code(), unlink() *)

At(p, step) == req[p].at = step

\* _allowed(): "Denied wins".  A defect to test the properties with: allowing wins.
AllowedFirst(t) ==
  \/ \E f \in settings.allow : Matches(f, t)
  \/ ~\E f \in settings.deny : Matches(f, t)
Allowed(t) ==
  /\ ~\E f \in settings.deny : Matches(f, t)
  /\ \E f \in settings.allow : Matches(f, t)

NewCall(u, action, target, qos) ==
  [n |-> made + 1, user |-> u, action |-> action, target |-> target, qos |-> qos]

\* The call is made; a request that is refused before changes nothing.
Call(p, u, action, target, qos) ==
  LET call == NewCall(u, action, target, qos) IN
  /\ At(p, "idle") /\ made < MaxCalls
  /\ made' = made + 1
  /\ req' = [req EXCEPT ![p] = [at |-> "sent", call |-> call]]
  /\ net' = net \cup {call}
  /\ UNCHANGED <<settings, replies, linked, done, log, told>>

Publish(p, u, t, qos) == Allowed(t) /\ Call(p, u, "mqtt.publish", t, qos)
Act(p, u, i) == Call(p, u, "feed.action", i, 1)
MakeCode(p, u) == Call(p, u, "chats.code", "none", 1)
Unlink(p, u, c) == Call(p, u, "chats.unlink", c, 1)

Progress == UNCHANGED <<settings, made, linked, done>>

\* The request is over.  Nobody waits for its reply any more.
Over(p) ==
  /\ req' = [req EXCEPT ![p] = Idle]
  /\ replies' = {r \in replies : r.n # req[p].call.n}

\* _call(): the statuses that are no success, and bodies that are not what was asked for.
\* A defect to test the properties with: a chat that is not there is as good as unlinked.
FailuresNotFoundIsFine == {"no JSON", "refused"}
Failures == {"no JSON", "refused", "not found"}

Succeeded(p) ==
  /\ At(p, "sent")
  /\ \E r \in replies : r.n = req[p].call.n /\ r.reply \notin Failures
  /\ req' = [req EXCEPT ![p].at = "record"]
  /\ replies' = {r \in replies : r.n # req[p].call.n}
  /\ UNCHANGED <<net, log, told>>
  /\ Progress

Failed(p) ==
  /\ At(p, "sent")
  /\ \E r \in replies : r.n = req[p].call.n /\ r.reply \in Failures
  /\ Over(p)
  /\ UNCHANGED <<net, log, told>>
  /\ Progress

\* With QoS 0 nobody acknowledges: it is written to the connection, no more.
Written(p) ==
  /\ At(p, "sent") /\ req[p].call.qos = 0
  /\ req' = [req EXCEPT ![p].at = "record"]
  /\ UNCHANGED <<net, replies, log, told>>
  /\ Progress

\* Unreachable, disconnected, or TIMEOUT_S: an error, whatever became of the call.
TimesOut(p) ==
  /\ At(p, "sent")
  /\ Over(p)
  /\ UNCHANGED <<net, log, told>>
  /\ Progress

Record(p) ==
  /\ At(p, "record")
  /\ log' = log \cup {req[p].call}
  /\ told' = told \cup {req[p].call.n}
  /\ Over(p)
  /\ UNCHANGED net
  /\ Progress

\* The database is locked: 500.  A defect to test the properties with: the error is dropped.
RecordFailsQuietly(p) ==
  /\ At(p, "record")
  /\ told' = told \cup {req[p].call.n}
  /\ Over(p)
  /\ UNCHANGED <<net, log>>
  /\ Progress

RecordFails(p) ==
  /\ At(p, "record")
  /\ Over(p)
  /\ UNCHANGED <<net, log, told>>
  /\ Progress

-----------------------------------------------------------------------------
(* The network, the services and the process *)

\* A service that carries the call out may still answer with something that is not JSON.
Answers(call) ==
  IF call.action = "chats.unlink" /\ call.target \notin linked THEN {"not found"}
  ELSE IF call.action = "mqtt.publish" THEN {"ok"}
  ELSE {"ok", "no JSON", "refused"} \cup
       (IF call.action = "feed.action" THEN {"not found"} ELSE {})

Handle(call) ==
  /\ net' = net \ {call}
  /\ \E a \in Answers(call) :
       LET carried == a \in {"ok", "no JSON"} IN
       /\ replies' = IF call.qos = 1 /\ \E p \in Requests : At(p, "sent") /\ req[p].call = call
                     THEN replies \cup {[n |-> call.n, reply |-> a]} ELSE replies
       /\ done' = IF carried THEN done \cup {call} ELSE done
       /\ linked' = IF carried /\ call.action = "chats.unlink"
                    THEN linked \ {call.target} ELSE linked
  /\ UNCHANGED <<settings, made, req, log, told>>

Lose(call) ==
  /\ net' = net \ {call}
  /\ UNCHANGED <<settings, made, req, replies, linked, done, log, told>>

\* Somebody sends the bot a code.
Link(c) ==
  /\ c \notin linked
  /\ linked' = linked \cup {c}
  /\ UNCHANGED <<settings, made, req, net, replies, done, log, told>>

\* The process is killed, and starts again, perhaps with other filters.
Restart ==
  /\ settings' \in Settings
  /\ req' = [p \in Requests |-> Idle]
  /\ replies' = {}
  /\ UNCHANGED <<made, net, linked, done, log, told>>

Next ==
  \/ \E p \in Requests :
       \/ \E u \in Users :
            \/ \E t \in Topic, qos \in {0, 1} : Publish(p, u, t, qos)
            \/ \E i \in Items : Act(p, u, i)
            \/ MakeCode(p, u)
            \/ \E c \in Chats : Unlink(p, u, c)
       \/ Succeeded(p) \/ Failed(p) \/ Written(p) \/ TimesOut(p)
       \/ Record(p) \/ RecordFails(p)
  \/ \E call \in net : Handle(call) \/ Lose(call)
  \/ \E c \in Chats : Link(c)
  \/ Restart

Spec == Init /\ [][Next]_vars

-----------------------------------------------------------------------------
(* Properties *)

\* The audit log tells what users did: however calls are lost, late or repeated, and two
\* users do the same, each entry is of a call that was carried out (of QoS 0 nobody knows),
\* and each call answered with success has its entry.
LogTellsWhatHappened ==
  /\ \A e \in log : e.qos = 0 \/ e \in done
  /\ told \subseteq Numbers(log)

\* P4N4_API_MQTT_PUBLISH_ALLOW / _DENY, "Denied wins": no message goes to the broker under a
\* topic that one of the deny filters stands for, or none of the allow filters does.
DeniedIsNotSent ==
  [][\A call \in net' \ net : call.action = "mqtt.publish" =>
       /\ \A f \in settings.deny : call.target \notin Covered(f, MaxLevels)
       /\ \E f \in settings.allow : call.target \in Covered(f, MaxLevels)]_vars
=============================================================================
