------------------------------ MODULE Assistant ------------------------------
(***************************************************************************)
(* The assistant everyone chats with: operators choose it (the setting     *)
(* "assistant" of store.py, PUT /agents/config), normies may only chat     *)
(* with what is chosen (routes/agents.py), and a request that is allowed   *)
(* goes on to Ollama or Letta (ai.py), whose answer is passed on.          *)
(*                                                                         *)
(* Chats run in the event loop, a step being what happens between two      *)
(* awaits; choosing runs in a thread and a transaction.  Ollama, Letta,    *)
(* what they list and the clients are external.  Who is an operator does   *)
(* not change here: roles are in Sessions.                                 *)
(***************************************************************************)
EXTENDS Naturals, Sequences, Functions

CONSTANTS
  Operators, Normies,   \* users
  Models, Agents,       \* what Ollama and Letta may list
  First, Nobody,        \* null: the first one listed; nobody has chosen
  Requests,             \* chats in progress at the same time
  MaxChunks, MaxListed  \* bounds: chunks of a streamed reply, names a service lists

ASSUME UsersAssumption == Operators \cap Normies = {} /\ Nobody \notin Operators
ASSUME NamesAssumption == First \notin Models \cup Agents
ASSUME BoundAssumption == MaxChunks \in Nat /\ MaxListed \in Nat

VARIABLES
  setting,   \* the committed row of the setting: Config, and updated_by
  newest,    \* the newest assistant.update entry of the audit log
  choice,    \* the PUT /agents/config whose transaction holds SQLite's write lock
  listed,    \* what each service lists
  req,       \* where each chat is, and for whom
  open,      \* chats with an open connection to Ollama or Letta
  seen       \* history: what was true of the assistant while a chat was being decided

vars == <<setting, newest, choice, listed, req, open, seen>>

Backends == {"ollama", "letta"}
Names(b) == IF b = "ollama" THEN Models ELSE Agents
Config == [backend: Backends, ollama: Models \cup {First}, letta: Agents \cup {First}]
Default == [backend |-> "ollama", ollama |-> First, letta |-> First]
Entry(row) == [actor |-> row.by, target |-> row.config.backend,
               outcome |-> row.config[row.config.backend]]
NoChoice == [at |-> "none", config |-> Default, by |-> Nobody]
NoChat == [at |-> "idle", user |-> Nobody, backend |-> "ollama", name |-> First,
           options |-> FALSE, gone |-> FALSE, chunks |-> 0, told |-> FALSE]

Facts == {"named", "default", "other", "heads", "behind"}
Deciding == {"asked", "listing"}
Waiting == {"sent", "reading", "streaming", "yielded", "breaking", "closing"}

\* The values of the setting, its audit entry, the lists and the requests.
TypeOK ==
  /\ setting \in [config: Config, by: Operators \cup {Nobody}]
  /\ newest \in [actor: Operators \cup {Nobody}, target: Backends,
                 outcome: Models \cup Agents \cup {First}]
  /\ choice \in [at: {"none", "put"}, config: Config, by: Operators \cup {Nobody}]
  /\ \A b \in Backends : listed[b] \in Seq(Names(b))
  /\ req \in [Requests ->
       [at: Deciding \cup Waiting \cup {"idle", "allowed", "refused"},
        user: Operators \cup Normies \cup {Nobody}, backend: Backends,
        name: Models \cup Agents \cup {First},
        options: BOOLEAN, gone: BOOLEAN, chunks: 0 .. MaxChunks, told: BOOLEAN]]
  /\ open \subseteq Requests
  /\ seen \in [Requests -> SUBSET Facts]

\* Nobody has chosen yet: load() gives the defaults.
Init ==
  /\ setting = [config |-> Default, by |-> Nobody]
  /\ newest = Entry(setting)
  /\ choice = NoChoice
  /\ listed = [b \in Backends |-> <<>>]
  /\ req = [p \in Requests |-> NoChat]
  /\ open = {} /\ seen = [p \in Requests |-> {}]

\* What is true of a backend's name under a row of the setting and the services' lists.
FactsOf(row, lists, b, n) ==
  LET chosen == row.config[b]
      used == row.config.backend = b
  IN {f \in Facts :
        \/ f = "named" /\ used /\ chosen = n
        \/ f = "default" /\ used /\ chosen = First
        \/ f = "other" /\ ~(used /\ chosen \in {n, First})
        \/ f = "heads" /\ lists[b] # <<>> /\ Head(lists[b]) = n
        \/ f = "behind" /\ ~(lists[b] # <<>> /\ Head(lists[b]) = n)}

\* Every change while a chat is being decided is seen.
Seeing ==
  seen' = [p \in Requests |->
             IF req[p].at \in Deciding
             THEN seen[p] \cup FactsOf(setting', listed', req[p].backend, req[p].name)
             ELSE seen[p]]

-----------------------------------------------------------------------------
(* Choosing: set_config(), store.put() and audit.record() in one transaction *)

\* The first write takes SQLite's lock; any number of other PUTs may wait for it.
Put(u, c) ==
  /\ choice = NoChoice
  /\ choice' = [at |-> "put", config |-> c, by |-> u]
  /\ UNCHANGED <<setting, newest, listed, req, open, seen>>

Record ==
  /\ choice.at = "put"
  /\ setting' = [config |-> choice.config, by |-> choice.by]
  /\ newest' = Entry(setting')
  /\ choice' = NoChoice
  /\ UNCHANGED <<listed, req, open>>
  /\ Seeing

\* The disk is full, or the process is killed.
Rollback ==
  /\ choice.at = "put"
  /\ choice' = NoChoice
  /\ UNCHANGED <<setting, newest, listed, req, open, seen>>

-----------------------------------------------------------------------------
(* Deciding: _check_model() and _check_agent() *)

At(p, step) == req[p].at = step
To(p, step) == req' = [req EXCEPT ![p].at = step]
ChatStep == UNCHANGED <<setting, newest, choice, listed>>

\* A user asks for a model, perhaps with options, or for an agent; POST /generate is for
\* operators, who are not checked any further.
Ask(p, u, b, n, options) ==
  /\ At(p, "idle")
  /\ options => b = "ollama"
  /\ req' = [req EXCEPT ![p] = [NoChat EXCEPT !.at = "asked", !.user = u, !.backend = b,
                                              !.name = n, !.options = options]]
  /\ seen' = [seen EXCEPT ![p] = FactsOf(setting, listed, b, n)]
  /\ UNCHANGED open
  /\ ChatStep

\* Where the check goes on with the setting as it is now.  A defect to test the properties
\* with: the names are compared whatever backend is chosen.
VerdictOnName(r) ==
  LET chosen == setting.config[r.backend] IN
  IF r.user \in Operators THEN "allowed"
  ELSE IF r.options THEN "refused"
  ELSE IF chosen = First THEN "listing"
  ELSE IF chosen = r.name THEN "allowed" ELSE "refused"

\* Another: without a chosen name nothing is allowed.
VerdictWithoutDefault(r) ==
  IF r.user \in Operators THEN "allowed"
  ELSE IF r.options \/ setting.config.backend # r.backend THEN "refused"
  ELSE IF setting.config[r.backend] = r.name THEN "allowed" ELSE "refused"

Verdict(r) ==
  LET chosen == setting.config[r.backend] IN
  IF r.user \in Operators THEN "allowed"
  ELSE IF r.options \/ setting.config.backend # r.backend THEN "refused"
  ELSE IF chosen = First THEN "listing"
  ELSE IF chosen = r.name THEN "allowed" ELSE "refused"

Check(p) ==
  /\ At(p, "asked")
  /\ To(p, Verdict(req[p]))
  /\ UNCHANGED <<open, seen>>
  /\ ChatStep

\* The service answers with its list: the first one is the assistant.
Listed(p) ==
  /\ At(p, "listing")
  /\ LET list == listed[req[p].backend] IN
     To(p, IF list # <<>> /\ Head(list) = req[p].name THEN "allowed" ELSE "refused")
  /\ UNCHANGED <<open, seen>>
  /\ ChatStep

\* An error is answered, and the request is over.
Over(p) ==
  /\ req' = [req EXCEPT ![p] = NoChat]
  /\ open' = open \ {p}
  /\ seen' = [seen EXCEPT ![p] = {}]
  /\ ChatStep

ListFails(p) == At(p, "listing") /\ Over(p)
Refuse(p) == At(p, "refused") /\ Over(p)

-----------------------------------------------------------------------------
(* Forwarding: ollama_open(), OllamaStream and letta_message() *)

\* After system_status(), when it is asked for: it takes its time too.
Forward(p) ==
  /\ At(p, "allowed")
  /\ To(p, "sent")
  /\ open' = open \cup {p}
  /\ seen' = [seen EXCEPT ![p] = {}]
  /\ ChatStep

\* Unreachable, timed out, or an answer that is an error: the connection is closed first.
\* Letta's answer comes whole, and closes it too.
Answered(p) == At(p, "sent") /\ Over(p)

Opened(p) ==
  /\ At(p, "sent") /\ req[p].backend = "ollama"
  /\ To(p, "reading") \/ To(p, "streaming")
  /\ UNCHANGED <<open, seen>>
  /\ ChatStep

\* body(): read or broken, close() comes after it.
Read(p) ==
  /\ At(p, "reading")
  /\ To(p, "closing")
  /\ UNCHANGED <<open, seen>>
  /\ ChatStep

\* lines(): a chunk of Ollama's is yielded.  Ollama says nothing after one that says done.
Chunk(p, done) ==
  /\ At(p, "streaming") /\ ~req[p].told
  /\ done \/ req[p].chunks < MaxChunks
  /\ req' = [req EXCEPT ![p].at = "yielded", ![p].told = done,
                        ![p].chunks = IF done THEN @ ELSE @ + 1]
  /\ UNCHANGED <<open, seen>>
  /\ ChatStep

\* The connection breaks: an error chunk that says done, after which lines() ends.  A defect to
\* test the properties with: the reply just ends.
BrokenQuietly(p) ==
  /\ At(p, "streaming")
  /\ To(p, "closing")
  /\ UNCHANGED <<open, seen>>
  /\ ChatStep

Broken(p) ==
  /\ At(p, "streaming")
  /\ req' = [req EXCEPT ![p].at = "breaking", ![p].told = TRUE]
  /\ UNCHANGED <<open, seen>>
  /\ ChatStep

\* The body ends, and lines() with it, which does not look at what was said: that a body ends
\* only after a chunk that says done is assumed of Ollama.
BodyEnds(p) ==
  /\ At(p, "streaming") /\ req[p].told
  /\ To(p, "closing")
  /\ UNCHANGED <<open, seen>>
  /\ ChatStep

\* The client has read the chunk, and lines() goes on.
Sent(p) ==
  /\ \/ At(p, "yielded") /\ To(p, "streaming")
     \/ At(p, "breaking") /\ To(p, "closing")
  /\ UNCHANGED <<open, seen>>
  /\ ChatStep

Streams(p) == req[p].at \in {"streaming", "yielded", "breaking"}

\* The response stops iterating lines() when the client has gone.  A defect to test the
\* properties with: without the `finally` nothing closes the connection.
AbandonOpen(p) ==
  /\ At(p, "streaming") /\ req[p].gone
  /\ req' = [req EXCEPT ![p] = NoChat]
  /\ seen' = [seen EXCEPT ![p] = {}]
  /\ UNCHANGED open
  /\ ChatStep

Abandon(p) ==
  /\ Streams(p) /\ req[p].gone
  /\ To(p, "closing")
  /\ UNCHANGED <<open, seen>>
  /\ ChatStep

Close(p) == At(p, "closing") /\ Over(p)

-----------------------------------------------------------------------------
(* Clients and services *)

\* Only a response that streams notices; the steps before it go on.
Leave(p) ==
  /\ ~At(p, "idle") /\ ~req[p].gone
  /\ req' = [req EXCEPT ![p].gone = TRUE]
  /\ UNCHANGED <<open, seen>>
  /\ ChatStep

Lists(b) == {s \in UNION {[1 .. n -> Names(b)] : n \in 0 .. MaxListed} : IsInjective(s)}

\* Models are pulled and removed, agents made and deleted, from outside.
ListChanges(b) ==
  /\ \E s \in Lists(b) \ {listed[b]} : listed' = [listed EXCEPT ![b] = s]
  /\ UNCHANGED <<setting, newest, choice, req, open>>
  /\ Seeing

-----------------------------------------------------------------------------
Works(p) ==
  \/ Check(p) \/ Listed(p) \/ ListFails(p) \/ Refuse(p) \/ Forward(p)
  \/ Answered(p) \/ Opened(p) \/ Read(p) \/ Abandon(p) \/ Close(p)
  \/ BodyEnds(p) \/ Broken(p) \/ \E done \in BOOLEAN : Chunk(p, done)

Next ==
  \/ \E u \in Operators, c \in Config : Put(u, c)
  \/ Record \/ Rollback
  \/ \E p \in Requests :
       \/ \E u \in Operators \cup Normies, b \in Backends, options \in BOOLEAN :
            \E n \in Names(b) : Ask(p, u, b, n, options)
       \/ Works(p) \/ Sent(p) \/ Leave(p)
  \/ \E b \in Backends : ListChanges(b)

\* The event loop goes on, and every call to Ollama and Letta has a timeout.  Nothing is
\* assumed of clients: one that stays may never read what it is sent.
Fairness == \A p \in Requests : WF_vars(Works(p))
Spec == Init /\ [][Next]_vars
FairSpec == Spec /\ Fairness

-----------------------------------------------------------------------------
(* Properties *)

\* _check_model, _check_agent: "Normies chat with the chosen model only".  What a normie's
\* chat may be forwarded to was chosen by name at some moment while it was decided, or the
\* first one listed at some moment, with no name chosen at some (perhaps another) moment.
NormiesKeepToAssistant ==
  \A p \in Requests :
    At(p, "allowed") /\ req[p].user \in Normies =>
      /\ ~req[p].options
      /\ "named" \in seen[p] \/ {"default", "heads"} \subseteq seen[p]

\* Conversely a normie who changes no options is refused only if something else was chosen at
\* some moment, or something else was listed first and no name chosen.
RefusedForAReason ==
  \A p \in Requests :
    At(p, "refused") /\ ~req[p].options =>
      "other" \in seen[p] \/ {"default", "behind"} \subseteq seen[p]

\* OllamaStream.lines: a reply that ends while its client is there ends with a chunk that
\* says done, Ollama's or an error's.
EndIsTold ==
  [][\A p \in Requests : Streams(p) =>
       (At(p, "closing")' => req[p].told \/ req[p].gone)]_vars

\* OllamaStream: "it closes the connection when done or abandoned" - also when the client is
\* stuck or left long before the answer came.
NothingOpenForNobody == \A p \in Requests : p \in open /\ req[p].gone ~> p \notin open
=============================================================================
