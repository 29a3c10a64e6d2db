--------------------------- MODULE AssistantProofs ---------------------------
(***************************************************************************)
(* What a normie's chat is forwarded to and why it is refused, for any     *)
(* users, models, agents and number of chats: Assistant.tla proved.  And   *)
(* who is told to have chosen it, and the pages of the audit log, for any  *)
(* number of requests, settings, changes and any pages: Settings.tla       *)
(* proved.                                                                 *)
(***************************************************************************)
EXTENDS Assistant, Settings, SequenceTheorems, TLAPS

\* The name a row of the setting uses is a model, an agent or First.
LEMMA OutcomeType ==
  ASSUME NEW c \in Config
  PROVE  c[c.backend] \in Models \cup Agents \cup {First}
<1>1. CASE c.backend = "ollama"
  BY <1>1 DEF Config
<1>2. CASE c.backend = "letta"
  BY <1>2 DEF Config
<1> QED BY <1>1, <1>2 DEF Config, Backends

\* A row's entry has the type of `newest`.
LEMMA EntryType ==
  ASSUME NEW row \in [config: Config, by: Operators \cup {Nobody}]
  PROVE  Entry(row) \in [actor: Operators \cup {Nobody}, target: Backends,
                         outcome: Models \cup Agents \cup {First}]
<1>1. row.config \in Config /\ row.by \in Operators \cup {Nobody}
  OBVIOUS
<1>2. row.config.backend \in Backends
  BY <1>1 DEF Config
<1> QED BY <1>1, <1>2, OutcomeType DEF Entry

\* FactsOf gives facts.
LEMMA FactsType ==
  ASSUME NEW row, NEW lists, NEW b, NEW n
  PROVE  FactsOf(row, lists, b, n) \subseteq Facts
BY DEF FactsOf

\* What services list are sequences of their names.
LEMMA ListsType ==
  ASSUME NEW b \in Backends, NEW s \in Lists(b)
  PROVE  s \in Seq(Names(b))
<1>1. PICK n \in 0 .. MaxListed : s \in [1 .. n -> Names(b)]
  BY DEF Lists
<1>2. n \in Nat
  BY <1>1, BoundAssumption
<1> QED BY <1>1, <1>2

-----------------------------------------------------------------------------
(* Types *)

\* Seeing keeps the type of the history.
LEMMA SeeingType ==
  ASSUME TypeOK, Seeing
  PROVE  seen' \in [Requests -> SUBSET Facts]
<1> SUFFICES ASSUME NEW p \in Requests
             PROVE  (IF req[p].at \in Deciding
                     THEN seen[p] \cup FactsOf(setting', listed', req[p].backend, req[p].name)
                     ELSE seen[p]) \in SUBSET Facts
  BY DEF Seeing
<1> QED BY FactsType DEF TypeOK

\* Where a verdict leads.
LEMMA VerdictType ==
  ASSUME NEW r
  PROVE  Verdict(r) \in {"allowed", "refused", "listing"}
BY DEF Verdict

LEMMA TypeInit == ASSUME Init PROVE TypeOK
<1>1. Default \in Config
  BY DEF Default, Config, Backends
<1>2. setting \in [config: Config, by: Operators \cup {Nobody}]
  BY <1>1 DEF Init
<1>3. newest \in [actor: Operators \cup {Nobody}, target: Backends,
                  outcome: Models \cup Agents \cup {First}]
  BY <1>2, EntryType DEF Init
<1>4. choice \in [at: {"none", "put"}, config: Config, by: Operators \cup {Nobody}]
  BY <1>1 DEF Init, NoChoice
<1>5. \A b \in Backends : listed[b] \in Seq(Names(b))
  BY DEF Init
<1>6. 0 \in 0 .. MaxChunks
  BY BoundAssumption
<1> QED BY <1>2, <1>3, <1>4, <1>5, <1>6 DEF TypeOK, Init, NoChat, Backends

LEMMA TypeStep == ASSUME TypeOK, [Next]_vars PROVE TypeOK'
<1> USE DEF TypeOK
<1>1. ASSUME NEW u \in Operators, NEW c \in Config, Put(u, c) PROVE TypeOK'
  BY <1>1 DEF Put
<1>2. CASE Record
  <2>1. setting' \in [config: Config, by: Operators \cup {Nobody}]
    BY <1>2 DEF Record
  <2>2. newest' \in [actor: Operators \cup {Nobody}, target: Backends,
                     outcome: Models \cup Agents \cup {First}]
    BY <1>2, <2>1, EntryType DEF Record
  <2>3. NoChoice \in [at: {"none", "put"}, config: Config, by: Operators \cup {Nobody}]
    BY DEF NoChoice, Default, Config, Backends
  <2>4. seen' \in [Requests -> SUBSET Facts]
    BY <1>2, SeeingType DEF Record
  <2> QED BY <1>2, <2>1, <2>2, <2>3, <2>4 DEF Record
<1>3. CASE Rollback
  <2>1. NoChoice \in [at: {"none", "put"}, config: Config, by: Operators \cup {Nobody}]
    BY DEF NoChoice, Default, Config, Backends
  <2> QED BY <1>3, <2>1 DEF Rollback
<1>4. ASSUME NEW b \in Backends, ListChanges(b) PROVE TypeOK'
  <2>1. PICK s \in Lists(b) : listed' = [listed EXCEPT ![b] = s]
    BY <1>4 DEF ListChanges
  <2>2. \A d \in Backends : listed'[d] \in Seq(Names(d))
    BY <2>1, ListsType
  <2>3. seen' \in [Requests -> SUBSET Facts]
    BY <1>4, SeeingType DEF ListChanges
  <2> QED BY <1>4, <2>2, <2>3 DEF ListChanges
<1> DEFINE Chat ==
  [at: Deciding \cup Waiting \cup {"idle", "allowed", "refused"},
   user: Operators \cup Normies \cup {Nobody}, backend: Backends,
   name: Models \cup Agents \cup {First},
   options: BOOLEAN, gone: BOOLEAN, chunks: 0 .. MaxChunks, told: BOOLEAN]
<1>5. NoChat \in Chat
  BY BoundAssumption DEF NoChat, Backends
<1>6. ASSUME NEW p \in Requests, NEW u \in Operators \cup Normies, NEW b \in Backends,
             NEW options \in BOOLEAN, NEW n \in Names(b), Ask(p, u, b, n, options)
      PROVE  TypeOK'
  <2>1. [NoChat EXCEPT !.at = "asked", !.user = u, !.backend = b,
                       !.name = n, !.options = options] \in Chat
    BY <1>5 DEF Deciding, Names
  <2>2. FactsOf(setting, listed, b, n) \subseteq Facts
    BY FactsType
  <2> QED BY <1>6, <2>1, <2>2 DEF Ask, ChatStep
<1>7. ASSUME NEW p \in Requests, Over(p) PROVE TypeOK'
  BY <1>5, <1>7 DEF Over, ChatStep
<1>8. ASSUME NEW p \in Requests,
             NEW at \in Deciding \cup Waiting \cup {"idle", "allowed", "refused"},
             To(p, at), open' \subseteq Requests, seen' \in [Requests -> SUBSET Facts], ChatStep
      PROVE  TypeOK'
  <2> DEFINE r == req[p]
  <2>0. r \in Chat /\ at \in Deciding \cup Waiting \cup {"idle", "allowed", "refused"}
    OBVIOUS
  <2> HIDE DEF r
  <2>1. [r EXCEPT !.at = at] \in Chat
    BY <2>0
  <2>2. req' \in [Requests -> Chat]
    BY <1>8, <2>1 DEF To, r
  <2>3. UNCHANGED <<setting, newest, choice, listed>>
    BY <1>8 DEF ChatStep
  <2> QED BY <1>8, <2>2, <2>3
<1>9. ASSUME NEW p \in Requests, Works(p) PROVE TypeOK'
  <2>1. CASE Check(p)
    BY <2>1, <1>8, VerdictType DEF Check, Deciding
  <2>2. CASE Listed(p)
    <3>1. PICK at \in {"allowed", "refused"} : To(p, at)
      BY <2>2 DEF Listed
    <3> QED BY <2>2, <3>1, <1>8 DEF Listed
  <2>3. CASE Forward(p)
    BY <2>3, <1>8 DEF Forward, Waiting
  <2>4. CASE Opened(p)
    <3>1. PICK at \in {"reading", "streaming"} : To(p, at)
      BY <2>4 DEF Opened
    <3> QED BY <2>4, <3>1, <1>8 DEF Opened, Waiting
  <2>5. CASE Read(p) \/ Abandon(p) \/ BodyEnds(p)
    BY <2>5, <1>8 DEF Read, Abandon, BodyEnds, Waiting
  <2>6. CASE Broken(p)
    <3> DEFINE r == [req[p] EXCEPT !.at = "breaking", !.told = TRUE]
           old == req[p]
    <3>1. old \in Chat /\ "breaking" \in Waiting
      BY DEF Waiting
    <3>2. req' = [req EXCEPT ![p] = r] /\ UNCHANGED <<setting, newest, choice, listed, open, seen>>
      BY <2>6 DEF Broken, ChatStep
    <3> HIDE DEF old
    <3>3. [old EXCEPT !.at = "breaking", !.told = TRUE] \in Chat
      BY <3>1
    <3>4. r \in Chat
      BY <3>3 DEF old
    <3> HIDE DEF r
    <3> QED BY <3>2, <3>4
  <2>7. ASSUME NEW done \in BOOLEAN, Chunk(p, done) PROVE TypeOK'
    <3>1. req[p].chunks \in 0 .. MaxChunks /\ (done \/ req[p].chunks < MaxChunks)
      BY <2>7 DEF Chunk
    <3>2. (IF done THEN req[p].chunks ELSE req[p].chunks + 1) \in 0 .. MaxChunks
      BY <3>1, BoundAssumption
    <3> QED BY <2>7, <3>2 DEF Chunk, Waiting, ChatStep
  <2>8. CASE ListFails(p) \/ Refuse(p) \/ Answered(p) \/ Close(p)
    BY <2>8, <1>7 DEF ListFails, Refuse, Answered, Close
  <2> QED BY <1>9, <2>1, <2>2, <2>3, <2>4, <2>5, <2>6, <2>7, <2>8 DEF Works
<1>10. ASSUME NEW p \in Requests, Sent(p) PROVE TypeOK'
  <2>1. PICK at \in {"closing", "streaming"} : To(p, at)
    BY <1>10 DEF Sent
  <2>2. at \in Waiting
    BY <2>1 DEF Waiting
  <2>3. open' \subseteq Requests /\ seen' \in [Requests -> SUBSET Facts] /\ ChatStep
    BY <1>10 DEF Sent
  <2> QED BY ONLY <2>1, <2>2, <2>3, <1>8, p \in Requests
<1>11. ASSUME NEW p \in Requests, Leave(p) PROVE TypeOK'
  <2> DEFINE r == req[p]
  <2>1. r \in Chat
    OBVIOUS
  <2> HIDE DEF r
  <2>2. [r EXCEPT !.gone = TRUE] \in Chat
    BY <2>1
  <2>3. req' \in [Requests -> Chat]
    BY <1>11, <2>2 DEF Leave, r
  <2> QED BY <1>11, <2>3 DEF Leave, ChatStep
<1>12. CASE UNCHANGED vars
  BY <1>12 DEF vars
<1> QED BY <1>1, <1>2, <1>3, <1>4, <1>6, <1>9, <1>10, <1>11, <1>12 DEF Next

\* The setting, its audit entry, the lists and the requests keep their types.
THEOREM TypeCorrect == Spec => []TypeOK
BY TypeInit, TypeStep, PTL DEF Spec

-----------------------------------------------------------------------------
(* Decisions *)

\* While a chat is being decided everything that is true of the assistant is in `seen`, and a
\* chat that waits for the list is a normie's who found no name chosen.
Considered ==
  \A p \in Requests :
    /\ req[p].at \in Deciding =>
         FactsOf(setting, listed, req[p].backend, req[p].name) \subseteq seen[p]
    /\ At(p, "listing") => "default" \in seen[p] /\ ~req[p].options

DecisionInv == Considered /\ NormiesKeepToAssistant /\ RefusedForAReason

\* A verdict for a normie has its reason among the facts of the moment.
LEMMA VerdictFacts ==
  ASSUME NEW r, NEW v, v = Verdict(r), r.user \notin Operators
  PROVE  LET facts == FactsOf(setting, listed, r.backend, r.name) IN
         /\ v \in {"allowed", "listing"} => ~r.options
         /\ v = "allowed" => "named" \in facts
         /\ v = "listing" => "default" \in facts
         /\ v = "refused" /\ ~r.options => "other" \in facts
BY DEF Verdict, FactsOf, Facts

\* A chat that waits for a list belongs to somebody who is not an operator.
LEMMA ListingIsNotForOperators ==
  ASSUME NEW r, Verdict(r) # "allowed"
  PROVE  r.user \notin Operators
BY DEF Verdict

\* A step that changes the setting or a list, and is seen, keeps DecisionInv.
LEMMA SeeingKeeps ==
  ASSUME TypeOK, DecisionInv, Seeing, UNCHANGED req
  PROVE  DecisionInv'
<1>1. \A p \in Requests : seen[p] \subseteq seen'[p]
  BY DEF Seeing
<1>2. \A p \in Requests : req[p].at \in Deciding =>
        FactsOf(setting', listed', req[p].backend, req[p].name) \subseteq seen'[p]
  BY DEF Seeing
<1> QED BY <1>1, <1>2 DEF DecisionInv, Considered, NormiesKeepToAssistant,
                          RefusedForAReason, At

\* A step of one chat that leaves the others and the assistant alone keeps DecisionInv if it
\* keeps it for that chat.
LEMMA OthersKeep ==
  ASSUME DecisionInv, ChatStep, NEW p \in Requests,
         \A q \in Requests \ {p} : req'[q] = req[q] /\ seen'[q] = seen[q],
         req'[p].at \in Deciding =>
           FactsOf(setting, listed, req'[p].backend, req'[p].name) \subseteq seen'[p],
         req'[p].at = "listing" => "default" \in seen'[p] /\ ~req'[p].options,
         req'[p].at = "allowed" /\ req'[p].user \in Normies =>
           ~req'[p].options /\ ("named" \in seen'[p] \/ {"default", "heads"} \subseteq seen'[p]),
         req'[p].at = "refused" /\ ~req'[p].options =>
           "other" \in seen'[p] \/ {"default", "behind"} \subseteq seen'[p]
  PROVE  DecisionInv'
<1>1. UNCHANGED <<setting, listed>>
  BY DEF ChatStep
<1> SUFFICES ASSUME NEW q \in Requests
             PROVE  /\ req'[q].at \in Deciding =>
                         FactsOf(setting, listed, req'[q].backend, req'[q].name)
                           \subseteq seen'[q]
                    /\ req'[q].at = "listing" => "default" \in seen'[q] /\ ~req'[q].options
                    /\ req'[q].at = "allowed" /\ req'[q].user \in Normies =>
                         /\ ~req'[q].options
                         /\ "named" \in seen'[q] \/ {"default", "heads"} \subseteq seen'[q]
                    /\ req'[q].at = "refused" /\ ~req'[q].options =>
                         "other" \in seen'[q] \/ {"default", "behind"} \subseteq seen'[q]
  BY <1>1 DEF DecisionInv, Considered, NormiesKeepToAssistant, RefusedForAReason, At
<1>2. CASE q = p
  BY <1>2
<1>3. CASE q # p
  <2>1. req'[q] = req[q] /\ seen'[q] = seen[q]
    BY <1>3
  <2> QED BY <2>1 DEF DecisionInv, Considered, NormiesKeepToAssistant, RefusedForAReason, At
<1> QED BY <1>2, <1>3

LEMMA DecisionInit == ASSUME Init PROVE DecisionInv
BY DEF Init, DecisionInv, Considered, NormiesKeepToAssistant, RefusedForAReason, At, NoChat,
       Deciding

\* The step of a chat whose request record and history change at p only, to a place where
\* nothing is decided.
LEMMA ElsewhereKeeps ==
  ASSUME TypeOK, DecisionInv, ChatStep, NEW p \in Requests, NEW r, NEW f,
         req' = [req EXCEPT ![p] = r], seen' = [seen EXCEPT ![p] = f],
         r.at \notin Deciding \cup {"allowed", "refused"}
  PROVE  DecisionInv'
<1>1. req'[p] = r /\ \A q \in Requests \ {p} : req'[q] = req[q] /\ seen'[q] = seen[q]
  BY DEF TypeOK
<1>2. r.at \notin Deciding /\ r.at # "listing" /\ r.at # "allowed" /\ r.at # "refused"
  BY DEF Deciding
<1> QED BY <1>1, <1>2, OthersKeep

LEMMA DecisionStep == ASSUME TypeOK, DecisionInv, [Next]_vars PROVE DecisionInv'
<1>1. ASSUME NEW u \in Operators, NEW c \in Config, Put(u, c) PROVE DecisionInv'
  BY <1>1 DEF Put, DecisionInv, Considered, NormiesKeepToAssistant, RefusedForAReason, At
<1>2. CASE Record
  BY <1>2, SeeingKeeps DEF Record
<1>3. CASE Rollback
  BY <1>3 DEF Rollback, DecisionInv, Considered, NormiesKeepToAssistant, RefusedForAReason, At
<1>4. ASSUME NEW b \in Backends, ListChanges(b) PROVE DecisionInv'
  BY <1>4, SeeingKeeps DEF ListChanges
<1>5. ASSUME NEW p \in Requests, NEW u \in Operators \cup Normies, NEW b \in Backends,
             NEW options \in BOOLEAN, NEW n \in Names(b), Ask(p, u, b, n, options)
      PROVE  DecisionInv'
  <2> DEFINE r == [NoChat EXCEPT !.at = "asked", !.user = u, !.backend = b,
                                 !.name = n, !.options = options]
  <2>1. r.at = "asked" /\ r.backend = b /\ r.name = n
    BY DEF NoChat
  <2>2. /\ req'[p] = r /\ seen'[p] = FactsOf(setting, listed, b, n)
        /\ \A q \in Requests \ {p} : req'[q] = req[q] /\ seen'[q] = seen[q]
    BY <1>5 DEF Ask, TypeOK
  <2>3. ChatStep
    BY <1>5 DEF Ask
  <2> HIDE DEF r
  <2> QED BY <2>1, <2>2, <2>3, OthersKeep
<1>6. ASSUME NEW p \in Requests, Over(p) PROVE DecisionInv'
  <2>1. NoChat.at \notin Deciding \cup {"allowed", "refused"}
    BY DEF NoChat, Deciding
  <2> QED BY <1>6, <2>1, ElsewhereKeeps DEF Over
<1>7. ASSUME NEW p \in Requests, Check(p) PROVE DecisionInv'
  <2> DEFINE v == Verdict(req[p])
             facts == FactsOf(setting, listed, req[p].backend, req[p].name)
  <2>1. /\ req'[p] = [req[p] EXCEPT !.at = v]
        /\ \A q \in Requests \ {p} : req'[q] = req[q]
        /\ seen' = seen
        /\ ChatStep
    BY <1>7 DEF Check, To, TypeOK
  <2>2. /\ req'[p].at = v /\ req'[p].backend = req[p].backend /\ req'[p].name = req[p].name
        /\ req'[p].user = req[p].user /\ req'[p].options = req[p].options
    BY <2>1 DEF TypeOK
  <2>3. facts \subseteq seen[p]
    BY <1>7 DEF Check, At, Deciding, DecisionInv, Considered
  <2>4. v # "allowed" => req[p].user \notin Operators
    BY ListingIsNotForOperators
  <2>5. req[p].user \in Normies => req[p].user \notin Operators
    BY UsersAssumption
  <2>6. v \in {"allowed", "refused", "listing"}
    BY VerdictType
  <2>7. req[p].user \notin Operators =>
          /\ v \in {"allowed", "listing"} => ~req[p].options
          /\ v = "allowed" => "named" \in facts
          /\ v = "listing" => "default" \in facts
          /\ v = "refused" /\ ~req[p].options => "other" \in facts
    BY VerdictFacts
  <2> HIDE DEF v, facts
  <2>8. /\ v = "listing" => "default" \in seen[p] /\ ~req[p].options
        /\ v = "allowed" /\ req[p].user \in Normies => ~req[p].options /\ "named" \in seen[p]
        /\ v = "refused" /\ ~req[p].options => "other" \in seen[p]
    BY <2>3, <2>4, <2>5, <2>7
  <2>9. FactsOf(setting, listed, req'[p].backend, req'[p].name) \subseteq seen'[p]
    BY <2>1, <2>2, <2>3 DEF facts
  <2> QED BY <2>1, <2>2, <2>8, <2>9, OthersKeep
<1>8. ASSUME NEW p \in Requests, Listed(p) PROVE DecisionInv'
  <2> DEFINE heads == /\ listed[req[p].backend] # <<>>
                      /\ Head(listed[req[p].backend]) = req[p].name
             v == IF heads THEN "allowed" ELSE "refused"
             facts == FactsOf(setting, listed, req[p].backend, req[p].name)
  <2>1. /\ req'[p] = [req[p] EXCEPT !.at = v]
        /\ \A q \in Requests \ {p} : req'[q] = req[q]
        /\ seen' = seen
        /\ ChatStep
    BY <1>8 DEF Listed, To, TypeOK
  <2>2. req'[p].at = v /\ req'[p].options = req[p].options
    BY <2>1 DEF TypeOK
  <2>3. facts \subseteq seen[p] /\ "default" \in seen[p] /\ ~req[p].options
    BY <1>8 DEF Listed, At, Deciding, DecisionInv, Considered
  <2>4. IF heads THEN "heads" \in facts ELSE "behind" \in facts
    BY DEF FactsOf, Facts
  <2>5. v \notin Deciding /\ v # "listing"
    BY DEF Deciding
  <2>6. /\ v = "allowed" => "heads" \in seen[p]
        /\ v = "refused" => "behind" \in seen[p]
    BY <2>3, <2>4
  <2> HIDE DEF v, facts, heads
  <2> QED BY <2>1, <2>2, <2>3, <2>5, <2>6, OthersKeep
<1>9. ASSUME NEW p \in Requests, NEW r, NEW f,
             req' = [req EXCEPT ![p] = r], seen' = [seen EXCEPT ![p] = f],
             r.at \in Waiting, ChatStep
      PROVE  DecisionInv'
  <2>1. r.at \notin Deciding \cup {"allowed", "refused"}
    BY <1>9 DEF Waiting, Deciding
  <2> QED BY <1>9, <2>1, ElsewhereKeeps
<1>10. ASSUME NEW p \in Requests, NEW at \in Waiting, To(p, at), ChatStep,
              seen' = seen \/ seen' = [seen EXCEPT ![p] = {}]
       PROVE  DecisionInv'
  <2> DEFINE r == [req[p] EXCEPT !.at = at]
             f == seen'[p]
  <2>1. r.at = at
    BY DEF TypeOK
  <2>2. req' = [req EXCEPT ![p] = r] /\ seen' = [seen EXCEPT ![p] = f]
    BY <1>10 DEF To, TypeOK
  <2> HIDE DEF r, f
  <2> QED BY <1>9, <1>10, <2>1, <2>2
<1>11. ASSUME NEW p \in Requests, Works(p) \/ Sent(p) PROVE DecisionInv'
  <2>1. CASE Check(p) \/ Listed(p)
    BY <2>1, <1>7, <1>8
  <2>2. CASE ListFails(p) \/ Refuse(p) \/ Answered(p) \/ Close(p)
    BY <2>2, <1>6 DEF ListFails, Refuse, Answered, Close
  <2>3. CASE Forward(p)
    BY <2>3, <1>10 DEF Forward, Waiting
  <2>4. CASE Opened(p) \/ Read(p) \/ Abandon(p) \/ BodyEnds(p)
    <3>1. PICK at \in {"reading", "streaming", "closing"} : To(p, at)
      BY <2>4 DEF Opened, Read, Abandon, BodyEnds
    <3>2. at \in Waiting
      BY DEF Waiting
    <3>3. seen' = seen /\ ChatStep
      BY <2>4 DEF Opened, Read, Abandon, BodyEnds
    <3> QED BY <3>1, <3>2, <3>3, <1>10
  <2>5. CASE Sent(p)
    <3>1. PICK at \in {"streaming", "closing"} : To(p, at)
      BY <2>5 DEF Sent
    <3>2. at \in Waiting
      BY DEF Waiting
    <3>3. seen' = seen /\ ChatStep
      BY <2>5 DEF Sent
    <3> QED BY <3>1, <3>2, <3>3, <1>10
  <2>6. CASE Broken(p)
    <3> DEFINE r == [req[p] EXCEPT !.at = "breaking", !.told = TRUE]
    <3>1. r.at \in Waiting
      BY DEF TypeOK, Waiting
    <3>2. req' = [req EXCEPT ![p] = r] /\ seen' = [seen EXCEPT ![p] = seen[p]] /\ ChatStep
      BY <2>6 DEF Broken, TypeOK
    <3> HIDE DEF r
    <3> QED BY <3>1, <3>2, <1>9
  <2>7. ASSUME NEW done \in BOOLEAN, Chunk(p, done) PROVE DecisionInv'
    <3> DEFINE n == IF done THEN req[p].chunks ELSE req[p].chunks + 1
               r == [req[p] EXCEPT !.at = "yielded", !.told = done, !.chunks = n]
    <3>1. r.at \in Waiting
      BY DEF TypeOK, Waiting
    <3>2. req' = [req EXCEPT ![p] = r] /\ seen' = [seen EXCEPT ![p] = seen[p]] /\ ChatStep
      BY <2>7 DEF Chunk, TypeOK
    <3> HIDE DEF r
    <3> QED BY <3>1, <3>2, <1>9
  <2> QED BY <1>11, <2>1, <2>2, <2>3, <2>4, <2>5, <2>6, <2>7 DEF Works
<1>12. ASSUME NEW p \in Requests, Leave(p) PROVE DecisionInv'
  <2>1. /\ req'[p] = [req[p] EXCEPT !.gone = TRUE]
        /\ \A q \in Requests \ {p} : req'[q] = req[q]
        /\ seen' = seen
        /\ ChatStep
    BY <1>12 DEF Leave, TypeOK
  <2>2. /\ req'[p].at = req[p].at /\ req'[p].user = req[p].user
        /\ req'[p].backend = req[p].backend /\ req'[p].name = req[p].name
        /\ req'[p].options = req[p].options
    BY <2>1 DEF TypeOK
  <2>3. /\ req[p].at \in Deciding =>
             FactsOf(setting, listed, req[p].backend, req[p].name) \subseteq seen[p]
        /\ req[p].at = "listing" => "default" \in seen[p] /\ ~req[p].options
        /\ req[p].at = "allowed" /\ req[p].user \in Normies =>
             ~req[p].options /\ ("named" \in seen[p] \/ {"default", "heads"} \subseteq seen[p])
        /\ req[p].at = "refused" /\ ~req[p].options =>
             "other" \in seen[p] \/ {"default", "behind"} \subseteq seen[p]
    BY DEF DecisionInv, Considered, NormiesKeepToAssistant, RefusedForAReason, At
  <2> QED BY <2>1, <2>2, <2>3, OthersKeep
<1>13. CASE UNCHANGED vars
  BY <1>13 DEF vars, DecisionInv, Considered, NormiesKeepToAssistant, RefusedForAReason, At
<1> QED BY <1>1, <1>2, <1>3, <1>4, <1>5, <1>11, <1>12, <1>13 DEF Next

\* A normie's chat goes on only to what was the assistant while it was decided.
THEOREM NormiesCorrect == Spec => []NormiesKeepToAssistant
<1>1. Init => TypeOK /\ DecisionInv
  BY TypeInit, DecisionInit
<1>2. TypeOK /\ DecisionInv /\ [Next]_vars => (TypeOK /\ DecisionInv)'
  BY TypeStep, DecisionStep
<1>3. TypeOK /\ DecisionInv => NormiesKeepToAssistant
  BY DEF DecisionInv
<1> QED BY <1>1, <1>2, <1>3, PTL DEF Spec

\* A normie is refused only when something else was the assistant while it was decided.
THEOREM RefusalCorrect == Spec => []RefusedForAReason
<1>1. Init => TypeOK /\ DecisionInv
  BY TypeInit, DecisionInit
<1>2. TypeOK /\ DecisionInv /\ [Next]_vars => (TypeOK /\ DecisionInv)'
  BY TypeStep, DecisionStep
<1>3. TypeOK /\ DecisionInv => RefusedForAReason
  BY DEF DecisionInv
<1> QED BY <1>1, <1>2, <1>3, PTL DEF Spec

\* An error chunk that is being sent says done.
ErrorIsTold == \A p \in Requests : At(p, "breaking") => req[p].told

LEMMA ErrorStep == ASSUME TypeOK, ErrorIsTold, [Next]_vars PROVE ErrorIsTold'
<1> USE DEF TypeOK
<1> SUFFICES ASSUME NEW p \in Requests, req'[p].at = "breaking" PROVE req'[p].told
  BY DEF ErrorIsTold, At
<1>1. ASSUME req'[p] = req[p] PROVE req'[p].told
  BY <1>1 DEF ErrorIsTold, At
<1>2. ASSUME NEW q \in Requests, NEW step, To(q, step), step # "breaking"
      PROVE  req'[p].told
  <2>1. q # p
    BY <1>2 DEF To
  <2> QED BY <1>1, <1>2, <2>1 DEF To
<1>3. ASSUME NEW q \in Requests, Over(q) PROVE req'[p].told
  BY <1>1, <1>3 DEF Over, NoChat
<1>4. ASSUME NEW q \in Requests, Works(q) PROVE req'[p].told
  <2>1. CASE Check(q)
    <3>1. Verdict(req[q]) \in {"allowed", "refused", "listing"}
      BY DEF Verdict
    <3>2. To(q, Verdict(req[q]))
      BY <2>1 DEF Check
    <3> QED BY <3>1, <3>2, <1>2
  <2>2. CASE Listed(q)
    <3>1. PICK step \in {"allowed", "refused"} : To(q, step)
      BY <2>2 DEF Listed
    <3> QED BY <3>1, <1>2
  <2>3. CASE ListFails(q) \/ Refuse(q) \/ Answered(q) \/ Close(q)
    BY <2>3, <1>3 DEF ListFails, Refuse, Answered, Close
  <2>4. CASE Forward(q) \/ Opened(q) \/ Read(q) \/ Abandon(q) \/ BodyEnds(q)
    <3>1. PICK step \in {"sent", "reading", "streaming", "closing"} : To(q, step)
      BY <2>4 DEF Forward, Opened, Read, Abandon, BodyEnds
    <3> QED BY <3>1, <1>2
  <2>5. CASE Broken(q)
    BY <2>5, <1>1 DEF Broken
  <2>6. ASSUME NEW done \in BOOLEAN, Chunk(q, done) PROVE req'[p].told
    <3> DEFINE n == IF done THEN req[q].chunks ELSE req[q].chunks + 1
    <3>1. req' = [req EXCEPT ![q] = [req[q] EXCEPT !.at = "yielded", !.told = done, !.chunks = n]]
      BY <2>6, Zenon DEF Chunk
    <3> HIDE DEF n
    <3>2. q # p
      BY <3>1
    <3> QED BY <1>1, <3>1, <3>2
  <2> QED BY <1>4, <2>1, <2>2, <2>3, <2>4, <2>5, <2>6 DEF Works
<1>5. ASSUME NEW q \in Requests, Sent(q) PROVE req'[p].told
  <2>1. PICK step \in {"streaming", "closing"} : To(q, step)
    BY <1>5 DEF Sent
  <2> QED BY <2>1, <1>2
<1>6. ASSUME NEW q \in Requests, Leave(q) PROVE req'[p].told
  <2>1. req'[p].told = req[p].told /\ req'[p].at = req[p].at
    BY <1>6 DEF Leave
  <2> QED BY <2>1 DEF ErrorIsTold, At
<1>7. ASSUME NEW q \in Requests, NEW u, NEW b, NEW n, NEW options, Ask(q, u, b, n, options)
      PROVE  req'[p].told
  BY <1>1, <1>7 DEF Ask
<1>8. CASE UNCHANGED req
  BY <1>1, <1>8
<1> QED BY <1>4, <1>5, <1>6, <1>7, <1>8
        DEF Next, vars, Put, Record, Rollback, ListChanges

\* OllamaStream.lines(): no reply ends while its client is there, but with a chunk that says done.
THEOREM EndCorrect == Spec => EndIsTold
<1>1. ASSUME TypeOK, ErrorIsTold, Next, NEW p \in Requests, Streams(p), At(p, "closing")'
      PROVE  req[p].told \/ req[p].gone
  <2> USE <1>1 DEF TypeOK, At, Streams
  <2>1. ~(\E u \in Operators, c \in Config : Put(u, c)) /\ ~Record /\ ~Rollback
        /\ ~(\E b \in Backends : ListChanges(b))
    BY DEF Put, Record, Rollback, ListChanges
  <2>2. ASSUME NEW q \in Requests, Leave(q) PROVE FALSE
    <3>1. req' = [req EXCEPT ![q] = [req[q] EXCEPT !.gone = TRUE]]
      BY <2>2 DEF Leave
    <3>2. req'[p].at = req[p].at
      BY <3>1
    <3> QED BY <3>2
  <2>3. \A q \in Requests, u \in Operators \cup Normies, b \in Backends, options \in BOOLEAN :
          \A n \in Names(b) : ~Ask(q, u, b, n, options)
    <3> SUFFICES ASSUME NEW q \in Requests, NEW u, NEW b, NEW n, NEW options, Ask(q, u, b, n, options)
                 PROVE  FALSE
      OBVIOUS
    <3>1. q # p /\ req'[p] = req[p]
      BY DEF Ask
    <3> QED BY <3>1
  <2>4. ASSUME NEW q \in Requests, Sent(q) \/ BodyEnds(q) PROVE q = p /\ req[p].told
    BY <2>4 DEF Sent, BodyEnds, To, ErrorIsTold
  <2>5. ASSUME NEW q \in Requests, Abandon(q) PROVE req[p].gone
    BY <2>5 DEF Abandon, To
  <2>6. ASSUME NEW q \in Requests, Over(q) PROVE FALSE
    <3>1. req' = [req EXCEPT ![q] = NoChat] /\ NoChat.at = "idle"
      BY <2>6 DEF Over, NoChat
    <3>2. req'[p].at \in {req[p].at, "idle"}
      BY <3>1
    <3> QED BY <3>2
  <2>7. \A q \in Requests : ~Check(q) /\ ~Listed(q)
    BY DEF Check, Listed, Verdict, To
  <2>8. \A q \in Requests : ~Forward(q) /\ ~Opened(q) /\ ~Read(q)
    BY DEF Forward, Opened, Read, To
  <2>9. ASSUME NEW q \in Requests, Broken(q) \/ \E done \in BOOLEAN : Chunk(q, done)
        PROVE  FALSE
    <3>1. CASE Broken(q)
      <4>1. req'[p].at \in {req[p].at, "breaking"}
        BY <3>1 DEF Broken
      <4> QED BY <4>1
    <3>2. ASSUME NEW done \in BOOLEAN, Chunk(q, done) PROVE FALSE
      <4> DEFINE n == IF done THEN req[q].chunks ELSE req[q].chunks + 1
      <4>1. req' = [req EXCEPT ![q] = [req[q] EXCEPT !.at = "yielded", !.told = done, !.chunks = n]]
        BY <3>2, Zenon DEF Chunk
      <4> HIDE DEF n
      <4>2. req'[p].at \in {req[p].at, "yielded"}
        BY <4>1
      <4> QED BY <4>2
    <3> QED BY <2>9, <3>1, <3>2
  <2>10. PICK q \in Requests : Works(q) \/ Sent(q)
    BY <2>1, <2>2, <2>3 DEF Next
  <2>11. Works(q) => Abandon(q) \/ BodyEnds(q)
    BY <2>6, <2>7, <2>8, <2>9 DEF Works, ListFails, Refuse, Answered, Close
  <2>12. Abandon(q) => q = p
    BY <2>10 DEF Abandon, To
  <2> QED BY <2>4, <2>5, <2>10, <2>11, <2>12
<1>2. TypeOK /\ ErrorIsTold /\ [Next]_vars =>
        [\A p \in Requests : Streams(p) =>
           (At(p, "closing")' => req[p].told \/ req[p].gone)]_vars
  BY <1>1
<1>3. Init => ErrorIsTold
  BY DEF Init, ErrorIsTold, At, NoChat
<1>4. TypeOK /\ ErrorIsTold /\ [Next]_vars => ErrorIsTold'
  BY ErrorStep
<1> QED BY <1>2, <1>3, <1>4, TypeCorrect, PTL DEF Spec, EndIsTold

-----------------------------------------------------------------------------
(* The audit log as a sequence that only grows *)

Unique(list) ==
  \A i, j \in 1 .. Len(list) : list[i] # 0 /\ (list[i] = list[j] => i = j)
Told(list, n) == \E i \in 1 .. Len(list) : list[i] = n
Committed(list, n) == n = 0 \/ Told(list, n)
Stands(list, n) == IF n = 0 THEN 0 ELSE CHOOSE i \in DOMAIN list : list[i] = n

LEMMA StandsAt ==
  ASSUME NEW list \in Seq(Nat), Unique(list), NEW i \in 1 .. Len(list)
  PROVE  Stands(list, list[i]) = i
<1>1. \A j \in DOMAIN list : list[j] = list[i] <=> j = i
  BY DEF Unique
<1>2. i \in DOMAIN list /\ list[i] # 0
  BY DEF Unique
<1> QED BY <1>1, <1>2 DEF Stands

\* A list with one entry more: no other changes its place, and it stands after them all.
Grows(list, longer, n) ==
  /\ Len(longer) = Len(list) + 1 /\ Len(list) \in Nat
  /\ Unique(longer)
  /\ \A i \in 1 .. Len(list) : longer[i] = list[i]
  /\ \A m : Told(longer, m) <=> Told(list, m) \/ m = n
  /\ Stands(longer, n) = Len(list) + 1
  /\ \A m : Committed(list, m) => Stands(longer, m) = Stands(list, m)
  /\ \A m : Committed(list, m) => Stands(list, m) \in 0 .. Len(list)

LEMMA Grown ==
  ASSUME NEW list \in Seq(Nat), Unique(list), NEW n \in Nat, n # 0, ~Told(list, n),
         NEW longer \in Seq(Nat), longer = Append(list, n)
  PROVE  Grows(list, longer, n)
<1>1. /\ Len(list) \in Nat /\ longer \in Seq(Nat) /\ Len(longer) = Len(list) + 1
      /\ \A i \in 1 .. Len(list) : longer[i] = list[i]
      /\ longer[Len(list) + 1] = n
  BY AppendProperties
<1>2. \A i : i \in 1 .. Len(longer) <=> i \in 1 .. Len(list) \/ i = Len(list) + 1
  BY <1>1
<1>3. Unique(longer)
  BY <1>1, <1>2 DEF Unique, Told
<1>4. \A m : Told(longer, m) <=> Told(list, m) \/ m = n
  BY <1>1, <1>2 DEF Told
<1>5. Stands(longer, n) = Len(list) + 1
  BY <1>1, <1>2, <1>3, StandsAt
<1>6. ASSUME NEW m, Committed(list, m)
      PROVE  Stands(longer, m) = Stands(list, m) /\ Stands(list, m) \in 0 .. Len(list)
  <2>1. CASE m = 0
    BY <1>1, <2>1 DEF Stands
  <2>2. ASSUME NEW i \in 1 .. Len(list), list[i] = m
        PROVE  Stands(longer, m) = Stands(list, m) /\ Stands(list, m) \in 0 .. Len(list)
    <3>1. Stands(list, m) = i
      BY <2>2, StandsAt
    <3>2. Stands(longer, m) = i
      BY <1>1, <1>2, <1>3, <2>2, StandsAt
    <3> QED BY <1>1, <3>1, <3>2
  <2> QED BY <1>6, <2>1, <2>2 DEF Committed, Told
<1> QED BY <1>1, <1>3, <1>4, <1>5, <1>6 DEF Grows

\* The newest-first page of the log after an offset.
LEMMA PageIs ==
  ASSUME entries \in Seq(Nat), NEW limit \in Nat \ {0}, NEW offset \in 0 .. Len(entries),
         NEW top \in Nat, top = SmallerOf(offset + limit, Len(entries))
  PROVE  /\ Page(limit, offset) \in Seq(Nat) /\ Len(Page(limit, offset)) = top - offset
         /\ \A i \in Len(entries) - top + 1 .. Len(entries) - offset :
              entries[i] \in ToSet(Page(limit, offset))
         /\ ToSet(Page(limit, offset)) \subseteq Nat
<1> DEFINE n == Len(entries)
           back == Reverse(entries)
           page == Page(limit, offset)
<1>1. n \in Nat /\ back = [i \in 1 .. n |-> entries[(n - i) + 1]]
  BY DEF Reverse
<1>2. \A i \in 1 .. n : entries[(n - i) + 1] \in Nat
  BY <1>1
<1>3. \A i \in 1 .. n : back[i] \in Nat
  BY <1>1, <1>2
<1>4. offset <= top /\ top <= n
  BY <1>1 DEF SmallerOf
<1>5. page = SubSeq(back, offset + 1, top)
  BY DEF Page
<1>6. /\ page \in Seq(Nat) /\ Len(page) = top - offset
      /\ \A k \in 1 .. top - offset : page[k] = back[offset + k]
  <2>1. offset + 1 \in Int /\ top \in Int /\ \A i \in offset + 1 .. top : back[i] \in Nat
    <3> HIDE DEF back
    <3>1. \A i \in offset + 1 .. top : i \in 1 .. n
      BY <1>1, <1>4
    <3> QED BY <1>3, <3>1
  <2>2. /\ page \in Seq(Nat)
        /\ Len(page) = IF offset + 1 <= top THEN top - (offset + 1) + 1 ELSE 0
        /\ \A k \in 1 .. top - (offset + 1) + 1 : page[k] = back[offset + 1 + k - 1]
    <3> HIDE DEF page, back
    <3> QED BY <2>1, <1>5, SubSeqProperties
  <2> HIDE DEF page, back
  <2>3. Len(page) = top - offset
    BY <1>1, <1>4, <2>2
  <2>4. \A k \in 1 .. top - offset : page[k] = back[offset + k]
    <3>1. ASSUME NEW k \in 1 .. top - offset
          PROVE  page[k] = back[offset + k]
      <4>1. k \in 1 .. top - (offset + 1) + 1 /\ offset + 1 + k - 1 = offset + k
        BY <1>1, <1>4
      <4>2. page[k] = back[offset + 1 + k - 1]
        BY <2>2, <4>1
      <4> QED BY <4>1, <4>2
    <3> QED BY <3>1
  <2> QED BY <2>2, <2>3, <2>4
<1>7. ASSUME NEW i \in n - top + 1 .. n - offset
      PROVE  entries[i] \in ToSet(page)
  <2> DEFINE k == n - offset - i + 1
  <2>1. k \in 1 .. top - offset /\ offset + k \in 1 .. n /\ (n - (offset + k)) + 1 = i
    BY <1>1, <1>4
  <2>a. page[k] = back[offset + k]
    BY <1>6, <2>1
  <2>b. back[offset + k] = entries[(n - (offset + k)) + 1]
    BY <1>1, <2>1
  <2>2. page[k] = entries[i]
    BY <2>1, <2>a, <2>b
  <2>3. k \in DOMAIN page
    BY <1>6, <2>1
  <2> QED BY <2>2, <2>3 DEF ToSet
<1>8. ToSet(page) \subseteq Nat
  BY <1>6 DEF ToSet
<1> QED BY <1>6, <1>7, <1>8

-----------------------------------------------------------------------------
(* Settings: what is read outside a transaction comes in the order of the commits *)

CallSteps == {"free", "putting", "writing", "reading", "answered", "paging", "paged"}
CallState == [at: CallSteps, key: Keys, change: Nat, value: Nat, who: Nat, since: Nat,
              limit: Nat \ {0}, offset: Nat, seen: SUBSET Nat]
Changing == {"putting", "writing"}

SettingsTypeOK ==
  /\ now \in Nat /\ table \in [Keys -> Nat]
  /\ changes \in Seq([key: Keys, until: Nat]) /\ entries \in Seq(Nat)
  /\ calls \in [Calls -> CallState]

\* Each change is committed at most once, and one under way is not committed yet.
ChangesInv ==
  /\ Unique(entries)
  /\ \A i \in 1 .. Len(entries) : entries[i] \in 1 .. Len(changes)
  /\ Committed(entries, table[Assistant])
  /\ \A c \in Calls : calls[c].at \in Changing =>
       /\ calls[c].change \in 1 .. Len(changes) /\ ~Told(entries, calls[c].change)
       /\ calls[c].since = 0
       /\ \A d \in Calls : calls[d].at \in Changing /\ calls[d].change = calls[c].change => d = c

\* What a request read of the assistant so far, in order; what is chosen now is newer.
Credited(r, list, chosen) ==
  /\ r.at = "reading" =>
       /\ Committed(list, r.who) /\ r.since = r.who
       /\ Stands(list, r.who) <= Stands(list, chosen)
  /\ r.at = "answered" /\ r.key = Assistant =>
       /\ Committed(list, r.since) /\ Committed(list, r.who) /\ Committed(list, r.value)
       /\ Stands(list, r.since) <= Stands(list, r.who)
       /\ Stands(list, r.who) <= Stands(list, r.value)

\* A client that pages has every entry there was from where it stands in the log on, however
\* much the log has grown since.
Paged(r, list) ==
  /\ r.at = "paging" =>
       /\ r.since <= Len(list) /\ r.offset <= Len(list)
       /\ \A i \in 1 .. r.since : i > Len(list) - r.offset => list[i] \in r.seen
  /\ r.at = "paged" =>
       /\ r.since <= Len(list)
       /\ \A i \in 1 .. r.since : list[i] \in r.seen

CallsInv ==
  \A c \in Calls : Credited(calls[c], entries, table[Assistant]) /\ Paged(calls[c], entries)

SettingsInv == SettingsTypeOK /\ ChangesInv /\ CallsInv

LEMMA FreeType == Free \in CallState
BY KeysAssumption DEF Free, CallState, CallSteps

LEMMA SettingsStart == ASSUME SettingsInit PROVE SettingsInv
<1>1. SettingsTypeOK
  BY FreeType DEF SettingsInit, SettingsTypeOK
<1>2. ChangesInv
  BY KeysAssumption DEF SettingsInit, ChangesInv, Unique, Committed, Changing, Free
<1>3. CallsInv
  BY DEF SettingsInit, CallsInv, Credited, Paged, Free
<1> QED BY <1>1, <1>2, <1>3 DEF SettingsInv

\* A step of one request that leaves the settings and the log as they are.
LEMMA OneCall ==
  ASSUME SettingsInv, NEW c \in Calls, NEW r \in CallState,
         calls' = [calls EXCEPT ![c] = r], Reading,
         Credited(r, entries, table[Assistant]), Paged(r, entries),
         r.at \in Changing => /\ calls[c].at \in Changing /\ r.change = calls[c].change
                              /\ r.since = calls[c].since
  PROVE  SettingsInv'
<1>1. /\ SettingsTypeOK /\ ChangesInv /\ CallsInv /\ UNCHANGED <<now, table, changes, entries>>
  BY DEF SettingsInv, Reading
<1>2. calls'[c] = r /\ \A d \in Calls : d # c => calls'[d] = calls[d]
  BY <1>1 DEF SettingsTypeOK
<1>3. SettingsTypeOK'
  BY <1>1 DEF SettingsTypeOK
<1>4. ChangesInv'
  <2>1. \A d \in Calls : calls'[d].at \in Changing =>
          /\ calls[d].at \in Changing /\ calls'[d].change = calls[d].change
          /\ calls'[d].since = calls[d].since
    BY <1>2
  <2> QED BY <1>1, <2>1 DEF ChangesInv
<1>5. CallsInv'
  BY <1>1, <1>2 DEF CallsInv
<1> QED BY <1>3, <1>4, <1>5 DEF SettingsInv

\* PUT, until its transaction commits or fails.
LEMMA PutStep ==
  ASSUME SettingsInv, NEW c \in Calls,
         \/ \E k \in Keys, until \in 0 .. Never : PutSetting(c, k, until)
         \/ WriteSetting(c) \/ PutSettingFails(c)
  PROVE  SettingsInv'
<1>1. SettingsTypeOK /\ ChangesInv /\ CallsInv /\ calls[c] \in CallState
  BY DEF SettingsInv, SettingsTypeOK
<1>2. ASSUME NEW k \in Keys, NEW until \in 0 .. Never, PutSetting(c, k, until)
      PROVE  SettingsInv'
  <2> DEFINE n == Len(changes) + 1
             r == [Free EXCEPT !.at = "putting", !.key = k, !.change = n]
             change == [key |-> k, until |-> until]
  <2>1. /\ changes' = Append(changes, change) /\ calls' = [calls EXCEPT ![c] = r]
        /\ UNCHANGED <<now, table, entries>>
    BY <1>2 DEF PutSetting, Moves
  <2>2. change \in [key: Keys, until: Nat]
    BY DEF Never
  <2>3. /\ Len(changes) \in Nat /\ n \in Nat
        /\ changes' \in Seq([key: Keys, until: Nat]) /\ Len(changes') = n
    <3> HIDE DEF change
    <3> QED BY <1>1, <2>1, <2>2, AppendProperties DEF SettingsTypeOK
  <2> HIDE DEF n
  <2>4. r \in CallState /\ r.at = "putting" /\ r.change = n /\ r.since = 0
    BY <2>3, FreeType DEF CallState, CallSteps, Free
  <2> HIDE DEF r
  <2>5. calls'[c] = r /\ \A d \in Calls : d # c => calls'[d] = calls[d]
    BY <1>1, <2>1 DEF SettingsTypeOK
  <2>6. SettingsTypeOK'
    BY <1>1, <2>1, <2>3, <2>4 DEF SettingsTypeOK
  <2>7. \A m \in 1 .. Len(changes) : m \in 1 .. Len(changes') /\ m # n
    BY <2>3 DEF n
  <2>8. ~Told(entries, n) /\ n \in 1 .. Len(changes')
    BY <1>1, <2>3, <2>7 DEF ChangesInv, Told, n
  <2>9. ChangesInv'
    BY <1>1, <2>1, <2>4, <2>5, <2>7, <2>8 DEF ChangesInv
  <2>10. Credited(r, entries, table[Assistant]) /\ Paged(r, entries)
    BY <2>4 DEF Credited, Paged
  <2>11. CallsInv'
    BY <1>1, <2>1, <2>5, <2>10 DEF CallsInv
  <2> QED BY <2>6, <2>9, <2>11 DEF SettingsInv
<1>3. CASE WriteSetting(c)
  <2> DEFINE r == [calls[c] EXCEPT !.at = "writing"]
  <2>1. calls' = [calls EXCEPT ![c] = r] /\ Reading /\ calls[c].at = "putting"
    BY <1>3 DEF WriteSetting, Moves, Reading, CallAt
  <2>2. /\ r \in CallState /\ r.at = "writing" /\ r.change = calls[c].change
        /\ r.since = calls[c].since
    BY <1>1 DEF CallState, CallSteps
  <2> HIDE DEF r
  <2>3. Credited(r, entries, table[Assistant]) /\ Paged(r, entries)
    BY <2>2 DEF Credited, Paged
  <2> QED BY <2>1, <2>2, <2>3, OneCall DEF Changing
<1>4. CASE PutSettingFails(c)
  <2>1. calls' = [calls EXCEPT ![c] = Free] /\ Reading
    BY <1>4 DEF PutSettingFails, Moves, Reading
  <2>2. Free.at = "free"
    BY DEF Free
  <2>3. Credited(Free, entries, table[Assistant]) /\ Paged(Free, entries)
    BY <2>2 DEF Credited, Paged
  <2> QED BY <2>1, <2>2, <2>3, OneCall, FreeType DEF Changing
<1> QED BY <1>2, <1>3, <1>4

\* What was read stays in order when the log grows, whoever is chosen.
LEMMA ReadStays ==
  ASSUME NEW list, NEW longer, NEW n, Grows(list, longer, n), NEW r \in CallState,
         NEW chosen, Committed(list, chosen), NEW next \in {chosen, n},
         Credited(r, list, chosen), Paged(r, list)
  PROVE  Credited(r, longer, next) /\ Paged(r, longer)
<1>1. /\ Len(longer) = Len(list) + 1 /\ Len(list) \in Nat
      /\ \A i \in 1 .. Len(list) : longer[i] = list[i]
      /\ \A m : Told(list, m) => Told(longer, m)
      /\ Stands(longer, n) = Len(list) + 1
      /\ \A m : Committed(list, m) => Stands(longer, m) = Stands(list, m)
      /\ \A m : Committed(list, m) => Stands(list, m) \in 0 .. Len(list)
  BY DEF Grows
<1>2. Stands(list, chosen) <= Stands(longer, next)
  BY <1>1
<1>3. \A m : Committed(list, m) => Committed(longer, m)
  BY <1>1 DEF Committed
<1>4. CASE r.at = "reading"
  <2>1. /\ Committed(list, r.who) /\ r.since = r.who
        /\ Stands(list, r.who) <= Stands(list, chosen)
    BY <1>4 DEF Credited
  <2>2. Stands(longer, r.who) <= Stands(longer, next)
    BY <1>1, <1>2, <2>1
  <2> QED BY <1>3, <1>4, <2>1, <2>2 DEF Credited, Paged
<1>5. CASE r.at # "reading"
  <2>1. Credited(r, longer, next)
    BY <1>1, <1>3, <1>5 DEF Credited
  <2>2. r.since \in Nat /\ r.offset \in Nat
    BY DEF CallState
  <2>3. Paged(r, longer)
    BY <1>1, <2>2 DEF Paged
  <2> QED BY <2>1, <2>3
<1> QED BY <1>4, <1>5

\* The row and its entry are committed together.
LEMMA CommitStep == ASSUME SettingsInv, NEW c \in Calls, CommitSetting(c) PROVE SettingsInv'
<1> DEFINE n == calls[c].change
           r == [calls[c] EXCEPT !.at = "answered", !.value = n, !.who = n]
<1>1. SettingsTypeOK /\ ChangesInv /\ CallsInv /\ calls[c] \in CallState
  BY DEF SettingsInv, SettingsTypeOK
<1>2. /\ calls[c].at = "writing" /\ entries' = Append(entries, n)
      /\ table' = [table EXCEPT ![calls[c].key] = n]
      /\ calls' = [calls EXCEPT ![c] = r] /\ UNCHANGED <<now, changes>>
  BY DEF CommitSetting, Moves, CallAt
<1>3. /\ n \in 1 .. Len(changes) /\ n \in Nat /\ n # 0 /\ ~Told(entries, n) /\ calls[c].since = 0
      /\ \A d \in Calls : calls[d].at \in Changing /\ calls[d].change = n => d = c
  BY <1>1, <1>2 DEF ChangesInv, Changing, CallState, SettingsTypeOK
<1>4. /\ r \in CallState /\ r.at = "answered" /\ r.value = n /\ r.who = n /\ r.since = 0
  BY <1>1, <1>3 DEF CallState, CallSteps
<1> HIDE DEF n, r
<1>5. entries' \in Seq(Nat) /\ Grows(entries, entries', n)
  <2>1. entries \in Seq(Nat) /\ Unique(entries)
    BY <1>1 DEF SettingsTypeOK, ChangesInv
  <2>2. entries' \in Seq(Nat)
    BY <1>2, <1>3, <2>1, AppendProperties
  <2> QED BY <1>2, <1>3, <2>1, <2>2, Grown
<1>6. calls'[c] = r /\ \A d \in Calls : d # c => calls'[d] = calls[d]
  BY <1>1, <1>2 DEF SettingsTypeOK
<1>7. SettingsTypeOK'
  BY <1>1, <1>2, <1>3, <1>4, <1>5 DEF SettingsTypeOK
<1>8. table'[Assistant] \in {table[Assistant], n}
  BY <1>1, <1>2, KeysAssumption DEF SettingsTypeOK
<1>9. ChangesInv'
  <2>1. \A i \in 1 .. Len(entries') : entries'[i] \in 1 .. Len(changes')
    <3>1. \A i \in 1 .. Len(entries') : Told(entries', entries'[i])
      BY DEF Told
    <3>2. \A m : Told(entries, m) => m \in 1 .. Len(changes)
      BY <1>1 DEF ChangesInv, Told
    <3> QED BY <1>2, <1>3, <1>5, <3>1, <3>2 DEF Grows
  <2>2. Committed(entries', table'[Assistant])
    BY <1>1, <1>5, <1>8 DEF ChangesInv, Committed, Grows
  <2>3. \A d \in Calls : calls'[d].at \in Changing =>
          d # c /\ calls[d].at \in Changing /\ calls'[d] = calls[d] /\ calls[d].change # n
    BY <1>3, <1>4, <1>6 DEF Changing
  <2> QED BY <1>1, <1>2, <1>5, <2>1, <2>2, <2>3 DEF ChangesInv, Grows
<1>10. CallsInv'
  <2>1. Credited(r, entries', table'[Assistant]) /\ Paged(r, entries')
    BY <1>4, <1>5 DEF Credited, Paged, Committed, Stands, Grows
  <2>2. ASSUME NEW d \in Calls, d # c
        PROVE  Credited(calls'[d], entries', table'[Assistant]) /\ Paged(calls'[d], entries')
    <3>1. /\ calls[d] \in CallState /\ Committed(entries, table[Assistant])
          /\ Credited(calls[d], entries, table[Assistant]) /\ Paged(calls[d], entries)
      BY <1>1 DEF SettingsTypeOK, ChangesInv, CallsInv
    <3>2. calls'[d] = calls[d]
      BY <1>6, <2>2
    <3> QED BY <1>5, <1>8, <3>1, <3>2, ReadStays
  <2> QED BY <1>6, <2>1, <2>2 DEF CallsInv
<1> QED BY <1>7, <1>9, <1>10 DEF SettingsInv

LEMMA StandsIsNat ==
  ASSUME SettingsInv, NEW n, Committed(entries, n)
  PROVE  Stands(entries, n) \in Nat
<1>1. CASE n = 0
  BY <1>1 DEF Stands
<1>2. ASSUME NEW i \in 1 .. Len(entries), entries[i] = n
      PROVE  Stands(entries, n) \in Nat
  BY <1>2, StandsAt DEF SettingsInv, SettingsTypeOK, ChangesInv
<1> QED BY <1>1, <1>2 DEF Committed, Told

\* GET of a setting: one SELECT, or two for the assistant.
LEMMA GetStep ==
  ASSUME SettingsInv, NEW c \in Calls,
         (\E k \in Keys : GetSetting(c, k)) \/ GetState(c) \/ GetStateEnds(c) \/ Ends(c)
  PROVE  SettingsInv'
<1>1. /\ SettingsTypeOK /\ ChangesInv /\ CallsInv /\ calls[c] \in CallState
      /\ \A k \in Keys : table[k] \in Nat
      /\ Assistant \in Keys /\ Committed(entries, table[Assistant])
  BY KeysAssumption DEF SettingsInv, SettingsTypeOK, ChangesInv
<1>2. ASSUME NEW k \in Keys, GetSetting(c, k)
      PROVE  SettingsInv'
  <2> DEFINE n == ShownOf(k, table[k])
             r == [Free EXCEPT !.at = "answered", !.key = k, !.value = n, !.who = n,
                               !.since = table[k]]
  <2>1. calls' = [calls EXCEPT ![c] = r] /\ Reading /\ k # Assistant
    BY <1>2 DEF GetSetting, Moves
  <2>2. n \in Nat
    BY <1>1 DEF ShownOf
  <2> HIDE DEF n
  <2>3. r \in CallState /\ r.at = "answered" /\ r.key = k
    BY <1>1, <2>2, FreeType DEF CallState, CallSteps, Free
  <2> HIDE DEF r
  <2>4. Credited(r, entries, table[Assistant]) /\ Paged(r, entries)
    BY <2>1, <2>3 DEF Credited, Paged
  <2> QED BY <2>1, <2>3, <2>4, OneCall DEF Changing
<1>3. CASE GetState(c)
  <2> DEFINE n == table[Assistant]
             r == [Free EXCEPT !.at = "reading", !.who = n, !.since = n]
  <2>1. calls' = [calls EXCEPT ![c] = r] /\ Reading
    BY <1>3 DEF GetState, Moves, ReadFirst, Free
  <2>2. r \in CallState /\ r.at = "reading" /\ r.who = n /\ r.since = n
    BY <1>1, FreeType DEF CallState, CallSteps, Free
  <2> HIDE DEF r
  <2>3. Stands(entries, n) <= Stands(entries, n)
    BY <1>1, StandsIsNat
  <2>4. Credited(r, entries, table[Assistant]) /\ Paged(r, entries)
    BY <1>1, <2>2, <2>3 DEF Credited, Paged
  <2> QED BY <2>1, <2>2, <2>4, OneCall DEF Changing
<1>4. CASE GetStateEnds(c)
  <2> DEFINE n == table[Assistant]
             r == [calls[c] EXCEPT !.at = "answered", !.value = n]
  <2>1. (CHOOSE part \in {"who", "value"} : part # "who") = "value"
    OBVIOUS
  <2>2. calls' = [calls EXCEPT ![c] = r] /\ Reading /\ calls[c].at = "reading"
    BY <1>4, <2>1, <1>1 DEF GetStateEnds, Moves, ReadFirst, CallAt, CallState
  <2>3. /\ r \in CallState /\ r.at = "answered" /\ r.who = calls[c].who
        /\ r.since = calls[c].since /\ r.value = n
    BY <1>1 DEF CallState, CallSteps
  <2> HIDE DEF r
  <2>4. /\ Committed(entries, calls[c].who) /\ calls[c].since = calls[c].who
        /\ Stands(entries, calls[c].who) <= Stands(entries, n)
    BY <1>1, <2>2 DEF CallsInv, Credited
  <2>5. Stands(entries, r.since) <= Stands(entries, r.who)
    BY <1>1, <2>3, <2>4, StandsIsNat
  <2>6. Credited(r, entries, table[Assistant]) /\ Paged(r, entries)
    BY <1>1, <2>3, <2>4, <2>5 DEF Credited, Paged
  <2> QED BY <2>2, <2>3, <2>6, OneCall DEF Changing
<1>5. CASE Ends(c)
  <2>1. calls' = [calls EXCEPT ![c] = Free] /\ Reading
    BY <1>5 DEF Ends, Moves
  <2>2. Free.at = "free"
    BY DEF Free
  <2>3. Credited(Free, entries, table[Assistant]) /\ Paged(Free, entries)
    BY <2>2 DEF Credited, Paged
  <2> QED BY <2>1, <2>2, <2>3, OneCall, FreeType DEF Changing
<1> QED BY <1>2, <1>3, <1>4, <1>5

\* A page continues where the last one ended, or further back in the log.
LEMMA PageStep ==
  ASSUME SettingsInv, NEW c \in Calls,
         (\E limit \in 1 .. MaxPage : FirstPage(c, limit)) \/ NextPage(c)
  PROVE  SettingsInv'
<1>1. SettingsTypeOK /\ CallsInv /\ calls[c] \in CallState /\ entries \in Seq(Nat)
      /\ Len(entries) \in Nat
  BY DEF SettingsInv, SettingsTypeOK
<1>2. ASSUME NEW limit \in Nat \ {0}, NEW offset \in 0 .. Len(entries), NEW read \in SUBSET Nat,
             NEW since \in 0 .. Len(entries), ReadPage(c, limit, offset, read, since), Reading,
             \A i \in 1 .. since : i > Len(entries) - offset => entries[i] \in read
      PROVE  SettingsInv'
  <2> DEFINE n == Len(entries)
             page == Page(limit, offset)
             top == SmallerOf(offset + limit, n)
             full == read \cup ToSet(page)
             r == [Free EXCEPT !.at = IF Len(page) < limit THEN "paged" ELSE "paging",
                               !.limit = limit, !.offset = offset + Len(page),
                               !.seen = full, !.since = since]
  <2>1. calls' = [calls EXCEPT ![c] = r]
    BY <1>2 DEF ReadPage, Moves
  <2>2. top \in Nat /\ offset <= top /\ top <= n /\ (top = offset + limit \/ top = n)
    BY <1>1 DEF SmallerOf
  <2> HIDE DEF page, top
  <2>3. /\ Len(page) = top - offset /\ ToSet(page) \subseteq Nat
        /\ \A i \in n - top + 1 .. n - offset : entries[i] \in ToSet(page)
    BY <1>1, <2>2, PageIs DEF page, top
  <2>4. offset + Len(page) = top /\ Len(page) \in Nat /\ full \in SUBSET Nat
    <3>1. offset + Len(page) = top /\ Len(page) \in Nat
      BY <1>1, <2>2, <2>3
    <3>2. full \in SUBSET Nat
      BY <2>3
    <3> QED BY <3>1, <3>2
  <2>5. \A i \in 1 .. since : i > n - top => entries[i] \in full
    <3>1. ASSUME NEW i \in 1 .. since, i > n - top
          PROVE  entries[i] \in full
      <4>1. CASE i > n - offset
        BY <1>2, <4>1
      <4>2. CASE i <= n - offset
        <5>1. i \in n - top + 1 .. n - offset
          BY <1>1, <2>2, <3>1, <4>2
        <5> QED BY <2>3, <5>1
      <4> QED BY <1>1, <4>1, <4>2
    <3> QED BY <3>1
  <2> HIDE DEF full
  <2>6. /\ r \in CallState /\ r.at = IF Len(page) < limit THEN "paged" ELSE "paging"
        /\ r.since = since /\ r.seen = full /\ r.offset = top
    <3> DEFINE step == IF Len(page) < limit THEN "paged" ELSE "paging"
    <3>1. step \in CallSteps
      BY DEF CallSteps
    <3> HIDE DEF step
    <3>2. r = [Free EXCEPT !.at = step, !.limit = limit, !.offset = top, !.seen = full,
                           !.since = since]
      BY <2>4 DEF step
    <3> HIDE DEF r
    <3>3. since \in Nat
      BY <1>1
    <3>4. r \in CallState /\ r.at = step /\ r.since = since /\ r.seen = full /\ r.offset = top
      BY <2>2, <2>4, <3>1, <3>2, <3>3, FreeType DEF CallState, Free
    <3> QED BY <3>4 DEF step
  <2> HIDE DEF r
  <2>7. Len(page) < limit => top = n
    BY <1>1, <2>2, <2>3
  <2>8. Paged(r, entries)
    <3>1. CASE Len(page) < limit
      <4>1. \A i \in 1 .. since : entries[i] \in full
        BY <1>1, <2>5, <2>7, <3>1
      <4> QED BY <1>1, <2>6, <3>1, <4>1 DEF Paged
    <3>2. CASE ~(Len(page) < limit)
      BY <1>1, <2>2, <2>5, <2>6, <3>2 DEF Paged
    <3> QED BY <3>1, <3>2
  <2>9. Credited(r, entries, table[Assistant])
    BY <2>6 DEF Credited
  <2> QED BY <1>2, <2>1, <2>6, <2>8, <2>9, OneCall DEF Changing
<1>3. ASSUME NEW limit \in 1 .. MaxPage, FirstPage(c, limit)
      PROVE  SettingsInv'
  <2>1. limit \in Nat \ {0} /\ 0 \in 0 .. Len(entries) /\ Len(entries) \in 0 .. Len(entries)
        /\ \A i \in 1 .. Len(entries) : ~(i > Len(entries) - 0)
    BY <1>1, PageAssumption
  <2> QED BY <1>2, <1>3, <2>1 DEF FirstPage
<1>4. CASE NextPage(c)
  <2> DEFINE old == calls[c]
  <2>1. old.at = "paging" /\ ReadPage(c, old.limit, old.offset, old.seen, old.since) /\ Reading
    BY <1>4 DEF NextPage, CallAt
  <2>2. old.limit \in Nat \ {0} /\ old.offset \in Nat /\ old.since \in Nat /\ old.seen \in SUBSET Nat
    BY <1>1 DEF CallState
  <2>3. /\ old.since <= Len(entries) /\ old.offset <= Len(entries)
        /\ \A i \in 1 .. old.since : i > Len(entries) - old.offset => entries[i] \in old.seen
    BY <1>1, <2>1 DEF CallsInv, Paged
  <2> HIDE DEF old
  <2>4. old.offset \in 0 .. Len(entries) /\ old.since \in 0 .. Len(entries)
    BY <1>1, <2>2, <2>3
  <2> QED BY <1>2, <2>1, <2>2, <2>3, <2>4
<1> QED BY <1>3, <1>4

LEMMA SettingsStep == ASSUME SettingsInv, [SettingsNext]_settingsVars PROVE SettingsInv'
<1>1. CASE Passes
  <2>1. now' \in Nat /\ UNCHANGED <<table, changes, entries, calls>>
    BY <1>1 DEF Passes, SettingsInv, SettingsTypeOK
  <2> QED BY <2>1 DEF SettingsInv, SettingsTypeOK, ChangesInv, CallsInv
<1>2. CASE UNCHANGED settingsVars
  BY <1>2 DEF settingsVars, SettingsInv, SettingsTypeOK, ChangesInv, CallsInv
<1> QED BY <1>1, <1>2, PutStep, CommitStep, GetStep, PageStep DEF SettingsNext

LEMMA SettingsAlways == SettingsSpec => []SettingsInv
<1>1. SettingsInit => SettingsInv
  BY SettingsStart
<1>2. SettingsInv /\ [SettingsNext]_settingsVars => SettingsInv'
  BY SettingsStep
<1> QED BY <1>1, <1>2, PTL DEF SettingsSpec

\* routes/agents.py: GET /agents/config never answers a choice with who made a later one, nor
\* with one that was gone when the request began.
THEOREM CreditCorrect == SettingsSpec => []CreditIsNotAhead
<1>1. \A n : Place(n) = Stands(entries, n)
  BY DEF Place, Stands
<1>2. SettingsInv => CreditIsNotAhead
  BY <1>1 DEF SettingsInv, CallsInv, Credited, CreditIsNotAhead, CallAt
<1> QED BY <1>2, SettingsAlways, PTL

\* audit.py: a client that reads page after page misses no entry there was when it began.
THEOREM PagesCorrect == SettingsSpec => []PagesMissNothing
<1>1. ASSUME SettingsInv, NEW c \in Calls, CallAt(c, "paged")
      PROVE  ToSet(SubSeq(entries, 1, calls[c].since)) \subseteq calls[c].seen
  <2> DEFINE n == calls[c].since
             first == SubSeq(entries, 1, n)
  <2>1. /\ n \in Nat /\ n <= Len(entries) /\ entries \in Seq(Nat)
        /\ \A i \in 1 .. n : entries[i] \in calls[c].seen
    BY <1>1 DEF SettingsInv, SettingsTypeOK, CallsInv, Paged, CallAt, CallState
  <2> HIDE DEF n
  <2>2. first \in Seq(calls[c].seen)
    <3>1. 1 \in Int /\ n \in Int /\ \A i \in 1 .. n : entries[i] \in calls[c].seen
      BY <2>1
    <3> QED BY <3>1, SubSeqProperties
  <2> HIDE DEF first
  <2>3. \A i \in DOMAIN first : first[i] \in calls[c].seen
    BY <2>2
  <2> QED BY <2>3 DEF ToSet, first, n
<1>2. SettingsInv => PagesMissNothing
  BY <1>1 DEF PagesMissNothing
<1> QED BY <1>2, SettingsAlways, PTL
=============================================================================
