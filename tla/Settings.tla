------------------------------- MODULE Settings -------------------------------
(***************************************************************************)
(* The settings that admins and operators change through the API, and the  *)
(* audit log that tells them (store.py, routes/dashboard.py, GET and PUT   *)
(* /agents/config, GET /audit).                                            *)
(*                                                                         *)
(* Each request has a thread and a connection.  A PUT is one transaction,  *)
(* whose first write waits for SQLite's lock; a SELECT outside a           *)
(* transaction reads what is committed at that moment, and GET             *)
(* /agents/config and a client that pages through the log make several.    *)
(* A value that does not validate reads as the default, like none.         *)
(***************************************************************************)
EXTENDS Naturals, SequencesExt

CONSTANTS
  Calls,      \* requests in progress at the same time
  Keys,       \* of the settings table
  Assistant,  \* the key whose answer also names who chose
  Banner,     \* the key whose value has an end
  MaxPage,    \* bound: the limit of a page
  MaxChanges, \* bound: changes of settings
  MaxNow      \* bound: the clock stops here

ASSUME KeysAssumption == {Assistant, Banner} \subseteq Keys /\ Assistant # Banner
ASSUME PageAssumption == MaxPage \in Nat \ {0}

VARIABLES
  now,      \* the clock
  table,    \* the settings: the number of the change that made each row, 0 if there is none
  changes,  \* history: the changes, committed or not, in the order of their requests
  entries,  \* the audit log: the numbers of the changes it tells of
  calls     \* where each request is, and what it has read

settingsVars == <<now, table, changes, entries, calls>>

\* Values are told apart by the change that stored them: change 0 is the default.
Free == [at |-> "free", key |-> Assistant, change |-> 0, value |-> 0, who |-> 0, since |-> 0,
         limit |-> 1, offset |-> 0, seen |-> {}]
Never == MaxNow + 1   \* the end of a banner without `until`
Until(n) == IF n = 0 THEN 0 ELSE changes[n].until
Expired(n) == Until(n) <= now

SettingsInit ==
  /\ now = 0
  /\ table = [k \in Keys |-> 0]
  /\ changes = <<>> /\ entries = <<>>
  /\ calls = [c \in Calls |-> Free]

Moves(c, step) == calls' = [calls EXCEPT ![c] = step]
CallAt(c, step) == calls[c].at = step
Locked == \E c \in Calls : CallAt(c, "writing")

-----------------------------------------------------------------------------
(* PUT: set_views(), set_view_settings(), set_banner(), set_config() *)

\* "The banner's end time has already passed" is seen before the transaction.  Empty text
\* clears the banner, whatever end it comes with: what is stored then shows as none, as if its
\* end were 0.
PutSetting(c, k, until) ==
  /\ CallAt(c, "free") /\ Len(changes) < MaxChanges
  /\ until = 0 \/ (k = Banner /\ until > now)
  /\ changes' = Append(changes, [key |-> k, until |-> until])
  /\ Moves(c, [Free EXCEPT !.at = "putting", !.key = k, !.change = Len(changes) + 1])
  /\ UNCHANGED <<now, table, entries>>

\* store.put(): the first write of the transaction takes the lock.
WriteSetting(c) ==
  /\ CallAt(c, "putting") /\ ~Locked
  /\ Moves(c, [calls[c] EXCEPT !.at = "writing"])
  /\ UNCHANGED <<now, table, changes, entries>>

\* The row and its audit entry are committed.  set_config() has read its own row by then, and
\* the others answer what they were sent.
CommitSetting(c) ==
  /\ CallAt(c, "writing")
  /\ table' = [table EXCEPT ![calls[c].key] = calls[c].change]
  /\ entries' = Append(entries, calls[c].change)
  /\ Moves(c, [calls[c] EXCEPT !.at = "answered", !.value = calls[c].change,
                               !.who = calls[c].change])
  /\ UNCHANGED <<now, changes>>

\* The disk is full, or the lock is not free in time.
PutSettingFails(c) ==
  /\ calls[c].at \in {"putting", "writing"}
  /\ Moves(c, Free)
  /\ UNCHANGED <<now, table, changes, entries>>

-----------------------------------------------------------------------------
(* GET: get_views(), get_view_settings(), get_banner(), get_config() *)

Reading == UNCHANGED <<now, table, changes, entries>>

\* A banner whose end has come is answered as none, though it was stored in time or not.
ShownOf(k, n) == IF k = Banner /\ Expired(n) THEN 0 ELSE n

GetSetting(c, k) ==
  /\ CallAt(c, "free") /\ k # Assistant
  /\ LET n == ShownOf(k, table[k]) IN
     Moves(c, [Free EXCEPT !.at = "answered", !.key = k, !.value = n, !.who = n,
                           !.since = table[k]])
  /\ Reading

\* _state(): who chose is read first, and what was chosen with a SELECT of its own.
\* A defect to test the properties with: the other way round.
ValueFirst == "value"
ReadFirst == "who"

GetState(c) ==
  /\ CallAt(c, "free")
  /\ Moves(c, [[Free EXCEPT ![ReadFirst] = table[Assistant]]
               EXCEPT !.at = "reading", !.since = table[Assistant]])
  /\ Reading

GetStateEnds(c) ==
  /\ CallAt(c, "reading")
  /\ LET rest == CHOOSE part \in {"who", "value"} : part # ReadFirst IN
     Moves(c, [[calls[c] EXCEPT ![rest] = table[Assistant]] EXCEPT !.at = "answered"])
  /\ Reading

-----------------------------------------------------------------------------
(* GET /audit: list_audit() and page(), and a client that asks for page after page *)

SmallerOf(i, j) == IF i < j THEN i ELSE j

\* A page of the log, newest first.  A defect to test the properties with: limit and offset
\* are bound the other way round.
PageSwapped(limit, offset) ==
  SubSeq(Reverse(entries), limit + 1, SmallerOf(limit + offset, Len(entries)))
Page(limit, offset) ==
  SubSeq(Reverse(entries), offset + 1, SmallerOf(offset + limit, Len(entries)))

ReadPage(c, limit, offset, seen, since) ==
  LET page == Page(limit, offset) IN
  Moves(c, [Free EXCEPT !.at = IF Len(page) < limit THEN "paged" ELSE "paging",
                        !.limit = limit, !.offset = offset + Len(page),
                        !.seen = seen \cup ToSet(page), !.since = since])

FirstPage(c, limit) == CallAt(c, "free") /\ ReadPage(c, limit, 0, {}, Len(entries)) /\ Reading

NextPage(c) ==
  /\ CallAt(c, "paging")
  /\ ReadPage(c, calls[c].limit, calls[c].offset, calls[c].seen, calls[c].since)
  /\ Reading

-----------------------------------------------------------------------------

Ends(c) == calls[c].at \in {"answered", "paging", "paged"} /\ Moves(c, Free) /\ Reading

Passes == now < MaxNow /\ now' = now + 1 /\ UNCHANGED <<table, changes, entries, calls>>

SettingsNext ==
  \/ \E c \in Calls :
       \/ \E k \in Keys, until \in 0 .. Never : PutSetting(c, k, until)
       \/ WriteSetting(c) \/ CommitSetting(c) \/ PutSettingFails(c)
       \/ \E k \in Keys : GetSetting(c, k)
       \/ GetState(c) \/ GetStateEnds(c)
       \/ \E limit \in 1 .. MaxPage : FirstPage(c, limit)
       \/ NextPage(c) \/ Ends(c)
  \/ Passes

SettingsSpec == SettingsInit /\ [][SettingsNext]_settingsVars

-----------------------------------------------------------------------------
(* Properties *)

\* Where a change stands among those that were committed; the default comes before all.
Place(n) == IF n = 0 THEN 0 ELSE CHOOSE i \in DOMAIN entries : entries[i] = n

\* "The assistant everyone chats with, and who chose it when": a choice between the two SELECTs
\* may be answered with the name of who chose before, but never is a choice answered with who
\* made a later one, nor with one that was gone when the request began.
CreditIsNotAhead ==
  \A c \in Calls :
    CallAt(c, "answered") /\ calls[c].key = Assistant =>
      /\ Place(calls[c].since) <= Place(calls[c].who)
      /\ Place(calls[c].who) <= Place(calls[c].value)

\* A client that pages through the audit log until a page is not full has every entry there
\* was when it began, whatever is added meanwhile: new entries come first and push the others
\* on, so that some are read twice and none is passed over.
PagesMissNothing ==
  \A c \in Calls :
    CallAt(c, "paged") => ToSet(SubSeq(entries, 1, calls[c].since)) \subseteq calls[c].seen
=============================================================================
