------------------------------ MODULE Telemetry ------------------------------
(***************************************************************************)
(* Readings on their way through p4n4-api: POST /telemetry stores a batch  *)
(* in InfluxDB and publishes each reading (routes/telemetry.py), the MQTT  *)
(* bridge publishes, receives and reconnects (mqtt.py), and GET            *)
(* /telemetry/stream gives every live client a bounded queue.              *)
(*                                                                         *)
(* All of it runs in one event loop: a step is what happens between two    *)
(* awaits.  The broker, the connection to it, InfluxDB and the devices are *)
(* external.  Readings are numbered; a client's filter only leaves out     *)
(* readings, so a client here is one that wants them all.  A device that   *)
(* repeats a batch after an error sends new readings.                      *)
(***************************************************************************)
EXTENDS Naturals, Sequences, SequencesExt

CONSTANTS
  Clients,    \* live streams
  Requests,   \* ingest requests in progress at the same time
  QueueSize,  \* QUEUE_SIZE
  MaxBatch, MaxReadings, MaxLosses   \* bounds: readings in a batch, in all; broken connections

ASSUME QueueAssumption == QueueSize \in Nat \ {0}
ASSUME BoundsAssumption == MaxBatch \in Nat /\ MaxReadings \in Nat /\ MaxLosses \in Nat

VARIABLES
  bridge,    \* where Bridge._run is
  up,        \* the connection to the broker is alive
  losses,    \* how often it broke or could not be made
  wire,      \* published messages on their way to the broker
  acked,     \* the readings whose acknowledgement is on its way back
  messages,  \* messages the broker sent the bridge
  made,      \* how many readings there were
  stored,    \* the readings in InfluxDB that were ingested
  lost,      \* history: readings that were lost with a connection
  owed,      \* history: <<c, r>> when client c was there as r began to be published
  req,       \* where each ingest request is, and the readings it has still to publish
  stream,    \* the generator of each live client, and its Subscriber
  inTask     \* asyncio.wait_for runs queue.get() in a task of its own (Python 3.11)

vars == <<bridge, up, losses, wire, acked, messages, made, stored, lost, owed, req, stream,
          inTask>>

Readings == 1 .. MaxReadings
Numbered == [id: Readings, pos: Nat]   \* pos: which of the readings offered to the client
Nothing == [id |-> 0, pos |-> 0]
Idle == [at |-> "idle", batch |-> <<>>]
Off == [at |-> "off", queue |-> <<>>, dropped |-> 0, reported |-> 0, held |-> Nothing,
        offers |-> 0, sent |-> 0, had |-> {}]

\* The values of the connection, the requests and the streams.
TypeOK ==
  /\ bridge \in {"connecting", "subscribing", "receiving", "sleeping"}
  /\ up \in BOOLEAN /\ inTask \in BOOLEAN
  /\ losses \in 0 .. MaxLosses
  /\ wire \in Seq(Readings) /\ messages \in Seq(Readings)
  /\ made \in 0 .. MaxReadings
  /\ acked \subseteq Readings /\ stored \subseteq Readings /\ lost \subseteq Readings
  /\ owed \subseteq Clients \X Readings
  /\ req \in [Requests -> [at: {"idle", "write", "touch", "publish", "ack"},
                           batch: Seq(Readings)]]
  /\ \A c \in Clients :
       /\ stream[c].at \in {"off", "wait", "got", "send"}
       /\ stream[c].queue \in Seq(Numbered) /\ Len(stream[c].queue) <= QueueSize
       /\ stream[c].held \in Numbered \cup {Nothing}
       /\ {stream[c].dropped, stream[c].reported, stream[c].offers, stream[c].sent} \subseteq Nat
       /\ stream[c].had \subseteq Readings

Init ==
  /\ bridge = "connecting" /\ up = FALSE /\ losses = 0
  /\ wire = <<>> /\ acked = {} /\ messages = <<>>
  /\ made = 0 /\ stored = {} /\ lost = {} /\ owed = {}
  /\ req = [p \in Requests |-> Idle]
  /\ stream = [c \in Clients |-> Off]
  /\ inTask \in BOOLEAN

Live == {c \in Clients : stream[c].at # "off"}

-----------------------------------------------------------------------------
(* Live streams: Subscriber and stream_events() *)

\* offer(): "a slow client loses its oldest readings, nobody else waits".
\* A defect to test the properties with: the newest reading is the one that goes.
OfferOrRefuse(s, r) ==
  LET n == [id |-> r, pos |-> s.offers + 1] IN
  IF Len(s.queue) = QueueSize
  THEN [s EXCEPT !.dropped = @ + 1, !.offers = @ + 1, !.had = @ \cup {r}]
  ELSE [s EXCEPT !.queue = Append(@, n), !.offers = @ + 1, !.had = @ \cup {r}]
Offer(s, r) ==
  LET full == Len(s.queue) = QueueSize
      room == IF full THEN Tail(s.queue) ELSE s.queue
  IN [s EXCEPT !.queue = Append(room, [id |-> r, pos |-> s.offers + 1]),
               !.dropped = IF full THEN @ + 1 ELSE @,
               !.offers = @ + 1, !.had = @ \cup {r}]

Dispatch(r) ==
  stream' = [c \in Clients |-> IF c \in Live THEN Offer(stream[c], r) ELSE stream[c]]

StreamStep(c, s) ==
  /\ stream' = [stream EXCEPT ![c] = s]
  /\ UNCHANGED <<bridge, up, losses, wire, acked, messages, made, stored, lost, req, inTask>>

\* The first thing sent is `status`.
Subscribe(c) ==
  /\ stream[c].at = "off"
  /\ StreamStep(c, [Off EXCEPT !.at = "send"])
  /\ UNCHANGED owed

\* The client is told what it lost, and then gets the reading.
Report(s) == [s EXCEPT !.reported = s.dropped, !.at = "send"]

\* In a task of its own queue.get() ends a moment before stream_events() goes on.
Get(c) ==
  /\ stream[c].at = "wait" /\ stream[c].queue # <<>>
  /\ LET s == [stream[c] EXCEPT !.held = Head(stream[c].queue), !.queue = Tail(@),
                                   !.at = "got"]
     IN StreamStep(c, IF inTask THEN s ELSE Report(s))
  /\ UNCHANGED owed

GetEnds(c) ==
  /\ stream[c].at = "got"
  /\ StreamStep(c, Report(stream[c]))
  /\ UNCHANGED owed

\* The client has read what was sent to it, sooner or later.
Sent(c) ==
  /\ stream[c].at = "send"
  /\ StreamStep(c, [stream[c] EXCEPT !.at = "wait", !.held = Nothing,
                                     !.sent = IF stream[c].held = Nothing THEN @ ELSE @ + 1])
  /\ UNCHANGED owed

Unsubscribe(c) ==
  /\ stream[c].at # "off"
  /\ StreamStep(c, Off)
  /\ owed' = {o \in owed : o[1] # c}

-----------------------------------------------------------------------------
(* The connection: Bridge._run() *)

ConnectionStep == UNCHANGED <<made, stored, owed, req, inTask>>

\* `connected`: the client is set once it has subscribed.  A defect to test the properties
\* with: it is set as soon as there is a connection.
ConnectedBeforeSubscribing == bridge \in {"subscribing", "receiving"}
Connected == bridge = "receiving"

Connect ==
  /\ bridge = "connecting"
  /\ bridge' = "subscribing" /\ up' = TRUE
  /\ ConnectionStep
  /\ UNCHANGED <<losses, wire, acked, messages, lost, stream>>

ConnectFails ==
  /\ bridge = "connecting" /\ losses < MaxLosses
  /\ bridge' = "sleeping" /\ losses' = losses + 1
  /\ ConnectionStep
  /\ UNCHANGED <<up, wire, acked, messages, lost, stream>>

Subscribed ==
  /\ bridge = "subscribing" /\ up
  /\ bridge' = "receiving"
  /\ ConnectionStep
  /\ UNCHANGED <<up, losses, wire, acked, messages, lost, stream>>

Receive ==
  /\ bridge = "receiving" /\ messages # <<>>
  /\ Dispatch(Head(messages))
  /\ messages' = Tail(messages)
  /\ ConnectionStep
  /\ UNCHANGED <<bridge, up, losses, wire, acked, lost>>

\* The loop has read what had arrived, and finds the connection broken.
\* A defect to test the properties with: the exception ends the loop.
NoticedForGood ==
  /\ bridge \in {"subscribing", "receiving"} /\ ~up /\ messages = <<>>
  /\ bridge' = IF bridge = "subscribing" THEN "subscribing" ELSE "sleeping"
  /\ ConnectionStep
  /\ UNCHANGED <<up, losses, wire, acked, messages, lost, stream>>

Noticed ==
  /\ bridge \in {"subscribing", "receiving"} /\ ~up /\ messages = <<>>
  /\ bridge' = "sleeping"
  /\ ConnectionStep
  /\ UNCHANGED <<up, losses, wire, acked, messages, lost, stream>>

Retry ==
  /\ bridge = "sleeping"
  /\ bridge' = "connecting"
  /\ ConnectionStep
  /\ UNCHANGED <<up, losses, wire, acked, messages, lost, stream>>

-----------------------------------------------------------------------------
(* Ingest: ingest() and Bridge.publish() *)

At(p, step) == req[p].at = step
To(p, step) == req' = [req EXCEPT ![p].at = step]
End(p) == req' = [req EXCEPT ![p] = Idle]
InDatabase == UNCHANGED <<bridge, up, losses, wire, acked, messages, lost, owed, stream, inTask>>

Ingest(p, n) ==
  /\ At(p, "idle") /\ made + n <= MaxReadings
  /\ made' = made + n
  /\ req' = [req EXCEPT ![p] = [at |-> "write", batch |-> [i \in 1 .. n |-> made + i]]]
  /\ UNCHANGED stored
  /\ InDatabase

Write(p) ==
  /\ At(p, "write")
  /\ stored' = stored \cup ToSet(req[p].batch)
  /\ To(p, "touch")
  /\ UNCHANGED made
  /\ InDatabase

\* InfluxDB refuses, or its answer is lost.  A defect to test the properties with: the
\* error is only logged.
WriteFailsQuietly(p) ==
  /\ At(p, "write")
  /\ To(p, "touch")
  /\ UNCHANGED <<made, stored>>
  /\ InDatabase

WriteFails(p) ==
  /\ At(p, "write")
  /\ stored' \in {stored, stored \cup ToSet(req[p].batch)}
  /\ End(p)
  /\ UNCHANGED made
  /\ InDatabase

\* _touch_last_seen, which may find the database locked.
Touch(p) ==
  /\ At(p, "touch")
  /\ To(p, "publish") \/ End(p)
  /\ UNCHANGED <<made, stored>>
  /\ InDatabase

\* The next reading of the batch, or the answer 201.
Published(p) ==
  req' = [req EXCEPT ![p] = IF Len(@.batch) = 1 THEN Idle
                            ELSE [at |-> "publish", batch |-> Tail(@.batch)]]

Reading(p) == Head(req[p].batch)
PublishStep == UNCHANGED <<bridge, up, losses, messages, made, stored, lost, inTask>>

Owe(r) == owed' = owed \cup {<<c, r>> : c \in Live}

\* Nothing arrives over a connection that is broken and has not been noticed.
Send(p) ==
  /\ At(p, "publish") /\ Connected
  /\ wire' = IF up THEN Append(wire, Reading(p)) ELSE wire
  /\ To(p, "ack")
  /\ Owe(Reading(p))
  /\ PublishStep
  /\ UNCHANGED <<acked, stream>>

\* "When the broker is down, live-stream subscribers get it directly instead".
SendDirectly(p) ==
  /\ At(p, "publish") /\ ~Connected
  /\ Dispatch(Reading(p))
  /\ Published(p)
  /\ Owe(Reading(p))
  /\ PublishStep
  /\ UNCHANGED <<wire, acked>>

Acknowledged(p) ==
  /\ At(p, "ack") /\ Reading(p) \in acked
  /\ acked' = acked \ {Reading(p)}
  /\ Published(p)
  /\ PublishStep
  /\ UNCHANGED <<wire, owed, stream>>

\* MqttError: disconnected, or no acknowledgement in time.  A defect to test the properties
\* with: the reading is given up.
PublishGivesUp(p) ==
  /\ At(p, "ack")
  /\ Published(p)
  /\ PublishStep
  /\ UNCHANGED <<wire, acked, owed, stream>>

\* Another: only a broken connection is an error, there is no timeout.
PublishFailsOffline(p) ==
  /\ At(p, "ack") /\ ~Connected
  /\ Dispatch(Reading(p))
  /\ acked' = acked \ {Reading(p)}
  /\ Published(p)
  /\ PublishStep
  /\ UNCHANGED <<wire, owed>>

PublishFails(p) ==
  /\ At(p, "ack")
  /\ Dispatch(Reading(p))
  /\ acked' = acked \ {Reading(p)}
  /\ Published(p)
  /\ PublishStep
  /\ UNCHANGED <<wire, owed>>

-----------------------------------------------------------------------------
(* The broker and the network *)

\* The broker sends a message to its subscribers, the bridge among them once it has
\* subscribed, and acknowledges it to the request, if that still waits.
BrokerGets ==
  /\ up /\ wire # <<>>
  /\ wire' = Tail(wire)
  /\ acked' = IF \E p \in Requests : At(p, "ack") /\ Reading(p) = Head(wire)
              THEN acked \cup {Head(wire)} ELSE acked
  /\ messages' = IF bridge = "receiving" THEN Append(messages, Head(wire)) ELSE messages
  /\ UNCHANGED <<bridge, up, losses, made, stored, lost, owed, req, stream, inTask>>

\* A device that has a broker account publishes a reading itself.
DevicePublishes ==
  /\ up /\ bridge = "receiving" /\ made < MaxReadings
  /\ made' = made + 1
  /\ stored' = stored \cup {made + 1}   \* by Node-RED
  /\ messages' = Append(messages, made + 1)
  /\ UNCHANGED <<bridge, up, losses, wire, acked, lost, owed, req, stream, inTask>>

\* The connection breaks with what is on it, both ways; some messages had arrived.
LoseLink ==
  /\ up /\ losses < MaxLosses
  /\ up' = FALSE /\ losses' = losses + 1
  /\ \E n \in 0 .. Len(messages) :
       /\ messages' = SubSeq(messages, 1, n)
       /\ lost' = lost \cup ToSet(wire) \cup ToSet(SubSeq(messages, n + 1, Len(messages)))
  /\ wire' = <<>> /\ acked' = {}
  /\ UNCHANGED <<bridge, made, stored, owed, req, stream, inTask>>

RequestStep(p) ==
  Write(p) \/ WriteFails(p) \/ Touch(p) \/ Send(p) \/ SendDirectly(p)
  \/ Acknowledged(p) \/ PublishFails(p)

BridgeStep == Connect \/ Subscribed \/ Receive \/ Noticed \/ Retry

Next ==
  \/ \E c \in Clients : Subscribe(c) \/ Get(c) \/ GetEnds(c) \/ Sent(c) \/ Unsubscribe(c)
  \/ \E p \in Requests : (\E n \in 1 .. MaxBatch : Ingest(p, n)) \/ RequestStep(p)
  \/ BridgeStep
  \/ ConnectFails \/ BrokerGets \/ DevicePublishes \/ LoseLink

\* The loop goes on while it has something to do, and every call to InfluxDB, the database
\* and the broker has a timeout.  Nothing is assumed of clients, devices or the broker.
Fairness ==
  /\ WF_vars(BridgeStep)
  /\ \A p \in Requests : WF_vars(RequestStep(p))

Spec == Init /\ [][Next]_vars
FairSpec == Spec /\ Fairness

-----------------------------------------------------------------------------
(* Properties *)

\* `dropped` "when a slow client lost some": before a reading is sent the client was told at
\* least as many losses as there were before that reading, and exactly as many where get()
\* and the look at the count are one step (Python 3.12) - however many come meanwhile.
LossIsTold ==
  \A c \in Clients :
    stream[c].at = "send" /\ stream[c].held # Nothing =>
      LET missing == stream[c].held.pos - 1 - stream[c].sent IN
      /\ missing <= stream[c].reported
      /\ ~inTask => missing = stream[c].reported

\* A live client gets every reading that begins to be published while it is there: from the
\* broker, or directly when that failed.  It misses one only with a connection that broke.
PublishedReachesStreams ==
  \A o \in owed :
    \/ o[2] \in stream[o[1]].had \cup lost \cup ToSet(wire) \cup ToSet(messages)
    \/ \E p \in Requests : At(p, "ack") /\ Reading(p) = o[2]

\* What live clients see is in InfluxDB: nothing is published, directly or through the
\* broker, that ingest did not store.
LiveReadingsAreStored ==
  \A c \in Clients : stream[c].had \subseteq stored

\* The bridge connects again however its connection broke, once the broker answers.
Reconnects == ~Connected ~> Connected

\* Every ingest request is answered, whatever breaks while it waits for the broker.
RequestsEnd == \A p \in Requests : ~At(p, "idle") ~> At(p, "idle")
=============================================================================
