--------------------------- MODULE TelemetryProofs ---------------------------
(***************************************************************************)
(* Readings on their way to the live streams, for any number of clients    *)
(* and requests and any size of queues and batches: Telemetry.tla proved.  *)
(***************************************************************************)
EXTENDS Telemetry, SequenceTheorems, TLAPS

-----------------------------------------------------------------------------
(* Sequences *)

\* The elements of a sequence with one more.
LEMMA AppendElements ==
  ASSUME NEW S, NEW s \in Seq(S), NEW e \in S
  PROVE  /\ Append(s, e) \in Seq(S) /\ Len(Append(s, e)) = Len(s) + 1
         /\ \A i \in 1 .. Len(s) : Append(s, e)[i] = s[i]
         /\ Append(s, e)[Len(s) + 1] = e
         /\ ToSet(Append(s, e)) = ToSet(s) \cup {e}
<1>1. /\ Append(s, e) \in Seq(S) /\ Len(Append(s, e)) = Len(s) + 1
      /\ \A i \in 1 .. Len(s) : Append(s, e)[i] = s[i]
      /\ Append(s, e)[Len(s) + 1] = e
  BY AppendProperties
<1>2. Len(s) \in Nat /\ DOMAIN s = 1 .. Len(s) /\ DOMAIN Append(s, e) = 1 .. Len(s) + 1
  BY <1>1, LenProperties
<1>3. \A x : x \in ToSet(Append(s, e)) <=> x \in ToSet(s) \cup {e}
  BY <1>1, <1>2 DEF ToSet
<1> QED BY <1>1, <1>3

\* The elements of a sequence and of what is left when the first is gone.
LEMMA TailElements ==
  ASSUME NEW S, NEW s \in Seq(S), s # <<>>
  PROVE  /\ Head(s) \in S /\ Head(s) = s[1] /\ 1 \in 1 .. Len(s)
         /\ Tail(s) \in Seq(S) /\ Len(Tail(s)) = Len(s) - 1
         /\ \A i \in 1 .. Len(s) - 1 : Tail(s)[i] = s[i + 1]
         /\ ToSet(s) = {Head(s)} \cup ToSet(Tail(s))
         /\ ToSet(Tail(s)) \subseteq ToSet(s) /\ Head(s) \in ToSet(s)
<1>1. /\ Head(s) \in S /\ Tail(s) \in Seq(S) /\ Len(Tail(s)) = Len(s) - 1
      /\ \A i \in 1 .. Len(Tail(s)) : Tail(s)[i] = s[i + 1]
  BY HeadTailProperties
<1>2. /\ Len(s) \in Nat /\ DOMAIN s = 1 .. Len(s) /\ DOMAIN Tail(s) = 1 .. Len(s) - 1
      /\ Head(s) = s[1] /\ 1 \in 1 .. Len(s)
  BY <1>1, LenProperties, EmptySeq
<1>3. \A x : x \in ToSet(s) <=> x \in {Head(s)} \cup ToSet(Tail(s))
  <2>1. ASSUME NEW x \in ToSet(s) PROVE x \in {Head(s)} \cup ToSet(Tail(s))
    <3>1. PICK i \in 1 .. Len(s) : x = s[i]
      BY <1>2 DEF ToSet
    <3>2. CASE i = 1
      BY <1>2, <3>1, <3>2
    <3>3. CASE i # 1
      <4>1. i - 1 \in 1 .. Len(s) - 1 /\ s[i - 1 + 1] = s[i]
        BY <1>2, <3>3
      <4> QED BY <1>1, <1>2, <3>1, <4>1 DEF ToSet
    <3> QED BY <3>2, <3>3
  <2>2. ASSUME NEW x \in {Head(s)} \cup ToSet(Tail(s)) PROVE x \in ToSet(s)
    BY <1>1, <1>2, <2>2 DEF ToSet
  <2> QED BY <2>1, <2>2
<1> QED BY <1>1, <1>2, <1>3

\* The elements of a sequence are those of its two parts.
LEMMA SplitElements ==
  ASSUME NEW S, NEW s \in Seq(S), NEW n \in 0 .. Len(s)
  PROVE  /\ SubSeq(s, 1, n) \in Seq(S)
         /\ ToSet(s) = ToSet(SubSeq(s, 1, n)) \cup ToSet(SubSeq(s, n + 1, Len(s)))
<1>0. Len(s) \in Nat /\ n \in Nat /\ n <= Len(s) /\ DOMAIN s = 1 .. Len(s) /\ \A i \in 1 .. Len(s) : s[i] \in S
  BY LenProperties, ElementOfSeq
<1> DEFINE a == SubSeq(s, 1, n)
           b == SubSeq(s, n + 1, Len(s))
<1>1. a \in Seq(S) /\ Len(a) = n /\ \A i \in 1 .. n : a[i] = s[i]
  <2>1. \A i \in 1 .. n : s[i] \in S
    BY <1>0
  <2> QED BY <1>0, <2>1, SubSeqProperties
<1>2. b \in Seq(S) /\ Len(b) = Len(s) - n /\ \A i \in 1 .. Len(s) - n : b[i] = s[n + i]
  <2>1. \A i \in n + 1 .. Len(s) : s[i] \in S
    BY <1>0
  <2>2. n + 1 \in Int /\ Len(s) \in Int
    BY <1>0
  <2>3. /\ b \in Seq(S)
        /\ Len(b) = IF n + 1 <= Len(s) THEN Len(s) - (n + 1) + 1 ELSE 0
        /\ \A i \in 1 .. Len(s) - (n + 1) + 1 : b[i] = s[n + 1 + i - 1]
    BY <2>1, <2>2, SubSeqProperties
  <2>4. Len(s) - (n + 1) + 1 = Len(s) - n /\ (~(n + 1 <= Len(s)) => Len(s) - n = 0)
    <3>1. \A k, l \in Nat : k <= l => l - (k + 1) + 1 = l - k /\ (~(k + 1 <= l) => l - k = 0)
      OBVIOUS
    <3> QED BY <1>0, <3>1
  <2>5. \A i \in 1 .. Len(s) - n : n + 1 + i - 1 = n + i
    BY <1>0
  <2> HIDE DEF b
  <2> QED BY <2>3, <2>4, <2>5
<1>3. DOMAIN a = 1 .. n /\ DOMAIN b = 1 .. Len(s) - n
  BY <1>1, <1>2, LenProperties
<1> HIDE DEF a, b
<1>4. ASSUME NEW x \in ToSet(s) PROVE x \in ToSet(a) \cup ToSet(b)
  <2>1. PICK i \in 1 .. Len(s) : x = s[i]
    BY <1>0 DEF ToSet
  <2>2. CASE i \in 1 .. n
    BY <1>1, <1>3, <2>1, <2>2 DEF ToSet
  <2>3. CASE i \notin 1 .. n
    <3>1. i - n \in 1 .. Len(s) - n /\ n + (i - n) = i
      BY <1>0, <2>3
    <3> QED BY <1>2, <1>3, <2>1, <3>1 DEF ToSet
  <2> QED BY <2>2, <2>3
<1>5. ASSUME NEW x \in ToSet(a) \cup ToSet(b) PROVE x \in ToSet(s)
  <2>1. CASE x \in ToSet(a)
    <3>1. PICK i \in 1 .. n : x = s[i]
      BY <1>1, <1>3, <2>1 DEF ToSet
    <3> QED BY <1>0, <3>1 DEF ToSet
  <2>2. CASE x \in ToSet(b)
    <3>1. PICK i \in 1 .. Len(s) - n : x = s[n + i]
      BY <1>2, <1>3, <2>2 DEF ToSet
    <3>2. n + i \in 1 .. Len(s)
      BY <1>0
    <3> QED BY <1>0, <3>1, <3>2 DEF ToSet
  <2> QED BY <1>5, <2>1, <2>2
<1>6. ToSet(s) = ToSet(a) \cup ToSet(b)
  BY <1>4, <1>5
<1> QED BY <1>1, <1>6 DEF a, b

-----------------------------------------------------------------------------
(* The streams *)

Stream == [at: {"off", "wait", "got", "send"}, queue: Seq(Numbered), dropped: Nat,
           reported: Nat, held: Numbered \cup {Nothing}, offers: Nat, sent: Nat,
           had: SUBSET Readings]

\* Every reading offered to a stream is sent, dropped, queued or held; what is queued is what
\* was offered last, and of what came before the reading held all that is missing was dropped.
Counted(s) ==
  /\ Len(s.queue) <= QueueSize
  /\ s.offers = s.sent + s.dropped + Len(s.queue) + IF s.held = Nothing THEN 0 ELSE 1
  /\ \A i \in 1 .. Len(s.queue) : s.queue[i].pos + Len(s.queue) = s.offers + i
  /\ s.at \in {"off", "wait"} => s.held = Nothing
  /\ s.at = "got" => inTask /\ s.held.pos <= s.sent + s.dropped + 1
  /\ s.at = "send" /\ s.held # Nothing =>
       /\ s.held.pos <= s.sent + s.reported + 1
       /\ ~inTask => s.held.pos = s.sent + s.reported + 1

LEMMA OffCounted == Off \in Stream /\ Counted(Off) /\ Off.had = {} /\ Off.at = "off"
<1>1. <<>> \in Seq(Numbered) /\ Len(<<>>) = 0
  BY EmptySeq
<1>2. Off \in Stream /\ Off.queue = <<>> /\ Off.held = Nothing /\ Off.at = "off"
      /\ Off.offers = 0 /\ Off.sent = 0 /\ Off.dropped = 0 /\ Off.had = {}
  BY <1>1 DEF Off, Stream, Nothing
<1> QED BY <1>1, <1>2, QueueAssumption DEF Counted

\* What is queued is not nothing.
LEMMA NumberedIsSomething == \A n \in Numbered : n # Nothing
BY DEF Numbered, Nothing, Readings

LEMMA OfferCounted ==
  ASSUME NEW s \in Stream, Counted(s), s.at # "off", NEW r \in Readings
  PROVE  /\ Offer(s, r) \in Stream /\ Counted(Offer(s, r))
         /\ Offer(s, r).at = s.at /\ Offer(s, r).had = s.had \cup {r}
<1> DEFINE full == Len(s.queue) = QueueSize
           room == IF full THEN Tail(s.queue) ELSE s.queue
           new == [id |-> r, pos |-> s.offers + 1]
           q == Append(room, new)
           t == Offer(s, r)
<1>1. /\ s.queue \in Seq(Numbered) /\ s.offers \in Nat /\ s.dropped \in Nat /\ s.sent \in Nat
      /\ s.reported \in Nat /\ s.had \subseteq Readings /\ s.held \in Numbered \cup {Nothing}
      /\ s.at \in {"off", "wait", "got", "send"}
      /\ DOMAIN s = {"at", "queue", "dropped", "reported", "held", "offers", "sent", "had"}
  BY DEF Stream
<1>2. new \in Numbered /\ new.pos = s.offers + 1
  BY <1>1 DEF Numbered
<1>3. full => s.queue # <<>>
  BY QueueAssumption, EmptySeq
<1>4. /\ room \in Seq(Numbered) /\ Len(s.queue) \in Nat
      /\ Len(room) = IF full THEN Len(s.queue) - 1 ELSE Len(s.queue)
      /\ \A i \in 1 .. Len(room) : room[i].pos + Len(room) = s.offers + i
  <2>1. Len(s.queue) \in Nat
    BY <1>1, LenProperties
  <2>2. CASE full
    <3>1. /\ Tail(s.queue) \in Seq(Numbered) /\ Len(Tail(s.queue)) = Len(s.queue) - 1
          /\ \A i \in 1 .. Len(s.queue) - 1 : Tail(s.queue)[i] = s.queue[i + 1]
      BY <1>1, <1>3, <2>2, TailElements
    <3>2. ASSUME NEW i \in 1 .. Len(s.queue) - 1
          PROVE  Tail(s.queue)[i].pos + (Len(s.queue) - 1) = s.offers + i
      <4>1. i + 1 \in 1 .. Len(s.queue) /\ s.queue[i + 1] \in Numbered
        BY <1>1, <2>1, ElementOfSeq
      <4>2. s.queue[i + 1].pos + Len(s.queue) = s.offers + (i + 1) /\ s.queue[i + 1].pos \in Nat
        BY <4>1 DEF Counted, Numbered
      <4> QED BY <1>1, <2>1, <3>1, <4>2
    <3> QED BY <2>1, <2>2, <3>1, <3>2
  <2>3. CASE ~full
    BY <1>1, <2>1, <2>3 DEF Counted
  <2> QED BY <2>2, <2>3
<1>5. /\ q \in Seq(Numbered) /\ Len(q) = Len(room) + 1 /\ Len(room) \in Nat
      /\ \A i \in 1 .. Len(room) : q[i] = room[i]
      /\ q[Len(room) + 1] = new
  BY <1>2, <1>4, AppendElements, LenProperties
<1>6. /\ t = [s EXCEPT !.queue = q, !.dropped = IF full THEN @ + 1 ELSE @,
                       !.offers = @ + 1, !.had = @ \cup {r}]
  BY DEF Offer
<1> HIDE DEF new, q, t, room
<1>7. /\ t.at = s.at /\ t.held = s.held /\ t.sent = s.sent /\ t.reported = s.reported
      /\ t.queue = q /\ t.offers = s.offers + 1 /\ t.had = s.had \cup {r}
      /\ t.dropped = IF full THEN s.dropped + 1 ELSE s.dropped
      /\ t \in Stream
  <2> DEFINE d == IF full THEN s.dropped + 1 ELSE s.dropped
             n == s.offers + 1
             h == s.had \cup {r}
  <2>1. d \in Nat /\ n \in Nat /\ h \in SUBSET Readings
    BY <1>1
  <2>2. t = [s EXCEPT !.queue = q, !.dropped = d, !.offers = n, !.had = h]
    BY <1>6
  <2> HIDE DEF d, n, h, full
  <2>3. /\ t.at = s.at /\ t.held = s.held /\ t.sent = s.sent /\ t.reported = s.reported
        /\ t.queue = q /\ t.offers = n /\ t.had = h /\ t.dropped = d
    BY <1>1, <2>2
  <2>4. t \in Stream
    BY <1>5, <2>1, <2>2 DEF Stream
  <2> QED BY <2>3, <2>4 DEF d, n, h
<1>8. Len(q) = IF full THEN Len(s.queue) ELSE Len(s.queue) + 1
  BY <1>4, <1>5
<1>9. Len(q) <= QueueSize
  <2>1. Len(s.queue) <= QueueSize /\ Len(s.queue) \in Nat
    BY <1>4 DEF Counted
  <2> QED BY <1>8, <2>1, QueueAssumption
<1>10. \A i \in 1 .. Len(q) : q[i].pos + Len(q) = s.offers + 1 + i
  <2>1. ASSUME NEW i \in 1 .. Len(q) PROVE q[i].pos + Len(q) = s.offers + 1 + i
    <3>1. CASE i = Len(room) + 1
      BY <1>1, <1>2, <1>5, <3>1
    <3>2. CASE i # Len(room) + 1
      <4>1. i \in 1 .. Len(room) /\ room[i] \in Numbered
        BY <1>4, <1>5, <3>2, ElementOfSeq
      <4>2. room[i].pos + Len(room) = s.offers + i /\ room[i].pos \in Nat
            /\ q[i] = room[i]
        BY <1>4, <1>5, <4>1 DEF Numbered
      <4>3. \A a, b, c, d \in Nat : a + b = c + d => a + (b + 1) = c + 1 + d
        OBVIOUS
      <4>4. q[i].pos + (Len(room) + 1) = s.offers + 1 + i
        <5>1. i \in Nat /\ q[i].pos \in Nat /\ Len(room) \in Nat /\ s.offers \in Nat
          BY <1>1, <1>5, <4>1, <4>2
        <5>2. q[i].pos + Len(room) = s.offers + i
          BY <4>2
        <5> QED BY <4>3, <5>1, <5>2
      <4> QED BY <1>5, <4>4
    <3> QED BY <3>1, <3>2
  <2> QED BY <2>1
<1>11. t.offers = t.sent + t.dropped + Len(q) + IF t.held = Nothing THEN 0 ELSE 1
  <2>1. s.offers = s.sent + s.dropped + Len(s.queue) + IF s.held = Nothing THEN 0 ELSE 1
    BY DEF Counted
  <2> QED BY <1>1, <1>4, <1>7, <1>8, <2>1
<1>12. s.held = Nothing \/ s.held.pos \in Nat
  BY <1>1 DEF Numbered
<1>13. t.at = "got" => inTask /\ t.held.pos <= t.sent + t.dropped + 1
  <2>1. s.at = "got" => inTask /\ s.held.pos <= s.sent + s.dropped + 1
    BY DEF Counted
  <2>2. s.held.pos \in Nat
    BY <1>12 DEF Nothing
  <2> QED BY <1>1, <1>7, <2>1, <2>2
<1>14. Counted(t)
  BY <1>1, <1>7, <1>9, <1>10, <1>11, <1>13 DEF Counted
<1> QED BY <1>7, <1>14 DEF t

StreamsInv == stream \in [Clients -> Stream] /\ \A c \in Clients : Counted(stream[c])

LEMMA StreamsInit == ASSUME Init PROVE StreamsInv
BY OffCounted DEF Init, StreamsInv

\* A reading is offered to the live clients.
LEMMA DispatchStep ==
  ASSUME StreamsInv, NEW r \in Readings, Dispatch(r), inTask' = inTask
  PROVE  /\ StreamsInv'
         /\ \A c \in Clients : (c \in Live' <=> c \in Live)
                               /\ stream'[c].had = IF c \in Live THEN stream[c].had \cup {r}
                                                   ELSE stream[c].had
<1>1. ASSUME NEW c \in Clients
      PROVE  /\ stream'[c] \in Stream /\ Counted(stream'[c])
             /\ stream'[c].at = stream[c].at
             /\ stream'[c].had = IF c \in Live THEN stream[c].had \cup {r} ELSE stream[c].had
  <2>1. stream[c] \in Stream /\ Counted(stream[c])
    BY DEF StreamsInv
  <2>2. stream'[c] = IF c \in Live THEN Offer(stream[c], r) ELSE stream[c]
    BY DEF Dispatch
  <2>3. CASE c \in Live
    <3>1. stream[c].at # "off"
      BY <2>3 DEF Live
    <3> QED BY <2>1, <2>2, <2>3, <3>1, OfferCounted
  <2>4. CASE c \notin Live
    BY <2>1, <2>2, <2>4
  <2> QED BY <2>3, <2>4
<1>2. stream' \in [Clients -> Stream]
  BY <1>1 DEF Dispatch
<1>3. StreamsInv'
  BY <1>1, <1>2 DEF StreamsInv, Counted
<1> QED BY <1>1, <1>3 DEF Live

\* What a client does changes its own stream only, and what the stream had only when it
\* begins or ends.
LEMMA ClientStep ==
  ASSUME StreamsInv, NEW c \in Clients,
         Subscribe(c) \/ Get(c) \/ GetEnds(c) \/ Sent(c) \/ Unsubscribe(c)
  PROVE  /\ StreamsInv'
         /\ \A d \in Clients : d # c => stream'[d] = stream[d]
         /\ Subscribe(c) => stream[c].at = "off" /\ stream'[c].had = {}
         /\ Unsubscribe(c) => stream'[c].had = {}
         /\ ~Subscribe(c) /\ ~Unsubscribe(c) =>
              stream'[c].had = stream[c].had /\ stream[c].at # "off" /\ stream'[c].at # "off"
<1> DEFINE s == stream[c]
<1>1. s \in Stream /\ Counted(s) /\ stream \in [Clients -> Stream]
  BY DEF StreamsInv
<1>2. /\ s.queue \in Seq(Numbered) /\ s.offers \in Nat /\ s.dropped \in Nat /\ s.sent \in Nat
      /\ s.reported \in Nat /\ s.held \in Numbered \cup {Nothing} /\ Len(s.queue) \in Nat
      /\ DOMAIN s = {"at", "queue", "dropped", "reported", "held", "offers", "sent", "had"}
  BY <1>1, LenProperties DEF Stream
<1>3. PICK t : /\ stream' = [stream EXCEPT ![c] = t] /\ inTask' = inTask
               /\ \/ Subscribe(c) /\ t = [Off EXCEPT !.at = "send"]
                  \/ Unsubscribe(c) /\ t = Off
                  \/ /\ s.at = "wait" /\ s.queue # <<>>
                     /\ t = LET u == [s EXCEPT !.held = Head(s.queue), !.queue = Tail(@), !.at = "got"]
                            IN IF inTask THEN u ELSE Report(u)
                  \/ s.at = "got" /\ t = Report(s)
                  \/ /\ s.at = "send"
                     /\ t = [s EXCEPT !.at = "wait", !.held = Nothing,
                                      !.sent = IF s.held = Nothing THEN @ ELSE @ + 1]
  BY DEF Subscribe, Get, GetEnds, Sent, Unsubscribe, StreamStep
<1>4. /\ \A n \in Nat : n + 0 = n
      /\ s.offers = s.sent + s.dropped + Len(s.queue) + IF s.held = Nothing THEN 0 ELSE 1
      /\ Len(s.queue) <= QueueSize
      /\ \A i \in 1 .. Len(s.queue) : s.queue[i].pos + Len(s.queue) = s.offers + i
  BY <1>1 DEF Counted
<1>5. ASSUME t = [Off EXCEPT !.at = "send"]
      PROVE  t \in Stream /\ Counted(t) /\ t.had = {} /\ t.at # "off"
  <2>1. t \in Stream /\ t.at = "send" /\ t.held = Nothing /\ t.had = {}
        /\ t.queue = Off.queue /\ t.offers = Off.offers /\ t.sent = Off.sent
        /\ t.dropped = Off.dropped
    BY <1>5, OffCounted DEF Off, Stream
  <2>2. Off.held = Nothing
    BY DEF Off
  <2> QED BY <2>1, <2>2, OffCounted DEF Counted
<1>6. ASSUME s.at = "wait", s.queue # <<>>,
             NEW u, u = [s EXCEPT !.held = Head(s.queue), !.queue = Tail(@), !.at = "got"],
             t = IF inTask THEN u ELSE Report(u)
      PROVE  t \in Stream /\ Counted(t) /\ t.had = s.had /\ t.at # "off"
  <2> DEFINE head == Head(s.queue)
             tail == Tail(s.queue)
  <2>1. /\ head \in Numbered /\ tail \in Seq(Numbered) /\ Len(tail) = Len(s.queue) - 1
        /\ \A i \in 1 .. Len(s.queue) - 1 : tail[i] = s.queue[i + 1]
        /\ head = s.queue[1] /\ 1 \in 1 .. Len(s.queue)
    BY <1>2, <1>6, TailElements
  <2>2. s.held = Nothing /\ s.offers = s.sent + s.dropped + Len(s.queue)
    BY <1>1, <1>2, <1>4, <1>6 DEF Counted
  <2>3. head.pos \in Nat /\ head.pos + Len(s.queue) = s.offers + 1 /\ head # Nothing
    BY <1>4, <2>1, NumberedIsSomething DEF Numbered
  <2>4. head.pos = s.sent + s.dropped + 1
    <3>1. \A p, l, o, a, b \in Nat : p + l = o + 1 /\ o = a + b + l => p = a + b + 1
      OBVIOUS
    <3>2. /\ head.pos \in Nat /\ Len(s.queue) \in Nat /\ s.offers \in Nat
          /\ s.sent \in Nat /\ s.dropped \in Nat
      BY <1>2, <2>3
    <3>3. head.pos + Len(s.queue) = s.offers + 1 /\ s.offers = s.sent + s.dropped + Len(s.queue)
      BY <2>2, <2>3
    <3> HIDE DEF s, head
    <3> QED BY <3>1, <3>2, <3>3
  <2>5. s.offers = s.sent + s.dropped + Len(tail) + 1 /\ Len(tail) <= QueueSize
    <3>1. \A l, q \in Nat : l <= q => l - 1 <= q /\ l = l - 1 + 1
      OBVIOUS
    <3>2. \A a, b, l \in Nat : a + b + l = a + b + (l - 1) + 1
      OBVIOUS
    <3>3. Len(s.queue) \in Nat /\ QueueSize \in Nat /\ s.sent \in Nat /\ s.dropped \in Nat
      BY <1>2, QueueAssumption
    <3>4. /\ Len(tail) = Len(s.queue) - 1 /\ Len(s.queue) <= QueueSize
          /\ s.offers = s.sent + s.dropped + Len(s.queue)
      BY <1>4, <2>1, <2>2
    <3> HIDE DEF s, tail
    <3> QED BY <3>1, <3>2, <3>3, <3>4
  <2>6. \A i \in 1 .. Len(tail) : tail[i].pos + Len(tail) = s.offers + i
    <3>1. ASSUME NEW i \in 1 .. Len(tail) PROVE tail[i].pos + Len(tail) = s.offers + i
      <4>1. i + 1 \in 1 .. Len(s.queue) /\ tail[i] = s.queue[i + 1]
            /\ s.queue[i + 1] \in Numbered
        BY <1>2, <2>1, ElementOfSeq
      <4>2. tail[i].pos \in Nat /\ tail[i].pos + Len(s.queue) = s.offers + (i + 1)
        BY <1>4, <4>1 DEF Numbered
      <4>3. Len(tail) + 1 = Len(s.queue) /\ Len(tail) \in Nat /\ i \in Nat
        BY <1>2, <2>1, LenProperties
      <4>4. \A a, l, m, o, k \in Nat : l + 1 = m /\ a + m = o + (k + 1) => a + l = o + k
        OBVIOUS
      <4>5. s.offers \in Nat /\ Len(s.queue) \in Nat
        BY <1>2
      <4> HIDE DEF s, tail
      <4> QED BY <4>2, <4>3, <4>4, <4>5
    <3> QED BY <3>1
  <2> HIDE DEF head, tail
  <2>7. u = [s EXCEPT !.held = head, !.queue = tail, !.at = "got"]
    BY <1>6 DEF head, tail
  <2>8. /\ u.at = "got" /\ u.held = head /\ u.queue = tail /\ u.offers = s.offers
        /\ u.sent = s.sent /\ u.dropped = s.dropped /\ u.had = s.had /\ u \in Stream
    <3>1. /\ u.at = "got" /\ u.held = head /\ u.queue = tail /\ u.offers = s.offers
          /\ u.sent = s.sent /\ u.dropped = s.dropped /\ u.had = s.had
      BY <1>2, <2>7
    <3>2. u \in Stream
      BY <1>1, <2>1, <2>7 DEF Stream
    <3> QED BY <3>1, <3>2
  <2>9. CASE inTask
    <3>1. t = u /\ s.sent \in Nat /\ s.dropped \in Nat
      BY <1>2, <1>6, <2>9
    <3>2. head.pos <= s.sent + s.dropped + 1
      BY <2>4, <3>1
    <3> QED BY <2>3, <2>5, <2>6, <2>8, <2>9, <3>1, <3>2 DEF Counted
  <2>10. CASE ~inTask
    <3>1. t = [u EXCEPT !.reported = u.dropped, !.at = "send"]
      BY <1>6, <2>10 DEF Report
    <3>2. /\ t.at = "send" /\ t.held = head /\ t.queue = tail /\ t.offers = s.offers
          /\ t.sent = s.sent /\ t.dropped = s.dropped /\ t.had = s.had /\ t \in Stream
          /\ t.reported = s.dropped
      BY <1>2, <2>8, <3>1 DEF Stream
    <3> QED BY <1>2, <2>3, <2>4, <2>5, <2>6, <3>2 DEF Counted
  <2> QED BY <2>9, <2>10
<1>7. ASSUME s.at = "got", t = Report(s)
      PROVE  t \in Stream /\ Counted(t) /\ t.had = s.had /\ t.at # "off"
  <2>1. t = [s EXCEPT !.reported = s.dropped, !.at = "send"]
    BY <1>7 DEF Report
  <2>2. /\ t.at = "send" /\ t.held = s.held /\ t.queue = s.queue /\ t.offers = s.offers
        /\ t.sent = s.sent /\ t.dropped = s.dropped /\ t.had = s.had /\ t \in Stream
        /\ t.reported = s.dropped
    BY <1>1, <1>2, <2>1 DEF Stream
  <2>3. inTask /\ s.held.pos <= s.sent + s.dropped + 1
    BY <1>1, <1>7 DEF Counted
  <2> QED BY <1>4, <2>2, <2>3 DEF Counted
<1>8. ASSUME s.at = "send",
             t = [s EXCEPT !.at = "wait", !.held = Nothing,
                           !.sent = IF s.held = Nothing THEN @ ELSE @ + 1]
      PROVE  t \in Stream /\ Counted(t) /\ t.had = s.had /\ t.at # "off"
  <2> DEFINE n == IF s.held = Nothing THEN s.sent ELSE s.sent + 1
  <2>1. n \in Nat /\ t = [s EXCEPT !.at = "wait", !.held = Nothing, !.sent = n]
    BY <1>2, <1>8
  <2> HIDE DEF n
  <2>2. /\ t.at = "wait" /\ t.held = Nothing /\ t.queue = s.queue /\ t.offers = s.offers
        /\ t.sent = n /\ t.dropped = s.dropped /\ t.had = s.had /\ t \in Stream
    BY <1>1, <1>2, <2>1 DEF Stream
  <2>3. s.offers = n + s.dropped + Len(s.queue) + 0
    BY <1>2, <1>4 DEF n
  <2> QED BY <1>4, <2>2, <2>3 DEF Counted
<1>9. t \in Stream /\ Counted(t)
  BY <1>3, <1>5, <1>6, <1>7, <1>8, OffCounted
<1>10. stream' = [stream EXCEPT ![c] = t] /\ inTask' = inTask /\ stream'[c] = t
  BY <1>1, <1>3
<1>11. StreamsInv'
  <2>1. \A d \in Clients : Counted(stream'[d])
    BY <1>1, <1>9, <1>10 DEF StreamsInv
  <2>2. stream' \in [Clients -> Stream]
    BY <1>1, <1>9, <1>10
  <2> QED BY <1>10, <2>1, <2>2 DEF StreamsInv, Counted
<1>12. /\ Subscribe(c) => s.at = "off" /\ t = [Off EXCEPT !.at = "send"]
       /\ Unsubscribe(c) => t = Off
  BY <1>1, <1>10 DEF Subscribe, Unsubscribe, StreamStep
<1>13. ~Subscribe(c) /\ ~Unsubscribe(c) => s.at # "off"
  BY DEF Get, GetEnds, Sent
<1> QED BY <1>1, <1>3, <1>5, <1>6, <1>7, <1>8, <1>10, <1>11, <1>12, <1>13, OffCounted

-----------------------------------------------------------------------------
(* The inductive invariant *)

\* Ingest requests have readings of their own, and publish what is stored.
RequestsInv ==
  /\ req \in [Requests -> [at: {"idle", "write", "touch", "publish", "ack"},
                           batch: Seq(Readings)]]
  /\ \A p \in Requests :
       /\ req[p].at # "idle" => req[p].batch # <<>>
       /\ ToSet(req[p].batch) \subseteq 1 .. made
       /\ req[p].at \in {"touch", "publish", "ack"} => ToSet(req[p].batch) \subseteq stored
  /\ \A p, q \in Requests : p # q => ToSet(req[p].batch) \cap ToSet(req[q].batch) = {}

\* What is on the connection goes to a bridge that receives; everything there is stored.
LinkInv ==
  /\ bridge \in {"connecting", "subscribing", "receiving", "sleeping"}
  /\ up \in BOOLEAN /\ inTask \in BOOLEAN
  /\ losses \in 0 .. MaxLosses /\ made \in 0 .. MaxReadings
  /\ wire \in Seq(Readings) /\ messages \in Seq(Readings)
  /\ stored \subseteq Readings /\ lost \subseteq Readings
  /\ wire # <<>> => bridge = "receiving" /\ up
  /\ ToSet(wire) \cup ToSet(messages) \subseteq stored

Reaches(c, r) == r \in stream[c].had \cup lost \cup ToSet(messages)
Publishing(p, r) == At(p, "ack") /\ Reading(p) = r

\* A reading that was acknowledged is on its way to everybody, or was lost.
AckedInv ==
  /\ acked \subseteq Readings
  /\ \A r \in acked : /\ \E p \in Requests : Publishing(p, r)
                      /\ \A o \in owed : o[2] = r => Reaches(o[1], r)

\* A reading is owed to live clients only.
OwedInv ==
  /\ owed \subseteq Live \X Readings
  /\ \A o \in owed : \/ Reaches(o[1], o[2])
                     \/ o[2] \in ToSet(wire)
                     \/ \E p \in Requests : Publishing(p, o[2])

TelemetryInv ==
  /\ StreamsInv /\ RequestsInv /\ LinkInv /\ AckedInv /\ OwedInv /\ LiveReadingsAreStored

LEMMA InvInit == ASSUME Init PROVE TelemetryInv
<1>1. StreamsInv
  BY StreamsInit
<1>2. /\ <<>> \in Seq(Readings) /\ ToSet(<<>>) = {} /\ Idle.at = "idle" /\ Idle.batch = <<>>
      /\ Idle \in [at: {"idle", "write", "touch", "publish", "ack"}, batch: Seq(Readings)]
  BY EmptySeq DEF ToSet, Idle
<1>3. RequestsInv /\ LinkInv
  <2>1. \A p \in Requests : req[p] = Idle
    BY DEF Init
  <2>2. req \in [Requests -> [at: {"idle", "write", "touch", "publish", "ack"},
                              batch: Seq(Readings)]]
    BY <1>2 DEF Init
  <2>3. RequestsInv
    BY <1>2, <2>1, <2>2 DEF RequestsInv
  <2>4. LinkInv
    <3>1. /\ bridge = "connecting" /\ up = FALSE /\ losses = 0 /\ made = 0
          /\ wire = <<>> /\ messages = <<>> /\ stored = {} /\ lost = {} /\ inTask \in BOOLEAN
      BY DEF Init
    <3>2. 0 \in 0 .. MaxLosses /\ 0 \in 0 .. MaxReadings
      BY BoundsAssumption
    <3> QED BY <1>2, <3>1, <3>2 DEF LinkInv
  <2> QED BY <2>3, <2>4
<1>4. AckedInv /\ OwedInv
  BY DEF Init, AckedInv, OwedInv
<1>5. LiveReadingsAreStored
  BY OffCounted DEF Init, LiveReadingsAreStored
<1> QED BY <1>1, <1>3, <1>4, <1>5 DEF TelemetryInv

\* The reading a request publishes is one of its batch.
LEMMA ReadingType ==
  ASSUME RequestsInv, NEW p \in Requests, req[p].at # "idle"
  PROVE  /\ Reading(p) \in Readings /\ Reading(p) \in ToSet(req[p].batch)
         /\ Tail(req[p].batch) \in Seq(Readings)
         /\ ToSet(Tail(req[p].batch)) \subseteq ToSet(req[p].batch)
         /\ Len(req[p].batch) # 1 => Tail(req[p].batch) # <<>>
<1>1. req[p].batch \in Seq(Readings) /\ req[p].batch # <<>>
  BY DEF RequestsInv
<1>2. Len(Tail(req[p].batch)) = Len(req[p].batch) - 1 /\ Len(req[p].batch) \in Nat
  BY <1>1, TailElements, LenProperties
<1>3. Len(req[p].batch) # 1 => Tail(req[p].batch) # <<>>
  <2>1. Tail(req[p].batch) = <<>> => Len(Tail(req[p].batch)) = 0
    BY EmptySeq
  <2> QED BY <1>2, <2>1
<1> QED BY <1>1, <1>3, TailElements DEF Reading

-----------------------------------------------------------------------------
(* The steps of clients and of the connection *)

LEMMA ClientKeeps ==
  ASSUME TelemetryInv, NEW c \in Clients,
         Subscribe(c) \/ Get(c) \/ GetEnds(c) \/ Sent(c) \/ Unsubscribe(c)
  PROVE  TelemetryInv'
<1>a. UNCHANGED <<bridge, up, losses, wire, acked, messages, made, stored, lost, req, inTask>>
  BY DEF Subscribe, Get, GetEnds, Sent, Unsubscribe, StreamStep
<1>b. /\ StreamsInv'
      /\ \A d \in Clients : d # c => stream'[d] = stream[d]
      /\ Subscribe(c) => stream[c].at = "off" /\ stream'[c].had = {}
      /\ Unsubscribe(c) => stream'[c].had = {}
      /\ ~Subscribe(c) /\ ~Unsubscribe(c) =>
           stream'[c].had = stream[c].had /\ stream[c].at # "off" /\ stream'[c].at # "off"
  BY ClientStep DEF TelemetryInv
<1>c. owed' = IF Unsubscribe(c) THEN {o \in owed : o[1] # c} ELSE owed
  BY DEF Subscribe, Get, GetEnds, Sent, Unsubscribe
<1>d. owed \subseteq Live \X Readings
  BY DEF TelemetryInv, OwedInv
<1>1. ASSUME NEW o \in owed'
      PROVE  /\ o \in owed /\ o \in Live' \X Readings
             /\ stream'[o[1]].had = stream[o[1]].had
  <2>1. o \in owed /\ o[1] \in Live /\ o[2] \in Readings /\ o = <<o[1], o[2]>>
    BY <1>c, <1>d
  <2>2. CASE o[1] = c
    <3>1. ~Unsubscribe(c)
      BY <1>c, <2>2
    <3>2. ~Subscribe(c)
      BY <1>b, <2>1, <2>2 DEF Live
    <3> QED BY <1>b, <2>1, <2>2, <3>1, <3>2 DEF Live
  <2>3. CASE o[1] # c
    BY <1>b, <2>1, <2>3 DEF Live
  <2> QED BY <2>1, <2>2, <2>3
<1>2. RequestsInv' /\ LinkInv'
  BY <1>a DEF TelemetryInv, RequestsInv, LinkInv
<1>3. AckedInv'
  BY <1>a, <1>1 DEF TelemetryInv, AckedInv, Reaches, Publishing, At, Reading
<1>4. OwedInv'
  BY <1>a, <1>1 DEF TelemetryInv, OwedInv, Reaches, Publishing, At, Reading
<1>5. LiveReadingsAreStored'
  BY <1>a, <1>b DEF TelemetryInv, LiveReadingsAreStored
<1> QED BY <1>b, <1>2, <1>3, <1>4, <1>5 DEF TelemetryInv

\* The bridge connects, subscribes, finds the connection broken, or tries again.
LEMMA ConnectionKeeps ==
  ASSUME TelemetryInv, Connect \/ ConnectFails \/ Subscribed \/ Noticed \/ Retry
  PROVE  TelemetryInv'
<1>1. UNCHANGED <<wire, acked, messages, made, stored, lost, owed, req, stream, inTask>>
  BY DEF Connect, ConnectFails, Subscribed, Noticed, Retry, ConnectionStep
<1>2. /\ bridge' \in {"connecting", "subscribing", "receiving", "sleeping"} /\ up' \in BOOLEAN
      /\ losses' \in 0 .. MaxLosses
      /\ ~(bridge = "receiving" /\ up)
  <2>1. up \in BOOLEAN /\ losses \in 0 .. MaxLosses
    BY DEF TelemetryInv, LinkInv
  <2>2. CASE Connect
    BY <2>1, <2>2 DEF Connect
  <2>3. CASE ConnectFails
    BY <2>1, <2>3, BoundsAssumption DEF ConnectFails
  <2>4. CASE Subscribed
    BY <2>1, <2>4 DEF Subscribed
  <2>5. CASE Noticed
    BY <2>1, <2>5 DEF Noticed
  <2>6. CASE Retry
    BY <2>1, <2>6 DEF Retry
  <2> QED BY <2>2, <2>3, <2>4, <2>5, <2>6
<1>3. RequestsInv' /\ LinkInv'
  BY <1>1, <1>2 DEF TelemetryInv, RequestsInv, LinkInv
<1>4. StreamsInv' /\ LiveReadingsAreStored'
  BY <1>1 DEF TelemetryInv, StreamsInv, Counted, LiveReadingsAreStored
<1>5. AckedInv' /\ OwedInv'
  BY <1>1 DEF TelemetryInv, AckedInv, OwedInv, Reaches, Publishing, At, Reading, Live
<1> QED BY <1>3, <1>4, <1>5 DEF TelemetryInv

\* A message arrives from the broker.
LEMMA ReceiveKeeps == ASSUME TelemetryInv, Receive PROVE TelemetryInv'
<1> DEFINE r == Head(messages)
<1>a. /\ r \in Readings /\ Tail(messages) \in Seq(Readings) /\ r \in ToSet(messages)
      /\ ToSet(messages) = {r} \cup ToSet(Tail(messages))
  BY TailElements DEF Receive, TelemetryInv, LinkInv
<1>b. /\ Dispatch(r) /\ messages' = Tail(messages)
      /\ UNCHANGED <<bridge, up, losses, wire, acked, lost, made, stored, owed, req, inTask>>
  BY DEF Receive, ConnectionStep
<1> HIDE DEF r
<1>c. /\ StreamsInv'
      /\ \A c \in Clients : (c \in Live' <=> c \in Live)
                            /\ stream'[c].had = IF c \in Live THEN stream[c].had \cup {r}
                                                ELSE stream[c].had
  BY <1>a, <1>b, DispatchStep DEF TelemetryInv
<1>d. Live' = Live /\ Live \subseteq Clients
  BY <1>c DEF Live
<1>e. \A c \in Live, i \in Readings : Reaches(c, i) => Reaches(c, i)'
  BY <1>a, <1>b, <1>c, <1>d DEF Reaches
<1>f. \A o \in owed : o[1] \in Live /\ o[2] \in Readings
  BY DEF TelemetryInv, OwedInv
<1>1. RequestsInv' /\ LinkInv'
  BY <1>a, <1>b DEF TelemetryInv, RequestsInv, LinkInv
<1>2. AckedInv'
  <2>1. acked \subseteq Readings
        /\ \A i \in acked : /\ \E p \in Requests : Publishing(p, i)
                            /\ \A o \in owed : o[2] = i => Reaches(o[1], i)
    BY DEF TelemetryInv, AckedInv
  <2>2. \A p \in Requests, i \in Readings : Publishing(p, i) => Publishing(p, i)'
    BY <1>b DEF Publishing, At, Reading
  <2> QED BY <1>b, <1>e, <1>f, <2>1, <2>2 DEF AckedInv
<1>3. OwedInv'
  <2>1. \A o \in owed : \/ Reaches(o[1], o[2])
                        \/ o[2] \in ToSet(wire)
                        \/ \E p \in Requests : Publishing(p, o[2])
    BY DEF TelemetryInv, OwedInv
  <2>2. \A p \in Requests, i \in Readings : Publishing(p, i) => Publishing(p, i)'
    BY <1>b DEF Publishing, At, Reading
  <2>3. owed' \subseteq Live' \X Readings
    BY <1>b, <1>d DEF TelemetryInv, OwedInv
  <2> QED BY <1>b, <1>e, <1>f, <2>1, <2>2, <2>3 DEF OwedInv
<1>4. LiveReadingsAreStored'
  <2>1. r \in stored
    BY <1>a DEF TelemetryInv, LinkInv
  <2> QED BY <1>b, <1>c, <2>1 DEF TelemetryInv, LiveReadingsAreStored
<1> QED BY <1>1, <1>2, <1>3, <1>4, <1>c DEF TelemetryInv

-----------------------------------------------------------------------------
(* The steps of requests *)

RequestAt == [at: {"idle", "write", "touch", "publish", "ack"}, batch: Seq(Readings)]

\* A request goes on with readings of its own, or new ones.
LEMMA RequestsKept ==
  ASSUME RequestsInv, made \in Nat, made' \in Nat, made <= made', stored \subseteq stored',
         NEW p \in Requests, NEW t \in RequestAt, req' = [req EXCEPT ![p] = t],
         t.at # "idle" => t.batch # <<>>,
         ToSet(t.batch) \subseteq 1 .. made',
         t.at \in {"touch", "publish", "ack"} => ToSet(t.batch) \subseteq stored',
         ToSet(t.batch) \subseteq ToSet(req[p].batch) \cup (made + 1 .. made')
  PROVE  RequestsInv' /\ req'[p] = t /\ \A q \in Requests : q # p => req'[q] = req[q]
<1>1. req' \in [Requests -> RequestAt] /\ req'[p] = t
      /\ \A q \in Requests : q # p => req'[q] = req[q]
  BY DEF RequestsInv, RequestAt
<1>2. ASSUME NEW q \in Requests
      PROVE  /\ req'[q].at # "idle" => req'[q].batch # <<>>
             /\ ToSet(req'[q].batch) \subseteq 1 .. made'
             /\ req'[q].at \in {"touch", "publish", "ack"} =>
                  ToSet(req'[q].batch) \subseteq stored'
  <2>1. CASE q = p
    BY <1>1, <2>1
  <2>2. CASE q # p
    <3>1. 1 .. made \subseteq 1 .. made'
      OBVIOUS
    <3> QED BY <1>1, <2>2, <3>1 DEF RequestsInv
  <2> QED BY <2>1, <2>2
<1>3. ASSUME NEW q \in Requests, q # p
      PROVE  ToSet(t.batch) \cap ToSet(req[q].batch) = {}
  <2>1. /\ ToSet(req[q].batch) \subseteq 1 .. made
        /\ ToSet(req[p].batch) \cap ToSet(req[q].batch) = {}
    BY <1>3 DEF RequestsInv
  <2>2. (made + 1 .. made') \cap (1 .. made) = {}
    OBVIOUS
  <2> QED BY <2>1, <2>2
<1>4. \A q, u \in Requests : q # u => ToSet(req'[q].batch) \cap ToSet(req'[u].batch) = {}
  BY <1>1, <1>3 DEF RequestsInv
<1> QED BY <1>1, <1>2, <1>4 DEF RequestsInv, RequestAt

\* Nothing of a request's goes on to the next one.
LEMMA EndKept ==
  /\ Idle \in RequestAt /\ Idle.at = "idle" /\ Idle.batch = <<>> /\ ToSet(<<>>) = {}
BY EmptySeq DEF Idle, RequestAt, ToSet

\* The answer is ready, or the next reading is.
LEMMA PublishedKept ==
  ASSUME TelemetryInv, NEW p \in Requests, req[p].at \in {"publish", "ack"}, Published(p),
         UNCHANGED <<made, stored>>
  PROVE  RequestsInv' /\ req'[p].at # "ack" /\ \A q \in Requests : q # p => req'[q] = req[q]
<1> DEFINE t == IF Len(req[p].batch) = 1 THEN Idle
                ELSE [at |-> "publish", batch |-> Tail(req[p].batch)]
<1>1. RequestsInv /\ req[p] \in RequestAt
  BY DEF TelemetryInv, RequestsInv, RequestAt
<1>2. req[p].at # "idle"
  OBVIOUS
<1>3. /\ Tail(req[p].batch) \in Seq(Readings)
      /\ ToSet(Tail(req[p].batch)) \subseteq ToSet(req[p].batch)
      /\ Len(req[p].batch) # 1 => Tail(req[p].batch) # <<>>
  BY <1>1, <1>2, ReadingType
<1>4. ToSet(req[p].batch) \subseteq 1 .. made /\ ToSet(req[p].batch) \subseteq stored
      /\ made \in Nat
  BY <1>1, BoundsAssumption DEF RequestsInv, TelemetryInv, LinkInv
<1>5. /\ t \in RequestAt /\ t.at \in {"idle", "publish"}
      /\ t.at # "idle" => t.batch # <<>>
      /\ ToSet(t.batch) \subseteq ToSet(req[p].batch)
  <2>1. CASE Len(req[p].batch) = 1
    BY <2>1, EndKept
  <2>2. CASE Len(req[p].batch) # 1
    <3>1. t = [at |-> "publish", batch |-> Tail(req[p].batch)]
      BY <2>2
    <3> HIDE DEF t
    <3> QED BY <1>3, <2>2, <3>1 DEF RequestAt
  <2> QED BY <2>1, <2>2
<1>6. req' = [req EXCEPT ![p] = t]
  BY <1>1 DEF Published
<1> HIDE DEF t
<1>7. RequestsInv' /\ req'[p] = t /\ \A q \in Requests : q # p => req'[q] = req[q]
  <2>1. /\ ToSet(t.batch) \subseteq 1 .. made' /\ ToSet(t.batch) \subseteq stored'
        /\ ToSet(t.batch) \subseteq ToSet(req[p].batch) \cup (made + 1 .. made')
        /\ made \in Nat /\ made' \in Nat /\ made <= made' /\ stored \subseteq stored'
    BY <1>4, <1>5
  <2> QED BY <1>1, <1>5, <1>6, <2>1, RequestsKept
<1> QED BY <1>5, <1>7

\* What changes before a request publishes.
Prepared(p, t) ==
  /\ req' = [req EXCEPT ![p] = t] /\ req[p].at \in {"idle", "write", "touch"}
  /\ made' \in 0 .. MaxReadings /\ made <= made' /\ made' \in Nat
  /\ stored \subseteq stored' /\ stored' \subseteq Readings
  /\ t.at # "idle" => t.batch # <<>>
  /\ ToSet(t.batch) \subseteq 1 .. made'
  /\ t.at \in {"touch", "publish", "ack"} => ToSet(t.batch) \subseteq stored'
  /\ ToSet(t.batch) \subseteq ToSet(req[p].batch) \cup (made + 1 .. made')

\* Before a request publishes: it begins, its readings are stored or not, it ends.
LEMMA PrepareKeeps ==
  ASSUME TelemetryInv, NEW p \in Requests,
         (\E n \in 1 .. MaxBatch : Ingest(p, n)) \/ Write(p) \/ WriteFails(p) \/ Touch(p)
  PROVE  TelemetryInv'
<1>a. UNCHANGED <<bridge, up, losses, wire, acked, messages, lost, owed, stream, inTask>>
  BY DEF Ingest, Write, WriteFails, Touch, InDatabase
<1>b. /\ req \in [Requests -> RequestAt] /\ req[p] \in RequestAt /\ RequestsInv
      /\ req[p].batch \in Seq(Readings) /\ DOMAIN req[p] = {"at", "batch"}
      /\ made \in Nat /\ made \in 0 .. MaxReadings /\ stored \subseteq Readings
      /\ ToSet(req[p].batch) \subseteq 1 .. made /\ ToSet(req[p].batch) \subseteq Readings
  <2>1. made \in Nat /\ made \in 0 .. MaxReadings /\ stored \subseteq Readings
        /\ 1 .. made \subseteq Readings
    BY BoundsAssumption DEF TelemetryInv, LinkInv, Readings
  <2> QED BY <2>1 DEF TelemetryInv, RequestsInv, RequestAt
<1>1. PICK t \in RequestAt : Prepared(p, t)
  <2>1. ASSUME NEW n \in 1 .. MaxBatch, Ingest(p, n)
        PROVE  \E t \in RequestAt : Prepared(p, t)
    <3> DEFINE b == [i \in 1 .. n |-> made + i]
               t == [at |-> "write", batch |-> b]
    <3>1. /\ n \in Nat /\ n >= 1 /\ made' = made + n /\ made' <= MaxReadings /\ stored' = stored
          /\ req' = [req EXCEPT ![p] = t] /\ req[p].at = "idle"
      BY <2>1, <1>b, BoundsAssumption DEF Ingest, At
    <3>2. made' \in 0 .. MaxReadings /\ made <= made' /\ made' \in Nat
      BY <1>b, <3>1, BoundsAssumption
    <3>3. \A i \in 1 .. n : made + i \in Readings /\ made + i \in made + 1 .. made'
                            /\ made + i \in 1 .. made'
      BY <1>b, <3>1, BoundsAssumption DEF Readings
    <3>4. b \in Seq(Readings) /\ Len(b) = n /\ DOMAIN b = 1 .. n
      BY <3>1, <3>3, IsASeq
    <3>5. b # <<>>
      BY <3>1, <3>4
    <3>6. ToSet(b) \subseteq made + 1 .. made' /\ ToSet(b) \subseteq 1 .. made'
      BY <3>3, <3>4 DEF ToSet
    <3> HIDE DEF b
    <3>7. t \in RequestAt /\ t.at = "write" /\ t.batch = b
      BY <3>4 DEF RequestAt
    <3> HIDE DEF t
    <3>8. Prepared(p, t)
      BY <1>b, <3>1, <3>2, <3>5, <3>6, <3>7 DEF Prepared
    <3> QED BY <3>7, <3>8
  <2>2. CASE Write(p)
    <3> DEFINE t == [req[p] EXCEPT !.at = "touch"]
    <3>1. /\ req[p].at = "write" /\ req' = [req EXCEPT ![p] = t] /\ made' = made
          /\ stored' = stored \cup ToSet(req[p].batch)
      BY <2>2, <1>b DEF Write, At, To
    <3>2. t \in RequestAt /\ t.at = "touch" /\ t.batch = req[p].batch
      BY <1>b DEF RequestAt
    <3>3. req[p].batch # <<>>
      BY <1>b, <3>1 DEF RequestsInv
    <3> HIDE DEF t
    <3>4. Prepared(p, t)
      BY <1>b, <3>1, <3>2, <3>3 DEF Prepared
    <3> QED BY <3>2, <3>4
  <2>3. ASSUME req[p].at \in {"write", "touch"}, req' = [req EXCEPT ![p] = Idle], made' = made,
               stored' \in {stored, stored \cup ToSet(req[p].batch)}
        PROVE  \E t \in RequestAt : Prepared(p, t)
    <3>1. Prepared(p, Idle)
      BY <1>b, <2>3, EndKept DEF Prepared
    <3> QED BY <3>1, EndKept
  <2>4. CASE WriteFails(p)
    BY <2>3, <2>4 DEF WriteFails, At, End
  <2>5. CASE Touch(p) /\ End(p)
    BY <2>3, <2>5 DEF Touch, At, End
  <2>6. CASE Touch(p) /\ To(p, "publish")
    <3> DEFINE t == [req[p] EXCEPT !.at = "publish"]
    <3>1. /\ req[p].at = "touch" /\ req' = [req EXCEPT ![p] = t] /\ made' = made
          /\ stored' = stored
      BY <2>6, <1>b DEF Touch, At, To
    <3>2. t \in RequestAt /\ t.at = "publish" /\ t.batch = req[p].batch
      BY <1>b DEF RequestAt
    <3>3. req[p].batch # <<>> /\ ToSet(req[p].batch) \subseteq stored
      BY <1>b, <3>1 DEF RequestsInv
    <3> HIDE DEF t
    <3>4. Prepared(p, t)
      BY <1>b, <3>1, <3>2, <3>3 DEF Prepared
    <3> QED BY <3>2, <3>4
  <2> QED BY <2>1, <2>2, <2>4, <2>5, <2>6 DEF Touch
<1>2. RequestsInv' /\ req'[p] = t /\ \A q \in Requests : q # p => req'[q] = req[q]
  BY <1>b, <1>1, RequestsKept DEF Prepared
<1>3. \A q \in Requests, i \in Readings : Publishing(q, i) => Publishing(q, i)'
  BY <1>1, <1>2 DEF Prepared, Publishing, At, Reading
<1>4. LinkInv'
  BY <1>a, <1>1 DEF Prepared, TelemetryInv, LinkInv
<1>5. StreamsInv' /\ LiveReadingsAreStored'
  BY <1>a, <1>1 DEF Prepared, TelemetryInv, StreamsInv, Counted, LiveReadingsAreStored
<1>6. AckedInv'
  BY <1>a, <1>3 DEF TelemetryInv, AckedInv, Reaches
<1>7. OwedInv'
  <2>1. \A o \in owed : o[2] \in Readings
    BY DEF TelemetryInv, OwedInv
  <2> QED BY <1>a, <1>3, <2>1 DEF TelemetryInv, OwedInv, Reaches, Live
<1> QED BY <1>2, <1>4, <1>5, <1>6, <1>7 DEF TelemetryInv

\* A reading that is owed anew, and what was owed.
LEMMA OweFacts ==
  ASSUME TelemetryInv, NEW r \in Readings, Owe(r)
  PROVE  /\ owed' \subseteq Live \X Readings
         /\ \A o \in owed' : /\ o[1] \in Live /\ o[2] \in Readings
                             /\ o \in owed \/ o[2] = r
BY DEF Owe, TelemetryInv, OwedInv

LEMMA SendKeeps == ASSUME TelemetryInv, NEW p \in Requests, Send(p) PROVE TelemetryInv'
<1>a. /\ RequestsInv /\ req[p].at = "publish" /\ req[p] \in RequestAt
      /\ req \in [Requests -> RequestAt] /\ DOMAIN req[p] = {"at", "batch"}
      /\ made \in Nat
  <2>1. RequestsInv /\ req[p].at = "publish"
    BY DEF Send, At, TelemetryInv
  <2>2. req \in [Requests -> RequestAt]
    BY <2>1 DEF RequestsInv, RequestAt
  <2>3. made \in Nat
    BY BoundsAssumption DEF TelemetryInv, LinkInv
  <2> QED BY <2>1, <2>2, <2>3 DEF RequestAt
<1>0. PICK r \in Readings : r = Reading(p)
  BY <1>a, ReadingType
<1>b. /\ r \in Readings /\ r \in ToSet(req[p].batch) /\ r \in stored
  BY <1>0, <1>a, ReadingType DEF RequestsInv
<1>c. /\ wire' = IF up THEN Append(wire, r) ELSE wire
      /\ bridge = "receiving" /\ Owe(r)
      /\ UNCHANGED <<bridge, up, losses, messages, made, stored, lost, acked, stream, inTask>>
  BY <1>0 DEF Send, Connected, PublishStep
<1>1. RequestsInv' /\ req'[p] = [req[p] EXCEPT !.at = "ack"]
      /\ \A q \in Requests : q # p => req'[q] = req[q]
  <2> DEFINE t == [req[p] EXCEPT !.at = "ack"]
  <2>1. req' = [req EXCEPT ![p] = t] /\ t \in RequestAt /\ t.at = "ack" /\ t.batch = req[p].batch
    BY <1>a DEF Send, To, RequestAt
  <2>2. /\ t.batch # <<>> /\ ToSet(t.batch) \subseteq 1 .. made' /\ ToSet(t.batch) \subseteq stored'
        /\ ToSet(t.batch) \subseteq ToSet(req[p].batch) \cup (made + 1 .. made')
    BY <1>a, <1>c, <2>1 DEF RequestsInv
  <2>9. made' \in Nat /\ made <= made' /\ stored \subseteq stored'
    BY <1>a, <1>c
  <2> HIDE DEF t
  <2>3. RequestsInv' /\ req'[p] = t /\ \A q \in Requests : q # p => req'[q] = req[q]
    BY <1>a, <2>1, <2>2, <2>9, RequestsKept
  <2> QED BY <2>3 DEF t
<1>2. /\ Publishing(p, r)'
      /\ \A q \in Requests : \A i : Publishing(q, i) => Publishing(q, i)'
  BY <1>0, <1>a, <1>1 DEF Publishing, At, Reading
<1>3. LinkInv' /\ ToSet(wire) \subseteq ToSet(wire')
  <2>1. wire \in Seq(Readings) /\ ToSet(wire) \cup ToSet(messages) \subseteq stored
    BY DEF TelemetryInv, LinkInv
  <2>2. /\ wire' \in Seq(Readings) /\ ToSet(wire') \subseteq ToSet(wire) \cup {r}
        /\ ToSet(wire) \subseteq ToSet(wire')
    BY <1>b, <1>c, <2>1, AppendElements
  <2>3. wire' # <<>> => up
    BY <1>c DEF TelemetryInv, LinkInv
  <2> QED BY <1>b, <1>c, <2>1, <2>2, <2>3 DEF TelemetryInv, LinkInv
<1>4. StreamsInv' /\ LiveReadingsAreStored'
  BY <1>c DEF TelemetryInv, StreamsInv, Counted, LiveReadingsAreStored
<1>5. r \notin acked
  <2>1. ASSUME NEW q \in Requests, Publishing(q, r) PROVE FALSE
    <3>1. q # p /\ req[q].at = "ack" /\ Reading(q) = r
      BY <1>a, <2>1 DEF Publishing, At
    <3>2. r \in ToSet(req[q].batch)
      BY <1>a, <3>1, ReadingType
    <3> QED BY <1>a, <1>b, <3>1, <3>2 DEF RequestsInv
  <2> QED BY <2>1 DEF TelemetryInv, AckedInv
<1>6. /\ owed' \subseteq Live \X Readings
      /\ \A o \in owed' : /\ o[1] \in Live /\ o[2] \in Readings
                          /\ o \in owed \/ o[2] = r
  BY <1>b, <1>c, OweFacts
<1>7. \A c, i : Reaches(c, i) <=> Reaches(c, i)'
  BY <1>c DEF Reaches
<1>8. AckedInv'
  BY <1>c, <1>2, <1>5, <1>6, <1>7 DEF TelemetryInv, AckedInv
<1>9. OwedInv'
  <2>1. Live' = Live
    BY <1>c DEF Live
  <2> QED BY <1>2, <1>3, <1>6, <1>7, <2>1 DEF TelemetryInv, OwedInv
<1> QED BY <1>1, <1>3, <1>4, <1>8, <1>9 DEF TelemetryInv

\* The reading of a request goes to the live clients directly.
LEMMA DirectKeeps ==
  ASSUME TelemetryInv, NEW p \in Requests, SendDirectly(p) \/ PublishFails(p)
  PROVE  TelemetryInv'
<1>a. /\ RequestsInv /\ req[p].at \in {"publish", "ack"}
  BY DEF SendDirectly, PublishFails, At, TelemetryInv
<1>0. PICK r \in Readings : r = Reading(p)
  BY <1>a, ReadingType
<1>b. /\ r \in Readings /\ r \in stored
  BY <1>0, <1>a, ReadingType DEF RequestsInv
<1>c. /\ Dispatch(r) /\ Published(p)
      /\ acked' = IF At(p, "ack") THEN acked \ {r} ELSE acked
      /\ Owe(r) \/ (owed' = owed /\ At(p, "ack"))
      /\ UNCHANGED <<bridge, up, losses, messages, made, stored, lost, wire, inTask>>
  BY <1>0 DEF SendDirectly, PublishFails, PublishStep, At
<1>1. RequestsInv' /\ req'[p].at # "ack" /\ \A q \in Requests : q # p => req'[q] = req[q]
  BY <1>a, <1>c, PublishedKept
<1>2. /\ StreamsInv'
      /\ \A c \in Clients : (c \in Live' <=> c \in Live)
                            /\ stream'[c].had = IF c \in Live THEN stream[c].had \cup {r}
                                                ELSE stream[c].had
  BY <1>b, <1>c, DispatchStep DEF TelemetryInv
<1>3. Live' = Live /\ Live \subseteq Clients
  BY <1>2 DEF Live
<1>4. /\ \A c \in Live, i \in Readings : Reaches(c, i) => Reaches(c, i)'
      /\ \A c \in Live : Reaches(c, r)'
  BY <1>2, <1>3, <1>c DEF Reaches
<1>5. \A q \in Requests, i \in Readings : Publishing(q, i) => Publishing(q, i)' \/ (i = r /\ At(p, "ack"))
  <2>1. ASSUME NEW q \in Requests, NEW i \in Readings, Publishing(q, i), q # p
        PROVE  Publishing(q, i)'
    BY <1>1, <2>1 DEF Publishing, At, Reading
  <2>2. \A i : Publishing(p, i) => i = r /\ At(p, "ack")
    BY <1>0 DEF Publishing
  <2> QED BY <2>1, <2>2
<1>6. /\ owed' \subseteq Live \X Readings
      /\ \A o \in owed' : /\ o[1] \in Live /\ o[2] \in Readings
                          /\ o \in owed \/ o[2] = r
  BY <1>b, <1>c, OweFacts DEF TelemetryInv, OwedInv
<1>7. LinkInv'
  BY <1>c DEF TelemetryInv, LinkInv
<1>8. LiveReadingsAreStored'
  BY <1>b, <1>c, <1>2 DEF TelemetryInv, LiveReadingsAreStored
<1>9. AckedInv'
  <2>1. acked \subseteq Readings
        /\ \A i \in acked : /\ \E q \in Requests : Publishing(q, i)
                            /\ \A o \in owed : o[2] = i => Reaches(o[1], i)
    BY DEF TelemetryInv, AckedInv
  <2>2. ASSUME NEW i \in acked'
        PROVE  /\ \E q \in Requests : Publishing(q, i)'
               /\ \A o \in owed' : o[2] = i => Reaches(o[1], i)'
    <3>1. i \in acked /\ i \in Readings /\ (At(p, "ack") => i # r)
      BY <1>c, <2>1
    <3>2. \E q \in Requests : Publishing(q, i)'
      BY <1>5, <2>1, <3>1
    <3>3. \A o \in owed' : o[1] \in Live
      BY <1>6
    <3> QED BY <1>4, <1>6, <2>1, <3>1, <3>2, <3>3
  <2>3. acked' \subseteq Readings
    BY <1>c, <2>1
  <2> QED BY <2>2, <2>3 DEF AckedInv
<1>10. OwedInv'
  <2>1. ASSUME NEW o \in owed'
        PROVE  \/ Reaches(o[1], o[2])'
               \/ o[2] \in ToSet(wire')
               \/ \E q \in Requests : Publishing(q, o[2])'
    <3>1. o[1] \in Live /\ o[2] \in Readings
      BY <1>6
    <3>2. CASE o[2] = r
      BY <1>4, <3>1, <3>2
    <3>3. CASE o[2] # r
      <4>1. \/ Reaches(o[1], o[2])
            \/ o[2] \in ToSet(wire)
            \/ \E q \in Requests : Publishing(q, o[2])
        BY <1>6, <3>3 DEF TelemetryInv, OwedInv
      <4> QED BY <1>c, <1>4, <1>5, <3>1, <3>3, <4>1
    <3> QED BY <3>2, <3>3
  <2> QED BY <1>3, <1>6, <2>1 DEF OwedInv
<1> QED BY <1>1, <1>2, <1>7, <1>8, <1>9, <1>10 DEF TelemetryInv

LEMMA AcknowledgedKeeps ==
  ASSUME TelemetryInv, NEW p \in Requests, Acknowledged(p)
  PROVE  TelemetryInv'
<1>0. PICK r : r = Reading(p)
  OBVIOUS
<1>c. /\ req[p].at = "ack" /\ r \in acked /\ acked' = acked \ {r} /\ Published(p)
      /\ UNCHANGED <<bridge, up, losses, messages, made, stored, lost, wire, owed, stream, inTask>>
  BY <1>0 DEF Acknowledged, PublishStep, At
<1>1. RequestsInv' /\ req'[p].at # "ack" /\ \A q \in Requests : q # p => req'[q] = req[q]
  BY <1>c, PublishedKept
<1>2. \A q \in Requests : \A i : Publishing(q, i) => Publishing(q, i)' \/ i = r
  BY <1>0, <1>1 DEF Publishing, At, Reading
<1>3. \A c, i : Reaches(c, i) <=> Reaches(c, i)'
  BY <1>c DEF Reaches
<1>4. LinkInv' /\ StreamsInv' /\ LiveReadingsAreStored'
  BY <1>c DEF TelemetryInv, LinkInv, StreamsInv, Counted, LiveReadingsAreStored
<1>5. AckedInv'
  BY <1>c, <1>2, <1>3 DEF TelemetryInv, AckedInv
<1>6. OwedInv'
  <2>1. \A o \in owed : o[2] = r => Reaches(o[1], o[2])
    BY <1>c DEF TelemetryInv, AckedInv
  <2>2. Live' = Live
    BY <1>c DEF Live
  <2> QED BY <1>c, <1>2, <1>3, <2>1, <2>2 DEF TelemetryInv, OwedInv
<1> QED BY <1>1, <1>4, <1>5, <1>6 DEF TelemetryInv

-----------------------------------------------------------------------------
(* The steps of the broker and of the network *)

LEMMA BrokerKeeps == ASSUME TelemetryInv, BrokerGets PROVE TelemetryInv'
<1>a. wire \in Seq(Readings) /\ wire # <<>> /\ messages \in Seq(Readings) /\ bridge = "receiving"
      /\ ToSet(wire) \cup ToSet(messages) \subseteq stored
  BY DEF BrokerGets, TelemetryInv, LinkInv
<1>0. PICK r \in Readings : r = Head(wire)
  BY <1>a, TailElements
<1>b. /\ Tail(wire) \in Seq(Readings) /\ r \in ToSet(wire)
      /\ ToSet(wire) = {r} \cup ToSet(Tail(wire))
  BY <1>0, <1>a, TailElements
<1>c. /\ up /\ wire' = Tail(wire) /\ messages' = Append(messages, r)
      /\ acked' = IF \E p \in Requests : Publishing(p, r) THEN acked \cup {r} ELSE acked
      /\ UNCHANGED <<bridge, up, losses, made, stored, lost, owed, req, stream, inTask>>
  BY <1>0, <1>a DEF BrokerGets, Publishing
<1>d. messages' \in Seq(Readings) /\ ToSet(messages') = ToSet(messages) \cup {r}
  BY <1>a, <1>c, AppendElements
<1>1. \A c : \A i : (Reaches(c, i) => Reaches(c, i)') /\ Reaches(c, r)'
  BY <1>c, <1>d DEF Reaches
<1>2. \A p \in Requests : \A i : Publishing(p, i) <=> Publishing(p, i)'
  BY <1>c DEF Publishing, At, Reading
<1>3. RequestsInv' /\ StreamsInv' /\ LiveReadingsAreStored'
  BY <1>c DEF TelemetryInv, RequestsInv, StreamsInv, Counted, LiveReadingsAreStored
<1>4. LinkInv'
  BY <1>a, <1>b, <1>c, <1>d DEF TelemetryInv, LinkInv
<1>5. AckedInv'
  <2>1. ASSUME NEW i \in acked'
        PROVE  /\ \E p \in Requests : Publishing(p, i)'
               /\ \A o \in owed' : o[2] = i => Reaches(o[1], i)'
    <3>1. CASE i \in acked
      BY <1>1, <1>2, <1>c, <3>1 DEF TelemetryInv, AckedInv
    <3>2. CASE i \notin acked
      BY <1>1, <1>2, <1>c, <2>1, <3>2
    <3> QED BY <3>1, <3>2
  <2>2. acked' \subseteq Readings
    BY <1>c DEF TelemetryInv, AckedInv
  <2> QED BY <2>1, <2>2 DEF AckedInv
<1>6. OwedInv'
  <2>1. ASSUME NEW o \in owed
        PROVE  \/ Reaches(o[1], o[2])'
               \/ o[2] \in ToSet(wire')
               \/ \E p \in Requests : Publishing(p, o[2])'
    <3>1. \/ Reaches(o[1], o[2])
          \/ o[2] \in ToSet(wire)
          \/ \E p \in Requests : Publishing(p, o[2])
      BY DEF TelemetryInv, OwedInv
    <3> QED BY <1>1, <1>2, <1>b, <1>c, <3>1
  <2>2. Live' = Live
    BY <1>c DEF Live
  <2> QED BY <1>c, <2>1, <2>2 DEF TelemetryInv, OwedInv
<1> QED BY <1>3, <1>4, <1>5, <1>6 DEF TelemetryInv

\* A message of a device's arrives, or the connection breaks.
LEMMA NetworkKeeps == ASSUME TelemetryInv, DevicePublishes \/ LoseLink PROVE TelemetryInv'
<1>a. /\ wire \in Seq(Readings) /\ messages \in Seq(Readings)
      /\ ToSet(wire) \cup ToSet(messages) \subseteq stored /\ stored \subseteq Readings
      /\ made \in 0 .. MaxReadings /\ made \in Nat /\ losses \in 0 .. MaxLosses
      /\ lost \subseteq Readings
  BY BoundsAssumption DEF TelemetryInv, LinkInv
<1>b. UNCHANGED <<bridge, owed, req, stream, inTask>>
  BY DEF DevicePublishes, LoseLink
<1>1. /\ messages' \in Seq(Readings) /\ wire' \in Seq(Readings)
      /\ ToSet(wire') \subseteq ToSet(wire) /\ ToSet(messages') \subseteq stored'
      /\ stored \subseteq stored' /\ stored' \subseteq Readings /\ lost' \subseteq Readings
      /\ made' \in 0 .. MaxReadings /\ made' \in Nat /\ made <= made'
      /\ losses' \in 0 .. MaxLosses /\ up' \in BOOLEAN
      /\ wire' # <<>> => up' /\ wire' = wire
      /\ acked' \subseteq acked
      /\ ToSet(messages) \subseteq ToSet(messages') \cup lost'
      /\ ToSet(wire) \subseteq ToSet(wire') \cup lost' /\ lost \subseteq lost'
  <2>1. CASE DevicePublishes
    <3>1. made + 1 \in Readings /\ made + 1 \in 0 .. MaxReadings /\ made + 1 \in Nat
          /\ made <= made + 1
      BY <1>a, <2>1, BoundsAssumption DEF DevicePublishes, Readings
    <3>2. /\ messages' \in Seq(Readings)
          /\ ToSet(messages') = ToSet(messages) \cup {made + 1}
      BY <1>a, <2>1, <3>1, AppendElements DEF DevicePublishes
    <3>3. /\ up /\ up' = up /\ wire' = wire /\ losses' = losses /\ acked' = acked
          /\ lost' = lost /\ made' = made + 1 /\ stored' = stored \cup {made + 1}
      BY <2>1 DEF DevicePublishes
    <3> QED BY <1>a, <3>1, <3>2, <3>3
  <2>2. CASE LoseLink
    <3>1. PICK n \in 0 .. Len(messages) :
            /\ messages' = SubSeq(messages, 1, n)
            /\ lost' = lost \cup ToSet(wire) \cup ToSet(SubSeq(messages, n + 1, Len(messages)))
      BY <2>2 DEF LoseLink
    <3>2. /\ messages' \in Seq(Readings)
          /\ ToSet(messages) = ToSet(messages') \cup ToSet(SubSeq(messages, n + 1, Len(messages)))
      BY <1>a, <3>1, SplitElements
    <3>3. <<>> \in Seq(Readings) /\ ToSet(<<>>) = {}
      BY EmptySeq DEF ToSet
    <3>4. losses' \in 0 .. MaxLosses
      BY <1>a, <2>2, BoundsAssumption DEF LoseLink
    <3>5. /\ up' = FALSE /\ wire' = <<>> /\ acked' = {} /\ made' = made /\ stored' = stored
          /\ made <= made
      BY <1>a, <2>2 DEF LoseLink
    <3>6. ToSet(wire) \subseteq lost' /\ ToSet(messages) \subseteq ToSet(messages') \cup lost'
          /\ lost \subseteq lost' /\ lost' \subseteq Readings
      BY <1>a, <3>1, <3>2
    <3> QED BY <1>a, <3>2, <3>3, <3>4, <3>5, <3>6
  <2> QED BY <2>1, <2>2
<1>2. RequestsInv'
  <2>1. 1 .. made \subseteq 1 .. made'
    BY <1>a, <1>1
  <2> QED BY <1>b, <1>1, <2>1 DEF TelemetryInv, RequestsInv
<1>3. LinkInv'
  BY <1>a, <1>b, <1>1 DEF TelemetryInv, LinkInv
<1>4. StreamsInv' /\ LiveReadingsAreStored'
  BY <1>b, <1>1 DEF TelemetryInv, StreamsInv, Counted, LiveReadingsAreStored
<1>5. \A c : \A i : /\ Reaches(c, i) => Reaches(c, i)'
                    /\ i \in ToSet(wire) => i \in ToSet(wire') \/ Reaches(c, i)'
  BY <1>b, <1>1 DEF Reaches
<1>6. \A p \in Requests : \A i : Publishing(p, i) <=> Publishing(p, i)'
  BY <1>b DEF Publishing, At, Reading
<1>7. AckedInv'
  BY <1>b, <1>1, <1>5, <1>6 DEF TelemetryInv, AckedInv
<1>8. OwedInv'
  <2>1. ASSUME NEW o \in owed
        PROVE  \/ Reaches(o[1], o[2])'
               \/ o[2] \in ToSet(wire')
               \/ \E p \in Requests : Publishing(p, o[2])'
    <3>1. \/ Reaches(o[1], o[2])
          \/ o[2] \in ToSet(wire)
          \/ \E p \in Requests : Publishing(p, o[2])
      BY DEF TelemetryInv, OwedInv
    <3> QED BY <1>5, <1>6, <3>1
  <2>2. Live' = Live
    BY <1>b DEF Live
  <2> QED BY <1>b, <2>1, <2>2 DEF TelemetryInv, OwedInv
<1> QED BY <1>2, <1>3, <1>4, <1>7, <1>8 DEF TelemetryInv

LEMMA InvStep == ASSUME TelemetryInv, [Next]_vars PROVE TelemetryInv'
<1>1. CASE UNCHANGED vars
  <2>1. UNCHANGED <<bridge, up, losses, wire, acked, messages, made, stored, lost, owed, req,
                    stream, inTask>>
    BY <1>1 DEF vars
  <2>2. RequestsInv' /\ LinkInv' /\ StreamsInv' /\ LiveReadingsAreStored'
    BY <2>1 DEF TelemetryInv, RequestsInv, LinkInv, StreamsInv, Counted, LiveReadingsAreStored
  <2>3. AckedInv' /\ OwedInv'
    BY <2>1 DEF TelemetryInv, AckedInv, OwedInv, Reaches, Publishing, At, Reading, Live
  <2> QED BY <2>2, <2>3 DEF TelemetryInv
<1>2. ASSUME NEW c \in Clients,
             Subscribe(c) \/ Get(c) \/ GetEnds(c) \/ Sent(c) \/ Unsubscribe(c)
      PROVE  TelemetryInv'
  BY <1>2, ClientKeeps
<1>3. ASSUME NEW p \in Requests, (\E n \in 1 .. MaxBatch : Ingest(p, n)) \/ RequestStep(p)
      PROVE  TelemetryInv'
  BY <1>3, PrepareKeeps, SendKeeps, DirectKeeps, AcknowledgedKeeps DEF RequestStep
<1>4. CASE BridgeStep \/ ConnectFails
  BY <1>4, ConnectionKeeps, ReceiveKeeps DEF BridgeStep
<1>5. CASE BrokerGets \/ DevicePublishes \/ LoseLink
  BY <1>5, BrokerKeeps, NetworkKeeps
<1> QED BY <1>1, <1>2, <1>3, <1>4, <1>5 DEF Next

LEMMA InvAlways == Spec => []TelemetryInv
<1>1. Init => TelemetryInv
  BY InvInit
<1>2. TelemetryInv /\ [Next]_vars => TelemetryInv'
  BY InvStep
<1> QED BY <1>1, <1>2, PTL DEF Spec

-----------------------------------------------------------------------------
(* The theorems *)

\* mqtt.py, routes/telemetry.py: the connection, the requests and the streams keep their
\* types; the queue of a live client never holds more than QUEUE_SIZE readings.
THEOREM TypeCorrect == Spec => []TypeOK
<1>1. ASSUME TelemetryInv PROVE TypeOK
  <2>1. ASSUME NEW c \in Clients
        PROVE  /\ stream[c].at \in {"off", "wait", "got", "send"}
               /\ stream[c].queue \in Seq(Numbered) /\ Len(stream[c].queue) <= QueueSize
               /\ stream[c].held \in Numbered \cup {Nothing}
               /\ {stream[c].dropped, stream[c].reported, stream[c].offers, stream[c].sent}
                    \subseteq Nat
               /\ stream[c].had \subseteq Readings
    <3>1. stream[c] \in Stream /\ Counted(stream[c])
      BY <1>1 DEF TelemetryInv, StreamsInv
    <3> QED BY <3>1 DEF Stream, Counted
  <2>2. owed \subseteq Clients \X Readings
    BY <1>1 DEF TelemetryInv, OwedInv, Live
  <2> QED BY <1>1, <2>1, <2>2 DEF TelemetryInv, RequestsInv, LinkInv, AckedInv, TypeOK
<1> QED BY <1>1, InvAlways, PTL

\* routes/telemetry.py stream_events(): a client is told what it lost before it gets the
\* reading after, however many readings come meanwhile and whatever the size of its queue.
THEOREM LossCorrect == Spec => []LossIsTold
<1>1. ASSUME TelemetryInv PROVE LossIsTold
  <2>1. ASSUME NEW c \in Clients, stream[c].at = "send", stream[c].held # Nothing
        PROVE  LET missing == stream[c].held.pos - 1 - stream[c].sent IN
               /\ missing <= stream[c].reported
               /\ ~inTask => missing = stream[c].reported
    <3>1. stream[c] \in Stream /\ Counted(stream[c])
      BY <1>1 DEF TelemetryInv, StreamsInv
    <3>2. /\ stream[c].held.pos \in Nat /\ stream[c].sent \in Nat /\ stream[c].reported \in Nat
          /\ stream[c].held.pos <= stream[c].sent + stream[c].reported + 1
          /\ ~inTask => stream[c].held.pos = stream[c].sent + stream[c].reported + 1
      BY <2>1, <3>1 DEF Stream, Numbered, Counted
    <3> QED BY <3>2
  <2> QED BY <2>1 DEF LossIsTold
<1> QED BY <1>1, InvAlways, PTL

\* routes/telemetry.py ingest(), mqtt.py publish(): a live client gets every reading that
\* begins to be published while it is there, unless it was lost with a connection.
THEOREM StreamsCorrect == Spec => []PublishedReachesStreams
<1>1. ASSUME TelemetryInv PROVE PublishedReachesStreams
  <2>1. \A o \in owed : \/ Reaches(o[1], o[2])
                        \/ o[2] \in ToSet(wire)
                        \/ \E p \in Requests : Publishing(p, o[2])
    BY <1>1 DEF TelemetryInv, OwedInv
  <2> QED BY <2>1 DEF PublishedReachesStreams, Reaches, Publishing
<1> QED BY <1>1, InvAlways, PTL

\* routes/telemetry.py ingest(): what live clients see is in InfluxDB.
THEOREM StoredCorrect == Spec => []LiveReadingsAreStored
<1>1. TelemetryInv => LiveReadingsAreStored
  BY DEF TelemetryInv
<1> QED BY <1>1, InvAlways, PTL
=============================================================================
