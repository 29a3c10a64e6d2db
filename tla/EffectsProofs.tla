--------------------------- MODULE EffectsProofs ----------------------------
(***************************************************************************)
(* What the audit log tells of calls to services, and which messages are   *)
(* sent, for any users, requests, chats, items, filters and levels of a    *)
(* topic: Effects.tla and Topics.tla proved.  Then Influx.tla proved: what *)
(* a client reads back of what devices sent, for any characters of names,  *)
(* filters and values, any batches and any questions.                      *)
(***************************************************************************)
EXTENDS Effects, Influx, SequenceTheorems, FiniteSetTheorems, WellFoundedInduction, TLAPS

-----------------------------------------------------------------------------
(* Topics: matches() is what MQTT says of a filter *)

\* What a filter is, position by position.
LEMMA FilterFacts ==
  ASSUME NEW f, IsFilter(f)
  PROVE  /\ Len(f) \in Nat \ {0} /\ DOMAIN f = 1 .. Len(f) /\ Head(f) = f[1]
         /\ f \in Seq(Levels \cup {"+", "#"})
         /\ \A i \in 1 .. Len(f) : f[i] = "#" => i = Len(f)
BY DEF IsFilter

LEMMA TopicFacts ==
  ASSUME NEW t \in Seq(Levels), t # <<>>
  PROVE  /\ Len(t) \in Nat \ {0} /\ DOMAIN t = 1 .. Len(t) /\ Head(t) = t[1]
         /\ \A i \in 1 .. Len(t) : t[i] \in Levels /\ t[i] # "#" /\ t[i] # "+"
BY LevelsAssumption

Fitting(f, t, n) == \A i \in 1 .. n : Fits(f[i], t[i])

\* A filter without "#" stands for topics as long as itself.
LEMMA PlainMatches ==
  ASSUME NEW f, IsFilter(f), f[Len(f)] # "#", NEW t \in Seq(Levels), t # <<>>
  PROVE  Matches(f, t) <=> ~OnBroker(f, t) /\ Len(f) = Len(t) /\ Fitting(f, t, Len(f))
<1>1. \A n \in DOMAIN f : f[n] # "#"
  BY FilterFacts
<1> QED BY <1>1, FilterFacts DEF Matches, Fitting

\* One with a "#" matches what begins like it, as long as that or longer.
LEMMA HashMatches ==
  ASSUME NEW f, IsFilter(f), f[Len(f)] = "#", NEW t \in Seq(Levels), t # <<>>
  PROVE  Matches(f, t) <=>
           ~OnBroker(f, t) /\ Len(f) <= Len(t) + 1 /\ Fitting(f, t, Len(f) - 1)
<1>1. ~(Len(f) = Len(t) /\ \A i \in DOMAIN f : Fits(f[i], t[i]))
  BY FilterFacts, TopicFacts DEF Fits
<1>2. \A n \in DOMAIN f : f[n] = "#" <=> n = Len(f)
  BY FilterFacts
<1>3. Len(f) \in DOMAIN f
  BY FilterFacts
<1> QED BY <1>1, <1>2, <1>3 DEF Matches, Fitting

Plain(g) == {t \in [DOMAIN g -> Levels] : \A i \in DOMAIN g : g[i] # "+" => t[i] = g[i]}
Rest(n) == UNION {[1 .. m -> Levels] : m \in 0 .. n}

LEMMA CoveredIs ==
  ASSUME NEW f, NEW t, NEW n
  PROVE  t \in Covered(f, n) <=>
           /\ \/ /\ f[Len(f)] = "#"
                 /\ \E p \in Plain(SubSeq(f, 1, Len(f) - 1)), rest \in Rest(n) : t = p \o rest
              \/ (f[Len(f)] # "#" /\ t \in Plain(f))
           /\ Len(t) \in 1 .. n /\ (Head(t) \in Dollar => Head(f) = Head(t))
<1> DEFINE hashed == {p \o rest : p \in Plain(SubSeq(f, 1, Len(f) - 1)), rest \in Rest(n)}
           all == IF f[Len(f)] = "#" THEN hashed ELSE Plain(f)
<1>1. Covered(f, n) = {s \in all : Len(s) \in 1 .. n /\ (Head(s) \in Dollar => Head(f) = Head(s))}
  BY DEF Covered, Plain, Rest
<1>2. t \in hashed <=>
        \E p \in Plain(SubSeq(f, 1, Len(f) - 1)), rest \in Rest(n) : t = p \o rest
  OBVIOUS
<1>3. t \in all <=> \/ (f[Len(f)] = "#" /\ t \in hashed)
                   \/ (f[Len(f)] # "#" /\ t \in Plain(f))
  OBVIOUS
<1> HIDE DEF hashed, all
<1> QED BY <1>1, <1>2, <1>3

LEMMA InPlain ==
  ASSUME NEW k \in Nat, NEW g, DOMAIN g = 1 .. k, NEW t \in [1 .. k -> Levels]
  PROVE  t \in Plain(g) <=> Fitting(g, t, k)
BY DEF Plain, Fitting, Fits

\* A topic of the broker needs its own first level in the filter.
LEMMA BrokersOwn ==
  ASSUME NEW f, IsFilter(f), NEW t \in Seq(Levels), t # <<>>, Fits(f[1], t[1]) \/ f[1] = "#"
  PROVE  ~OnBroker(f, t) <=> (Head(t) \in Dollar => Head(f) = Head(t))
BY FilterFacts, TopicFacts, LevelsAssumption DEF OnBroker, Fits

LEMMA PlainCovers ==
  ASSUME NEW f, IsFilter(f), f[Len(f)] # "#", NEW t \in Seq(Levels), t # <<>>,
         NEW n \in Nat, Len(t) <= n
  PROVE  Matches(f, t) <=> t \in Covered(f, n)
<1>1. /\ Len(f) \in Nat \ {0} /\ DOMAIN f = 1 .. Len(f)
      /\ Len(t) \in Nat \ {0} /\ DOMAIN t = 1 .. Len(t) /\ t \in [1 .. Len(t) -> Levels]
      /\ Len(t) \in 1 .. n
  BY FilterFacts, TopicFacts
<1>2. t \in Plain(f) <=> Len(f) = Len(t) /\ Fitting(f, t, Len(f))
  <2>1. CASE Len(f) = Len(t)
    BY <1>1, <2>1, InPlain
  <2>2. CASE Len(f) # Len(t)
    <3>1. DOMAIN f # DOMAIN t
      <4>1. \A i, j \in Nat \ {0} : 1 .. i = 1 .. j => i = j
        <5>1. ASSUME NEW i \in Nat \ {0}, NEW j \in Nat \ {0}, 1 .. i = 1 .. j
              PROVE  i = j
          <6>1. i \in 1 .. j /\ j \in 1 .. i
            BY <5>1
          <6> QED BY <6>1
        <5> QED BY <5>1
      <4>2. 1 .. Len(f) = 1 .. Len(t) => Len(f) = Len(t)
        BY <1>1, <4>1, Zenon
      <4> QED BY <1>1, <2>2, <4>2
    <3> QED BY <2>2, <3>1 DEF Plain
  <2> QED BY <2>1, <2>2
<1>3. Fitting(f, t, Len(f)) => Fits(f[1], t[1])
  BY <1>1 DEF Fitting
<1> QED BY <1>1, <1>2, <1>3, PlainMatches, CoveredIs, BrokersOwn

LEMMA HashCovers ==
  ASSUME NEW f, IsFilter(f), f[Len(f)] = "#", NEW t \in Seq(Levels), t # <<>>,
         NEW n \in Nat, Len(t) <= n
  PROVE  Matches(f, t) <=> t \in Covered(f, n)
<1> DEFINE k == Len(f) - 1
           m == Len(t)
           g == SubSeq(f, 1, k)
<1>1. /\ k \in Nat /\ Len(f) = k + 1 /\ DOMAIN f = 1 .. k + 1
      /\ f \in Seq(Levels \cup {"+", "#"})
      /\ m \in Nat \ {0} /\ DOMAIN t = 1 .. m /\ t \in [1 .. m -> Levels] /\ m \in 1 .. n
  BY FilterFacts, TopicFacts
<1>2. DOMAIN g = 1 .. k /\ \A i \in 1 .. k : g[i] = f[i]
  <2>1. k <= Len(f)
    BY <1>1
  <2> QED BY <1>1, <2>1
<1> HIDE DEF k, m, g
<1>3. k <= m /\ Fitting(f, t, k) <=> \E p \in Plain(g), rest \in Rest(n) : t = p \o rest
  <2>1. ASSUME k <= m, Fitting(f, t, k)
        PROVE  \E p \in Plain(g), rest \in Rest(n) : t = p \o rest
    <3> DEFINE p == SubSeq(t, 1, k)
               rest == SubSeq(t, k + 1, m)
    <3>a. \A i \in 1 .. m : t[i] \in Levels
      BY <1>1
    <3>1. p \in [1 .. k -> Levels] /\ \A i \in 1 .. k : p[i] = t[i]
      <4>1. p = [i \in 1 .. k |-> t[i]]
        BY <1>1 DEF m
      <4>2. \A i \in 1 .. k : i \in 1 .. m
        BY <1>1, <2>1
      <4> HIDE DEF p
      <4> QED BY <3>a, <4>1, <4>2
    <3>2. rest \in [1 .. m - k -> Levels] /\ m - k \in 0 .. n
      <4>1. rest = [i \in 1 .. m - k |-> t[i + k]]
        BY <1>1, <2>1 DEF m
      <4>2. \A i \in 1 .. m - k : i + k \in 1 .. m
        BY <1>1, <2>1
      <4>3. m - k \in 0 .. n
        BY <1>1, <2>1
      <4> HIDE DEF rest
      <4> QED BY <3>a, <4>1, <4>2, <4>3
    <3>3. t = p \o rest
      <4>1. /\ 1 \in 1 .. Len(t) + 1 /\ k \in 1 - 1 .. Len(t) /\ m \in k .. Len(t)
        BY <1>1, <2>1 DEF m
      <4>2. p \o rest = SubSeq(t, 1, m)
        BY <4>1, ConcatAdjacentSubSeq
      <4> QED BY <4>2, SubSeqFull DEF m
    <3> HIDE DEF p, rest
    <3>4. p \in Plain(g)
      BY <1>1, <1>2, <2>1, <3>1, InPlain DEF Fitting
    <3>5. rest \in Rest(n)
      BY <3>2 DEF Rest
    <3> QED BY <3>3, <3>4, <3>5
  <2>2. ASSUME NEW p \in Plain(g), NEW rest \in Rest(n), t = p \o rest
        PROVE  k <= m /\ Fitting(f, t, k)
    <3>1. p \in [1 .. k -> Levels]
      BY <1>2 DEF Plain
    <3>2. PICK j \in 0 .. n : rest \in [1 .. j -> Levels]
      BY DEF Rest
    <3>3. p \in Seq(Levels) /\ Len(p) = k /\ rest \in Seq(Levels) /\ Len(rest) = j /\ j \in Nat
      BY <1>1, <3>1, <3>2, SeqDef
    <3>4. m = k + j /\ \A i \in 1 .. k : t[i] = p[i]
      <4>1. /\ Len(t) = Len(p) + Len(rest)
            /\ \A i \in 1 .. Len(p) + Len(rest) :
                 t[i] = IF i <= Len(p) THEN p[i] ELSE rest[i - Len(p)]
        BY <2>2, <3>3, ConcatProperties
      <4>2. \A i \in 1 .. k : i \in 1 .. Len(p) + Len(rest) /\ i <= Len(p)
        BY <1>1, <3>3
      <4> QED BY <3>3, <4>1, <4>2 DEF m
    <3>5. Fitting(g, p, k)
      BY <1>1, <1>2, <3>1, InPlain
    <3>6. Fitting(f, t, k)
      BY <1>2, <3>4, <3>5 DEF Fitting
    <3> QED BY <1>1, <3>3, <3>4, <3>6
  <2> QED BY <2>1, <2>2
<1>4. k <= m /\ Fitting(f, t, k) => Fits(f[1], t[1]) \/ f[1] = "#"
  <2>1. CASE k = 0
    BY <1>1, <2>1
  <2>2. CASE k # 0
    BY <1>1, <2>2 DEF Fitting
  <2> QED BY <2>1, <2>2
<1>5. Matches(f, t) <=> ~OnBroker(f, t) /\ k <= m /\ Fitting(f, t, k)
  BY <1>1, HashMatches DEF k, m
<1>6. t \in Covered(f, n) <=>
        /\ \E p \in Plain(g), rest \in Rest(n) : t = p \o rest
        /\ Head(t) \in Dollar => Head(f) = Head(t)
  BY <1>1, CoveredIs DEF k, m, g
<1> QED BY <1>3, <1>4, <1>5, <1>6, BrokersOwn

\* topics.py: matches() holds of the topics that MQTT says a filter stands for, and no others.
THEOREM MatchesCorrect ==
  ASSUME NEW f, IsFilter(f), NEW t \in Seq(Levels), t # <<>>, NEW n \in Nat, Len(t) <= n
  PROVE  Matches(f, t) <=> t \in Covered(f, n)
BY PlainCovers, HashCovers

-----------------------------------------------------------------------------
(* Calls and the log *)

Steps == {"idle", "sent", "record"}
Request == [at: Steps, call: Calls \cup {NoCall}]
Reply == [n: Nat \ {0}, reply: {"ok", "no JSON", "refused", "not found"}]

\* The calls that still matter: on the network, carried out, recorded, or of a request.
Known == net \cup done \cup log \cup {req[p].call : p \in {q \in Requests : ~At(q, "idle")}}

TypeInv ==
  /\ settings \in Settings /\ made \in 0 .. MaxCalls
  /\ req \in [Requests -> Request] /\ \A p \in Requests : At(p, "idle") => req[p] = Idle
  /\ replies \subseteq Reply
  /\ linked \subseteq Chats /\ told \subseteq 1 .. made

\* A number is of one call, and was given out.
KnownInv ==
  /\ \A c \in Known : c \in Calls /\ c.n <= made
  /\ \A c, d \in Known : c.n = d.n => c = d

\* A success that is on its way or to be recorded is of a call that was carried out.
SuccessInv ==
  /\ \A r \in replies : r.n <= made /\ (r.reply \notin Failures => r.n \in Numbers(done))
  /\ \A p \in Requests : At(p, "record") => req[p].call.qos = 0 \/ req[p].call \in done

EffectsInv == TypeInv /\ KnownInv /\ SuccessInv /\ LogTellsWhatHappened

LEMMA CallFacts ==
  ASSUME NEW c \in Calls
  PROVE  c.n \in 1 .. MaxCalls /\ c.qos \in {0, 1} /\ c # NoCall
BY DEF Calls, NoCall

LEMMA EffectsStart == ASSUME Init PROVE EffectsInv
<1>1. Idle \in Request
  BY DEF Idle, Request, Steps
<1>2. TypeInv
  BY <1>1, BoundAssumption DEF Init, TypeInv, Idle
<1>3. Known = {}
  BY DEF Init, Known, At, Idle
<1>4. SuccessInv /\ LogTellsWhatHappened
  BY DEF Init, SuccessInv, LogTellsWhatHappened, At, Idle
<1> QED BY <1>2, <1>3, <1>4 DEF EffectsInv, KnownInv

\* A step that makes nothing new known keeps the numbers apart.
LEMMA KnownKept ==
  ASSUME KnownInv, TypeInv, Known' \subseteq Known, UNCHANGED made
  PROVE  KnownInv'
BY DEF KnownInv, TypeInv

LEMMA NewCallType ==
  ASSUME TypeInv, made < MaxCalls, NEW u \in Users, NEW a \in Actions, NEW t \in Target(a),
         NEW q \in {0, 1}
  PROVE  NewCall(u, a, t, q) \in Calls /\ NewCall(u, a, t, q).n = made + 1
<1>1. made + 1 \in 1 .. MaxCalls
  BY BoundAssumption DEF TypeInv
<1>2. NewCall(u, a, t, q) \in [n: 1 .. MaxCalls, user: Users, action: {a}, target: Target(a),
                              qos: {0, 1}]
  BY <1>1 DEF NewCall
<1> QED BY <1>2 DEF Calls, NewCall

LEMMA CallStep ==
  ASSUME EffectsInv, NEW p \in Requests, NEW u \in Users, NEW a \in Actions,
         NEW t \in Target(a), NEW q \in {0, 1}, Call(p, u, a, t, q)
  PROVE  EffectsInv'
<1> DEFINE call == NewCall(u, a, t, q)
           n == made + 1
<1>1. TypeInv /\ KnownInv /\ SuccessInv /\ LogTellsWhatHappened
  BY DEF EffectsInv
<1>2. /\ At(p, "idle") /\ made < MaxCalls /\ made' = n /\ net' = net \cup {call}
      /\ req' = [req EXCEPT ![p] = [at |-> "sent", call |-> call]]
      /\ UNCHANGED <<settings, replies, linked, done, log, told>>
  BY DEF Call
<1>3. call \in Calls /\ call.n = n
  BY <1>1, <1>2, NewCallType
<1> HIDE DEF call
<1>4. made \in Nat /\ n \in Nat /\ n \in 0 .. MaxCalls /\ made < n
  BY <1>1, <1>2, BoundAssumption DEF TypeInv
<1> HIDE DEF n
<1>5. /\ req'[p] = [at |-> "sent", call |-> call]
      /\ \A o \in Requests : o # p => req'[o] = req[o]
  BY <1>1, <1>2 DEF TypeInv
<1>6. TypeInv'
  <2>1. [at |-> "sent", call |-> call] \in Request
    BY <1>3 DEF Request, Steps
  <2>2. req' \in [Requests -> Request]
    BY <1>1, <1>2, <2>1 DEF TypeInv
  <2>3. \A o \in Requests : At(o, "idle")' => req'[o] = Idle
    BY <1>1, <1>5 DEF TypeInv, At
  <2>4. told' \subseteq 1 .. made'
    BY <1>1, <1>2, <1>4 DEF TypeInv
  <2> QED BY <1>1, <1>2, <1>4, <2>2, <2>3, <2>4 DEF TypeInv
<1>7. Known' \subseteq Known \cup {call}
  BY <1>2, <1>5 DEF Known, At
<1>8. KnownInv'
  <2>1. \A c \in Known : c \in Calls /\ c.n <= n /\ c.n # n
    BY <1>1, <1>4, CallFacts DEF KnownInv
  <2> QED BY <1>1, <1>2, <1>3, <1>4, <1>7, <2>1 DEF KnownInv
<1>9. SuccessInv'
  <2>1. \A r \in replies : r.n <= made'
    <3>1. ASSUME NEW r \in replies
          PROVE  r.n <= n
      <4>1. r.n \in Nat /\ r.n <= made
        BY <1>1 DEF SuccessInv, TypeInv, Reply
      <4> QED BY <1>4, <4>1
    <3> QED BY <1>2, <3>1
  <2> QED BY <1>1, <1>2, <1>5, <2>1 DEF SuccessInv, At, Numbers
<1>10. LogTellsWhatHappened'
  BY <1>1, <1>2 DEF LogTellsWhatHappened, Numbers
<1> QED BY <1>6, <1>8, <1>9, <1>10 DEF EffectsInv

\* A request that is over, or moves on with its call.
LEMMA RequestStep ==
  ASSUME EffectsInv, NEW p \in Requests, ~At(p, "idle"), NEW new \in {Idle, [req[p] EXCEPT !.at = "record"]},
         req' = [req EXCEPT ![p] = new], replies' \subseteq replies, net' = net, Progress,
         new.at = "record" => req[p].call.qos = 0 \/ req[p].call \in done,
         \/ UNCHANGED <<log, told>>
         \/ /\ At(p, "record")
            /\ log' = log \cup {req[p].call} /\ told' = told \cup {req[p].call.n}
  PROVE  EffectsInv'
<1>1. /\ TypeInv /\ KnownInv /\ SuccessInv /\ LogTellsWhatHappened
      /\ UNCHANGED <<settings, made, linked, done>>
  BY DEF EffectsInv, Progress
<1>2. req'[p] = new /\ \A o \in Requests : o # p => req'[o] = req[o]
  BY <1>1 DEF TypeInv
<1>3. /\ req[p].call \in Known /\ req[p].call \in Calls /\ req[p].call.n \in 1 .. made
      /\ req[p] \in Request
  <2>1. req[p].call \in Known /\ req[p] \in Request
    BY <1>1 DEF Known, TypeInv
  <2>2. req[p].call \in Calls /\ req[p].call.n <= made
    BY <1>1, <2>1 DEF KnownInv
  <2> QED BY <1>1, <2>1, <2>2, CallFacts, BoundAssumption DEF TypeInv
<1>4. new = Idle \/ (new.at = "record" /\ new.call = req[p].call)
  BY <1>3 DEF Request
<1>5. new \in Request
  BY <1>3 DEF Request, Steps, Idle
<1>6. TypeInv'
  <2>1. req' \in [Requests -> Request]
    BY <1>1, <1>5 DEF TypeInv
  <2>2. \A o \in Requests : At(o, "idle")' => req'[o] = Idle
    BY <1>1, <1>2, <1>4 DEF TypeInv, At
  <2>3. told' \subseteq 1 .. made'
    BY <1>1, <1>3 DEF TypeInv
  <2> QED BY <1>1, <2>1, <2>2, <2>3 DEF TypeInv
<1>7. Known' \subseteq Known
  <2>1. \A o \in Requests : ~At(o, "idle")' => ~At(o, "idle") /\ req'[o].call = req[o].call
    BY <1>2, <1>4 DEF At, Idle
  <2>2. net' = net /\ done' = done /\ log' \subseteq log \cup {req[p].call}
    BY <1>1
  <2> QED BY <1>3, <2>1, <2>2 DEF Known
<1>8. KnownInv'
  BY <1>1, <1>7, KnownKept
<1>9. SuccessInv'
  <2>1. \A r \in replies' : r.n <= made' /\ (r.reply \notin Failures => r.n \in Numbers(done'))
    BY <1>1 DEF SuccessInv
  <2>2. \A o \in Requests : At(o, "record")' => req'[o].call.qos = 0 \/ req'[o].call \in done'
    BY <1>1, <1>2, <1>4 DEF SuccessInv, At, Idle
  <2> QED BY <2>1, <2>2 DEF SuccessInv, Numbers
<1>10. LogTellsWhatHappened'
  BY <1>1 DEF LogTellsWhatHappened, Numbers, SuccessInv
<1> QED BY <1>6, <1>8, <1>9, <1>10 DEF EffectsInv

LEMMA AnswerStep ==
  ASSUME EffectsInv, NEW p \in Requests,
         \/ Succeeded(p) \/ Failed(p) \/ Written(p) \/ TimesOut(p)
         \/ Record(p) \/ RecordFails(p)
  PROVE  EffectsInv'
<1>1. TypeInv /\ KnownInv /\ SuccessInv
  BY DEF EffectsInv
<1>2. Idle.at = "idle"
  BY DEF Idle
<1>3. CASE Succeeded(p)
  <2>1. PICK r \in replies : r.n = req[p].call.n /\ r.reply \notin Failures
    BY <1>3 DEF Succeeded
  <2>2. PICK c \in done : c.n = req[p].call.n
    BY <1>1, <2>1 DEF SuccessInv, Numbers
  <2>3. c \in Known /\ req[p].call \in Known /\ ~At(p, "idle")
    BY <1>3 DEF Succeeded, Known, At
  <2>4. req[p].call \in done
    BY <1>1, <2>2, <2>3 DEF KnownInv
  <2>5. req' = [req EXCEPT ![p] = [req[p] EXCEPT !.at = "record"]]
    BY <1>3 DEF Succeeded
  <2> QED BY <1>3, <2>3, <2>4, <2>5, RequestStep DEF Succeeded
<1>4. CASE Failed(p) \/ TimesOut(p) \/ RecordFails(p)
  <2>1. /\ ~At(p, "idle") /\ req' = [req EXCEPT ![p] = Idle] /\ replies' \subseteq replies
        /\ net' = net /\ UNCHANGED <<log, told>> /\ Progress
    BY <1>4 DEF Failed, TimesOut, RecordFails, Over, At
  <2> QED BY <1>2, <2>1, RequestStep
<1>5. CASE Written(p)
  <2>1. ~At(p, "idle") /\ req' = [req EXCEPT ![p] = [req[p] EXCEPT !.at = "record"]]
    BY <1>5 DEF Written, At
  <2> QED BY <1>5, <2>1, RequestStep DEF Written
<1>6. CASE Record(p)
  <2>1. /\ ~At(p, "idle") /\ At(p, "record") /\ req' = [req EXCEPT ![p] = Idle]
        /\ replies' \subseteq replies
    BY <1>6 DEF Record, Over, At
  <2> QED BY <1>2, <1>6, <2>1, RequestStep DEF Record
<1> QED BY <1>3, <1>4, <1>5, <1>6

\* The network, the services and a process that is killed.
LEMMA ServiceStep ==
  ASSUME EffectsInv,
         \/ \E call \in net : Handle(call) \/ Lose(call)
         \/ \E c \in Chats : Link(c)
         \/ Restart
  PROVE  EffectsInv'
<1>1. TypeInv /\ KnownInv /\ SuccessInv /\ LogTellsWhatHappened
  BY DEF EffectsInv
<1>2. ASSUME NEW call \in net, Handle(call)
      PROVE  EffectsInv'
  <2>1. PICK a \in Answers(call) :
          /\ replies' \subseteq replies \cup {[n |-> call.n, reply |-> a]}
          /\ done' = IF a \in {"ok", "no JSON"} THEN done \cup {call} ELSE done
          /\ linked' \subseteq linked
    BY <1>2 DEF Handle
  <2>2. net' \subseteq net /\ UNCHANGED <<settings, made, req, log, told>>
    BY <1>2 DEF Handle
  <2>3. call \in Calls /\ call \in Known /\ call.n \in Nat \ {0} /\ call.n <= made
    BY <1>1, CallFacts, BoundAssumption DEF Known, KnownInv
  <2>4. a \in {"ok", "no JSON", "refused", "not found"}
    BY DEF Answers
  <2>5. TypeInv'
    <3>1. [n |-> call.n, reply |-> a] \in Reply
      BY <2>3, <2>4 DEF Reply
    <3> QED BY <1>1, <2>1, <2>2, <3>1 DEF TypeInv, At
  <2>6. Known' \subseteq Known
    BY <2>1, <2>2, <2>3 DEF Known, At
  <2>7. KnownInv'
    BY <1>1, <2>2, <2>6, KnownKept
  <2>8. done \subseteq done' /\ (a \notin Failures => call \in done')
    BY <2>1, <2>4 DEF Failures
  <2>9. SuccessInv'
    <3>1. ASSUME NEW r \in replies'
          PROVE  r.n <= made /\ (r.reply \notin Failures => r.n \in Numbers(done'))
      <4>1. CASE r \in replies
        BY <1>1, <2>8, <4>1 DEF SuccessInv, Numbers
      <4>2. CASE r = [n |-> call.n, reply |-> a]
        BY <2>3, <2>8, <4>2 DEF Numbers
      <4> QED BY <2>1, <4>1, <4>2
    <3> QED BY <1>1, <2>2, <2>8, <3>1 DEF SuccessInv, At, Numbers
  <2>10. LogTellsWhatHappened'
    BY <1>1, <2>2, <2>8 DEF LogTellsWhatHappened, Numbers
  <2> QED BY <2>5, <2>7, <2>9, <2>10 DEF EffectsInv
<1>3. ASSUME NEW call \in net, Lose(call)
      PROVE  EffectsInv'
  <2>1. /\ net' \subseteq net
        /\ UNCHANGED <<settings, made, req, replies, linked, done, log, told>>
    BY <1>3 DEF Lose
  <2>2. Known' \subseteq Known
    BY <2>1 DEF Known, At
  <2> QED BY <1>1, <2>1, <2>2, KnownKept
          DEF EffectsInv, TypeInv, SuccessInv, LogTellsWhatHappened, At, Numbers
<1>4. ASSUME NEW c \in Chats, Link(c)
      PROVE  EffectsInv'
  <2>1. /\ linked' \subseteq Chats
        /\ UNCHANGED <<settings, made, req, net, replies, done, log, told>>
    BY <1>1, <1>4 DEF Link, TypeInv
  <2>2. Known' \subseteq Known
    BY <2>1 DEF Known, At
  <2> QED BY <1>1, <2>1, <2>2, KnownKept
          DEF EffectsInv, TypeInv, SuccessInv, LogTellsWhatHappened, At, Numbers
<1>5. CASE Restart
  <2>1. /\ settings' \in Settings /\ req' = [p \in Requests |-> Idle] /\ replies' = {}
        /\ UNCHANGED <<made, net, linked, done, log, told>>
    BY <1>5 DEF Restart
  <2>2. \A p \in Requests : req'[p] = Idle /\ Idle.at = "idle" /\ Idle \in Request
    BY <2>1 DEF Idle, Request, Steps
  <2>3. Known' \subseteq Known
    BY <2>1, <2>2 DEF Known, At
  <2>4. KnownInv'
    BY <1>1, <2>1, <2>3, KnownKept
  <2>5. TypeInv' /\ SuccessInv' /\ LogTellsWhatHappened'
    BY <1>1, <2>1, <2>2 DEF TypeInv, SuccessInv, LogTellsWhatHappened, At, Numbers
  <2> QED BY <2>4, <2>5 DEF EffectsInv
<1> QED BY <1>2, <1>3, <1>4, <1>5

LEMMA EffectsStep == ASSUME EffectsInv, [Next]_vars PROVE EffectsInv'
<1>1. ASSUME NEW p \in Requests, NEW u \in Users,
             \/ \E t \in Topic, qos \in {0, 1} : Publish(p, u, t, qos)
             \/ \E i \in Items : Act(p, u, i)
             \/ MakeCode(p, u)
             \/ \E c \in Chats : Unlink(p, u, c)
      PROVE  EffectsInv'
  BY <1>1, CallStep DEF Publish, Act, MakeCode, Unlink, Actions, Target
<1>2. CASE UNCHANGED vars
  BY <1>2 DEF vars, EffectsInv, TypeInv, KnownInv, Known, SuccessInv, LogTellsWhatHappened, At,
              Numbers
<1> QED BY <1>1, <1>2, AnswerStep, ServiceStep DEF Next

LEMMA EffectsAlways == Spec => []EffectsInv
<1>1. Init => EffectsInv
  BY EffectsStart
<1>2. EffectsInv /\ [Next]_vars => EffectsInv'
  BY EffectsStep
<1> QED BY <1>1, <1>2, PTL DEF Spec

\* The values of the requests, the network, the services and the log: Effects' type invariant.
THEOREM TypeCorrect == Spec => []TypeOK
<1>1. ASSUME EffectsInv
      PROVE  TypeOK
  <2>1. TypeInv /\ KnownInv /\ SuccessInv
    BY <1>1 DEF EffectsInv
  <2>2. \A p \in Requests : \/ req[p] = Idle
                            \/ req[p].at \in {"sent", "record"} /\ req[p].call \in Calls
    <3>1. ASSUME NEW p \in Requests, req[p] # Idle
          PROVE  req[p].at \in {"sent", "record"} /\ req[p].call \in Calls
      <4>1. req[p].at \in {"sent", "record"} /\ ~At(p, "idle")
        BY <2>1, <3>1 DEF TypeInv, Request, Steps, At
      <4>2. req[p].call \in Known
        BY <4>1 DEF Known
      <4> QED BY <2>1, <4>1, <4>2 DEF KnownInv
    <3> QED BY <3>1
  <2>3. net \subseteq Calls /\ done \subseteq Calls /\ log \subseteq Calls
        /\ \A c, d \in net \cup done \cup log : c.n = d.n => c = d
    BY <2>1 DEF KnownInv, Known
  <2>4. replies \subseteq [n: 1 .. made, reply: {"ok", "no JSON", "refused", "not found"}]
    <3>1. ASSUME NEW r \in replies
          PROVE  r \in [n: 1 .. made, reply: {"ok", "no JSON", "refused", "not found"}]
      <4>1. r \in Reply /\ r.n <= made /\ made \in Nat
        BY <2>1, <3>1, BoundAssumption DEF TypeInv, SuccessInv
      <4>2. r.n \in Nat \ {0}
        BY <4>1 DEF Reply
      <4>3. r.n \in 1 .. made
        BY <4>1, <4>2
      <4> QED BY <4>1, <4>3 DEF Reply
    <3> QED BY <3>1
  <2> QED BY <2>1, <2>2, <2>3, <2>4 DEF TypeOK, TypeInv
<1> QED BY <1>1, EffectsAlways, PTL

\* routes/mqtt.py, feed.py, chats.py: each entry of the audit log is of a call that was carried
\* out, and each call answered with success has one.
THEOREM LogCorrect == Spec => []LogTellsWhatHappened
<1>1. EffectsInv => LogTellsWhatHappened
  BY DEF EffectsInv
<1> QED BY <1>1, EffectsAlways, PTL

\* routes/mqtt.py: no message goes out under a topic that a deny filter stands for, or no allow
\* filter does.
THEOREM DeniedCorrect == Spec => DeniedIsNotSent
<1>1. ASSUME EffectsInv, [Next]_vars, NEW call \in net' \ net, call.action = "mqtt.publish"
      PROVE  /\ \A f \in settings.deny : call.target \notin Covered(f, MaxLevels)
             /\ \E f \in settings.allow : call.target \in Covered(f, MaxLevels)
  <2>1. PICK p \in Requests, u \in Users, t \in Topic, q \in {0, 1} :
          Publish(p, u, t, q) /\ call = NewCall(u, "mqtt.publish", t, q)
    <3>1. ASSUME NEW p \in Requests, NEW u \in Users, NEW a, NEW t, NEW q, Call(p, u, a, t, q)
          PROVE  call = NewCall(u, a, t, q) /\ a = "mqtt.publish"
      BY <1>1, <3>1 DEF Call, NewCall
    <3>2. ~(\E c \in net : Handle(c) \/ Lose(c)) /\ ~(\E c \in Chats : Link(c)) /\ ~Restart
          /\ ~UNCHANGED vars
      BY <1>1 DEF Handle, Lose, Link, Restart, vars
    <3>3. \A p \in Requests :
            ~(\/ Succeeded(p) \/ Failed(p) \/ Written(p) \/ TimesOut(p)
              \/ Record(p) \/ RecordFails(p))
      BY <1>1 DEF Succeeded, Failed, Written, TimesOut, Record, RecordFails
    <3>4. \A p \in Requests, u \in Users :
            ~(\/ \E i \in Items : Act(p, u, i)
              \/ MakeCode(p, u)
              \/ \E c \in Chats : Unlink(p, u, c))
      BY <3>1 DEF Act, MakeCode, Unlink
    <3>5. PICK p \in Requests, u \in Users, t \in Topic, q \in {0, 1} : Publish(p, u, t, q)
      BY <1>1, <3>2, <3>3, <3>4 DEF Next
    <3>6. call = NewCall(u, "mqtt.publish", t, q)
      BY <3>1, <3>5 DEF Publish
    <3> QED BY <3>5, <3>6
  <2>2. Allowed(t) /\ call.target = t
    BY <2>1 DEF Publish, NewCall
  <2>3. t \in Seq(Levels) /\ t # <<>> /\ Len(t) <= MaxLevels /\ MaxLevels \in Nat
    <3>1. PICK n \in 1 .. MaxLevels : t \in [1 .. n -> Levels]
      BY DEF Topic
    <3>2. t \in Seq(Levels) /\ t # <<>>
      BY DEF Topic, IsTopic
    <3>3. DOMAIN t = 1 .. n /\ DOMAIN t = 1 .. Len(t) /\ Len(t) \in Nat /\ n \in Nat
      BY <3>1, <3>2, BoundAssumption
    <3>4. Len(t) <= n
      <4>1. Len(t) # 0 => Len(t) \in DOMAIN t
        BY <3>3
      <4> QED BY <3>3, <4>1
    <3> QED BY <3>1, <3>2, <3>3, <3>4, BoundAssumption
  <2>4. \A f \in settings.allow \cup settings.deny : IsFilter(f)
    BY <1>1, SettingsAssumption DEF EffectsInv, TypeInv
  <2>5. \A f \in settings.allow \cup settings.deny :
          Matches(f, t) <=> t \in Covered(f, MaxLevels)
    BY <2>3, <2>4, MatchesCorrect
  <2> QED BY <2>2, <2>5 DEF Allowed
<1>2. EffectsInv /\ [Next]_vars =>
        [\A call \in net' \ net : call.action = "mqtt.publish" =>
           /\ \A f \in settings.deny : call.target \notin Covered(f, MaxLevels)
           /\ \E f \in settings.allow : call.target \in Covered(f, MaxLevels)]_vars
  BY <1>1
<1> QED BY <1>2, EffectsAlways, PTL DEF Spec, DeniedIsNotSent

-----------------------------------------------------------------------------
(* Induction over the length of a sequence, as facts about sets: a set of the naturals that is *)
(* not empty has a least one.                                                                  *)

LEMMA Least == ASSUME NEW T \in SUBSET Nat, T # {} PROVE \E n \in T : \A m \in T : n <= m
<1> DEFINE R == OpToRel(<, Nat)
<1>1. IsWellFoundedOn(R, Nat)
  BY NatLessThanWellFounded
<1> HIDE DEF R
<1>2. PICK n \in T : \A m \in T : ~(<<m, n>> \in R)
  BY <1>1, WFMin
<1>3. \A m \in T : ~(m < n)
  BY <1>2 DEF R, OpToRel
<1> QED BY <1>3

LEMMA NatInd ==
  ASSUME NEW S, 0 \in S, \A n \in Nat : n \in S => n + 1 \in S
  PROVE  Nat \subseteq S
<1>1. SUFFICES ASSUME Nat \ S # {} PROVE FALSE
  OBVIOUS
<1>2. PICK n \in Nat \ S : \A m \in Nat \ S : n <= m
  BY <1>1, Least
<1>3. n # 0 /\ n - 1 \in Nat /\ n = (n - 1) + 1
  BY <1>2
<1>4. n - 1 \in S
  BY <1>2, <1>3
<1> QED BY <1>2, <1>3, <1>4

-----------------------------------------------------------------------------
(* Sequences, with one element in front of another and one after another *)

Join(u, v) == u \o v

LEMMA ConsIs ==
  ASSUME NEW X, NEW c \in X, NEW t \in Seq(X)
  PROVE  /\ Cons(c, t) \in Seq(X) /\ Len(Cons(c, t)) = Len(t) + 1 /\ Cons(c, t) # <<>>
         /\ Cons(c, t)[1] = c /\ \A i \in 1 .. Len(t) : Cons(c, t)[i + 1] = t[i]
         /\ Len(t) \in Nat
BY DEF Cons

LEMMA JoinIs ==
  ASSUME NEW X, NEW u \in Seq(X), NEW v \in Seq(X)
  PROVE  /\ Join(u, v) \in Seq(X) /\ Len(Join(u, v)) = Len(u) + Len(v)
         /\ \A i \in 1 .. Len(u) : Join(u, v)[i] = u[i]
         /\ \A i \in 1 .. Len(v) : Join(u, v)[Len(u) + i] = v[i]
         /\ Len(u) \in Nat /\ Len(v) \in Nat
         /\ Join(<<>>, v) = v /\ Join(u, <<>>) = u
BY DEF Join

LEMMA JoinTwice ==
  ASSUME NEW X, NEW u \in Seq(X), NEW v \in Seq(X), NEW w \in Seq(X)
  PROVE  Join(u, Join(v, w)) = Join(Join(u, v), w)
BY DEF Join

LEMMA OneIs ==
  ASSUME NEW X, NEW c \in X
  PROVE  <<c>> \in Seq(X) /\ <<c>> = Cons(c, <<>>) /\ <<>> \in Seq(X) /\ Len(<<>>) = 0
BY DEF Cons

LEMMA ConsIsJoin == ASSUME NEW c, NEW t PROVE Cons(c, t) = Join(<<c>>, t)
BY DEF Cons, Join

LEMMA JoinCons ==
  ASSUME NEW X, NEW c \in X, NEW u \in Seq(X), NEW v \in Seq(X)
  PROVE  Join(Cons(c, u), v) = Cons(c, Join(u, v))
<1> DEFINE one == <<c>>
<1>1. one \in Seq(X)
  OBVIOUS
<1>2. Cons(c, u) = Join(one, u) /\ Cons(c, Join(u, v)) = Join(one, Join(u, v))
  BY ConsIsJoin
<1> HIDE DEF one
<1>3. Join(one, Join(u, v)) = Join(Join(one, u), v)
  BY <1>1, JoinTwice
<1> QED BY <1>2, <1>3

LEMMA AppendIs ==
  ASSUME NEW X, NEW x \in Seq(X), NEW c \in X, NEW t \in Seq(X)
  PROVE  /\ Append(x, c) \in Seq(X) /\ Append(x, c) = Join(x, <<c>>)
         /\ Join(Append(x, c), t) = Join(x, Cons(c, t))
<1> DEFINE one == <<c>>
<1>1. Append(x, c) = Join(x, one)
  BY DEF Join
<1>2. Append(x, c) \in Seq(X) /\ one \in Seq(X)
  OBVIOUS
<1>3. Cons(c, t) = Join(one, t)
  BY ConsIsJoin
<1> HIDE DEF one
<1>4. Join(x, Join(one, t)) = Join(Join(x, one), t)
  BY <1>2, JoinTwice
<1> QED BY <1>1, <1>2, <1>3, <1>4 DEF one

LEMMA IsCons ==
  ASSUME NEW X, NEW c \in X, NEW t \in Seq(X), NEW w \in Seq(X),
         Len(w) = Len(t) + 1, w[1] = c, \A i \in 1 .. Len(t) : w[i + 1] = t[i]
  PROVE  w = Cons(c, t)
<1> DEFINE b == Cons(c, t)
<1>1. b \in Seq(X) /\ Len(b) = Len(t) + 1 /\ b[1] = c /\ \A i \in 1 .. Len(t) : b[i + 1] = t[i]
  BY ConsIs
<1> HIDE DEF b
<1>2. ASSUME NEW i \in 1 .. Len(w) PROVE w[i] = b[i]
  <2>1. CASE i = 1
    BY <2>1, <1>1
  <2>2. CASE i # 1
    <3>1. i - 1 \in 1 .. Len(t) /\ i = (i - 1) + 1
      BY <2>2
    <3>2. w[(i - 1) + 1] = t[i - 1] /\ b[(i - 1) + 1] = t[i - 1]
      BY <3>1, <1>1
    <3> QED BY <3>1, <3>2
  <2> QED BY <2>1, <2>2
<1>3. w = b
  BY <1>1, <1>2, SeqEqual
<1> QED BY <1>3 DEF b

LEMMA SplitCons ==
  ASSUME NEW X, NEW w \in Seq(X), w # <<>>
  PROVE  w[1] \in X /\ Tail(w) \in Seq(X) /\ Len(w) = Len(Tail(w)) + 1 /\ w = Cons(w[1], Tail(w))
<1>1. w[1] \in X /\ Tail(w) \in Seq(X) /\ Len(w) = Len(Tail(w)) + 1
  OBVIOUS
<1>2. \A i \in 1 .. Len(Tail(w)) : w[i + 1] = Tail(w)[i]
  OBVIOUS
<1> QED BY <1>1, <1>2, IsCons

LEMMA TailCons ==
  ASSUME NEW X, NEW c \in X, NEW t \in Seq(X)
  PROVE  Tail(Cons(c, t)) = t
BY DEF Cons

\* What holds of <<>>, and of a text with one character more in front, holds of every text.
LEMMA SeqInd ==
  ASSUME NEW X, NEW S, <<>> \in S,
         \A c \in X, t \in Seq(X) : t \in S => Cons(c, t) \in S
  PROVE  Seq(X) \subseteq S
<1> DEFINE N == {n \in Nat : \A t \in Seq(X) : Len(t) = n => t \in S}
<1>1. 0 \in N
  BY EmptySeq
<1>2. ASSUME NEW n \in Nat, n \in N PROVE n + 1 \in N
  <2>1. SUFFICES ASSUME NEW t \in Seq(X), Len(t) = n + 1 PROVE t \in S
    OBVIOUS
  <2>2. t # <<>>
    BY <2>1
  <2>3. Tail(t) \in Seq(X) /\ Len(Tail(t)) = n /\ t[1] \in X /\ t = Cons(t[1], Tail(t))
    BY <2>1, <2>2, SplitCons
  <2>4. Tail(t) \in S
    BY <1>2, <2>3
  <2> QED BY <2>3, <2>4
<1> HIDE DEF N
<1>3. Nat \subseteq N
  BY <1>1, <1>2, NatInd
<1> QED BY <1>3 DEF N

-----------------------------------------------------------------------------
(* The readers: what is read of a text is read of its beginning and then of its rest *)

Step(how, s, c) ==
  CASE how = "fields" -> ReadChar(s, c)
    [] how = "literal" -> ReadLiteralChar(s, c)
    [] how = "tables" -> ReadRecord(s, c)

Run(how, s, text, n, f) ==
  f = [i \in 0 .. n |-> IF i = 0 THEN s ELSE Step(how, f[i - 1], text[i])]

LEMMA RunExists ==
  ASSUME NEW how, NEW s, NEW text, NEW n \in Nat
  PROVE  \E f : Run(how, s, text, n, f)
<1> DEFINE S == {m \in Nat : \E f : Run(how, s, text, m, f)}
<1>1. 0 \in S
  <2>1. Run(how, s, text, 0, [i \in 0 .. 0 |-> s])
    BY DEF Run
  <2> QED BY <2>1
<1>2. ASSUME NEW m \in Nat, m \in S PROVE m + 1 \in S
  <2>1. PICK f : Run(how, s, text, m, f)
    BY <1>2
  <2> DEFINE g == [i \in 0 .. m + 1 |-> IF i = m + 1 THEN Step(how, f[m], text[m + 1]) ELSE f[i]]
  <2>2. \A i \in 0 .. m + 1 : g[i] = IF i = 0 THEN s ELSE Step(how, g[i - 1], text[i])
    BY <2>1 DEF Run
  <2>3. Run(how, s, text, m + 1, g)
    BY <2>2 DEF Run
  <2> QED BY <2>3
<1> HIDE DEF S
<1>3. Nat \subseteq S
  BY <1>1, <1>2, NatInd
<1> QED BY <1>3 DEF S

LEMMA RunIsOne ==
  ASSUME NEW how, NEW s, NEW text, NEW n \in Nat, NEW f, NEW g,
         Run(how, s, text, n, f), Run(how, s, text, n, g)
  PROVE  f[n] = g[n]
<1> DEFINE S == {i \in Nat : i <= n => f[i] = g[i]}
<1>1. 0 \in S
  BY DEF Run
<1>2. ASSUME NEW i \in Nat, i \in S PROVE i + 1 \in S
  <2>1. SUFFICES ASSUME i + 1 <= n PROVE f[i + 1] = g[i + 1]
    OBVIOUS
  <2>2. /\ f[i + 1] = Step(how, f[i], text[i + 1])
        /\ g[i + 1] = Step(how, g[i], text[i + 1])
    BY <2>1 DEF Run
  <2> QED BY <1>2, <2>1, <2>2
<1> HIDE DEF S
<1>3. Nat \subseteq S
  BY <1>1, <1>2, NatInd
<1> QED BY <1>3 DEF S

After(how, s, text) == (CHOOSE f : Run(how, s, text, Len(text), f))[Len(text)]

LEMMA RunIs ==
  ASSUME NEW how, NEW X, NEW s, NEW text \in Seq(X), NEW f, Run(how, s, text, Len(text), f)
  PROVE  After(how, s, text) = f[Len(text)]
<1> DEFINE g == CHOOSE g : Run(how, s, text, Len(text), g)
<1>1. Run(how, s, text, Len(text), g)
  OBVIOUS
<1>2. After(how, s, text) = g[Len(text)]
  BY DEF After
<1>3. Len(text) \in Nat
  OBVIOUS
<1> HIDE DEF g
<1> QED BY <1>1, <1>2, <1>3, RunIsOne

LEMMA FieldsAfterIs ==
  ASSUME NEW X, NEW s, NEW text \in Seq(X)
  PROVE  FieldsAfter(s, text) = After("fields", s, text)
<1> DEFINE g == CHOOSE g : g = [i \in 0 .. Len(text) |->
                               IF i = 0 THEN s ELSE ReadChar(g[i - 1], text[i])]
<1>1. FieldsAfter(s, text) = g[Len(text)]
  BY DEF FieldsAfter
<1>2. \A f : Run("fields", s, text, Len(text), f) <=>
             f = [i \in 0 .. Len(text) |-> IF i = 0 THEN s ELSE ReadChar(f[i - 1], text[i])]
  BY DEF Run, Step
<1>3. \E f : Run("fields", s, text, Len(text), f)
  <2> Len(text) \in Nat
    OBVIOUS
  <2> QED BY RunExists
<1>4. Run("fields", s, text, Len(text), g)
  BY <1>2, <1>3
<1> HIDE DEF g
<1> QED BY <1>1, <1>4, RunIs

LEMMA LiteralAfterIs ==
  ASSUME NEW X, NEW s, NEW text \in Seq(X)
  PROVE  LiteralAfter(s, text) = After("literal", s, text)
<1> DEFINE g == CHOOSE g : g = [i \in 0 .. Len(text) |->
                               IF i = 0 THEN s ELSE ReadLiteralChar(g[i - 1], text[i])]
<1>1. LiteralAfter(s, text) = g[Len(text)]
  BY DEF LiteralAfter
<1>2. \A f : Run("literal", s, text, Len(text), f) <=>
             f = [i \in 0 .. Len(text) |-> IF i = 0 THEN s ELSE ReadLiteralChar(f[i - 1], text[i])]
  BY DEF Run, Step
<1>3. \E f : Run("literal", s, text, Len(text), f)
  <2> Len(text) \in Nat
    OBVIOUS
  <2> QED BY RunExists
<1>4. Run("literal", s, text, Len(text), g)
  BY <1>2, <1>3
<1> HIDE DEF g
<1> QED BY <1>1, <1>4, RunIs

LEMMA TablesAfterIs ==
  ASSUME NEW X, NEW s, NEW text \in Seq(X)
  PROVE  TablesAfter(s, text) = After("tables", s, text)
<1> DEFINE g == CHOOSE g : g = [i \in 0 .. Len(text) |->
                               IF i = 0 THEN s ELSE ReadRecord(g[i - 1], text[i])]
<1>1. TablesAfter(s, text) = g[Len(text)]
  BY DEF TablesAfter
<1>2. \A f : Run("tables", s, text, Len(text), f) <=>
             f = [i \in 0 .. Len(text) |-> IF i = 0 THEN s ELSE ReadRecord(f[i - 1], text[i])]
  BY DEF Run, Step
<1>3. \E f : Run("tables", s, text, Len(text), f)
  <2> Len(text) \in Nat
    OBVIOUS
  <2> QED BY RunExists
<1>4. Run("tables", s, text, Len(text), g)
  BY <1>2, <1>3
<1> HIDE DEF g
<1> QED BY <1>1, <1>4, RunIs

LEMMA AfterEmpty == ASSUME NEW how, NEW s PROVE After(how, s, <<>>) = s
<1>1. Run(how, s, <<>>, 0, [i \in 0 .. 0 |-> s])
  BY DEF Run
<1>2. <<>> \in Seq({}) /\ Len(<<>>) = 0
  OBVIOUS
<1> QED BY <1>1, <1>2, RunIs

LEMMA AfterCons ==
  ASSUME NEW how, NEW X, NEW s, NEW c \in X, NEW text \in Seq(X)
  PROVE  After(how, s, Cons(c, text)) = After(how, Step(how, s, c), text)
<1> DEFINE whole == Cons(c, text)
<1>1. /\ whole \in Seq(X) /\ Len(whole) = Len(text) + 1 /\ whole[1] = c
      /\ \A i \in 1 .. Len(text) : whole[i + 1] = text[i]
  BY ConsIs
<1> HIDE DEF whole
<1>2. PICK f : Run(how, Step(how, s, c), text, Len(text), f)
  <2> Len(text) \in Nat
    OBVIOUS
  <2> QED BY RunExists
<1> DEFINE g == [i \in 0 .. Len(whole) |-> IF i = 0 THEN s ELSE f[i - 1]]
<1>3. ASSUME NEW i \in 0 .. Len(whole)
      PROVE  g[i] = IF i = 0 THEN s ELSE Step(how, g[i - 1], whole[i])
  <2>1. CASE i = 0
    BY <2>1
  <2>2. CASE i = 1
    BY <2>2, <1>1, <1>2 DEF Run
  <2>3. CASE i > 1
    <3>1. f[i - 1] = Step(how, f[i - 2], text[i - 1])
      <4>1. i - 1 \in 0 .. Len(text) /\ i - 1 # 0 /\ (i - 1) - 1 = i - 2
        BY <2>3, <1>1
      <4> QED BY <4>1, <1>2 DEF Run
    <3>2. whole[i] = text[i - 1]
      BY <2>3, <1>1
    <3> QED BY <3>1, <3>2, <2>3, <1>1
  <2> QED BY <2>1, <2>2, <2>3
<1>4. Run(how, s, whole, Len(whole), g)
  BY <1>3 DEF Run
<1>5. After(how, s, whole) = g[Len(whole)]
  BY <1>1, <1>4, RunIs
<1>6. After(how, Step(how, s, c), text) = f[Len(text)]
  BY <1>2, RunIs
<1> QED BY <1>1, <1>5, <1>6 DEF whole

LEMMA AfterJoin ==
  ASSUME NEW X, NEW u \in Seq(X), NEW v \in Seq(X), NEW how, NEW s
  PROVE  After(how, s, Join(u, v)) = After(how, After(how, s, u), v)
<1> DEFINE Good(t) == \A r : After(how, r, Join(t, v)) = After(how, After(how, r, t), v)
           S == {t \in Seq(X) : Good(t)}
<1>1. <<>> \in S
  BY JoinIs, AfterEmpty, EmptySeq
<1>2. ASSUME NEW c \in X, NEW t \in Seq(X), t \in S PROVE Cons(c, t) \in S
  <2>1. Join(Cons(c, t), v) = Cons(c, Join(t, v)) /\ Join(t, v) \in Seq(X) /\ Cons(c, t) \in Seq(X)
    BY JoinCons, JoinIs, ConsIs
  <2>2. Good(t)
    BY <1>2
  <2>3. ASSUME NEW r
        PROVE  After(how, r, Join(Cons(c, t), v)) = After(how, After(how, r, Cons(c, t)), v)
    <3>1. After(how, r, Cons(c, Join(t, v))) = After(how, Step(how, r, c), Join(t, v))
      BY <2>1, AfterCons
    <3>2. After(how, r, Cons(c, t)) = After(how, Step(how, r, c), t)
      BY AfterCons
    <3>3. After(how, Step(how, r, c), Join(t, v)) = After(how, After(how, Step(how, r, c), t), v)
      BY <2>2
    <3> QED BY <3>1, <3>2, <3>3, <2>1
  <2> QED BY <2>1, <2>3
<1> HIDE DEF S
<1>3. Seq(X) \subseteq S
  BY <1>1, <1>2, SeqInd
<1>4. Good(u)
  BY <1>3 DEF S
<1> QED BY <1>4

LEMMA AfterOne ==
  ASSUME NEW how, NEW s, NEW c
  PROVE  After(how, s, <<c>>) = Step(how, s, c)
<1> DEFINE X == {c}
<1>1. c \in X
  OBVIOUS
<1> HIDE DEF X
<1>2. <<c>> = Cons(c, <<>>) /\ <<>> \in Seq(X)
  BY <1>1, OneIs
<1> DEFINE none == <<>>
<1>4. none \in Seq(X)
  BY <1>2
<1> HIDE DEF none
<1>3. After(how, s, Cons(c, none)) = After(how, Step(how, s, c), none)
  BY <1>1, <1>4, AfterCons
<1> QED BY <1>2, <1>3, AfterEmpty DEF none

-----------------------------------------------------------------------------
(* FlattenSeq *)

FlattenRun(s, n, f) == f = [i \in 1 .. n |-> IF i = 1 THEN s[i] ELSE Join(f[i - 1], s[i])]

LEMMA FlattenRunExists ==
  ASSUME NEW s, NEW n \in Nat
  PROVE  \E f : FlattenRun(s, n, f)
<1> DEFINE S == {m \in Nat : \E f : FlattenRun(s, m, f)}
<1>1. 0 \in S
  <2>1. FlattenRun(s, 0, [i \in 1 .. 0 |-> s])
    BY DEF FlattenRun
  <2> QED BY <2>1
<1>2. ASSUME NEW m \in Nat, m \in S PROVE m + 1 \in S
  <2>1. PICK f : FlattenRun(s, m, f)
    BY <1>2
  <2> DEFINE g == [i \in 1 .. m + 1 |->
                     IF i = 1 THEN s[1] ELSE IF i = m + 1 THEN Join(f[m], s[m + 1]) ELSE f[i]]
  <2>2. \A i \in 1 .. m + 1 : g[i] = IF i = 1 THEN s[i] ELSE Join(g[i - 1], s[i])
    BY <2>1 DEF FlattenRun
  <2>3. FlattenRun(s, m + 1, g)
    BY <2>2 DEF FlattenRun
  <2> QED BY <2>3
<1> HIDE DEF S
<1>3. Nat \subseteq S
  BY <1>1, <1>2, NatInd
<1> QED BY <1>3 DEF S

LEMMA FlattenRunIs ==
  ASSUME NEW X, NEW s \in Seq(X), s # <<>>, NEW f, FlattenRun(s, Len(s), f)
  PROVE  FlattenSeq(s) = f[Len(s)]
<1> DEFINE g == CHOOSE g : FlattenRun(s, Len(s), g)
           S == {i \in Nat : i \in 1 .. Len(s) => f[i] = g[i]}
<1>1. FlattenRun(s, Len(s), g)
  OBVIOUS
<1>2. FlattenSeq(s) = g[Len(s)]
  BY DEF FlattenSeq, FlattenRun, Join
<1> HIDE DEF g
<1>3. 0 \in S
  OBVIOUS
<1>4. ASSUME NEW i \in Nat, i \in S PROVE i + 1 \in S
  <2>1. SUFFICES ASSUME i + 1 <= Len(s) PROVE f[i + 1] = g[i + 1]
    OBVIOUS
  <2>2. CASE i = 0
    BY <1>1, <2>1, <2>2 DEF FlattenRun
  <2>3. CASE i # 0
    <3>1. f[i + 1] = Join(f[i], s[i + 1]) /\ g[i + 1] = Join(g[i], s[i + 1])
      BY <1>1, <2>1, <2>3 DEF FlattenRun
    <3> QED BY <1>4, <2>1, <2>3, <3>1
  <2> QED BY <2>2, <2>3
<1> HIDE DEF S
<1>5. Nat \subseteq S
  BY <1>3, <1>4, NatInd
<1> QED BY <1>2, <1>5 DEF S

LEMMA FlattenEmpty == FlattenSeq(<<>>) = <<>>
BY DEF FlattenSeq

LEMMA FlattenOne ==
  ASSUME NEW X, NEW t \in X
  PROVE  FlattenSeq(<<t>>) = t
<1> DEFINE one == <<t>>
           f == [i \in 1 .. 1 |-> t]
<1>1. one \in Seq(X) /\ Len(one) = 1 /\ one # <<>> /\ one[1] = t
  OBVIOUS
<1> HIDE DEF one
<1>2. f[1] = t /\ FlattenRun(one, Len(one), f)
  BY <1>1 DEF FlattenRun
<1> HIDE DEF f
<1>3. FlattenSeq(one) = f[Len(one)]
  BY <1>1, <1>2, FlattenRunIs
<1> QED BY <1>1, <1>2, <1>3 DEF one

LEMMA FlattenTypeOfRun ==
  ASSUME NEW X, NEW s \in Seq(Seq(X)), NEW f, FlattenRun(s, Len(s), f)
  PROVE  \A i \in 1 .. Len(s) : f[i] \in Seq(X)
<1> DEFINE S == {i \in Nat : i \in 1 .. Len(s) => f[i] \in Seq(X)}
<1>1. 0 \in S
  OBVIOUS
<1>2. ASSUME NEW i \in Nat, i \in S PROVE i + 1 \in S
  <2>1. SUFFICES ASSUME i + 1 <= Len(s) PROVE f[i + 1] \in Seq(X)
    OBVIOUS
  <2>2. s[i + 1] \in Seq(X)
    BY <2>1
  <2>3. CASE i = 0
    BY <2>1, <2>2, <2>3 DEF FlattenRun
  <2>4. CASE i # 0
    <3>1. f[i + 1] = Join(f[i], s[i + 1])
      BY <2>1, <2>4 DEF FlattenRun
    <3>2. f[i] \in Seq(X)
      BY <1>2, <2>1, <2>4
    <3>3. \A u \in Seq(X), v \in Seq(X) : Join(u, v) \in Seq(X)
      BY JoinIs
    <3> QED BY <2>2, <3>1, <3>2, <3>3
  <2> QED BY <2>3, <2>4
<1> HIDE DEF S
<1>3. Nat \subseteq S
  BY <1>1, <1>2, NatInd
<1> QED BY <1>3 DEF S

LEMMA FlattenType ==
  ASSUME NEW X, NEW s \in Seq(Seq(X))
  PROVE  FlattenSeq(s) \in Seq(X)
<1>1. CASE s = <<>>
  BY <1>1, FlattenEmpty, EmptySeq
<1>2. CASE s # <<>>
  <2>1. Len(s) \in Nat /\ Len(s) \in 1 .. Len(s)
    BY <1>2
  <2>2. PICK f : FlattenRun(s, Len(s), f)
    BY <2>1, FlattenRunExists
  <2> QED BY <1>2, <2>1, <2>2, FlattenRunIs, FlattenTypeOfRun
<1> QED BY <1>1, <1>2

LEMMA FlattenCons ==
  ASSUME NEW X, NEW t \in Seq(X), NEW s \in Seq(Seq(X))
  PROVE  FlattenSeq(Cons(t, s)) = Join(t, FlattenSeq(s))
<1>1. CASE s = <<>>
  <2>1. Cons(t, s) = <<t>> /\ Join(t, <<>>) = t
    BY <1>1, OneIs, JoinIs
  <2> QED BY <1>1, <2>1, FlattenOne, FlattenEmpty
<1>2. CASE s # <<>>
  <2> DEFINE whole == Cons(t, s)
  <2>1. /\ whole \in Seq(Seq(X)) /\ Len(whole) = Len(s) + 1 /\ whole[1] = t /\ whole # <<>>
        /\ \A i \in 1 .. Len(s) : whole[i + 1] = s[i]
        /\ Len(s) \in Nat /\ Len(s) > 0
    <3>1. Len(s) \in Nat \ {0}
      BY <1>2
    <3> DEFINE Y == Seq(X)
    <3>2. t \in Y /\ s \in Seq(Y)
      OBVIOUS
    <3> HIDE DEF Y
    <3>3. /\ whole \in Seq(Y) /\ Len(whole) = Len(s) + 1 /\ whole[1] = t /\ whole # <<>>
          /\ \A i \in 1 .. Len(s) : whole[i + 1] = s[i]
      BY <3>2, ConsIs
    <3> QED BY <3>1, <3>3 DEF Y
  <2> HIDE DEF whole
  <2>2. PICK f : FlattenRun(s, Len(s), f)
    BY <2>1, FlattenRunExists
  <2>3. \A i \in 1 .. Len(s) : f[i] \in Seq(X) /\ s[i] \in Seq(X)
    BY <2>2, FlattenTypeOfRun
  <2> DEFINE g == [i \in 1 .. Len(whole) |-> IF i = 1 THEN t ELSE Join(t, f[i - 1])]
  <2>4. ASSUME NEW i \in 1 .. Len(whole)
        PROVE  g[i] = IF i = 1 THEN whole[i] ELSE Join(g[i - 1], whole[i])
    <3>1. CASE i = 1
      BY <3>1, <2>1
    <3>2. CASE i = 2
      <4>1. f[1] = s[1] /\ whole[1 + 1] = s[1] /\ 1 \in 1 .. Len(whole) /\ 2 \in 1 .. Len(whole)
        BY <2>1, <2>2 DEF FlattenRun
      <4> QED BY <3>2, <4>1
    <3>3. CASE i > 2
      <4>1. i - 1 \in 1 .. Len(s) /\ i - 1 # 1 /\ (i - 1) - 1 = i - 2 /\ i - 2 \in 1 .. Len(s)
        BY <3>3, <2>1
      <4>2. f[i - 1] = Join(f[i - 2], s[i - 1])
        BY <4>1, <2>2 DEF FlattenRun
      <4>3. whole[i] = s[i - 1]
        <5>1. whole[(i - 1) + 1] = s[i - 1]
          BY <4>1, <2>1
        <5> QED BY <5>1
      <4>4. Join(t, Join(f[i - 2], s[i - 1])) = Join(Join(t, f[i - 2]), s[i - 1])
        <5>1. f[i - 2] \in Seq(X) /\ s[i - 1] \in Seq(X)
          BY <4>1, <2>3
        <5>2. \A u \in Seq(X), v \in Seq(X) : Join(t, Join(u, v)) = Join(Join(t, u), v)
          BY JoinTwice
        <5> QED BY <5>1, <5>2
      <4> QED BY <4>1, <4>2, <4>3, <4>4, <3>3, <2>1
    <3> QED BY <3>1, <3>2, <3>3
  <2>5. FlattenRun(whole, Len(whole), g)
    BY <2>4 DEF FlattenRun
  <2>6. g[Len(whole)] = Join(t, f[Len(s)])
    BY <2>1
  <2> HIDE DEF g
  <2>7. FlattenSeq(whole) = g[Len(whole)]
    BY <2>1, <2>5, FlattenRunIs
  <2>8. FlattenSeq(s) = f[Len(s)]
    BY <1>2, <2>2, FlattenRunIs
  <2> QED BY <2>6, <2>7, <2>8 DEF whole
<1> QED BY <1>1, <1>2

LEMMA FlattenJoin ==
  ASSUME NEW X, NEW u \in Seq(Seq(X)), NEW v \in Seq(Seq(X))
  PROVE  FlattenSeq(Join(u, v)) = Join(FlattenSeq(u), FlattenSeq(v))
<1> DEFINE S == {s \in Seq(Seq(X)) : FlattenSeq(Join(s, v)) = Join(FlattenSeq(s), FlattenSeq(v))}
<1>0. FlattenSeq(v) \in Seq(X)
  BY FlattenType
<1>1. <<>> \in S
  <2>1. Join(<<>>, v) = v /\ Join(<<>>, FlattenSeq(v)) = FlattenSeq(v)
    BY <1>0, JoinIs
  <2> QED BY <2>1, FlattenEmpty, EmptySeq
<1>2. ASSUME NEW c \in Seq(X), NEW t \in Seq(Seq(X)), t \in S PROVE Cons(c, t) \in S
  <2>1. /\ Join(t, v) \in Seq(Seq(X)) /\ Join(Cons(c, t), v) = Cons(c, Join(t, v))
        /\ Cons(c, t) \in Seq(Seq(X))
    BY JoinIs, JoinCons, ConsIs
  <2>2. FlattenSeq(Join(t, v)) = Join(FlattenSeq(t), FlattenSeq(v))
    BY <1>2
  <2>3. FlattenSeq(Cons(c, Join(t, v))) = Join(c, FlattenSeq(Join(t, v)))
    BY <2>1, FlattenCons
  <2>4. FlattenSeq(Cons(c, t)) = Join(c, FlattenSeq(t))
    BY FlattenCons
  <2>5. FlattenSeq(t) \in Seq(X)
    BY FlattenType
  <2>6. Join(c, Join(FlattenSeq(t), FlattenSeq(v))) = Join(Join(c, FlattenSeq(t)), FlattenSeq(v))
    BY <1>0, <2>5, JoinTwice
  <2> QED BY <2>1, <2>2, <2>3, <2>4, <2>6
<1> HIDE DEF S
<1>3. Seq(Seq(X)) \subseteq S
  BY <1>1, <1>2, SeqInd
<1> QED BY <1>3 DEF S

-----------------------------------------------------------------------------
(* Texts *)

LEMMA Special ==
  /\ "\\" \in Chars /\ "\"" \in Chars /\ "," \in Chars /\ "=" \in Chars /\ " " \in Chars
  /\ "true" \in Chars /\ "false" \in Chars
BY CharsAssumption

LEMMA TextIs ==
  /\ <<>> \in Text
  /\ \A t \in Text : /\ Len(t) \in Nat /\ Join(<<>>, t) = t /\ Join(t, <<>>) = t
                     /\ \A i \in 1 .. Len(t) : t[i] \in Chars
                     /\ t # <<>> => \E c \in Chars, u \in Text : t = Cons(c, u)
  /\ \A c \in Chars, t \in Text :
       /\ Cons(c, t) \in Text /\ Cons(c, t)[1] = c /\ Cons(c, t) # <<>>
       /\ Append(t, c) \in Text /\ Tail(Cons(c, t)) = t /\ Len(Cons(c, t)) = Len(t) + 1
       /\ \A i \in 1 .. Len(t) : Cons(c, t)[i + 1] = t[i]
  /\ \A t \in Text, u \in Text : Join(t, u) \in Text
  /\ \A c \in Chars, d \in Chars : <<c>> \in Text /\ <<c, d>> \in Text
<1>1. <<>> \in Text
  BY EmptySeq DEF Text
<1>2. ASSUME NEW t \in Text
      PROVE  /\ Len(t) \in Nat /\ Join(<<>>, t) = t /\ Join(t, <<>>) = t
             /\ \A i \in 1 .. Len(t) : t[i] \in Chars
             /\ t # <<>> => \E c \in Chars, u \in Text : t = Cons(c, u)
  <2>1. Len(t) \in Nat /\ \A i \in 1 .. Len(t) : t[i] \in Chars
    BY DEF Text
  <2>2. Join(<<>>, t) = t /\ Join(t, <<>>) = t
    BY JoinIs DEF Text
  <2>3. t # <<>> => \E c \in Chars, u \in Text : t = Cons(c, u)
    BY SplitCons DEF Text
  <2> QED BY <2>1, <2>2, <2>3
<1>3. ASSUME NEW c \in Chars, NEW t \in Text
      PROVE  /\ Cons(c, t) \in Text /\ Cons(c, t)[1] = c /\ Cons(c, t) # <<>>
             /\ Append(t, c) \in Text /\ Tail(Cons(c, t)) = t /\ Len(Cons(c, t)) = Len(t) + 1
             /\ \A i \in 1 .. Len(t) : Cons(c, t)[i + 1] = t[i]
  <2>1. t \in Seq(Chars)
    BY DEF Text
  <2>2. /\ Cons(c, t) \in Seq(Chars) /\ Cons(c, t)[1] = c /\ Cons(c, t) # <<>>
        /\ Len(Cons(c, t)) = Len(t) + 1 /\ \A i \in 1 .. Len(t) : Cons(c, t)[i + 1] = t[i]
    BY <2>1, ConsIs
  <2>3. Append(t, c) \in Seq(Chars)
    BY <2>1
  <2>4. Tail(Cons(c, t)) = t
    BY <2>1, TailCons
  <2> QED BY <2>2, <2>3, <2>4 DEF Text
<1>4. ASSUME NEW t \in Text, NEW u \in Text PROVE Join(t, u) \in Text
  BY JoinIs DEF Text
<1>5. ASSUME NEW c \in Chars, NEW d \in Chars PROVE <<c>> \in Text /\ <<c, d>> \in Text
  BY DEF Text
<1> QED BY <1>1, <1>2, <1>3, <1>4, <1>5

LEMMA TextInd ==
  ASSUME NEW S, <<>> \in S, \A c \in Chars, t \in Text : t \in S => Cons(c, t) \in S
  PROVE  Text \subseteq S
BY SeqInd DEF Text

LEMMA TextJoins ==
  /\ \A t \in Text, u \in Text, v \in Text : Join(t, Join(u, v)) = Join(Join(t, u), v)
  /\ \A c \in Chars, t \in Text, u \in Text :
       /\ Join(Cons(c, t), u) = Cons(c, Join(t, u)) /\ Join(<<c>>, t) = Cons(c, t)
       /\ Join(Append(t, c), u) = Join(t, Cons(c, u))
  /\ \A c \in Chars, d \in Chars, t \in Text : Join(<<c, d>>, t) = Cons(c, Cons(d, t))
<1>1. ASSUME NEW t \in Text, NEW u \in Text, NEW v \in Text
      PROVE  Join(t, Join(u, v)) = Join(Join(t, u), v)
  BY JoinTwice DEF Text
<1>2. ASSUME NEW c \in Chars, NEW t \in Text, NEW u \in Text
      PROVE  /\ Join(Cons(c, t), u) = Cons(c, Join(t, u)) /\ Join(<<c>>, t) = Cons(c, t)
             /\ Join(Append(t, c), u) = Join(t, Cons(c, u))
  BY JoinCons, AppendIs, ConsIsJoin DEF Text
<1>3. ASSUME NEW c \in Chars, NEW d \in Chars, NEW t \in Text
      PROVE  Join(<<c, d>>, t) = Cons(c, Cons(d, t))
  <2>1. <<c, d>> = Cons(c, <<d>>)
    <3>1. /\ <<d>> \in Seq(Chars) /\ <<c, d>> \in Seq(Chars) /\ Len(<<c, d>>) = Len(<<d>>) + 1
          /\ <<c, d>>[1] = c /\ \A i \in 1 .. Len(<<d>>) : <<c, d>>[i + 1] = <<d>>[i]
      OBVIOUS
    <3> QED BY <3>1, IsCons
  <2>2. <<d>> \in Text
    BY TextIs
  <2>3. Join(Cons(c, <<d>>), t) = Cons(c, Join(<<d>>, t)) /\ Join(<<d>>, t) = Cons(d, t)
    BY <2>2, <1>2
  <2> QED BY <2>1, <2>3
<1> QED BY <1>1, <1>2, <1>3

LEMMA TextAfterCons ==
  ASSUME NEW how, NEW s, NEW c \in Chars, NEW t \in Text
  PROVE  After(how, s, Cons(c, t)) = After(how, Step(how, s, c), t)
BY AfterCons DEF Text

LEMMA TextAfterJoin ==
  ASSUME NEW how, NEW s, NEW t \in Text, NEW u \in Text
  PROVE  After(how, s, Join(t, u)) = After(how, After(how, s, t), u)
BY AfterJoin DEF Text

LEMMA TextFlatten ==
  /\ FlattenSeq(<<>>) = <<>>
  /\ \A s \in Seq(Text) : FlattenSeq(s) \in Text
  /\ \A t \in Text, s \in Seq(Text) : FlattenSeq(Cons(t, s)) = Join(t, FlattenSeq(s))
<1>1. ASSUME NEW s \in Seq(Text) PROVE FlattenSeq(s) \in Text
  BY FlattenType DEF Text
<1>2. ASSUME NEW t \in Text, NEW s \in Seq(Text)
      PROVE  FlattenSeq(Cons(t, s)) = Join(t, FlattenSeq(s))
  BY FlattenCons DEF Text
<1> QED BY <1>1, <1>2, FlattenEmpty

-----------------------------------------------------------------------------
(* What is written of a text, one character at a time *)

Escaped(c, special, t) == IF c \in special THEN Cons("\\", Cons(c, t)) ELSE Cons(c, t)

LEMMA EscapeLaws ==
  ASSUME NEW special
  PROVE  /\ Escape(<<>>, special) = <<>>
         /\ \A t \in Text : Escape(t, special) \in Text
         /\ \A c \in Chars, t \in Text :
              Escape(Cons(c, t), special) = Escaped(c, special, Escape(t, special))
<1> DEFINE part(c) == IF c \in special THEN <<"\\", c>> ELSE <<c>>
           parts(t) == [i \in 1 .. Len(t) |-> part(t[i])]
<1>1. ASSUME NEW t \in Text
      PROVE  parts(t) \in Seq(Text) /\ Escape(t, special) = FlattenSeq(parts(t))
  <2>1. ASSUME NEW i \in 1 .. Len(t) PROVE part(t[i]) \in Text
    BY Special, TextIs
  <2>2. Len(t) \in Nat
    BY TextIs
  <2>3. Escape(t, special) = FlattenSeq(parts(t))
    BY DEF Escape, Concat
  <2> HIDE DEF part
  <2> QED BY <2>1, <2>2, <2>3
<1>2. Escape(<<>>, special) = <<>>
  <2>1. parts(<<>>) = <<>>
    OBVIOUS
  <2> QED BY <2>1, <1>1, TextIs, TextFlatten
<1>3. ASSUME NEW t \in Text PROVE Escape(t, special) \in Text
  BY <1>1, TextFlatten
<1>4. ASSUME NEW c \in Chars, NEW t \in Text
      PROVE  Escape(Cons(c, t), special) = Escaped(c, special, Escape(t, special))
  <2> DEFINE w == Cons(c, t)
  <2>1. /\ w \in Text /\ Len(w) = Len(t) + 1 /\ w[1] = c /\ Len(t) \in Nat
        /\ \A i \in 1 .. Len(t) : w[i + 1] = t[i]
    BY TextIs
  <2> HIDE DEF w
  <2>2. part(c) \in Text
    BY Special, TextIs
  <2>3. Join(part(c), Escape(t, special)) = Escaped(c, special, Escape(t, special))
    <3> DEFINE rest == Escape(t, special)
    <3>1. rest \in Text
      BY <1>3
    <3> HIDE DEF rest
    <3>2. CASE c \in special
      <4>1. Join(<<"\\", c>>, rest) = Cons("\\", Cons(c, rest))
        BY <3>1, Special, TextJoins, ZenonT(60)
      <4> QED BY <3>2, <4>1 DEF Escaped, rest
    <3>3. CASE c \notin special
      <4>1. Join(<<c>>, rest) = Cons(c, rest)
        BY <3>1, TextJoins
      <4> QED BY <3>3, <4>1 DEF Escaped, rest
    <3> QED BY <3>2, <3>3
  <2> HIDE DEF part
  <2>4. /\ Len(parts(w)) = Len(w) /\ Len(parts(t)) = Len(t) /\ parts(w)[1] = part(c)
        /\ \A i \in 1 .. Len(t) : parts(w)[i + 1] = parts(t)[i]
    BY <2>1
  <2>5. parts(w) \in Seq(Text) /\ parts(t) \in Seq(Text)
    BY <1>1, <2>1
  <2> HIDE DEF parts
  <2>6. parts(w) = Cons(part(c), parts(t))
    BY <2>1, <2>2, <2>4, <2>5, IsCons
  <2>7. FlattenSeq(parts(w)) = Join(part(c), FlattenSeq(parts(t)))
    BY <2>2, <2>5, <2>6, TextFlatten
  <2> QED BY <1>1, <2>1, <2>3, <2>7 DEF w
<1> QED BY <1>2, <1>3, <1>4

Starts(t, c) == t # <<>> /\ t[1] = c

OfDollar(c, t, rest) ==
  IF c = "$" /\ Starts(t, "{") THEN Cons("\\", Cons(c, rest)) ELSE Cons(c, rest)

LEMMA EscapeDollarLaws ==
  /\ EscapeDollar(<<>>) = <<>>
  /\ \A t \in Text : EscapeDollar(t) \in Text
  /\ \A c \in Chars, t \in Text : EscapeDollar(Cons(c, t)) = OfDollar(c, t, EscapeDollar(t))
<1> DEFINE part(t, i) == IF t[i] = "$" /\ i < Len(t) /\ t[i + 1] = "{"
                         THEN <<"\\", "$">> ELSE <<t[i]>>
           parts(t) == [i \in 1 .. Len(t) |-> part(t, i)]
<1>1. ASSUME NEW t \in Text
      PROVE  /\ parts(t) \in Seq(Text) /\ EscapeDollar(t) = FlattenSeq(parts(t))
             /\ Len(parts(t)) = Len(t) /\ \A i \in 1 .. Len(t) : parts(t)[i] = part(t, i)
  <2>1. ASSUME NEW i \in 1 .. Len(t) PROVE part(t, i) \in Text
    BY Special, TextIs
  <2>2. Len(t) \in Nat
    BY TextIs
  <2>3. EscapeDollar(t) = FlattenSeq(parts(t))
    BY DEF EscapeDollar, Concat
  <2> HIDE DEF part
  <2> QED BY <2>1, <2>2, <2>3
<1>2. EscapeDollar(<<>>) = <<>>
  <2>1. parts(<<>>) = <<>>
    OBVIOUS
  <2> QED BY <2>1, <1>1, TextIs, TextFlatten
<1>3. ASSUME NEW t \in Text PROVE EscapeDollar(t) \in Text
  BY <1>1, TextFlatten
<1>4. ASSUME NEW c \in Chars, NEW t \in Text
      PROVE  EscapeDollar(Cons(c, t)) = OfDollar(c, t, EscapeDollar(t))
  <2> DEFINE w == Cons(c, t)
  <2>1. /\ w \in Text /\ Len(w) = Len(t) + 1 /\ w[1] = c /\ Len(t) \in Nat
        /\ \A i \in 1 .. Len(t) : w[i + 1] = t[i]
    BY TextIs
  <2>0. t # <<>> <=> Len(t) > 0
    BY <2>1 DEF Text
  <2> HIDE DEF w
  <2>2. part(w, 1) = IF c = "$" /\ Starts(t, "{") THEN <<"\\", c>> ELSE <<c>>
    <3>1. t # <<>> => w[1 + 1] = t[1]
      BY <2>0, <2>1
    <3>2. 1 < Len(w) <=> t # <<>>
      BY <2>0, <2>1
    <3> QED BY <2>1, <3>1, <3>2 DEF Starts
  <2>3. part(w, 1) \in Text
    BY <2>2, Special, TextIs
  <2>4. Join(part(w, 1), EscapeDollar(t)) = OfDollar(c, t, EscapeDollar(t))
    <3>1. CASE c = "$" /\ Starts(t, "{")
      BY <1>3, <2>2, <3>1, Special, TextJoins, ZenonT(60) DEF OfDollar
    <3>2. CASE ~(c = "$" /\ Starts(t, "{"))
      <4>1. Join(<<c>>, EscapeDollar(t)) = Cons(c, EscapeDollar(t))
        BY <1>3, TextJoins
      <4> QED BY <2>2, <3>2, <4>1 DEF OfDollar
    <3> QED BY <3>1, <3>2
  <2>5. ASSUME NEW i \in 1 .. Len(t) PROVE part(w, i + 1) = part(t, i)
    <3>1. i < Len(t) => w[(i + 1) + 1] = t[i + 1]
      BY <2>1
    <3>2. w[i + 1] = t[i] /\ (i + 1 < Len(w) <=> i < Len(t))
      BY <2>1
    <3> QED BY <3>1, <3>2
  <2> HIDE DEF part, parts
  <2>6. /\ parts(w) \in Seq(Text) /\ parts(t) \in Seq(Text)
        /\ Len(parts(w)) = Len(w) /\ Len(parts(t)) = Len(t) /\ parts(w)[1] = part(w, 1)
        /\ \A i \in 1 .. Len(t) : parts(w)[i + 1] = parts(t)[i]
    BY <1>1, <2>1, <2>5
  <2>7. parts(w) = Cons(part(w, 1), parts(t))
    BY <2>1, <2>3, <2>6, IsCons
  <2>8. FlattenSeq(parts(w)) = Join(part(w, 1), FlattenSeq(parts(t)))
    BY <2>3, <2>6, <2>7, TextFlatten
  <2> QED BY <1>1, <2>1, <2>4, <2>8 DEF w
<1> QED BY <1>2, <1>3, <1>4

LEMMA CleanType ==
  ASSUME NEW t \in Text
  PROVE  Clean(t) \in Text /\ (t # <<>> => Clean(t) # <<>>) /\ Clean(<<>>) = <<>>
<1> DEFINE part(u, i) == CASE u[i] # "\n" -> <<u[i]>>
                           [] u[i] = "\n" /\ i > 1 /\ u[i - 1] = "\n" -> <<>>
                           [] OTHER -> <<" ">>
           parts(u) == [i \in 1 .. Len(u) |-> part(u, i)]
<1>1. Clean(t) = FlattenSeq(parts(t)) /\ Clean(<<>>) = FlattenSeq(parts(<<>>))
  BY DEF Clean, Concat
<1>2. parts(<<>>) = <<>>
  OBVIOUS
<1>3. ASSUME NEW i \in 1 .. Len(t) PROVE part(t, i) \in Text
  BY Special, TextIs
<1>4. part(t, 1) # <<>>
  OBVIOUS
<1>5. Len(t) \in Nat /\ (t # <<>> => Len(t) # 0)
  BY DEF Text
<1> HIDE DEF part
<1>6. /\ parts(t) \in Seq(Text) /\ Len(parts(t)) = Len(t)
      /\ t # <<>> => parts(t)[1] = part(t, 1)
  BY <1>3, <1>5
<1> HIDE DEF parts
<1>7. Clean(t) \in Text
  BY <1>1, <1>6, TextFlatten
<1>8. ASSUME t # <<>> PROVE Clean(t) # <<>>
  <2>1. parts(t) # <<>>
    BY <1>5, <1>6, <1>8
  <2>2. parts(t)[1] \in Text /\ Tail(parts(t)) \in Seq(Text) /\ parts(t)
           = Cons(parts(t)[1], Tail(parts(t)))
    BY <1>6, <2>1, SplitCons
  <2>3. FlattenSeq(parts(t)) = Join(part(t, 1), FlattenSeq(Tail(parts(t))))
    BY <1>6, <1>8, <2>2, TextFlatten
  <2>4. FlattenSeq(Tail(parts(t))) \in Text /\ part(t, 1) \in Text
    BY <1>6, <1>8, <2>2, TextFlatten
  <2>5. PICK c \in Chars, u \in Text : part(t, 1) = Cons(c, u)
    BY <1>4, <2>4, TextIs
  <2> DEFINE rest == FlattenSeq(Tail(parts(t)))
  <2>6. rest \in Text /\ Clean(t) = Join(Cons(c, u), rest)
    BY <1>1, <2>3, <2>4, <2>5
  <2> HIDE DEF rest
  <2>7. Join(Cons(c, u), rest) = Cons(c, Join(u, rest)) /\ Join(u, rest) \in Text
    <3>1. Join(Cons(c, u), rest) = Cons(c, Join(u, rest))
      BY <2>6, TextJoins, ZenonT(60)
    <3>2. Join(u, rest) \in Text
      BY <2>6, TextIs
    <3> QED BY <3>1, <3>2
  <2> QED BY <2>6, <2>7, TextIs
<1> QED BY <1>1, <1>2, <1>7, <1>8, FlattenEmpty

-----------------------------------------------------------------------------
(* Flux: a literal says what it was made of *)

Quoted(t) == Escape(Escape(t, {"\\"}), {"\""})

LEMMA QuotedLaws ==
  /\ Quoted(<<>>) = <<>>
  /\ \A t \in Text : Quoted(t) \in Text
  /\ \A c \in Chars, t \in Text : Quoted(Cons(c, t)) = Escaped(c, {"\\", "\""}, Quoted(t))
<1>1. Quoted(<<>>) = <<>>
  BY EscapeLaws DEF Quoted
<1>2. ASSUME NEW t \in Text PROVE Escape(t, {"\\"}) \in Text /\ Quoted(t) \in Text
  BY EscapeLaws DEF Quoted
<1>3. ASSUME NEW c \in Chars, NEW t \in Text
      PROVE  Quoted(Cons(c, t)) = Escaped(c, {"\\", "\""}, Quoted(t))
  <2> DEFINE e == Escape(t, {"\\"})
  <2>1. e \in Text /\ Quoted(t) = Escape(e, {"\""}) /\ Quoted(t) \in Text
    BY <1>2 DEF Quoted
  <2>2. Quoted(Cons(c, t)) = Escape(Escaped(c, {"\\"}, e), {"\""})
    BY EscapeLaws DEF Quoted
  <2> HIDE DEF e
  <2>3. CASE c = "\\"
    <3>1. Escaped(c, {"\\"}, e) = Cons(c, Cons(c, e)) /\ Cons(c, e) \in Text
      BY <2>1, <2>3, TextIs DEF Escaped
    <3>2. Escape(Cons(c, Cons(c, e)), {"\""}) = Cons(c, Escape(Cons(c, e), {"\""}))
      BY <2>3, <3>1, EscapeLaws, ZenonT(60) DEF Escaped
    <3>3. Escape(Cons(c, e), {"\""}) = Cons(c, Quoted(t))
      <4>1. Escape(Cons(c, e), {"\""}) = Escaped(c, {"\""}, Quoted(t))
        BY <2>1, EscapeLaws
      <4> QED BY <2>3, <4>1 DEF Escaped
    <3> QED BY <2>2, <2>3, <3>1, <3>2, <3>3 DEF Escaped
  <2>4. CASE c # "\\"
    <3>1. Escaped(c, {"\\"}, e) = Cons(c, e)
      BY <2>4 DEF Escaped
    <3>2. Escape(Cons(c, e), {"\""}) = Escaped(c, {"\""}, Quoted(t))
      BY <2>1, EscapeLaws
    <3> QED BY <2>2, <2>4, <3>1, <3>2 DEF Escaped
  <2> QED BY <2>3, <2>4
<1> QED BY <1>1, <1>2, <1>3

LEMMA QuotedStarts ==
  ASSUME NEW t \in Text
  PROVE  Starts(Quoted(t), "{") <=> Starts(t, "{")
<1>1. CASE t = <<>>
  BY <1>1, QuotedLaws DEF Starts
<1>2. CASE t # <<>>
  <2>1. PICK c \in Chars, r \in Text : t = Cons(c, r)
    BY <1>2, TextIs
  <2>2. Quoted(t) = Escaped(c, {"\\", "\""}, Quoted(r)) /\ Quoted(r) \in Text
    BY <2>1, QuotedLaws
  <2>3. t[1] = c
    BY <2>1, TextIs
  <2>4. CASE c \in {"\\", "\""}
    <3>1. Quoted(t) = Cons("\\", Cons(c, Quoted(r)))
      BY <2>2, <2>4 DEF Escaped
    <3>2. Quoted(t)[1] = "\\"
      BY <2>2, <3>1, Special, TextIs
    <3> QED BY <2>3, <2>4, <3>2 DEF Starts
  <2>5. CASE c \notin {"\\", "\""}
    <3>1. Quoted(t) = Cons(c, Quoted(r))
      BY <2>2, <2>5 DEF Escaped
    <3>2. Quoted(t)[1] = c /\ Quoted(t) # <<>>
      BY <2>2, <3>1, TextIs, ZenonT(60)
    <3> QED BY <1>2, <2>3, <3>2 DEF Starts
  <2> QED BY <2>4, <2>5
<1> QED BY <1>1, <1>2

Literal(t) == EscapeDollar(Quoted(t))

\* What stands for a character in a literal, before what stands for the rest.
InLiteral(c, t, rest) ==
  IF c \in {"\\", "\""} \/ (c = "$" /\ Starts(t, "{")) THEN Cons("\\", Cons(c, rest)) ELSE Cons(c, rest)

LEMMA LiteralLaws ==
  /\ Literal(<<>>) = <<>>
  /\ \A t \in Text : Literal(t) \in Text
  /\ \A c \in Chars, t \in Text : Literal(Cons(c, t)) = InLiteral(c, t, Literal(t))
<1>1. Literal(<<>>) = <<>>
  BY QuotedLaws, EscapeDollarLaws DEF Literal
<1>2. ASSUME NEW t \in Text PROVE Quoted(t) \in Text /\ Literal(t) \in Text
  BY QuotedLaws, EscapeDollarLaws DEF Literal
<1>3. ASSUME NEW c \in Chars, NEW t \in Text
      PROVE  Literal(Cons(c, t)) = InLiteral(c, t, Literal(t))
  <2> DEFINE q == Quoted(t)
  <2>1. q \in Text /\ Literal(t) = EscapeDollar(q) /\ Literal(t) \in Text
    BY <1>2 DEF Literal
  <2>2. Literal(Cons(c, t)) = EscapeDollar(Escaped(c, {"\\", "\""}, q))
    BY QuotedLaws DEF Literal
  <2>3. Starts(q, "{") <=> Starts(t, "{")
    BY QuotedStarts
  <2> HIDE DEF q
  <2>4. CASE c \in {"\\", "\""}
    <3>1. Escaped(c, {"\\", "\""}, q) = Cons("\\", Cons(c, q)) /\ Cons(c, q) \in Text
      BY <2>1, <2>4, TextIs DEF Escaped
    <3>2. EscapeDollar(Cons("\\", Cons(c, q))) = Cons("\\", EscapeDollar(Cons(c, q)))
      BY <3>1, Special, EscapeDollarLaws DEF OfDollar
    <3>3. EscapeDollar(Cons(c, q)) = Cons(c, Literal(t))
      BY <2>1, <2>4, EscapeDollarLaws DEF OfDollar
    <3> QED BY <2>2, <2>4, <3>1, <3>2, <3>3 DEF InLiteral
  <2>5. CASE c \notin {"\\", "\""}
    <3>1. Escaped(c, {"\\", "\""}, q) = Cons(c, q)
      BY <2>5 DEF Escaped
    <3>2. EscapeDollar(Cons(c, q)) = OfDollar(c, q, EscapeDollar(q))
      BY <2>1, EscapeDollarLaws
    <3>3. OfDollar(c, q, Literal(t)) = InLiteral(c, t, Literal(t))
      BY <2>3, <2>5 DEF OfDollar, InLiteral
    <3> QED BY <2>1, <2>2, <3>1, <3>2, <3>3
  <2> QED BY <2>4, <2>5
<1> QED BY <1>1, <1>2, <1>3

LS(x, escaped, dollar, ended) ==
  [text |-> x, escaped |-> escaped, dollar |-> dollar, ended |-> ended]

LEMMA LiteralCharIs ==
  ASSUME NEW x, NEW d \in BOOLEAN, NEW c
  PROVE  /\ Step("literal", LS(x, FALSE, d, FALSE), "\\") = LS(x, TRUE, FALSE, FALSE)
         /\ Step("literal", LS(x, TRUE, FALSE, FALSE), c) = LS(Append(x, c), FALSE, FALSE, FALSE)
         /\ c \notin {"\\", "\""} /\ ~(c = "{" /\ d) =>
              Step("literal", LS(x, FALSE, d, FALSE), c) = LS(Append(x, c), FALSE, c = "$", FALSE)
         /\ Step("literal", LS(x, FALSE, d, FALSE), "\"").text = x
<1>1. Step("literal", LS(x, FALSE, d, FALSE), "\\") = LS(x, TRUE, FALSE, FALSE)
  BY DEF LS, ReadLiteralChar, Step
<1>2. Step("literal", LS(x, TRUE, FALSE, FALSE), c) = LS(Append(x, c), FALSE, FALSE, FALSE)
  BY DEF LS, ReadLiteralChar, AddedToLiteral, Step
<1>3. ASSUME c \notin {"\\", "\""}, ~(c = "{" /\ d)
      PROVE  Step("literal", LS(x, FALSE, d, FALSE), c) = LS(Append(x, c), FALSE, c = "$", FALSE)
  BY <1>3 DEF LS, ReadLiteralChar, AddedToLiteral, Step
<1>4. Step("literal", LS(x, FALSE, d, FALSE), "\"").text = x
  BY DEF LS, ReadLiteralChar, Step
<1> QED BY <1>1, <1>2, <1>3, <1>4

LEMMA LiteralRead ==
  ASSUME NEW t \in Text, NEW x \in Text, NEW d \in BOOLEAN, d => ~Starts(t, "{")
  PROVE  \E e \in BOOLEAN :
           After("literal", LS(x, FALSE, d, FALSE), Literal(t)) = LS(Join(x, t), FALSE, e, FALSE)
<1> DEFINE Good(u) == \A y \in Text, f \in BOOLEAN : (f => ~Starts(u, "{")) =>
             \E e \in BOOLEAN :
               After("literal", LS(y, FALSE, f, FALSE), Literal(u)) = LS(Join(y, u), FALSE, e, FALSE)
           S == {u \in Text : Good(u)}
<1>1. <<>> \in S
  <2>1. \A y \in Text : Join(y, <<>>) = y
    BY TextIs
  <2>2. Good(<<>>)
    BY <2>1, LiteralLaws, AfterEmpty
  <2> QED BY <2>2, TextIs
<1>2. ASSUME NEW c \in Chars, NEW u \in Text, u \in S PROVE Cons(c, u) \in S
  <2> DEFINE w == Cons(c, u)
             v == Literal(u)
  <2>1. w \in Text /\ w[1] = c /\ w # <<>>
    BY TextIs
  <2>2. Literal(w) = InLiteral(c, u, v) /\ v \in Text /\ Cons(c, v) \in Text
    BY LiteralLaws, TextIs
  <2>3. Good(u)
    BY <1>2
  <2>4. ASSUME NEW y \in Text PROVE Append(y, c) \in Text /\ Join(Append(y, c), u) = Join(y, w)
    <3>1. Append(y, c) \in Text
      BY TextIs
    <3>2. Join(Append(y, c), u) = Join(y, w)
      BY TextJoins, ZenonT(60)
    <3> QED BY <3>1, <3>2
  <2> HIDE DEF w, v
  <2>5. ASSUME NEW y \in Text, NEW f \in BOOLEAN, f => ~Starts(w, "{")
        PROVE  \E e \in BOOLEAN :
                 After("literal", LS(y, FALSE, f, FALSE), Literal(w)) = LS(Join(y, w), FALSE, e, FALSE)
    <3>1. ~(c = "{" /\ f)
      BY <2>1, <2>5 DEF Starts
    <3>2. CASE c \in {"\\", "\""} \/ (c = "$" /\ Starts(u, "{"))
      <4>1. Literal(w) = Cons("\\", Cons(c, v))
        BY <2>2, <3>2 DEF InLiteral
      <4>2. After("literal", LS(y, FALSE, f, FALSE), Cons("\\", Cons(c, v)))
              = After("literal", LS(y, TRUE, FALSE, FALSE), Cons(c, v))
        <5>1. After("literal", LS(y, FALSE, f, FALSE), Cons("\\", Cons(c, v)))
                = After("literal", Step("literal", LS(y, FALSE, f, FALSE), "\\"), Cons(c, v))
          <6> DEFINE b == "\\"
                     z == Cons(c, v)
          <6>1. b \in Chars /\ z \in Text
            BY <2>2, Special
          <6> HIDE DEF b, z
          <6>2. After("literal", LS(y, FALSE, f, FALSE), Cons(b, z))
                  = After("literal", Step("literal", LS(y, FALSE, f, FALSE), b), z)
            BY <6>1, TextAfterCons
          <6> QED BY <6>2 DEF b, z
        <5>2. Step("literal", LS(y, FALSE, f, FALSE), "\\") = LS(y, TRUE, FALSE, FALSE)
          BY LiteralCharIs
        <5> QED BY <5>1, <5>2
      <4>3. After("literal", LS(y, TRUE, FALSE, FALSE), Cons(c, v))
              = After("literal", LS(Append(y, c), FALSE, FALSE, FALSE), v)
        <5>1. After("literal", LS(y, TRUE, FALSE, FALSE), Cons(c, v))
                = After("literal", Step("literal", LS(y, TRUE, FALSE, FALSE), c), v)
          BY <2>2, TextAfterCons
        <5>2. Step("literal", LS(y, TRUE, FALSE, FALSE), c) = LS(Append(y, c), FALSE, FALSE, FALSE)
          BY LiteralCharIs
        <5> QED BY <5>1, <5>2
      <4>4. PICK e \in BOOLEAN : After("literal", LS(Append(y, c), FALSE, FALSE, FALSE), v)
                                   = LS(Join(Append(y, c), u), FALSE, e, FALSE)
        BY <2>3, <2>4 DEF v
      <4> QED BY <2>4, <4>1, <4>2, <4>3, <4>4
    <3>3. CASE c \notin {"\\", "\""} /\ ~(c = "$" /\ Starts(u, "{"))
      <4>1. Literal(w) = Cons(c, v)
        BY <2>2, <3>3 DEF InLiteral
      <4>2. Step("literal", LS(y, FALSE, f, FALSE), c) = LS(Append(y, c), FALSE, c = "$", FALSE)
        BY <3>1, <3>3, LiteralCharIs, ZenonT(60)
      <4>3. After("literal", LS(y, FALSE, f, FALSE), Cons(c, v))
              = After("literal", LS(Append(y, c), FALSE, c = "$", FALSE), v)
        <5>1. After("literal", LS(y, FALSE, f, FALSE), Cons(c, v))
                = After("literal", Step("literal", LS(y, FALSE, f, FALSE), c), v)
          BY <2>2, TextAfterCons
        <5> QED BY <4>2, <5>1
      <4>4. (c = "$") \in BOOLEAN /\ ((c = "$") => ~Starts(u, "{"))
        BY <3>3
      <4>5. PICK e \in BOOLEAN : After("literal", LS(Append(y, c), FALSE, c = "$", FALSE), v)
                                   = LS(Join(Append(y, c), u), FALSE, e, FALSE)
        BY <2>3, <2>4, <4>4 DEF v
      <4> QED BY <2>4, <4>1, <4>3, <4>5
    <3> QED BY <3>2, <3>3
  <2>6. Good(w)
    BY <2>5
  <2> QED BY <2>1, <2>6 DEF w
<1> HIDE DEF S
<1>3. Text \subseteq S
  BY <1>1, <1>2, TextInd
<1>4. Good(t)
  BY <1>3 DEF S
<1> QED BY <1>4

\* A filter of GET /telemetry, quoted by flux_string(), is to Flux the text that was asked for.
THEOREM LiteralReadBack == \A t \in Text : ReadLiteral(FluxString(t)) = t
<1>1. SUFFICES ASSUME NEW t \in Text PROVE ReadLiteral(FluxString(t)) = t
  OBVIOUS
<1> DEFINE v == Literal(t)
           quote == <<"\"">>
           rest == Join(v, quote)
<1>2. v \in Text /\ quote \in Text /\ rest \in Text
  BY LiteralLaws, Special, TextIs
<1>3. FluxString(t) = Join(Join(quote, v), quote)
  BY DEF FluxString, Literal, Quoted, Join
<1>4. PICK e \in BOOLEAN : After("literal", LiteralStart, v) = LS(t, FALSE, e, FALSE)
  <2>1. LiteralStart = LS(<<>>, FALSE, FALSE, FALSE) /\ <<>> \in Text /\ Join(<<>>, t) = t
    BY TextIs DEF LiteralStart, LS
  <2> QED BY <2>1, LiteralRead
<1>5. quote = Cons("\"", <<>>) /\ Join(quote, rest) = Cons("\"", rest)
  BY OneIs, ConsIsJoin, Special
<1> HIDE DEF v, quote
<1>6. Tail(FluxString(t)) = rest
  <2>1. Join(Join(quote, v), quote) = Join(quote, rest)
    BY <1>2, TextJoins
  <2>2. Tail(Cons("\"", rest)) = rest
    BY <1>2, Special, TextIs
  <2> QED BY <1>3, <1>5, <2>1, <2>2
<1>7. After("literal", LiteralStart, rest) = After("literal", LS(t, FALSE, e, FALSE), quote)
  <2>1. After("literal", LiteralStart, rest)
          = After("literal", After("literal", LiteralStart, v), quote)
    BY <1>2, TextAfterJoin
  <2> QED BY <1>4, <2>1
<1>8. After("literal", LS(t, FALSE, e, FALSE), quote).text = t
  <2>1. After("literal", LS(t, FALSE, e, FALSE), quote)
          = Step("literal", LS(t, FALSE, e, FALSE), "\"")
    BY AfterOne DEF quote
  <2> QED BY <2>1, LiteralCharIs, ZenonT(60)
<1>9. LiteralAfter(LiteralStart, rest) = After("literal", LiteralStart, rest)
  BY <1>2, LiteralAfterIs DEF Text
<1> QED BY <1>6, <1>7, <1>8, <1>9 DEF ReadLiteral

-----------------------------------------------------------------------------
(* Line protocol: what is written of a reading is read as it *)

KeySpecial == {"\\", ",", "=", " "}
StringSpecial == {"\\", "\""}
ValueSpecial == {"\\", "\"", ",", " "}

\* Reading the text x in a mode, with o as the other of key and value.
Midway(d, o, x, mode, before) ==
  IF mode = "key" THEN Parsed(d, x, o, mode, before) ELSE Parsed(d, o, x, mode, before)

SpecialOf(mode) == CASE mode = "key" -> KeySpecial
                     [] mode = "string" -> StringSpecial
                     [] mode = "value" -> ValueSpecial
\* Append, as an operator that the provers do not open.
Appended(x, c) == Append(x, c)
Modes == {"key", "string", "value"}

LEMMA ParsedIs ==
  ASSUME NEW d, NEW k, NEW v, NEW mode, NEW e
  PROVE  /\ Parsed(d, k, v, mode, e).mode = mode /\ Parsed(d, k, v, mode, e).before = e
         /\ Parsed(d, k, v, mode, e).done = d
         /\ Parsed(d, k, v, mode, e).key = k /\ Parsed(d, k, v, mode, e).value = v
BY DEF Parsed

LEMMA MidwayIs ==
  ASSUME NEW d, NEW o, NEW x, NEW mode, NEW e
  PROVE  /\ Midway(d, o, x, mode, e).mode = mode /\ Midway(d, o, x, mode, e).before = e
         /\ LET s == Midway(d, o, x, mode, e)
            IN  Parsed(s.done, s.key, s.value, s.mode, Backslash) = Midway(d, o, x, mode, Backslash)
<1>1. CASE mode = "key"
  BY <1>1, ParsedIs DEF Midway
<1>2. CASE mode # "key"
  BY <1>2, ParsedIs DEF Midway
<1> QED BY <1>1, <1>2

LEMMA AddedIs ==
  ASSUME NEW d, NEW o, NEW x, NEW mode, NEW e, NEW c
  PROVE  Added(Midway(d, o, x, mode, e), c, mode) = Midway(d, o, Appended(x, c), mode, Nothing)
<1> DEFINE s == Midway(d, o, x, mode, e)
<1>1. CASE mode = "key"
  <2>1. s.done = d /\ s.key = x /\ s.value = o /\ s.mode = "key"
    BY <1>1, ParsedIs DEF Midway
  <2>2. Midway(d, o, Appended(x, c), mode, Nothing) = Parsed(d, Appended(x, c), o, mode, Nothing)
    BY <1>1 DEF Midway
  <2> HIDE DEF s
  <2>3. Added(s, c, mode) = Parsed(d, Appended(x, c), o, mode, Nothing)
    BY <2>1 DEF Added, Appended
  <2> QED BY <2>2, <2>3 DEF s
<1>2. CASE mode # "key"
  <2>1. s.done = d /\ s.key = o /\ s.value = x /\ s.mode # "key"
    BY <1>2, ParsedIs DEF Midway
  <2>2. Midway(d, o, Appended(x, c), mode, Nothing) = Parsed(d, o, Appended(x, c), mode, Nothing)
    BY <1>2 DEF Midway
  <2> HIDE DEF s
  <2>3. Added(s, c, mode) = Parsed(d, o, Appended(x, c), mode, Nothing)
    BY <2>1 DEF Added, Appended
  <2> QED BY <2>2, <2>3 DEF s
<1> QED BY <1>1, <1>2

LEMMA CharEscapes ==
  ASSUME NEW d, NEW o, NEW x, NEW mode \in Modes
  PROVE  Step("fields", Midway(d, o, x, mode, Nothing), "\\") = Midway(d, o, x, mode, Backslash)
<1> DEFINE s == Midway(d, o, x, mode, Nothing)
<1>1. s.mode = mode /\ s.before = Nothing /\ Parsed(s.done, s.key, s.value, s.mode, Backslash)
         = Midway(d, o, x, mode, Backslash)
  BY MidwayIs
<1> HIDE DEF s
<1>2. ReadChar(s, "\\") = Midway(d, o, x, mode, Backslash)
  BY <1>1 DEF ReadChar, Modes, Nothing, Backslash
<1> QED BY <1>2 DEF Step, s

LEMMA CharIsEscaped ==
  ASSUME NEW d, NEW o, NEW x, NEW mode \in Modes, NEW c
  PROVE  Step("fields", Midway(d, o, x, mode, Backslash), c)
            = Midway(d, o, Appended(x, c), mode, Nothing)
<1> DEFINE s == Midway(d, o, x, mode, Backslash)
<1>1. s.mode = mode /\ s.before = Backslash /\ Added(s, c, s.mode)
         = Midway(d, o, Appended(x, c), mode, Nothing)
  BY MidwayIs, AddedIs
<1> HIDE DEF s
<1>2. ReadChar(s, c) = Added(s, c, s.mode)
  BY <1>1 DEF ReadChar, Modes, Nothing, Backslash
<1> QED BY <1>1, <1>2 DEF Step, s

LEMMA CharIsPlain ==
  ASSUME NEW d, NEW o, NEW x, NEW mode \in Modes, NEW c, c \notin SpecialOf(mode)
  PROVE  Step("fields", Midway(d, o, x, mode, Nothing), c) = Midway(d, o, Appended(x, c), mode, Nothing)
<1> DEFINE s == Midway(d, o, x, mode, Nothing)
<1>1. s.mode = mode /\ s.before = Nothing /\ Added(s, c, s.mode)
         = Midway(d, o, Appended(x, c), mode, Nothing)
  BY MidwayIs, AddedIs
<1> HIDE DEF s
<1>2. ReadChar(s, c) = Added(s, c, s.mode)
  <2>1. CASE mode = "key"
    BY <1>1, <2>1 DEF ReadChar, Nothing, Backslash, SpecialOf, KeySpecial
  <2>2. CASE mode = "string"
    BY <1>1, <2>2 DEF ReadChar, Nothing, Backslash, SpecialOf, StringSpecial
  <2>3. CASE mode = "value"
    BY <1>1, <2>3 DEF ReadChar, Nothing, Backslash, SpecialOf, ValueSpecial
  <2> QED BY <2>1, <2>2, <2>3 DEF Modes
<1> QED BY <1>1, <1>2 DEF Step, s

LEMMA Separators ==
  ASSUME NEW d, NEW k, NEW v
  PROVE  /\ Step("fields", Parsed(d, k, v, "key", Nothing), "=") = Parsed(d, k, v, "value", Nothing)
         /\ Step("fields", Parsed(d, k, v, "value", Nothing), "\"")
              = Parsed(d, k, Append(v, "\""), "string", Nothing)
         /\ Step("fields", Parsed(d, k, v, "string", Nothing), "\"")
              = Parsed(d, k, Append(v, "\""), "value", Nothing)
         /\ Step("fields", Parsed(d, k, v, "value", Nothing), ",")
              = FieldStart(Append(d, [name |-> k, value |-> v]))
<1> DEFINE s(m) == Parsed(d, k, v, m, Nothing)
           w == Append(v, "\"")
           more == Append(d, [name |-> k, value |-> v])
<1>1. ASSUME NEW m
      PROVE  /\ s(m).done = d /\ s(m).key = k /\ s(m).value = v /\ s(m).mode = m
             /\ s(m).before = Nothing
  BY ParsedIs
<1> HIDE DEF s
<1>2. ReadChar(s("key"), "=") = Parsed(d, k, v, "value", Nothing)
  BY <1>1 DEF ReadChar, Nothing, Backslash
<1>3. ReadChar(s("value"), "\"") = Parsed(d, k, w, "string", Nothing)
  BY <1>1 DEF ReadChar, Nothing, Backslash, Added
<1>4. ReadChar(s("string"), "\"") = Parsed(d, k, w, "value", Nothing)
  BY <1>1 DEF ReadChar, Nothing, Backslash, Added
<1>5. ReadChar(s("value"), ",") = FieldStart(more)
  BY <1>1 DEF ReadChar, Nothing, Backslash, Done
<1> QED BY <1>2, <1>3, <1>4, <1>5 DEF Step, s

LEMMA EscapedRead ==
  ASSUME NEW d, NEW o, NEW mode \in Modes, NEW x \in Text, NEW t \in Text
  PROVE  After("fields", Midway(d, o, x, mode, Nothing), Escape(t, SpecialOf(mode)))
           = Midway(d, o, Join(x, t), mode, Nothing)
<1> DEFINE special == SpecialOf(mode)
           Good(u) == \A y \in Text :
             After("fields", Midway(d, o, y, mode, Nothing), Escape(u, special))
               = Midway(d, o, Join(y, u), mode, Nothing)
           S == {u \in Text : Good(u)}
<1>1. <<>> \in S
  <2>1. \A y \in Text : Join(y, <<>>) = y
    BY TextIs
  <2>2. Good(<<>>)
    BY <2>1, EscapeLaws, AfterEmpty
  <2> QED BY <2>2, TextIs
<1>2. ASSUME NEW c \in Chars, NEW u \in Text, u \in S PROVE Cons(c, u) \in S
  <2> DEFINE v == Escape(u, special)
             w == Cons(c, u)
  <2>1. Escape(w, special) = Escaped(c, special, v) /\ v \in Text /\ w \in Text
    BY EscapeLaws, TextIs
  <2>2. Good(u)
    BY <1>2
  <2> HIDE DEF w
  <2>3. ASSUME NEW y \in Text
        PROVE  After("fields", Midway(d, o, y, mode, Nothing), Escape(w, special))
                 = Midway(d, o, Join(y, w), mode, Nothing)
    <3>1. Append(y, c) \in Text
      BY TextIs
    <3>2. Join(Append(y, c), u) = Join(y, w)
      BY TextJoins, ZenonT(60) DEF w
    <3>3. After("fields", Midway(d, o, Append(y, c), mode, Nothing), v)
            = Midway(d, o, Join(Append(y, c), u), mode, Nothing)
      BY <2>2, <3>1
    <3> HIDE DEF v, special
    <3>4. CASE c \in special
      <4> DEFINE b == "\\"
                 z == Cons(c, v)
      <4>1. b \in Chars /\ z \in Text /\ Escape(w, special) = Cons(b, z)
        BY <2>1, <3>4, Special, TextIs DEF Escaped
      <4>2. Step("fields", Midway(d, o, y, mode, Nothing), b) = Midway(d, o, y, mode, Backslash)
        BY CharEscapes
      <4> HIDE DEF b
      <4>3. After("fields", Midway(d, o, y, mode, Backslash), z)
              = After("fields", Step("fields", Midway(d, o, y, mode, Backslash), c), v)
        BY <2>1, TextAfterCons
      <4> HIDE DEF z
      <4>4. After("fields", Midway(d, o, y, mode, Nothing), Cons(b, z))
              = After("fields", Step("fields", Midway(d, o, y, mode, Nothing), b), z)
        BY <4>1, TextAfterCons
      <4>5. Step("fields", Midway(d, o, y, mode, Backslash), c)
               = Midway(d, o, Append(y, c), mode, Nothing)
        <5>1. Step("fields", Midway(d, o, y, mode, Backslash), c)
                 = Midway(d, o, Appended(y, c), mode, Nothing)
          BY CharIsEscaped
        <5> QED BY <5>1 DEF Appended
      <4> QED BY <3>2, <3>3, <4>1, <4>2, <4>3, <4>4, <4>5
    <3>5. CASE c \notin special
      <4>1. Escape(w, special) = Cons(c, v)
        BY <2>1, <3>5 DEF Escaped
      <4>2. Step("fields", Midway(d, o, y, mode, Nothing), c) = Midway(d, o, Append(y, c), mode, Nothing)
        <5>1. c \notin SpecialOf(mode)
          BY <3>5 DEF special
        <5>2. Step("fields", Midway(d, o, y, mode, Nothing), c)
                 = Midway(d, o, Appended(y, c), mode, Nothing)
          BY <5>1, CharIsPlain
        <5> QED BY <5>2 DEF Appended
      <4>3. After("fields", Midway(d, o, y, mode, Nothing), Cons(c, v))
              = After("fields", Step("fields", Midway(d, o, y, mode, Nothing), c), v)
        BY <2>1, TextAfterCons
      <4> QED BY <3>2, <3>3, <4>1, <4>2, <4>3
    <3> QED BY <3>4, <3>5
  <2>4. Good(w)
    BY <2>3
  <2> QED BY <2>1, <2>4 DEF w
<1> HIDE DEF S
<1>3. Text \subseteq S
  BY <1>1, <1>2, TextInd
<1>4. Good(t)
  BY <1>3 DEF S
<1> QED BY <1>4

LEMMA NothingEscaped ==
  ASSUME NEW special, NEW t \in Text, \A i \in 1 .. Len(t) : t[i] \notin special
  PROVE  Escape(t, special) = t
<1> DEFINE S == {u \in Text : (\A i \in 1 .. Len(u) : u[i] \notin special) => Escape(u, special) = u}
<1>1. <<>> \in S
  BY EscapeLaws, TextIs
<1>2. ASSUME NEW c \in Chars, NEW u \in Text, u \in S PROVE Cons(c, u) \in S
  <2> DEFINE w == Cons(c, u)
  <2>1. /\ w \in Text /\ Len(w) = Len(u) + 1 /\ w[1] = c /\ Len(u) \in Nat
        /\ \A i \in 1 .. Len(u) : w[i + 1] = u[i]
    BY TextIs
  <2>2. Escape(w, special) = Escaped(c, special, Escape(u, special))
    BY EscapeLaws
  <2> HIDE DEF w
  <2>3. ASSUME \A i \in 1 .. Len(w) : w[i] \notin special PROVE Escape(w, special) = w
    <3>1. c \notin special
      BY <2>1, <2>3
    <3>2. ASSUME NEW i \in 1 .. Len(u) PROVE u[i] \notin special
      <4>1. i + 1 \in 1 .. Len(w) /\ w[i + 1] = u[i]
        BY <2>1
      <4> QED BY <2>3, <4>1
    <3>3. Escape(u, special) = u
      BY <1>2, <3>2
    <3> QED BY <2>2, <3>1, <3>3 DEF Escaped, w
  <2> QED BY <2>1, <2>3 DEF w
<1> HIDE DEF S
<1>3. Text \subseteq S
  BY <1>1, <1>2, TextInd
<1> QED BY <1>3 DEF S

\* A value as it stands on the wire, and as it is stored.
Wire(v) == IF v.kind = "str" THEN Append(Join(<<"\"">>, Clean(v.text)), "\"") ELSE v.text
StoredType(v) == CASE v.kind = "str" -> "string" [] v.kind = "bool" -> "boolean" [] OTHER -> "double"
StoredText(v) == IF v.kind = "str" THEN Clean(v.text) ELSE v.text

LEMMA ValueFacts ==
  ASSUME NEW v \in Value
  PROVE  /\ v.text \in Text /\ v.kind \in {"str", "bool", "int", "float"}
         /\ v = [kind |-> v.kind, text |-> v.text]
         /\ v.kind = "bool" => v.text \in {<<"true">>, <<"false">>}
         /\ v.kind \in {"int", "float"} => v.text \notin {<<"true">>, <<"false">>}
         /\ v.kind # "str" => v.text # <<>> /\ \A i \in 1 .. Len(v.text) : v.text[i] \notin ValueSpecial
<1>1. CASE v \in [kind : {"str"}, text : Text]
  BY <1>1
<1>2. CASE v \in [kind : {"bool"}, text : {<<"true">>, <<"false">>}]
  <2>1. v.kind = "bool" /\ v = [kind |-> v.kind, text |-> v.text]
        /\ v.text \in {<<"true">>, <<"false">>}
    BY <1>2
  <2>2. v.text \in Text
    <3>1. <<"true">> \in Text /\ <<"false">> \in Text
      BY Special, TextIs
    <3> QED BY <2>1, <3>1
  <2>3. v.text # <<>> /\ \A i \in 1 .. Len(v.text) : v.text[i] \notin ValueSpecial
    <3>1. \A t \in {<<"true">>, <<"false">>} :
            t # <<>> /\ \A i \in 1 .. Len(t) : t[i] \notin ValueSpecial
      <4>1. ASSUME NEW c, c \in {"true", "false"}, NEW i \in 1 .. Len(<<c>>)
            PROVE  <<c>>[i] \notin ValueSpecial
        <5>1. i = 1 /\ <<c>>[1] = c
          BY <4>1
        <5>2. c \notin ValueSpecial
          BY <4>1 DEF ValueSpecial
        <5> QED BY <5>1, <5>2
      <4>2. \A c : <<c>> # <<>>
        OBVIOUS
      <4> QED BY <4>1, <4>2
    <3> QED BY <2>1, <3>1
  <2> QED BY <2>1, <2>2, <2>3
<1>3. CASE v \in [kind : {"int", "float"}, text : Numeral]
  <2>1. v.kind \in {"int", "float"} /\ v = [kind |-> v.kind, text |-> v.text] /\ v.text \in Numeral
    BY <1>3
  <2>2. /\ v.text \in Text /\ v.text # <<>>
        /\ \A i \in DOMAIN v.text :
             v.text[i] \notin {"\\", "\"", ",", "=", " ", "true", "false"}
    BY <2>1 DEF Numeral
  <2>3. DOMAIN v.text = 1 .. Len(v.text)
    <3> DEFINE t == v.text
    <3>1. t \in Seq(Chars)
      BY <2>2 DEF Text
    <3> HIDE DEF t
    <3>2. DOMAIN t = 1 .. Len(t)
      BY <3>1
    <3> QED BY <3>2 DEF t
  <2>4. v.text \notin {<<"true">>, <<"false">>}
    <3>1. ASSUME v.text \in {<<"true">>, <<"false">>} PROVE FALSE
      <4>1. 1 \in DOMAIN v.text /\ v.text[1] \in {"true", "false"}
        BY <3>1
      <4> QED BY <2>2, <4>1
    <3> QED BY <3>1
  <2> QED BY <2>1, <2>2, <2>3, <2>4 DEF ValueSpecial
<1> QED BY <1>1, <1>2, <1>3 DEF Value

LEMMA KeyRead ==
  ASSUME NEW d, NEW n \in Text
  PROVE  /\ Key(n) \in Text
         /\ After("fields", FieldStart(d), Key(n)) = Parsed(d, Clean(n), <<>>, "key", Nothing)
<1> DEFINE u == Clean(n)
           mode == "key"
           e == <<>>
<1>1. u \in Text /\ e \in Text /\ mode \in Modes
  BY CleanType, TextIs DEF Modes
<1>2. /\ FieldStart(d) = Midway(d, e, e, mode, Nothing)
      /\ Key(n) = Escape(u, SpecialOf(mode))
      /\ Midway(d, e, u, mode, Nothing) = Parsed(d, u, e, mode, Nothing)
  BY DEF FieldStart, Midway, Key, SpecialOf, KeySpecial
<1> HIDE DEF u, mode, e
<1>3. After("fields", Midway(d, e, e, mode, Nothing), Escape(u, SpecialOf(mode)))
        = Midway(d, e, Join(e, u), mode, Nothing)
  BY <1>1, EscapedRead
<1>4. Join(e, u) = u
  BY <1>1, TextIs DEF e
<1>5. Escape(u, SpecialOf(mode)) \in Text
  BY <1>1, EscapeLaws
<1> QED BY <1>2, <1>3, <1>4, <1>5 DEF u, e, mode

LEMMA StringRead ==
  ASSUME NEW d, NEW k, NEW v \in Value, v.kind = "str"
  PROVE  /\ FieldValue(v) \in Text
         /\ After("fields", Parsed(d, k, <<>>, "value", Nothing), FieldValue(v))
              = Parsed(d, k, Wire(v), "value", Nothing)
<1> DEFINE q == "\""
           u == Clean(v.text)
           mode == "string"
           special == SpecialOf(mode)
           E == Escape(u, special)
           x == <<q>>
<1>1. v.text \in Text
  BY ValueFacts
<1>2. u \in Text /\ q \in Chars /\ x \in Text /\ mode \in Modes
  BY <1>1, CleanType, Special, TextIs DEF Modes
<1>3. E \in Text
  BY <1>2, EscapeLaws
<1>4. FieldValue(v) = Join(Join(x, E), x)
  BY DEF FieldValue, Join, SpecialOf, StringSpecial
<1>5. Wire(v) = Append(Join(x, u), q) /\ x = Append(<<>>, q)
  BY DEF Wire
<1> HIDE DEF E, u, special
<1>6. Join(x, E) \in Text /\ Join(Join(x, E), x) \in Text /\ Join(x, u) \in Text
  BY <1>2, <1>3, TextIs
<1>7. Step("fields", Parsed(d, k, <<>>, "value", Nothing), q)
         = Parsed(d, k, Append(<<>>, q), mode, Nothing)
  BY Separators
<1>8. Step("fields", Parsed(d, k, Join(x, u), mode, Nothing), q)
        = Parsed(d, k, Append(Join(x, u), q), "value", Nothing)
  BY Separators
<1>9. /\ Midway(d, k, x, mode, Nothing) = Parsed(d, k, x, mode, Nothing)
      /\ Midway(d, k, Join(x, u), mode, Nothing) = Parsed(d, k, Join(x, u), mode, Nothing)
  BY DEF Midway
<1> DEFINE s0 == Parsed(d, k, <<>>, "value", Nothing)
           s1 == Parsed(d, k, x, mode, Nothing)
           s2 == Parsed(d, k, Join(x, u), mode, Nothing)
<1>10. After("fields", s0, x) = s1
  BY <1>5, <1>7, AfterOne
<1>11. After("fields", s2, x) = Parsed(d, k, Wire(v), "value", Nothing)
  BY <1>5, <1>8, AfterOne
<1>12. After("fields", s1, E) = s2
  <2>1. After("fields", Midway(d, k, x, mode, Nothing), Escape(u, SpecialOf(mode)))
          = Midway(d, k, Join(x, u), mode, Nothing)
    <3> HIDE DEF mode, x
    <3> QED BY <1>2, EscapedRead
  <2> QED BY <2>1, <1>9 DEF E, special
<1>13. x \in Text /\ E \in Text /\ Join(x, E) \in Text
  BY <1>2, <1>3, <1>6
<1> HIDE DEF x, s0, s1, s2, mode, q
<1>14. After("fields", s0, Join(x, E)) = After("fields", After("fields", s0, x), E)
  BY <1>13, TextAfterJoin
<1>15. After("fields", s0, Join(Join(x, E), x)) = After("fields", After("fields", s0, Join(x, E)), x)
  BY <1>13, TextAfterJoin
<1> QED BY <1>4, <1>6, <1>10, <1>11, <1>12, <1>14, <1>15 DEF s0

LEMMA ValueRead ==
  ASSUME NEW d, NEW k, NEW v \in Value
  PROVE  /\ FieldValue(v) \in Text /\ Wire(v) \in Text /\ Wire(v) # <<>>
         /\ After("fields", Parsed(d, k, <<>>, "value", Nothing), FieldValue(v))
              = Parsed(d, k, Wire(v), "value", Nothing)
<1> DEFINE t == v.text
<1>1. t \in Text
  BY ValueFacts
<1>2. CASE v.kind = "str"
  <2>1. Wire(v) \in Text /\ Wire(v) # <<>>
    <3> DEFINE q == "\""
               x == <<q>>
               u == Join(x, Clean(t))
    <3>1. q \in Chars /\ x \in Text /\ Clean(t) \in Text
      BY <1>1, Special, TextIs, CleanType
    <3>2. u \in Text
      BY <3>1, TextIs
    <3>3. Wire(v) = Append(u, q)
      BY <1>2 DEF Wire
    <3> HIDE DEF u, q
    <3>4. Append(u, q) # <<>>
      <4>1. u \in Seq(Chars)
        BY <3>2 DEF Text
      <4>2. Len(Append(u, q)) = Len(u) + 1 /\ Len(u) \in Nat
        BY <4>1
      <4>3. Len(<<>>) = 0
        OBVIOUS
      <4> QED BY <4>2, <4>3
    <3>5. Append(u, q) \in Text
      BY <3>1, <3>2, TextIs
    <3> QED BY <3>3, <3>4, <3>5
  <2> QED BY <1>2, <2>1, StringRead
<1>3. CASE v.kind # "str"
  <2> DEFINE mode == "value"
             e == <<>>
  <2>1. FieldValue(v) = t /\ Wire(v) = t
    BY <1>3 DEF FieldValue, Wire
  <2>2. t # <<>> /\ \A i \in 1 .. Len(t) : t[i] \notin ValueSpecial
    BY <1>3, ValueFacts
  <2> HIDE DEF t
  <2>3. Escape(t, ValueSpecial) = t
    BY <1>1, <2>2, NothingEscaped
  <2>4. /\ mode \in Modes /\ e \in Text /\ SpecialOf(mode) = ValueSpecial
        /\ Midway(d, k, e, mode, Nothing) = Parsed(d, k, e, mode, Nothing)
        /\ Midway(d, k, t, mode, Nothing) = Parsed(d, k, t, mode, Nothing)
    BY TextIs DEF Modes, SpecialOf, Midway
  <2> HIDE DEF mode, e
  <2>5. After("fields", Midway(d, k, e, mode, Nothing), Escape(t, SpecialOf(mode)))
          = Midway(d, k, Join(e, t), mode, Nothing)
    BY <1>1, <2>4, EscapedRead
  <2>6. Join(e, t) = t
    BY <1>1, TextIs DEF e
  <2> QED BY <1>1, <2>1, <2>2, <2>3, <2>4, <2>5, <2>6 DEF e, mode
<1> QED BY <1>2, <1>3

\* A field on its line.
FieldText(name, v) == Key(name) \o <<"=">> \o FieldValue(v)

LEMMA FieldRead ==
  ASSUME NEW d, NEW n \in Text, NEW v \in Value
  PROVE  /\ FieldText(n, v) \in Text
         /\ After("fields", FieldStart(d), FieldText(n, v))
              = Parsed(d, Clean(n), Wire(v), "value", Nothing)
<1> DEFINE K == Key(n)
           V == FieldValue(v)
           sign == <<"=">>
           s0 == FieldStart(d)
           s1 == Parsed(d, Clean(n), <<>>, "key", Nothing)
           s2 == Parsed(d, Clean(n), <<>>, "value", Nothing)
<1>1. K \in Text /\ After("fields", s0, K) = s1
  BY KeyRead
<1>2. V \in Text /\ After("fields", s2, V) = Parsed(d, Clean(n), Wire(v), "value", Nothing)
  BY ValueRead
<1>3. sign \in Text
  BY Special, TextIs
<1>4. After("fields", s1, sign) = s2
  BY Separators, AfterOne, ZenonT(60)
<1>5. FieldText(n, v) = Join(Join(K, sign), V)
  BY DEF FieldText, Join
<1> HIDE DEF K, V, sign, s0, s1, s2
<1>6. Join(K, sign) \in Text /\ Join(Join(K, sign), V) \in Text
  BY <1>1, <1>2, <1>3, TextIs
<1>7. After("fields", s0, Join(K, sign)) = After("fields", After("fields", s0, K), sign)
  BY <1>1, <1>3, TextAfterJoin
<1>8. After("fields", s0, Join(Join(K, sign), V))
         = After("fields", After("fields", s0, Join(K, sign)), V)
  BY <1>2, <1>6, TextAfterJoin
<1> QED BY <1>1, <1>2, <1>4, <1>5, <1>6, <1>7, <1>8 DEF s0

LEMMA ReadValueIs ==
  ASSUME NEW v \in Value
  PROVE  ReadValue(Wire(v)) = [type |-> StoredType(v), text |-> StoredText(v)]
<1> DEFINE w == Wire(v)
           t == v.text
<1>1. w \in Text /\ w # <<>> /\ t \in Text
  BY ValueRead, ValueFacts
<1>2. CASE v.kind = "str"
  <2> DEFINE q == "\""
             u == Clean(t)
             x == Join(<<q>>, u)
  <2>1. u \in Text /\ q \in Chars
    BY <1>1, CleanType, Special
  <2>2. w = Append(x, q)
    BY <1>2 DEF Wire
  <2>3. u \in Seq(Chars)
    BY <2>1 DEF Text
  <2>4. x = <<q>> \o u
    BY DEF Join
  <2> HIDE DEF u, q, x
  <2>5. x \in Seq(Chars) /\ Len(x) = Len(u) + 1 /\ x[1] = q /\ \A i \in 1 .. Len(u) : x[i + 1] = u[i]
    BY <2>1, <2>3, <2>4
  <2> HIDE DEF w
  <2>6. /\ Len(w) = Len(u) + 2 /\ Len(u) \in Nat /\ w \in Seq(Chars)
        /\ \A i \in 1 .. Len(x) : w[i] = x[i]
    BY <2>1, <2>2, <2>3, <2>5
  <2>7. Head(w) = q
    BY <2>5, <2>6
  <2>8. SubSeq(w, 2, Len(w) - 1) = u
    <3> DEFINE y == SubSeq(w, 2, Len(w) - 1)
    <3>1. y \in Seq(Chars) /\ Len(y) = Len(u) /\ \A i \in 1 .. Len(y) : y[i] = w[i + 1]
      BY <2>6
    <3> HIDE DEF y
    <3>2. ASSUME NEW i \in 1 .. Len(y) PROVE y[i] = u[i]
      <4>1. i + 1 \in 1 .. Len(x) /\ i \in 1 .. Len(u)
        BY <2>5, <3>1, <2>6
      <4> QED BY <4>1, <3>1, <2>5, <2>6
    <3>3. y = u
      BY <2>3, <3>1, <3>2, SeqEqual
    <3> QED BY <3>3 DEF y
  <2> QED BY <1>2, <2>7, <2>8 DEF ReadValue, StoredType, StoredText, q, u, w
<1>3. CASE v.kind # "str"
  <2>1. w = t /\ StoredText(v) = t
    BY <1>3 DEF Wire, StoredText
  <2>2. Head(t) # "\""
    <3>1. t # <<>> /\ \A i \in 1 .. Len(t) : t[i] \notin ValueSpecial
      BY <1>3, ValueFacts
    <3>2. t \in Seq(Chars)
      BY <1>1 DEF Text
    <3> HIDE DEF t
    <3>3. 1 \in 1 .. Len(t) /\ Head(t) = t[1]
      BY <3>1, <3>2
    <3> QED BY <3>1, <3>3 DEF ValueSpecial
  <2>3. StoredType(v) = IF t \in {<<"true">>, <<"false">>} THEN "boolean" ELSE "double"
    <3>1. CASE v.kind = "bool"
      <4>1. t \in {<<"true">>, <<"false">>}
        BY <3>1, ValueFacts
      <4> HIDE DEF t
      <4> QED BY <3>1, <4>1 DEF StoredType
    <3>2. CASE v.kind # "bool"
      <4>1. t \notin {<<"true">>, <<"false">>}
        BY <1>3, <3>2, ValueFacts
      <4> HIDE DEF t
      <4> QED BY <1>3, <3>2, <4>1 DEF StoredType
    <3> QED BY <3>1, <3>2
  <2> HIDE DEF t, w
  <2> QED BY <2>1, <2>2, <2>3 DEF ReadValue, w
<1> QED BY <1>2, <1>3

-----------------------------------------------------------------------------
(* A function applied to every element of a sequence *)

Mapped(f, s) == [i \in 1 .. Len(s) |-> f[s[i]]]

LEMMA MappedType ==
  ASSUME NEW X, NEW Y, NEW f \in [X -> Y], NEW s \in Seq(X)
  PROVE  Mapped(f, s) \in Seq(Y)
<1>1. Len(s) \in Nat /\ \A i \in 1 .. Len(s) : s[i] \in X
  OBVIOUS
<1>2. \A i \in 1 .. Len(s) : f[s[i]] \in Y
  BY <1>1
<1> QED BY <1>1, <1>2 DEF Mapped

LEMMA MappedIs ==
  ASSUME NEW X, NEW f, NEW s \in Seq(X)
  PROVE  /\ Len(Mapped(f, s)) = Len(s)
         /\ \A i \in 1 .. Len(s) : Mapped(f, s)[i] = f[s[i]]
BY DEF Mapped

LEMMA MappedEmpty ==
  ASSUME NEW f
  PROVE  Mapped(f, <<>>) = <<>>
BY DEF Mapped

LEMMA MappedSome ==
  ASSUME NEW X, NEW f, NEW s \in Seq(X)
  PROVE  Mapped(f, s) \in Seq({f[x] : x \in X})
<1> DEFINE Y == {f[x] : x \in X}
<1>1. Len(s) \in Nat /\ \A i \in 1 .. Len(s) : s[i] \in X
  OBVIOUS
<1>2. \A i \in 1 .. Len(s) : f[s[i]] \in Y
  BY <1>1
<1> HIDE DEF Y
<1>3. Mapped(f, s) \in Seq(Y)
  BY <1>1, <1>2 DEF Mapped
<1> QED BY <1>3 DEF Y

LEMMA MappedCons ==
  ASSUME NEW X, NEW f, NEW c \in X, NEW s \in Seq(X)
  PROVE  Mapped(f, Cons(c, s)) = Cons(f[c], Mapped(f, s))
<1> DEFINE Y == {f[x] : x \in X}
           w == Cons(c, s)
           m == Mapped(f, s)
           mw == Mapped(f, w)
<1>1. w \in Seq(X) /\ Len(w) = Len(s) + 1 /\ w[1] = c /\ (\A i \in 1 .. Len(s) : w[i + 1] = s[i])
      /\ Len(s) \in Nat
  BY ConsIs
<1> HIDE DEF w
<1>2. m \in Seq(Y) /\ Len(m) = Len(s) /\ \A i \in 1 .. Len(s) : m[i] = f[s[i]]
  BY MappedIs, MappedSome
<1>3. mw \in Seq(Y) /\ Len(mw) = Len(w) /\ \A i \in 1 .. Len(w) : mw[i] = f[w[i]]
  BY <1>1, MappedIs, MappedSome
<1> HIDE DEF m, mw
<1>4. 1 \in 1 .. Len(w) /\ \A i \in 1 .. Len(s) : i + 1 \in 1 .. Len(w)
  BY <1>1
<1>5. Len(mw) = Len(m) + 1 /\ mw[1] = f[c] /\ \A i \in 1 .. Len(m) : mw[i + 1] = m[i]
  BY <1>1, <1>2, <1>3, <1>4
<1>6. f[c] \in Y
  OBVIOUS
<1>7. mw = Cons(f[c], m)
  BY <1>2, <1>3, <1>5, <1>6, IsCons
<1> QED BY <1>7 DEF mw, m, w

LEMMA MappedJoin ==
  ASSUME NEW X, NEW f, NEW s \in Seq(X), NEW t \in Seq(X)
  PROVE  Mapped(f, Join(s, t)) = Join(Mapped(f, s), Mapped(f, t))
<1> DEFINE Y == {f[x] : x \in X}
           w == Join(s, t)
           ms == Mapped(f, s)
           mt == Mapped(f, t)
           mw == Mapped(f, w)
           j == Join(ms, mt)
<1>1. /\ w \in Seq(X) /\ Len(w) = Len(s) + Len(t) /\ Len(s) \in Nat /\ Len(t) \in Nat
      /\ (\A i \in 1 .. Len(s) : w[i] = s[i]) /\ \A i \in 1 .. Len(t) : w[Len(s) + i] = t[i]
  <2>1. w \in Seq(X) /\ Len(w) = Len(s) + Len(t) /\ Len(s) \in Nat /\ Len(t) \in Nat
    BY JoinIs
  <2>2. \A i \in 1 .. Len(s) : w[i] = s[i]
    BY JoinIs
  <2>3. \A i \in 1 .. Len(t) : w[Len(s) + i] = t[i]
    BY JoinIs
  <2> QED BY <2>1, <2>2, <2>3
<1> HIDE DEF w
<1>2. /\ ms \in Seq(Y) /\ Len(ms) = Len(s) /\ (\A i \in 1 .. Len(s) : ms[i] = f[s[i]])
      /\ mt \in Seq(Y) /\ Len(mt) = Len(t) /\ \A i \in 1 .. Len(t) : mt[i] = f[t[i]]
  <2>1. ms \in Seq(Y) /\ Len(ms) = Len(s) /\ (\A i \in 1 .. Len(s) : ms[i] = f[s[i]])
    BY MappedIs, MappedSome
  <2>2. mt \in Seq(Y) /\ Len(mt) = Len(t) /\ \A i \in 1 .. Len(t) : mt[i] = f[t[i]]
    BY MappedIs, MappedSome
  <2> QED BY <2>1, <2>2
<1>3. mw \in Seq(Y) /\ Len(mw) = Len(w) /\ \A i \in 1 .. Len(w) : mw[i] = f[w[i]]
  <2>1. w \in Seq(X)
    BY <1>1
  <2> QED BY <2>1, MappedIs, MappedSome
<1> HIDE DEF ms, mt, mw
<1>4. /\ j \in Seq(Y) /\ Len(j) = Len(ms) + Len(mt)
      /\ (\A i \in 1 .. Len(ms) : j[i] = ms[i]) /\ \A i \in 1 .. Len(mt) : j[Len(ms) + i] = mt[i]
  <2>0. ms \in Seq(Y) /\ mt \in Seq(Y)
    BY <1>2
  <2>1. j \in Seq(Y) /\ Len(j) = Len(ms) + Len(mt)
    BY <2>0, JoinIs
  <2>2. \A i \in 1 .. Len(ms) : j[i] = ms[i]
    BY <2>0, JoinIs
  <2>3. \A i \in 1 .. Len(mt) : j[Len(ms) + i] = mt[i]
    BY <2>0, JoinIs
  <2> QED BY <2>1, <2>2, <2>3
<1> HIDE DEF j
<1> HIDE DEF Y
<1>5. ASSUME NEW i \in 1 .. Len(mw) PROVE mw[i] = j[i]
  <2>1. CASE i <= Len(s)
    <3>1. i \in 1 .. Len(s)
      BY <1>1, <1>3, <2>1
    <3>2. mw[i] = f[w[i]] /\ w[i] = s[i]
      BY <1>1, <1>3, <3>1
    <3>3. j[i] = ms[i] /\ ms[i] = f[s[i]]
      BY <1>2, <1>4, <3>1
    <3> QED BY <3>2, <3>3
  <2>2. CASE i > Len(s)
    <3>1. i - Len(s) \in 1 .. Len(t) /\ Len(s) + (i - Len(s)) = i
      BY <1>1, <1>3, <2>2
    <3>2. w[i] = t[i - Len(s)] /\ j[i] = mt[i - Len(s)] /\ mt[i - Len(s)] = f[t[i - Len(s)]]
      <4> DEFINE k == i - Len(s)
      <4>1. k \in 1 .. Len(t) /\ Len(s) + k = i
        BY <3>1
      <4> HIDE DEF k
      <4>2. w[Len(s) + k] = t[k] /\ j[Len(s) + k] = mt[k] /\ mt[k] = f[t[k]]
        BY <1>1, <1>2, <1>4, <4>1
      <4> QED BY <4>1, <4>2 DEF k
    <3> QED BY <1>3, <3>2
  <2> QED BY <1>1, <1>3, <2>1, <2>2
<1>6. mw = j
  BY <1>1, <1>2, <1>3, <1>4, <1>5, SeqEqual
<1> QED BY <1>6 DEF mw, j, ms, mt, w

-----------------------------------------------------------------------------
(* A line is read as the fields that were written on it *)

Field == [name : Text, value : Value]
RawField == [name : Text, value : Text]
RawOf == [f \in Field |-> [name |-> Clean(f.name), value |-> Wire(f.value)]]
TailOf == [f \in Field |-> <<",">> \o FieldText(f.name, f.value)]
Tails(t) == FlattenSeq(Mapped(TailOf, t))

LEMMA FieldIs ==
  ASSUME NEW f \in Field
  PROVE  f.name \in Text /\ f.value \in Value
BY DEF Field

LEMMA RawOfIs ==
  /\ RawOf \in [Field -> RawField]
  /\ \A f \in Field : RawOf[f] = [name |-> Clean(f.name), value |-> Wire(f.value)]
<1>1. ASSUME NEW f \in Field
      PROVE  [name |-> Clean(f.name), value |-> Wire(f.value)] \in RawField
  <2>1. Clean(f.name) \in Text /\ Wire(f.value) \in Text
    BY FieldIs, CleanType, ValueRead
  <2> QED BY <2>1 DEF RawField
<1> QED BY <1>1 DEF RawOf

LEMMA TailOfIs ==
  /\ TailOf \in [Field -> Text]
  /\ \A f \in Field : TailOf[f] = Join(<<",">>, FieldText(f.name, f.value))
<1>1. ASSUME NEW f \in Field
      PROVE  <<",">> \o FieldText(f.name, f.value) \in Text
  <2>1. FieldText(f.name, f.value) \in Text
    BY FieldIs, FieldRead
  <2>2. <<",">> \in Text
    BY Special, TextIs
  <2>3. Join(<<",">>, FieldText(f.name, f.value)) \in Text
    BY <2>1, <2>2, TextIs
  <2> QED BY <2>3 DEF Join
<1> QED BY <1>1 DEF TailOf, Join

LEMMA TailsLaws ==
  /\ Tails(<<>>) = <<>>
  /\ \A t \in Seq(Field) : Tails(t) \in Text
  /\ \A f \in Field, t \in Seq(Field) : Tails(Cons(f, t)) = Join(TailOf[f], Tails(t))
<1>1. Tails(<<>>) = <<>>
  BY MappedEmpty, TextFlatten DEF Tails
<1>2. ASSUME NEW t \in Seq(Field) PROVE Mapped(TailOf, t) \in Seq(Text)
  BY TailOfIs, MappedType
<1>3. ASSUME NEW f \in Field, NEW t \in Seq(Field)
      PROVE  Tails(Cons(f, t)) = Join(TailOf[f], Tails(t))
  <2> DEFINE m == Mapped(TailOf, t)
             c == TailOf[f]
  <2>1. Mapped(TailOf, Cons(f, t)) = Cons(c, m)
    <3> DEFINE F == TailOf
    <3>1. F \in [Field -> Text]
      BY TailOfIs
    <3> HIDE DEF F
    <3>2. Mapped(F, Cons(f, t)) = Cons(F[f], Mapped(F, t))
      BY MappedCons
    <3> QED BY <3>2 DEF F
  <2>2. c \in Text /\ m \in Seq(Text)
    BY <1>2, TailOfIs
  <2> HIDE DEF c, m
  <2>3. FlattenSeq(Cons(c, m)) = Join(c, FlattenSeq(m))
    BY <2>2, TextFlatten
  <2> QED BY <2>1, <2>3 DEF Tails, c, m
<1> QED BY <1>1, <1>2, <1>3, TextFlatten DEF Tails

LEMMA DoneIs ==
  ASSUME NEW d, NEW k, NEW v, NEW mode, NEW e
  PROVE  Done(Parsed(d, k, v, mode, e)) = Appended(d, [name |-> k, value |-> v])
BY DEF Done, Parsed, Appended

LEMMA AppendedIs ==
  ASSUME NEW X, NEW s \in Seq(X), NEW c \in X
  PROVE  Appended(s, c) \in Seq(X)
BY DEF Appended

LEMMA AppendedEmpty == ASSUME NEW c PROVE Appended(<<>>, c) = Cons(c, <<>>)
BY DEF Appended, Cons

LEMMA AppendedJoin ==
  ASSUME NEW X, NEW s \in Seq(X), NEW c \in X, NEW t \in Seq(X)
  PROVE  Join(Appended(s, c), t) = Join(s, Cons(c, t))
<1> DEFINE one == <<c>>
<1>1. Appended(s, c) = Join(s, one) /\ one \in Seq(X)
  BY DEF Appended, Join
<1>2. Cons(c, t) = Join(one, t)
  BY ConsIsJoin
<1> HIDE DEF one
<1>3. Join(s, Join(one, t)) = Join(Join(s, one), t)
  BY <1>1, JoinTwice
<1> QED BY <1>1, <1>2, <1>3

LEMMA CommaRead ==
  ASSUME NEW d, NEW k, NEW v
  PROVE  After("fields", Parsed(d, k, v, "value", Nothing), <<",">>)
           = FieldStart(Appended(d, [name |-> k, value |-> v]))
<1>1. Step("fields", Parsed(d, k, v, "value", Nothing), ",")
        = FieldStart(Append(d, [name |-> k, value |-> v]))
  BY Separators, ZenonT(60)
<1> QED BY <1>1, AfterOne DEF Appended

LEMMA TailRead ==
  ASSUME NEW d, NEW k, NEW v, NEW f \in Field
  PROVE  After("fields", Parsed(d, k, v, "value", Nothing), TailOf[f])
           = Parsed(Appended(d, [name |-> k, value |-> v]), Clean(f.name), Wire(f.value), "value", Nothing)
<1> DEFINE comma == <<",">>
           text == FieldText(f.name, f.value)
           d2 == Appended(d, [name |-> k, value |-> v])
           s0 == Parsed(d, k, v, "value", Nothing)
           s1 == FieldStart(d2)
<1>1. f.name \in Text /\ f.value \in Value
  BY FieldIs
<1>2. text \in Text /\ comma \in Text
  BY <1>1, FieldRead, Special, TextIs
<1>3. TailOf[f] = Join(comma, text)
  BY TailOfIs
<1>4. After("fields", s0, comma) = s1
  BY CommaRead
<1> HIDE DEF d2
<1>5. After("fields", s1, text) = Parsed(d2, Clean(f.name), Wire(f.value), "value", Nothing)
  BY <1>1, FieldRead
<1> HIDE DEF comma, text, s0, s1
<1>6. After("fields", s0, Join(comma, text)) = After("fields", After("fields", s0, comma), text)
  BY <1>2, TextAfterJoin
<1> QED BY <1>3, <1>4, <1>5, <1>6 DEF s0, d2

LEMMA TailsRead ==
  ASSUME NEW t \in Seq(Field), NEW d \in Seq(RawField), NEW k \in Text, NEW v \in Text
  PROVE  Done(After("fields", Parsed(d, k, v, "value", Nothing), Tails(t)))
           = Join(Appended(d, [name |-> k, value |-> v]), Mapped(RawOf, t))
<1> DEFINE Start(d0, k0, v0) == Parsed(d0, k0, v0, "value", Nothing)
           Raw(k0, v0) == [name |-> k0, value |-> v0]
           Good(u) == \A d0 \in Seq(RawField), k0 \in Text, v0 \in Text :
             Done(After("fields", Start(d0, k0, v0), Tails(u)))
               = Join(Appended(d0, Raw(k0, v0)), Mapped(RawOf, u))
           S == {u \in Seq(Field) : Good(u)}
<1>0. ASSUME NEW d0 \in Seq(RawField), NEW k0 \in Text, NEW v0 \in Text
      PROVE  Raw(k0, v0) \in RawField /\ Appended(d0, Raw(k0, v0)) \in Seq(RawField)
  <2>1. Raw(k0, v0) \in RawField
    BY DEF RawField
  <2> QED BY <2>1, AppendedIs
<1>1. <<>> \in S
  <2>1. ASSUME NEW d0 \in Seq(RawField), NEW k0 \in Text, NEW v0 \in Text
        PROVE  Done(After("fields", Start(d0, k0, v0), Tails(<<>>)))
                 = Join(Appended(d0, Raw(k0, v0)), Mapped(RawOf, <<>>))
    <3> DEFINE y == Appended(d0, Raw(k0, v0))
    <3>1. After("fields", Start(d0, k0, v0), Tails(<<>>)) = Start(d0, k0, v0)
      BY AfterEmpty, TailsLaws
    <3>2. Done(Start(d0, k0, v0)) = y
      BY DoneIs
    <3>3. y \in Seq(RawField)
      BY <1>0
    <3> HIDE DEF y
    <3>4. Join(y, <<>>) = y
      BY <3>3, JoinIs, EmptySeq
    <3> QED BY <3>1, <3>2, <3>4, MappedEmpty DEF y
  <2> QED BY <2>1, EmptySeq
<1>2. ASSUME NEW f \in Field, NEW u \in Seq(Field), u \in S PROVE Cons(f, u) \in S
  <2>1. Good(u)
    BY <1>2
  <2>2. Cons(f, u) \in Seq(Field)
    BY ConsIs
  <2>3. ASSUME NEW d0 \in Seq(RawField), NEW k0 \in Text, NEW v0 \in Text
        PROVE  Done(After("fields", Start(d0, k0, v0), Tails(Cons(f, u))))
                 = Join(Appended(d0, Raw(k0, v0)), Mapped(RawOf, Cons(f, u)))
    <3> DEFINE y == Appended(d0, Raw(k0, v0))
               k1 == Clean(f.name)
               v1 == Wire(f.value)
               tail == TailOf[f]
               rest == Tails(u)
               m == Mapped(RawOf, u)
               s0 == Start(d0, k0, v0)
               s1 == Start(y, k1, v1)
    <3>1. y \in Seq(RawField)
      BY <1>0
    <3>2. k1 \in Text /\ v1 \in Text
      BY FieldIs, CleanType, ValueRead
    <3>3. tail \in Text /\ rest \in Text /\ Tails(Cons(f, u)) = Join(tail, rest)
      BY TailsLaws, TailOfIs
    <3>4. m \in Seq(RawField) /\ Mapped(RawOf, Cons(f, u)) = Cons(RawOf[f], m)
      <4> DEFINE F == RawOf
      <4>1. F \in [Field -> RawField]
        BY RawOfIs
      <4> HIDE DEF F
      <4>2. Mapped(F, Cons(f, u)) = Cons(F[f], Mapped(F, u))
        BY MappedCons
      <4>3. Mapped(F, u) \in Seq(RawField)
        BY <4>1, MappedType
      <4> QED BY <4>2, <4>3 DEF F
    <3>5. RawOf[f] = Raw(k1, v1) /\ Raw(k1, v1) \in RawField
      BY RawOfIs, <3>2 DEF RawField
    <3>6. After("fields", s0, tail) = s1
      BY TailRead
    <3> HIDE DEF y, k1, v1, tail, rest, m
    <3>7. Done(After("fields", s1, rest)) = Join(Appended(y, Raw(k1, v1)), m)
      BY <2>1, <3>1, <3>2 DEF rest, m
    <3> HIDE DEF s0, s1, Raw
    <3>8. After("fields", s0, Join(tail, rest)) = After("fields", After("fields", s0, tail), rest)
      BY <3>3, TextAfterJoin
    <3>9. Join(Appended(y, Raw(k1, v1)), m) = Join(y, Cons(Raw(k1, v1), m))
      BY <3>1, <3>4, <3>5, AppendedJoin
    <3> QED BY <3>3, <3>4, <3>5, <3>6, <3>7, <3>8, <3>9 DEF s0, y
  <2> QED BY <2>2, <2>3
<1> HIDE DEF S
<1>3. Seq(Field) \subseteq S
  BY <1>1, <1>2, SeqInd
<1>4. Good(t)
  BY <1>3 DEF S
<1> QED BY <1>4

LinePart(f, i) ==
  (IF i = 1 THEN <<>> ELSE <<",">>) \o Key(f.name) \o <<"=">> \o FieldValue(f.value)

LEMMA LinePartIs ==
  ASSUME NEW f \in Field, NEW i
  PROVE  LinePart(f, i) = IF i = 1 THEN FieldText(f.name, f.value) ELSE TailOf[f]
<1> DEFINE K == Key(f.name)
           sign == <<"=">>
           V == FieldValue(f.value)
           comma == <<",">>
<1>1. f.name \in Text /\ f.value \in Value
  BY FieldIs
<1>2. K \in Text /\ V \in Text /\ sign \in Text /\ comma \in Text
  BY <1>1, KeyRead, ValueRead, Special, TextIs
<1>3. FieldText(f.name, f.value) = Join(Join(K, sign), V)
  BY DEF FieldText, Join
<1>4. TailOf[f] = Join(comma, FieldText(f.name, f.value))
  BY TailOfIs
<1>5. CASE i = 1
  <2>1. LinePart(f, i) = Join(Join(Join(<<>>, K), sign), V)
    BY <1>5 DEF LinePart, Join
  <2> HIDE DEF K
  <2>2. Join(<<>>, K) = K
    BY <1>2, TextIs
  <2> QED BY <1>3, <1>5, <2>1, <2>2 DEF K
<1>6. CASE i # 1
  <2>1. LinePart(f, i) = Join(Join(Join(comma, K), sign), V)
    BY <1>6 DEF LinePart, Join
  <2> HIDE DEF K, sign, V, comma
  <2>2. Join(Join(comma, K), sign) = Join(comma, Join(K, sign)) /\ Join(K, sign) \in Text
    BY <1>2, TextJoins, TextIs
  <2>3. Join(Join(comma, Join(K, sign)), V) = Join(comma, Join(Join(K, sign), V))
    BY <1>2, <2>2, TextJoins
  <2> QED BY <1>3, <1>4, <1>6, <2>1, <2>2, <2>3 DEF K, sign, V
<1> QED BY <1>5, <1>6

LineText(fields) == FlattenSeq([i \in 1 .. Len(fields) |-> LinePart(fields[i], i)])

LEMMA LineIs ==
  ASSUME NEW sensor, NEW fields, NEW at
  PROVE  /\ Line(sensor, fields, at).sensor = sensor /\ Line(sensor, fields, at).ms = Ms(at)
         /\ Line(sensor, fields, at).fields = LineText(fields)
<1>1. Concat(Len(fields), LAMBDA i : (IF i = 1 THEN <<>> ELSE <<",">>) \o
                Key(fields[i].name) \o <<"=">> \o FieldValue(fields[i].value)) = LineText(fields)
  BY DEF Concat, LineText, LinePart
<1> QED BY <1>1 DEF Line

LEMMA LineTextIs ==
  ASSUME NEW f \in Field, NEW t \in Seq(Field)
  PROVE  LineText(Cons(f, t)) = Join(FieldText(f.name, f.value), Tails(t))
<1> DEFINE fields == Cons(f, t)
           p == [i \in 1 .. Len(fields) |-> LinePart(fields[i], i)]
           first == FieldText(f.name, f.value)
           m == Mapped(TailOf, t)
<1>1. fields \in Seq(Field) /\ Len(fields) = Len(t) + 1 /\ Len(t) \in Nat
  BY ConsIs
<1>2. fields[1] = f
  BY ConsIs
<1>3. \A i \in 1 .. Len(t) : fields[i + 1] = t[i]
  BY ConsIs
<1> HIDE DEF fields
<1>4. first \in Text
  BY FieldIs, FieldRead
<1>5. m \in Seq(Text)
  BY TailOfIs, MappedType
<1>6. Len(m) = Len(t)
  BY MappedIs
<1>7. \A i \in 1 .. Len(t) : m[i] = TailOf[t[i]]
  BY MappedIs
<1>8. ASSUME NEW i \in 1 .. Len(t) PROVE t[i] \in Field /\ i + 1 \in 1 .. Len(fields) /\ i + 1 # 1
  BY <1>1
<1>9. p[1] = first
  <2>1. p[1] = LinePart(f, 1)
    BY <1>1, <1>2
  <2> QED BY <2>1, LinePartIs
<1>10. ASSUME NEW i \in 1 .. Len(t) PROVE p[i + 1] = m[i]
  <2>1. p[i + 1] = LinePart(t[i], i + 1)
    BY <1>3, <1>8
  <2>2. LinePart(t[i], i + 1) = TailOf[t[i]]
    <3> DEFINE g == t[i]
               k == i + 1
    <3>1. g \in Field /\ k # 1
      BY <1>8
    <3> HIDE DEF g, k
    <3>2. LinePart(g, k) = TailOf[g]
      BY <3>1, LinePartIs
    <3> QED BY <3>2 DEF g, k
  <2> QED BY <1>7, <2>1, <2>2
<1>11. p \in Seq(Text) /\ Len(p) = Len(m) + 1
  <2>1. Len(p) = Len(fields) /\ p \in Seq({p[i] : i \in 1 .. Len(fields)})
    BY <1>1
  <2>2. ASSUME NEW i \in 1 .. Len(fields) PROVE p[i] \in Text
    <3>1. CASE i = 1
      BY <1>4, <1>9, <3>1
    <3>2. CASE i # 1
      <4>1. i - 1 \in 1 .. Len(t) /\ i = (i - 1) + 1
        BY <1>1, <3>2
      <4> DEFINE j == i - 1
      <4>2. j \in 1 .. Len(t) /\ i = j + 1
        BY <4>1
      <4> HIDE DEF j, p
      <4>3. p[j + 1] = m[j] /\ m[j] \in Text
        BY <4>2, <1>5, <1>6, <1>10
      <4> QED BY <4>2, <4>3
    <3> QED BY <3>1, <3>2
  <2> HIDE DEF p
  <2>3. p \in Seq(Text)
    BY <2>1, <2>2
  <2> QED BY <1>1, <1>6, <2>1, <2>3
<1>12. LineText(fields) = FlattenSeq(p)
  BY DEF LineText
<1> HIDE DEF p, m, first
<1>13. p = Cons(first, m)
  BY <1>4, <1>5, <1>6, <1>9, <1>10, <1>11, IsCons
<1>14. FlattenSeq(Cons(first, m)) = Join(first, FlattenSeq(m))
  BY <1>4, <1>5, TextFlatten
<1> QED BY <1>12, <1>13, <1>14 DEF fields, first, m, Tails

LEMMA FieldsReadBack ==
  ASSUME NEW fields \in Seq(Field), fields # <<>>
  PROVE  ReadFields(LineText(fields)) = Mapped(RawOf, fields)
<1> DEFINE f == fields[1]
           t == Tail(fields)
           first == FieldText(f.name, f.value)
           k == Clean(f.name)
           v == Wire(f.value)
           s0 == FieldStart(<<>>)
           s1 == Parsed(<<>>, k, v, "value", Nothing)
           m == Mapped(RawOf, t)
           raw == [name |-> k, value |-> v]
<1>1. f \in Field /\ t \in Seq(Field) /\ fields = Cons(f, t)
  BY SplitCons
<1> HIDE DEF f, t
<1>2. LineText(fields) = Join(first, Tails(t))
  BY <1>1, LineTextIs
<1>3. first \in Text /\ Tails(t) \in Text
  BY <1>1, FieldIs, FieldRead, TailsLaws
<1>4. k \in Text /\ v \in Text
  BY <1>1, FieldIs, CleanType, ValueRead
<1>5. After("fields", s0, first) = s1
  BY <1>1, FieldIs, FieldRead
<1>6. RawOf[f] = raw /\ raw \in RawField
  BY <1>1, <1>4, RawOfIs DEF RawField
<1>7. m \in Seq(RawField)
  BY <1>1, RawOfIs, MappedType
<1>8. Mapped(RawOf, fields) = Cons(raw, m)
  <2>1. f \in Field /\ t \in Seq(Field)
    BY <1>1
  <2>2. Mapped(RawOf, Cons(f, t)) = Cons(RawOf[f], Mapped(RawOf, t))
    BY <2>1, MappedCons
  <2> QED BY <1>1, <1>6, <2>2
<1> HIDE DEF k, v, m, first
<1>9. Done(After("fields", s1, Tails(t))) = Join(Appended(<<>>, raw), m)
  <2> DEFINE d == <<>>
  <2>1. d \in Seq(RawField)
    BY EmptySeq
  <2> HIDE DEF d
  <2>2. Done(After("fields", Parsed(d, k, v, "value", Nothing), Tails(t)))
          = Join(Appended(d, [name |-> k, value |-> v]), Mapped(RawOf, t))
    BY <1>1, <1>4, <2>1, TailsRead
  <2> QED BY <2>2 DEF d, m
<1> HIDE DEF raw, s0, s1
<1>10. Join(Appended(<<>>, raw), m) = Cons(raw, m)
  <2>1. Appended(<<>>, raw) = <<raw>> /\ Join(<<raw>>, m) = Cons(raw, m)
    BY ConsIsJoin DEF Appended
  <2> QED BY <2>1
<1>11. After("fields", s0, Join(first, Tails(t))) = After("fields", After("fields", s0, first), Tails(t))
  BY <1>3, TextAfterJoin
<1>12. FieldsAfter(s0, LineText(fields)) = After("fields", s0, LineText(fields))
  <2>1. LineText(fields) \in Seq(Chars)
    <3>1. Join(first, Tails(t)) \in Text
      BY <1>3, TextIs
    <3> QED BY <1>2, <3>1 DEF Text
  <2> QED BY <2>1, FieldsAfterIs
<1> QED BY <1>2, <1>5, <1>8, <1>9, <1>10, <1>11, <1>12 DEF ReadFields, s0

\* What becomes of a field of a reading: the point that it should be read as.
PointOf(sensor, f, at) ==
  [sensor |-> sensor, field |-> Clean(f.name), ms |-> Ms(at),
   type |-> StoredType(f.value), text |-> StoredText(f.value)]

\* line(): whatever characters the names and the values of a reading have, InfluxDB reads its line as
\* one point for each field, of the kind and with the characters of what was sent.
THEOREM LineReadBack ==
  ASSUME NEW sensor, NEW fields \in Seq(Field) \ {<<>>}, NEW at
  PROVE  ReadLine(Line(sensor, fields, at))
           = [i \in 1 .. Len(fields) |-> PointOf(sensor, fields[i], at)]
<1> DEFINE l == Line(sensor, fields, at)
           read == ReadFields(l.fields)
<1>1. l.sensor = sensor /\ l.ms = Ms(at) /\ l.fields = LineText(fields)
  BY LineIs
<1>2. read = Mapped(RawOf, fields)
  BY <1>1, FieldsReadBack
<1> HIDE DEF l, read
<1>3. DOMAIN read = 1 .. Len(fields)
  BY <1>2 DEF Mapped
<1>4. ASSUME NEW i \in 1 .. Len(fields)
      PROVE  [sensor |-> l.sensor, field |-> read[i].name, ms |-> l.ms,
              type |-> ReadValue(read[i].value).type, text |-> ReadValue(read[i].value).text]
               = PointOf(sensor, fields[i], at)
  <2> DEFINE f == fields[i]
  <2>1. f \in Field
    OBVIOUS
  <2>2. read[i] = RawOf[f]
    BY <1>2 DEF Mapped
  <2> HIDE DEF f
  <2>3. read[i].name = Clean(f.name) /\ read[i].value = Wire(f.value)
    BY <2>1, <2>2, RawOfIs
  <2>4. ReadValue(Wire(f.value)) = [type |-> StoredType(f.value), text |-> StoredText(f.value)]
    BY <2>1, FieldIs, ReadValueIs
  <2>5. PointOf(sensor, f, at) = [sensor |-> l.sensor, field |-> read[i].name, ms |-> l.ms,
              type |-> ReadValue(read[i].value).type, text |-> ReadValue(read[i].value).text]
    BY <1>1, <2>3, <2>4 DEF PointOf
  <2> QED BY <2>5 DEF f
<1>5. ReadLine(l) = [i \in DOMAIN read |->
         [sensor |-> l.sensor, field |-> read[i].name, ms |-> l.ms,
          type |-> ReadValue(read[i].value).type, text |-> ReadValue(read[i].value).text]]
  BY DEF ReadLine, read
<1> QED BY <1>3, <1>4, <1>5 DEF l

-----------------------------------------------------------------------------
(* A batch: what is read back of it is what was sent *)

Entry == [sensor : Text, field : Text, value : Value, at : Int, sure : BOOLEAN]
StoredPoint(e) ==
  [sensor |-> e.sensor, field |-> Clean(e.field), ms |-> Ms(e.at),
   type |-> StoredType(e.value), text |-> StoredText(e.value)]
Stored == [e \in Entry |-> StoredPoint(e)]

SentAt(ts, now) == IF ts = NoTime THEN now ELSE ts.instant
EntryOf(r, f, now, sure) ==
  [sensor |-> r.sensor, field |-> f.name, value |-> f.value, at |-> SentAt(r.ts, now), sure |-> sure]
EntriesOf(r, now, sure) == [i \in DOMAIN r.fields |-> EntryOf(r, r.fields[i], now, sure)]
ReadOf(r, now) == ReadLine(Line(r.sensor, r.fields, MeasuredAt(r.ts, now)))

LEMMA ReadingIs ==
  ASSUME NEW r \in Reading
  PROVE  /\ r.sensor \in Text /\ r.fields \in Seq(Field) /\ r.fields # <<>>
         /\ r.ts \in {NoTime} \cup Time
BY DEF Reading, Field

LEMMA MeasuredAtIs ==
  ASSUME NEW ts \in {NoTime} \cup Time, NEW now \in Int
  PROVE  MeasuredAt(ts, now) = SentAt(ts, now) /\ SentAt(ts, now) \in Int
<1>1. CASE ts = NoTime
  BY <1>1 DEF MeasuredAt, SentAt
<1>2. CASE ts # NoTime
  <2>1. ts \in Time
    BY <1>2
  <2>2. ts.instant \in Int /\ (ts.zone # Naive => ts.zone \in Int)
    BY <2>1 DEF Time
  <2>3. Utc(ts) = ts.instant
    BY <2>2 DEF Utc, Wall
  <2> QED BY <1>2, <2>2, <2>3 DEF MeasuredAt, SentAt
<1> QED BY <1>1, <1>2

LEMMA EntryOfIs ==
  ASSUME NEW r \in Reading, NEW f \in Field, NEW now \in Int, NEW sure \in BOOLEAN
  PROVE  /\ EntryOf(r, f, now, sure) \in Entry
         /\ StoredPoint(EntryOf(r, f, now, sure)) = PointOf(r.sensor, f, SentAt(r.ts, now))
<1>1. r.sensor \in Text /\ SentAt(r.ts, now) \in Int
  BY ReadingIs, MeasuredAtIs
<1>2. f.name \in Text /\ f.value \in Value
  BY FieldIs
<1>3. EntryOf(r, f, now, sure) \in Entry
  BY <1>1, <1>2 DEF EntryOf, Entry
<1>4. StoredPoint(EntryOf(r, f, now, sure)) = PointOf(r.sensor, f, SentAt(r.ts, now))
  BY DEF StoredPoint, EntryOf, PointOf
<1> QED BY <1>3, <1>4

LEMMA ReadingReadBack ==
  ASSUME NEW r \in Reading, NEW now \in Int, NEW sure \in BOOLEAN
  PROVE  /\ EntriesOf(r, now, sure) \in Seq(Entry)
         /\ ReadOf(r, now) = Mapped(Stored, EntriesOf(r, now, sure))
<1> DEFINE fields == r.fields
           at == SentAt(r.ts, now)
           es == EntriesOf(r, now, sure)
<1>1. fields \in Seq(Field) /\ fields # <<>>
  BY ReadingIs
<1>2. MeasuredAt(r.ts, now) = at
  BY ReadingIs, MeasuredAtIs
<1>3. ReadOf(r, now) = [i \in 1 .. Len(fields) |-> PointOf(r.sensor, fields[i], at)]
  <2>1. fields \in Seq(Field) \ {<<>>}
    BY <1>1
  <2> HIDE DEF fields, at
  <2>2. ReadLine(Line(r.sensor, fields, at))
           = [i \in 1 .. Len(fields) |-> PointOf(r.sensor, fields[i], at)]
    BY <2>1, LineReadBack
  <2> QED BY <1>2, <2>2 DEF ReadOf, fields
<1>4. es = [i \in 1 .. Len(fields) |-> EntryOf(r, fields[i], now, sure)]
  <2>1. DOMAIN fields = 1 .. Len(fields)
    BY <1>1
  <2> QED BY <2>1 DEF EntriesOf
<1> HIDE DEF fields, es
<1>5. ASSUME NEW i \in 1 .. Len(fields) PROVE fields[i] \in Field
  BY <1>1
<1>6. Len(fields) \in Nat
  BY <1>1
<1>7. ASSUME NEW i \in 1 .. Len(fields)
      PROVE  EntryOf(r, fields[i], now, sure) \in Entry
             /\ Stored[EntryOf(r, fields[i], now, sure)] = PointOf(r.sensor, fields[i], at)
  <2> DEFINE f == fields[i]
  <2>1. f \in Field
    BY <1>5
  <2> HIDE DEF f, at
  <2>2. EntryOf(r, f, now, sure) \in Entry
        /\ StoredPoint(EntryOf(r, f, now, sure)) = PointOf(r.sensor, f, SentAt(r.ts, now))
    BY <2>1, EntryOfIs
  <2>3. Stored[EntryOf(r, f, now, sure)] = StoredPoint(EntryOf(r, f, now, sure))
    BY <2>2 DEF Stored
  <2> QED BY <2>2, <2>3 DEF f, at
<1>8. es \in Seq(Entry) /\ Len(es) = Len(fields)
  BY <1>4, <1>6, <1>7
<1>9. Mapped(Stored, es) = [i \in 1 .. Len(fields) |-> PointOf(r.sensor, fields[i], at)]
  <2>1. ASSUME NEW i \in 1 .. Len(fields) PROVE Stored[es[i]] = PointOf(r.sensor, fields[i], at)
    BY <1>4, <1>7
  <2> HIDE DEF at
  <2> QED BY <1>8, <2>1 DEF Mapped
<1> QED BY <1>3, <1>8, <1>9 DEF es

Entriesed(now, sure) == [r \in Reading |-> EntriesOf(r, now, sure)]
Readed(now) == [r \in Reading |-> ReadOf(r, now)]

LEMMA EntriesIs ==
  ASSUME NEW batch \in Seq(Reading), NEW now, NEW sure
  PROVE  Entries(batch, now, sure) = FlattenSeq(Mapped(Entriesed(now, sure), batch))
<1>1. \A i \in 1 .. Len(batch) : batch[i] \in Reading
  OBVIOUS
<1>2. \A i \in 1 .. Len(batch) : Entriesed(now, sure)[batch[i]] = EntriesOf(batch[i], now, sure)
  BY <1>1 DEF Entriesed
<1>3. Entries(batch, now, sure) = FlattenSeq([i \in 1 .. Len(batch) |-> EntriesOf(batch[i], now, sure)])
  BY DEF Entries, Concat, EntriesOf, EntryOf, SentAt
<1> QED BY <1>2, <1>3 DEF Mapped

LEMMA ReadBackIs ==
  ASSUME NEW batch \in Seq(Reading), NEW now
  PROVE  ReadBack(batch, now) = FlattenSeq(Mapped(Readed(now), batch))
<1>1. \A i \in 1 .. Len(batch) : batch[i] \in Reading
  OBVIOUS
<1>2. \A i \in 1 .. Len(batch) : Readed(now)[batch[i]] = ReadOf(batch[i], now)
  BY <1>1 DEF Readed
<1>3. ReadBack(batch, now) = FlattenSeq([i \in 1 .. Len(batch) |-> ReadOf(batch[i], now)])
  BY DEF ReadBack, Concat, ReadOf
<1> QED BY <1>2, <1>3 DEF Mapped

Point == [sensor : Text, field : Text, ms : Int, type : {"string", "boolean", "double"}, text : Text]

LEMMA EntryIs ==
  ASSUME NEW e \in Entry
  PROVE  /\ e.sensor \in Text /\ e.field \in Text /\ e.value \in Value /\ e.at \in Int
         /\ Ms(e.at) \in Int
BY ClockAssumption DEF Entry, Ms

LEMMA StoredIs ==
  /\ Stored \in [Entry -> Point]
  /\ \A e \in Entry : Stored[e] = StoredPoint(e) /\ StoredPoint(e) \in Point
<1>1. ASSUME NEW e \in Entry PROVE StoredPoint(e) \in Point
  <2>1. Clean(e.field) \in Text
    BY EntryIs, CleanType
  <2>2. StoredType(e.value) \in {"string", "boolean", "double"}
    BY DEF StoredType
  <2>3. StoredText(e.value) \in Text
    <3>1. e.value.text \in Text
      BY EntryIs, ValueFacts
    <3>2. Clean(e.value.text) \in Text
      BY <3>1, CleanType
    <3> QED BY <3>1, <3>2 DEF StoredText
  <2> QED BY <2>1, <2>2, <2>3, EntryIs DEF StoredPoint, Point
<1> QED BY <1>1 DEF Stored

LEMMA BatchReadBack ==
  ASSUME NEW batch \in Seq(Reading), NEW now \in Int, NEW sure \in BOOLEAN
  PROVE  /\ Entries(batch, now, sure) \in Seq(Entry)
         /\ ReadBack(batch, now) = Mapped(Stored, Entries(batch, now, sure))
<1> DEFINE E == Entriesed(now, sure)
           R == Readed(now)
           F == Stored
           In(b) == FlattenSeq(Mapped(E, b))
           Out(b) == FlattenSeq(Mapped(R, b))
           S == {b \in Seq(Reading) : In(b) \in Seq(Entry) /\ Out(b) = Mapped(F, In(b))}
<1>0. F \in [Entry -> Point]
  BY StoredIs
<1>1. ASSUME NEW r \in Reading
      PROVE  E[r] \in Seq(Entry) /\ R[r] = Mapped(F, E[r]) /\ R[r] \in Seq(Point)
  <2> DEFINE es == EntriesOf(r, now, sure)
  <2>1. es \in Seq(Entry) /\ ReadOf(r, now) = Mapped(F, es)
    BY ReadingReadBack
  <2>2. E[r] = es /\ R[r] = ReadOf(r, now)
    BY DEF Entriesed, Readed
  <2> HIDE DEF es, F
  <2>3. Mapped(F, es) \in Seq(Point)
    BY <1>0, <2>1, MappedType
  <2> QED BY <2>1, <2>2, <2>3
<1>2. E \in [Reading -> Seq(Entry)] /\ R \in [Reading -> Seq(Point)]
  BY <1>1 DEF Entriesed, Readed
<1> HIDE DEF E, R, F
<1>3. <<>> \in S
  <2>1. In(<<>>) = <<>> /\ Out(<<>>) = <<>> /\ Mapped(F, <<>>) = <<>>
    BY MappedEmpty, FlattenEmpty
  <2> QED BY <2>1, EmptySeq
<1>4. ASSUME NEW r \in Reading, NEW b \in Seq(Reading), b \in S PROVE Cons(r, b) \in S
  <2> DEFINE me == Mapped(E, b)
             mr == Mapped(R, b)
             y == In(b)
             c == E[r]
  <2>1. y \in Seq(Entry) /\ Out(b) = Mapped(F, y)
    BY <1>4
  <2>2. c \in Seq(Entry) /\ R[r] = Mapped(F, c) /\ R[r] \in Seq(Point)
    BY <1>1
  <2>3. Mapped(E, Cons(r, b)) = Cons(E[r], me)
    BY MappedCons
  <2>4. Mapped(R, Cons(r, b)) = Cons(R[r], mr)
    BY MappedCons
  <2>5. me \in Seq(Seq(Entry))
    BY <1>2, MappedType
  <2>6. mr \in Seq(Seq(Point))
    BY <1>2, MappedType
  <2>7. Cons(r, b) \in Seq(Reading)
    BY ConsIs
  <2> HIDE DEF me, mr, y, c
  <2>8. In(Cons(r, b)) = Join(c, y)
    <3>1. FlattenSeq(Cons(c, me)) = Join(c, FlattenSeq(me))
      BY <2>2, <2>5, FlattenCons
    <3> QED BY <2>3, <3>1 DEF c, me, y
  <2>9. Out(Cons(r, b)) = Join(R[r], Out(b))
    <3> DEFINE d == R[r]
    <3>1. d \in Seq(Point)
      BY <2>2
    <3> HIDE DEF d
    <3>2. FlattenSeq(Cons(d, mr)) = Join(d, FlattenSeq(mr))
      BY <3>1, <2>6, FlattenCons
    <3> QED BY <2>4, <3>2 DEF d, mr
  <2>10. Join(c, y) \in Seq(Entry)
    BY <2>1, <2>2, JoinIs
  <2>11. Mapped(F, Join(c, y)) = Join(Mapped(F, c), Mapped(F, y))
    <3>1. y \in Seq(Entry) /\ c \in Seq(Entry)
      BY <2>1, <2>2
    <3> QED BY <3>1, MappedJoin
  <2> QED BY <2>1, <2>2, <2>7, <2>8, <2>9, <2>10, <2>11
<1> HIDE DEF S
<1>5. Seq(Reading) \subseteq S
  BY <1>3, <1>4, SeqInd
<1>6. In(batch) \in Seq(Entry) /\ Out(batch) = Mapped(F, In(batch))
  BY <1>5 DEF S
<1> QED BY <1>6, EntriesIs, ReadBackIs DEF E, R, F

-----------------------------------------------------------------------------
(* Points are the newest of what was sent *)

Newest(sent, k) == \A j \in 1 .. Len(sent) : j > k => ~Supersedes(sent[j], sent[k])
Told(held, sent) ==
  \A p \in held : \E k \in 1 .. Len(sent) : p = StoredPoint(sent[k]) /\ Newest(sent, k)
Kept(held, sent) ==
  \A k \in 1 .. Len(sent) : sent[k].sure => \E p \in held : SeriesOf(p) = Series(sent[k])

LEMMA SeriesIs == \A e \in Entry : SeriesOf(StoredPoint(e)) = Series(e)
BY DEF SeriesOf, StoredPoint, Series

\* Kept from the provers, whose types for the places differ from proof to proof.
Below(I, n) == I \subseteq 1 .. n /\ n \in Nat
LastOf(new, I, i) == \A j \in I : j > i => SeriesOf(new[j]) # SeriesOf(new[i])
Untouched(new, I, q) == \A i \in I : SeriesOf(new[i]) # SeriesOf(q)
WrittenLast(new, I, q) == \E i \in I : q = new[i] /\ LastOf(new, I, i)

LEMMA LastWritten ==
  ASSUME NEW held, NEW new, NEW n, NEW I, Below(I, n), NEW s,
         NEW i0 \in I, SeriesOf(new[i0]) = s
  PROVE  \E p \in Overwritten(held, new, I) : SeriesOf(p) = s
<1> DEFINE T == {k \in Nat : \E i \in I : k = n - i /\ SeriesOf(new[i]) = s}
<1>0. I \subseteq 1 .. n /\ n \in Nat
  BY DEF Below
<1>1. n - i0 \in T
  BY <1>0
<1>2. PICK k \in T : \A m \in T : k <= m
  <2>1. T \in SUBSET Nat /\ T # {}
    BY <1>1
  <2> HIDE DEF T
  <2> QED BY <2>1, Least
<1>3. PICK i \in I : k = n - i /\ SeriesOf(new[i]) = s
  BY <1>2
<1>4. ASSUME NEW j \in I, j > i PROVE SeriesOf(new[j]) # SeriesOf(new[i])
  <2>1. SUFFICES ASSUME SeriesOf(new[j]) = s PROVE FALSE
    BY <1>3
  <2>2. n - j \in T
    BY <1>0, <2>1
  <2> HIDE DEF T
  <2>3. n - i <= n - j
    BY <1>2, <1>3, <2>2
  <2> QED BY <1>0, <1>4, <2>3
<1>5. new[i] \in Overwritten(held, new, I)
  BY <1>4 DEF Overwritten
<1> QED BY <1>3, <1>5

LEMMA WrittenIs ==
  ASSUME NEW held, NEW new, NEW I
  PROVE  /\ \A q \in Overwritten(held, new, I) : (q \in held /\ Untouched(new, I, q))
                                                    \/ WrittenLast(new, I, q)
         /\ \A q \in held : Untouched(new, I, q) => q \in Overwritten(held, new, I)
BY DEF Overwritten, LastOf, Untouched, WrittenLast

LEMMA StoringKeeps ==
  ASSUME NEW held, NEW sent \in Seq(Entry), NEW es \in Seq(Entry), NEW new, NEW I,
         new = Mapped(Stored, es), I \subseteq 1 .. Len(es),
         \/ I = 1 .. Len(es)
         \/ \A i \in 1 .. Len(es) : ~es[i].sure,
         Told(held, sent), Kept(held, sent)
  PROVE  Told(Overwritten(held, new, I), Join(sent, es))
            /\ Kept(Overwritten(held, new, I), Join(sent, es))
<1> DEFINE all == Join(sent, es)
           L == Len(sent)
           n == Len(es)
<1>1. all \in Seq(Entry) /\ Len(all) = L + n /\ L \in Nat /\ n \in Nat
  BY JoinIs
<1>2. \A i \in 1 .. L : all[i] = sent[i]
  BY JoinIs
<1>3. \A i \in 1 .. n : all[L + i] = es[i]
  BY JoinIs
<1>4. \A i \in 1 .. n : new[i] = StoredPoint(es[i]) /\ es[i] \in Entry
  <2>1. ASSUME NEW i \in 1 .. n PROVE new[i] = StoredPoint(es[i]) /\ es[i] \in Entry
    <3>1. es[i] \in Entry
      OBVIOUS
    <3>2. new[i] = Stored[es[i]]
      BY MappedIs
    <3>3. Stored[es[i]] = StoredPoint(es[i])
      BY <3>1, StoredIs
    <3> QED BY <3>1, <3>2, <3>3
  <2> QED BY <2>1
<1>5. \A i \in 1 .. n : SeriesOf(new[i]) = Series(es[i])
  BY <1>4, SeriesIs
<1>6. \A k \in 1 .. L : sent[k] \in Entry
  OBVIOUS
<1> HIDE DEF all, n, L
<1>7. ASSUME NEW k \in 1 .. L + n
      PROVE  \/ k \in 1 .. L /\ all[k] = sent[k]
             \/ \E i \in 1 .. n : k = L + i /\ all[k] = es[i]
  <2>1. CASE k <= L
    BY <1>1, <1>2, <2>1
  <2>2. CASE k > L
    <3> DEFINE i == k - L
    <3>1. i \in 1 .. n /\ k = L + i
      BY <1>1, <2>2
    <3> HIDE DEF i
    <3> QED BY <1>3, <3>1
  <2> QED BY <1>1, <2>1, <2>2
<1>8. ASSUME NEW q \in Overwritten(held, new, I)
      PROVE  \E k \in 1 .. Len(all) : q = StoredPoint(all[k]) /\ Newest(all, k)
  <2>1. CASE q \in held /\ Untouched(new, I, q)
    <3>1. PICK k \in 1 .. L : q = StoredPoint(sent[k]) /\ Newest(sent, k)
      BY <2>1 DEF Told, L
    <3>2. all[k] = sent[k] /\ k \in 1 .. Len(all)
      BY <1>1, <1>2
    <3>3. SeriesOf(q) = Series(sent[k])
      BY <1>6, <3>1, SeriesIs
    <3>4. ASSUME NEW j \in 1 .. L + n, j > k PROVE ~Supersedes(all[j], all[k])
      <4>1. CASE j \in 1 .. L /\ all[j] = sent[j]
        BY <3>1, <3>2, <3>4, <4>1 DEF Newest, L
      <4>2. CASE \E i \in 1 .. n : j = L + i /\ all[j] = es[i]
        <5>1. PICK i \in 1 .. n : all[j] = es[i]
          BY <4>2
        <5>2. CASE I = 1 .. n
          <6>1. Series(es[i]) # Series(sent[k])
            BY <1>5, <2>1, <3>3, <5>2 DEF Untouched
          <6> QED BY <3>2, <5>1, <6>1 DEF Supersedes
        <5>3. CASE ~es[i].sure
          BY <5>1, <5>3 DEF Supersedes
        <5> QED BY <5>2, <5>3 DEF n
      <4> QED BY <1>7, <4>1, <4>2
    <3>5. Newest(all, k)
      BY <1>1, <3>4 DEF Newest
    <3> QED BY <3>1, <3>2, <3>5
  <2>2. CASE WrittenLast(new, I, q)
    <3>1. PICK i \in 1 .. n : i \in I /\ q = new[i]
                              /\ \A j \in I : j > i => SeriesOf(new[j]) # SeriesOf(new[i])
      BY <2>2 DEF n, LastOf, WrittenLast
    <3> DEFINE k == L + i
    <3>2. k \in 1 .. Len(all) /\ all[k] = es[i]
      BY <1>1, <1>3
    <3>3. q = StoredPoint(es[i])
      BY <1>4, <3>1
    <3>4. ASSUME NEW j \in 1 .. L + n, j > k PROVE ~Supersedes(all[j], all[k])
      <4>1. CASE j \in 1 .. L
        BY <1>1, <3>4, <4>1
      <4>2. CASE \E m \in 1 .. n : j = L + m /\ all[j] = es[m]
        <5>1. PICK m \in 1 .. n : j = L + m /\ all[j] = es[m]
          BY <4>2
        <5>2. m > i
          BY <1>1, <3>4, <5>1
        <5>3. CASE I = 1 .. n
          <6>1. Series(es[m]) # Series(es[i])
            BY <1>5, <3>1, <5>2, <5>3
          <6> QED BY <3>2, <5>1, <6>1 DEF Supersedes
        <5>4. CASE ~es[m].sure
          BY <5>1, <5>4 DEF Supersedes
        <5> QED BY <5>3, <5>4 DEF n
      <4> QED BY <1>7, <4>1, <4>2
    <3> HIDE DEF k
    <3>5. Newest(all, k)
      BY <1>1, <3>4 DEF Newest
    <3> QED BY <3>2, <3>3, <3>5
  <2>3. (q \in held /\ Untouched(new, I, q)) \/ WrittenLast(new, I, q)
    BY WrittenIs
  <2> QED BY <2>1, <2>2, <2>3
<1>9. ASSUME NEW k \in 1 .. L + n, all[k].sure
      PROVE  \E p \in Overwritten(held, new, I) : SeriesOf(p) = Series(all[k])
  <2> DEFINE s == Series(all[k])
  <2>1. CASE \E i \in I : SeriesOf(new[i]) = s
    <3>1. PICK i \in I : SeriesOf(new[i]) = s
      BY <2>1
    <3>2. Below(I, n)
      BY <1>1 DEF n, Below
    <3>3. SeriesOf(new[i]) = s /\ i \in I
      BY <3>1
    <3> HIDE DEF s
    <3>4. \E p \in Overwritten(held, new, I) : SeriesOf(p) = s
      BY <3>2, <3>3, LastWritten
    <3> QED BY <3>4 DEF s
  <2>2. CASE \A i \in I : SeriesOf(new[i]) # s
    <3>1. CASE k \in 1 .. L /\ all[k] = sent[k]
      <4>1. PICK p \in held : SeriesOf(p) = s
        BY <1>9, <3>1 DEF Kept, L
      <4> HIDE DEF s
      <4>2. Untouched(new, I, p)
        BY <2>2, <4>1 DEF Untouched
      <4>3. p \in Overwritten(held, new, I)
        BY <4>2, WrittenIs
      <4> QED BY <4>1, <4>3 DEF s
    <3>2. CASE \E i \in 1 .. n : k = L + i /\ all[k] = es[i]
      <4>1. PICK i \in 1 .. n : all[k] = es[i]
        BY <3>2
      <4>2. I = 1 .. n
        BY <1>9, <4>1 DEF n
      <4> QED BY <1>5, <2>2, <4>1, <4>2
    <3> QED BY <1>7, <3>1, <3>2
  <2> QED BY <2>1, <2>2
<1>10. Told(Overwritten(held, new, I), all)
  BY <1>8 DEF Told
<1>11. Kept(Overwritten(held, new, I), all)
  BY <1>1, <1>9 DEF Kept
<1> QED BY <1>10, <1>11 DEF all

\* Every entry of a batch says whether the batch was stored.
LEMMA EntriesSure ==
  ASSUME NEW batch \in Seq(Reading), NEW now \in Int, NEW sure \in BOOLEAN
  PROVE  \A i \in 1 .. Len(Entries(batch, now, sure)) : Entries(batch, now, sure)[i].sure = sure
<1> DEFINE Same == {e \in Entry : e.sure = sure}
           E == Entriesed(now, sure)
           es == Entries(batch, now, sure)
<1>1. ASSUME NEW r \in Reading PROVE EntriesOf(r, now, sure) \in Seq(Same)
  <2> DEFINE fields == r.fields
  <2>1. fields \in Seq(Field)
    BY ReadingIs
  <2>2. EntriesOf(r, now, sure) = [i \in 1 .. Len(fields) |-> EntryOf(r, fields[i], now, sure)]
    BY <2>1 DEF EntriesOf
  <2> HIDE DEF fields
  <2>3. ASSUME NEW f \in Field PROVE EntryOf(r, f, now, sure) \in Same
    <3>1. EntryOf(r, f, now, sure) \in Entry
      BY EntryOfIs
    <3>2. EntryOf(r, f, now, sure).sure = sure
      BY DEF EntryOf
    <3> QED BY <3>1, <3>2
  <2> HIDE DEF Same
  <2>4. \A i \in 1 .. Len(fields) : fields[i] \in Field
    BY <2>1
  <2>5. Len(fields) \in Nat /\ \A i \in 1 .. Len(fields) : EntryOf(r, fields[i], now, sure) \in Same
    BY <2>1, <2>3, <2>4
  <2> QED BY <2>2, <2>5
<1> HIDE DEF Same
<1>2. E \in [Reading -> Seq(Same)]
  BY <1>1 DEF Entriesed
<1> HIDE DEF E
<1>3. Mapped(E, batch) \in Seq(Seq(Same))
  BY <1>2, MappedType
<1>4. FlattenSeq(Mapped(E, batch)) \in Seq(Same)
  <2> DEFINE m == Mapped(E, batch)
  <2> HIDE DEF m
  <2>1. m \in Seq(Seq(Same))
    BY <1>3 DEF m
  <2>2. FlattenSeq(m) \in Seq(Same)
    BY <2>1, FlattenType
  <2> QED BY <2>2 DEF m
<1>5. es \in Seq(Same)
  BY <1>4, EntriesIs DEF E
<1> HIDE DEF es
<1>6. \A i \in 1 .. Len(es) : es[i] \in Same
  BY <1>5
<1> QED BY <1>6 DEF Same, es

LEMMA WrittenFinite ==
  ASSUME NEW held, IsFiniteSet(held), held \subseteq Point,
         NEW new \in Seq(Point), NEW I, I \subseteq 1 .. Len(new)
  PROVE  IsFiniteSet(Overwritten(held, new, I)) /\ Overwritten(held, new, I) \subseteq Point
<1> DEFINE n == Len(new)
           T == {new[i] : i \in 1 .. n}
           f == [i \in 1 .. n |-> new[i]]
<1>1. n \in Nat /\ \A i \in 1 .. n : new[i] \in Point
  OBVIOUS
<1> HIDE DEF n
<1>2. IsFiniteSet(1 .. n)
  BY <1>1, FS_Interval
<1>3. f \in Surjection(1 .. n, T)
  BY DEF Surjection
<1>4. IsFiniteSet(T)
  <2> HIDE DEF f, T
  <2> QED BY <1>2, <1>3, FS_Surjection
<1>5. T \subseteq Point
  BY <1>1
<1>6. Overwritten(held, new, I) \subseteq held \cup T
  BY DEF Overwritten, n
<1> HIDE DEF T
<1>7. IsFiniteSet(held \cup T)
  BY <1>4, FS_Union
<1>8. IsFiniteSet(Overwritten(held, new, I))
  BY <1>6, <1>7, FS_Subset
<1> QED BY <1>5, <1>6, <1>8

\* What InfluxDB holds and what was sent, with what makes the points inductive.
PointsInv ==
  /\ points \subseteq Point /\ IsFiniteSet(points)
  /\ ingested \in Seq(Entry)
  /\ Told(points, ingested) /\ Kept(points, ingested)

\* Every part of the step that writes: the batch, its points, and the places of those stored.
LEMMA BatchStored ==
  ASSUME PointsInv, NEW batch \in Batches, NEW now \in Moments, NEW sure \in BOOLEAN,
         NEW I, I \subseteq DOMAIN ReadBack(batch, now),
         sure => I = DOMAIN ReadBack(batch, now),
         points' = Overwritten(points, ReadBack(batch, now), I),
         ingested' = ingested \o Entries(batch, now, sure)
  PROVE  PointsInv'
<1> DEFINE es == Entries(batch, now, sure)
           new == ReadBack(batch, now)
<1>1. batch \in Seq(Reading) /\ now \in Int
  BY BatchesAssumption, ClockAssumption
<1>2. es \in Seq(Entry) /\ new = Mapped(Stored, es)
  BY <1>1, BatchReadBack
<1>3. \A i \in 1 .. Len(es) : es[i].sure = sure
  BY <1>1, EntriesSure
<1> HIDE DEF es, new
<1>4. new \in Seq(Point)
  BY <1>2, StoredIs, MappedType
<1>5. Len(new) = Len(es) /\ DOMAIN new = 1 .. Len(es)
  BY <1>2, <1>4, MappedIs
<1>6. I \subseteq 1 .. Len(new) /\ I \subseteq 1 .. Len(es)
  BY <1>5 DEF new
<1>7. IsFiniteSet(points') /\ points' \subseteq Point
  BY <1>4, <1>6, WrittenFinite DEF PointsInv, new
<1>8. ingested' = Join(ingested, es)
  BY DEF Join, es
<1>9. ingested' \in Seq(Entry)
  BY <1>2, <1>8, JoinIs DEF PointsInv
<1>10. \/ I = 1 .. Len(es)
       \/ \A i \in 1 .. Len(es) : ~es[i].sure
  BY <1>3, <1>5 DEF new
<1>11. Told(Overwritten(points, new, I), Join(ingested, es))
          /\ Kept(Overwritten(points, new, I), Join(ingested, es))
  BY <1>2, <1>6, <1>10, StoringKeeps DEF PointsInv
<1> QED BY <1>7, <1>8, <1>9, <1>11 DEF PointsInv, new

LEMMA PointsInit == InfluxInit => PointsInv
<1> SUFFICES ASSUME InfluxInit PROVE PointsInv
  OBVIOUS
<1>1. points = {} /\ ingested = <<>>
  BY DEF InfluxInit
<1>2. IsFiniteSet(points)
  BY <1>1, FS_EmptySet
<1>3. ingested \in Seq(Entry) /\ Len(ingested) = 0
  BY <1>1
<1>4. Told(points, ingested) /\ Kept(points, ingested)
  BY <1>1, <1>3 DEF Told, Kept
<1> QED BY <1>1, <1>2, <1>3, <1>4 DEF PointsInv

LEMMA PointsUnchanged == PointsInv /\ UNCHANGED <<points, ingested>> => PointsInv'
BY DEF PointsInv

LEMMA StoreBatchPoints ==
  ASSUME PointsInv, NEW batch \in Batches, NEW now \in Moments, StoreBatch(batch, now)
  PROVE  PointsInv'
<1> DEFINE new == ReadBack(batch, now)
           I == DOMAIN new
<1>1. points' = Overwritten(points, new, I) /\ ingested' = ingested \o Entries(batch, now, TRUE)
  BY DEF StoreBatch
<1> QED BY <1>1, BatchStored

LEMMA BatchFailsPoints ==
  ASSUME PointsInv, NEW batch \in Batches, NEW now \in Moments, BatchFails(batch, now)
  PROVE  PointsInv'
<1> DEFINE new == ReadBack(batch, now)
           fits == {i \in DOMAIN new : ~Conflicts(new[i], points \cup ToSet(new))}
           sure == FALSE
<1>1. /\ points' \in {points, Overwritten(points, new, fits)}
      /\ ingested' = ingested \o Entries(batch, now, sure)
  BY DEF BatchFails
<1>2. fits \subseteq DOMAIN new
  OBVIOUS
<1>3. Overwritten(points, new, {}) = points
  BY DEF Overwritten
<1>4. PICK I : I \subseteq DOMAIN new /\ points' = Overwritten(points, new, I)
  <2> HIDE DEF fits, new
  <2>1. CASE points' = points
    BY <1>3, <2>1
  <2>2. CASE points' = Overwritten(points, new, fits)
    BY <1>2, <2>2
  <2> QED BY <1>1, <2>1, <2>2
<1>5. sure \in BOOLEAN /\ (sure => I = DOMAIN new)
  OBVIOUS
<1> HIDE DEF sure
<1> QED BY <1>1, <1>4, <1>5, BatchStored

LEMMA PointsNext == PointsInv /\ [InfluxNext]_influxVars => PointsInv'
<1> SUFFICES ASSUME PointsInv, [InfluxNext]_influxVars PROVE PointsInv'
  OBVIOUS
<1>1. CASE UNCHANGED <<points, ingested>>
  BY <1>1, PointsUnchanged
<1>2. ASSUME NEW batch \in Batches, NEW now \in Moments, StoreBatch(batch, now) PROVE PointsInv'
  BY <1>2, StoreBatchPoints
<1>3. ASSUME NEW batch \in Batches, NEW now \in Moments, BatchFails(batch, now) PROVE PointsInv'
  BY <1>3, BatchFailsPoints
<1>4. ASSUME NEW ask \in Asks, Query(ask) \/ QueryBreaks(ask) PROVE UNCHANGED <<points, ingested>>
  BY <1>4 DEF Query, QueryBreaks, Asking
<1>5. ASSUME QueryFails \/ Answered PROVE UNCHANGED <<points, ingested>>
  BY <1>5 DEF QueryFails, Answered, Asking
<1>6. ASSUME UNCHANGED influxVars PROVE UNCHANGED <<points, ingested>>
  BY <1>6 DEF influxVars
<1> QED BY <1>1, <1>2, <1>3, <1>4, <1>5, <1>6 DEF InfluxNext

\* POST /telemetry: each value that InfluxDB holds is the newest sent under its name and millisecond,
\* and every reading that a device was told is stored has one, also after batches that failed.
THEOREM PointsCorrect == InfluxSpec => []PointsInv
BY PointsInit, PointsNext, PTL DEF InfluxSpec

-----------------------------------------------------------------------------
(* The rows of a table: the points in their order *)

LEMMA LatestExists ==
  ASSUME NEW ps \in SUBSET Point, IsFiniteSet(ps), ps # {}
  PROVE  \E p \in ps : \A q \in ps : q.ms <= p.ms
<1> DEFINE Good(n) == \A S \in SUBSET Point : IsFiniteSet(S) /\ S # {} /\ Cardinality(S) = n =>
                        \E p \in S : \A q \in S : q.ms <= p.ms
           N == {n \in Nat : Good(n)}
<1>0. \A p \in Point : p.ms \in Int
  BY DEF Point
<1>1. 0 \in N
  BY FS_EmptySet
<1>2. ASSUME NEW n \in Nat, n \in N PROVE n + 1 \in N
  <2>1. ASSUME NEW S \in SUBSET Point, IsFiniteSet(S), S # {}, Cardinality(S) = n + 1
        PROVE  \E p \in S : \A q \in S : q.ms <= p.ms
    <3>1. PICK x \in S : TRUE
      BY <2>1
    <3> DEFINE T == S \ {x}
    <3>2. IsFiniteSet(T) /\ Cardinality(T) = n /\ T \in SUBSET Point
      <4>1. T \in SUBSET Point
        BY <2>1
      <4>2. IsFiniteSet(S \ {x}) /\ Cardinality(S \ {x})
               = IF x \in S THEN Cardinality(S) - 1 ELSE Cardinality(S)
        BY <2>1, FS_RemoveElement
      <4>3. (n + 1) - 1 = n
        OBVIOUS
      <4> QED BY <2>1, <3>1, <4>1, <4>2, <4>3
    <3>3. S = T \cup {x}
      BY <3>1
    <3> HIDE DEF T
    <3>4. CASE T = {}
      <4>1. \A q \in S : q.ms <= x.ms
        BY <1>0, <2>1, <3>3, <3>4
      <4> QED BY <4>1
    <3>5. CASE T # {}
      <4>1. PICK p \in T : \A q \in T : q.ms <= p.ms
        BY <1>2, <3>2, <3>5
      <4>2. p \in S /\ p.ms \in Int /\ x.ms \in Int
        BY <1>0, <2>1, <3>1, <3>3, <4>1
      <4>3. \A q \in T : q.ms \in Int
        BY <1>0, <3>2
      <4>4. CASE x.ms <= p.ms
        BY <3>3, <4>1, <4>2, <4>4
      <4>5. CASE p.ms < x.ms
        <5>1. \A q \in S : q.ms <= x.ms
          BY <3>3, <4>1, <4>2, <4>3, <4>5
        <5> QED BY <5>1
      <4> QED BY <4>2, <4>4, <4>5
    <3> QED BY <3>4, <3>5
  <2> QED BY <2>1
<1> HIDE DEF N
<1>3. Nat \subseteq N
  BY <1>1, <1>2, NatInd
<1>4. Cardinality(ps) \in Nat
  BY FS_CardinalityType
<1>5. Good(Cardinality(ps))
  BY <1>3, <1>4 DEF N
<1> QED BY <1>5

Ordered(rows) ==
  \A j \in DOMAIN rows : \A i \in 1 .. j - 1 : rows[i] # rows[j] /\ rows[i].ms <= rows[j].ms

LEMMA OrderExists ==
  ASSUME NEW ps \in SUBSET Point, IsFiniteSet(ps)
  PROVE  \E rows \in [1 .. Cardinality(ps) -> ps] : Ordered(rows)
<1> DEFINE Good(n) == \A S \in SUBSET Point : IsFiniteSet(S) /\ Cardinality(S) = n =>
                        \E rows \in [1 .. n -> S] : Ordered(rows)
           N == {n \in Nat : Good(n)}
<1>1. 0 \in N
  <2>1. ASSUME NEW S \in SUBSET Point PROVE \E rows \in [1 .. 0 -> S] : Ordered(rows)
    <3>1. [i \in 1 .. 0 |-> CHOOSE p \in S : TRUE] \in [1 .. 0 -> S]
      OBVIOUS
    <3>2. Ordered([i \in 1 .. 0 |-> CHOOSE p \in S : TRUE])
      BY DEF Ordered
    <3> QED BY <3>1, <3>2
  <2> QED BY <2>1
<1>2. ASSUME NEW n \in Nat, n \in N PROVE n + 1 \in N
  <2>1. ASSUME NEW S \in SUBSET Point, IsFiniteSet(S), Cardinality(S) = n + 1
        PROVE  \E rows \in [1 .. n + 1 -> S] : Ordered(rows)
    <3>1. S # {}
      BY <2>1, FS_EmptySet
    <3>2. PICK m \in S : \A q \in S : q.ms <= m.ms
      BY <2>1, <3>1, LatestExists
    <3> DEFINE T == S \ {m}
    <3>3. IsFiniteSet(T) /\ Cardinality(T) = n /\ T \in SUBSET Point
      <4>1. T \in SUBSET Point
        BY <2>1
      <4>2. IsFiniteSet(S \ {m}) /\ Cardinality(S \ {m})
               = IF m \in S THEN Cardinality(S) - 1 ELSE Cardinality(S)
        BY <2>1, FS_RemoveElement
      <4>3. (n + 1) - 1 = n
        OBVIOUS
      <4> QED BY <2>1, <3>2, <4>1, <4>2, <4>3
    <3>4. PICK rows \in [1 .. n -> T] : Ordered(rows)
      BY <1>2, <3>3
    <3> DEFINE more == [i \in 1 .. n + 1 |-> IF i = n + 1 THEN m ELSE rows[i]]
    <3>5. \A i \in 1 .. n : rows[i] \in T
      BY <3>4
    <3>6. more \in [1 .. n + 1 -> S]
      BY <3>5
    <3>7. ASSUME NEW j \in 1 .. n + 1, NEW i \in 1 .. j - 1
          PROVE  more[i] # more[j] /\ more[i].ms <= more[j].ms
      <4>1. i \in 1 .. n /\ more[i] = rows[i]
        OBVIOUS
      <4>2. CASE j = n + 1
        BY <3>2, <3>5, <4>1, <4>2
      <4>3. CASE j # n + 1
        <5>1. j \in 1 .. n /\ more[j] = rows[j]
          BY <4>3
        <5>2. j \in DOMAIN rows
          BY <3>4, <5>1
        <5> QED BY <3>4, <4>1, <5>1, <5>2 DEF Ordered
      <4> QED BY <4>2, <4>3
    <3>8. DOMAIN more = 1 .. n + 1
      OBVIOUS
    <3> HIDE DEF more
    <3>9. Ordered(more)
      BY <3>7, <3>8 DEF Ordered
    <3> QED BY <3>6, <3>9
  <2> QED BY <2>1
<1> HIDE DEF N
<1>3. Nat \subseteq N
  BY <1>1, <1>2, NatInd
<1>4. Cardinality(ps) \in Nat
  BY FS_CardinalityType
<1>5. Good(Cardinality(ps))
  BY <1>3, <1>4 DEF N
<1> QED BY <1>5

LEMMA InOrderIs ==
  ASSUME NEW ps \in SUBSET Point, IsFiniteSet(ps)
  PROVE  /\ Cardinality(ps) \in Nat
         /\ InOrder(ps) \in [1 .. Cardinality(ps) -> ps]
         /\ \A p \in ps : \E i \in 1 .. Cardinality(ps) : InOrder(ps)[i] = p
<1> DEFINE n == Cardinality(ps)
           rows == InOrder(ps)
<1>1. n \in Nat
  BY FS_CardinalityType
<1>2. rows \in [1 .. n -> ps] /\ Ordered(rows)
  <2>1. \E r \in [1 .. n -> ps] : Ordered(r)
    BY OrderExists
  <2>2. rows = CHOOSE r \in [1 .. n -> ps] : Ordered(r)
    BY DEF InOrder, Ordered
  <2> HIDE DEF rows, n
  <2> QED BY <2>1, <2>2
<1> HIDE DEF rows, n
<1>3. ASSUME NEW i \in 1 .. n, NEW j \in 1 .. n, rows[i] = rows[j] PROVE i = j
  <2>1. ASSUME i < j PROVE FALSE
    <3>1. j \in DOMAIN rows /\ i \in 1 .. j - 1
      BY <1>2, <2>1
    <3> QED BY <1>2, <1>3, <3>1 DEF Ordered
  <2>2. ASSUME j < i PROVE FALSE
    <3>1. i \in DOMAIN rows /\ j \in 1 .. i - 1
      BY <1>2, <2>2
    <3> QED BY <1>2, <1>3, <3>1 DEF Ordered
  <2> QED BY <2>1, <2>2
<1>4. rows \in Injection(1 .. n, ps)
  BY <1>2, <1>3 DEF Injection, IsInjective
<1>5. Cardinality(1 .. n) = Cardinality(ps)
  <2>1. Cardinality(1 .. n) = n
    BY <1>1, FS_Interval
  <2> QED BY <2>1 DEF n
<1>6. rows \in Surjection(1 .. n, ps)
  BY <1>4, <1>5, FS_Injection
<1>7. \A p \in ps : \E i \in 1 .. n : rows[i] = p
  BY <1>6 DEF Surjection
<1> QED BY <1>1, <1>2, <1>7 DEF rows, n

-----------------------------------------------------------------------------
(* A table is parsed as its rows *)

ColumnTypes(type) == <<"string", "long", "dateTime:RFC3339", type, "string", "string">>
Columns == <<"result", "table", "_time", "_value", "_field", "sensor">>
TypeRecord(type) == [first |-> "#datatype", cells |-> ColumnTypes(type)]
HeaderRecord == [first |-> "", cells |-> Columns]
DataRecord(p) == [first |-> "", cells |-> Cells(p)]
ErrorTypes == [first |-> "#datatype", cells |-> <<"string", "string">>]
ErrorHeader == [first |-> "", cells |-> <<"error", "reference">>]
ErrorRecord == [first |-> "", cells |-> <<<<"out of memory">>, <<>>>>]

Kinds == {"double", "string", "boolean"}
CsvRecord == {Blank, HeaderRecord, ErrorTypes, ErrorHeader, ErrorRecord}
          \cup {TypeRecord(type) : type \in Kinds} \cup {DataRecord(p) : p \in Point}
RowFor(type, p) == Row(Columns, ColumnTypes(type), Cells(p))
Rows == {RowFor(type, p) : type \in Kinds, p \in Point}

LEMMA TablesIs ==
  ASSUME NEW t, NEW h, NEW rs
  PROVE  /\ Tables(t, h, rs).types = t /\ Tables(t, h, rs).header = h /\ Tables(t, h, rs).rows = rs
BY DEF Tables

LEMMA RecordKinds ==
  ASSUME NEW type, NEW p
  PROVE  /\ TypeRecord(type) # Blank /\ TypeRecord(type).first = "#datatype"
         /\ TypeRecord(type).cells = ColumnTypes(type)
         /\ HeaderRecord # Blank /\ HeaderRecord.first # "#datatype" /\ HeaderRecord.cells = Columns
         /\ DataRecord(p) # Blank /\ DataRecord(p).first # "#datatype" /\ DataRecord(p).cells = Cells(p)
         /\ ErrorTypes # Blank /\ ErrorTypes.first = "#datatype"
         /\ ErrorTypes.cells = <<"string", "string">>
         /\ ErrorHeader # Blank /\ ErrorHeader.first # "#datatype"
         /\ ErrorHeader.cells = <<"error", "reference">>
         /\ ErrorRecord # Blank /\ ErrorRecord.first # "#datatype"
         /\ Columns # <<>> /\ <<"error", "reference">> # <<>>
<1>1. Columns # <<>> /\ Cells(p) # <<>> /\ <<"error", "reference">> # <<>>
  BY DEF Columns, Cells
<1>2. TypeRecord(type) # Blank /\ TypeRecord(type).first = "#datatype"
      /\ TypeRecord(type).cells = ColumnTypes(type)
  BY DEF TypeRecord, Blank
<1>3. HeaderRecord # Blank /\ HeaderRecord.first # "#datatype" /\ HeaderRecord.cells = Columns
  BY <1>1 DEF HeaderRecord, Blank
<1>4. DataRecord(p) # Blank /\ DataRecord(p).first # "#datatype" /\ DataRecord(p).cells = Cells(p)
  BY <1>1 DEF DataRecord, Blank
<1>5. /\ ErrorTypes # Blank /\ ErrorTypes.first = "#datatype"
      /\ ErrorTypes.cells = <<"string", "string">>
  BY DEF ErrorTypes, Blank
<1>6. ErrorHeader # Blank /\ ErrorHeader.first # "#datatype"
      /\ ErrorHeader.cells = <<"error", "reference">>
  BY <1>1 DEF ErrorHeader, Blank
<1>7. ErrorRecord # Blank /\ ErrorRecord.first # "#datatype"
  <2>1. <<<<"out of memory">>, <<>>>> # <<>>
    OBVIOUS
  <2> QED BY <2>1 DEF ErrorRecord, Blank
<1> QED BY <1>1, <1>2, <1>3, <1>4, <1>5, <1>6, <1>7

LEMMA RecordRead ==
  ASSUME NEW t, NEW h, NEW rs, NEW type, NEW p
  PROVE  /\ Step("tables", Tables(t, h, rs), Blank) = Tables(t, <<>>, rs)
         /\ Step("tables", Tables(t, h, rs), TypeRecord(type)) = Tables(ColumnTypes(type), <<>>, rs)
         /\ Step("tables", Tables(t, <<>>, rs), HeaderRecord) = Tables(t, Columns, rs)
         /\ Step("tables", Tables(ColumnTypes(type), Columns, rs), DataRecord(p))
              = Tables(ColumnTypes(type), Columns, Appended(rs, RowFor(type, p)))
<1>1. \A s, r : Step("tables", s, r) = ReadRecord(s, r)
  BY DEF Step
<1>2. ReadRecord(Tables(t, h, rs), Blank) = Tables(t, <<>>, rs)
  <2> DEFINE s == Tables(t, h, rs)
  <2>1. s.types = t /\ s.rows = rs
    BY TablesIs
  <2> HIDE DEF s
  <2>2. ReadRecord(s, Blank) = Tables(t, <<>>, rs)
    BY <2>1 DEF ReadRecord
  <2> QED BY <2>2 DEF s
<1>3. ReadRecord(Tables(t, h, rs), TypeRecord(type)) = Tables(ColumnTypes(type), <<>>, rs)
  <2> DEFINE s == Tables(t, h, rs)
             r == TypeRecord(type)
  <2>1. r # Blank /\ r.first = "#datatype" /\ r.cells = ColumnTypes(type)
    BY RecordKinds
  <2> HIDE DEF r
  <2>2. s.rows = rs
    BY TablesIs
  <2> HIDE DEF s
  <2>3. ReadRecord(s, r) = Tables(ColumnTypes(type), <<>>, rs)
    BY <2>1, <2>2 DEF ReadRecord
  <2> QED BY <2>3 DEF r, s
<1>4. ReadRecord(Tables(t, <<>>, rs), HeaderRecord) = Tables(t, Columns, rs)
  <2> DEFINE s == Tables(t, <<>>, rs)
             r == HeaderRecord
  <2>1. r # Blank /\ r.first # "#datatype" /\ r.cells = Columns
    BY RecordKinds
  <2>2. s.header = <<>> /\ s.types = t /\ s.rows = rs
    BY TablesIs
  <2> HIDE DEF r, s
  <2>3. ReadRecord(s, r) = Tables(t, Columns, rs)
    BY <2>1, <2>2 DEF ReadRecord
  <2> QED BY <2>3 DEF r, s
<1>5. ReadRecord(Tables(ColumnTypes(type), Columns, rs), DataRecord(p))
        = Tables(ColumnTypes(type), Columns, Appended(rs, RowFor(type, p)))
  <2> DEFINE s == Tables(ColumnTypes(type), Columns, rs)
             r == DataRecord(p)
             x == Appended(rs, RowFor(type, p))
  <2>1. r # Blank /\ r.first # "#datatype" /\ r.cells = Cells(p) /\ Columns # <<>>
    BY RecordKinds
  <2>2. s.header = Columns /\ s.types = ColumnTypes(type) /\ s.rows = rs
    BY TablesIs
  <2>3. x = Append(s.rows, Row(s.header, s.types, r.cells))
    BY <2>1, <2>2 DEF Appended, RowFor
  <2> HIDE DEF r, s, x
  <2>4. WithRow(s, r.cells) = Tables(ColumnTypes(type), Columns, x)
    BY <2>2, <2>3 DEF WithRow
  <2>5. ReadRecord(s, r) = WithRow(s, r.cells)
    BY <2>1, <2>2 DEF ReadRecord
  <2> QED BY <2>4, <2>5 DEF r, s, x
<1> QED BY <1>1, <1>2, <1>3, <1>4, <1>5

DataOf == [p \in Point |-> DataRecord(p)]
RowsOf(type) == [p \in Point |-> RowFor(type, p)]

LEMMA RecordIs ==
  /\ Blank \in CsvRecord /\ HeaderRecord \in CsvRecord /\ ErrorTypes \in CsvRecord
        /\ ErrorHeader \in CsvRecord
  /\ ErrorRecord \in CsvRecord
  /\ \A type \in Kinds : TypeRecord(type) \in CsvRecord
  /\ \A p \in Point : DataRecord(p) \in CsvRecord /\ DataOf[p] = DataRecord(p)
  /\ DataOf \in [Point -> CsvRecord]
BY DEF CsvRecord, DataOf

LEMMA RowsOfIs ==
  ASSUME NEW type \in Kinds
  PROVE  /\ RowsOf(type) \in [Point -> Rows]
         /\ \A p \in Point : RowsOf(type)[p] = RowFor(type, p) /\ RowFor(type, p) \in Rows
BY DEF RowsOf, Rows

LEMMA RecordAfterCons ==
  ASSUME NEW s, NEW c \in CsvRecord, NEW t \in Seq(CsvRecord)
  PROVE  After("tables", s, Cons(c, t)) = After("tables", Step("tables", s, c), t)
BY AfterCons

LEMMA RecordAfterJoin ==
  ASSUME NEW s, NEW t \in Seq(CsvRecord), NEW u \in Seq(CsvRecord)
  PROVE  After("tables", s, Join(t, u)) = After("tables", After("tables", s, t), u)
BY AfterJoin

LEMMA DataRead ==
  ASSUME NEW type \in Kinds, NEW t \in Seq(Point), NEW rs \in Seq(Rows)
  PROVE  After("tables", Tables(ColumnTypes(type), Columns, rs), Mapped(DataOf, t))
           = Tables(ColumnTypes(type), Columns, Join(rs, Mapped(RowsOf(type), t)))
<1> DEFINE State(x) == Tables(ColumnTypes(type), Columns, x)
           F == DataOf
           G == RowsOf(type)
           Good(u) == \A x \in Seq(Rows) :
             After("tables", State(x), Mapped(F, u)) = State(Join(x, Mapped(G, u)))
           S == {u \in Seq(Point) : Good(u)}
<1>0. G \in [Point -> Rows]
  BY RowsOfIs
<1>1. \A p \in Point : /\ G[p] = RowFor(type, p) /\ RowFor(type, p) \in Rows
                       /\ F[p] = DataRecord(p) /\ DataRecord(p) \in CsvRecord
  BY RowsOfIs, RecordIs
<1>2. F \in [Point -> CsvRecord]
  BY RecordIs
<1>3. ASSUME NEW x, NEW p PROVE Step("tables", State(x), DataRecord(p))
         = State(Appended(x, RowFor(type, p)))
  BY RecordRead
<1> HIDE DEF F, G, State
<1>4. <<>> \in S
  <2>1. ASSUME NEW x \in Seq(Rows)
        PROVE  After("tables", State(x), Mapped(F, <<>>)) = State(Join(x, Mapped(G, <<>>)))
    <3>1. Mapped(F, <<>>) = <<>> /\ Mapped(G, <<>>) = <<>>
      BY MappedEmpty
    <3>2. Join(x, <<>>) = x
      BY JoinIs, EmptySeq
    <3> QED BY <3>1, <3>2, AfterEmpty
  <2> QED BY <2>1, EmptySeq
<1>5. ASSUME NEW p \in Point, NEW u \in Seq(Point), u \in S PROVE Cons(p, u) \in S
  <2>1. Good(u)
    BY <1>5
  <2>2. Cons(p, u) \in Seq(Point)
    BY ConsIs
  <2>3. ASSUME NEW x \in Seq(Rows)
        PROVE  After("tables", State(x), Mapped(F, Cons(p, u))) = State(Join(x, Mapped(G, Cons(p, u))))
    <3> DEFINE c == DataRecord(p)
               r == RowFor(type, p)
               mf == Mapped(F, u)
               mg == Mapped(G, u)
               y == Appended(x, r)
    <3>1. c \in CsvRecord /\ r \in Rows /\ F[p] = c /\ G[p] = r
      BY <1>1
    <3>2. Mapped(F, Cons(p, u)) = Cons(F[p], mf)
      BY MappedCons
    <3>3. Mapped(G, Cons(p, u)) = Cons(G[p], mg)
      BY MappedCons
    <3>4. mf \in Seq(CsvRecord)
      BY <1>2, MappedType
    <3>5. mg \in Seq(Rows)
      BY <1>0, MappedType
    <3>6. Step("tables", State(x), c) = State(y)
      BY <1>3
    <3> HIDE DEF c, r
    <3>7. y \in Seq(Rows)
      BY <3>1, AppendedIs
    <3>8. Join(y, mg) = Join(x, Cons(r, mg))
      BY <3>1, <3>5, AppendedJoin
    <3> HIDE DEF y
    <3>9. After("tables", State(y), mf) = State(Join(y, mg))
      BY <2>1, <3>7
    <3> HIDE DEF mf, mg
    <3>10. After("tables", State(x), Cons(c, mf)) = After("tables", Step("tables", State(x), c), mf)
      BY <3>1, <3>4, RecordAfterCons
    <3> QED BY <3>1, <3>2, <3>3, <3>6, <3>8, <3>9, <3>10
  <2> QED BY <2>2, <2>3
<1> HIDE DEF S
<1>6. Seq(Point) \subseteq S
  BY <1>4, <1>5, SeqInd
<1>7. Good(t)
  BY <1>6 DEF S
<1> QED BY <1>7 DEF State, F, G

\* The points that a table shows, of those that it selects.
Count(ps, limit) == IF Cardinality(ps) < limit THEN Cardinality(ps) ELSE limit
Shows(ps, limit) == [i \in 1 .. Count(ps, limit) |-> InOrder(ps)[i]]

LEMMA ShowsIs ==
  ASSUME NEW ps \in SUBSET Point, IsFiniteSet(ps), NEW limit \in Nat
  PROVE  /\ Shows(ps, limit) \in Seq(ps) /\ Shows(ps, limit) \in Seq(Point)
         /\ Len(Shows(ps, limit)) = Count(ps, limit) /\ Count(ps, limit) \in Nat
         /\ Len(InOrder(ps)) = Cardinality(ps)
         /\ Count(ps, limit) < limit =>
              \A p \in ps : \E i \in 1 .. Len(Shows(ps, limit)) : Shows(ps, limit)[i] = p
<1> DEFINE n == Cardinality(ps)
           rows == InOrder(ps)
           k == Count(ps, limit)
           s == Shows(ps, limit)
<1>1. n \in Nat /\ rows \in [1 .. n -> ps] /\ \A p \in ps : \E i \in 1 .. n : rows[i] = p
  BY InOrderIs
<1>2. k = IF n < limit THEN n ELSE limit
  BY DEF Count
<1>3. s = [i \in 1 .. k |-> rows[i]]
  BY DEF Shows
<1> HIDE DEF n, rows, k, s
<1>4. k \in Nat /\ k <= n /\ (k < limit => k = n)
  BY <1>1, <1>2
<1>5. \A i \in 1 .. k : rows[i] \in ps
  BY <1>1, <1>4
<1>6. s \in Seq(ps) /\ Len(s) = k
  BY <1>3, <1>4, <1>5
<1>7. s \in Seq(Point)
  BY <1>6
<1>8. Len(rows) = n
  <2>1. rows \in Seq(ps)
    BY <1>1
  <2> QED BY <1>1, <2>1
<1>9. ASSUME k < limit PROVE \A p \in ps : \E i \in 1 .. Len(s) : s[i] = p
  BY <1>1, <1>3, <1>4, <1>6, <1>9
<1> QED BY <1>4, <1>6, <1>7, <1>8, <1>9 DEF n, rows, k, s

LEMMA TableIs ==
  ASSUME NEW type \in Kinds, NEW ps \in SUBSET Point, IsFiniteSet(ps), NEW limit \in Nat
  PROVE  /\ Table(type, ps, limit) \in Seq(CsvRecord)
         /\ Table(type, ps, limit)
              = Join(Join(<<TypeRecord(type), HeaderRecord>>, Mapped(DataOf, Shows(ps, limit))), <<Blank>>)
<1> DEFINE s == Shows(ps, limit)
           k == Count(ps, limit)
           data == [i \in 1 .. k |-> [first |-> "", cells |-> Cells(InOrder(ps)[i])]]
           head == <<TypeRecord(type), HeaderRecord>>
           end == <<Blank>>
           m == Mapped(DataOf, s)
<1>1. s \in Seq(Point) /\ Len(s) = k /\ k \in Nat /\ Len(InOrder(ps)) = Cardinality(ps)
  BY ShowsIs
<1>2. data = m
  <2>1. ASSUME NEW i \in 1 .. k
        PROVE  DataOf[s[i]] = [first |-> "", cells |-> Cells(InOrder(ps)[i])]
    <3> DEFINE p == s[i]
    <3>1. p \in Point
      BY <1>1
    <3>2. p = InOrder(ps)[i]
      BY DEF Shows
    <3> HIDE DEF p
    <3>3. DataOf[p] = [first |-> "", cells |-> Cells(p)]
      BY <3>1, RecordIs DEF DataRecord
    <3> QED BY <3>2, <3>3 DEF p
  <2> HIDE DEF s, k
  <2> QED BY <1>1, <2>1 DEF Mapped
<1>3. head = Annotated(ColumnTypes(type), Columns)
  BY DEF Annotated, TypeRecord, HeaderRecord
<1>4. Table(type, ps, limit) = Join(Join(head, data), end)
  <2> DEFINE rows == InOrder(ps)
  <2>1. k = IF Len(rows) < limit THEN Len(rows) ELSE limit
    BY <1>1 DEF Count
  <2> HIDE DEF k, rows, head, end
  <2>2. Table(type, ps, limit)
          = (Annotated(ColumnTypes(type), Columns)
             \o [i \in 1 .. k |-> [first |-> "", cells |-> Cells(rows[i])]]) \o <<Blank>>
    BY <2>1 DEF Table, rows, ColumnTypes, Columns
  <2> QED BY <1>3, <2>2 DEF Join, rows, end
<1>5. head \in Seq(CsvRecord) /\ end \in Seq(CsvRecord)
  BY RecordIs
<1>6. m \in Seq(CsvRecord)
  BY <1>1, RecordIs, MappedType
<1> HIDE DEF s, k, data, head, end, m
<1>7. Join(head, m) \in Seq(CsvRecord)
  BY <1>5, <1>6, JoinIs
<1>8. Join(Join(head, m), end) \in Seq(CsvRecord)
  BY <1>5, <1>7, JoinIs
<1> QED BY <1>2, <1>4, <1>8 DEF head, m, s, end

LEMMA TableRead ==
  ASSUME NEW type \in Kinds, NEW ps \in SUBSET Point, IsFiniteSet(ps), NEW limit \in Nat,
         NEW t, NEW h, NEW rs \in Seq(Rows)
  PROVE  After("tables", Tables(t, h, rs), Table(type, ps, limit))
           = Tables(ColumnTypes(type), <<>>, Join(rs, Mapped(RowsOf(type), Shows(ps, limit))))
<1> DEFINE T == TypeRecord(type)
           H == HeaderRecord
           header == <<H>>
           head == <<T, H>>
           end == <<Blank>>
           s == Shows(ps, limit)
           data == Mapped(DataOf, s)
           more == Join(rs, Mapped(RowsOf(type), s))
           s0 == Tables(t, h, rs)
           s1 == Tables(ColumnTypes(type), <<>>, rs)
           s2 == Tables(ColumnTypes(type), Columns, rs)
           s3 == Tables(ColumnTypes(type), Columns, more)
           s4 == Tables(ColumnTypes(type), <<>>, more)
<1>1. T \in CsvRecord /\ header \in Seq(CsvRecord) /\ head \in Seq(CsvRecord) /\ end \in Seq(CsvRecord)
  BY RecordIs
<1>2. s \in Seq(Point)
  BY ShowsIs
<1>3. data \in Seq(CsvRecord)
  BY <1>2, RecordIs, MappedType
<1>4. head = Cons(T, header)
  BY DEF Cons
<1>5. Step("tables", s0, T) = s1
  BY RecordRead
<1>6. After("tables", s1, header) = s2
  BY RecordRead, AfterOne
<1>7. After("tables", s3, end) = s4
  BY RecordRead, AfterOne
<1> HIDE DEF T, H, header, head, end, s
<1>8. After("tables", s2, data) = s3
  BY <1>2, DataRead
<1> HIDE DEF data, more, s0, s1, s2, s3, s4
<1>9. After("tables", s0, Cons(T, header)) = After("tables", Step("tables", s0, T), header)
  BY <1>1, RecordAfterCons
<1>10. After("tables", s0, head) = s2
  BY <1>4, <1>5, <1>6, <1>9
<1>11. Join(head, data) \in Seq(CsvRecord)
  BY <1>1, <1>3, JoinIs
<1>12. After("tables", s0, Join(head, data)) = After("tables", After("tables", s0, head), data)
  BY <1>1, <1>3, RecordAfterJoin
<1>13. After("tables", s0, Join(Join(head, data), end))
         = After("tables", After("tables", s0, Join(head, data)), end)
  BY <1>1, <1>11, RecordAfterJoin
<1>14. Table(type, ps, limit) = Join(Join(head, data), end)
  BY TableIs DEF head, T, H, data, s, end
<1> QED BY <1>7, <1>8, <1>10, <1>12, <1>13, <1>14 DEF s0, s4, more, s

-----------------------------------------------------------------------------
(* InfluxDB's answer is parsed as the rows of its tables *)

OfType(flux, type) == {p \in Selected(flux) : p.type = type}
TableOf(flux, type) ==
  IF OfType(flux, type) = {} THEN <<>> ELSE Table(type, OfType(flux, type), flux.limit)
RowsIn(flux, type) ==
  IF OfType(flux, type) = {} THEN <<>>
  ELSE Mapped(RowsOf(type), Shows(OfType(flux, type), flux.limit))

LEMMA OfTypeIs ==
  ASSUME PointsInv, NEW flux, NEW type
  PROVE  OfType(flux, type) \in SUBSET Point /\ IsFiniteSet(OfType(flux, type))
<1>1. OfType(flux, type) \subseteq points
  BY DEF OfType, Selected
<1> QED BY <1>1, FS_Subset DEF PointsInv

LEMMA TableOfIs ==
  ASSUME PointsInv, NEW flux, flux.limit \in Nat, NEW type \in Kinds
  PROVE  TableOf(flux, type) \in Seq(CsvRecord) /\ RowsIn(flux, type) \in Seq(Rows)
<1> DEFINE ps == OfType(flux, type)
           limit == flux.limit
<1>1. ps \in SUBSET Point /\ IsFiniteSet(ps)
  BY OfTypeIs
<1> HIDE DEF ps, limit
<1>2. limit \in Nat
  BY DEF limit
<1>3. Table(type, ps, limit) \in Seq(CsvRecord)
  BY <1>1, <1>2, TableIs
<1>4. Shows(ps, limit) \in Seq(Point)
  BY <1>1, <1>2, ShowsIs
<1>5. Mapped(RowsOf(type), Shows(ps, limit)) \in Seq(Rows)
  BY <1>4, RowsOfIs, MappedType
<1>6. <<>> \in Seq(CsvRecord) /\ <<>> \in Seq(Rows)
  OBVIOUS
<1> QED BY <1>3, <1>5, <1>6 DEF TableOf, RowsIn, ps, limit

LEMMA TableOfRead ==
  ASSUME PointsInv, NEW flux, flux.limit \in Nat, NEW type \in Kinds, NEW t, NEW h, NEW rs \in Seq(Rows)
  PROVE  \E t2, h2 : After("tables", Tables(t, h, rs), TableOf(flux, type))
                       = Tables(t2, h2, Join(rs, RowsIn(flux, type)))
<1> DEFINE ps == OfType(flux, type)
           limit == flux.limit
<1>1. ps \in SUBSET Point /\ IsFiniteSet(ps)
  BY OfTypeIs
<1>2. CASE ps = {}
  <2>1. TableOf(flux, type) = <<>> /\ RowsIn(flux, type) = <<>>
    BY <1>2 DEF TableOf, RowsIn
  <2>2. Join(rs, <<>>) = rs
    BY JoinIs, EmptySeq
  <2>3. After("tables", Tables(t, h, rs), <<>>) = Tables(t, h, rs)
    BY AfterEmpty
  <2> QED BY <2>1, <2>2, <2>3
<1>3. CASE ps # {}
  <2>1. TableOf(flux, type) = Table(type, ps, limit)
        /\ RowsIn(flux, type) = Mapped(RowsOf(type), Shows(ps, limit))
    BY <1>3 DEF TableOf, RowsIn
  <2> HIDE DEF ps, limit
  <2>2. limit \in Nat
    BY DEF limit
  <2>3. After("tables", Tables(t, h, rs), Table(type, ps, limit))
          = Tables(ColumnTypes(type), <<>>, Join(rs, Mapped(RowsOf(type), Shows(ps, limit))))
    BY <1>1, <2>2, TableRead
  <2> QED BY <2>1, <2>3
<1> QED BY <1>2, <1>3

LEMMA CsvIs ==
  ASSUME PointsInv, NEW flux, flux.limit \in Nat
  PROVE  /\ Csv(flux) \in Seq(CsvRecord)
         /\ Csv(flux) = Join(TableOf(flux, "double"),
                             Join(TableOf(flux, "string"), TableOf(flux, "boolean")))
<1> DEFINE A == TableOf(flux, "double")
           B == TableOf(flux, "string")
           C == TableOf(flux, "boolean")
           p == [i \in 1 .. 3 |->
                   LET type == <<"double", "string", "boolean">>[i] IN
                   IF OfType(flux, type) = {} THEN <<>> ELSE Table(type, OfType(flux, type), flux.limit)]
           one == <<C>>
           two == <<B, C>>
           S == Seq(CsvRecord)
<1>1. A \in S /\ B \in S /\ C \in S
  <2>1. \A type \in Kinds : TableOf(flux, type) \in S
    BY TableOfIs
  <2> QED BY <2>1 DEF Kinds
<1>2. Csv(flux) = FlattenSeq(p)
  BY DEF Csv, OfType
<1>3. p = [i \in 1 .. 3 |-> TableOf(flux, <<"double", "string", "boolean">>[i])]
  BY DEF TableOf
<1>4. p = <<A, B, C>>
  BY <1>3
<1> HIDE DEF A, B, C, p
<1>5. one \in Seq(S) /\ two \in Seq(S)
  BY <1>1
<1>6. two = Cons(B, one) /\ <<A, B, C>> = Cons(A, two)
  <2>1. <<B, C>> = Cons(B, one)
    <3> DEFINE w == <<B, C>>
    <3>1. w \in Seq(S) /\ Len(w) = 2 /\ w[1] = B /\ w[2] = C
      BY <1>1
    <3>2. Len(one) = 1 /\ one[1] = C
      OBVIOUS
    <3> HIDE DEF w, one, S
    <3>3. \A i \in 1 .. Len(one) : w[i + 1] = one[i]
      BY <3>1, <3>2
    <3>4. w = Cons(B, one)
      <4>1. B \in S /\ one \in Seq(S) /\ Len(w) = Len(one) + 1
        BY <1>1, <1>5, <3>1, <3>2
      <4> QED BY <3>1, <3>3, <4>1, IsCons
    <3> QED BY <3>4 DEF w
  <2>2. <<A, B, C>> = Cons(A, two)
    <3> DEFINE w == <<A, B, C>>
    <3>1. w \in Seq(S) /\ Len(w) = 3 /\ w[1] = A /\ w[2] = B /\ w[3] = C
      BY <1>1
    <3>2. Len(two) = 2 /\ two[1] = B /\ two[2] = C
      OBVIOUS
    <3> HIDE DEF w, two, S
    <3>3. \A i \in 1 .. Len(two) : w[i + 1] = two[i]
      <4>1. ASSUME NEW i \in 1 .. Len(two) PROVE w[i + 1] = two[i]
        <5>1. i = 1 \/ i = 2
          BY <3>2
        <5> QED BY <3>1, <3>2, <5>1
      <4> QED BY <4>1
    <3>4. w = Cons(A, two)
      <4>1. A \in S /\ two \in Seq(S) /\ Len(w) = Len(two) + 1
        BY <1>1, <1>5, <3>1, <3>2
      <4> QED BY <3>1, <3>3, <4>1, IsCons
    <3> QED BY <3>4 DEF w
  <2> QED BY <2>1, <2>2
<1>7. FlattenSeq(one) = C
  BY <1>1, FlattenOne
<1> HIDE DEF one, two
<1>8. FlattenSeq(Cons(B, one)) = Join(B, FlattenSeq(one))
  BY <1>1, <1>5, FlattenCons
<1>9. FlattenSeq(Cons(A, two)) = Join(A, FlattenSeq(two))
  BY <1>1, <1>5, FlattenCons
<1>10. Csv(flux) = Join(A, Join(B, C))
  BY <1>2, <1>4, <1>6, <1>7, <1>8, <1>9
<1>11. Join(B, C) \in Seq(CsvRecord)
  BY <1>1, JoinIs
<1>12. Join(A, Join(B, C)) \in Seq(CsvRecord)
  BY <1>1, <1>11, JoinIs
<1> QED BY <1>10, <1>12 DEF A, B, C

RowsOfAll(flux) == Join(Join(RowsIn(flux, "double"), RowsIn(flux, "string")), RowsIn(flux, "boolean"))

LEMMA CsvReadBack ==
  ASSUME PointsInv, NEW flux, flux.limit \in Nat
  PROVE  ParseCsv(Csv(flux)) = RowsOfAll(flux)
<1> DEFINE d == "double"
           s == "string"
           b == "boolean"
           A == TableOf(flux, d)
           B == TableOf(flux, s)
           C == TableOf(flux, b)
           ra == RowsIn(flux, d)
           rb == RowsIn(flux, s)
           rc == RowsIn(flux, b)
           e == <<>>
           start == Tables(e, e, e)
<1>1. d \in Kinds /\ s \in Kinds /\ b \in Kinds
  BY DEF Kinds
<1>2. Csv(flux) \in Seq(CsvRecord) /\ Csv(flux) = Join(A, Join(B, C))
  BY CsvIs
<1> HIDE DEF d, s, b
<1>3. A \in Seq(CsvRecord) /\ B \in Seq(CsvRecord) /\ C \in Seq(CsvRecord)
  BY <1>1, TableOfIs
<1>4. ra \in Seq(Rows) /\ rb \in Seq(Rows) /\ rc \in Seq(Rows)
  BY <1>1, TableOfIs
<1>5. e \in Seq(Rows)
  OBVIOUS
<1> HIDE DEF e
<1>6. PICK t1, h1 : After("tables", start, A) = Tables(t1, h1, Join(e, ra))
  BY <1>1, <1>5, TableOfRead
<1>7. Join(e, ra) = ra
  BY <1>4, JoinIs DEF e
<1>8. PICK t2, h2 : After("tables", Tables(t1, h1, ra), B) = Tables(t2, h2, Join(ra, rb))
  <2>1. ra \in Seq(Rows)
    BY <1>4
  <2> HIDE DEF ra
  <2> QED BY <1>1, <2>1, TableOfRead, ZenonT(60)
<1> DEFINE rab == Join(ra, rb)
<1>9. rab \in Seq(Rows)
  BY <1>4, JoinIs
<1> HIDE DEF rab
<1>10. PICK t3, h3 : After("tables", Tables(t2, h2, rab), C) = Tables(t3, h3, Join(rab, rc))
  BY <1>1, <1>9, TableOfRead
<1> HIDE DEF A, B, C, ra, rb, rc, start
<1>11. Join(B, C) \in Seq(CsvRecord)
  BY <1>3, JoinIs
<1>12. After("tables", start, Join(A, Join(B, C)))
          = After("tables", After("tables", start, A), Join(B, C))
  BY <1>3, <1>11, RecordAfterJoin
<1> DEFINE u == After("tables", start, A)
<1>13. After("tables", u, Join(B, C)) = After("tables", After("tables", u, B), C)
  <2> HIDE DEF u
  <2> QED BY <1>3, RecordAfterJoin
<1>14. After("tables", start, Csv(flux)) = Tables(t3, h3, Join(rab, rc))
  BY <1>2, <1>6, <1>7, <1>8, <1>10, <1>12, <1>13 DEF rab
<1>15. TablesAfter(start, Csv(flux)) = After("tables", start, Csv(flux))
  BY <1>2, TablesAfterIs
<1>16. Tables(t3, h3, Join(rab, rc)).rows = Join(rab, rc)
  BY TablesIs
<1> QED BY <1>14, <1>15, <1>16 DEF ParseCsv, start, e, rab, ra, rb, rc, RowsOfAll, d, s, b

-----------------------------------------------------------------------------
(* What a row says *)

Shows4 == {3, 4, 5, 6}
CellOf(type, p, i) == Typed(ColumnTypes(type)[i], Cells(p)[i])

LEMMA ColumnsAre ==
  /\ DOMAIN Columns = 1 .. 6
  /\ Columns[1] = "result" /\ Columns[2] = "table" /\ Columns[3] = "_time"
  /\ Columns[4] = "_value" /\ Columns[5] = "_field" /\ Columns[6] = "sensor"
BY DEF Columns

LEMMA ShownColumns ==
  /\ {i \in DOMAIN Columns : Columns[i] \notin {"result", "table"}} = Shows4
  /\ {Columns[i] : i \in Shows4} = {"_time", "_value", "_field", "sensor"}
  /\ \A i \in Shows4 : \A j \in Shows4 : Columns[i] = Columns[j] => i = j
<1> DEFINE C == Columns
<1>1. /\ DOMAIN C = 1 .. 6
      /\ C[1] = "result" /\ C[2] = "table" /\ C[3] = "_time"
      /\ C[4] = "_value" /\ C[5] = "_field" /\ C[6] = "sensor"
  BY ColumnsAre
<1> HIDE DEF C
<1>2. \A i \in DOMAIN C : i = 1 \/ i = 2 \/ i = 3 \/ i = 4 \/ i = 5 \/ i = 6
  BY <1>1
<1>3. \A i \in DOMAIN C : C[i] \notin {"result", "table"} <=> i \in Shows4
  <2>1. ASSUME NEW i \in DOMAIN C PROVE C[i] \notin {"result", "table"} <=> i \in Shows4
    <3>1. CASE i \in {1, 2}
      BY <1>1, <3>1 DEF Shows4
    <3>2. CASE i \in Shows4
      BY <1>1, <3>2 DEF Shows4
    <3> QED BY <1>2, <3>1, <3>2 DEF Shows4
  <2> QED BY <2>1
<1>4. Shows4 \subseteq DOMAIN C
  BY <1>1 DEF Shows4
<1>5. {i \in DOMAIN C : C[i] \notin {"result", "table"}} = Shows4
  BY <1>3, <1>4
<1>6. {C[i] : i \in Shows4} = {"_time", "_value", "_field", "sensor"}
  BY <1>1 DEF Shows4
<1>7. \A i \in Shows4 : \A j \in Shows4 : C[i] = C[j] => i = j
  BY <1>1 DEF Shows4
<1> QED BY <1>5, <1>6, <1>7 DEF C

LEMMA TypedIs ==
  ASSUME NEW type, NEW cell
  PROVE  Typed(type, cell).text = cell
<1>1. CASE cell = <<>>
  BY <1>1 DEF Typed, None
<1>2. CASE cell # <<>>
  BY <1>2 DEF Typed
<1> QED BY <1>1, <1>2

LEMMA RowIs ==
  ASSUME NEW type, NEW p
  PROVE  /\ DOMAIN RowFor(type, p) = {"_time", "_value", "_field", "sensor"}
         /\ \A i \in Shows4 : RowFor(type, p)[Columns[i]] = CellOf(type, p, i)
<1> DEFINE C == Columns
           N == {i \in DOMAIN C : C[i] \notin {"result", "table"}}
           T == ColumnTypes(type)
           X == Cells(p)
           Pick(name) == CHOOSE i \in N : C[i] = name
           Names == {C[i] : i \in N}
           row == RowFor(type, p)
<1>1. row = [name \in Names |-> Typed(T[Pick(name)], X[Pick(name)])]
  BY DEF Row, RowFor
<1>2. N = Shows4 /\ Names = {"_time", "_value", "_field", "sensor"}
      /\ \A i \in N : \A j \in N : C[i] = C[j] => i = j
  BY ShownColumns
<1> HIDE DEF N, C, T, X, row
<1>3. ASSUME NEW i \in N PROVE Pick(C[i]) = i
  BY <1>2
<1> HIDE DEF Pick
<1>4. ASSUME NEW i \in N PROVE row[C[i]] = Typed(T[i], X[i])
  <2>1. C[i] \in Names
    OBVIOUS
  <2> HIDE DEF Names
  <2>2. row[C[i]] = Typed(T[Pick(C[i])], X[Pick(C[i])])
    BY <1>1, <2>1
  <2> QED BY <1>3, <2>2
<1>5. DOMAIN row = Names
  BY <1>1
<1>6. \A i \in Shows4 : row[C[i]] = CellOf(type, p, i)
  BY <1>2, <1>4 DEF CellOf, T, X
<1> QED BY <1>2, <1>5, <1>6 DEF C, row

LEMMA RowSays ==
  ASSUME NEW type, NEW p
  PROVE  /\ Place(RowFor(type, p)) = <<p.sensor, p.field, <<p.ms>>>>
         /\ RowFor(type, p)["_value"] = Typed(type, p.text)
         /\ DOMAIN RowFor(type, p) = {"_time", "_value", "_field", "sensor"}
<1> DEFINE row == RowFor(type, p)
<1>1. \A i \in Shows4 : row[Columns[i]] = CellOf(type, p, i)
  BY RowIs
<1>2. 3 \in Shows4 /\ 4 \in Shows4 /\ 5 \in Shows4 /\ 6 \in Shows4
  BY DEF Shows4
<1> HIDE DEF row
<1>3. /\ row["_time"] = CellOf(type, p, 3) /\ row["_value"] = CellOf(type, p, 4)
      /\ row["_field"] = CellOf(type, p, 5) /\ row["sensor"] = CellOf(type, p, 6)
  BY <1>1, <1>2, ColumnsAre
<1>4. Cells(p)[3] = <<p.ms>> /\ Cells(p)[4] = p.text /\ Cells(p)[5] = p.field /\ Cells(p)[6] = p.sensor
  BY DEF Cells
<1>5. ColumnTypes(type)[4] = type
  BY DEF ColumnTypes
<1>6. row["_value"] = Typed(type, p.text)
  BY <1>3, <1>4, <1>5 DEF CellOf
<1>7. row["_time"].text = <<p.ms>> /\ row["_field"].text = p.field /\ row["sensor"].text = p.sensor
  <2>1. CellOf(type, p, 3).text = Cells(p)[3]
    BY TypedIs DEF CellOf
  <2>2. CellOf(type, p, 5).text = Cells(p)[5]
    BY TypedIs DEF CellOf
  <2>3. CellOf(type, p, 6).text = Cells(p)[6]
    BY TypedIs DEF CellOf
  <2> QED BY <1>3, <1>4, <2>1, <2>2, <2>3
<1>8. DOMAIN row = {"_time", "_value", "_field", "sensor"}
  BY RowIs DEF row
<1>9. Place(row) = <<p.sensor, p.field, <<p.ms>>>>
  BY <1>7 DEF Place
<1> QED BY <1>6, <1>8, <1>9 DEF row

LEMMA ValueShown ==
  ASSUME NEW e \in Entry
  PROVE  Typed(StoredPoint(e).type, StoredPoint(e).text) = Shown(e.value)
<1> DEFINE v == e.value
           t == v.text
<1>1. v \in Value
  BY EntryIs
<1> HIDE DEF v, t
<1>2. StoredPoint(e).type = StoredType(v) /\ StoredPoint(e).text = StoredText(v)
  BY DEF StoredPoint, v
<1>3. /\ v.kind \in {"str", "bool", "int", "float"} /\ t \in Text
      /\ v = [kind |-> v.kind, text |-> t]
      /\ v.kind # "str" => t # <<>>
  BY <1>1, ValueFacts DEF t
<1>4. /\ Clean(t) \in Text /\ (t # <<>> => Clean(t) # <<>>) /\ Clean(<<>>) = <<>>
  BY <1>3, CleanType
<1>5. CASE v.kind = "str" /\ t = <<>>
  <2>1. StoredText(v) = <<>>
    BY <1>4, <1>5 DEF StoredText, t
  <2>2. Shown(v) = None
    BY <1>5 DEF Shown, t
  <2> QED BY <1>2, <2>1, <2>2 DEF Typed, v
<1>6. CASE v.kind = "str" /\ t # <<>>
  <2>1. StoredText(v) = Clean(t) /\ Clean(t) # <<>> /\ StoredType(v) = "string"
    BY <1>4, <1>6 DEF StoredText, StoredType, t
  <2>2. Shown(v) = [kind |-> "str", text |-> Clean(t)]
    BY <1>6 DEF Shown, t
  <2> DEFINE c == Clean(t)
  <2> HIDE DEF c
  <2>3. Typed("string", c) = [kind |-> "str", text |-> c]
    BY <2>1 DEF Typed, c
  <2> QED BY <1>2, <2>1, <2>2, <2>3 DEF c, v
<1>7. CASE v.kind = "bool"
  <2>1. StoredText(v) = t /\ t # <<>> /\ StoredType(v) = "boolean"
    BY <1>3, <1>7 DEF StoredText, StoredType, t
  <2>2. Shown(v) = v
    BY <1>7 DEF Shown
  <2>3. Typed("boolean", t) = [kind |-> "bool", text |-> t]
    BY <2>1 DEF Typed
  <2>4. v = [kind |-> "bool", text |-> t]
    BY <1>3, <1>7
  <2> QED BY <1>2, <2>1, <2>2, <2>3, <2>4 DEF v
<1>8. CASE v.kind \in {"int", "float"}
  <2>1. StoredText(v) = t /\ t # <<>> /\ StoredType(v) = "double"
    BY <1>3, <1>8 DEF StoredText, StoredType, t
  <2>2. Shown(v) = [kind |-> "float", text |-> t]
    BY <1>8 DEF Shown, t
  <2>3. Typed("double", t) = [kind |-> "float", text |-> t]
    BY <2>1 DEF Typed
  <2> QED BY <1>2, <2>1, <2>2, <2>3 DEF v
<1> QED BY <1>3, <1>5, <1>6, <1>7, <1>8

-----------------------------------------------------------------------------
(* Rows are of the points that a query selects, and of all of them below its limit *)

Elements(s) == {s[i] : i \in 1 .. Len(s)}

LEMMA ElementsOfJoin ==
  ASSUME NEW X, NEW s \in Seq(X), NEW t \in Seq(X)
  PROVE  /\ Elements(Join(s, t)) = Elements(s) \cup Elements(t)
         /\ Len(s) <= Len(Join(s, t)) /\ Len(t) <= Len(Join(s, t))
         /\ Len(s) \in Nat /\ Len(t) \in Nat /\ Len(Join(s, t)) \in Nat
<1> DEFINE w == Join(s, t)
           L == Len(s)
           n == Len(t)
<1>1. Len(w) = L + n /\ L \in Nat /\ n \in Nat
  BY JoinIs
<1>2. \A i \in 1 .. L : w[i] = s[i]
  BY JoinIs
<1>3. \A i \in 1 .. n : w[L + i] = t[i]
  BY JoinIs
<1> HIDE DEF w, L, n
<1>4. ASSUME NEW i \in 1 .. Len(w) PROVE (\E j \in 1 .. L : w[i] = s[j]) \/ \E j \in 1 .. n : w[i] = t[j]
  <2>1. CASE i <= L
    BY <1>1, <1>2, <2>1
  <2>2. CASE i > L
    <3> DEFINE j == i - L
    <3>1. j \in 1 .. n /\ i = L + j
      BY <1>1, <2>2
    <3> HIDE DEF j
    <3> QED BY <1>3, <3>1
  <2> QED BY <1>1, <2>1, <2>2
<1>5. ASSUME NEW j \in 1 .. L PROVE \E i \in 1 .. Len(w) : w[i] = s[j]
  <2>1. j \in 1 .. Len(w) /\ w[j] = s[j]
    BY <1>1, <1>2
  <2> QED BY <2>1
<1>6. ASSUME NEW j \in 1 .. n PROVE \E i \in 1 .. Len(w) : w[i] = t[j]
  <2>1. L + j \in 1 .. Len(w) /\ w[L + j] = t[j]
    BY <1>1, <1>3
  <2> QED BY <2>1
<1>7. Elements(w) = Elements(s) \cup Elements(t)
  <2>1. Elements(w) \subseteq Elements(s) \cup Elements(t)
    BY <1>4 DEF Elements, L, n
  <2>2. Elements(s) \subseteq Elements(w)
    BY <1>5 DEF Elements, L
  <2>3. Elements(t) \subseteq Elements(w)
    BY <1>6 DEF Elements, n
  <2> QED BY <2>1, <2>2, <2>3
<1>8. L <= Len(w) /\ n <= Len(w) /\ Len(w) \in Nat
  BY <1>1
<1> QED BY <1>1, <1>7, <1>8 DEF w, L, n

RowsFor(flux, type) == {RowFor(type, p) : p \in OfType(flux, type)}

LEMMA RowsInAre ==
  ASSUME PointsInv, NEW flux, flux.limit \in Nat, NEW type \in Kinds
  PROVE  /\ Elements(RowsIn(flux, type)) \subseteq RowsFor(flux, type)
         /\ Len(RowsIn(flux, type)) < flux.limit =>
              Elements(RowsIn(flux, type)) = RowsFor(flux, type)
<1> DEFINE ps == OfType(flux, type)
           limit == flux.limit
           s == Shows(ps, limit)
           m == Mapped(RowsOf(type), s)
           rows == RowsIn(flux, type)
<1>1. ps \in SUBSET Point /\ IsFiniteSet(ps)
  BY OfTypeIs
<1>2. CASE ps = {}
  <2>1. rows = <<>> /\ RowsFor(flux, type) = {}
    BY <1>2 DEF RowsIn, RowsFor
  <2>2. Elements(<<>>) = {}
    BY DEF Elements
  <2> QED BY <2>1, <2>2
<1>3. CASE ps # {}
  <2>1. rows = m
    BY <1>3 DEF RowsIn
  <2>2. limit \in Nat
    OBVIOUS
  <2> HIDE DEF ps, limit, rows
  <2>3. /\ s \in Seq(ps) /\ s \in Seq(Point) /\ Len(s) = Count(ps, limit)
        /\ Count(ps, limit) < limit => \A p \in ps : \E i \in 1 .. Len(s) : s[i] = p
    BY <1>1, <2>2, ShowsIs
  <2>4. Len(m) = Len(s) /\ \A i \in 1 .. Len(s) : m[i] = RowsOf(type)[s[i]]
    BY <2>3, MappedIs
  <2>5. \A i \in 1 .. Len(s) : s[i] \in ps /\ s[i] \in Point
    BY <2>3
  <2> HIDE DEF s, m
  <2>6. \A i \in 1 .. Len(s) : m[i] = RowFor(type, s[i])
    BY <2>4, <2>5, RowsOfIs
  <2>7. Elements(m) \subseteq RowsFor(flux, type)
    BY <2>4, <2>5, <2>6 DEF Elements, RowsFor, ps
  <2>8. ASSUME Len(m) < limit PROVE RowsFor(flux, type) \subseteq Elements(m)
    <3>1. \A p \in ps : \E i \in 1 .. Len(s) : s[i] = p
      BY <2>3, <2>4, <2>8
    <3> QED BY <2>4, <2>6, <3>1 DEF Elements, RowsFor, ps
  <2> QED BY <2>1, <2>7, <2>8 DEF rows, limit
<1> QED BY <1>2, <1>3

SelectedRows(flux) == RowsFor(flux, "double") \cup RowsFor(flux, "string") \cup RowsFor(flux, "boolean")

LEMMA RowsOfAllAre ==
  ASSUME PointsInv, NEW flux, flux.limit \in Nat
  PROVE  /\ RowsOfAll(flux) \in Seq(Rows)
         /\ Elements(RowsOfAll(flux)) \subseteq SelectedRows(flux)
         /\ Len(RowsOfAll(flux)) < flux.limit => Elements(RowsOfAll(flux)) = SelectedRows(flux)
<1> DEFINE d == "double"
           s == "string"
           b == "boolean"
           R(type) == RowsIn(flux, type)
           ab == Join(R(d), R(s))
           all == Join(ab, R(b))
           limit == flux.limit
<1>1. d \in Kinds /\ s \in Kinds /\ b \in Kinds
  BY DEF Kinds
<1>2. RowsOfAll(flux) = all
  BY DEF RowsOfAll
<1>3. SelectedRows(flux) = RowsFor(flux, d) \cup RowsFor(flux, s) \cup RowsFor(flux, b)
  BY DEF SelectedRows
<1> HIDE DEF d, s, b
<1>4. R(d) \in Seq(Rows) /\ R(s) \in Seq(Rows) /\ R(b) \in Seq(Rows)
  BY <1>1, TableOfIs
<1>5. ASSUME NEW type \in Kinds
      PROVE  /\ Elements(R(type)) \subseteq RowsFor(flux, type)
             /\ Len(R(type)) < limit => Elements(R(type)) = RowsFor(flux, type)
  BY RowsInAre
<1> HIDE DEF R
<1>6. ab \in Seq(Rows)
  BY <1>4, JoinIs
<1>7. /\ Elements(ab) = Elements(R(d)) \cup Elements(R(s))
      /\ Len(R(d)) <= Len(ab) /\ Len(R(s)) <= Len(ab)
      /\ Len(R(d)) \in Nat /\ Len(R(s)) \in Nat /\ Len(ab) \in Nat
  BY <1>4, ElementsOfJoin
<1> HIDE DEF ab
<1>8. all \in Seq(Rows)
  BY <1>4, <1>6, JoinIs
<1>9. /\ Elements(all) = Elements(ab) \cup Elements(R(b))
      /\ Len(ab) <= Len(all) /\ Len(R(b)) <= Len(all)
      /\ Len(R(b)) \in Nat /\ Len(all) \in Nat
  BY <1>4, <1>6, ElementsOfJoin
<1> HIDE DEF all, limit
<1>10. limit \in Nat
  BY DEF limit
<1>11. Elements(all) \subseteq SelectedRows(flux)
  BY <1>1, <1>3, <1>5, <1>7, <1>9
<1>12. ASSUME Len(all) < limit PROVE Elements(all) = SelectedRows(flux)
  <2>1. Len(R(d)) < limit /\ Len(R(s)) < limit /\ Len(R(b)) < limit
    BY <1>7, <1>9, <1>10, <1>12
  <2> QED BY <1>1, <1>3, <1>5, <1>7, <1>9, <2>1
<1> QED BY <1>2, <1>8, <1>11, <1>12 DEF limit

-----------------------------------------------------------------------------
(* A query selects the points that were asked for *)

LEMMA UtcIs == \A ts \in Time : Utc(ts) = ts.instant /\ ts.instant \in Int
<1>1. SUFFICES ASSUME NEW ts \in Time PROVE Utc(ts) = ts.instant /\ ts.instant \in Int
  OBVIOUS
<1>2. ts.instant \in Int /\ (ts.zone # Naive => ts.zone \in Int)
  BY DEF Time
<1> QED BY <1>2 DEF Utc, Wall

LEMMA AskIs ==
  ASSUME NEW ask \in Asks
  PROVE  /\ ask.sensor \subseteq Text /\ ask.field \subseteq Text
         /\ ask.start \in Time /\ ask.stop \subseteq Time /\ ask.limit \in Nat
BY AsksAssumption

\* A filter of a query lets a name through when it was asked for, or when none was.
Literals(names) == {FluxString(t) : t \in names}
LetsThrough(literals, name) == \A l \in literals : ReadLiteral(l) = name

LEMMA FilterIs ==
  ASSUME NEW names \in SUBSET Text, NEW name \in Text
  PROVE  LetsThrough(Literals(names), name) <=> names \subseteq {name}
<1>1. LetsThrough(Literals(names), name) <=> \A t \in names : ReadLiteral(FluxString(t)) = name
  BY DEF LetsThrough, Literals
<1>2. \A t \in names : ReadLiteral(FluxString(t)) = t
  BY LiteralReadBack
<1> QED BY <1>1, <1>2

LEMMA SelectedIs ==
  ASSUME NEW ask \in Asks, NEW e \in Entry, StoredPoint(e) \in points
  PROVE  StoredPoint(e) \in Selected(BuildQuery(ask)) <=> AskedFor(e, ask)
<1> DEFINE p == StoredPoint(e)
           flux == BuildQuery(ask)
           at == Ms(e.at) * Milli
<1>1. /\ ask.sensor \subseteq Text /\ ask.field \subseteq Text
      /\ ask.start \in Time /\ ask.stop \subseteq Time
  BY AskIs
<1>2. p.sensor = e.sensor /\ p.field = Clean(e.field) /\ p.ms * Milli = at
  BY DEF StoredPoint
<1>3. e.sensor \in Text /\ Clean(e.field) \in Text
  <2>1. e.sensor \in Text /\ e.field \in Text
    BY EntryIs
  <2> QED BY <2>1, CleanType
<1>4. /\ flux.sensor = Literals(ask.sensor) /\ flux.field = Literals(ask.field)
      /\ flux.start = Utc(ask.start) /\ flux.stop = {Utc(ts) : ts \in ask.stop}
  BY DEF BuildQuery, Literals
<1> HIDE DEF p, flux
<1>5. LetsThrough(flux.sensor, p.sensor) <=> ask.sensor \subseteq {e.sensor}
  BY <1>1, <1>2, <1>3, <1>4, FilterIs
<1>6. LetsThrough(flux.field, p.field) <=> ask.field \subseteq {Clean(e.field)}
  BY <1>1, <1>2, <1>3, <1>4, FilterIs
<1>7. at \in Int
  <2>1. Ms(e.at) \in Int /\ Milli \in Int
    BY EntryIs, ClockAssumption
  <2> QED BY <2>1
<1> HIDE DEF at
<1>8. flux.start <= p.ms * Milli <=> at >= ask.start.instant
  <2>1. flux.start = ask.start.instant /\ ask.start.instant \in Int
    BY <1>1, <1>4, UtcIs
  <2> QED BY <1>2, <1>7, <2>1
<1>9. (\A t \in flux.stop : p.ms * Milli < t) <=> \A ts \in ask.stop : at < ts.instant
  <2>1. \A ts \in ask.stop : Utc(ts) = ts.instant
    BY <1>1, UtcIs
  <2>2. (\A t \in flux.stop : p.ms * Milli < t) <=> \A ts \in ask.stop : p.ms * Milli < Utc(ts)
    BY <1>4
  <2> QED BY <1>2, <2>1, <2>2
<1>10. p \in points
  BY DEF p
<1>11. p \in Selected(flux) <=>
         /\ LetsThrough(flux.sensor, p.sensor) /\ LetsThrough(flux.field, p.field)
         /\ flux.start <= p.ms * Milli
         /\ \A t \in flux.stop : p.ms * Milli < t
  BY <1>10 DEF Selected, LetsThrough
<1>12. AskedFor(e, ask) <=>
         /\ ask.sensor \subseteq {e.sensor} /\ ask.field \subseteq {Clean(e.field)}
         /\ at >= ask.start.instant
         /\ \A ts \in ask.stop : at < ts.instant
  BY DEF AskedFor, at
<1>13. p \in Selected(flux) <=> AskedFor(e, ask)
  BY <1>5, <1>6, <1>8, <1>9, <1>11, <1>12
<1> QED BY <1>13 DEF p, flux

\* The rows of what a query selects: one for each of its points.
LEMMA SelectedRowsAre ==
  ASSUME PointsInv, NEW flux
  PROVE  SelectedRows(flux) = {RowFor(p.type, p) : p \in Selected(flux)}
<1>1. Selected(flux) \subseteq points
  BY DEF Selected
<1>2. \A p \in Selected(flux) : p.type = "double" \/ p.type = "string" \/ p.type = "boolean"
  BY <1>1 DEF PointsInv, Point
<1>3. ASSUME NEW r \in SelectedRows(flux) PROVE \E p \in Selected(flux) : r = RowFor(p.type, p)
  BY <1>3 DEF SelectedRows, RowsFor, OfType
<1>4. ASSUME NEW p \in Selected(flux) PROVE RowFor(p.type, p) \in SelectedRows(flux)
  BY <1>2 DEF SelectedRows, RowsFor, OfType
<1> QED BY <1>3, <1>4

-----------------------------------------------------------------------------
(* An answer made of the rows of what a query selects *)

TrueAnswer(a, sent) ==
  a.status = 200 =>
    \A i \in DOMAIN a.points : \E k \in DOMAIN sent :
      /\ Place(a.points[i]) = RowOf(sent[k])
      /\ a.points[i]["_value"] = Shown(sent[k].value)
      /\ AskedFor(sent[k], a.ask)
      /\ \A j \in DOMAIN sent : j > k => ~Supersedes(sent[j], sent[k])
WholeAnswer(a, sent) ==
  a.status = 200 /\ ~a.truncated =>
    \A k \in DOMAIN sent :
      sent[k].sure /\ AskedFor(sent[k], a.ask) =>
        \E i \in DOMAIN a.points : Place(a.points[i]) = RowOf(sent[k])

LEMMA AnswersAre ==
  (AnswersAreTrue <=> TrueAnswer(answer, ingested))
     /\ (AnswersAreWhole <=> WholeAnswer(answer, ingested))
BY DEF AnswersAreTrue, AnswersAreWhole, TrueAnswer, WholeAnswer

RowOfPoint(p) == RowFor(p.type, p)

LEMMA RowOfEntry ==
  ASSUME NEW e \in Entry
  PROVE  /\ Place(RowOfPoint(StoredPoint(e))) = RowOf(e)
         /\ RowOfPoint(StoredPoint(e))["_value"] = Shown(e.value)
<1> DEFINE p == StoredPoint(e)
<1>1. p.sensor = e.sensor /\ p.field = Clean(e.field) /\ p.ms = Ms(e.at)
  BY DEF StoredPoint
<1>2. Typed(p.type, p.text) = Shown(e.value)
  BY ValueShown
<1> HIDE DEF p
<1>3. Place(RowFor(p.type, p)) = <<p.sensor, p.field, <<p.ms>>>>
      /\ RowFor(p.type, p)["_value"] = Typed(p.type, p.text)
  BY RowSays
<1> QED BY <1>1, <1>2, <1>3 DEF RowOfPoint, RowOf, p

LEMMA SentIs == PointsInv => \A k \in 1 .. Len(ingested) : ingested[k] \in Entry
BY DEF PointsInv

LEMMA RowsAreTrue ==
  ASSUME PointsInv, NEW ask \in Asks, NEW rows, Elements(rows) \subseteq SelectedRows(BuildQuery(ask)),
         NEW i \in 1 .. Len(rows)
  PROVE  \E k \in 1 .. Len(ingested) :
           /\ Place(rows[i]) = RowOf(ingested[k])
           /\ rows[i]["_value"] = Shown(ingested[k].value)
           /\ AskedFor(ingested[k], ask)
           /\ Newest(ingested, k)
<1> DEFINE flux == BuildQuery(ask)
<1>1. rows[i] \in SelectedRows(flux)
  BY DEF Elements
<1>2. PICK p \in Selected(flux) : rows[i] = RowOfPoint(p)
  BY <1>1, SelectedRowsAre DEF RowOfPoint
<1>3. p \in points
  BY DEF Selected
<1>4. PICK k \in 1 .. Len(ingested) : p = StoredPoint(ingested[k]) /\ Newest(ingested, k)
  BY <1>3 DEF PointsInv, Told
<1>5. ingested[k] \in Entry
  BY SentIs
<1>6. AskedFor(ingested[k], ask)
  BY <1>3, <1>4, <1>5, SelectedIs
<1>7. Place(rows[i]) = RowOf(ingested[k]) /\ rows[i]["_value"] = Shown(ingested[k].value)
  BY <1>2, <1>4, <1>5, RowOfEntry
<1> QED BY <1>4, <1>6, <1>7

\* Entries of one series are asked for alike, and have one place.
LEMMA SeriesAlike ==
  ASSUME NEW d, NEW e, Series(d) = Series(e), NEW ask
  PROVE  (AskedFor(d, ask) <=> AskedFor(e, ask)) /\ RowOf(d) = RowOf(e)
<1>1. d.sensor = e.sensor /\ Clean(d.field) = Clean(e.field) /\ Ms(d.at) = Ms(e.at)
  BY DEF Series
<1> QED BY <1>1 DEF AskedFor, RowOf

LEMMA RowsAreWhole ==
  ASSUME PointsInv, NEW ask \in Asks, NEW rows, Elements(rows) = SelectedRows(BuildQuery(ask)),
         NEW k \in 1 .. Len(ingested), ingested[k].sure, AskedFor(ingested[k], ask)
  PROVE  \E i \in 1 .. Len(rows) : Place(rows[i]) = RowOf(ingested[k])
<1> DEFINE flux == BuildQuery(ask)
<1>1. PICK p \in points : SeriesOf(p) = Series(ingested[k])
  BY DEF PointsInv, Kept
<1>2. PICK m \in 1 .. Len(ingested) : p = StoredPoint(ingested[m])
  BY <1>1 DEF PointsInv, Told
<1>3. ingested[m] \in Entry
  BY SentIs
<1>4. Series(ingested[m]) = Series(ingested[k])
  BY <1>1, <1>2, <1>3, SeriesIs
<1>5. AskedFor(ingested[m], ask) /\ RowOf(ingested[m]) = RowOf(ingested[k])
  BY <1>4, SeriesAlike
<1>6. p \in Selected(flux)
  BY <1>1, <1>2, <1>3, <1>5, SelectedIs
<1>7. RowOfPoint(p) \in SelectedRows(flux)
  BY <1>6, SelectedRowsAre DEF RowOfPoint
<1>8. PICK i \in 1 .. Len(rows) : rows[i] = RowOfPoint(p)
  BY <1>7 DEF Elements
<1>9. Place(rows[i]) = RowOf(ingested[k])
  BY <1>2, <1>3, <1>5, <1>8, RowOfEntry
<1> QED BY <1>9

LEMMA RowsHaveColumns ==
  ASSUME NEW rows \in Seq(Rows)
  PROVE  DOMAIN rows = 1 .. Len(rows)
            /\ \A i \in DOMAIN rows : {"_time", "_field"} \subseteq DOMAIN rows[i]
<1>1. DOMAIN rows = 1 .. Len(rows) /\ \A i \in DOMAIN rows : rows[i] \in Rows
  OBVIOUS
<1>2. ASSUME NEW r \in Rows PROVE {"_time", "_field"} \subseteq DOMAIN r
  <2>1. PICK type, p : r = RowFor(type, p)
    BY DEF Rows
  <2> QED BY <2>1, RowIs
<1> QED BY <1>1, <1>2

LEMMA AnswerIs ==
  ASSUME NEW ask, ask.limit \in Nat, NEW rows \in Seq(Rows)
  PROVE  /\ Points(ask, rows).status = 200 /\ Points(ask, rows).ask = ask
         /\ Points(ask, rows).points = rows
         /\ ~Points(ask, rows).truncated => Len(rows) < ask.limit
<1> DEFINE full == Truncated(rows, ask.limit)
           a == [status |-> 200, ask |-> ask, points |-> rows, truncated |-> full]
<1>1. Points(ask, rows) = a
  BY RowsHaveColumns DEF Points
<1>2. ~full => Len(rows) < ask.limit
  BY DEF Truncated
<1> HIDE DEF full
<1>3. a.status = 200 /\ a.ask = ask /\ a.points = rows
  OBVIOUS
<1>4. a.truncated = full
  OBVIOUS
<1> QED BY <1>1, <1>2, <1>3, <1>4

LEMMA QueryAnswers ==
  ASSUME PointsInv, NEW ask \in Asks
  PROVE  /\ TrueAnswer(Points(ask, ParseCsv(Csv(BuildQuery(ask)))), ingested)
         /\ WholeAnswer(Points(ask, ParseCsv(Csv(BuildQuery(ask)))), ingested)
<1> DEFINE flux == BuildQuery(ask)
           rows == ParseCsv(Csv(flux))
           a == Points(ask, rows)
<1>1. flux.limit = ask.limit /\ ask.limit \in Nat /\ flux.limit \in Nat
  BY AskIs DEF BuildQuery
<1>2. rows = RowsOfAll(flux)
  BY <1>1, CsvReadBack
<1>3. /\ rows \in Seq(Rows) /\ Elements(rows) \subseteq SelectedRows(flux)
      /\ Len(rows) < flux.limit => Elements(rows) = SelectedRows(flux)
  BY <1>1, <1>2, RowsOfAllAre
<1> HIDE DEF rows
<1>4. /\ a.status = 200 /\ a.ask = ask /\ a.points = rows
      /\ ~a.truncated => Len(rows) < ask.limit
  BY <1>1, <1>3, AnswerIs
<1>5. DOMAIN rows = 1 .. Len(rows)
  BY <1>3
<1>6. DOMAIN ingested = 1 .. Len(ingested)
  BY DEF PointsInv
<1> HIDE DEF a
<1>7. TrueAnswer(a, ingested)
  <2>1. SUFFICES ASSUME NEW i \in 1 .. Len(rows)
                 PROVE  \E k \in 1 .. Len(ingested) :
                          /\ Place(rows[i]) = RowOf(ingested[k])
                          /\ rows[i]["_value"] = Shown(ingested[k].value)
                          /\ AskedFor(ingested[k], ask)
                          /\ Newest(ingested, k)
    BY <1>4, <1>5, <1>6 DEF TrueAnswer, Newest
  <2> QED BY <1>3, RowsAreTrue
<1>8. WholeAnswer(a, ingested)
  <2>1. SUFFICES ASSUME ~a.truncated, NEW k \in 1 .. Len(ingested), ingested[k].sure,
           AskedFor(ingested[k], ask)
                 PROVE  \E i \in 1 .. Len(rows) : Place(rows[i]) = RowOf(ingested[k])
    BY <1>4, <1>5, <1>6 DEF WholeAnswer
  <2>2. Elements(rows) = SelectedRows(flux)
    BY <1>1, <1>3, <1>4, <2>1
  <2> QED BY <2>1, <2>2, RowsAreWhole
<1> QED BY <1>7, <1>8 DEF a, rows

-----------------------------------------------------------------------------
(* An answer that breaks off is seen: its last row has none of the columns of a reading *)

\* What reading records makes, whatever they are.
Building(s) == \E t, h, X : \E rs \in Seq(X) : s = Tables(t, h, rs)

LEMMA StartBuilds == Building(Tables(<<>>, <<>>, <<>>))
<1>1. <<>> \in Seq({})
  OBVIOUS
<1> QED BY <1>1 DEF Building

LEMMA RecordBuilds ==
  ASSUME NEW s, Building(s), NEW c
  PROVE  Building(Step("tables", s, c))
<1>1. PICK t, h, X : \E rs \in Seq(X) : s = Tables(t, h, rs)
  BY DEF Building
<1>2. PICK rs \in Seq(X) : s = Tables(t, h, rs)
  BY <1>1
<1>3. s.types = t /\ s.header = h /\ s.rows = rs
  BY <1>2, TablesIs
<1>4. Step("tables", s, c) = ReadRecord(s, c)
  BY DEF Step
<1>5. CASE ReadRecord(s, c) = WithRow(s, c.cells)
  <2> DEFINE row == Row(h, t, c.cells)
             Y == X \cup {row}
             more == Append(rs, row)
  <2>1. WithRow(s, c.cells) = Tables(t, h, more)
    BY <1>3 DEF WithRow
  <2> HIDE DEF row
  <2>2. more \in Seq(Y)
    OBVIOUS
  <2> HIDE DEF more, Y
  <2> QED BY <1>4, <1>5, <2>1, <2>2 DEF Building
<1>6. CASE ReadRecord(s, c) # WithRow(s, c.cells)
  <2>1. PICK u, k : ReadRecord(s, c) = Tables(u, k, rs)
    BY <1>3, <1>6 DEF ReadRecord
  <2> QED BY <1>2, <1>4, <2>1 DEF Building
<1> QED BY <1>5, <1>6

LEMMA AfterBuilds ==
  ASSUME NEW u \in Seq(CsvRecord), NEW r, Building(r)
  PROVE  Building(After("tables", r, u))
<1> DEFINE Good(t) == \A s : Building(s) => Building(After("tables", s, t))
           S == {t \in Seq(CsvRecord) : Good(t)}
<1>1. <<>> \in S
  BY AfterEmpty, EmptySeq
<1>2. ASSUME NEW c \in CsvRecord, NEW t \in Seq(CsvRecord), t \in S PROVE Cons(c, t) \in S
  <2>1. Cons(c, t) \in Seq(CsvRecord)
    BY ConsIs
  <2>2. ASSUME NEW s, Building(s) PROVE Building(After("tables", s, Cons(c, t)))
    <3>1. Building(Step("tables", s, c))
      BY <2>2, RecordBuilds
    <3>2. Building(After("tables", Step("tables", s, c), t))
      BY <1>2, <3>1
    <3> QED BY <3>2, RecordAfterCons
  <2> QED BY <2>1, <2>2
<1> HIDE DEF S
<1>3. Seq(CsvRecord) \subseteq S
  BY <1>1, <1>2, SeqInd
<1> QED BY <1>3 DEF S

\* The row of an error, and the table that has it.
ErrorNames == <<"error", "reference">>
ErrorKinds == <<"string", "string">>
ErrorRow == Row(ErrorNames, ErrorKinds, ErrorRecord.cells)

LEMMA ErrorRowIs == "_time" \notin DOMAIN ErrorRow
<1> DEFINE C == ErrorNames
           N == {i \in DOMAIN C : C[i] \notin {"result", "table"}}
<1>1. DOMAIN ErrorRow = {C[i] : i \in N}
  BY DEF ErrorRow, Row
<1>2. DOMAIN C = 1 .. 2 /\ C[1] = "error" /\ C[2] = "reference"
  BY DEF ErrorNames
<1>3. \A i \in N : C[i] # "_time"
  BY <1>2
<1> QED BY <1>1, <1>3

LEMMA ErrorsRead ==
  ASSUME NEW t, NEW h, NEW rs
  PROVE  /\ Step("tables", Tables(t, h, rs), ErrorTypes) = Tables(ErrorKinds, <<>>, rs)
         /\ Step("tables", Tables(t, <<>>, rs), ErrorHeader) = Tables(t, ErrorNames, rs)
         /\ Step("tables", Tables(ErrorKinds, ErrorNames, rs), ErrorRecord)
              = Tables(ErrorKinds, ErrorNames, Appended(rs, ErrorRow))
<1>1. \A s, r : Step("tables", s, r) = ReadRecord(s, r)
  BY DEF Step
<1> DEFINE T == ErrorTypes
           H == ErrorHeader
           R == ErrorRecord
<1>2. /\ T # Blank /\ T.first = "#datatype" /\ T.cells = ErrorKinds
      /\ H # Blank /\ H.first # "#datatype" /\ H.cells = ErrorNames
      /\ R # Blank /\ R.first # "#datatype" /\ ErrorNames # <<>>
  BY RecordKinds DEF ErrorNames, ErrorKinds
<1> HIDE DEF T, H, R
<1>3. ReadRecord(Tables(t, h, rs), T) = Tables(ErrorKinds, <<>>, rs)
  <2> DEFINE s == Tables(t, h, rs)
  <2>1. s.rows = rs
    BY TablesIs
  <2> HIDE DEF s
  <2>2. ReadRecord(s, T) = Tables(ErrorKinds, <<>>, rs)
    BY <1>2, <2>1 DEF ReadRecord
  <2> QED BY <2>2 DEF s
<1>4. ReadRecord(Tables(t, <<>>, rs), H) = Tables(t, ErrorNames, rs)
  <2> DEFINE s == Tables(t, <<>>, rs)
  <2>1. s.header = <<>> /\ s.types = t /\ s.rows = rs
    BY TablesIs
  <2> HIDE DEF s
  <2>2. ReadRecord(s, H) = Tables(t, ErrorNames, rs)
    BY <1>2, <2>1 DEF ReadRecord
  <2> QED BY <2>2 DEF s
<1>5. ReadRecord(Tables(ErrorKinds, ErrorNames, rs), R)
         = Tables(ErrorKinds, ErrorNames, Appended(rs, ErrorRow))
  <2> DEFINE s == Tables(ErrorKinds, ErrorNames, rs)
             x == Appended(rs, ErrorRow)
  <2>1. s.header = ErrorNames /\ s.types = ErrorKinds /\ s.rows = rs
    BY TablesIs
  <2>2. x = Append(s.rows, Row(s.header, s.types, R.cells))
    BY <2>1 DEF Appended, ErrorRow, R
  <2> HIDE DEF s, x
  <2>3. WithRow(s, R.cells) = Tables(ErrorKinds, ErrorNames, x)
    BY <2>1, <2>2 DEF WithRow
  <2>4. ReadRecord(s, R) = WithRow(s, R.cells)
    BY <1>2, <2>1 DEF ReadRecord
  <2> QED BY <2>3, <2>4 DEF s, x
<1> QED BY <1>1, <1>3, <1>4, <1>5 DEF T, H, R

LEMMA ErrorTableRead ==
  ASSUME NEW t, NEW h, NEW rs
  PROVE  /\ ErrorTable \in Seq(CsvRecord)
         /\ After("tables", Tables(t, h, rs), ErrorTable)
              = Tables(ErrorKinds, ErrorNames, Appended(rs, ErrorRow))
<1> DEFINE T == ErrorTypes
           H == ErrorHeader
           R == ErrorRecord
           start == <<Blank>>
           header == <<H>>
           head == <<T, H>>
           end == <<R>>
           s0 == Tables(t, h, rs)
           s1 == Tables(t, <<>>, rs)
           s2 == Tables(ErrorKinds, <<>>, rs)
           s3 == Tables(ErrorKinds, ErrorNames, rs)
           s4 == Tables(ErrorKinds, ErrorNames, Appended(rs, ErrorRow))
<1>1. T \in CsvRecord /\ header \in Seq(CsvRecord) /\ head \in Seq(CsvRecord) /\ end \in Seq(CsvRecord)
      /\ start \in Seq(CsvRecord)
  BY RecordIs
<1>2. head = Cons(T, header)
  <2>1. Len(head) = Len(header) + 1 /\ head[1] = T /\ \A i \in 1 .. Len(header) : head[i + 1] = header[i]
    OBVIOUS
  <2> HIDE DEF T, header, head
  <2> QED BY <1>1, <2>1, IsCons
<1>3. After("tables", s0, start) = s1
  BY RecordRead, AfterOne
<1>4. Step("tables", s1, T) = s2
  BY ErrorsRead
<1>5. After("tables", s2, header) = s3
  BY ErrorsRead, AfterOne
<1>6. After("tables", s3, end) = s4
  BY ErrorsRead, AfterOne
<1>7. ErrorTable = Join(Join(start, head), end)
  BY DEF ErrorTable, Annotated, ErrorTypes, ErrorHeader, ErrorRecord, Join
<1> HIDE DEF T, H, R, start, header, head, end, s0, s1, s2, s3, s4
<1>8. After("tables", s1, Cons(T, header)) = After("tables", Step("tables", s1, T), header)
  BY <1>1, RecordAfterCons
<1>9. Join(start, head) \in Seq(CsvRecord)
  BY <1>1, JoinIs
<1>10. Join(Join(start, head), end) \in Seq(CsvRecord)
  BY <1>1, <1>9, JoinIs
<1>11. After("tables", s0, Join(start, head)) = After("tables", After("tables", s0, start), head)
  BY <1>1, RecordAfterJoin
<1>12. After("tables", s0, Join(Join(start, head), end))
         = After("tables", After("tables", s0, Join(start, head)), end)
  BY <1>1, <1>9, RecordAfterJoin
<1>13. After("tables", s0, ErrorTable) = s4
  BY <1>2, <1>3, <1>4, <1>5, <1>6, <1>7, <1>8, <1>11, <1>12
<1> QED BY <1>7, <1>10, <1>13 DEF s0, s4

\* query(): whatever records came before it, the table of the error that ends a broken answer makes
\* the answer to the client a 500, never some of the rows.
THEOREM BrokenAnswer ==
  ASSUME NEW ask, NEW whole \in Seq(CsvRecord), NEW n \in 0 .. Len(whole)
  PROVE  Points(ask, ParseCsv(SubSeq(whole, 1, n) \o ErrorTable)) = [status |-> 500]
<1> DEFINE u == SubSeq(whole, 1, n)
           all == Join(u, ErrorTable)
           start == Tables(<<>>, <<>>, <<>>)
<1>1. u \in Seq(CsvRecord)
  <2>1. \A i \in 1 .. n : whole[i] \in CsvRecord
    OBVIOUS
  <2> HIDE DEF CsvRecord
  <2> QED BY <2>1, SubSeqProperties
<1>2. Building(start)
  BY StartBuilds
<1> HIDE DEF u, start
<1>3. Building(After("tables", start, u))
  BY <1>1, <1>2, AfterBuilds
<1>4. PICK t, h, X : \E rs \in Seq(X) : After("tables", start, u) = Tables(t, h, rs)
  BY <1>3 DEF Building
<1>5. PICK rs \in Seq(X) : After("tables", start, u) = Tables(t, h, rs)
  BY <1>4
<1>6. ErrorTable \in Seq(CsvRecord)
      /\ After("tables", Tables(t, h, rs), ErrorTable)
            = Tables(ErrorKinds, ErrorNames, Appended(rs, ErrorRow))
  BY ErrorTableRead
<1>7. all \in Seq(CsvRecord)
  BY <1>1, <1>6, JoinIs
<1>8. After("tables", start, all) = Tables(ErrorKinds, ErrorNames, Appended(rs, ErrorRow))
  BY <1>1, <1>5, <1>6, RecordAfterJoin
<1>9. all = u \o ErrorTable
  BY DEF Join
<1> DEFINE rows == Appended(rs, ErrorRow)
           last == Len(rs) + 1
<1>10. last \in DOMAIN rows /\ rows[last] = ErrorRow
  BY DEF Appended
<1> HIDE DEF all, rows, last
<1>11. TablesAfter(start, all) = After("tables", start, all)
  BY <1>7, TablesAfterIs
<1>12. ParseCsv(all) = rows
  BY <1>8, <1>11, TablesIs DEF ParseCsv, start, rows
<1>13. ~({"_time", "_field"} \subseteq DOMAIN rows[last])
  BY <1>10, ErrorRowIs
<1>14. Points(ask, rows) = [status |-> 500]
  BY <1>10, <1>13 DEF Points
<1> QED BY <1>9, <1>12, <1>14 DEF u

-----------------------------------------------------------------------------
(* Every answer is true and whole *)

AnswersInv == PointsInv /\ TrueAnswer(answer, ingested) /\ WholeAnswer(answer, ingested)

LEMMA NothingSaid ==
  ASSUME NEW a, a.status # 200, NEW sent
  PROVE  TrueAnswer(a, sent) /\ WholeAnswer(a, sent)
BY DEF TrueAnswer, WholeAnswer

LEMMA NoAnswerSays == NoAnswer.status # 200
BY DEF NoAnswer

LEMMA AnswersInit == InfluxInit => AnswersInv
BY PointsInit, NoAnswerSays, NothingSaid DEF InfluxInit, AnswersInv

LEMMA QueryAnswersInv ==
  ASSUME AnswersInv, NEW ask \in Asks, Query(ask)
  PROVE  TrueAnswer(answer, ingested)' /\ WholeAnswer(answer, ingested)'
<1> DEFINE a == Points(ask, ParseCsv(Csv(BuildQuery(ask))))
<1>1. TrueAnswer(a, ingested) /\ WholeAnswer(a, ingested)
  BY QueryAnswers DEF AnswersInv
<1>2. answer' = a /\ ingested' = ingested
  BY DEF Query, Asking
<1> HIDE DEF a
<1>3. TrueAnswer(answer', ingested') /\ WholeAnswer(answer', ingested')
  BY <1>1, <1>2
<1> QED BY <1>3 DEF TrueAnswer, WholeAnswer

LEMMA QueryBreaksSays ==
  ASSUME AnswersInv, NEW ask \in Asks, QueryBreaks(ask)
  PROVE  answer'.status # 200
<1> DEFINE whole == Csv(BuildQuery(ask))
<1>1. PICK n \in 0 .. Len(whole) : answer' = Points(ask, ParseCsv(SubSeq(whole, 1, n) \o ErrorTable))
  BY DEF QueryBreaks
<1>2. BuildQuery(ask).limit \in Nat
  BY AskIs DEF BuildQuery
<1>3. whole \in Seq(CsvRecord)
  BY <1>2, CsvIs DEF AnswersInv
<1> HIDE DEF whole
<1>4. answer' = [status |-> 500]
  BY <1>1, <1>3, BrokenAnswer
<1> QED BY <1>4

LEMMA AnswersNext == AnswersInv /\ [InfluxNext]_influxVars => AnswersInv'
<1> SUFFICES ASSUME AnswersInv, [InfluxNext]_influxVars PROVE AnswersInv'
  OBVIOUS
<1> DEFINE Says == TrueAnswer(answer, ingested)' /\ WholeAnswer(answer, ingested)'
<1>1. PointsInv'
  BY PointsNext DEF AnswersInv
<1>2. ASSUME answer'.status # 200 PROVE Says
  BY <1>2, NothingSaid DEF TrueAnswer, WholeAnswer
<1>3. ASSUME NEW batch \in Batches, NEW now \in Moments, StoreBatch(batch, now) \/ BatchFails(batch, now)
      PROVE  Says
  <2>1. answer' = NoAnswer
    BY <1>3 DEF StoreBatch, BatchFails, Ingesting
  <2> QED BY <1>2, <2>1, NoAnswerSays
<1>4. ASSUME NEW ask \in Asks, Query(ask) PROVE Says
  BY <1>4, QueryAnswersInv
<1>5. ASSUME NEW ask \in Asks, QueryBreaks(ask) PROVE Says
  BY <1>2, <1>5, QueryBreaksSays
<1>6. ASSUME QueryFails PROVE Says
  <2>1. PICK status \in {0, 400, 401, 500} : answer' = [status |-> HttpError(status)]
    BY <1>6 DEF QueryFails
  <2>2. answer'.status # 200
    BY <2>1 DEF HttpError
  <2> QED BY <1>2, <2>2
<1>7. ASSUME Answered PROVE Says
  <2>1. answer' = NoAnswer
    BY <1>7 DEF Answered
  <2> QED BY <1>2, <2>1, NoAnswerSays
<1>8. ASSUME UNCHANGED influxVars PROVE Says
  <2>1. answer' = answer /\ ingested' = ingested
    BY <1>8 DEF influxVars
  <2> QED BY <2>1 DEF AnswersInv, TrueAnswer, WholeAnswer
<1> HIDE DEF Says
<1>9. Says
  BY <1>3, <1>4, <1>5, <1>6, <1>7, <1>8 DEF InfluxNext
<1> QED BY <1>1, <1>9 DEF AnswersInv, Says

LEMMA AnswersImplied == AnswersInv => AnswersAreTrue /\ AnswersAreWhole
BY AnswersAre DEF AnswersInv

\* GET /telemetry answers with the newest values of what devices sent and the client asked for:
\* names, filters and values come through line protocol, Flux and the tables of InfluxDB's
\* CSV unchanged but for line breaks, each under its own type.
THEOREM TrueCorrect == InfluxSpec => []AnswersAreTrue
BY AnswersInit, AnswersNext, AnswersImplied, PTL DEF InfluxSpec

\* An answer not said to be truncated has a point for every reading that a device was told is
\* stored and that the client asked for; a query that InfluxDB breaks off is never taken for one.
THEOREM WholeCorrect == InfluxSpec => []AnswersAreWhole
BY AnswersInit, AnswersNext, AnswersImplied, PTL DEF InfluxSpec
=============================================================================
