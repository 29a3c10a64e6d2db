---------------------------- MODULE RunnerProofs ----------------------------
(***************************************************************************)
(* Descriptions of the runner are never used too late, for any models,     *)
(* requests, time to live and bound of the clock: Runner.tla proved.  And  *)
(* the rate limit of sign-ins bounds attempts and keeps its promises, for  *)
(* any addresses, threads, capacity, rate, crowd and wait for the lock:    *)
(* Limiter.tla proved.                                                     *)
(***************************************************************************)
EXTENDS Runner, Limiter, TLAPS

\* Where a request goes with a description is one of its steps.
LEMMA CheckedType ==
  ASSUME NEW d, NEW n
  PROVE  Checked(d, n) \in {"idle", "inferring", "wrong"}
BY DEF Checked

LEMMA TypeInit == ASSUME Init PROVE TypeOK
BY TimeAssumption DEF Init, TypeOK, Idle, Nothing, Descriptions, Look

\* A request at a time.
Request(t) ==
  [at: {"idle", "asked", "described", "inferring", "inferred", "passed", "wrong"},
   n: Lengths \cup {Look}, info: Descriptions, began: 0 .. t,
   result: {"none", "classified", "simulated"}]

\* Most steps move one request, and may change the cache.
LEMMA RequestMoves ==
  ASSUME TypeOK, NEW p \in Requests, NEW r \in Request(now), req' = [req EXCEPT ![p] = r],
         cache' \in {cache, Nothing} \cup [info: Descriptions, at: 0 .. now],
         UNCHANGED <<runs, now, ran>>
  PROVE  TypeOK'
<1>1. req' \in [Requests -> Request(now')]
  BY DEF TypeOK, Request
<1> QED BY <1>1 DEF TypeOK, Request

LEMMA TypeStep == ASSUME TypeOK, [Next]_vars PROVE TypeOK'
<1>a. now \in Nat /\ now \in 0 .. now /\ 0 \in 0 .. now /\ Mock \in Descriptions
  BY TimeAssumption DEF Descriptions, TypeOK
<1>b. \A p \in Requests : req[p] \in Request(now)
  BY DEF TypeOK, Request
<1>c. Idle \in Request(now)
  BY <1>a DEF Idle, Request, Look
<1>1. ASSUME NEW p \in Requests, NEW n \in Lengths \cup {Look}, Ask(p, n) PROVE TypeOK'
  <2>1. [Idle EXCEPT !.at = "asked", !.n = n, !.began = now] \in Request(now)
    BY <1>a, <1>c DEF Idle, Request
  <2> QED BY <1>1, <2>1, RequestMoves DEF Ask
<1>2. ASSUME NEW p \in Requests, NEW n \in Lengths, InferCached(p, n) PROVE TypeOK'
  <2>1. cache.info \in Descriptions
    BY <1>2 DEF InferCached, Fresh, TypeOK
  <2>2. [Idle EXCEPT !.at = Checked(cache.info, n), !.n = n, !.info = cache.info, !.began = now]
          \in Request(now)
    BY <2>1, <1>a, <1>c, CheckedType DEF Idle, Request
  <2> QED BY <1>2, <2>2, RequestMoves DEF InferCached
<1>3. ASSUME NEW p \in Requests, RunnerInfo(p) PROVE TypeOK'
  BY <1>1, <1>3 DEF RunnerInfo
<1>4. ASSUME NEW p \in Requests, Describes(p) PROVE TypeOK'
  <2>1. [req[p] EXCEPT !.at = "described", !.info = runs] \in Request(now)
    BY <1>b DEF Request, TypeOK
  <2>2. req' = [req EXCEPT ![p] = [req[p] EXCEPT !.at = "described", !.info = runs]]
    BY <1>4 DEF Describes, TypeOK
  <2> QED BY <1>4, <2>1, <2>2, RequestMoves DEF Describes
<1>5. ASSUME NEW p \in Requests, Fetched(p) PROVE TypeOK'
  <2>1. [req[p] EXCEPT !.at = Checked(req[p].info, req[p].n)] \in Request(now)
    BY <1>b, CheckedType DEF Request
  <2>2. [info |-> req[p].info, at |-> req[p].began] \in [info: Descriptions, at: 0 .. now]
    BY <1>b DEF Request
  <2> QED BY <1>5, <2>1, <2>2, RequestMoves DEF Fetched
<1>6. ASSUME NEW p \in Requests, FetchFails(p) \/ InferFails(p) \/ Done(p) PROVE TypeOK'
  BY <1>6, <1>c, RequestMoves DEF FetchFails, InferFails, Done
<1>7. ASSUME NEW p \in Requests, Infers(p) PROVE TypeOK'
  <2>1. PICK r \in {"classified", "simulated"} :
          req' = [req EXCEPT ![p].at = "inferred", ![p].result = r]
    BY <1>7 DEF Infers
  <2>2. [req[p] EXCEPT !.at = "inferred", !.result = r] \in Request(now)
    BY <1>b DEF Request
  <2>3. req' = [req EXCEPT ![p] = [req[p] EXCEPT !.at = "inferred", !.result = r]]
    BY <2>1 DEF TypeOK
  <2> QED BY <1>7, <2>2, <2>3, RequestMoves DEF Infers
<1>8. ASSUME NEW p \in Requests, Answer(p) PROVE TypeOK'
  <2>1. [req[p] EXCEPT !.at = "passed"] \in Request(now)
    BY <1>b DEF Request
  <2>2. \E r \in Request(now) : req' = [req EXCEPT ![p] = r]
    BY <1>8, <1>c, <2>1 DEF Answer
  <2> QED BY <1>8, <2>2, RequestMoves DEF Answer, Forgotten
<1>9. ASSUME NEW d \in Descriptions, Load(d) PROVE TypeOK'
  BY <1>9, <1>a DEF Load, TypeOK
<1>10. CASE Tick
  <2>1. now' = now + 1 /\ now' \in 0 .. MaxTime
    BY <1>10, <1>a, TimeAssumption DEF Tick, TypeOK
  <2>2. \A t \in 0 .. now : t \in 0 .. now'
    BY <2>1, <1>a
  <2>3. cache' = Nothing \/ cache' \in [info: Descriptions, at: 0 .. now']
    BY <1>10, <2>2 DEF Tick, TypeOK
  <2>4. req' \in [Requests ->
         [at: {"idle", "asked", "described", "inferring", "inferred", "passed", "wrong"},
          n: Lengths \cup {Look}, info: Descriptions, began: 0 .. now',
          result: {"none", "classified", "simulated"}]]
    BY <1>10, <2>2 DEF Tick, TypeOK
  <2>5. ran' \in [Descriptions -> 0 .. now' + 1]
    BY <1>10, <2>1, <1>a DEF Tick, TypeOK
  <2> QED BY <1>10, <2>1, <2>3, <2>4, <2>5 DEF Tick, TypeOK
<1>11. CASE UNCHANGED vars
  BY <1>11 DEF vars, TypeOK
<1> QED
  BY <1>1, <1>2, <1>3, <1>4, <1>5, <1>6, <1>7, <1>8, <1>9, <1>10, <1>11 DEF Next, Infer

-----------------------------------------------------------------------------
(* The inductive invariant *)

\* info(): a description in the cache was true when its fetch began, or later.
CacheWasTrue == cache # Nothing => ran[cache.info] > cache.at

\* A request's description was true when the request began, or later; or it was in the cache.
WasTrue(p) ==
  /\ At(p, "described") => ran[req[p].info] > req[p].began
  /\ req[p].at \in {"inferring", "inferred", "passed", "wrong"} => RanLately(p, req[p].info)

\* What was refused has not the length of its description, what was passed on simulated was
\* described as simulated.
WasChecked(p) ==
  /\ At(p, "wrong") => req[p].info \in Models \ Unsized /\ Takes[req[p].info] # req[p].n
  /\ At(p, "passed") /\ req[p].result = "simulated" => req[p].info = Mock

RecentInv ==
  /\ TypeOK
  /\ ran[runs] = now + 1
  /\ CacheWasTrue
  /\ \A p \in Requests : WasTrue(p) /\ WasChecked(p)

\* What a request does.
Acts(p) ==
  \/ \E n \in Lengths : Infer(p, n) \/ InferCached(p, n)
  \/ RunnerInfo(p)
  \/ Describes(p) \/ Fetched(p) \/ FetchFails(p)
  \/ Infers(p) \/ Answer(p) \/ InferFails(p) \/ Done(p)

\* The runner's history only grows.
LEMMA RanGrows ==
  ASSUME TypeOK, [Next]_vars
  PROVE  \A d \in Descriptions : ran'[d] >= ran[d]
<1>1. \A d \in Descriptions : ran[d] \in Nat /\ ran[d] <= now + 1
  BY TimeAssumption DEF TypeOK
<1>2. now \in Nat
  BY TimeAssumption DEF TypeOK
<1>3. ASSUME NEW e \in Descriptions, Load(e) PROVE \A d \in Descriptions : ran'[d] >= ran[d]
  BY <1>1, <1>2, <1>3 DEF Load, TypeOK
<1>4. CASE Tick
  BY <1>1, <1>2, <1>4 DEF Tick, TypeOK
<1>5. CASE UNCHANGED ran
  BY <1>1, <1>5
<1> QED
  BY <1>3, <1>4, <1>5
  DEF Next, vars, Infer, Ask, InferCached, RunnerInfo, Describes, Fetched, FetchFails, Infers,
      Answer, InferFails, Done

\* What is not begun again, nor described, checked, or answered anew, stays true.
LEMMA StaysTrue ==
  ASSUME TypeOK, [Next]_vars, NEW p \in Requests, WasTrue(p), WasChecked(p), req'[p] = req[p]
  PROVE  WasTrue(p)' /\ WasChecked(p)'
<1>1. req[p].info \in Descriptions /\ req[p].began \in Nat
  BY TimeAssumption DEF TypeOK
<1>2. ran'[req[p].info] >= ran[req[p].info]
  BY <1>1, RanGrows
<1>3. TypeOK'
  BY TypeStep
<1>4. ran[req[p].info] \in Nat /\ ran'[req[p].info] \in Nat
  BY <1>1, <1>3, TimeAssumption DEF TypeOK
<1> QED BY <1>1, <1>2, <1>4, TimeAssumption DEF WasTrue, WasChecked, RanLately, At

LEMMA RecentInit == ASSUME Init PROVE RecentInv
<1>1. TypeOK
  BY TypeInit
<1>2. ran[runs] = now + 1
  BY DEF Init
<1>3. CacheWasTrue
  BY DEF Init, CacheWasTrue
<1>4. \A p \in Requests : req[p].at = "idle"
  BY DEF Init, Idle
<1> QED BY <1>1, <1>2, <1>3, <1>4 DEF RecentInv, WasTrue, WasChecked, At

\* A description that is used now: what becomes of the request is true and checked.
LEMMA UsedNow ==
  ASSUME TypeOK, TypeOK', [Next]_vars, NEW p \in Requests, NEW d \in Descriptions, NEW n,
         req'[p].at = Checked(d, n), req'[p].info = d, req'[p].n = n,
         ran[d] > 0, ran[d] + TTL > req'[p].began + 1
  PROVE  WasTrue(p)' /\ WasChecked(p)'
<1>1. req'[p].began \in Nat
  BY TimeAssumption DEF TypeOK
<1>2. ran'[d] >= ran[d] /\ ran[d] \in Nat /\ ran'[d] \in Nat
  BY RanGrows, TimeAssumption DEF TypeOK
<1>3. WasTrue(p)'
  BY <1>1, <1>2, TimeAssumption, CheckedType DEF WasTrue, RanLately, At
<1>4. WasChecked(p)'
  BY DEF WasChecked, Checked, Fits, At
<1> QED BY <1>3, <1>4

LEMMA RecentStep == ASSUME RecentInv, [Next]_vars PROVE RecentInv'
<1> USE DEF RecentInv
<1>a. TypeOK /\ TypeOK'
  BY TypeStep
<1>b. now \in Nat /\ \A d \in Descriptions : ran[d] \in Nat /\ ran'[d] \in Nat
  BY <1>a, TimeAssumption DEF TypeOK
<1>1. ran'[runs'] = now' + 1
  BY <1>a
  DEF TypeOK, Next, vars, Infer, Ask, InferCached, RunnerInfo, Describes, Fetched, FetchFails, Infers,
      Answer, InferFails, Done, Load, Tick
<1>2. CacheWasTrue'
  <2>1. ASSUME NEW p \in Requests, Fetched(p) PROVE CacheWasTrue'
    BY <2>1, <1>a DEF Fetched, CacheWasTrue, WasTrue
  <2>2. CASE cache' = cache
    BY <2>2, <1>a, <1>b, RanGrows, TimeAssumption DEF CacheWasTrue, TypeOK
  <2>3. CASE cache' = Nothing
    BY <2>3 DEF CacheWasTrue
  <2> QED
    BY <2>1, <2>2, <2>3
    DEF Next, vars, Infer, Ask, InferCached, RunnerInfo, Describes, FetchFails, Infers,
        Answer, InferFails, Done, Load, Tick, Forgotten
<1>3. ASSUME NEW q \in Requests PROVE WasTrue(q)' /\ WasChecked(q)'
  <2>1. CASE req'[q] = req[q]
    BY <2>1, <1>a, StaysTrue
  <2>2. ASSUME NEW n \in Lengths, InferCached(q, n) PROVE WasTrue(q)' /\ WasChecked(q)'
    <3>1. req'[q] = [Idle EXCEPT !.at = Checked(cache.info, n), !.n = n,
                                 !.info = cache.info, !.began = now]
      BY <2>2, <1>a DEF InferCached, TypeOK
    <3>2. req'[q].at = Checked(cache.info, n) /\ req'[q].info = cache.info /\ req'[q].n = n
          /\ req'[q].began = now
      BY <3>1 DEF Idle
    <3>3. cache.info \in Descriptions /\ cache.at \in Nat /\ ran[cache.info] > cache.at
          /\ now < cache.at + TTL
      BY <2>2, <1>a, TimeAssumption DEF InferCached, Fresh, CacheWasTrue, TypeOK
    <3>4. ran[cache.info] > 0 /\ ran[cache.info] + TTL > now + 1
      BY <3>3, <1>b, TimeAssumption
    <3> QED BY <3>2, <3>3, <3>4, <1>a, UsedNow
  <2>3. CASE Fetched(q)
    <3>1. req'[q] = [req[q] EXCEPT !.at = Checked(req[q].info, req[q].n)]
      BY <2>3, <1>a DEF Fetched, TypeOK
    <3>2. req'[q].at = Checked(req[q].info, req[q].n) /\ req'[q].info = req[q].info
          /\ req'[q].n = req[q].n /\ req'[q].began = req[q].began
      BY <3>1, <1>a DEF TypeOK
    <3>3. req[q].info \in Descriptions /\ req[q].began \in Nat
      BY <1>a, TimeAssumption DEF TypeOK
    <3>4. ran[req[q].info] > req[q].began
      BY <2>3 DEF Fetched, WasTrue
    <3>5. ran[req[q].info] > 0 /\ ran[req[q].info] + TTL > req[q].began + 1
      BY <3>3, <3>4, <1>b, TimeAssumption
    <3> QED BY <3>2, <3>3, <3>5, <1>a, UsedNow
  <2>4. CASE Describes(q)
    BY <2>4, <1>a, <1>b, TimeAssumption DEF Describes, TypeOK, WasTrue, WasChecked, At
  <2>5. CASE Infers(q)
    BY <2>5, <1>a, <1>b DEF Infers, TypeOK, WasTrue, WasChecked, RanLately, At
  <2>6. CASE Answer(q)
    BY <2>6, <1>a, <1>b DEF Answer, Idle, TypeOK, WasTrue, WasChecked, RanLately, At
  <2>7. CASE req'[q].at \in {"idle", "asked"}
    BY <2>7 DEF WasTrue, WasChecked, At
  <2>8. ASSUME NEW p \in Requests, p # q, Acts(p) PROVE req'[q] = req[q]
    BY <2>8, <1>a
    DEF Acts, TypeOK, Infer, Ask, InferCached, RunnerInfo, Describes, Fetched, FetchFails,
        Infers, Answer, InferFails, Done
  <2>9. CASE Acts(q)
    <3>1. CASE \E n \in Lengths \cup {Look} : Ask(q, n)
      BY <3>1, <2>7, <1>a DEF Ask, Idle, TypeOK
    <3>2. CASE FetchFails(q) \/ InferFails(q) \/ Done(q)
      BY <3>2, <2>7, <1>a DEF FetchFails, InferFails, Done, Idle, TypeOK
    <3> QED BY <3>1, <3>2, <2>2, <2>3, <2>4, <2>5, <2>6, <2>9 DEF Acts, Infer, RunnerInfo
  <2>10. CASE UNCHANGED req
    BY <2>10, <2>1
  <2> QED
    BY <2>1, <2>8, <2>9, <2>10 DEF Next, vars, Acts, Load, Tick
<1> QED BY <1>a, <1>1, <1>2, <1>3

-----------------------------------------------------------------------------
(* The theorems *)

\* The types of the clock, the cache and the requests (edge_runner.py, routes/inference.py).
THEOREM TypeCorrect == Spec => []TypeOK
<1>1. Init => TypeOK
  BY TypeInit
<1>2. TypeOK /\ [Next]_vars => TypeOK'
  BY TypeStep
<1> QED BY <1>1, <1>2, PTL DEF Spec

\* info() and infer(): however fetches and restarts of the runner overlap, no vector is refused
\* and no simulated result passed on by a description older than INFO_TTL_S.
THEOREM RecentCorrect == Spec => []AnswersAreRecent
<1>1. Init => RecentInv
  BY RecentInit
<1>2. RecentInv /\ [Next]_vars => RecentInv'
  BY RecentStep
<1>3. RecentInv => AnswersAreRecent
  BY DEF RecentInv, AnswersAreRecent, WasTrue, WasChecked, At
<1> QED BY <1>1, <1>2, <1>3, PTL DEF Spec

-----------------------------------------------------------------------------
(* The rate limit of sign-ins *)

\* A bucket holds at least a token when it is full.
LEMMA FullIsEnough == Full \in Nat /\ Period \in Nat \ {0} /\ Period <= Full
<1>1. Capacity \in Nat \ {0} /\ Period \in Nat \ {0}
  BY BucketAssumption
<1>2. \A c \in Nat \ {0}, p \in Nat \ {0} : c * p \in Nat /\ p <= c * p
  OBVIOUS
<1> QED BY <1>1, <1>2 DEF Full

\* What a bucket forgotten f times may have given away beyond a burst.
Waits(f) == MaxWait * (1 + 2 * f)

LEMMA WaitsGrow ==
  /\ Waits(0) = MaxWait
  /\ \A f \in Nat : Waits(f) \in Nat /\ MaxWait <= Waits(f)
  /\ \A f \in Nat : Waits(f + 1) = Waits(f) + 2 * MaxWait
<1>1. MaxWait \in Nat
  BY ClockAssumption
<1>2. \A w \in Nat, f \in Nat : /\ w * (1 + 2 * f) \in Nat
                                /\ w <= w * (1 + 2 * f)
                                /\ w * (1 + 2 * (f + 1)) = w * (1 + 2 * f) + 2 * w
  OBVIOUS
<1>3. Waits(0) = MaxWait
  BY <1>1 DEF Waits
<1> QED BY <1>1, <1>2, <1>3 DEF Waits

\* Retry-After, whole seconds, is no less than the wait.
LEMMA ComeBackIsLater ==
  ASSUME NEW wait \in Nat, clock \in Nat
  PROVE  ComeBack(wait) \in Nat /\ ComeBack(wait) >= clock + wait
<1>1. Second \in Nat \ {0}
  BY ClockAssumption
<1>2. \A q \in Nat, s \in Nat \ {0} : (q + 1) * s \in Nat
  OBVIOUS
<1>3. wait \div Second \in Nat /\ wait <= (wait \div Second + 1) * Second
  BY <1>1
<1> QED BY <1>1, <1>2, <1>3 DEF ComeBack

-----------------------------------------------------------------------------
(* The inductive invariant *)

\* When a bucket was empty, or will be, had it no bottom and no lid: it does not change while time
\* passes and attempts are refused.
EmptyAt(b) == b.last - b.tokens

\* What is true of the bucket of an address at a time: what was poured into the reference bucket
\* came out of this one, and there is a token for who comes back when told.
BucketOK(b, d, f, told, time) ==
  /\ time \in Nat /\ d \in Nat /\ f \in Nat /\ told \in Nat
  /\ b # NoBucket =>
       /\ b.tokens \in Int /\ -MaxWait <= b.tokens /\ b.tokens <= Full
       /\ b.last \in Nat /\ b.last <= time /\ EmptyAt(b) <= time
       /\ d = 0 \/ d + (time - EmptyAt(b)) <= Full + Waits(f)
       /\ told > 0 => EmptyAt(b) + Period <= told
  /\ b = NoBucket => d + MaxWait <= Waits(f)

HitOK(h, time) ==
  h # NoHit => h.now <= time /\ time <= h.now + MaxWait

LimiterInv ==
  /\ LimiterTypeOK
  /\ \A a \in Addresses : BucketOK(buckets[a], debt[a], forgotten[a], promised[a], clock)
  /\ \A t \in Threads : HitOK(hits[t], clock)

\* Time passes.
LEMMA PassKeeps ==
  ASSUME NEW b, NEW d, NEW f, NEW told, NEW time, BucketOK(b, d, f, told, time)
  PROVE  BucketOK(b, IF d = 0 THEN 0 ELSE d - 1, f, told, time + 1)
<1>1. MaxWait \in Nat /\ Full \in Nat /\ Waits(f) \in Nat
  BY ClockAssumption, FullIsEnough, WaitsGrow DEF BucketOK
<1> QED BY <1>1 DEF BucketOK, EmptyAt

\* A bucket is forgotten: it was full but for a wait.
LEMMA PruneKeeps ==
  ASSUME NEW b, NEW d, NEW f, NEW told, NEW time, BucketOK(b, d, f, told, time),
         NEW at \in Nat, at <= time, Expired(b, at)
  PROVE  BucketOK(NoBucket, d, f + 1, told, time)
<1>1. MaxWait \in Nat /\ Full \in Nat /\ Waits(f) \in Nat /\ MaxWait <= Waits(f)
      /\ Waits(f + 1) = Waits(f) + 2 * MaxWait
  BY ClockAssumption, FullIsEnough, WaitsGrow DEF BucketOK
<1>2. d = 0 \/ d + Full <= Full + Waits(f) + MaxWait
  BY <1>1 DEF BucketOK, EmptyAt, Expired
<1> QED BY <1>1, <1>2 DEF BucketOK

\* What a bucket holds at a time is a number, and is less than what it would without a lid.
LEMMA RefilledType ==
  ASSUME NEW b, NEW d, NEW f, NEW told, NEW time, BucketOK(b, d, f, told, time),
         NEW at \in Nat, at <= time, time <= at + MaxWait
  PROVE  /\ Refilled(b, at) \in Int
         /\ -MaxWait <= Refilled(b, at)
         /\ Refilled(b, at) <= Full
         /\ b # NoBucket => Refilled(b, at) <= at - EmptyAt(b)
         /\ Refilled(b, at) < Full => b # NoBucket /\ Refilled(b, at) = at - EmptyAt(b)
<1>1. MaxWait \in Nat /\ Full \in Nat
  BY ClockAssumption, FullIsEnough
<1>2. CASE b = NoBucket
  BY <1>1, <1>2 DEF Refilled
<1>3. CASE b # NoBucket
  BY <1>1, <1>3 DEF Refilled, Minimum, BucketOK, EmptyAt
<1> QED BY <1>2, <1>3

\* An attempt is let in.
LEMMA AdmittedKeeps ==
  ASSUME NEW b, NEW d, NEW f, NEW told, NEW time, BucketOK(b, d, f, told, time),
         NEW at \in Nat, at <= time, time <= at + MaxWait, Period <= Refilled(b, at)
  PROVE  BucketOK([tokens |-> Refilled(b, at) - Period, last |-> at], d + Period, f, 0, time)
<1> DEFINE x == Refilled(b, at)
           new == [tokens |-> x - Period, last |-> at]
<1>1. MaxWait \in Nat /\ Full \in Nat /\ Period \in Nat \ {0}
      /\ Waits(f) \in Nat /\ MaxWait <= Waits(f)
  BY ClockAssumption, FullIsEnough, WaitsGrow DEF BucketOK
<1>2. x \in Int /\ x <= Full /\ (b # NoBucket => x <= at - EmptyAt(b))
  BY RefilledType
<1>3. new # NoBucket /\ new.tokens = x - Period /\ new.last = at
  BY DEF NoBucket
<1>4. time - EmptyAt(new) = x - Period + (time - at)
  BY <1>1, <1>2, <1>3 DEF EmptyAt, BucketOK
<1>5. (d + Period) + (time - EmptyAt(new)) <= Full + Waits(f)
  <2>1. CASE b = NoBucket
    BY <2>1, <1>1, <1>2, <1>4 DEF BucketOK
  <2>2. CASE b # NoBucket
    <3>1. EmptyAt(b) \in Int
      BY <2>2 DEF BucketOK, EmptyAt
    <3>2. x + (time - at) <= time - EmptyAt(b)
      BY <2>2, <3>1, <1>2 DEF BucketOK
    <3> QED BY <2>2, <3>1, <3>2, <1>1, <1>2, <1>4 DEF BucketOK
  <2> QED BY <2>1, <2>2
<1>6. EmptyAt(new) <= time
  BY <1>1, <1>2, <1>3, Period <= x DEF EmptyAt, BucketOK
<1> HIDE DEF x, new
<1> QED BY <1>1, <1>2, <1>3, <1>5, <1>6, Period <= x DEF BucketOK, x, new

\* An attempt is refused.
LEMMA RefusedKeeps ==
  ASSUME NEW b, NEW d, NEW f, NEW told, BucketOK(b, d, f, told, clock),
         NEW at \in Nat, at <= clock, clock <= at + MaxWait, Refilled(b, at) < Period
  PROVE  BucketOK([tokens |-> Refilled(b, at), last |-> at], d, f,
                  ComeBack(Period - Refilled(b, at)), clock)
<1> DEFINE x == Refilled(b, at)
           new == [tokens |-> x, last |-> at]
<1>1. MaxWait \in Nat /\ Full \in Nat /\ Period \in Nat \ {0} /\ Period <= Full
  BY ClockAssumption, FullIsEnough
<1>2. x \in Int /\ x <= Full /\ -MaxWait <= x /\ b # NoBucket /\ x = at - EmptyAt(b)
  BY <1>1, RefilledType
<1>3. new # NoBucket /\ new.tokens = x /\ new.last = at
  BY DEF NoBucket
<1>4. EmptyAt(b) \in Int
  BY <1>2 DEF BucketOK, EmptyAt
<1>5. EmptyAt(new) = EmptyAt(b)
  BY <1>2, <1>3, <1>4 DEF EmptyAt
<1>6. ComeBack(Period - x) \in Nat /\ ComeBack(Period - x) >= clock + (Period - x)
  BY <1>1, <1>2, ComeBackIsLater DEF BucketOK
<1>7. EmptyAt(new) + Period <= ComeBack(Period - x)
  BY <1>1, <1>2, <1>4, <1>5, <1>6 DEF BucketOK
<1> HIDE DEF x, new
<1> QED BY <1>1, <1>2, <1>3, <1>5, <1>6, <1>7 DEF BucketOK, x, new

-----------------------------------------------------------------------------
(* The steps *)

LEMMA LimiterInit0 == ASSUME LimiterInit PROVE LimiterInv
<1>1. MaxClock \in Nat /\ Waits(0) = MaxWait /\ MaxWait \in Nat
  BY ClockAssumption, WaitsGrow
<1>2. LimiterTypeOK
  BY <1>1 DEF LimiterInit, LimiterTypeOK
<1>3. \A a \in Addresses : BucketOK(buckets[a], debt[a], forgotten[a], promised[a], clock)
  BY <1>1 DEF LimiterInit, BucketOK
<1>4. \A t \in Threads : HitOK(hits[t], clock)
  BY DEF LimiterInit, HitOK
<1> QED BY <1>2, <1>3, <1>4 DEF LimiterInv

LEMMA LimiterStep == ASSUME LimiterInv, [LimiterNext]_limiterVars PROVE LimiterInv'
<1>a. LimiterTypeOK /\ MaxClock \in Nat /\ MaxWait \in Nat /\ clock \in Nat
  BY ClockAssumption DEF LimiterInv, LimiterTypeOK
<1>1. ASSUME NEW t \in Threads, NEW a \in Addresses, ReadClock(t, a) PROVE LimiterInv'
  <2>1. [address |-> a, now |-> clock] \in Hit
    BY <1>a DEF Hit, LimiterTypeOK
  <2>2. LimiterTypeOK'
    BY <1>1, <1>a, <2>1 DEF ReadClock, LimiterTypeOK
  <2>3. ASSUME NEW s \in Threads PROVE HitOK(hits'[s], clock')
    BY <1>1, <1>a DEF ReadClock, LimiterTypeOK, LimiterInv, HitOK
  <2> QED BY <1>1, <2>2, <2>3 DEF ReadClock, LimiterInv
<1>2. ASSUME NEW t \in Threads, Take(t) PROVE LimiterInv'
  <2> DEFINE h == hits[t]
             x == Refilled(Kept(h.now)[h.address], h.now)
  <2>1. h \in Hit /\ h.address \in Addresses /\ h.now \in Nat /\ h.now \in 0 .. MaxClock
        /\ h.now <= clock /\ clock <= h.now + MaxWait
    BY <1>2, <1>a DEF Take, LimiterTypeOK, LimiterInv, HitOK, Hit
  <2>2. \A b \in Addresses : forgotten'[b] = IF b \in Pruned(h.now) THEN forgotten[b] + 1
                                             ELSE forgotten[b]
    BY <1>2 DEF Take
  <2>3. ASSUME NEW b \in Addresses
        PROVE  BucketOK(Kept(h.now)[b], debt[b], forgotten'[b], promised[b], clock)
    <3>1. BucketOK(buckets[b], debt[b], forgotten[b], promised[b], clock)
      BY DEF LimiterInv
    <3>2. CASE b \in Pruned(h.now)
      <4>1. Expired(buckets[b], h.now)
        BY <3>2 DEF Pruned
      <4> QED BY <2>1, <2>2, <3>1, <3>2, <4>1, PruneKeeps DEF Kept
    <3>3. CASE b \notin Pruned(h.now)
      BY <2>2, <3>1, <3>3 DEF Kept
    <3> QED BY <3>2, <3>3
  <2>4. ASSUME NEW b \in Addresses, b # h.address
        PROVE  BucketOK(buckets'[b], debt'[b], forgotten'[b], promised'[b], clock')
    <3>1. buckets'[b] = Kept(h.now)[b] /\ debt'[b] = debt[b] /\ promised'[b] = promised[b]
          /\ clock' = clock
      BY <1>2, <1>a, <2>4 DEF Take, LimiterTypeOK, Kept
    <3> QED BY <3>1, <2>3
  <2>5. BucketOK(buckets'[h.address], debt'[h.address], forgotten'[h.address],
                 promised'[h.address], clock')
    <3>1. BucketOK(Kept(h.now)[h.address], debt[h.address], forgotten'[h.address],
                   promised[h.address], clock)
      BY <2>1, <2>3
    <3>2. CASE Period <= x
      <4>1. /\ buckets'[h.address] = [tokens |-> x - Period, last |-> h.now]
            /\ debt'[h.address] = debt[h.address] + Period
            /\ promised'[h.address] = 0
            /\ clock' = clock
        BY <1>2, <1>a, <2>1, <3>2 DEF Take, LimiterTypeOK, Kept
      <4> HIDE DEF x, h
      <4>2. BucketOK([tokens |-> x - Period, last |-> h.now], debt[h.address] + Period,
                     forgotten'[h.address], 0, clock)
        BY <2>1, <3>1, <3>2, AdmittedKeeps DEF x
      <4> QED BY <4>1, <4>2
    <3>3. CASE ~(Period <= x)
      <4>1. /\ buckets'[h.address] = [tokens |-> x, last |-> h.now]
            /\ debt'[h.address] = debt[h.address]
            /\ promised'[h.address] = ComeBack(Period - x)
            /\ clock' = clock
        BY <1>2, <1>a, <2>1, <3>3 DEF Take, LimiterTypeOK, Kept
      <4>2. x \in Int /\ Period \in Int
        BY <2>1, <3>1, RefilledType, FullIsEnough
      <4> HIDE DEF x, h
      <4>3. BucketOK([tokens |-> x, last |-> h.now], debt[h.address],
                     forgotten'[h.address], ComeBack(Period - x), clock)
        BY <2>1, <3>1, <3>3, <4>2, RefusedKeeps DEF x
      <4> QED BY <4>1, <4>3
    <3> QED BY <3>2, <3>3
  <2>6. \A b \in Addresses : BucketOK(buckets[b], debt[b], forgotten[b], promised[b], clock)'
    BY <2>4, <2>5
  <2>7. buckets' \in [Addresses -> Bucket \cup {NoBucket}]
    <3>1. \A b \in Addresses : buckets'[b] = NoBucket \/ buckets'[b] \in Bucket
      <4>1. \A b \in Addresses : Kept(h.now)[b] \in Bucket \cup {NoBucket}
        BY <1>a DEF Kept, LimiterTypeOK
      <4>2. buckets'[h.address].tokens \in -MaxWait .. Full
        BY <2>1, <2>6, <1>a, FullIsEnough DEF BucketOK, NoBucket
      <4>3. \E tokens : buckets'[h.address] = [tokens |-> tokens, last |-> h.now]
        BY <1>2, <2>1 DEF Take, Kept
      <4>4. buckets'[h.address] \in Bucket
        BY <2>1, <4>2, <4>3 DEF Bucket
      <4>5. \A b \in Addresses : b # h.address => buckets'[b] = Kept(h.now)[b]
        BY <1>2 DEF Take, Kept
      <4> QED BY <4>1, <4>4, <4>5
    <3> QED BY <1>2, <3>1 DEF Take, Kept
  <2>8. hits' \in [Threads -> Hit \cup {NoHit}] /\ \A s \in Threads : HitOK(hits'[s], clock')
    BY <1>2, <1>a DEF Take, LimiterTypeOK, LimiterInv, HitOK
  <2>9. debt' \in [Addresses -> Nat] /\ forgotten' \in [Addresses -> Nat]
        /\ promised' \in [Addresses -> Nat] /\ clock' = clock
    <3>1. \A b \in Addresses : debt'[b] \in Nat /\ forgotten'[b] \in Nat /\ promised'[b] \in Nat
      BY <2>6 DEF BucketOK
    <3>2. clock' = clock
      BY <1>2 DEF Take
    <3>3. /\ debt' = [b \in Addresses |-> debt'[b]]
          /\ forgotten' = [b \in Addresses |-> forgotten'[b]]
          /\ promised' = [b \in Addresses |-> promised'[b]]
      BY <1>2, <1>a DEF Take, LimiterTypeOK
    <3> QED BY <3>1, <3>2, <3>3
  <2> QED BY <1>a, <2>6, <2>7, <2>8, <2>9 DEF LimiterInv, LimiterTypeOK
<1>3. CASE Pass
  <2>1. clock' = clock + 1 /\ clock' \in 0 .. MaxClock /\ buckets' = buckets /\ hits' = hits
        /\ forgotten' = forgotten /\ promised' = promised
        /\ debt' = [a \in Addresses |-> IF debt[a] = 0 THEN 0 ELSE debt[a] - 1]
    BY <1>3, <1>a DEF Pass, LimiterTypeOK
  <2>2. debt' \in [Addresses -> Nat]
    BY <1>a, <2>1 DEF LimiterTypeOK
  <2>3. ASSUME NEW a \in Addresses
        PROVE  BucketOK(buckets'[a], debt'[a], forgotten'[a], promised'[a], clock')
    BY <2>1, PassKeeps DEF LimiterInv
  <2>4. ASSUME NEW t \in Threads PROVE HitOK(hits'[t], clock')
    <3>1. hits[t] # NoHit => hits[t] \in Hit /\ clock - hits[t].now < MaxWait
      BY <1>3, <1>a DEF Pass, LimiterTypeOK
    <3> QED BY <1>a, <2>1, <3>1 DEF LimiterInv, HitOK, Hit
  <2> QED BY <1>a, <2>1, <2>2, <2>3, <2>4 DEF LimiterInv, LimiterTypeOK
<1>4. CASE UNCHANGED limiterVars
  BY <1>4 DEF limiterVars, LimiterInv, LimiterTypeOK
<1> QED BY <1>1, <1>2, <1>3, <1>4 DEF LimiterNext

\* The bound, of an address.
LEMMA BoundOf ==
  ASSUME NEW b, NEW d, NEW f, NEW told, NEW time, BucketOK(b, d, f, told, time)
  PROVE  d <= Full + Waits(f)
<1>1. MaxWait \in Nat /\ Full \in Nat /\ Waits(f) \in Nat
  BY ClockAssumption, FullIsEnough, WaitsGrow DEF BucketOK
<1> QED BY <1>1 DEF BucketOK, EmptyAt

\* The promise, to an address.
LEMMA PromiseStep ==
  ASSUME LimiterInv, NEW t \in Threads, Take(t), promised[hits[t].address] > 0,
         hits[t].now >= promised[hits[t].address]
  PROVE  promised'[hits[t].address] = 0
<1> DEFINE h == hits[t]
           b == Kept(h.now)[h.address]
<1>1. h.address \in Addresses /\ h.now \in Nat /\ h.now <= clock /\ clock <= h.now + MaxWait
      /\ promised \in [Addresses -> Nat]
  BY DEF Take, LimiterTypeOK, LimiterInv, HitOK, Hit
<1>2. BucketOK(buckets[h.address], debt[h.address], forgotten[h.address], promised[h.address],
               clock)
  BY <1>1 DEF LimiterInv
<1>3. Period <= Refilled(b, h.now)
  <2>1. CASE b = NoBucket
    BY <2>1, FullIsEnough DEF Refilled
  <2>2. CASE b # NoBucket
    <3>1. b = buckets[h.address]
      BY <1>1, <2>2 DEF Kept
    <3>2. EmptyAt(b) \in Int /\ EmptyAt(b) + Period <= promised[h.address]
      BY <1>2, <2>2, <3>1 DEF BucketOK, EmptyAt
    <3>3. Refilled(b, h.now) \in Int
          /\ (Refilled(b, h.now) < Full => Refilled(b, h.now) = h.now - EmptyAt(b))
      BY <1>1, <1>2, <3>1, RefilledType
    <3> QED BY <1>1, <3>2, <3>3, FullIsEnough
  <2> QED BY <2>1, <2>2
<1> QED BY <1>1, <1>3 DEF Take

-----------------------------------------------------------------------------
(* The theorems *)

\* RateLimiter.hit: the attempts let in from an address stay within a burst and one a Period, but
\* for what threads wait for the lock, and two waits each time its bucket is forgotten.
THEOREM AttemptsCorrect == LimiterSpec => []AttemptsAreBounded
<1>1. LimiterInit => LimiterInv
  BY LimiterInit0
<1>2. LimiterInv /\ [LimiterNext]_limiterVars => LimiterInv'
  BY LimiterStep
<1>3. LimiterInv => AttemptsAreBounded
  BY BoundOf DEF LimiterInv, AttemptsAreBounded, Waits
<1> QED BY <1>1, <1>2, <1>3, PTL DEF LimiterSpec

\* rate_limit_login: who comes back when Retry-After said is let in.
THEOREM RetryAfterCorrect == LimiterSpec => RetryAfterIsEnough
<1>1. LimiterInit => LimiterInv
  BY LimiterInit0
<1>2. LimiterInv /\ [LimiterNext]_limiterVars => LimiterInv'
  BY LimiterStep
<1>3. LimiterInv /\ [LimiterNext]_limiterVars =>
        [\A t \in Threads : \A a \in Addresses :
           Take(t) /\ hits[t].address = a /\ promised[a] > 0 /\ hits[t].now >= promised[a]
           => promised'[a] = 0]_limiterVars
  BY PromiseStep
<1> QED BY <1>1, <1>2, <1>3, PTL DEF LimiterSpec, RetryAfterIsEnough
=============================================================================
