------------------------------- MODULE Runner -------------------------------
(***************************************************************************)
(* Inference on the edge runner (edge_runner.py, routes/inference.py): the *)
(* runner's description of its model is cached for a while, a vector is    *)
(* checked against it, and the runner's result is passed on unless it is   *)
(* simulated though a model is loaded.                                     *)
(*                                                                         *)
(* All of it runs in the event loop: a step is what happens between two    *)
(* awaits.  The runner is external: it may be restarted with another model *)
(* at any time.  The address of the runner does not change while the       *)
(* process lives.                                                          *)
(***************************************************************************)
EXTENDS Naturals

CONSTANTS
  Models,     \* what the runner may load
  Mock,       \* it runs without a model: results are simulated
  Unsized,    \* the models whose description does not say how many values they take
  Takes,      \* how many values each of the other models takes
  Lengths,    \* lengths of the vectors clients send
  Requests,   \* in progress at the same time
  TTL,        \* INFO_TTL_S
  MaxTime     \* bound: the clock stops here

ASSUME ModelsAssumption == Mock \notin Models /\ Unsized \subseteq Models
ASSUME TakesAssumption == Takes \in [Models \ Unsized -> Nat]
ASSUME TimeAssumption == TTL \in Nat \ {0} /\ MaxTime \in Nat

VARIABLES
  runs,    \* what the runner runs: a model, or Mock
  now,     \* time.monotonic()
  cache,   \* _info_cache: a description and when its fetch began, or Nothing
  req,     \* where each request is
  ran      \* history: when the runner last ran each of them, one time later; 0 is never

vars == <<runs, now, cache, req, ran>>

Descriptions == Models \cup {Mock}
Nothing == [info |-> "nothing", at |-> 0]
Idle == [at |-> "idle", n |-> 0, info |-> Mock, began |-> 0, result |-> "none"]
Look == 0   \* the length of a request that only looks at the description

\* The values of the clock, the cache and the requests.
TypeOK ==
  /\ runs \in Descriptions
  /\ now \in 0 .. MaxTime
  /\ cache = Nothing \/ cache \in [info: Descriptions, at: 0 .. now]
  /\ req \in [Requests ->
       [at: {"idle", "asked", "described", "inferring", "inferred", "passed", "wrong"},
        n: Lengths \cup {Look}, info: Descriptions, began: 0 .. now,
        result: {"none", "classified", "simulated"}]]
  /\ ran \in [Descriptions -> 0 .. now + 1]

Init ==
  /\ runs \in Descriptions
  /\ now = 0
  /\ cache = Nothing
  /\ req = [p \in Requests |-> Idle]
  /\ ran = [d \in Descriptions |-> IF d = runs THEN 1 ELSE 0]

At(p, step) == req[p].at = step

\* expected_features(): mock takes anything, so does a model that does not say.
Fits(d, n) == d \in Models \ Unsized => n = Takes[d]

-----------------------------------------------------------------------------
(* The description: info() *)

\* A description fetched at least TTL ago is not used.
Fresh == cache # Nothing /\ now < cache.at + TTL

\* infer() with a description: the length is checked, and the vector goes to the runner.
Checked(d, n) == IF n = Look THEN "idle" ELSE IF Fits(d, n) THEN "inferring" ELSE "wrong"

\* POST /inference with a description in the cache: there is no await before the vector goes.
InferCached(p, n) ==
  /\ At(p, "idle") /\ Fresh
  /\ req' = [req EXCEPT ![p] = [Idle EXCEPT !.at = Checked(cache.info, n), !.n = n,
                                            !.info = cache.info, !.began = now]]
  /\ UNCHANGED <<runs, now, cache, ran>>

Ask(p, n) ==
  /\ At(p, "idle")
  /\ req' = [req EXCEPT ![p] = [Idle EXCEPT !.at = "asked", !.n = n, !.began = now]]
  /\ UNCHANGED <<runs, now, cache, ran>>

Infer(p, n) == ~Fresh /\ Ask(p, n)
RunnerInfo(p) == Ask(p, Look)

\* The time in the cache is that of the question.  A defect to test the properties with: it
\* is that of the answer.
FetchedLate(p) ==
  LET d == req[p].info IN
  /\ At(p, "described")
  /\ cache' = [info |-> d, at |-> now]
  /\ req' = [req EXCEPT ![p].at = Checked(d, req[p].n)]
  /\ UNCHANGED <<runs, now, ran>>

Fetched(p) ==
  LET d == req[p].info IN
  /\ At(p, "described")
  /\ cache' = [info |-> d, at |-> req[p].began]
  /\ req' = [req EXCEPT ![p].at = Checked(d, req[p].n)]
  /\ UNCHANGED <<runs, now, ran>>

\* Unreachable, timed out or refused: no description, and the one in the cache stays.
FetchFails(p) ==
  /\ At(p, "asked") \/ At(p, "described")
  /\ req' = [req EXCEPT ![p] = Idle]
  /\ UNCHANGED <<runs, now, cache, ran>>

-----------------------------------------------------------------------------
(* The result: infer() *)

\* clear_cache()
Forgotten == Nothing

\* A simulated result from what was described as a model is no result, and the description is
\* forgotten.
Answer(p) ==
  /\ At(p, "inferred")
  /\ LET refused == req[p].result = "simulated" /\ req[p].info # Mock IN
     /\ cache' = IF refused THEN Forgotten ELSE cache
     /\ req' = [req EXCEPT ![p] =
                  IF refused THEN Idle ELSE [@ EXCEPT !.at = "passed"]]
  /\ UNCHANGED <<runs, now, ran>>

\* An error of the runner's, or no answer.
InferFails(p) ==
  /\ At(p, "inferring") \/ At(p, "inferred")
  /\ req' = [req EXCEPT ![p] = Idle]
  /\ UNCHANGED <<runs, now, cache, ran>>

\* The client has its result, or its 422.
Done(p) ==
  /\ At(p, "passed") \/ At(p, "wrong")
  /\ req' = [req EXCEPT ![p] = Idle]
  /\ UNCHANGED <<runs, now, cache, ran>>

-----------------------------------------------------------------------------
(* The runner, and time *)

Describes(p) ==
  /\ At(p, "asked")
  /\ req' = [req EXCEPT ![p].at = "described", ![p].info = runs]
  /\ UNCHANGED <<runs, now, cache, ran>>

\* A model that fails, on a vector of another length for one, is an error (InferFails); with an
\* older runner it is a simulated result.
Infers(p) ==
  /\ At(p, "inferring")
  /\ \E r \in {"classified", "simulated"} :
       /\ runs = Mock => r = "simulated"
       /\ r = "classified" => Fits(runs, req[p].n)
       /\ req' = [req EXCEPT ![p].at = "inferred", ![p].result = r]
  /\ UNCHANGED <<runs, now, cache, ran>>

Load(d) ==
  /\ d # runs
  /\ runs' = d
  /\ ran' = [ran EXCEPT ![d] = now + 1]
  /\ UNCHANGED <<now, cache, req>>

Tick ==
  /\ now < MaxTime
  /\ now' = now + 1
  /\ ran' = [ran EXCEPT ![runs] = now' + 1]
  /\ UNCHANGED <<runs, cache, req>>

Next ==
  \/ \E p \in Requests :
       \/ \E n \in Lengths : Infer(p, n) \/ InferCached(p, n)
       \/ RunnerInfo(p)
       \/ Describes(p) \/ Fetched(p) \/ FetchFails(p)
       \/ Infers(p) \/ Answer(p) \/ InferFails(p) \/ Done(p)
  \/ \E d \in Descriptions : Load(d)
  \/ Tick

Spec == Init /\ [][Next]_vars

-----------------------------------------------------------------------------
(* Properties *)

\* The runner ran d when the request began or less than TTL before, or since.
RanLately(p, d) == ran[d] > 0 /\ ran[d] + TTL > req[p].began + 1

\* "cached for INFO_TTL_S (the model only changes on a runner restart)": however fetches
\* overlap, take long or fail, nobody is told that a vector has the wrong length unless the
\* runner ran a model of another length then or less than INFO_TTL_S before, and a simulated
\* result is passed on only if it ran without a model then.
AnswersAreRecent ==
  \A p \in Requests :
    /\ At(p, "wrong") =>
         \E m \in Models \ Unsized : Takes[m] # req[p].n /\ RanLately(p, m)
    /\ At(p, "passed") /\ req[p].result = "simulated" => RanLately(p, Mock)
=============================================================================
