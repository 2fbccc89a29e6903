------------------------------- MODULE Health -------------------------------
(***************************************************************************)
(* The health endpoints (pkg/health/healthcheck.go) while the goroutine of *)
(* Handler.Start is still looking for Elasticsearch.  /__gtg runs the      *)
(* checks one by one up to the first that fails, /__health runs all of     *)
(* them, /__health-details asks for the cluster's health alone.            *)
(*                                                                         *)
(* GetClusterHealth and GetSchemaHealth read ElasticClient without the     *)
(* mutex under which SetClient writes it.  An interface value is two words *)
(* that are written one after the other: the type, which the comparison    *)
(* with nil looks at, and the pointer, which the call follows.             *)
(*                                                                         *)
(* Every request to Elasticsearch has a context of five seconds; the calls *)
(* of the Kafka client and the request to the Concordances API have none,  *)
(* nor has the HTTP client a timeout.                                      *)
(*                                                                         *)
(* GetSchemaHealth is taken here with calls that do not overlap on the     *)
(* reference and with a reference file that can be read; SchemaHealth is   *)
(* about the others.                                                       *)
(***************************************************************************)
EXTENDS Naturals, Sequences, FiniteSets

CONSTANTS
    Request,          \* health requests
    Endpoint,         \* the endpoint of each
    Environments,     \* the states of the neighbours that are considered
    MaxArrivals       \* bound: requests that are made

Endpoints == {"gtg", "health", "details"}

(* What a check can find around it.                                        *)
Environment ==
    [elasticsearch : {"green", "red", "mismatch", "silent"},
     kafka         : {"fine", "lagging", "away", "silent"},
     concordances  : {"up", "down", "silent"}]

ASSUME EndpointAssumption == Endpoint \in [Request -> Endpoints]
ASSUME EnvironmentsAssumption == Environments \subseteq Environment
ASSUME ArrivalsAssumption == MaxArrivals \in Nat

VARIABLES
    typed,       \* the first word of ElasticClient is written
    pointed,     \* the second word is
    env,         \* the neighbours
    result,      \* per request and check: how far it is
    answer,      \* what the client of each request has got
    alive,       \* the process runs
    since        \* history: requests that began after env last changed

vars == <<typed, pointed, env, result, answer, alive, since>>
clientVars == <<typed, pointed>>

(* NewHealthService. *)
Checks == <<"cluster", "connectivity", "schema", "kafka", "lag", "concordances">>
Check  == {Checks[k] : k \in DOMAIN Checks}
UsesClient == {"cluster", "connectivity", "schema"}

(* Mutant: /__gtg leaves out the checks of Elasticsearch.                  *)
WantedNearby(r) ==
    CASE Endpoint[r] = "details" -> {"connectivity"}
      [] Endpoint[r] = "gtg"     -> Check \ UsesClient
      [] OTHER                   -> Check

(* The checks an endpoint runs.                                            *)
Wanted(r) == IF Endpoint[r] = "details" THEN {"connectivity"} ELSE Check

-----------------------------------------------------------------------------
(* The verdicts of the checks. *)

(* Mutant: a client that was never set is asked all the same.              *)
ClientNeverNil == TRUE

ClientIsSet == typed      \* ElasticClient # nil

Usable == typed /\ pointed

(* Mutant: no client is no error.                                          *)
NilIsNoError == "ok"

WithoutClient == "failed"

Passes(c) ==
    CASE c = "cluster"      -> env.elasticsearch \in {"green", "mismatch"}
      [] c = "connectivity" -> env.elasticsearch # "silent"
      [] c = "schema"       -> env.elasticsearch \in {"green", "red"}
      [] c = "kafka"        -> env.kafka \in {"fine", "lagging"}
      [] c = "lag"          -> env.kafka = "fine"
      [] c = "concordances" -> env.concordances = "up"

(* Who a check waits for.                                                  *)
Silent(c) ==
    \/ c \in UsesClient /\ env.elasticsearch = "silent"
    \/ c \in {"kafka", "lag"} /\ env.kafka = "silent"
    \/ c = "concordances" /\ env.concordances = "silent"

(* Mutant: the requests to Elasticsearch get context.Background().         *)
AnswersWithoutTimeout(c) == ~Silent(c)

(* A check comes back: with an answer, or at its timeout if it has one,    *)
(* which the checks of Elasticsearch do.                                   *)
ComesBack(c) == c \in UsesClient \/ ~Silent(c)

-----------------------------------------------------------------------------
Init ==
    /\ typed = FALSE
    /\ pointed = FALSE
    /\ env \in Environments
    /\ result = [r \in Request |-> [c \in Check |-> "none"]]
    /\ answer = [r \in Request |-> "none"]
    /\ alive = TRUE
    /\ since = {}

(* SetClient stores the words in an order the compiler chooses.            *)
StoreType ==
    /\ alive /\ ~typed
    /\ typed' = TRUE
    /\ since' = {}
    /\ UNCHANGED <<pointed, env, result, answer, alive>>

StorePointer ==
    /\ alive /\ ~pointed
    /\ pointed' = TRUE
    /\ since' = {}
    /\ UNCHANGED <<typed, env, result, answer, alive>>

Change ==
    /\ env' \in Environments \ {env}
    /\ since' = {}
    /\ UNCHANGED <<clientVars, result, answer, alive>>

Arrive(r) ==
    /\ alive
    /\ answer[r] = "none"
    /\ Cardinality({q \in Request : answer[q] # "none"}) < MaxArrivals
    /\ answer' = [answer EXCEPT ![r] = "open"]
    /\ since' = since \cup {r}
    /\ UNCHANGED <<clientVars, env, result, alive>>

-----------------------------------------------------------------------------
Becomes(r, c, x) == result' = [result EXCEPT ![r][c] = x]

(* gtgCheck: the checks before c have passed.                              *)
PassedBefore(r, c) ==
    \E k \in DOMAIN Checks :
        /\ Checks[k] = c
        /\ \A n \in 1 .. k - 1 : Checks[n] \in Wanted(r) => result[r][Checks[n]] = "ok"

CanBegin(r, c) ==
    /\ alive
    /\ answer[r] = "open"
    /\ c \in Wanted(r)
    /\ result[r][c] = "none"
    /\ Endpoint[r] = "gtg" => PassedBefore(r, c)

(* Up to the comparison of the client with nil.                            *)
Begin(r, c) ==
    /\ c \in UsesClient
    /\ CanBegin(r, c)
    /\ Becomes(r, c, IF ClientIsSet THEN "asked" ELSE WithoutClient)
    /\ UNCHANGED <<clientVars, env, answer, alive, since>>

(* The checks of Kafka and of the Concordances API, for which the client    *)
(* does not matter.                                                        *)
Ask(r, c) ==
    /\ c \notin UsesClient
    /\ CanBegin(r, c)
    /\ ComesBack(c)
    /\ Becomes(r, c, IF Passes(c) THEN "ok" ELSE "failed")
    /\ UNCHANGED <<clientVars, env, answer, alive, since>>

(* A silent Elasticsearch fails its checks at their timeout.               *)
Finish(r, c) ==
    /\ alive
    /\ answer[r] = "open"
    /\ c \in UsesClient
    /\ result[r][c] = "asked"
    /\ Usable
    /\ ComesBack(c)
    /\ Becomes(r, c, IF Passes(c) THEN "ok" ELSE "failed")
    /\ UNCHANGED <<clientVars, env, answer, alive, since>>

(* The pointer is followed before it is written.  net/http recovers from a *)
(* panic in its own goroutine and closes the connection; the library       *)
(* behind /__health may run its checks in others.                          *)
Panic(r, c) ==
    /\ alive
    /\ answer[r] = "open"
    /\ c \in UsesClient
    /\ result[r][c] = "asked"
    /\ ~Usable
    /\ answer' = [answer EXCEPT ![r] = "broken"]
    /\ alive' \in (IF Endpoint[r] = "health" THEN BOOLEAN ELSE {TRUE})
    /\ UNCHANGED <<clientVars, env, result, since>>

-----------------------------------------------------------------------------
(* The answers. *)

All(r, x)  == \A c \in Wanted(r) : result[r][c] \in x
Some(r, x) == \E c \in Wanted(r) : result[r][c] \in x

Answer(r, x) ==
    /\ alive
    /\ answer[r] = "open"
    /\ answer' = [answer EXCEPT ![r] = x]
    /\ UNCHANGED <<clientVars, env, result, alive, since>>

(* 200 or 503. *)
GoodToGo(r) ==
    /\ Endpoint[r] = "gtg"
    /\ \/ All(r, {"ok"}) /\ Answer(r, "yes")
       \/ Some(r, {"failed"}) /\ Answer(r, "no")

(* 200, with the property ok set or not. *)
HealthResult(r) ==
    /\ Endpoint[r] = "health"
    /\ All(r, {"ok", "failed"})
    /\ Answer(r, IF Some(r, {"failed"}) THEN "no" ELSE "yes")

(* 200 with the cluster's health, or 500. *)
HealthDetails(r) ==
    /\ Endpoint[r] = "details"
    /\ All(r, {"ok", "failed"})
    /\ Answer(r, IF Some(r, {"failed"}) THEN "no" ELSE "yes")

Serve(r) ==
    \/ GoodToGo(r) \/ HealthResult(r) \/ HealthDetails(r)
    \/ \E c \in Check : Begin(r, c) \/ Ask(r, c) \/ Finish(r, c) \/ Panic(r, c)

Next ==
    \/ StoreType \/ StorePointer \/ Change
    \/ \E r \in Request : Arrive(r) \/ Serve(r)

Spec == Init /\ [][Next]_vars

(* The goroutine of a request runs; timers fire.  Nothing is asked of the  *)
(* neighbours.                                                             *)
FairSpec == Spec /\ \A r \in Request : WF_vars(Serve(r))

(* From some point on the neighbours that are waited for without a limit   *)
(* answer, well or badly.                                                  *)
NeighboursAnswer ==
    <>[](env.kafka # "silent" /\ env.concordances # "silent")

-----------------------------------------------------------------------------
(* Properties. *)

TypeOK ==
    /\ typed \in BOOLEAN /\ pointed \in BOOLEAN
    /\ env \in Environments
    /\ result \in [Request -> [Check -> {"none", "asked", "ok", "failed"}]]
    /\ answer \in [Request -> {"none", "open", "yes", "no", "broken"}]
    /\ alive \in BOOLEAN
    /\ since \subseteq Request

(* Nobody is told that the service is good to go, or healthy, before        *)
(* SetClient has stored the whole client.                                  *)
HealthyMeansClient ==
    \A r \in Request : answer[r] = "yes" => typed /\ pointed

(* /__gtg answers 200 exactly when /__health says ok: the two can only      *)
(* differ when something changed between them.                             *)
EndpointsAgree ==
    \A g, h \in since :
        /\ Endpoint[g] = "gtg" /\ Endpoint[h] = "health"
        /\ {answer[g], answer[h]} \subseteq {"yes", "no"}
        => answer[g] = answer[h]

(* Only a client caught half written breaks a request, or the process:      *)
(* before SetClient and after it every check answers.                      *)
BrokenOnlyByTornClient ==
    [][(alive' # alive \/ \E r \in Request : answer'[r] = "broken" /\ answer[r] # "broken")
       => typed /\ ~pointed]_vars

(* In the end no request is left unanswered, whatever Elasticsearch does,   *)
(* as long as Kafka and the Concordances API answer.                        *)
RequestsAnswered ==
    NeighboursAnswer =>
        <>[](alive => \A r \in Request : answer[r] # "open")

=============================================================================
