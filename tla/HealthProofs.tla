---------------------------- MODULE HealthProofs ----------------------------
(***************************************************************************)
(* What the health endpoints say, for any requests, environments and       *)
(* number of arrivals.                                                     *)
(***************************************************************************)
EXTENDS Health, TLAPS

(* What a check that has begun says of the client: a check that has not    *)
(* been turned away found its type, one that has passed its pointer too.   *)
ClientInv ==
    \A r \in Request, c \in UsesClient :
        /\ result[r][c] \in {"asked", "ok"} => typed
        /\ result[r][c] = "ok" => pointed

(* Checks are run for open requests only, and an answer sums them up.      *)
AnswerInv ==
    \A r \in Request :
        /\ answer[r] = "none" => All(r, {"none"})
        /\ answer[r] = "yes" => All(r, {"ok"})
        /\ answer[r] = "no" => Some(r, {"failed"})

(* The results of a request that began after the last change are those     *)
(* that any request would get now.                                         *)
Failing(c) == ~Passes(c) \/ (c \in UsesClient /\ ~typed)
CurrentInv ==
    \A r \in since : \A c \in Wanted(r) :
        /\ result[r][c] = "ok" => ~Failing(c)
        /\ result[r][c] = "failed" => Failing(c)

IInv == TypeOK /\ ClientInv /\ AnswerInv /\ CurrentInv

-----------------------------------------------------------------------------
LEMMA WantedChecks ==
    ASSUME NEW r \in Request
    PROVE  /\ Wanted(r) \subseteq Check
           /\ "connectivity" \in Wanted(r)
           /\ Endpoint[r] # "details" => Wanted(r) = Check
<1>1. "connectivity" \in Check
  <2>1. 2 \in DOMAIN Checks /\ Checks[2] = "connectivity"
    BY DEF Checks
  <2> QED
    BY <2>1 DEF Check
<1> QED
  BY <1>1 DEF Wanted

LEMMA ClientChecks == UsesClient \subseteq Check
<1>1. /\ 1 \in DOMAIN Checks /\ Checks[1] = "cluster"
      /\ 2 \in DOMAIN Checks /\ Checks[2] = "connectivity"
      /\ 3 \in DOMAIN Checks /\ Checks[3] = "schema"
  BY DEF Checks
<1> QED
  BY <1>1 DEF Check, UsesClient

(* The verdict on a check follows from the client and the neighbours.      *)
LEMMA SameVerdicts ==
    ASSUME UNCHANGED <<typed, env>>, NEW r \in Request, NEW c \in Check
    PROVE  (Failing(c)' <=> Failing(c)) /\ Wanted(r)' = Wanted(r)
<1>1. (Passes(c)' <=> Passes(c)) /\ (typed' <=> typed) /\ UsesClient' = UsesClient
  BY DEF Passes, UsesClient
<1>2. Failing(c)' <=> Failing(c)
  BY <1>1 DEF Failing
<1>3. Wanted(r)' = Wanted(r)
  BY DEF Wanted, Check, Checks
<1> QED
  BY <1>2, <1>3

LEMMA InitInv == Init => IInv
<1> SUFFICES ASSUME Init PROVE IInv
  OBVIOUS
<1>1. TypeOK
  BY DEF Init, TypeOK
<1>2. ClientInv
  BY ClientChecks DEF Init, ClientInv
<1>3. AnswerInv
  BY WantedChecks DEF Init, AnswerInv, All, Some
<1>4. CurrentInv
  BY DEF Init, CurrentInv
<1> QED
  BY <1>1, <1>2, <1>3, <1>4 DEF IInv

(* The result of one check changes, of an open request.                    *)
LEMMA BecomesTyped ==
    ASSUME TypeOK, NEW r \in Request, NEW c \in Check,
           NEW x \in {"none", "asked", "ok", "failed"}, Becomes(r, c, x)
    PROVE  /\ result' \in [Request -> [Check -> {"none", "asked", "ok", "failed"}]]
           /\ \A q \in Request, d \in Check :
                 result'[q][d] = IF q = r /\ d = c THEN x ELSE result[q][d]
  BY DEF Becomes, TypeOK

(* Begin, Ask and Finish.                                                  *)
LEMMA CheckStep ==
    ASSUME IInv, NEW r \in Request, NEW c \in Check,
           Begin(r, c) \/ Ask(r, c) \/ Finish(r, c)
    PROVE  IInv'
<1> DEFINE x == IF Begin(r, c)
                THEN IF ClientIsSet THEN "asked" ELSE WithoutClient
                ELSE IF Passes(c) THEN "ok" ELSE "failed"
<1>1. /\ Becomes(r, c, x) /\ x \in {"none", "asked", "ok", "failed"}
      /\ answer[r] = "open" /\ UNCHANGED <<clientVars, env, answer, alive, since>>
  BY DEF Begin, Ask, Finish, CanBegin, WithoutClient
<1>2. /\ typed' = typed /\ pointed' = pointed /\ env' = env /\ answer' = answer
      /\ alive' = alive /\ since' = since
  BY <1>1 DEF clientVars
<1>3. /\ c \in UsesClient /\ x \in {"asked", "ok"} => typed
      /\ c \in UsesClient /\ x = "ok" => pointed
      /\ x = "ok" => ~Failing(c)
      /\ x = "failed" => Failing(c)
  BY DEF Begin, Ask, Finish, WithoutClient, ClientIsSet, Usable, Failing
<1>4. /\ result' \in [Request -> [Check -> {"none", "asked", "ok", "failed"}]]
      /\ \A q \in Request, d \in Check :
            result'[q][d] = IF q = r /\ d = c THEN x ELSE result[q][d]
  BY <1>1, BecomesTyped DEF IInv
<1> HIDE DEF x
<1>5. TypeOK'
  BY <1>2, <1>4 DEF IInv, TypeOK
<1>6. ClientInv'
  BY <1>2, <1>3, <1>4, ClientChecks DEF IInv, ClientInv
<1>7. AnswerInv'
  <2> SUFFICES ASSUME NEW q \in Request
               PROVE (/\ answer[q] = "none" => All(q, {"none"})
                      /\ answer[q] = "yes" => All(q, {"ok"})
                      /\ answer[q] = "no" => Some(q, {"failed"}))'
    BY DEF AnswerInv
  <2>1. CASE q = r
    BY <2>1, <1>1, <1>2
  <2>2. CASE q # r
    <3>1. \A d \in Wanted(q) : result'[q][d] = result[q][d]
      BY <2>2, <1>4, WantedChecks
    <3>2. Wanted(q)' = Wanted(q)
      BY DEF Wanted, Check, Checks
    <3> QED
      BY <3>1, <3>2, <1>2 DEF IInv, AnswerInv, All, Some
  <2> QED
    BY <2>1, <2>2
<1>8. CurrentInv'
  <2>1. \A d \in Check : Failing(d)' = Failing(d)
    BY <1>2 DEF Failing, Passes, UsesClient
  <2>2. since \subseteq Request /\ \A q \in Request : Wanted(q)' = Wanted(q)
    BY DEF IInv, TypeOK, Wanted, Check, Checks
  <2> QED
    BY <1>2, <1>3, <1>4, <2>1, <2>2, WantedChecks DEF IInv, CurrentInv
<1> QED
  BY <1>5, <1>6, <1>7, <1>8 DEF IInv

(* The answers, and a request that breaks.                                 *)
LEMMA AnswerStep ==
    ASSUME IInv, NEW r \in Request,
           \/ GoodToGo(r) \/ HealthResult(r) \/ HealthDetails(r)
           \/ \E c \in Check : Panic(r, c)
    PROVE  IInv'
<1>1. PICK x \in {"yes", "no", "broken"} :
         /\ answer' = [answer EXCEPT ![r] = x]
         /\ x = "yes" => All(r, {"ok"})
         /\ x = "no" => Some(r, {"failed"})
  BY DEF GoodToGo, HealthResult, HealthDetails, Panic, Answer, All, Some
<1>2. /\ UNCHANGED <<typed, pointed, env, result, since>>
      /\ alive' \in BOOLEAN
  BY DEF GoodToGo, HealthResult, HealthDetails, Panic, Answer, clientVars, IInv, TypeOK
<1>3. /\ answer' \in [Request -> {"none", "open", "yes", "no", "broken"}]
      /\ \A q \in Request : answer'[q] = IF q = r THEN x ELSE answer[q]
  BY <1>1 DEF IInv, TypeOK
<1>4. TypeOK'
  BY <1>2, <1>3 DEF IInv, TypeOK
<1>5. ClientInv' /\ CurrentInv'
  <2>1. since \subseteq Request /\ since' = since /\ result' = result
    BY <1>2 DEF IInv, TypeOK
  <2>2. CurrentInv'
    BY <1>2, <2>1, SameVerdicts, WantedChecks DEF IInv, CurrentInv
  <2>3. ClientInv'
    BY <1>2 DEF IInv, ClientInv, UsesClient
  <2> QED
    BY <2>2, <2>3
<1>6. \A q \in Request : \A s : All(q, s)' = All(q, s) /\ Some(q, s)' = Some(q, s)
  BY <1>2 DEF All, Some, Wanted, Check, Checks
<1>7. AnswerInv'
  BY <1>1, <1>3, <1>6 DEF IInv, AnswerInv
<1> QED
  BY <1>4, <1>5, <1>7 DEF IInv

(* The client, the neighbours, the process, arrivals: no result changes.   *)
LEMMA OutsideStep ==
    ASSUME IInv,
           \/ StoreType \/ StorePointer \/ Change
           \/ \E r \in Request : Arrive(r)
           \/ UNCHANGED vars
    PROVE  IInv'
<1>1. /\ result' = result
      /\ typed => typed'
      /\ pointed => pointed'
  <2>1. CASE StoreType \/ StorePointer
    BY <2>1 DEF StoreType, StorePointer
  <2>2. CASE ~(StoreType \/ StorePointer)
    <3>1. UNCHANGED <<result, typed, pointed>>
      BY <2>2 DEF Change, Arrive, clientVars, vars
    <3> QED
      BY <3>1
  <2> QED
    BY <2>1, <2>2
<1>2. TypeOK'
  BY DEF IInv, TypeOK, StoreType, StorePointer, Change, Arrive,
     clientVars, vars
<1>3. ClientInv'
  BY <1>1 DEF IInv, ClientInv, UsesClient
<1>4. \A q \in Request : \A s : All(q, s)' = All(q, s) /\ Some(q, s)' = Some(q, s)
  BY <1>1 DEF All, Some, Wanted, Check, Checks
<1>5. \A q \in Request : answer'[q] = answer[q] \/ answer'[q] = "open"
  BY DEF IInv, TypeOK, StoreType, StorePointer, Change, Arrive,
     clientVars, vars
<1>6. AnswerInv'
  BY <1>4, <1>5 DEF IInv, AnswerInv
<1>7. CASE since' = {}
  BY <1>7, <1>2, <1>3, <1>6 DEF IInv, CurrentInv
<1>8. CASE UNCHANGED <<typed, env, since>>
  <2>1. since \subseteq Request /\ since' = since
    BY <1>8 DEF IInv, TypeOK
  <2>2. CurrentInv'
    BY <1>8, <1>1, <2>1, SameVerdicts, WantedChecks DEF IInv, CurrentInv
  <2> QED
    BY <2>2, <1>2, <1>3, <1>6 DEF IInv
<1>9. ASSUME NEW r \in Request, Arrive(r) PROVE CurrentInv'
  <2>1. /\ typed' = typed /\ env' = env /\ since' = since \cup {r}
        /\ answer[r] = "none"
    BY <1>9 DEF Arrive, clientVars
  <2>2. \A c \in Wanted(r) : result[r][c] = "none"
    BY <2>1 DEF IInv, AnswerInv, All
  <2>3. \A q \in Request : Wanted(q)' = Wanted(q)
    BY DEF Wanted, Check, Checks
  <2>4. \A c \in Check : Failing(c)' = Failing(c)
    BY <2>1 DEF Failing, Passes, UsesClient
  <2>5. since \subseteq Request
    BY DEF IInv, TypeOK
  <2> QED
    BY <1>1, <2>1, <2>2, <2>3, <2>4, <2>5, WantedChecks DEF IInv, CurrentInv
<1> QED
  BY <1>2, <1>3, <1>6, <1>7, <1>8, <1>9
  DEF IInv, StoreType, StorePointer, Change, clientVars, vars

(* The inductive invariant holds throughout.                               *)
THEOREM Invariance == Spec => []IInv
<1>1. IInv /\ [Next]_vars => IInv'
  BY CheckStep, AnswerStep, OutsideStep DEF Next, Serve
<1> QED
  BY InitInv, <1>1, PTL DEF Spec

(* Every variable has its type.                                            *)
THEOREM TypeCorrect == Spec => []TypeOK
<1>1. IInv => TypeOK
  BY DEF IInv
<1> QED
  BY Invariance, <1>1, PTL

(* No endpoint says yes before the whole client is stored: each asks for    *)
(* the connectivity at least.                                              *)
THEOREM HealthyHasClient == Spec => []HealthyMeansClient
<1>1. IInv => HealthyMeansClient
  <2> SUFFICES ASSUME IInv, NEW r \in Request, answer[r] = "yes"
               PROVE typed /\ pointed
    BY DEF HealthyMeansClient
  <2>1. result[r]["connectivity"] = "ok"
    BY WantedChecks DEF IInv, AnswerInv, All
  <2> QED
    BY <2>1 DEF IInv, ClientInv, UsesClient
<1> QED
  BY Invariance, <1>1, PTL

(* /__gtg and /__health agree unless something changed between them.        *)
THEOREM EndpointsDoAgree == Spec => []EndpointsAgree
<1>1. IInv => EndpointsAgree
  <2> SUFFICES ASSUME IInv, NEW g \in since, NEW h \in since,
                      Endpoint[g] = "gtg", Endpoint[h] = "health",
                      {answer[g], answer[h]} \subseteq {"yes", "no"}
               PROVE  answer[g] = answer[h]
    BY DEF EndpointsAgree
  <2>1. g \in Request /\ h \in Request
    BY DEF IInv, TypeOK
  <2>2. Wanted(g) = Check /\ Wanted(h) = Check
    BY <2>1, WantedChecks
  <2>3. \A r \in {g, h} :
           /\ answer[r] = "yes" => \A c \in Check : ~Failing(c)
           /\ answer[r] = "no" => \E c \in Check : Failing(c)
    BY <2>1, <2>2 DEF IInv, AnswerInv, CurrentInv, All, Some
  <2> QED
    BY <2>3
<1> QED
  BY Invariance, <1>1, PTL

(* A request or the process breaks only in the moment between the two words *)
(* of the client (service.go:44-49).                                        *)
THEOREM OnlyTornClientBreaks == Spec => BrokenOnlyByTornClient
<1> DEFINE Breaks == alive' # alive \/ \E r \in Request : answer'[r] = "broken" /\ answer[r] # "broken"
<1>1. IInv /\ [Next]_vars => (Breaks => typed /\ ~pointed)
  <2> SUFFICES ASSUME IInv, [Next]_vars, Breaks PROVE typed /\ ~pointed
    OBVIOUS
  <2>1. PICK r \in Request, c \in Check : Panic(r, c)
    <3>1. CASE StoreType \/ StorePointer \/ Change \/ UNCHANGED vars
      BY <3>1 DEF StoreType, StorePointer, Change, clientVars, vars
    <3>2. ASSUME NEW r \in Request,
                 Arrive(r) \/ GoodToGo(r) \/ HealthResult(r) \/ HealthDetails(r)
          PROVE  FALSE
      <4>1. PICK x \in {"open", "yes", "no"} :
               answer' = [answer EXCEPT ![r] = x] /\ alive' = alive
        BY <3>2 DEF Arrive, GoodToGo, HealthResult, HealthDetails, Answer
      <4> QED
        BY <4>1 DEF IInv, TypeOK
    <3>3. ASSUME NEW r \in Request, NEW c \in Check, Begin(r, c) \/ Ask(r, c) \/ Finish(r, c)
          PROVE  FALSE
      BY <3>3 DEF Begin, Ask, Finish
    <3> QED
      BY <3>1, <3>2, <3>3 DEF Next, Serve
  <2> QED
    BY <2>1 DEF Panic, IInv, ClientInv, Usable
<1> QED
  BY Invariance, <1>1, PTL DEF BrokenOnlyByTornClient, Spec

=============================================================================
