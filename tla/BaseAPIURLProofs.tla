-------------------------- MODULE BaseAPIURLProofs --------------------------
(***************************************************************************)
(* What holds of BaseAPIURL for any number of handlers and documents, and  *)
(* when the race is harmless.                                              *)
(***************************************************************************)
EXTENDS BaseAPIURL, TLAPS

Handling == {"replace", "assign", "bytes", "length"}

(* A handler past Replace has an https URL in hand, and no bytes of a plain *)
(* http URL are left behind by one that has stored them.                    *)
SecuredArg ==
    \A h \in Handler :
        /\ pc[h] \in {"assign", "bytes", "length"} => arg[h].bytes > 0
        /\ pc[h] \in {"length", "populate"} => bytes > 0

Bounded == \A h \in Handler : pc[h] # "check" => mapped[h] < MaxDocuments

URLInv == TypeOK /\ NeverPlainHttp /\ SecuredArg /\ Bounded

LEMMA URLInvInit == Init => URLInv
  BY ConfiguredAssumption, MaxDocumentsAssumption
     DEF Init, URLInv, TypeOK, NeverPlainHttp, SecuredArg, Bounded, URL, BaseURL

LEMMA URLInvNext == URLInv /\ [Next]_vars => URLInv'
  <1> SUFFICES ASSUME URLInv, [Next]_vars PROVE URLInv'
    OBVIOUS
  <1> USE DEF URLInv, TypeOK, NeverPlainHttp, SecuredArg, Bounded, URL, BaseURL
  <1>1. CASE UNCHANGED vars
    BY <1>1 DEF vars
  <1>2. ASSUME NEW h \in Handler, Check(h) PROVE URLInv'
    BY <1>2, MaxDocumentsAssumption DEF Check, HasHttpPrefix
  <1>3. ASSUME NEW h \in Handler, Replace(h) PROVE URLInv'
    <2>1. PICK u \in {arg[h], BaseURL} : arg' = [arg EXCEPT ![h] = Secured(u)]
      BY <1>3 DEF Replace
    <2>2. u \in URL
      BY <2>1
    <2>3. Secured(u) \in URL /\ Secured(u).bytes > 0
      BY <2>2 DEF Secured
    <2>4. QED
      BY <1>3, <2>1, <2>3 DEF Replace
  <1>4. ASSUME NEW h \in Handler, Assign(h) PROVE URLInv'
    BY <1>4 DEF Assign
  <1>5. ASSUME NEW h \in Handler, AssignOther(h) PROVE URLInv'
    BY <1>5 DEF AssignOther
  <1>6. ASSUME NEW h \in Handler, Populate(h) PROVE URLInv'
    <2>1. mapped[h] + 1 \in 0 .. MaxDocuments /\ bytes > 0
      BY <1>6, MaxDocumentsAssumption DEF Populate
    <2>2. QED
      BY <1>6, <2>1 DEF Populate
  <1>7. QED
    BY <1>1, <1>2, <1>3, <1>4, <1>5, <1>6 DEF Next, ToIndexModel

(* Every variable has its type (mapper.go:30-57).                           *)
THEOREM TypeCorrect == Spec => []TypeOK
  <1>1. URLInv => TypeOK
    BY DEF URLInv
  <1>2. QED
    BY <1>1, URLInvInit, URLInvNext, PTL DEF Spec

(* However many handlers share BaseAPIURL (mapper.go:54-57), a document     *)
(* never gets the bytes of a plain http URL.                                *)
THEOREM NeverPlain == Spec => []NeverPlainHttp
  <1>1. URLInv => NeverPlainHttp
    BY DEF URLInv
  <1>2. QED
    BY <1>1, URLInvInit, URLInvNext, PTL DEF Spec

-----------------------------------------------------------------------------
(* An https base URL: nobody ever writes the field.                        *)
Untouched ==
    configured = 1 =>
        /\ BaseURL = Https
        /\ \A h \in Handler : pc[h] \notin Handling
        /\ EveryDocumentHttps

(* With an https base URL, as by default (main.go), all documents get it,   *)
(* however many handlers there are.                                         *)
THEOREM HttpsIsSafe == Spec => []HttpsIsKept
  <1>1. Init => Untouched
    BY DEF Init, Untouched, BaseURL, Https, Handling, EveryDocumentHttps
  <1>2. TypeOK /\ Untouched /\ [Next]_vars => Untouched'
    <2> SUFFICES ASSUME TypeOK, Untouched, [Next]_vars PROVE Untouched'
      OBVIOUS
    <2> USE DEF Untouched, Handling, BaseURL, Https, EveryDocumentHttps
    <2>1. CASE UNCHANGED vars
      BY <2>1 DEF vars
    <2>2. ASSUME NEW h \in Handler, Check(h) PROVE Untouched'
      BY <2>2 DEF Check, HasHttpPrefix, TypeOK
    <2>3. ASSUME NEW h \in Handler, Populate(h) PROVE Untouched'
      BY <2>3 DEF Populate, TypeOK
    <2>4. QED
      BY <2>1, <2>2, <2>3 DEF Next, ToIndexModel, Replace, Assign, AssignOther
  <1>3. Untouched => HttpsIsKept
    BY DEF Untouched, HttpsIsKept
  <1>4. URLInv => TypeOK
    BY DEF URLInv
  <1>5. QED
    BY <1>1, <1>2, <1>3, <1>4, URLInvInit, URLInvNext, PTL DEF Spec

-----------------------------------------------------------------------------
(* A handler on its own goes through the rewrite step by step.             *)
Alone ==
    /\ EveryDocumentHttps
    /\ \A h \in Handler :
          /\ pc[h] = "check" => BaseURL = Https \/ (bytes = 0 /\ length = 0)
          /\ pc[h] \in {"replace", "assign"} => bytes = 0 /\ length = 0
          /\ pc[h] = "replace" => arg[h] = BaseURL
          /\ pc[h] \in {"assign", "bytes", "length"} => arg[h] = Https
          /\ pc[h] = "bytes" => length = 1
          /\ pc[h] = "length" => bytes = 1
          /\ pc[h] = "populate" => BaseURL = Https

(* With any base URL and one handler at a time the rewrite is right: it is  *)
(* sharing the mapper between handlers that breaks it (mapper.go:54-55).    *)
THEOREM AloneIsSafe ==
    ASSUME \A g, h \in Handler : g = h
    PROVE  Spec => []EveryDocumentHttps
  <1>1. Init => Alone
    BY ConfiguredAssumption DEF Init, Alone, BaseURL, Https, EveryDocumentHttps
  <1>2. TypeOK /\ Alone /\ [Next]_vars => Alone'
    <2> SUFFICES ASSUME TypeOK, Alone, [Next]_vars PROVE Alone'
      OBVIOUS
    <2> USE DEF Alone, TypeOK, BaseURL, Https, EveryDocumentHttps
    <2>1. CASE UNCHANGED vars
      BY <2>1 DEF vars
    <2>2. ASSUME NEW h \in Handler, Check(h) PROVE Alone'
      BY <2>2 DEF Check, HasHttpPrefix
    <2>3. ASSUME NEW h \in Handler, Replace(h) PROVE Alone'
      BY <2>3 DEF Replace, Secured
    <2>4. ASSUME NEW h \in Handler, Assign(h) PROVE Alone'
      BY <2>4 DEF Assign
    <2>5. ASSUME NEW h \in Handler, AssignOther(h) PROVE Alone'
      BY <2>5 DEF AssignOther
    <2>6. ASSUME NEW h \in Handler, Populate(h) PROVE Alone'
      BY <2>6 DEF Populate
    <2>7. QED
      BY <2>1, <2>2, <2>3, <2>4, <2>5, <2>6 DEF Next, ToIndexModel
  <1>3. Alone => EveryDocumentHttps
    BY DEF Alone
  <1>4. URLInv => TypeOK
    BY DEF URLInv
  <1>5. QED
    BY <1>1, <1>2, <1>3, <1>4, URLInvInit, URLInvNext, PTL DEF Spec

=============================================================================
