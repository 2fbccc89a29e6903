--------------------------- MODULE LifecycleProofs ---------------------------
(***************************************************************************)
(* The order in which a process shuts down, for any number of open health  *)
(* requests.  Whether it ends is a matter of fairness and left to TLC.     *)
(***************************************************************************)
EXTENDS Lifecycle, TLAPS

(* Shutdown has been called.                                               *)
Past == {"shutdown", "joining", "stop", "closing", "return"}

(* wg.Wait has returned.                                                   *)
Joined == {"stop", "closing", "return"}

(* The main goroutine goes through the shutdown in order, and what it has  *)
(* waited for stays so: no request is accepted once Shutdown is called,    *)
(* the context stays expired, the server does not come back.               *)
StoppingInv == main \in Past => stopping
DrainedInv  == main \in Past \ {"shutdown"} => (requests > 0 => overtime)
JoinedInv   == main \in Joined => server \in {"failed", "closed"}
ConsumerInv == consumer \in {"closing", "closed"} => main \in {"closing", "return"}

IInv == TypeOK /\ StoppingInv /\ DrainedInv /\ JoinedInv /\ ConsumerInv

LEMMA InitInv == Init => IInv
<1> SUFFICES ASSUME Init PROVE IInv
  OBVIOUS
<1>1. main \in {"credentials", "config"}
  BY DEF Init
<1>2. requests \in 0 .. MaxRequests
  BY RequestsAssumption DEF Init
<1> QED
  BY <1>1, <1>2
  DEF Init, IInv, TypeOK, StoppingInv, DrainedInv, JoinedInv, ConsumerInv, Past, Joined

LEMMA TypeStep == TypeOK /\ [Next]_vars => TypeOK'
<1> SUFFICES ASSUME TypeOK, [Next]_vars PROVE TypeOK'
  OBVIOUS
<1> USE DEF TypeOK, MainMoves, Running
<1>1. CASE Main
  BY <1>1 DEF Main, ObtainCredentials, ParseConfig, NewConsumer, Start, StartServer,
     Notify, Shutdown, ShutdownReturns, Join, Stop, Exit, serverVars, signalVars, workVars
<1>2. CASE ContextExpires \/ CloseReturns \/ StartUpFails \/ CheckIsFatal
  BY <1>2 DEF ContextExpires, CloseReturns, StartUpFails, CheckIsFatal, Fatal,
     serverVars, signalVars, workVars
<1>3. CASE ConnectFails \/ WakeUp \/ StartConsumer \/ Deliver \/ HandlerReturns
  BY <1>3 DEF ConnectFails, WakeUp, StartConsumer, Deliver, HandlerReturns,
     serverVars, signalVars
<1>4. CASE Listen \/ ListenFails \/ ServerReturns
  BY <1>4 DEF Listen, ListenFails, ServerReturns, signalVars, workVars
<1>5. CASE Request \/ Answer
  BY <1>5, RequestsAssumption DEF Request, Answer, signalVars, workVars
<1>6. CASE Signal \/ Probe \/ Kill
  BY <1>6 DEF Signal, Probe, Kill, serverVars, signalVars, workVars
<1>7. CASE UNCHANGED vars
  BY <1>7 DEF vars
<1> QED
  BY <1>1, <1>2, <1>3, <1>4, <1>5, <1>6, <1>7 DEF Next

(* Main's own steps: each phase of the shutdown finds what the next needs.  *)
LEMMA MainStep == IInv /\ Main => (StoppingInv /\ DrainedInv /\ JoinedInv /\ ConsumerInv)'
<1> SUFFICES ASSUME IInv, Main
             PROVE (StoppingInv /\ DrainedInv /\ JoinedInv /\ ConsumerInv)'
  OBVIOUS
<1> USE DEF IInv, TypeOK, StoppingInv, DrainedInv, JoinedInv, ConsumerInv, Past, Joined,
        MainMoves, Running, serverVars, signalVars, workVars
<1>1. CASE ObtainCredentials \/ ParseConfig \/ NewConsumer \/ Start \/ StartServer \/ Notify
  BY <1>1 DEF ObtainCredentials, ParseConfig, NewConsumer, Start, StartServer, Notify
<1>2. CASE Shutdown
  BY <1>2 DEF Shutdown
<1>3. CASE ShutdownReturns
  BY <1>3 DEF ShutdownReturns
<1>4. CASE Join
  BY <1>4 DEF Join
<1>5. CASE Stop \/ Exit
  BY <1>5 DEF Stop, Exit
<1> QED
  BY <1>1, <1>2, <1>3, <1>4, <1>5 DEF Main

(* Everybody else: nothing main has waited for is undone.                  *)
LEMMA OtherStep ==
    IInv /\ [Next]_vars /\ ~Main => (StoppingInv /\ DrainedInv /\ JoinedInv /\ ConsumerInv)'
<1> SUFFICES ASSUME IInv, [Next]_vars, ~Main
             PROVE (StoppingInv /\ DrainedInv /\ JoinedInv /\ ConsumerInv)'
  OBVIOUS
<1> USE DEF IInv, TypeOK, StoppingInv, DrainedInv, JoinedInv, ConsumerInv, Past, Joined,
        MainMoves, Running, serverVars, signalVars, workVars
<1>1. CASE ContextExpires \/ CloseReturns \/ StartUpFails \/ CheckIsFatal
  BY <1>1 DEF ContextExpires, CloseReturns, StartUpFails, CheckIsFatal, Fatal
<1>2. CASE ConnectFails \/ WakeUp \/ StartConsumer \/ Deliver \/ HandlerReturns
  BY <1>2 DEF ConnectFails, WakeUp, StartConsumer, Deliver, HandlerReturns
<1>3. CASE Listen \/ ListenFails \/ ServerReturns
  BY <1>3 DEF Listen, ListenFails, ServerReturns
<1>4. CASE Request \/ Answer
  BY <1>4 DEF Request, Answer
<1>5. CASE Signal \/ Probe \/ Kill
  BY <1>5 DEF Signal, Probe, Kill
<1>6. CASE UNCHANGED vars
  BY <1>6 DEF vars
<1> QED
  BY <1>1, <1>2, <1>3, <1>4, <1>5, <1>6 DEF Next

(* The inductive invariant holds throughout.                               *)
THEOREM Invariance == Spec => []IInv
<1>1. IInv /\ [Next]_vars => IInv'
  BY TypeStep, MainStep, OtherStep DEF IInv
<1> QED
  BY InitInv, <1>1, PTL DEF Spec

(* Every variable has its type, however many health requests may be open.  *)
THEOREM TypeCorrect == Spec => []TypeOK
<1>1. IInv => TypeOK
  BY DEF IInv
<1> QED
  BY Invariance, <1>1, PTL

(* The consumer is closed after the server, and no health request is open   *)
(* then that has not had its five seconds.                                  *)
THEOREM ClosedLast == Spec => []ConsumerClosedLast
<1>1. IInv => ConsumerClosedLast
  BY DEF IInv, JoinedInv, DrainedInv, ConsumerInv, ConsumerClosedLast, Past, Joined
<1> QED
  BY Invariance, <1>1, PTL

=============================================================================
