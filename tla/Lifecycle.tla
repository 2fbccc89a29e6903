----------------------------- MODULE Lifecycle -----------------------------
(***************************************************************************)
(* One process from main to its end: cmd/content-rw-elasticsearch/main.go, *)
(* pkg/http/server.go, and Start and Stop of the message handler.          *)
(*                                                                         *)
(* Three goroutines: main, the one of Handler.Start and the one that       *)
(* serves the health endpoints.  Around them: signals, the pod's probe of  *)
(* the port, open health requests, and handlers of the Kafka client.       *)
(* SIGINT and SIGTERM are one signal.                                      *)
(***************************************************************************)
EXTENDS Naturals

CONSTANTS
    TestEndpoint,  \* Elasticsearch is at the default testing endpoint
    MaxRequests    \* bound: health requests open at a time

ASSUME EndpointAssumption == TestEndpoint \in BOOLEAN
ASSUME RequestsAssumption == MaxRequests \in Nat

VARIABLES
    main,       \* where the main goroutine is
    ended,      \* how the process has ended
    starter,    \* where the goroutine of Handler.Start is
    server,     \* where the goroutine of ListenAndServe is
    stopping,   \* Shutdown has been called
    requests,   \* health requests being answered
    overtime,   \* the five seconds of Shutdown's context are over
    notified,   \* signal.Notify has been called
    signalled,  \* a signal waits in the channel, which holds one
    consumer,   \* new, started, closing or closed
    handling    \* handleMessage is at work

vars == <<main, ended, starter, server, stopping, requests, overtime, notified,
          signalled, consumer, handling>>
serverVars == <<server, stopping, requests, overtime>>
signalVars == <<notified, signalled>>
workVars   == <<starter, consumer, handling>>

Running == ended = "no"

(* The main goroutine moves on and touches nothing else.                   *)
MainMoves(from, to) ==
    /\ Running
    /\ main = from
    /\ main' = to

Fatal == ended' = "fatal" /\ UNCHANGED <<serverVars, signalVars, workVars, main>>

-----------------------------------------------------------------------------
Init ==
    /\ main = IF TestEndpoint THEN "config" ELSE "credentials"
    /\ ended = "no"
    /\ starter = "none"
    /\ server = "none"
    /\ stopping = FALSE
    /\ requests = 0
    /\ overtime = FALSE
    /\ notified = FALSE
    /\ signalled = FALSE
    /\ consumer = "none"
    /\ handling = FALSE

(* The AWS session, its credentials, app.yml and the Kafka client: each can *)
(* end the process with log.Fatal.                                         *)
ObtainCredentials ==
    /\ MainMoves("credentials", "config")
    /\ UNCHANGED <<ended, serverVars, signalVars, workVars>>

ParseConfig ==
    /\ MainMoves("config", "consumer")
    /\ UNCHANGED <<ended, serverVars, signalVars, workVars>>

NewConsumer ==
    /\ MainMoves("consumer", "start")
    /\ consumer' = "new"
    /\ UNCHANGED <<ended, serverVars, signalVars, starter, handling>>

StartUpFails ==
    /\ Running
    /\ main \in {"credentials", "config", "consumer"}
    /\ Fatal

(* Handler.Start launches its goroutine; StartServer launches another.     *)
Start ==
    /\ MainMoves("start", "serve")
    /\ starter' = "connecting"
    /\ UNCHANGED <<ended, serverVars, signalVars, consumer, handling>>

StartServer ==
    /\ MainMoves("serve", "notify")
    /\ server' = "starting"
    /\ UNCHANGED <<ended, stopping, requests, overtime, signalVars, workVars>>

Notify ==
    /\ MainMoves("notify", "waiting")
    /\ notified' = TRUE
    /\ UNCHANGED <<ended, serverVars, signalled, workVars>>

(* Shutdown closes the listener and refuses to open another.               *)
Shutdown ==
    /\ MainMoves("waiting", "shutdown")
    /\ signalled
    /\ signalled' = FALSE
    /\ stopping' = TRUE
    /\ UNCHANGED <<ended, server, requests, overtime, notified, workVars>>

ContextExpires ==
    /\ Running
    /\ main = "shutdown"
    /\ overtime' = TRUE
    /\ UNCHANGED <<main, ended, server, stopping, requests, signalVars, workVars>>

(* Mutant: Close is called in place of Shutdown.                            *)
ShutdownHasty ==
    /\ MainMoves("shutdown", "joining")
    /\ UNCHANGED <<ended, serverVars, signalVars, workVars>>

(* Shutdown returns when no request is open, or with the context's error.  *)
ShutdownReturns ==
    /\ MainMoves("shutdown", "joining")
    /\ requests = 0 \/ overtime
    /\ UNCHANGED <<ended, serverVars, signalVars, workVars>>

(* Mutant: Done only after ErrServerClosed.                                *)
JoinClosed ==
    /\ MainMoves("joining", "stop")
    /\ server = "closed"
    /\ UNCHANGED <<ended, serverVars, signalVars, workVars>>

(* wg.Wait: the goroutine of ListenAndServe has returned.                  *)
Join ==
    /\ MainMoves("joining", "stop")
    /\ server \in {"failed", "closed"}
    /\ UNCHANGED <<ended, serverVars, signalVars, workVars>>

Stop ==
    /\ MainMoves("stop", "closing")
    /\ consumer' = "closing"
    /\ UNCHANGED <<ended, serverVars, signalVars, starter, handling>>

(* The error of Close is logged; the client may or may not have waited for *)
(* its handlers.                                                           *)
CloseReturns ==
    /\ MainMoves("closing", "return")
    /\ consumer' = "closed"
    /\ UNCHANGED <<ended, serverVars, signalVars, starter, handling>>

Exit ==
    /\ Running
    /\ main = "return"
    /\ ended' = "clean"
    /\ UNCHANGED <<main, serverVars, signalVars, workVars>>

Main ==
    \/ ObtainCredentials \/ ParseConfig \/ NewConsumer \/ Start \/ StartServer
    \/ Notify \/ Shutdown \/ ShutdownReturns \/ Join \/ Stop \/ Exit

-----------------------------------------------------------------------------
(* The goroutine of Handler.Start.  Nobody tells it that the process is    *)
(* shutting down.                                                          *)

ConnectFails ==
    /\ Running
    /\ starter = "connecting"
    /\ starter' = "sleeping"
    /\ UNCHANGED <<main, ended, serverVars, signalVars, consumer, handling>>

WakeUp ==
    /\ Running
    /\ starter = "sleeping"
    /\ starter' = "connecting"
    /\ UNCHANGED <<main, ended, serverVars, signalVars, consumer, handling>>

(* A consumer that is being closed, or has been, need not consume.         *)
StartConsumer ==
    /\ Running
    /\ starter = "connecting"
    /\ starter' = "consuming"
    /\ consumer' = IF consumer = "new" THEN "started" ELSE consumer
    /\ UNCHANGED <<main, ended, serverVars, signalVars, handling>>

(* The Kafka client calls handleMessage, until it is closed.               *)
Deliver ==
    /\ Running
    /\ starter = "consuming"
    /\ consumer \in {"started", "closing"}
    /\ handling' = TRUE
    /\ UNCHANGED <<main, ended, serverVars, signalVars, starter, consumer>>

HandlerReturns ==
    /\ Running
    /\ handling
    /\ handling' = FALSE
    /\ UNCHANGED <<main, ended, serverVars, signalVars, starter, consumer>>

-----------------------------------------------------------------------------
(* The goroutine of ListenAndServe. *)

Listen ==
    /\ Running
    /\ server = "starting"
    /\ ~stopping
    /\ server' = "listening"
    /\ UNCHANGED <<main, ended, stopping, requests, overtime, signalVars, workVars>>

(* The port cannot be bound: the error is logged, and main waits on.       *)
ListenFails ==
    /\ Running
    /\ server = "starting"
    /\ server' = "failed"
    /\ UNCHANGED <<main, ended, stopping, requests, overtime, signalVars, workVars>>

ServerReturns ==
    /\ Running
    /\ stopping
    /\ server \in {"starting", "listening"}
    /\ server' = "closed"
    /\ UNCHANGED <<main, ended, stopping, requests, overtime, signalVars, workVars>>

Request ==
    /\ Running
    /\ server = "listening"
    /\ ~stopping
    /\ requests < MaxRequests
    /\ requests' = requests + 1
    /\ UNCHANGED <<main, ended, server, stopping, overtime, signalVars, workVars>>

Answer ==
    /\ Running
    /\ requests > 0
    /\ requests' = requests - 1
    /\ UNCHANGED <<main, ended, server, stopping, overtime, signalVars, workVars>>

(* ReadConfigFile ends the process when a health check is the first to miss *)
(* referenceSchema.json.                                                    *)
CheckIsFatal ==
    /\ Running
    /\ requests > 0
    /\ Fatal

-----------------------------------------------------------------------------
(* Kubernetes. *)

(* Before Notify a signal kills the process; after it one signal is kept,  *)
(* and those that find the channel full are dropped.                       *)
Signal ==
    /\ Running
    /\ signalled' = notified
    /\ ended' = IF notified THEN "no" ELSE "killed"
    /\ UNCHANGED <<main, serverVars, notified, workVars>>

(* The liveness probe of the deployment: a port nobody listens on gets the *)
(* container a SIGTERM.                                                     *)
Probe ==
    /\ server # "listening"
    /\ Signal

Kill ==
    /\ Running
    /\ ended' = "killed"
    /\ UNCHANGED <<main, serverVars, signalVars, workVars>>

-----------------------------------------------------------------------------
Next ==
    \/ Main \/ ContextExpires \/ CloseReturns \/ StartUpFails
    \/ ConnectFails \/ WakeUp \/ StartConsumer \/ Deliver \/ HandlerReturns
    \/ Listen \/ ListenFails \/ ServerReturns \/ Request \/ Answer \/ CheckIsFatal
    \/ Signal \/ Probe \/ Kill

Spec == Init /\ [][Next]_vars

(* Goroutines run, timers fire, and Close returns if it finds no handler   *)
(* at work again and again.  Nothing is asked of the handlers, which wait  *)
(* for the Concordances API without a limit, of Elasticsearch, of answers  *)
(* to health requests or of signals, but that a dead port is probed.       *)
Fairness ==
    /\ WF_vars(Main)
    /\ WF_vars(ContextExpires)
    /\ WF_vars(Listen \/ ListenFails \/ ServerReturns)
    /\ SF_vars(~handling /\ CloseReturns)
    /\ WF_vars(Probe)

FairSpec == Spec /\ Fairness

-----------------------------------------------------------------------------
(* Properties. *)

TypeOK ==
    /\ main \in {"credentials", "config", "consumer", "start", "serve", "notify",
                 "waiting", "shutdown", "joining", "stop", "closing", "return"}
    /\ ended \in {"no", "clean", "fatal", "killed"}
    /\ starter \in {"none", "connecting", "sleeping", "consuming"}
    /\ server \in {"none", "starting", "listening", "failed", "closed"}
    /\ stopping \in BOOLEAN
    /\ requests \in 0 .. MaxRequests
    /\ overtime \in BOOLEAN
    /\ notified \in BOOLEAN
    /\ signalled \in BOOLEAN
    /\ consumer \in {"none", "new", "started", "closing", "closed"}
    /\ handling \in BOOLEAN

(* The consumer is closed last: no health request comes in any more, and    *)
(* one that is still open then has been given its five seconds, so that no  *)
(* check asks a closed consumer unless it was hanging.                      *)
ConsumerClosedLast ==
    consumer \in {"closing", "closed"} =>
        /\ server \in {"failed", "closed"}
        /\ requests > 0 => overtime

(* A signal has been noted, or the port was not bound and its probe fails.  *)
Told == signalled \/ (main = "waiting" /\ server = "failed")

(* The handlers come to an end, each of them and all of them together:      *)
(* handleMessage does not wait for ever in mapper.GetConcepts.              *)
HandlersReturn == []<>(~handling \/ ~Running)

(* A process that was told to end gets as far as closing its consumer,      *)
(* whatever hangs: health requests, a port that was never bound, an         *)
(* Elasticsearch that was never reached, handlers.  It ends if the handlers *)
(* return; one that is stuck can keep Close, and main with it, until the    *)
(* process is killed.                                                       *)
EndsWhenTold ==
    /\ Told ~> (main \in {"closing", "return"} \/ ~Running)
    /\ HandlersReturn => (Told ~> ~Running)

=============================================================================
