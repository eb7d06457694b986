------------------------------ MODULE Lifecycle ------------------------------
(***************************************************************************)
(* The life of one auto-mcp process around the services it serves: main    *)
(* (cmd/auto-mcp/main.go), Start, serveHTTP, ServeSTDIO and the end of     *)
(* WatchReloadSignals (internal/server/server.go).                         *)
(*                                                                         *)
(* Five goroutines decide when it ends: main waits for SIGINT or SIGTERM,  *)
(* cancels the context and returns; the goroutine of OnStart serves until  *)
(* the listener fails or the context is done; the listener's own; the      *)
(* reload goroutine of ServiceRegistry; and those of the requests of       *)
(* ServiceRouting.  The process is over as soon as one of them calls       *)
(* os.Exit or main returns, whatever the others are doing.                 *)
(***************************************************************************)
EXTENDS ServiceRouting

VARIABLES
  status,     \* "running", or how the process ended
  stopAsked,  \* SIGINT or SIGTERM has reached fx
  cancelled,  \* OnStop has cancelled appCtx
  watching,   \* the reload goroutine takes SIGHUPs
  serve,      \* where the goroutine of OnStart is in Start
  listener    \* the goroutine that runs ListenAndServe

processVars == <<status, stopAsked, cancelled, watching, serve, listener>>
lifeVars == <<vars, processVars>>

\* Exit status 0, exit status 1, or the default action of a signal.
Ended == {"ended", "failed", "killed"}

(***************************************************************************)
(* The types, and how the parts of one process hang together: a start that *)
(* was refused leaves no process, nothing is served before New returned,   *)
(* and no connection is taken once Shutdown has been called.               *)
(***************************************************************************)
LifecycleTypeOK ==
  /\ TypeOK
  /\ status \in Ended \cup {"running"}
  /\ stopAsked \in BOOLEAN /\ cancelled \in BOOLEAN /\ watching \in BOOLEAN
  /\ serve \in {"none", "select", "pipe", "draining", "done"}
  /\ listener \in {"none", "open", "failed", "closed"}
  /\ stage = "exited" => status = "failed"
  /\ serve # "none" => up /\ (watching \/ cancelled)
  /\ listener = "open" => serve = "select"

LifecycleInit ==
  /\ Init
  /\ status = "running"
  /\ stopAsked = FALSE /\ cancelled = FALSE /\ watching = FALSE
  /\ serve = "none" /\ listener = "none"

running == status = "running"
-----------------------------------------------------------------------------
(***************************************************************************)
(* The registry's goroutine: New in main until it returns, the reload      *)
(* goroutine afterwards.  A start that fails is log.Fatal.                 *)
(***************************************************************************)
RegistryStep ==
  /\ running
  /\ up => watching
  /\ ReloadStep
  /\ status' = IF stage' = "exited" THEN "failed" ELSE status
  /\ UNCHANGED <<clientVars, stopAsked, cancelled, watching, serve, listener>>

\* OnStart: the goroutine asks for SIGHUPs, then serves.
StartServer ==
  /\ running /\ up /\ serve = "none"
  /\ watching' = TRUE
  /\ serve' = IF mode = "stdio" THEN "pipe" ELSE "select"
  /\ UNCHANGED <<vars, status, stopAsked, cancelled, listener>>

\* ListenAndServe cannot bind, or Accept fails later.  It returns at once, and
\* without an error, when Shutdown came first.
Listen ==
  /\ running /\ mode # "stdio"
  /\ \/ serve = "select" /\ listener = "none" /\ listener' \in {"open", "failed"}
     \/ serve = "select" /\ listener = "open" /\ listener' = "failed"
     \/ serve \in {"draining", "done"} /\ listener = "none" /\ listener' = "closed"
  /\ UNCHANGED <<vars, status, stopAsked, cancelled, watching, serve>>

ServeFailsLogged ==    \* mutant: the listener's error is logged and no more
  /\ running /\ serve = "select" /\ listener = "failed"
  /\ serve' = "done"
  /\ UNCHANGED <<vars, status, stopAsked, cancelled, watching, listener>>

\* select: errChan.  Start returns the error and the goroutine calls os.Exit(1).
ServeFails ==
  /\ running /\ serve = "select" /\ listener = "failed"
  /\ status' = "failed"
  /\ UNCHANGED <<vars, stopAsked, cancelled, watching, serve, listener>>

BeginShutdownListening ==    \* mutant: connections are accepted while draining
  /\ running /\ serve = "select" /\ cancelled
  /\ serve' = "draining"
  /\ UNCHANGED <<vars, status, stopAsked, cancelled, watching, listener>>

\* select: ctx.Done.  Shutdown closes the listener and waits for connections.
BeginShutdown ==
  /\ running /\ serve = "select" /\ cancelled
  /\ serve' = "draining"
  /\ listener' = IF listener = "open" THEN "closed" ELSE listener
  /\ UNCHANGED <<vars, status, stopAsked, cancelled, watching>>

\* A connection is busy during a request and while it streams: the one of an
\* SSE session always does, any other session may have a stream.
busy(c) == pc[c] # "idle" \/ (mode = "sse" /\ session[c] # NoServer)
maybeBusy(c) == pc[c] # "idle" \/ session[c] # NoServer

Drained ==
  /\ running /\ serve = "draining" /\ \A c \in Client : ~busy(c)
  /\ serve' = "done"
  /\ UNCHANGED <<vars, status, stopAsked, cancelled, watching, listener>>

\* shutdownTimeout has passed: Shutdown's error ends the process as well.
ShutdownTimesOut ==
  /\ running /\ serve = "draining" /\ \E c \in Client : maybeBusy(c)
  /\ status' = "failed"
  /\ UNCHANGED <<vars, stopAsked, cancelled, watching, serve, listener>>

\* The client closes the pipe: Run returns nil, Start too, and main waits on.
PipeCloses(c) ==
  /\ running /\ serve = "pipe" /\ session[c] # NoServer
  /\ session' = [session EXCEPT ![c] = NoServer]
  /\ serve' = "done"
  /\ UNCHANGED <<registryVars, pc, path, reply, status, stopAsked, cancelled,
                 watching, listener>>

\* The context ends Run, whose error has the goroutine call os.Exit(1).
PipeCancelled ==
  /\ running /\ serve = "pipe" /\ cancelled
  /\ status' = "failed"
  /\ UNCHANGED <<vars, stopAsked, cancelled, watching, serve, listener>>
-----------------------------------------------------------------------------
\* SIGINT or SIGTERM: fx takes them once there is an app to run.
Terminate ==
  /\ running
  /\ IF up THEN stopAsked' = TRUE /\ UNCHANGED status
           ELSE status' = "killed" /\ UNCHANGED stopAsked
  /\ UNCHANGED <<vars, cancelled, watching, serve, listener>>

\* app.Run has its signal: OnStop cancels the context and waits for nobody.
OnStop ==
  /\ running /\ stopAsked /\ ~cancelled
  /\ cancelled' = TRUE
  /\ UNCHANGED <<vars, status, stopAsked, watching, serve, listener>>

MainReturns ==
  /\ running /\ cancelled
  /\ status' = "ended"
  /\ UNCHANGED <<vars, stopAsked, cancelled, watching, serve, listener>>

\* SIGHUP, before signal.Notify or after signal.Stop, ends the process.
HangupSignal ==
  /\ running
  /\ IF watching THEN Hangup /\ UNCHANGED <<clientVars, status>>
                 ELSE status' = "killed" /\ UNCHANGED vars
  /\ UNCHANGED <<stopAsked, cancelled, watching, serve, listener>>

\* The reload goroutine is between two reloads when it looks at the context.
WatcherStops ==
  /\ running /\ watching /\ cancelled /\ stage = "idle"
  /\ watching' = FALSE
  /\ UNCHANGED <<vars, status, stopAsked, cancelled, serve, listener>>

\* Requests come in while the listener is open and are worked off afterwards.
RequestStep(c) ==
  /\ running
  /\ \/ listener = "open" /\ \E name \in Name : Send(c, name)
     \/ ClientStep(c) \/ Disconnect(c)
     \/ serve = "pipe" /\ ServeSTDIO(c)
  /\ UNCHANGED processVars

DiskStep == running /\ EditStep /\ UNCHANGED <<clientVars, processVars>>

Over == ~running /\ UNCHANGED lifeVars

LifecycleNext ==
  \/ RegistryStep \/ StartServer \/ Listen \/ ServeFails
  \/ BeginShutdown \/ Drained \/ ShutdownTimesOut
  \/ PipeCancelled
  \/ Terminate \/ OnStop \/ MainReturns \/ HangupSignal \/ WatcherStops
  \/ \E c \in Client : RequestStep(c) \/ PipeCloses(c)
  \/ DiskStep \/ Over

(***************************************************************************)
(* As in FairSpec the goroutines run on; fx delivers the signal it has     *)
(* taken.  Nobody has to send a signal, and a listener may bind late.      *)
(***************************************************************************)
LifecycleFairness ==
  /\ WF_lifeVars(RegistryStep) /\ WF_lifeVars(StartServer)
  /\ WF_lifeVars(ServeFails \/ BeginShutdown)
  /\ WF_lifeVars(OnStop) /\ WF_lifeVars(MainReturns)
  /\ \A c \in Client :
       /\ WF_lifeVars(running /\ ClientStep(c) /\ UNCHANGED processVars)
       /\ SF_lifeVars(running /\ Open(c) /\ UNCHANGED processVars)

LifecycleSpec == LifecycleInit /\ [][LifecycleNext]_lifeVars /\ LifecycleFairness
-----------------------------------------------------------------------------
(***************************************************************************)
(* No request hangs: however often the registry is locked for a reload,    *)
(* one that was let in is answered, unless the process ends first.         *)
(***************************************************************************)
EveryRequestEnds ==
  \A c \in Client : running /\ pc[c] # "idle" ~> pc[c] = "idle" \/ ~running

(***************************************************************************)
(* No zombie: a process that was asked to stop, or that lost its listener  *)
(* ("returns an error if the server fails to start or encounters an error  *)
(* during operation"), ends, even in the middle of a reload or with        *)
(* requests and streams open.                                              *)
(***************************************************************************)
EndsWhenItMust == stopAsked \/ listener = "failed" ~> ~running
=============================================================================
