--------------------------- MODULE LifecycleProofs ---------------------------
(***************************************************************************)
(* What holds of a process from its start to its end, for every number of  *)
(* services, clients, edits, reloads and signals.  A step of the process   *)
(* is a step of ServiceRouting, or leaves its variables alone, or closes   *)
(* the pipe, so the invariant of the registry goes over to Lifecycle.      *)
(***************************************************************************)
EXTENDS Lifecycle, ServiceRegistryProofs

USE DEF Stage, locked

ProcessOK ==
  /\ status \in Ended \cup {"running"}
  /\ stopAsked \in BOOLEAN /\ cancelled \in BOOLEAN /\ watching \in BOOLEAN
  /\ serve \in {"none", "select", "pipe", "draining", "done"}
  /\ listener \in {"none", "open", "failed", "closed"}
  /\ stage = "exited" => status = "failed"
  /\ serve # "none" => up /\ (watching \/ cancelled)
  /\ listener = "open" => serve = "select"

LifeInv == IInv /\ ProcessOK

\* Every action is of one of three kinds for the services.
LEMMA StepKinds ==
  ASSUME LifecycleNext
  PROVE  [Next]_vars \/ \E c \in Client : PipeCloses(c)
<1>1. CASE RegistryStep \/ HangupSignal \/ DiskStep
  BY <1>1 DEF RegistryStep, HangupSignal, DiskStep, Next, RegistryNext
<1>2. ASSUME NEW c \in Client, RequestStep(c) PROVE [Next]_vars
  BY <1>2 DEF RequestStep, Next
<1>3. CASE \/ StartServer \/ Listen \/ ServeFails \/ BeginShutdown \/ Drained
           \/ ShutdownTimesOut \/ PipeCancelled \/ Terminate \/ OnStop \/ MainReturns
           \/ WatcherStops \/ Over
  BY <1>3 DEF StartServer, Listen, ServeFails, BeginShutdown, Drained, ShutdownTimesOut,
              PipeCancelled, Terminate, OnStop, MainReturns, WatcherStops, Over, lifeVars
<1> QED BY <1>1, <1>2, <1>3 DEF LifecycleNext

\* The pipe that closes takes its session along and nothing else.
LEMMA PipeCloseKeeps ==
  ASSUME IInv, NEW c \in Client, PipeCloses(c)
  PROVE  IInv'
<1>1. UNCHANGED registryVars /\ pc' = pc /\ path' = path /\ reply' = reply
  BY DEF PipeCloses
<1>2. session' \in [Client -> Server \cup {NoServer}]
  BY DEF PipeCloses, IInv, TypeInv, TypeOK
<1>3. TypeInv'
  BY <1>1, <1>2 DEF IInv, TypeInv, TypeOK, RegistryTypeOK, SourcesTypeOK, PhaseOK, registryVars,
                    sourceVars, reloadVars, publicVars, Server
<1>4. BookInv'
  BY <1>1, BookStutter DEF IInv, registryVars, reloadVars
<1> QED BY <1>3, <1>4 DEF IInv

\* No step changes the stage or up but those of the registry.
LEMMA ProcessStep ==
  ASSUME ProcessOK, IInv, LifecycleNext
  PROVE  ProcessOK'
<1> USE DEF ProcessOK, running, Ended
<1>1. CASE RegistryStep
  <2>1. /\ UNCHANGED <<stopAsked, cancelled, watching, serve, listener>>
        /\ status' = IF stage' = "exited" THEN "failed" ELSE status
        /\ running /\ ReloadStep
    BY <1>1 DEF RegistryStep
  <2>2. up => up'
    BY <2>1 DEF ReloadStep, Start, RefuseStart, Reload, RejectReload, EnterApply, BuildTools,
                BuildFails, Lock, BeginService, AddTool, EndService, DropAbsent, Publish
  <2> QED BY <2>1, <2>2
<1>2. CASE StartServer
  BY <1>2 DEF StartServer, vars, registryVars, reloadVars
<1>3. CASE Listen
  BY <1>3 DEF Listen, vars, registryVars, reloadVars
<1>4. CASE ServeFails \/ PipeCancelled \/ MainReturns \/ ShutdownTimesOut
  BY <1>4 DEF ServeFails, PipeCancelled, MainReturns, ShutdownTimesOut, vars, registryVars,
              reloadVars
<1>5. CASE BeginShutdown \/ Drained
  BY <1>5 DEF BeginShutdown, Drained, vars, registryVars, reloadVars
<1>6. CASE Terminate \/ OnStop
  BY <1>6 DEF Terminate, OnStop, vars, registryVars, reloadVars
<1>7. CASE HangupSignal
  BY <1>7 DEF HangupSignal, Hangup, vars, registryVars, reloadVars
<1>8. CASE WatcherStops
  BY <1>8 DEF WatcherStops, vars, registryVars, reloadVars
<1>9. ASSUME NEW c \in Client, RequestStep(c) \/ PipeCloses(c) PROVE ProcessOK'
  <2>1. UNCHANGED registryVars
    BY <1>9 DEF RequestStep, PipeCloses, Send, ClientStep, GateAny, GateName, Open, UseSession,
                Disconnect, ServeSTDIO
  <2>2. CASE RequestStep(c)
    BY <2>1, <2>2 DEF RequestStep, processVars, registryVars, reloadVars
  <2>3. CASE PipeCloses(c)
    BY <2>1, <2>3 DEF PipeCloses, registryVars, reloadVars
  <2> QED BY <1>9, <2>2, <2>3
<1>10. CASE DiskStep \/ Over
  BY <1>10 DEF DiskStep, Over, EditStep, processVars, lifeVars, vars, registryVars, reloadVars
<1> QED BY <1>1, <1>2, <1>3, <1>4, <1>5, <1>6, <1>7, <1>8, <1>9, <1>10 DEF LifecycleNext

LEMMA LifeInductive == LifecycleSpec => []LifeInv
<1>1. LifecycleInit => LifeInv
  BY TypeInit, BookInit DEF LifecycleInit, LifeInv, IInv, ProcessOK, Init, RegistryInit
<1>2. LifeInv /\ [LifecycleNext]_lifeVars => LifeInv'
  <2> SUFFICES ASSUME LifeInv, [LifecycleNext]_lifeVars PROVE LifeInv'
    OBVIOUS
  <2>1. CASE LifecycleNext
    <3>1. IInv'
      BY <2>1, StepKinds, BookStep, PipeCloseKeeps DEF LifeInv
    <3> QED BY <2>1, <3>1, ProcessStep DEF LifeInv
  <2>2. CASE UNCHANGED lifeVars
    <3>1. IInv'
      BY <2>2, BookStep DEF LifeInv, lifeVars
    <3> QED BY <2>2, <3>1 DEF LifeInv, ProcessOK, lifeVars, processVars, vars, registryVars,
                              reloadVars
  <2> QED BY <2>1, <2>2
<1> QED BY <1>1, <1>2, PTL DEF LifecycleSpec

(***************************************************************************)
(* A refused start leaves no process behind, nothing is served before New  *)
(* has returned, and no connection is taken after Shutdown was called.     *)
(***************************************************************************)
THEOREM ProcessIsTyped == LifecycleSpec => []LifecycleTypeOK
<1>1. LifeInv => LifecycleTypeOK
  BY DEF LifeInv, IInv, TypeInv, ProcessOK, LifecycleTypeOK
<1> QED BY <1>1, LifeInductive, PTL

(***************************************************************************)
(* What the routing promises holds from the start of the process to its    *)
(* end, whatever signals reach it and wherever it is when it stops.        *)
(***************************************************************************)
THEOREM RoutingHoldsThroughout ==
  LifecycleSpec => [](RoutesInStep /\ AppliedInFull /\ OwnToolsOnly)
<1>1. LifeInv => RoutesInStep /\ AppliedInFull /\ OwnToolsOnly
  BY DEF LifeInv, IInv, BookInv
<1> QED BY <1>1, LifeInductive, PTL
-----------------------------------------------------------------------------
(***************************************************************************)
(* Without a services directory every reload resolves to the same list, so *)
(* apply drops nothing and a session stays on the server it was opened on. *)
(***************************************************************************)
ConfiguredNames == {e.name : e \in ResolvedServices}

SessionInv ==
  /\ batch # {} => batch = ResolvedServices
  /\ stage \in {"build", "install", "add", "publish"} => batch = ResolvedServices
  /\ \A n \in Name : services[n] # NoServer => n \in ConfiguredNames
  /\ \A c \in Client : session[c] # NoServer =>
       \E n \in Name : services[n] # NoServer /\ session[c] = services[n]

LEMMA SameServices ==
  ASSUME DirName = {}
  PROVE  ConfiguredNames' = ConfiguredNames /\ ResolvedServices' = ResolvedServices
<1>1. subdirectories = {} /\ subdirectories' = {}
  BY DEF subdirectories, Entry
<1> QED BY <1>1 DEF ConfiguredNames, ResolvedServices, explicitServices

\* A server in the table stays there.
LEMMA RegistrySessions ==
  ASSUME DirName = {}, IInv, SessionInv, ReloadStep, UNCHANGED clientVars
  PROVE  SessionInv'
<1>1. ConfiguredNames' = ConfiguredNames /\ ResolvedServices' = ResolvedServices
  BY SameServices
<1>2. services \in [Name -> Server \cup {NoServer}] /\ session' = session
  BY DEF IInv, TypeInv, TypeOK, RegistryTypeOK, clientVars
<1>3. SUFFICES /\ batch' # {} => batch' = ResolvedServices
               /\ stage' \in {"build", "install", "add", "publish"} => batch' = ResolvedServices
               /\ \A n \in Name : services'[n] # NoServer => n \in ConfiguredNames
               /\ \A n \in Name : services[n] # NoServer => services'[n] = services[n]
  <2> SUFFICES ASSUME NEW c \in Client, session'[c] # NoServer,
                      \A n \in Name : services[n] # NoServer => services'[n] = services[n]
               PROVE  \E n \in Name : services'[n] # NoServer /\ session'[c] = services'[n]
    BY <1>1 DEF SessionInv
  <2>1. PICK n \in Name : services[n] # NoServer /\ session[c] = services[n]
    BY <1>2 DEF SessionInv
  <2> QED BY <1>2, <2>1
<1>4. ASSUME NEW e \in Entry, BeginService(e)
      PROVE  /\ batch' = batch /\ stage' = "add" /\ stage = "install"
             /\ \A n \in Name : services'[n] # NoServer => n \in ConfiguredNames
             /\ \A n \in Name : services[n] # NoServer => services'[n] = services[n]
  <2>1. /\ batch' = batch /\ stage' = "add" /\ stage = "install" /\ e \in todo
        /\ services' = [services EXCEPT ![e.name] =
             IF isNew(e.name) THEN <<e.name, instances[e.name] + 1>> ELSE services[e.name]]
    BY <1>4 DEF BeginService
  <2>2. e.name \in ConfiguredNames
    BY <2>1 DEF IInv, TypeInv, TypeOK, RegistryTypeOK, SessionInv, ConfiguredNames
  <2> QED BY <1>2, <2>1, <2>2, EntryName DEF SessionInv, isNew
<1>5. CASE DropAbsent
  <2>1. /\ batch' = batch /\ stage = "install" /\ batch = ResolvedServices
        /\ services' = [n \in Name |-> IF n \in ConfiguredNames THEN services[n] ELSE NoServer]
    BY <1>5 DEF DropAbsent, SessionInv, ConfiguredNames
  <2> QED BY <1>2, <2>1 DEF SessionInv
<1>6. CASE Start \/ Reload
  BY <1>6 DEF Start, Reload, EnterApply, publicVars, SessionInv
<1>7. ASSUME NEW e \in Entry, BuildTools(e) \/ BuildFails(e)
      PROVE  /\ UNCHANGED services
             /\ batch' # {} => batch' = ResolvedServices
             /\ stage' \in {"build", "install", "add", "publish"} => batch' = ResolvedServices
  BY <1>7 DEF BuildTools, BuildFails, LeaveApply, publicVars, SessionInv
<1>8. CASE RefuseStart \/ RejectReload \/ Lock \/ EndService \/ Publish
  BY <1>8 DEF RefuseStart, RejectReload, Lock, EndService, Publish, LeaveApply, publicVars,
              SessionInv
<1>9. ASSUME NEW t \in Tool, AddTool(t)
      PROVE  UNCHANGED <<services, batch, stage>>
  BY <1>9 DEF AddTool
<1> QED BY <1>4, <1>5, <1>6, <1>7, <1>8, <1>9 DEF ReloadStep, SessionInv

\* A session is opened on a server of the table.
LEMMA ClientSessions ==
  ASSUME DirName = {}, IInv, SessionInv, NEW c \in Client,
         RequestStep(c) \/ PipeCloses(c)
  PROVE  SessionInv'
<1>1. UNCHANGED registryVars
  BY DEF RequestStep, PipeCloses, Send, ClientStep, GateAny, GateName, Open, UseSession,
         Disconnect, ServeSTDIO
<1>2. ConfiguredNames' = ConfiguredNames /\ ResolvedServices' = ResolvedServices
  BY SameServices
<1>3. session' = session \/ \E s \in Server \cup {NoServer} :
        /\ session' = [session EXCEPT ![c] = s]
        /\ s # NoServer => \E n \in Name : s = services[n]
  <2>1. serverForRequest(c) \in Server \cup {NoServer}
        /\ \E n \in Name : serverForRequest(c) = services[n]
    BY SourcesAssumption DEF serverForRequest, IInv, TypeInv, TypeOK, RegistryTypeOK, BookInv,
                             RoutesInStep
  <2>2. CASE Open(c)
    BY <2>1, <2>2 DEF Open
  <2>3. CASE Disconnect(c) \/ PipeCloses(c)
    BY <2>3 DEF Disconnect, PipeCloses
  <2>4. CASE ServeSTDIO(c)
    BY <2>4 DEF ServeSTDIO, serviceNames, IInv, TypeInv, TypeOK, RegistryTypeOK
  <2>5. CASE GateAny(c) \/ GateName(c) \/ UseSession(c) \/ \E name \in Name : Send(c, name)
    BY <2>5 DEF GateAny, GateName, UseSession, Send
  <2> QED BY <2>2, <2>3, <2>4, <2>5 DEF RequestStep, ClientStep
<1>4. session \in [Client -> Server \cup {NoServer}]
  BY DEF IInv, TypeInv, TypeOK
<1>5. ASSUME NEW d \in Client, session'[d] # NoServer
      PROVE  \E n \in Name : services[n] # NoServer /\ session'[d] = services[n]
  <2>1. CASE session'[d] = session[d]
    BY <1>5, <2>1 DEF SessionInv
  <2>2. CASE session'[d] # session[d]
    BY <1>3, <1>4, <1>5, <2>2
  <2> QED BY <2>1, <2>2
<1> QED BY <1>1, <1>2, <1>5 DEF SessionInv, registryVars, reloadVars, publicVars

LEMMA SessionStep ==
  ASSUME DirName = {}, IInv, SessionInv, [LifecycleNext]_lifeVars
  PROVE  SessionInv'
<1>1. CASE RegistryStep
  BY <1>1, RegistrySessions DEF RegistryStep
<1>2. ASSUME NEW c \in Client, RequestStep(c) \/ PipeCloses(c) PROVE SessionInv'
  BY <1>2, ClientSessions
<1>3. ASSUME UNCHANGED <<batch, stage, services, session>> PROVE SessionInv'
  BY <1>3, SameServices DEF SessionInv
<1>4. CASE HangupSignal \/ DiskStep
  BY <1>3, <1>4 DEF HangupSignal, Hangup, DiskStep, EditStep, vars, registryVars, clientVars,
                    reloadVars, publicVars
<1>5. CASE \/ StartServer \/ Listen \/ ServeFails \/ BeginShutdown \/ Drained
           \/ ShutdownTimesOut \/ PipeCancelled \/ Terminate \/ OnStop \/ MainReturns
           \/ WatcherStops \/ Over \/ UNCHANGED lifeVars
  BY <1>3, <1>5 DEF StartServer, Listen, ServeFails, BeginShutdown, Drained, ShutdownTimesOut,
                    PipeCancelled, Terminate, OnStop, MainReturns, WatcherStops, Over, lifeVars,
                    vars, registryVars, clientVars, reloadVars, publicVars
<1> QED BY <1>1, <1>2, <1>4, <1>5 DEF LifecycleNext

(***************************************************************************)
(* Where services are configured and not discovered, a session stays on    *)
(* the mcp.Server that reloads keep up to date, on the pipe as on HTTP.    *)
(***************************************************************************)
THEOREM SessionsAreFollowed ==
  ASSUME DirName = {}
  PROVE  LifecycleSpec => []SessionsFollowReloads
<1>1. LifecycleInit => SessionInv
  BY DEF LifecycleInit, Init, RegistryInit, SessionInv
<1>2. IInv /\ SessionInv /\ [LifecycleNext]_lifeVars => SessionInv'
  BY SessionStep
<1>3. LifeInv => IInv
  BY DEF LifeInv
<1>4. IInv /\ SessionInv => SessionsFollowReloads
  <2> SUFFICES ASSUME IInv, SessionInv, NEW c \in Client, session[c] # NoServer
               PROVE  session[c] = services[session[c][1]]
    BY DEF SessionsFollowReloads
  <2>1. PICK n \in Name : services[n] # NoServer /\ session[c] = services[n]
    BY DEF SessionInv
  <2> QED BY <2>1 DEF IInv, BookInv, ServersByName
<1> QED BY <1>1, <1>2, <1>3, <1>4, LifeInductive, PTL DEF LifecycleSpec
-----------------------------------------------------------------------------
(***************************************************************************)
(* Each step of the process for the properties of steps: a pipe that       *)
(* closes opens no session, refuses nobody and exchanges no mcp.Server.    *)
(***************************************************************************)
LEMMA PipeCloseActs ==
  ASSUME IInv, NEW d \in Client, PipeCloses(d)
  PROVE  KeptNow /\ JustifiedNow /\ OwnNow
<1>1. UNCHANGED <<services, reply>> /\ session' = [session EXCEPT ![d] = NoServer]
  BY DEF PipeCloses, registryVars, publicVars
<1>2. session \in [Client -> Server \cup {NoServer}]
  BY DEF IInv, TypeInv, TypeOK
<1>3. KeptNow
  BY <1>1 DEF KeptNow
<1>4. JustifiedNow
  BY <1>1 DEF JustifiedNow, Refusal
<1>5. OwnNow
  BY <1>1, <1>2 DEF OwnNow
<1> QED BY <1>3, <1>4, <1>5

\* A step of the process is one of the routing, or the pipe closes.
LEMMA LifeSteps ==
  ASSUME [LifecycleNext]_lifeVars
  PROVE  [Next]_vars \/ \E c \in Client : PipeCloses(c)
BY StepKinds DEF lifeVars

LEMMA LifeKeeps == LifecycleSpec => ServersAreKept
<1>1. LifeInv /\ [LifecycleNext]_lifeVars => [KeptNow]_vars
  BY LifeSteps, PipeCloseActs, KeptStep DEF LifeInv
<1> QED BY <1>1, LifeInductive, PTL DEF LifecycleSpec, ServersAreKept, KeptNow

LEMMA LifeJustified == ASSUME NamedOnly PROVE LifecycleSpec => RefusalIsTrue
<1>1. LifecycleInit => NoUnnamedService
  BY SourcesAssumption DEF LifecycleInit, Init, RegistryInit, NoUnnamedService
<1>2. LifeInv /\ NoUnnamedService /\ [LifecycleNext]_lifeVars => NoUnnamedService'
  <2>1. ASSUME NoUnnamedService, NEW c \in Client, PipeCloses(c) PROVE NoUnnamedService'
    BY <2>1 DEF PipeCloses, registryVars, publicVars, NoUnnamedService
  <2> QED BY <2>1, LifeSteps, NamedStep, NamedOnly DEF LifeInv
<1>3. LifeInv /\ NoUnnamedService /\ [LifecycleNext]_lifeVars => [JustifiedNow]_vars
  BY LifeSteps, PipeCloseActs, JustifiedStep DEF LifeInv
<1> QED BY <1>1, <1>2, <1>3, LifeInductive, PTL DEF LifecycleSpec, RefusalIsTrue, JustifiedNow

(***************************************************************************)
(* The pipe is served once, so the path left over from its session does no *)
(* harm; over the pipe there are no requests on a path.                    *)
(***************************************************************************)
PipeInv ==
  /\ PipeIsIdle
  /\ serve = "pipe" => mode = "stdio"
  /\ serve # "done" => PipeUnbound

SameMode == mode' = mode

LEMMA ModeIsFixed == ASSUME [LifecycleNext]_lifeVars PROVE SameMode
<1>1. [Next]_vars => SameMode
  BY DEF Next, RegistryNext, ReloadStep, Exited, Start, RefuseStart, Reload, RejectReload,
      EnterApply, Hangup, BuildTools, BuildFails, Lock, BeginService, AddTool, EndService,
      DropAbsent, Publish, EditStep, Edit, Send, ClientStep, GateAny, GateName, Open,
      UseSession, Disconnect, ServeSTDIO, vars, registryVars, sourceVars, SameMode
<1>2. ASSUME NEW c \in Client, PipeCloses(c) PROVE SameMode
  BY <1>2 DEF PipeCloses, registryVars, sourceVars, SameMode
<1> QED BY <1>1, <1>2, LifeSteps

\* Start serves one transport, and comes to its end once.
LEMMA LifeServe ==
  ASSUME [LifecycleNext]_lifeVars
  PROVE  /\ serve' = "pipe" => serve = "pipe" \/ mode = "stdio"
         /\ serve = "done" => serve' = "done"
BY DEF LifecycleNext, RegistryStep, StartServer, Listen, ServeFails, BeginShutdown, Drained,
       ShutdownTimesOut, PipeCancelled, Terminate, OnStop, MainReturns, HangupSignal,
       WatcherStops, RequestStep, PipeCloses, DiskStep, Over, lifeVars, processVars

LEMMA PipeInvStep == ASSUME LifeInv, PipeInv, [LifecycleNext]_lifeVars PROVE PipeInv'
<1>1. mode' = mode
  BY ModeIsFixed DEF SameMode
<1>2. ASSUME NEW c \in Client, PipeCloses(c) PROVE PipeInv'
  BY <1>1, <1>2 DEF PipeCloses, PipeInv, PipeIsIdle
<1>3. CASE [Next]_vars
  <2>1. PipeIsIdle'
    BY <1>3, PipeIsIdleStep DEF PipeInv
  <2>2. serve' = "pipe" => mode' = "stdio"
    BY <1>1, LifeServe DEF PipeInv
  <2>3. serve' # "done" => PipeUnbound'
    BY <1>3, PipeStep, LifeServe DEF PipeInv, LifeInv
  <2> QED BY <2>1, <2>2, <2>3 DEF PipeInv
<1> QED BY <1>2, <1>3, LifeSteps

\* Once the pipe is closed nobody opens a session.
LEMMA PipeStaysClosed ==
  ASSUME PipeInv, serve = "done", mode = "stdio", [LifecycleNext]_lifeVars
  PROVE  session' = session
<1>1. \A c \in Client : pc[c] = "idle"
  BY DEF PipeInv, PipeIsIdle
<1>2. ASSUME NEW c \in Client, RequestStep(c) \/ PipeCloses(c) PROVE FALSE
  BY <1>1, <1>2 DEF RequestStep, PipeCloses, Send, ClientStep, GateAny, GateName, Open,
                    UseSession, Disconnect
<1>3. CASE RegistryStep \/ HangupSignal \/ DiskStep
  BY <1>3 DEF RegistryStep, HangupSignal, DiskStep, clientVars, vars
<1> QED
  BY <1>2, <1>3 DEF LifecycleNext, StartServer, Listen, ServeFails, BeginShutdown, Drained,
     ShutdownTimesOut, PipeCancelled, Terminate, OnStop, MainReturns, WatcherStops, Over,
     lifeVars, vars, clientVars

LEMMA LifeOwn ==
  ASSUME Unnamed \notin ExplicitName PROVE LifecycleSpec => OpensOwnService
<1> DEFINE Form == OneForm /\ SingleAlone
<1>1. LifecycleInit => PipeInv /\ Form
  BY DEF LifecycleInit, Init, RegistryInit, OneForm, SingleAlone, PipeInv, PipeIsIdle, PipeUnbound
<1>2. LifeInv /\ PipeInv /\ [LifecycleNext]_lifeVars => PipeInv'
  BY PipeInvStep
<1>3. LifeInv /\ Form /\ [LifecycleNext]_lifeVars => Form'
  <2>1. ASSUME Form, NEW c \in Client, PipeCloses(c) PROVE Form'
    BY <2>1 DEF PipeCloses, registryVars, reloadVars, publicVars, OneForm, SingleAlone
  <2> QED BY <2>1, LifeSteps, OneFormStep, Unnamed \notin ExplicitName DEF LifeInv
<1>4. LifeInv /\ PipeInv /\ Form /\ [LifecycleNext]_lifeVars => [OwnNow]_vars
  <2> SUFFICES ASSUME LifeInv, PipeInv, Form, [LifecycleNext]_lifeVars PROVE [OwnNow]_vars
    OBVIOUS
  <2>1. ASSUME NEW c \in Client, PipeCloses(c) PROVE OwnNow
    BY <2>1, PipeCloseActs DEF LifeInv
  <2>2. CASE PipeUnbound /\ [Next]_vars
    BY <2>2, OwnStep DEF LifeInv, FormInv
  <2>3. CASE serve = "done" /\ mode = "stdio"
    BY <2>3, PipeStaysClosed DEF OwnNow
  <2> QED BY <2>1, <2>2, <2>3, LifeSteps DEF PipeInv, PipeUnbound
<1> QED
  BY <1>1, <1>2, <1>3, <1>4, LifeInductive, PTL DEF LifecycleSpec, OpensOwnService, OwnNow

(***************************************************************************)
(* From the start of the process to its end, on a socket and on the pipe:  *)
(* a reload never exchanges the mcp.Server of a service it keeps; where    *)
(* every service has a name, a refusal is true; and where none of the      *)
(* entries of "services" lacks one, a session is with the service that was *)
(* asked for.                                                              *)
(***************************************************************************)
THEOREM RequestsAreRoutedThroughout ==
  /\ LifecycleSpec => ServersAreKept
  /\ NamedOnly => (LifecycleSpec => RefusalIsTrue)
  /\ Unnamed \notin ExplicitName => (LifecycleSpec => OpensOwnService)
BY LifeKeeps, LifeJustified, LifeOwn

(***************************************************************************)
(* A client of the process, with its signals and its end, sees nothing but *)
(* RoutingContract (its safety: a request under way when the process ends  *)
(* is never answered).                                                     *)
(***************************************************************************)
THEOREM ProcessKeepsContract ==
  LifecycleSpec => Contract!Init /\ [][Contract!Next]_(Contract!vars)
<1>1. LifecycleInit => PipeInv /\ NeverEmpty /\ Contract!Init
  BY DEF LifecycleInit, Init, RegistryInit, PipeInv, PipeIsIdle, PipeUnbound, NeverEmpty,
         Contract!Init, Refusal
<1>2. LifeInv /\ PipeInv /\ [LifecycleNext]_lifeVars => PipeInv'
  BY PipeInvStep
<1>3. LifeInv /\ NeverEmpty /\ [LifecycleNext]_lifeVars => NeverEmpty'
  <2>1. ASSUME NeverEmpty, NEW c \in Client, PipeCloses(c) PROVE NeverEmpty'
    BY <2>1 DEF PipeCloses, registryVars, reloadVars, publicVars, NeverEmpty
  <2> QED BY <2>1, LifeSteps, NeverEmptyStep DEF LifeInv
<1>4. LifeInv /\ PipeInv /\ NeverEmpty /\ [LifecycleNext]_lifeVars
        => [Contract!Next]_(Contract!vars)
  <2>1. ASSUME PipeInv, NEW c \in Client, PipeCloses(c) PROVE UNCHANGED contractVars
    <3>1. UNCHANGED <<known, mode, pc, path, reply>> /\ \A d \in Client : pc[d] = "idle"
      BY <2>1 DEF PipeCloses, PipeInv, PipeIsIdle, registryVars, sourceVars, publicVars
    <3> QED BY <3>1 DEF contractVars, asked, asking, torn, answer
  <2>2. UNCHANGED contractVars => [Contract!Next]_(Contract!vars)
    BY DEF Contract!vars, contractVars, asked, asking, torn, answer
  <2> QED BY <2>1, <2>2, LifeSteps, ContractStep DEF LifeInv, PipeInv
<1> QED
  BY <1>1, <1>2, <1>3, <1>4, LifeInductive, PTL DEF LifecycleSpec
-----------------------------------------------------------------------------
(***************************************************************************)
(* How a process ends: who is still there at each stage of a shutdown, and *)
(* what each exit status stands for.                                       *)
(***************************************************************************)
Reloading == stage \in {"build", "install", "add", "publish"}

EndInv ==
  /\ watching => up
  /\ up /\ Reloading => watching
  /\ serve = "pipe" => mode = "stdio"
  /\ serve \in {"select", "draining"} => mode # "stdio"
  /\ serve = "draining" => cancelled
  /\ serve = "done" => cancelled \/ mode = "stdio"
  /\ listener # "none" => mode # "stdio"
  /\ listener = "failed" => serve = "select" \/ cancelled
  /\ cancelled => stopAsked
  /\ status = "ended" => cancelled
  /\ status = "failed" => stage = "exited" \/ cancelled \/ listener = "failed"
  /\ status = "killed" => ~watching

LEMMA EndStep == ASSUME LifeInv, UpInv, EndInv, [LifecycleNext]_lifeVars PROVE EndInv'
<1> USE DEF EndInv, running, Reloading
<1>1. mode' = mode
  BY ModeIsFixed DEF SameMode
<1>2. CASE RegistryStep
  <2>1. /\ UNCHANGED <<stopAsked, cancelled, watching, serve, listener>>
        /\ status' = IF stage' = "exited" THEN "failed" ELSE status
        /\ running /\ ReloadStep /\ (up => watching)
    BY <1>2 DEF RegistryStep
  <2>2. up => up'
    BY <2>1 DEF ReloadStep, Start, RefuseStart, Reload, RejectReload, EnterApply, BuildTools,
                BuildFails, Lock, BeginService, AddTool, EndService, DropAbsent, Publish
  <2>3. up' /\ ~up => stage' = "idle"
    BY <2>1 DEF ReloadStep, Start, RefuseStart, Reload, RejectReload, EnterApply, BuildTools,
                BuildFails, Lock, BeginService, AddTool, EndService, DropAbsent, Publish
  <2> QED BY <1>1, <2>1, <2>2, <2>3
<1>3. CASE StartServer
  BY <1>1, <1>3 DEF StartServer, vars, registryVars, reloadVars, LifeInv, ProcessOK
<1>4. CASE Listen
  BY <1>1, <1>4 DEF Listen, vars, registryVars, reloadVars
<1>5. CASE ServeFails \/ PipeCancelled \/ MainReturns \/ ShutdownTimesOut
  BY <1>1, <1>5 DEF ServeFails, PipeCancelled, MainReturns, ShutdownTimesOut, vars,
                    registryVars, reloadVars
<1>6. CASE BeginShutdown \/ Drained
  BY <1>1, <1>6 DEF BeginShutdown, Drained, vars, registryVars, reloadVars
<1>7. CASE Terminate \/ OnStop
  BY <1>1, <1>7 DEF Terminate, OnStop, vars, registryVars, reloadVars
<1>8. CASE HangupSignal
  BY <1>1, <1>8 DEF HangupSignal, Hangup, vars, registryVars, reloadVars
<1>9. CASE WatcherStops
  BY <1>1, <1>9 DEF WatcherStops, vars, registryVars, reloadVars
<1>10. ASSUME NEW c \in Client, RequestStep(c) \/ PipeCloses(c) PROVE EndInv'
  <2>1. UNCHANGED registryVars
    BY <1>10 DEF RequestStep, PipeCloses, Send, ClientStep, GateAny, GateName, Open, UseSession,
                 Disconnect, ServeSTDIO
  <2>2. CASE RequestStep(c)
    BY <1>1, <2>1, <2>2 DEF RequestStep, processVars, registryVars, reloadVars
  <2>3. CASE PipeCloses(c)
    BY <1>1, <2>1, <2>3 DEF PipeCloses, registryVars, reloadVars
  <2> QED BY <1>10, <2>2, <2>3
<1>11. CASE DiskStep \/ Over \/ UNCHANGED lifeVars
  BY <1>1, <1>11 DEF DiskStep, Over, EditStep, processVars, lifeVars, vars, registryVars,
                     reloadVars
<1> QED BY <1>2, <1>3, <1>4, <1>5, <1>6, <1>7, <1>8, <1>9, <1>10, <1>11 DEF LifecycleNext

LEMMA EndInductive == LifecycleSpec => [](UpInv /\ EndInv)
<1>1. LifecycleInit => UpInv /\ EndInv
  BY DEF LifecycleInit, Init, RegistryInit, UpInv, EndInv, Reloading
<1>2. UpInv /\ [LifecycleNext]_lifeVars => UpInv'
  <2>1. ASSUME UpInv, NEW c \in Client, PipeCloses(c) PROVE UpInv'
    BY <2>1 DEF PipeCloses, registryVars, reloadVars, UpInv
  <2> QED BY <2>1, LifeSteps, UpStep
<1>3. LifeInv /\ UpInv /\ EndInv /\ [LifecycleNext]_lifeVars => EndInv'
  BY EndStep
<1> QED BY <1>1, <1>2, <1>3, LifeInductive, PTL DEF LifecycleSpec

(***************************************************************************)
(* Nothing but a request to stop or the loss of the listener ends a        *)
(* process that serves: no edit, no reload that fails, no client, no       *)
(* SIGHUP.                                                                 *)
(***************************************************************************)
THEOREM ServingGoesOn ==
  LifecycleSpec => [](serve # "none" /\ ~stopAsked /\ listener # "failed" => running)
<1>1. LifeInv /\ UpInv /\ EndInv
        => (serve # "none" /\ ~stopAsked /\ listener # "failed" => running)
  BY DEF LifeInv, ProcessOK, UpInv, EndInv, running, Ended
<1> QED BY <1>1, LifeInductive, EndInductive, PTL

(***************************************************************************)
(* The safety half of EndsWhenItMust: a request to stop and a lost         *)
(* listener are not forgotten, and until the process has ended one of the  *)
(* steps that end it, or lead there, is open - OnStop, MainReturns, or the *)
(* exit over the listener's error.                                         *)
(***************************************************************************)
MustEnd == stopAsked \/ listener = "failed"

EndIsOpen ==
  \/ stopAsked /\ ~cancelled                       \* OnStop
  \/ cancelled                                     \* MainReturns
  \/ serve = "select" /\ listener = "failed"       \* ServeFails

THEOREM StopsAreRemembered ==
  LifecycleSpec => [](MustEnd => [](~running \/ EndIsOpen))
<1>1. EndInv /\ MustEnd => ~running \/ EndIsOpen
  BY DEF EndInv, MustEnd, EndIsOpen
<1>2. EndInv /\ MustEnd /\ [LifecycleNext]_lifeVars => MustEnd'
  <2> SUFFICES ASSUME EndInv, MustEnd, [LifecycleNext]_lifeVars PROVE MustEnd'
    OBVIOUS
  <2> USE DEF MustEnd
  <2>1. CASE Listen \/ StartServer
    BY <2>1 DEF Listen, StartServer
  <2>2. CASE BeginShutdown
    BY <2>2 DEF BeginShutdown, EndInv
  <2>3. CASE Terminate \/ OnStop
    BY <2>3 DEF Terminate, OnStop
  <2>4. CASE UNCHANGED <<stopAsked, listener>>
    BY <2>4
  <2> QED
    BY <2>1, <2>2, <2>3, <2>4
    DEF LifecycleNext, RegistryStep, ServeFails, Drained, ShutdownTimesOut, PipeCancelled,
        MainReturns, HangupSignal, WatcherStops, RequestStep, PipeCloses, DiskStep, Over,
        lifeVars, processVars
<1> QED BY <1>1, <1>2, EndInductive, PTL DEF LifecycleSpec

(***************************************************************************)
(* A shutdown in the middle of a reload leaves nobody waiting for a lock   *)
(* that is never given up: the reload goroutine stops between two reloads, *)
(* so while it holds the server's lock it runs on, and a step of it is     *)
(* open (ReloadsRunOut: there are finitely many).                          *)
(***************************************************************************)
THEOREM TheLockIsGivenUp ==
  LifecycleSpec => [](locked => StepIsOpen /\ (up => watching))
<1>1. LifeInv /\ EndInv => (locked => StepIsOpen /\ (up => watching))
  BY OpenWhileApplying DEF LifeInv, EndInv, Reloading
<1> QED BY <1>1, LifeInductive, EndInductive, PTL

(***************************************************************************)
(* The safety half of EveryRequestEnds: no step, of a reload or of another *)
(* client, puts a request back; each of its own brings it nearer to its    *)
(* answer, which is at most three steps away.                              *)
(***************************************************************************)
ToGo(at) == CASE at = "gateAny" -> 3 [] at = "gateName" -> 2 [] at = "inner" -> 1 [] OTHER -> 0

RequestNearer ==
  \A c \in Client :
    /\ pc[c] # "idle" => pc'[c] = pc[c] \/ ToGo(pc'[c]) < ToGo(pc[c])
    /\ ClientStep(c) => ToGo(pc'[c]) < ToGo(pc[c])

THEOREM RequestsRunOut == LifecycleSpec => [][RequestNearer]_lifeVars
<1>1. LifeInv /\ [LifecycleNext]_lifeVars => [RequestNearer]_lifeVars
  <2> SUFFICES ASSUME LifeInv, LifecycleNext, NEW c \in Client
               PROVE  /\ pc[c] # "idle" => pc'[c] = pc[c] \/ ToGo(pc'[c]) < ToGo(pc[c])
                      /\ ClientStep(c) => ToGo(pc'[c]) < ToGo(pc[c])
    BY DEF RequestNearer
  <2>1. pc \in [Client -> {"idle", "gateAny", "gateName", "inner"}]
    BY DEF LifeInv, IInv, TypeInv, TypeOK
  <2>2. ASSUME NEW d \in Client, ClientStep(d)
        PROVE  /\ ToGo(pc'[d]) < ToGo(pc[d])
               /\ \A e \in Client : e # d => pc'[e] = pc[e]
    BY <2>1, <2>2 DEF ClientStep, GateAny, GateName, Open, UseSession, Answer, ToGo
  <2>3. ASSUME NEW d \in Client, NEW name \in Name, Send(d, name)
        PROVE  pc[d] = "idle" /\ \A e \in Client : e # d => pc'[e] = pc[e]
    BY <2>1, <2>3 DEF Send
  <2>4. \/ pc' = pc
        \/ \E d \in Client : ClientStep(d) \/ \E name \in Name : Send(d, name)
    BY DEF LifecycleNext, RegistryStep, StartServer, Listen, ServeFails, BeginShutdown, Drained,
           ShutdownTimesOut, PipeCancelled, Terminate, OnStop, MainReturns, HangupSignal,
           WatcherStops, RequestStep, PipeCloses, DiskStep, Over, lifeVars, vars, clientVars,
           Disconnect, ServeSTDIO
  <2>5. ClientStep(c) => ToGo(pc'[c]) < ToGo(pc[c])
    BY <2>2
  <2>6. pc[c] # "idle" => pc'[c] = pc[c] \/ ToGo(pc'[c]) < ToGo(pc[c])
    BY <2>2, <2>3, <2>4
  <2> QED BY <2>5, <2>6
<1> QED BY <1>1, LifeInductive, PTL DEF LifecycleSpec
=============================================================================
