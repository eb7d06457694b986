--------------------------- MODULE ServiceRegistry --------------------------
(***************************************************************************)
(* The running set of services of one auto-mcp process and the goroutine   *)
(* that reloads it: internal/server/server.go (New, Reload, apply,         *)
(* serverForRequest, WatchReloadSignals) and the route set of              *)
(* internal/server/handler/http.go that a reload replaces.                 *)
(*                                                                         *)
(* apply reads every document before it takes the server's lock (stage     *)
(* "build"), then brings the services in line one by one under the lock    *)
(* ("install", "add"), deletes those that are gone ("install" with nothing *)
(* left to do) and tells the HTTP handler ("publish").  The lock hides     *)
(* services and single, but neither the tool list of an mcp.Server, which  *)
(* open sessions read through a lock of its own, nor the handler's route   *)
(* set, so each step that changes one of those is an action.               *)
(***************************************************************************)
EXTENDS ServiceSources

CONSTANTS
  NoServer,      \* Go's nil *mcp.Server
  NoTool,        \* a tool the mcp.Server does not have
  NoEntry,       \* no service is being installed
  MaxInstances   \* bound: mcp.Servers created for one name

VARIABLES
  stage,         \* where the main or reload goroutine is in New or apply
  up,            \* New has returned: requests and signals are served
  sig,           \* the SIGHUP waiting in the channel of capacity 1
  batch,         \* the services being applied (the argument of apply)
  todo,          \* those the current loop of apply has still to handle
  prepared,      \* [Entry -> document built, or Missing]
  cur,           \* the service being installed, NoEntry between two
  adding,        \* its tools still to be added
  services,      \* [Name -> Server, or NoServer]
  single,        \* the server that answers on any path, or NoServer
  toolNames,     \* [Name -> tool names exposed]
  instances,     \* [Name -> mcp.Servers created so far]
  tools,         \* [Server -> [Tool -> Registration, or NoTool]]
  known,         \* the route set of the HTTP handler
  applied        \* history: the (service, document) pairs last published

reloadVars == <<stage, up, sig, batch, todo, prepared, cur, adding>>
publicVars == <<services, single, toolNames, instances, tools, known, applied>>
registryVars == <<sourceVars, reloadVars, publicVars>>

Server == Name \X (1 .. MaxInstances)

\* AddTool binds a tool to the executor of the service it was read for.
Registration == [entry : Entry, doc : Doc]

ASSUME RegistryAssumption ==
  /\ NoServer \notin Server
  /\ NoTool \notin Registration
  /\ NoEntry \notin Entry
  /\ MaxInstances \in Nat \ {0}

Stage == {"new", "idle", "build", "install", "add", "publish", "exited"}

\* s.mu is held for writing: readers of services and single wait.
locked == stage \in {"install", "add", "publish"}

RegistryTypeOK ==
  /\ SourcesTypeOK
  /\ stage \in Stage /\ up \in BOOLEAN /\ sig \in BOOLEAN
  /\ batch \subseteq Entry /\ todo \subseteq batch
  /\ prepared \in [Entry -> Doc \cup {Missing}]
  /\ cur \in batch \cup {NoEntry} /\ adding \subseteq Tool
  /\ services \in [Name -> Server \cup {NoServer}]
  /\ single \in Server \cup {NoServer}
  /\ toolNames \in [Name -> SUBSET Tool]
  /\ instances \in [Name -> 0 .. MaxInstances]
  /\ tools \in [Server -> [Tool -> Registration \cup {NoTool}]]
  /\ known \subseteq Name
  /\ applied \subseteq Entry \X Doc

RegistryInit ==
  /\ SourcesInit
  /\ stage = "new" /\ up = FALSE /\ sig = FALSE
  /\ batch = {} /\ todo = {} /\ cur = NoEntry /\ adding = {}
  /\ prepared = [e \in Entry |-> Missing]
  /\ services = [n \in Name |-> NoServer]
  /\ single = NoServer
  /\ toolNames = [n \in Name |-> {}]
  /\ instances = [n \in Name |-> 0]
  /\ tools = [s \in Server |-> [t \in Tool |-> NoTool]]
  /\ known = {}
  /\ applied = {}
-----------------------------------------------------------------------------
(***************************************************************************)
(* Entering apply: at startup with a validated list, in a reload with      *)
(* whatever the rescan resolves to.                                        *)
(***************************************************************************)
EnterApply ==
  /\ batch' = ResolvedServices
  /\ todo' = ResolvedServices
  /\ prepared' = [e \in Entry |-> Missing]
  /\ stage' = "build"
  /\ UNCHANGED <<sourceVars, up, cur, adding, publicVars>>

\* config.Load validates, then New runs setupTools.
Start ==
  /\ stage = "new"
  /\ validateServices
  /\ EnterApply
  /\ UNCHANGED sig

RefuseStart ==
  /\ stage = "new"
  /\ ~validateServices
  /\ stage' = "exited"
  /\ UNCHANGED <<sourceVars, up, sig, batch, todo, prepared, cur, adding, publicVars>>

\* The Go runtime sends to the channel without blocking: a second SIGHUP is
\* dropped while one is waiting.
Hangup ==
  /\ up
  /\ sig' = TRUE
  /\ UNCHANGED <<sourceVars, stage, up, batch, todo, prepared, cur, adding, publicVars>>

Reload ==
  /\ up /\ stage = "idle" /\ sig
  /\ sig' = FALSE
  /\ ~scanFails /\ ResolvedServices # {}
  /\ EnterApply

\* Rediscover fails, or nothing is configured any more.
RejectReload ==
  /\ up /\ stage = "idle" /\ sig
  /\ sig' = FALSE
  /\ scanFails \/ ResolvedServices = {}
  /\ UNCHANGED <<sourceVars, stage, up, batch, todo, prepared, cur, adding, publicVars>>

(***************************************************************************)
(* buildTools and measureSchemas read the service's document now, however  *)
(* long ago the directory was scanned.                                     *)
(***************************************************************************)
BuildTools(e) ==
  /\ stage = "build" /\ e \in todo
  /\ disk[e] \in Doc
  /\ prepared' = [prepared EXCEPT ![e] = disk[e]]
  /\ todo' = todo \ {e}
  /\ UNCHANGED <<sourceVars, stage, up, sig, batch, cur, adding, publicVars>>

LeaveApplyKeepingTodo ==    \* mutant: the work list survives a failure
  /\ batch' = {}
  /\ prepared' = [e \in Entry |-> Missing]
  /\ UNCHANGED <<sig, todo, cur, adding>>

LeaveApplyDraining ==       \* mutant: signals received meanwhile are discarded
  /\ batch' = {} /\ todo' = {}
  /\ prepared' = [e \in Entry |-> Missing]
  /\ sig' = FALSE
  /\ UNCHANGED <<cur, adding>>

\* apply returns: its local variables are gone.
LeaveApply ==
  /\ batch' = {}
  /\ todo' = {}
  /\ prepared' = [e \in Entry |-> Missing]
  /\ UNCHANGED <<sig, cur, adding>>

\* An error aborts apply before anything was touched: at startup the process
\* ends, a running one keeps what it has.
BuildFails(e) ==
  /\ stage = "build" /\ e \in todo
  /\ disk[e] \notin Doc
  /\ stage' = IF up THEN "idle" ELSE "exited"
  /\ LeaveApply
  /\ UNCHANGED <<sourceVars, up, publicVars>>

Lock ==
  /\ stage = "build" /\ todo = {}
  /\ stage' = "install"
  /\ todo' = batch
  /\ UNCHANGED <<sourceVars, up, sig, batch, prepared, cur, adding, publicVars>>
-----------------------------------------------------------------------------
ClearNothing(registrations, names) == registrations    \* mutant: no RemoveTools

Clear(registrations, names) ==
  [t \in Tool |-> IF t \in names THEN NoTool ELSE registrations[t]]

AlwaysFresh(n) == TRUE    \* mutant: a service is replaced, not updated

isNew(n) == services[n] = NoServer

(***************************************************************************)
(* The head of the loop body for one service: its mcp.Server is created    *)
(* unless the name has one, and its previous tools are removed in one call.*)
(***************************************************************************)
BeginService(e) ==
  LET n     == e.name
      fresh == isNew(n)
      s     == IF fresh THEN <<n, instances[n] + 1>> ELSE services[n]
  IN
  /\ stage = "install" /\ e \in todo
  /\ \A f \in todo : f.name = n => e.origin = "explicit" \/ f = e
  /\ fresh => instances[n] < MaxInstances
  /\ instances' = [instances EXCEPT ![n] = IF fresh THEN @ + 1 ELSE @]
  /\ services' = [services EXCEPT ![n] = s]
  /\ single' = IF fresh /\ n = Unnamed THEN s ELSE single
  /\ tools' = [tools EXCEPT ![s] = Clear(@, toolNames[n])]
  /\ cur' = e
  /\ adding' = ToolsOf[prepared[e]]
  /\ stage' = "add"
  /\ UNCHANGED <<sourceVars, up, sig, batch, todo, prepared, toolNames, known, applied>>

SharedBinding(e) ==    \* mutant: every executor captures one loop variable
  [entry |-> CHOOSE f \in batch : TRUE, doc |-> prepared[e]]

binding(e) == [entry |-> e, doc |-> prepared[e]]

\* One AddTool call, visible to open sessions at once.
AddTool(t) ==
  /\ stage = "add" /\ t \in adding
  /\ tools' = [tools EXCEPT ![services[cur.name]][t] = binding(cur)]
  /\ adding' = adding \ {t}
  /\ UNCHANGED <<sourceVars, stage, up, sig, batch, todo, prepared, cur,
                 services, single, toolNames, instances, known, applied>>

EndService ==
  /\ stage = "add" /\ adding = {}
  /\ toolNames' = [toolNames EXCEPT ![cur.name] = ToolsOf[prepared[cur]]]
  /\ todo' = todo \ {cur}
  /\ cur' = NoEntry
  /\ stage' = "install"
  /\ UNCHANGED <<sourceVars, up, sig, batch, prepared, adding,
                 services, single, instances, tools, known, applied>>

DropAbsentButSingle ==    \* mutant: single still answers after its removal
  LET live == {e.name : e \in batch}
  IN
  /\ stage = "install" /\ todo = {}
  /\ services' = [n \in Name |-> IF n \in live THEN services[n] ELSE NoServer]
  /\ toolNames' = [n \in Name |-> IF n \in live THEN toolNames[n] ELSE {}]
  /\ stage' = "publish"
  /\ UNCHANGED <<sourceVars, up, sig, batch, todo, prepared, cur, adding,
                 single, instances, tools, known, applied>>

\* The second loop: services the batch does not name are forgotten.  Their
\* mcp.Server keeps its tools and its sessions.
DropAbsent ==
  LET live == {e.name : e \in batch}
  IN
  /\ stage = "install" /\ todo = {}
  /\ services' = [n \in Name |-> IF n \in live THEN services[n] ELSE NoServer]
  /\ toolNames' = [n \in Name |-> IF n \in live THEN toolNames[n] ELSE {}]
  /\ single' = IF Unnamed \in live THEN single ELSE NoServer
  /\ stage' = "publish"
  /\ UNCHANGED <<sourceVars, up, sig, batch, todo, prepared, cur, adding,
                 instances, tools, known, applied>>

serviceNames == {n \in Name : services[n] # NoServer}

PublishLocked ==    \* mutant: apply returns without giving up the lock
  /\ stage = "publish"
  /\ known' = serviceNames
  /\ applied' = {<<e, prepared[e]>> : e \in batch}
  /\ up' = TRUE
  /\ LeaveApply
  /\ UNCHANGED <<sourceVars, stage, services, single, toolNames, instances, tools>>

\* SetServices (or, at startup, NewHandler), and the deferred unlock.
Publish ==
  /\ stage = "publish"
  /\ known' = serviceNames
  /\ applied' = {<<e, prepared[e]>> : e \in batch}
  /\ up' = TRUE
  /\ stage' = "idle"
  /\ LeaveApply
  /\ UNCHANGED <<sourceVars, services, single, toolNames, instances, tools>>
-----------------------------------------------------------------------------
\* The main goroutine until New returns, the reload goroutine afterwards.
ReloadStep ==
  \/ Start \/ RefuseStart
  \/ Reload \/ RejectReload
  \/ \E e \in Entry : BuildTools(e) \/ BuildFails(e) \/ BeginService(e)
  \/ Lock
  \/ \E t \in Tool : AddTool(t)
  \/ EndService
  \/ DropAbsent
  \/ Publish

EditStep ==
  /\ \E e \in Entry, c \in Content : Edit(e, c)
  /\ UNCHANGED <<reloadVars, publicVars>>

RegistryNext == ReloadStep \/ Hangup \/ EditStep

RegistrySpec == RegistryInit /\ [][RegistryNext]_registryVars
=============================================================================
