--------------------------- MODULE ServiceRouting ---------------------------
(***************************************************************************)
(* Requests on the HTTP transports against a registry that is reloaded     *)
(* meanwhile: requireKnownService (internal/server/handler/http.go), then  *)
(* the SDK's handler, which asks serverForRequest (internal/server/        *)
(* server.go) for an mcp.Server when the request opens a session and goes  *)
(* to the session's own mcp.Server when it does not.                       *)
(*                                                                         *)
(* The gate reads the route set twice under the handler's lock, the lookup *)
(* reads services under the server's, so a reload may run between any two  *)
(* of the three reads.                                                     *)
(***************************************************************************)
EXTENDS ServiceRegistry

CONSTANT Client    \* a client sends one request at a time

VARIABLES
  pc,              \* [Client -> where its request is]
  path,            \* [Client -> the name in its URL]
  session,         \* [Client -> the mcp.Server its session is on, or NoServer]
  reply            \* [Client -> the answer to its last request, or "none"]

clientVars == <<pc, path, session, reply>>
vars == <<registryVars, clientVars>>

Refusal == {"notFound", "badRequest"}

TypeOK ==
  /\ RegistryTypeOK
  /\ pc \in [Client -> {"idle", "gateAny", "gateName", "inner"}]
  /\ path \in [Client -> Name]
  /\ session \in [Client -> Server \cup {NoServer}]
  /\ reply \in [Client -> Refusal \cup {"none", "served"}]

Init ==
  /\ RegistryInit
  /\ pc = [c \in Client |-> "idle"]
  /\ path = [c \in Client |-> Unnamed]
  /\ session = [c \in Client |-> NoServer]
  /\ reply = [c \in Client |-> "none"]

\* Does a configuration with these routes answer on the path?
Routable(name, routes) == Unnamed \in routes \/ name \in routes
-----------------------------------------------------------------------------
\* A client keeps its URL for as long as its session is open.
Send(c, name) ==
  /\ up /\ mode # "stdio"
  /\ pc[c] = "idle"
  /\ session[c] # NoServer => name = path[c]
  /\ pc' = [pc EXCEPT ![c] = "gateAny"]
  /\ path' = [path EXCEPT ![c] = name]
  /\ reply' = [reply EXCEPT ![c] = "none"]
  /\ UNCHANGED <<registryVars, session>>

\* requireKnownService: h.knows("").
GateAny(c) ==
  /\ pc[c] = "gateAny"
  /\ pc' = [pc EXCEPT ![c] = IF Unnamed \in known THEN "inner" ELSE "gateName"]
  /\ UNCHANGED <<registryVars, path, session, reply>>

Answer(c, answer) ==
  /\ pc' = [pc EXCEPT ![c] = "idle"]
  /\ reply' = [reply EXCEPT ![c] = answer]

\* requireKnownService: h.knows(serviceNameFromPath(...)).
GateName(c) ==
  /\ pc[c] = "gateName"
  /\ IF path[c] \in known
       THEN pc' = [pc EXCEPT ![c] = "inner"] /\ UNCHANGED reply
       ELSE Answer(c, "notFound")
  /\ UNCHANGED <<registryVars, path, session>>

BoundServer(c) ==    \* mutant: one server for the listener, whatever the path
  IF serviceNames = {} THEN NoServer
  ELSE services[CHOOSE n \in serviceNames : TRUE]

serverForRequest(c) == IF single # NoServer THEN single ELSE services[path[c]]

OpenUnlocked(c) ==    \* mutant: services is read without the lock
  /\ pc[c] = "inner" /\ session[c] = NoServer
  /\ session' = [session EXCEPT ![c] = serverForRequest(c)]
  /\ Answer(c, IF serverForRequest(c) = NoServer THEN "badRequest" ELSE "served")
  /\ UNCHANGED <<registryVars, path>>

\* The SDK opens a session on what serverForRequest returns, and answers 400
\* when that is nil.
Open(c) ==
  /\ pc[c] = "inner" /\ session[c] = NoServer
  /\ ~locked
  /\ session' = [session EXCEPT ![c] = serverForRequest(c)]
  /\ Answer(c, IF serverForRequest(c) = NoServer THEN "badRequest" ELSE "served")
  /\ UNCHANGED <<registryVars, path>>

\* A request of an open session never asks for the server again.
UseSession(c) ==
  /\ pc[c] = "inner" /\ session[c] # NoServer
  /\ Answer(c, "served")
  /\ UNCHANGED <<registryVars, path, session>>

Disconnect(c) ==
  /\ pc[c] = "idle" /\ session[c] # NoServer /\ mode # "stdio"
  /\ session' = [session EXCEPT ![c] = NoServer]
  /\ UNCHANGED <<registryVars, pc, path, reply>>

\* ServeSTDIO binds the one pipe to the one server there is at that moment.
ServeSTDIO(c) ==
  /\ up /\ mode = "stdio" /\ ~locked
  /\ \A d \in Client : session[d] = NoServer
  /\ \E n \in serviceNames :
       /\ session' = [session EXCEPT ![c] = services[n]]
       /\ path' = [path EXCEPT ![c] = n]
  /\ UNCHANGED <<registryVars, pc, reply>>
-----------------------------------------------------------------------------
ClientStep(c) ==
  GateAny(c) \/ GateName(c) \/ Open(c) \/ UseSession(c)

Exited == stage = "exited" /\ UNCHANGED vars

Next ==
  \/ RegistryNext /\ UNCHANGED clientVars
  \/ \E c \in Client :
       \/ \E name \in Name : Send(c, name)
       \/ ClientStep(c) \/ Disconnect(c) \/ ServeSTDIO(c)
  \/ Exited

Spec == Init /\ [][Next]_vars

(***************************************************************************)
(* The goroutines of the process run on: the reload goroutine never stops  *)
(* inside apply or with a signal waiting, a request never stops inside the *)
(* handlers.  Open waits for a sync.RWMutex, which lets the readers that   *)
(* are waiting in before the next writer: strong fairness.  Nobody has to  *)
(* send a request, a signal or an edit.                                    *)
(***************************************************************************)
Fairness ==
  /\ WF_vars(ReloadStep /\ UNCHANGED clientVars)
  /\ \A c \in Client : WF_vars(ClientStep(c)) /\ SF_vars(Open(c))

FairSpec == Spec /\ Fairness
-----------------------------------------------------------------------------
(***************************************************************************)
(* The bookkeeping of apply: whenever nobody holds the lock, the handler   *)
(* routes exactly the services there are, and single is the unnamed one.   *)
(* (apply updates the three at different moments.)                         *)
(***************************************************************************)
RoutesInStep ==
  /\ ~locked => known = serviceNames
  /\ single = services[Unnamed]

(***************************************************************************)
(* A reload applies in full or not at all: outside the lock the services   *)
(* are those of the last published configuration, and each exposes exactly *)
(* the tools of the document published for it - none lingers from an older *)
(* one, none is left out by a reload that failed.                          *)
(***************************************************************************)
Exposes(s, e, d) ==
  \A t \in Tool :
    tools[s][t] = IF t \in ToolsOf[d] THEN [entry |-> e, doc |-> d] ELSE NoTool

AppliedInFull ==
  ~locked =>
    /\ serviceNames = {p[1].name : p \in applied}
    /\ \A n \in serviceNames : \E p \in applied :
         /\ p[1].name = n
         /\ Exposes(services[n], p[1], p[2])
         /\ toolNames[n] = ToolsOf[p[2]]

(***************************************************************************)
(* One upstream never answers for another: even in the middle of a reload  *)
(* an mcp.Server holds only tools read for a service of its own name.      *)
(***************************************************************************)
OwnToolsOnly ==
  \A s \in Server, t \in Tool :
    tools[s][t] # NoTool => tools[s][t].entry.name = s[1]

(***************************************************************************)
(* "Each configured service gets its own route": a session opened on the   *)
(* path of a configured service is a session with that service.            *)
(***************************************************************************)
OpensOwnService ==
  [][\A c \in Client :
       session'[c] \notin {session[c], NoServer} /\ path[c] \in known
         => session'[c][1] = path[c]]_vars

(***************************************************************************)
(* Existing services are updated in place: a service that a reload keeps   *)
(* keeps its mcp.Server, so no open session on it is cut off.              *)
(***************************************************************************)
ServersAreKept ==
  [][\A n \in Name :
       n \in serviceNames /\ services'[n] # NoServer => services'[n] = services[n]]_vars

(***************************************************************************)
(* A request is refused only when the published configuration really has   *)
(* no answer for its path at that moment, however reloads interleave with  *)
(* the three reads of the routing code.                                    *)
(***************************************************************************)
RefusalIsTrue ==
  [][\A c \in Client :
       reply[c] = "none" /\ reply'[c] \in Refusal => ~Routable(path[c], known)]_vars

(***************************************************************************)
(* No open session holds a list that no longer exists: whenever a service  *)
(* is configured, the sessions on it are on the mcp.Server that reloads    *)
(* keep up to date.                                                        *)
(***************************************************************************)
SessionsFollowReloads ==
  \A c \in Client :
    ~locked /\ session[c] # NoServer /\ session[c][1] \in known
      => session[c] = services[session[c][1]]

(***************************************************************************)
(* No edit is lost: a SIGHUP that arrives after the last edit, even in the *)
(* middle of a reload, ends with the disk's services being served.         *)
(* (edits = MaxEdits stands for a disk that no longer changes.)            *)
(***************************************************************************)
Usable ==
  /\ ~scanFails /\ ResolvedServices # {}
  /\ \A e \in ResolvedServices : disk[e] \in Doc

Current == applied = {<<e, disk[e]>> : e \in ResolvedServices}

HangupTakesEffect == sig /\ edits = MaxEdits /\ Usable ~> Current /\ ~locked
-----------------------------------------------------------------------------
(***************************************************************************)
(* What callers are promised: RoutingContract, in which a request is       *)
(* answered in one step from one configuration.  A request of an open      *)
(* session is answered at the gate, one that opens a session by the        *)
(* lookup.  A request is torn between the gate's two reads, when the       *)
(* first found no unnamed service and there is one by now.  On stdio       *)
(* nobody has a path.                                                      *)
(***************************************************************************)
Contract == INSTANCE RoutingContract WITH
  conf   <- known,
  path   <- [c \in Client |-> IF mode = "stdio" THEN Unnamed ELSE path[c]],
  asking <- [c \in Client |-> \/ pc[c] \in {"gateAny", "gateName"}
                              \/ pc[c] = "inner" /\ session[c] = NoServer],
  torn   <- {c \in Client : pc[c] = "gateName" /\ Unnamed \in known},
  answer <- [c \in Client |->
               IF pc[c] = "inner" /\ session[c] # NoServer THEN "served"
               ELSE IF reply[c] \in Refusal THEN "refused" ELSE reply[c]]

KeepsContract == Contract!Spec
=============================================================================
