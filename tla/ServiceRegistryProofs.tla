------------------------ MODULE ServiceRegistryProofs -----------------------
(***************************************************************************)
(* What holds of ServiceRouting for every set of names, documents, tools,  *)
(* clients and disks, checked by TLAPS.                                    *)
(***************************************************************************)
EXTENDS ServiceRouting, TLAPS

\* An entry names a service.
LEMMA EntryName == \A e \in Entry : e.name \in Name
  BY SourcesAssumption DEF Entry

\* The effective service list is made of entries.
LEMMA ResolvedEntries == ResolvedServices \subseteq Entry
  BY DEF ResolvedServices, explicitServices, subdirectories

(***************************************************************************)
(* Where apply is: what is left to do, what has been built, and that a     *)
(* service is being installed exactly in stage "add".                      *)
(***************************************************************************)
PhaseOK ==
  /\ stage = "add" => cur \in todo /\ adding \subseteq ToolsOf[prepared[cur]]
  /\ stage # "add" => cur = NoEntry
  /\ stage = "build" => \A e \in batch \ todo : prepared[e] \in Doc
  /\ locked => \A e \in batch : prepared[e] \in Doc
  /\ stage = "publish" => todo = {}

TypeInv == TypeOK /\ PhaseOK

USE DEF Stage, locked

LEMMA TypeInit == Init => TypeInv
<1> SUFFICES ASSUME Init PROVE TypeInv
  OBVIOUS
<1> USE SourcesAssumption, RegistryAssumption DEF Init, RegistryInit, SourcesInit
<1>1. SourcesTypeOK
  BY DEF SourcesTypeOK
<1>2. /\ services \in [Name -> Server \cup {NoServer}]
      /\ toolNames \in [Name -> SUBSET Tool]
      /\ instances \in [Name -> 0 .. MaxInstances]
      /\ prepared \in [Entry -> Doc \cup {Missing}]
  OBVIOUS
<1>3. tools \in [Server -> [Tool -> Registration \cup {NoTool}]]
  OBVIOUS
<1>4. RegistryTypeOK
  BY <1>1, <1>2, <1>3 DEF RegistryTypeOK
<1> QED
  BY <1>4 DEF TypeInv, TypeOK, PhaseOK

\* Requests do not touch the registry.
LEMMA TypeClient ==
  ASSUME TypeInv, NEW c \in Client,
         \/ \E name \in Name : Send(c, name)
         \/ ClientStep(c) \/ Disconnect(c) \/ ServeSTDIO(c)
  PROVE  TypeInv'
<1> USE DEF TypeInv
<1>1. RegistryTypeOK' /\ PhaseOK'
  BY DEF TypeOK, RegistryTypeOK, SourcesTypeOK, PhaseOK, registryVars, sourceVars,
         reloadVars, publicVars, Send, ClientStep, GateAny, GateName, Open,
         UseSession, Disconnect, ServeSTDIO
<1>2. /\ pc \in [Client -> {"idle", "gateAny", "gateName", "inner"}]
      /\ path \in [Client -> Name]
      /\ session \in [Client -> Server \cup {NoServer}]
      /\ reply \in [Client -> Refusal \cup {"none", "served"}]
      /\ services \in [Name -> Server \cup {NoServer}]
      /\ single \in Server \cup {NoServer}
  BY DEF TypeOK, RegistryTypeOK
<1>3. CASE \E name \in Name : Send(c, name)
  BY <1>1, <1>2, <1>3 DEF TypeOK, Send
<1>4. CASE GateAny(c)
  BY <1>1, <1>2, <1>4 DEF TypeOK, GateAny
<1>5. CASE GateName(c)
  BY <1>1, <1>2, <1>5 DEF TypeOK, GateName, Answer, Refusal
<1>6. CASE Open(c)
  <2>1. serverForRequest(c) \in Server \cup {NoServer}
    BY <1>2 DEF serverForRequest
  <2> QED BY <1>1, <1>2, <1>6, <2>1 DEF TypeOK, Open, Answer, Refusal
<1>7. CASE UseSession(c)
  BY <1>1, <1>2, <1>7 DEF TypeOK, UseSession, Answer
<1>8. CASE Disconnect(c)
  BY <1>1, <1>2, <1>8 DEF TypeOK, Disconnect
<1>9. CASE ServeSTDIO(c)
  BY <1>1, <1>2, <1>9 DEF TypeOK, ServeSTDIO, serviceNames
<1> QED
  BY <1>3, <1>4, <1>5, <1>6, <1>7, <1>8, <1>9 DEF ClientStep

\* Every step of the registry keeps the registry's types and phases.
LEMMA TypeRegistry ==
  ASSUME RegistryTypeOK, PhaseOK, RegistryNext
  PROVE  RegistryTypeOK' /\ PhaseOK'
<1> USE SourcesAssumption, RegistryAssumption
<1> USE DEF RegistryTypeOK, SourcesTypeOK, PhaseOK, sourceVars, reloadVars, publicVars
<1>1. CASE Start \/ Reload
  BY <1>1, ResolvedEntries DEF Start, Reload, EnterApply
<1>2. CASE RefuseStart
  BY <1>2 DEF RefuseStart
<1>3. CASE Hangup \/ RejectReload
  BY <1>3 DEF Hangup, RejectReload
<1>4. ASSUME NEW e \in Entry, BuildTools(e)
      PROVE  RegistryTypeOK' /\ PhaseOK'
  BY <1>4 DEF BuildTools
<1>5. ASSUME NEW e \in Entry, BuildFails(e)
      PROVE  RegistryTypeOK' /\ PhaseOK'
  BY <1>5 DEF BuildFails, LeaveApply
<1>6. CASE Lock
  BY <1>6 DEF Lock
<1>7. ASSUME NEW e \in Entry, BeginService(e)
      PROVE  RegistryTypeOK' /\ PhaseOK'
  <2> DEFINE n == e.name
             s == IF isNew(n) THEN <<n, instances[n] + 1>> ELSE services[n]
  <2>1. n \in Name /\ e \in todo /\ e \in batch /\ prepared[e] \in Doc
    BY <1>7, EntryName DEF BeginService
  <2>2. s \in Server
    BY <1>7, <2>1 DEF BeginService, isNew, Server
  <2>3. services' \in [Name -> Server \cup {NoServer}]
    BY <1>7, <2>1, <2>2 DEF BeginService
  <2>4. single' \in Server \cup {NoServer}
    BY <1>7, <2>2 DEF BeginService
  <2>5. instances' \in [Name -> 0 .. MaxInstances]
    BY <1>7, <2>1 DEF BeginService
  <2>6. Clear(tools[s], toolNames[n]) \in [Tool -> Registration \cup {NoTool}]
    BY <2>1, <2>2 DEF Clear
  <2>7. tools' \in [Server -> [Tool -> Registration \cup {NoTool}]]
    BY <1>7, <2>2, <2>6 DEF BeginService
  <2>8. cur' = e /\ stage' = "add" /\ adding' = ToolsOf[prepared[e]]
        /\ todo' = todo /\ prepared' = prepared /\ batch' = batch
    BY <1>7 DEF BeginService
  <2>9. adding' \subseteq Tool
    BY <2>1, <2>8
  <2> QED
    BY <1>7, <2>1, <2>3, <2>4, <2>5, <2>7, <2>8, <2>9 DEF BeginService
<1>8. ASSUME NEW t \in Tool, AddTool(t)
      PROVE  RegistryTypeOK' /\ PhaseOK'
  <2>1. binding(cur) \in Registration
    BY <1>8 DEF AddTool, binding, Registration
  <2>2. tools' \in [Server -> [Tool -> Registration \cup {NoTool}]]
    BY <1>8, <2>1 DEF AddTool
  <2> QED
    BY <1>8, <2>2 DEF AddTool
<1>9. CASE EndService
  <2>1. cur.name \in Name /\ cur \in batch /\ prepared[cur] \in Doc
    BY <1>9, EntryName DEF EndService
  <2> QED
    BY <1>9, <2>1 DEF EndService
<1>10. CASE DropAbsent
  BY <1>10 DEF DropAbsent
<1>11. CASE Publish
  BY <1>11 DEF Publish, LeaveApply, serviceNames
<1>12. CASE EditStep
  BY <1>12 DEF EditStep, Edit
<1> QED
  BY <1>1, <1>2, <1>3, <1>4, <1>5, <1>6, <1>7, <1>8, <1>9, <1>10, <1>11, <1>12
  DEF RegistryNext, ReloadStep

\* No step of the registry or of a client leaves the types.
LEMMA TypeStep == TypeInv /\ [Next]_vars => TypeInv'
<1> SUFFICES ASSUME TypeInv, [Next]_vars PROVE TypeInv'
  OBVIOUS
<1>1. CASE RegistryNext /\ UNCHANGED clientVars
  BY <1>1, TypeRegistry DEF TypeInv, TypeOK, clientVars, Server
<1>2. ASSUME NEW c \in Client,
             \/ \E name \in Name : Send(c, name)
             \/ ClientStep(c) \/ Disconnect(c) \/ ServeSTDIO(c)
      PROVE  TypeInv'
  BY <1>2, TypeClient
<1>3. CASE UNCHANGED vars
  BY <1>3 DEF TypeInv, TypeOK, RegistryTypeOK, SourcesTypeOK, PhaseOK, vars,
              registryVars, sourceVars, reloadVars, publicVars, clientVars
<1> QED
  BY <1>1, <1>2, <1>3 DEF Next, Exited

(***************************************************************************)
(* Type correctness: every variable keeps to its set of values, with any   *)
(* number of services, documents, edits, reloads and clients.              *)
(***************************************************************************)
LEMMA TypeInvariant == Spec => []TypeInv
  BY TypeStep, TypeInit, PTL DEF Spec

\* Registry, routes, sessions and answers keep to their sets, whatever the
\* operator, the clients and the reload goroutine do and in whichever order.
THEOREM TypeCorrect == Spec => []TypeOK
<1>1. TypeInv => TypeOK
  BY DEF TypeInv
<1> QED BY <1>1, TypeInvariant, PTL
-----------------------------------------------------------------------------
(***************************************************************************)
(* The bookkeeping of apply, step by step.  An mcp.Server belongs to one   *)
(* name and is empty until it is created; outside the installation of its  *)
(* own service it exposes only tools recorded in toolNames, which is what  *)
(* lets RemoveTools clear it; during the installation it exposes what has  *)
(* been added so far; a service already installed exposes one document of  *)
(* the batch in full.                                                      *)
(***************************************************************************)
ServersByName ==
  \A n \in Name : services[n] # NoServer =>
    services[n][1] = n /\ services[n][2] <= instances[n]

UnusedServersEmpty ==
  \A n \in Name : \A k \in 1 .. MaxInstances : \A t \in Tool :
    k > instances[n] => tools[<<n, k>>][t] = NoTool

RecordedTools ==
  \A n \in Name : \A t \in Tool :
    /\ services[n] # NoServer
    /\ ~(stage = "add" /\ cur.name = n)
    /\ tools[services[n]][t] # NoTool
    => t \in toolNames[n]

AddedSoFar ==
  stage = "add" =>
    /\ services[cur.name] # NoServer
    /\ \A t \in Tool :
         tools[services[cur.name]][t] =
           IF t \in ToolsOf[prepared[cur]] \ adding THEN binding(cur) ELSE NoTool

Installed(e) ==
  \E f \in batch :
    /\ f.name = e.name
    /\ Exposes(services[e.name], f, prepared[f])
    /\ toolNames[e.name] = ToolsOf[prepared[f]]

DoneInstalled ==
  locked => \A e \in batch \ todo :
    /\ services[e.name] # NoServer
    /\ (stage = "add" /\ cur.name = e.name) \/ Installed(e)

OnlyTheBatch == stage = "publish" => serviceNames = {e.name : e \in batch}

BookInv ==
  /\ ServersByName /\ UnusedServersEmpty /\ RecordedTools /\ AddedSoFar
  /\ DoneInstalled /\ OnlyTheBatch
  /\ RoutesInStep /\ AppliedInFull /\ OwnToolsOnly

IInv == TypeInv /\ BookInv

LEMMA BookInit == Init => BookInv
<1> SUFFICES ASSUME Init PROVE BookInv
  OBVIOUS
<1> USE SourcesAssumption, RegistryAssumption DEF Init, RegistryInit, SourcesInit
<1>1. ServersByName /\ RecordedTools /\ AddedSoFar /\ DoneInstalled /\ OnlyTheBatch
  BY DEF ServersByName, RecordedTools, AddedSoFar, DoneInstalled, OnlyTheBatch
<1>2. UnusedServersEmpty
  BY DEF UnusedServersEmpty, Server
<1>3. RoutesInStep /\ AppliedInFull
  BY DEF RoutesInStep, AppliedInFull, serviceNames
<1>4. OwnToolsOnly
  BY DEF OwnToolsOnly
<1> QED
  BY <1>1, <1>2, <1>3, <1>4 DEF BookInv

\* A step that leaves what is public alone and neither takes nor holds the
\* lock, and the step that takes it with everything still to do.
LEMMA BookFrame ==
  ASSUME BookInv, UNCHANGED publicVars, ~locked,
         ~locked' \/ (stage' = "install" /\ batch' \ todo' = {})
  PROVE  BookInv'
<1> USE DEF BookInv, publicVars
<1>1. ServersByName' /\ UnusedServersEmpty' /\ OwnToolsOnly'
  BY DEF ServersByName, UnusedServersEmpty, OwnToolsOnly
<1>2. RecordedTools' /\ AddedSoFar' /\ DoneInstalled' /\ OnlyTheBatch'
  BY DEF RecordedTools, AddedSoFar, DoneInstalled, OnlyTheBatch
<1>3. RoutesInStep' /\ AppliedInFull'
  BY DEF RoutesInStep, AppliedInFull, serviceNames, Exposes
<1> QED
  BY <1>1, <1>2, <1>3

\* Steps that touch neither the registry's stage nor anything it holds.
LEMMA BookStutter ==
  ASSUME BookInv, UNCHANGED <<publicVars, stage, batch, todo, prepared, cur, adding>>
  PROVE  BookInv'
<1> USE DEF BookInv, publicVars
<1>1. ServersByName' /\ UnusedServersEmpty' /\ OwnToolsOnly' /\ RecordedTools'
  BY DEF ServersByName, UnusedServersEmpty, OwnToolsOnly, RecordedTools
<1>2. AddedSoFar'
  BY DEF AddedSoFar, binding
<1>3. DoneInstalled'
  BY DEF DoneInstalled, Installed, Exposes
<1>4. OnlyTheBatch' /\ RoutesInStep'
  BY DEF OnlyTheBatch, RoutesInStep, serviceNames
<1>5. AppliedInFull'
  BY DEF AppliedInFull, serviceNames, Exposes
<1> QED
  BY <1>1, <1>2, <1>3, <1>4, <1>5

LEMMA BookBeginService ==
  ASSUME TypeInv, BookInv, NEW e \in Entry, BeginService(e)
  PROVE  BookInv'
<1> USE SourcesAssumption, RegistryAssumption
<1> DEFINE n == e.name
           fresh == isNew(n)
           s == IF fresh THEN <<n, instances[n] + 1>> ELSE services[n]
<1>1. /\ n \in Name /\ e \in batch /\ e \in todo
      /\ instances \in [Name -> 0 .. MaxInstances]
      /\ services \in [Name -> Server \cup {NoServer}]
      /\ tools \in [Server -> [Tool -> Registration \cup {NoTool}]]
      /\ batch \subseteq Entry
      /\ stage = "install" /\ stage' = "add" /\ cur' = e
      /\ UNCHANGED <<batch, todo, prepared, toolNames, known, applied>>
      /\ adding' = ToolsOf[prepared[e]]
  BY EntryName DEF BeginService, TypeInv, TypeOK, RegistryTypeOK
<1>2. /\ s \in Server /\ s # NoServer /\ s[1] = n
      /\ fresh => s = <<n, instances[n] + 1>> /\ instances[n] + 1 \in 1 .. MaxInstances
      /\ ~fresh => s = services[n]
  BY <1>1 DEF BeginService, isNew, Server, BookInv, ServersByName
<1>3. /\ services' = [services EXCEPT ![n] = s]
      /\ instances' = [instances EXCEPT ![n] = IF fresh THEN @ + 1 ELSE @]
      /\ tools' = [tools EXCEPT ![s] = Clear(@, toolNames[n])]
      /\ single' = IF fresh /\ n = Unnamed THEN s ELSE single
  BY DEF BeginService
<1>4. ServersByName'
  BY <1>1, <1>2, <1>3 DEF BookInv, ServersByName, Server
<1>5. \A t \in Tool : tools[s][t] # NoTool => t \in toolNames[n]
  <2>1. CASE fresh
    BY <1>1, <1>2, <2>1 DEF BookInv, UnusedServersEmpty
  <2>2. CASE ~fresh
    BY <1>1, <1>2, <2>2 DEF BookInv, RecordedTools, isNew
  <2> QED BY <2>1, <2>2
<1>6. \A t \in Tool : tools'[s][t] = NoTool
  BY <1>1, <1>2, <1>3, <1>5 DEF Clear
<1>7. \A r \in Server : r # s => tools'[r] = tools[r]
  BY <1>1, <1>2, <1>3
<1>8. \A m \in Name : m # n /\ services[m] # NoServer =>
        services'[m] = services[m] /\ tools'[services[m]] = tools[services[m]]
  BY <1>1, <1>2, <1>3, <1>7 DEF BookInv, ServersByName
<1>9. UnusedServersEmpty'
  <2> SUFFICES ASSUME NEW m \in Name, NEW k \in 1 .. MaxInstances, NEW t \in Tool,
                      k > instances'[m]
               PROVE  tools'[<<m, k>>][t] = NoTool
    BY DEF UnusedServersEmpty
  <2>1. <<m, k>> \in Server
    BY DEF Server
  <2>2. k > instances[m]
    BY <1>1, <1>3
  <2> QED
    BY <1>6, <1>7, <2>1, <2>2 DEF BookInv, UnusedServersEmpty
<1>10. RecordedTools'
  <2> SUFFICES ASSUME NEW m \in Name, NEW t \in Tool, m # n, services'[m] # NoServer,
                      tools'[services'[m]][t] # NoTool
               PROVE  t \in toolNames[m]
    BY <1>1 DEF RecordedTools
  <2>1. services[m] # NoServer /\ tools[services[m]][t] # NoTool
    BY <1>1, <1>3, <1>8
  <2> QED
    BY <1>1, <2>1 DEF BookInv, RecordedTools
<1>11. AddedSoFar'
  <2>1. services'[n] = s
    BY <1>1, <1>3
  <2> QED BY <1>1, <1>2, <1>6, <2>1 DEF AddedSoFar
<1>12. DoneInstalled'
  <2> SUFFICES ASSUME NEW f \in batch \ todo, f.name # n
               PROVE  services'[f.name] # NoServer /\ Installed(f)'
    BY <1>1, <1>2, <1>3 DEF DoneInstalled
  <2>1. f.name \in Name /\ services[f.name] # NoServer /\ Installed(f)
    BY <1>1, EntryName DEF BookInv, DoneInstalled
  <2>2. services'[f.name] = services[f.name]
        /\ tools'[services[f.name]] = tools[services[f.name]]
    BY <1>8, <2>1
  <2>3. PICK g \in batch : /\ g.name = f.name
                           /\ Exposes(services[f.name], g, prepared[g])
                           /\ toolNames[f.name] = ToolsOf[prepared[g]]
    BY <2>1 DEF Installed
  <2>4. Exposes(services[f.name], g, prepared[g])'
    BY <1>1, <2>2, <2>3 DEF Exposes
  <2> QED
    BY <1>1, <2>1, <2>2, <2>3, <2>4 DEF Installed
<1>13. OnlyTheBatch' /\ AppliedInFull'
  BY <1>1 DEF OnlyTheBatch, AppliedInFull
<1>14. RoutesInStep'
  <2>1. single' = services'[Unnamed]
    BY <1>1, <1>2, <1>3 DEF BookInv, RoutesInStep, isNew
  <2> QED BY <1>1, <2>1 DEF RoutesInStep
<1>15. OwnToolsOnly'
  BY <1>2, <1>6, <1>7 DEF BookInv, OwnToolsOnly
<1> QED
  BY <1>4, <1>9, <1>10, <1>11, <1>12, <1>13, <1>14, <1>15 DEF BookInv

LEMMA BookAddTool ==
  ASSUME TypeInv, BookInv, NEW u \in Tool, AddTool(u)
  PROVE  BookInv'
<1> USE SourcesAssumption, RegistryAssumption
<1> DEFINE n == cur.name
           s == services[n]
<1>1. /\ n \in Name /\ cur \in batch /\ cur \in todo /\ prepared[cur] \in Doc
      /\ s \in Server /\ s[1] = n
      /\ services \in [Name -> Server \cup {NoServer}]
      /\ tools \in [Server -> [Tool -> Registration \cup {NoTool}]]
      /\ batch \subseteq Entry
      /\ adding \subseteq ToolsOf[prepared[cur]]
  BY EntryName DEF AddTool, TypeInv, TypeOK, RegistryTypeOK, PhaseOK, BookInv,
                   ServersByName, AddedSoFar
<1>2. /\ stage = "add" /\ stage' = "add" /\ u \in adding /\ adding' = adding \ {u}
      /\ tools' = [tools EXCEPT ![s][u] = binding(cur)]
      /\ UNCHANGED <<batch, todo, prepared, cur, services, single, toolNames,
                     instances, known, applied>>
  BY DEF AddTool
<1>3. binding(cur) # NoTool /\ binding(cur).entry.name = n
  BY <1>1 DEF binding, Registration
<1>4. \A t \in Tool : tools'[s][t] = IF t = u THEN binding(cur) ELSE tools[s][t]
  BY <1>1, <1>2
<1>5. \A r \in Server : r # s => tools'[r] = tools[r]
  BY <1>1, <1>2
<1>6. \A m \in Name : m # n /\ services[m] # NoServer
        => services[m] # s /\ tools'[services[m]] = tools[services[m]]
  BY <1>1, <1>5 DEF BookInv, ServersByName
<1>7. ServersByName' /\ RoutesInStep' /\ OnlyTheBatch' /\ AppliedInFull'
  BY <1>2 DEF BookInv, ServersByName, RoutesInStep, OnlyTheBatch, AppliedInFull
<1>8. UnusedServersEmpty'
  <2> SUFFICES ASSUME NEW m \in Name, NEW k \in 1 .. MaxInstances, NEW t \in Tool,
                      k > instances[m]
               PROVE  tools'[<<m, k>>][t] = NoTool
    BY <1>2 DEF UnusedServersEmpty
  <2>1. s[2] \in Nat /\ s[2] <= instances[n] /\ instances[m] \in Nat
    BY <1>1 DEF BookInv, ServersByName, Server, TypeInv, TypeOK, RegistryTypeOK
  <2>2. <<m, k>> \in Server /\ <<m, k>> # s
    BY <1>1, <2>1 DEF Server
  <2> QED
    BY <1>5, <2>2 DEF BookInv, UnusedServersEmpty
<1>9. RecordedTools'
  BY <1>2, <1>6 DEF BookInv, RecordedTools
<1>10. AddedSoFar'
  <2>1. \A t \in Tool : tools[s][t] =
          IF t \in ToolsOf[prepared[cur]] \ adding THEN binding(cur) ELSE NoTool
    BY <1>2 DEF BookInv, AddedSoFar
  <2>2. \A t \in Tool : tools'[s][t] =
          IF t \in ToolsOf[prepared[cur]] \ adding' THEN binding(cur) ELSE NoTool
    BY <1>1, <1>2, <1>4, <2>1
  <2> QED
    BY <1>1, <1>2, <2>2 DEF AddedSoFar, binding
<1>11. DoneInstalled'
  <2> SUFFICES ASSUME NEW f \in batch \ todo, f.name # n
               PROVE  services[f.name] # NoServer /\ Installed(f)'
    BY <1>1, <1>2 DEF BookInv, DoneInstalled
  <2>1. f.name \in Name /\ services[f.name] # NoServer /\ Installed(f)
    BY <1>1, <1>2, EntryName DEF BookInv, DoneInstalled
  <2>2. tools'[services[f.name]] = tools[services[f.name]]
    BY <1>6, <2>1
  <2>3. PICK g \in batch : /\ g.name = f.name
                           /\ Exposes(services[f.name], g, prepared[g])
                           /\ toolNames[f.name] = ToolsOf[prepared[g]]
    BY <2>1 DEF Installed
  <2>4. Exposes(services[f.name], g, prepared[g])'
    BY <1>2, <2>2, <2>3 DEF Exposes
  <2> QED
    BY <1>2, <2>1, <2>3, <2>4 DEF Installed
<1>12. OwnToolsOnly'
  BY <1>1, <1>3, <1>4, <1>5 DEF BookInv, OwnToolsOnly
<1> QED
  BY <1>7, <1>8, <1>9, <1>10, <1>11, <1>12 DEF BookInv

LEMMA BookEndService ==
  ASSUME TypeInv, BookInv, EndService
  PROVE  BookInv'
<1> USE SourcesAssumption, RegistryAssumption
<1> DEFINE n == cur.name
<1>1. /\ n \in Name /\ cur \in batch /\ prepared[cur] \in Doc
      /\ services[n] # NoServer
      /\ toolNames \in [Name -> SUBSET Tool]
      /\ batch \subseteq Entry
  BY EntryName DEF EndService, TypeInv, TypeOK, RegistryTypeOK, PhaseOK, BookInv,
                   AddedSoFar
<1>2. /\ stage = "add" /\ stage' = "install" /\ adding = {}
      /\ toolNames' = [toolNames EXCEPT ![n] = ToolsOf[prepared[cur]]]
      /\ todo' = todo \ {cur}
      /\ UNCHANGED <<batch, prepared, services, single, instances, tools, known, applied>>
  BY DEF EndService
<1>3. \A t \in Tool : tools[services[n]][t] =
        IF t \in ToolsOf[prepared[cur]] THEN binding(cur) ELSE NoTool
  BY <1>2 DEF BookInv, AddedSoFar
<1>4. Exposes(services[n], cur, prepared[cur])
  BY <1>3 DEF Exposes, binding
<1>5. /\ ServersByName' /\ UnusedServersEmpty' /\ OwnToolsOnly'
      /\ RoutesInStep' /\ OnlyTheBatch' /\ AppliedInFull' /\ AddedSoFar'
  BY <1>2 DEF BookInv, ServersByName, UnusedServersEmpty, OwnToolsOnly, RoutesInStep,
              OnlyTheBatch, AppliedInFull, AddedSoFar
<1>6. RecordedTools'
  <2> SUFFICES ASSUME NEW m \in Name, NEW t \in Tool, services[m] # NoServer,
                      tools[services[m]][t] # NoTool
               PROVE  t \in toolNames'[m]
    BY <1>2 DEF RecordedTools
  <2>1. CASE m = n
    BY <1>1, <1>2, <1>3, <2>1
  <2>2. CASE m # n
    BY <1>1, <1>2, <2>2 DEF BookInv, RecordedTools
  <2> QED BY <2>1, <2>2
<1>7. DoneInstalled'
  <2> SUFFICES ASSUME NEW f \in batch \ todo'
               PROVE  services[f.name] # NoServer /\ Installed(f)'
    BY <1>2 DEF DoneInstalled
  <2>1. CASE f.name = n
    BY <1>1, <1>2, <1>4, <2>1 DEF Installed, Exposes
  <2>2. CASE f.name # n
    <3>1. f \in batch \ todo /\ f.name \in Name
      BY <1>1, <1>2, <2>2, EntryName
    <3>2. services[f.name] # NoServer /\ Installed(f)
      BY <1>2, <2>2, <3>1 DEF BookInv, DoneInstalled
    <3>3. toolNames'[f.name] = toolNames[f.name]
      BY <1>1, <1>2, <2>2, <3>1
    <3> QED
      BY <1>2, <3>2, <3>3 DEF Installed, Exposes
  <2> QED BY <2>1, <2>2
<1> QED
  BY <1>5, <1>6, <1>7 DEF BookInv

LEMMA BookDropAbsent ==
  ASSUME TypeInv, BookInv, DropAbsent
  PROVE  BookInv'
<1> USE SourcesAssumption, RegistryAssumption
<1> DEFINE live == {e.name : e \in batch}
<1>1. /\ stage = "install" /\ stage' = "publish" /\ todo = {}
      /\ services' = [m \in Name |-> IF m \in live THEN services[m] ELSE NoServer]
      /\ toolNames' = [m \in Name |-> IF m \in live THEN toolNames[m] ELSE {}]
      /\ single' = IF Unnamed \in live THEN single ELSE NoServer
      /\ UNCHANGED <<batch, todo, prepared, cur, instances, tools, known, applied>>
  BY DEF DropAbsent
<1>2. batch \subseteq Entry /\ live \subseteq Name
  BY EntryName DEF TypeInv, TypeOK, RegistryTypeOK
<1>3. \A e \in batch : services[e.name] # NoServer /\ Installed(e)
  BY <1>1 DEF BookInv, DoneInstalled
<1>4. /\ ServersByName' /\ UnusedServersEmpty' /\ OwnToolsOnly'
      /\ AppliedInFull' /\ AddedSoFar' /\ RoutesInStep'
  BY <1>1 DEF BookInv, ServersByName, UnusedServersEmpty, OwnToolsOnly, RoutesInStep,
              AppliedInFull, AddedSoFar
<1>5. RecordedTools'
  BY <1>1 DEF BookInv, RecordedTools
<1>6. DoneInstalled'
  <2> SUFFICES ASSUME NEW f \in batch
               PROVE  services'[f.name] # NoServer /\ Installed(f)'
    BY <1>1 DEF DoneInstalled
  <2>1. f.name \in live /\ f.name \in Name
    BY <1>2
  <2>2. services'[f.name] = services[f.name] /\ toolNames'[f.name] = toolNames[f.name]
    BY <1>1, <2>1
  <2>3. PICK g \in batch : /\ g.name = f.name
                           /\ Exposes(services[f.name], g, prepared[g])
                           /\ toolNames[f.name] = ToolsOf[prepared[g]]
    BY <1>3 DEF Installed
  <2>4. Exposes(services[f.name], g, prepared[g])'
    BY <1>1, <2>2, <2>3 DEF Exposes
  <2> QED
    BY <1>1, <1>3, <2>2, <2>3, <2>4 DEF Installed
<1>7. OnlyTheBatch'
  BY <1>1, <1>2, <1>3 DEF OnlyTheBatch, serviceNames
<1> QED
  BY <1>4, <1>5, <1>6, <1>7 DEF BookInv

LEMMA BookPublish ==
  ASSUME TypeInv, BookInv, Publish
  PROVE  BookInv'
<1>1. /\ stage = "publish" /\ stage' = "idle" /\ todo = {} /\ known' = serviceNames
      /\ applied' = {<<e, prepared[e]>> : e \in batch}
      /\ UNCHANGED <<services, single, toolNames, instances, tools>>
  BY DEF Publish, TypeInv, PhaseOK
<1>2. \A e \in batch : services[e.name] # NoServer /\ Installed(e)
  BY <1>1 DEF BookInv, DoneInstalled
<1>3. serviceNames = {e.name : e \in batch}
  BY <1>1 DEF BookInv, OnlyTheBatch
<1>4. /\ ServersByName' /\ UnusedServersEmpty' /\ OwnToolsOnly'
      /\ AddedSoFar' /\ RoutesInStep' /\ DoneInstalled' /\ OnlyTheBatch'
  BY <1>1 DEF BookInv, ServersByName, UnusedServersEmpty, OwnToolsOnly, RoutesInStep,
              AddedSoFar, DoneInstalled, OnlyTheBatch, serviceNames
<1>5. RecordedTools'
  BY <1>1 DEF BookInv, RecordedTools
<1>6. serviceNames' = serviceNames
  BY <1>1 DEF serviceNames
<1>7. {p[1].name : p \in applied'} = {e.name : e \in batch}
  <2>1. ASSUME NEW e \in batch PROVE \E p \in applied' : p[1].name = e.name
    <3>1. <<e, prepared[e]>> \in applied' /\ <<e, prepared[e]>>[1] = e
      BY <1>1
    <3> QED BY <3>1
  <2>2. ASSUME NEW p \in applied' PROVE \E e \in batch : p[1].name = e.name
    BY <1>1
  <2> QED BY <2>1, <2>2
<1>8. ASSUME NEW m \in serviceNames
      PROVE  \E p \in applied' : /\ p[1].name = m
                                 /\ Exposes(services[m], p[1], p[2])
                                 /\ toolNames[m] = ToolsOf[p[2]]
  <2>1. PICK e \in batch : e.name = m
    BY <1>3
  <2>2. PICK f \in batch : /\ f.name = m
                           /\ Exposes(services[m], f, prepared[f])
                           /\ toolNames[m] = ToolsOf[prepared[f]]
    BY <1>2, <2>1 DEF Installed
  <2>3. <<f, prepared[f]>> \in applied'
    BY <1>1
  <2> QED BY <2>2, <2>3
<1>9. AppliedInFull'
  <2>1. serviceNames' = {p[1].name : p \in applied'}
    BY <1>3, <1>6, <1>7
  <2>2. \A m \in serviceNames' : \E p \in applied' :
          /\ p[1].name = m
          /\ Exposes(services[m], p[1], p[2])'
          /\ toolNames'[m] = ToolsOf[p[2]]
    BY <1>1, <1>6, <1>8 DEF Exposes
  <2> QED BY <1>1, <2>1, <2>2 DEF AppliedInFull, Exposes
<1> QED
  BY <1>4, <1>5, <1>9 DEF BookInv

\* Nor does one leave the bookkeeping of apply.
LEMMA BookStep == IInv /\ [Next]_vars => IInv'
<1> SUFFICES ASSUME TypeInv, BookInv, [Next]_vars PROVE BookInv'
  BY TypeStep DEF IInv
<1>1. CASE Start \/ Reload \/ RefuseStart
  BY <1>1, BookFrame DEF Start, Reload, RefuseStart, EnterApply
<1>2. CASE Hangup \/ RejectReload \/ EditStep
  BY <1>2, BookStutter DEF Hangup, RejectReload, EditStep, reloadVars
<1>3. ASSUME NEW e \in Entry, BuildTools(e) \/ BuildFails(e)
      PROVE  BookInv'
  BY <1>3, BookFrame DEF BuildTools, BuildFails
<1>4. CASE Lock
  BY <1>4, BookFrame DEF Lock
<1>5. ASSUME NEW e \in Entry, BeginService(e) PROVE BookInv'
  BY <1>5, BookBeginService
<1>6. ASSUME NEW t \in Tool, AddTool(t) PROVE BookInv'
  BY <1>6, BookAddTool
<1>7. CASE EndService
  BY <1>7, BookEndService
<1>8. CASE DropAbsent
  BY <1>8, BookDropAbsent
<1>9. CASE Publish
  BY <1>9, BookPublish
<1>10. CASE UNCHANGED registryVars
  BY <1>10, BookStutter DEF registryVars, reloadVars
<1>11. ASSUME NEW c \in Client,
              \/ \E name \in Name : Send(c, name)
              \/ ClientStep(c) \/ Disconnect(c) \/ ServeSTDIO(c)
       PROVE  UNCHANGED registryVars
  BY <1>11 DEF Send, ClientStep, GateAny, GateName, Open, UseSession, Disconnect,
               ServeSTDIO
<1> QED
  BY <1>1, <1>2, <1>3, <1>4, <1>5, <1>6, <1>7, <1>8, <1>9, <1>10, <1>11
  DEF Next, RegistryNext, ReloadStep, Exited, vars

(***************************************************************************)
(* The bookkeeping of apply is right whatever is edited, reloaded or fails *)
(* and in whatever order: see BookInv.                                     *)
(***************************************************************************)
THEOREM BookkeepingCorrect == Spec => []IInv
<1>1. Init => IInv
  BY TypeInit, BookInit DEF IInv
<1> QED BY <1>1, BookStep, PTL DEF Spec

(***************************************************************************)
(* The three routing tables agree outside the lock.                        *)
(***************************************************************************)
THEOREM TablesInStep == Spec => []RoutesInStep
<1>1. IInv => RoutesInStep
  BY DEF IInv, BookInv
<1> QED BY <1>1, BookkeepingCorrect, PTL

(***************************************************************************)
(* A reload applies in full or not at all.                                 *)
(***************************************************************************)
THEOREM ReloadsApplyInFull == Spec => []AppliedInFull
<1>1. IInv => AppliedInFull
  BY DEF IInv, BookInv
<1> QED BY <1>1, BookkeepingCorrect, PTL

(***************************************************************************)
(* No mcp.Server ever holds a tool of another service.                     *)
(***************************************************************************)
THEOREM ServicesAreIsolated == Spec => []OwnToolsOnly
<1>1. IInv => OwnToolsOnly
  BY DEF IInv, BookInv
<1> QED BY <1>1, BookkeepingCorrect, PTL

KeptNow == \A n \in Name : n \in serviceNames /\ services'[n] # NoServer
                             => services'[n] = services[n]

\* No step of the routing exchanges the mcp.Server of a service it keeps.
LEMMA KeptStep == IInv /\ [Next]_vars => [KeptNow]_vars
<1> SUFFICES ASSUME IInv, Next PROVE KeptNow
  BY DEF vars
<1> SUFFICES ASSUME NEW n \in Name, n \in serviceNames, services'[n] # NoServer
             PROVE  services'[n] = services[n]
  BY DEF KeptNow
<1>1. services \in [Name -> Server \cup {NoServer}] /\ services[n] # NoServer
  BY DEF IInv, TypeInv, TypeOK, RegistryTypeOK, serviceNames
<1>2. ASSUME NEW e \in Entry, BeginService(e) PROVE services'[n] = services[n]
  BY <1>1, <1>2, EntryName DEF BeginService, isNew
<1>3. CASE DropAbsent
  BY <1>1, <1>3 DEF DropAbsent
<1>4. CASE UNCHANGED services
  BY <1>4
<1> QED
  BY <1>2, <1>3, <1>4
  DEF Next, RegistryNext, ReloadStep, Exited, Start, RefuseStart, Reload, RejectReload,
      EnterApply, Hangup, BuildTools, BuildFails, Lock, AddTool, EndService, Publish,
      EditStep, Send, ClientStep, GateAny, GateName, Open, UseSession, Disconnect,
      ServeSTDIO, vars, registryVars, publicVars, reloadVars

(***************************************************************************)
(* A service that a reload keeps keeps its mcp.Server.                     *)
(***************************************************************************)
THEOREM ServersSurviveReloads == Spec => ServersAreKept
BY KeptStep, BookkeepingCorrect, PTL DEF Spec, ServersAreKept, KeptNow

(***************************************************************************)
(* Where no service is unnamed and there is no swagger_file to fall back   *)
(* to, no request is refused that the published configuration answers.     *)
(* (Across a switch between the two forms the gate's two reads can both    *)
(* miss.)                                                                  *)
(***************************************************************************)
NamedOnly == Unnamed \notin ExplicitName /\ ~HasMain

LEMMA NoUnnamedEntry == NamedOnly => \A e \in Entry : e.name # Unnamed
  BY SourcesAssumption DEF NamedOnly, Entry

NoUnnamedService == services[Unnamed] = NoServer /\ Unnamed \notin known

\* No step brings in a service without a name.
LEMMA NamedStep ==
  ASSUME NamedOnly PROVE IInv /\ NoUnnamedService /\ [Next]_vars => NoUnnamedService'
<1> SUFFICES ASSUME IInv, NoUnnamedService, [Next]_vars PROVE NoUnnamedService'
  OBVIOUS
<1>1. services \in [Name -> Server \cup {NoServer}] /\ Unnamed \in Name
  BY SourcesAssumption DEF IInv, TypeInv, TypeOK, RegistryTypeOK
<1>2. ASSUME NEW e \in Entry, BeginService(e) PROVE NoUnnamedService'
  BY <1>1, <1>2, NamedOnly, NoUnnamedEntry, EntryName DEF BeginService, NoUnnamedService
<1>3. CASE DropAbsent
  BY <1>1, <1>3 DEF DropAbsent, NoUnnamedService
<1>4. CASE Publish
  BY <1>4 DEF Publish, NoUnnamedService, serviceNames
<1>5. CASE UNCHANGED <<services, known>>
  BY <1>5 DEF NoUnnamedService
<1> QED
  BY <1>2, <1>3, <1>4, <1>5
  DEF Next, RegistryNext, ReloadStep, Exited, Start, RefuseStart, Reload, RejectReload,
      EnterApply, Hangup, BuildTools, BuildFails, Lock, AddTool, EndService,
      EditStep, Send, ClientStep, GateAny, GateName, Open, UseSession, Disconnect,
      ServeSTDIO, vars, registryVars, publicVars, reloadVars

LEMMA NamedInv == ASSUME NamedOnly PROVE Spec => []NoUnnamedService
<1>1. Init => NoUnnamedService
  BY SourcesAssumption DEF Init, RegistryInit, NoUnnamedService
<1> QED
  BY <1>1, NamedStep, NamedOnly, BookkeepingCorrect, PTL DEF Spec

JustifiedNow == \A c \in Client :
  reply[c] = "none" /\ reply'[c] \in Refusal => ~Routable(path[c], known)

\* Both refusals, the gate's and the lookup's, have seen what is configured.
LEMMA JustifiedStep == IInv /\ NoUnnamedService /\ [Next]_vars => [JustifiedNow]_vars
<1> SUFFICES ASSUME IInv, NoUnnamedService, Next, NEW c \in Client,
                    reply[c] = "none", reply'[c] \in Refusal
             PROVE  ~Routable(path[c], known)
  BY DEF vars, JustifiedNow
<1>1. /\ reply \in [Client -> Refusal \cup {"none", "served"}]
      /\ path \in [Client -> Name]
      /\ single = services[Unnamed]
      /\ ~locked => known = serviceNames
  BY DEF IInv, TypeInv, TypeOK, BookInv, RoutesInStep
<1>2. reply'[c] # reply[c] /\ reply'[c] \notin {"none", "served"}
  BY DEF Refusal
<1>3. ASSUME NEW d \in Client, GateName(d) PROVE ~Routable(path[c], known)
  <2>1. d = c
    BY <1>1, <1>2, <1>3 DEF GateName, Answer
  <2>2. path[c] \notin known
    BY <1>2, <1>3, <2>1 DEF GateName
  <2> QED BY <2>2 DEF Routable, NoUnnamedService
<1>4. ASSUME NEW d \in Client, Open(d) PROVE ~Routable(path[c], known)
  <2>1. d = c
    BY <1>1, <1>2, <1>4 DEF Open, Answer
  <2>2. serverForRequest(c) = NoServer
    BY <1>1, <1>2, <1>4, <2>1 DEF Open, Answer
  <2>3. services[path[c]] = NoServer
    BY <1>1, <2>2 DEF serverForRequest, NoUnnamedService
  <2> QED BY <1>1, <1>4, <2>3 DEF Open, Routable, NoUnnamedService, serviceNames
<1>5. ASSUME NEW d \in Client, NEW name \in Name, Send(d, name) PROVE FALSE
  BY <1>1, <1>2, <1>5 DEF Send
<1>6. ASSUME NEW d \in Client, UseSession(d) PROVE FALSE
  BY <1>1, <1>2, <1>6 DEF UseSession, Answer
<1>7. ASSUME UNCHANGED reply PROVE FALSE
  BY <1>2, <1>7
<1> QED
  BY <1>3, <1>4, <1>5, <1>6, <1>7
  DEF Next, Exited, ClientStep, GateAny, Disconnect, ServeSTDIO, vars, clientVars

(***************************************************************************)
(* The theorem itself: see NamedOnly above for the assumption.             *)
(***************************************************************************)
THEOREM RefusalsAreTrue == ASSUME NamedOnly PROVE Spec => RefusalIsTrue
BY JustifiedStep, BookkeepingCorrect, NamedInv, NamedOnly, PTL
DEF Spec, RefusalIsTrue, JustifiedNow
-----------------------------------------------------------------------------
(***************************************************************************)
(* Where "services" has no entry without a name, a batch is the single     *)
(* form alone or named services only, and so is what is routed; on stdio   *)
(* nobody has a path before the pipe is bound.                             *)
(***************************************************************************)
OneForm == \A e, f \in batch : e.name = Unnamed => f.name = Unnamed

SingleAlone == Unnamed \in known => known = {Unnamed}

PipeUnbound ==
  mode = "stdio" => \/ \E c \in Client : session[c] # NoServer
                    \/ \A c \in Client : path[c] = Unnamed

FormInv == OneForm /\ SingleAlone /\ PipeUnbound

LEMMA ResolvedInOneForm ==
  ASSUME Unnamed \notin ExplicitName
  PROVE  \A e, f \in ResolvedServices : e.name = Unnamed => f.name = Unnamed
<1> DEFINE combined == explicitServices \cup subdirectories
<1>1. \A e \in combined : e.name # Unnamed
  BY SourcesAssumption DEF explicitServices, subdirectories, Entry
<1>2. \A e \in Entry : e.origin = "main" => e.name = Unnamed
  BY DEF Entry
<1> QED
  BY <1>1, <1>2 DEF ResolvedServices

\* Nothing mixes the two forms.
LEMMA OneFormStep ==
  ASSUME Unnamed \notin ExplicitName, IInv, OneForm, SingleAlone, [Next]_vars
  PROVE  OneForm' /\ SingleAlone'
<1>1. CASE UNCHANGED <<batch, known>>
  BY <1>1 DEF OneForm, SingleAlone
<1>2. CASE Start \/ Reload
  <2>1. batch' = ResolvedServices /\ UNCHANGED known
    BY <1>2 DEF Start, Reload, EnterApply, publicVars
  <2> QED BY <2>1, ResolvedInOneForm DEF OneForm, SingleAlone
<1>3. ASSUME NEW e \in Entry, BuildFails(e) PROVE OneForm' /\ SingleAlone'
  BY <1>3 DEF BuildFails, LeaveApply, publicVars, OneForm, SingleAlone
<1>4. CASE Publish
  <2>1. batch' = {} /\ known' = {e.name : e \in batch}
    BY <1>4 DEF Publish, LeaveApply, IInv, BookInv, OnlyTheBatch
  <2> QED BY <2>1 DEF OneForm, SingleAlone
<1> QED
  BY <1>1, <1>2, <1>3, <1>4
  DEF Next, RegistryNext, ReloadStep, Exited, RefuseStart, RejectReload, Hangup, BuildTools,
      Lock, BeginService, AddTool, EndService, DropAbsent, EditStep, Send, ClientStep, GateAny,
      GateName, Open, UseSession, Disconnect, ServeSTDIO, vars, registryVars, publicVars,
      reloadVars

\* The pipe is bound once.
LEMMA PipeStep == ASSUME IInv, PipeUnbound, [Next]_vars PROVE PipeUnbound'
<1>1. /\ services \in [Name -> Server \cup {NoServer}]
      /\ session \in [Client -> Server \cup {NoServer}]
      /\ path \in [Client -> Name]
  BY DEF IInv, TypeInv, TypeOK, RegistryTypeOK
<1>2. CASE UNCHANGED <<mode, session, path>>
  BY <1>2 DEF PipeUnbound
<1>3. ASSUME NEW c \in Client, Open(c) PROVE PipeUnbound'
  BY <1>1, <1>3 DEF PipeUnbound, Open, registryVars, sourceVars
<1>4. ASSUME NEW c \in Client, ServeSTDIO(c) PROVE PipeUnbound'
  <2>1. session'[c] # NoServer
    BY <1>1, <1>4 DEF ServeSTDIO, serviceNames
  <2> QED BY <2>1 DEF PipeUnbound
<1>5. ASSUME NEW c \in Client, Disconnect(c) \/ \E name \in Name : Send(c, name)
      PROVE  PipeUnbound'
  BY <1>5 DEF PipeUnbound, Disconnect, Send, registryVars, sourceVars
<1> QED
  BY <1>2, <1>3, <1>4, <1>5
  DEF Next, RegistryNext, ReloadStep, Exited, Start, RefuseStart, Reload, RejectReload,
      EnterApply, Hangup, BuildTools, BuildFails, Lock, BeginService, AddTool, EndService,
      DropAbsent, Publish, EditStep, Edit, ClientStep, GateAny, GateName, UseSession, vars,
      registryVars, sourceVars, clientVars

LEMMA FormHolds == ASSUME Unnamed \notin ExplicitName PROVE Spec => []FormInv
<1>1. Init => FormInv
  BY DEF Init, RegistryInit, FormInv, OneForm, SingleAlone, PipeUnbound
<1>2. IInv /\ FormInv /\ [Next]_vars => FormInv'
  BY OneFormStep, PipeStep, Unnamed \notin ExplicitName DEF FormInv
<1> QED
  BY <1>1, <1>2, BookkeepingCorrect, PTL DEF Spec

OwnNow == \A c \in Client :
  session'[c] \notin {session[c], NoServer} /\ path[c] \in known
    => session'[c][1] = path[c]

\* Only the lookup and the pipe open a session.
LEMMA OwnStep == IInv /\ FormInv /\ [Next]_vars => [OwnNow]_vars
<1> SUFFICES ASSUME IInv, FormInv, Next, NEW c \in Client,
                    session'[c] \notin {session[c], NoServer}, path[c] \in known
             PROVE  session'[c][1] = path[c]
  BY DEF vars, OwnNow
<1>1. /\ services \in [Name -> Server \cup {NoServer}]
      /\ session \in [Client -> Server \cup {NoServer}]
      /\ path \in [Client -> Name] /\ Unnamed \in Name
      /\ single = services[Unnamed]
      /\ ~locked => known = serviceNames
      /\ ServersByName
  BY SourcesAssumption DEF IInv, TypeInv, TypeOK, RegistryTypeOK, BookInv, RoutesInStep
<1>2. ASSUME NEW d \in Client, Open(d) PROVE session'[c][1] = path[c]
  <2>1. d = c /\ session'[c] = serverForRequest(c) /\ known = serviceNames
    BY <1>1, <1>2 DEF Open
  <2>2. single # NoServer => path[c] = Unnamed
    BY <1>1, <2>1 DEF FormInv, SingleAlone, serviceNames
  <2> QED BY <1>1, <2>1, <2>2 DEF serverForRequest, ServersByName
<1>3. ASSUME NEW d \in Client, ServeSTDIO(d) PROVE session'[c][1] = path[c]
  <2>1. d = c /\ known = serviceNames
    BY <1>1, <1>3 DEF ServeSTDIO
  <2>2. PICK n \in serviceNames : session'[c] = services[n]
    BY <1>1, <1>3, <2>1 DEF ServeSTDIO
  <2>3. path[c] = Unnamed
    BY <1>3 DEF ServeSTDIO, FormInv, PipeUnbound
  <2>4. n = path[c]
    BY <2>1, <2>2, <2>3 DEF FormInv, SingleAlone
  <2> QED BY <1>1, <2>2, <2>4 DEF ServersByName, serviceNames
<1>4. ASSUME NEW d \in Client, Disconnect(d) PROVE FALSE
  BY <1>1, <1>4 DEF Disconnect
<1>5. session' # session
  OBVIOUS
<1> QED
  BY <1>2, <1>3, <1>4, <1>5
  DEF Next, Exited, Send, ClientStep, GateAny, GateName, UseSession, vars, clientVars

(***************************************************************************)
(* A session opened on the path of a configured service is a session with  *)
(* that service, however reloads interleave - the single form may come and *)
(* go.  (With an entry without a name under "services" it would answer in  *)
(* place of the services found beside it.)                                 *)
(***************************************************************************)
THEOREM SessionsOpenOwnService ==
  ASSUME Unnamed \notin ExplicitName PROVE Spec => OpensOwnService
BY OwnStep, BookkeepingCorrect, FormHolds, PTL DEF Spec, OpensOwnService, OwnNow
-----------------------------------------------------------------------------
(***************************************************************************)
(* The refinement of RoutingContract, safety: a batch is never empty, so   *)
(* neither is what is routed once the process is up.                       *)
(***************************************************************************)
NeverEmpty ==
  /\ stage \in {"build", "install", "add", "publish"} => batch # {}
  /\ up => known # {}

\* A list without services is refused before apply is entered.
LEMMA NeverEmptyStep == IInv /\ NeverEmpty /\ [Next]_vars => NeverEmpty'
<1> SUFFICES ASSUME IInv, NeverEmpty, [Next]_vars PROVE NeverEmpty'
  OBVIOUS
<1>1. CASE Start \/ Reload
  BY <1>1 DEF Start, Reload, EnterApply, validateServices, publicVars, NeverEmpty
<1>2. CASE Publish
  BY <1>2 DEF Publish, IInv, BookInv, OnlyTheBatch, NeverEmpty
<1>3. ASSUME NEW e \in Entry, BuildFails(e) PROVE NeverEmpty'
  BY <1>3 DEF BuildFails, publicVars, NeverEmpty
<1>4. CASE /\ UNCHANGED <<up, known, batch>>
           /\ \/ stage' = stage
              \/ stage' = "exited"
              \/ stage \in {"build", "install", "add", "publish"}
  BY <1>4 DEF NeverEmpty
<1> QED
  BY <1>1, <1>2, <1>3, <1>4
  DEF Next, RegistryNext, ReloadStep, Exited, RefuseStart, RejectReload, Hangup,
      BuildTools, Lock, BeginService, AddTool, EndService, DropAbsent, EditStep,
      Send, ClientStep, GateAny, GateName, Open, UseSession, Disconnect, ServeSTDIO,
      vars, registryVars, publicVars, reloadVars

LEMMA NeverEmptyHolds == Spec => []NeverEmpty
<1>1. Init => NeverEmpty
  BY DEF Init, RegistryInit, NeverEmpty
<1> QED
  BY <1>1, NeverEmptyStep, BookkeepingCorrect, PTL DEF Spec

\* Over the pipe nobody sends a request on a path.
PipeIsIdle == mode = "stdio" => \A c \in Client : pc[c] = "idle"

\* A request needs a path, and the transport never changes.
LEMMA PipeIsIdleStep == PipeIsIdle /\ [Next]_vars => PipeIsIdle'
<1> SUFFICES ASSUME PipeIsIdle, [Next]_vars, mode' = "stdio", NEW c \in Client
             PROVE  pc'[c] = "idle"
  BY DEF PipeIsIdle
<1>1. mode' = mode /\ \A d \in Client : pc[d] = "idle"
  BY DEF Next, RegistryNext, ReloadStep, Exited, Start, RefuseStart, Reload, RejectReload,
      EnterApply, Hangup, BuildTools, BuildFails, Lock, BeginService, AddTool, EndService,
      DropAbsent, Publish, EditStep, Edit, Send, ClientStep, GateAny, GateName, Open,
      UseSession, Disconnect, ServeSTDIO, vars, registryVars, sourceVars, PipeIsIdle
<1>2. \A d \in Client : ~ClientStep(d) /\ \A name \in Name : ~Send(d, name)
  BY <1>1 DEF ClientStep, GateAny, GateName, Open, UseSession, Send
<1>3. pc' = pc
  BY <1>2 DEF Next, Exited, Disconnect, ServeSTDIO, vars, clientVars
<1> QED BY <1>1, <1>3

LEMMA PipeIsIdleHolds == Spec => []PipeIsIdle
<1>1. Init => PipeIsIdle
  BY DEF Init, PipeIsIdle
<1> QED BY <1>1, PipeIsIdleStep, PTL DEF Spec

\* The refinement mapping, by name.
asked == [c \in Client |-> IF mode = "stdio" THEN Unnamed ELSE path[c]]

asking == [c \in Client |-> \/ pc[c] \in {"gateAny", "gateName"}
                            \/ pc[c] = "inner" /\ session[c] = NoServer]

torn == {c \in Client : pc[c] = "gateName" /\ Unnamed \in known}

answer == [c \in Client |->
             IF pc[c] = "inner" /\ session[c] # NoServer THEN "served"
             ELSE IF reply[c] \in Refusal THEN "refused" ELSE reply[c]]

contractVars == <<known, asked, asking, torn, answer>>

\* What the contract calls an answer.
LEMMA ContractResponds ==
  ASSUME NEW c \in Client, asking[c], UNCHANGED <<known, asked>>,
         asking' = [asking EXCEPT ![c] = FALSE], torn' = torn \ {c},
         answer' = [answer EXCEPT ![c] =
           IF asked[c] \in known \/ (Unnamed \in known /\ c \notin torn)
           THEN "served" ELSE "refused"]
  PROVE  Contract!Next
BY DEF Contract!Next, Contract!Respond, Contract!Answered, asked, asking, torn, answer

\* Each client step that is an answer is the contract's; the others change
\* nothing the contract shows, except that passing the gate mends a request.
LEMMA ClientRefines ==
  ASSUME IInv, PipeIsIdle, NeverEmpty, NEW c \in Client,
         \/ \E name \in Name : Send(c, name)
         \/ ClientStep(c) \/ Disconnect(c) \/ ServeSTDIO(c)
  PROVE  Contract!Next \/ UNCHANGED contractVars
<1> USE DEF Refusal
<1>1. /\ services \in [Name -> Server \cup {NoServer}]
      /\ session \in [Client -> Server \cup {NoServer}]
      /\ path \in [Client -> Name] /\ Unnamed \in Name
      /\ pc \in [Client -> {"idle", "gateAny", "gateName", "inner"}]
      /\ reply \in [Client -> Refusal \cup {"none", "served"}]
      /\ single = services[Unnamed]
      /\ ~locked => known = serviceNames
  BY SourcesAssumption DEF IInv, TypeInv, TypeOK, RegistryTypeOK, BookInv, RoutesInStep
<1>2. known' = known /\ mode' = mode
  BY DEF Send, ClientStep, GateAny, GateName, Open, UseSession, Disconnect, ServeSTDIO,
         registryVars, sourceVars, publicVars
<1>3. ASSUME path' = path PROVE asked' = asked
  BY <1>2, <1>3 DEF asked
<1>4. ASSUME pc[c] # "idle" PROVE mode # "stdio" /\ asked[c] = path[c]
  BY <1>4 DEF PipeIsIdle, asked
<1>5. ASSUME NEW name \in Name, Send(c, name) PROVE Contract!Next
  <2>1. known # {} /\ ~asking[c]
    BY <1>5 DEF Send, NeverEmpty, asking
  <2>2. asked' = [asked EXCEPT ![c] = name]
    BY <1>1, <1>2, <1>5 DEF Send, asked
  <2>3. asking' = [asking EXCEPT ![c] = TRUE]
    BY <1>1, <1>5 DEF Send, asking
  <2>4. answer' = [answer EXCEPT ![c] = "none"]
    BY <1>1, <1>5 DEF Send, answer
  <2>5. torn' = torn
    BY <1>1, <1>2, <1>5 DEF Send, torn
  <2> QED
    BY <1>2, <2>1, <2>2, <2>3, <2>4, <2>5
    DEF Contract!Next, Contract!Ask, asked, asking, torn, answer
<1>6. CASE GateAny(c)
  <2>1. UNCHANGED <<known, asked, session, reply>> /\ asking[c] /\ c \notin torn
    BY <1>2, <1>3, <1>6 DEF GateAny, asking, torn
  <2>2. CASE Unnamed \notin known
    <3>1. pc' = [pc EXCEPT ![c] = "gateName"]
      BY <1>6, <2>2 DEF GateAny
    <3>2. asking' = asking /\ torn' = torn /\ answer' = answer
      BY <1>1, <1>2, <1>6, <2>1, <2>2, <3>1 DEF GateAny, asking, torn, answer
    <3> QED BY <2>1, <3>2 DEF contractVars
  <2>3. CASE Unnamed \in known /\ session[c] = NoServer
    <3>1. asking' = asking /\ torn' = torn /\ answer' = answer
      BY <1>1, <1>2, <1>6, <2>1, <2>3 DEF GateAny, asking, torn, answer
    <3> QED BY <2>1, <3>1 DEF contractVars
  <2>4. CASE Unnamed \in known /\ session[c] # NoServer
    <3>1. pc' = [pc EXCEPT ![c] = "inner"]
      BY <1>6, <2>4 DEF GateAny
    <3>2. asking' = [asking EXCEPT ![c] = FALSE]
      BY <1>1, <1>6, <2>1, <2>4, <3>1 DEF asking
    <3>3. torn' = torn \ {c}
      BY <1>1, <1>2, <2>1, <3>1 DEF torn
    <3>4. answer' = [answer EXCEPT ![c] = "served"]
      BY <1>1, <2>1, <2>4, <3>1 DEF answer
    <3> QED BY <2>1, <2>4, <3>2, <3>3, <3>4, ContractResponds
  <2> QED BY <2>2, <2>3, <2>4
<1>7. CASE GateName(c)
  <2>1. /\ UNCHANGED <<known, asked, path, session>> /\ pc[c] = "gateName" /\ asking[c]
        /\ asked[c] = path[c]
    BY <1>2, <1>3, <1>4, <1>7 DEF GateName, asking
  <2>2. torn' = torn \ {c}
    BY <1>1, <1>2, <1>7 DEF GateName, Answer, torn
  <2>3. CASE path[c] \in known /\ session[c] = NoServer
    <3>1. asking' = asking /\ answer' = answer
      BY <1>1, <1>7, <2>1, <2>3 DEF GateName, asking, answer
    <3> QED
      BY <2>1, <2>2, <2>3, <3>1
      DEF Contract!Next, Contract!Mend, asked, asking, torn, answer
  <2>4. CASE path[c] \in known /\ session[c] # NoServer
    <3>1. asking' = [asking EXCEPT ![c] = FALSE]
      BY <1>1, <1>7, <2>1, <2>4 DEF GateName, asking
    <3>2. answer' = [answer EXCEPT ![c] = "served"]
      BY <1>1, <1>7, <2>1, <2>4 DEF GateName, answer
    <3> QED BY <2>1, <2>2, <2>4, <3>1, <3>2, ContractResponds
  <2>5. CASE path[c] \notin known
    <3>1. asking' = [asking EXCEPT ![c] = FALSE]
      BY <1>1, <1>7, <2>1, <2>5 DEF GateName, Answer, asking
    <3>2. answer' = [answer EXCEPT ![c] = "refused"]
      BY <1>1, <1>7, <2>1, <2>5 DEF GateName, Answer, answer
    <3>3. Unnamed \in known => c \in torn
      BY <2>1 DEF torn
    <3> QED BY <2>1, <2>2, <2>5, <3>1, <3>2, <3>3, ContractResponds
  <2> QED BY <2>3, <2>4, <2>5
<1>8. CASE Open(c)
  <2>1. UNCHANGED <<known, asked>> /\ asking[c] /\ asked[c] = path[c] /\ c \notin torn
    BY <1>2, <1>3, <1>4, <1>8 DEF Open, asking, torn
  <2>2. path[c] \in known \/ Unnamed \in known <=> serverForRequest(c) # NoServer
    BY <1>1, <1>8 DEF Open, serverForRequest, serviceNames
  <2>3. asking' = [asking EXCEPT ![c] = FALSE] /\ torn' = torn \ {c}
    BY <1>1, <1>2, <1>8 DEF Open, Answer, asking, torn
  <2>4. answer' = [answer EXCEPT ![c] =
                     IF path[c] \in known \/ Unnamed \in known THEN "served" ELSE "refused"]
    BY <1>1, <1>8, <2>2 DEF Open, Answer, answer
  <2> QED BY <2>1, <2>3, <2>4, ContractResponds
<1>9. CASE UseSession(c) \/ Disconnect(c)
  <2>1. asked' = asked
    BY <1>3, <1>9 DEF UseSession, Disconnect
  <2>2. asking' = asking /\ torn' = torn /\ answer' = answer
    BY <1>1, <1>2, <1>9 DEF UseSession, Disconnect, Answer, asking, torn, answer
  <2> QED BY <1>2, <2>1, <2>2 DEF contractVars
<1>10. CASE ServeSTDIO(c)
  <2>1. asked' = asked
    BY <1>2, <1>10 DEF ServeSTDIO, asked
  <2>2. asking' = asking /\ torn' = torn /\ answer' = answer
    BY <1>1, <1>2, <1>10 DEF ServeSTDIO, PipeIsIdle, asking, torn, answer
  <2> QED BY <1>2, <2>1, <2>2 DEF contractVars
<1> QED
  BY <1>5, <1>6, <1>7, <1>8, <1>9, <1>10 DEF ClientStep

\* Each step of the routing code and of a reload, for the contract.
LEMMA ContractStep ==
  IInv /\ PipeIsIdle /\ NeverEmpty /\ [Next]_vars => [Contract!Next]_(Contract!vars)
<1> SUFFICES ASSUME IInv, PipeIsIdle, NeverEmpty, [Next]_vars
             PROVE  Contract!Next \/ UNCHANGED contractVars
  BY DEF Contract!vars, contractVars, asked, asking, torn, answer
<1>1. ASSUME NEW c \in Client,
             \/ \E name \in Name : Send(c, name)
             \/ ClientStep(c) \/ Disconnect(c) \/ ServeSTDIO(c)
      PROVE  Contract!Next \/ UNCHANGED contractVars
  BY <1>1, ClientRefines
<1>2. mode' = mode
  BY DEF Next, RegistryNext, ReloadStep, Exited, Start, RefuseStart, Reload, RejectReload,
      EnterApply, Hangup, BuildTools, BuildFails, Lock, BeginService, AddTool, EndService,
      DropAbsent, Publish, EditStep, Edit, Send, ClientStep, GateAny, GateName, Open,
      UseSession, Disconnect, ServeSTDIO, vars, registryVars, sourceVars
<1>3. CASE Publish /\ UNCHANGED clientVars
  <2>1. known' \in (SUBSET Name) \ {{}}
    BY <1>3 DEF Publish, serviceNames, IInv, BookInv, OnlyTheBatch, NeverEmpty
  <2>2. UNCHANGED <<asked, asking, answer>>
    BY <1>2, <1>3 DEF clientVars, asked, asking, answer
  <2>3. torn' \subseteq IF Unnamed \in known' \ known
                       THEN torn \cup {c \in Client : asking[c]} ELSE torn
    BY <1>3 DEF clientVars, torn, asking
  <2> QED
    BY <2>1, <2>2, <2>3
    DEF Contract!Next, Contract!Reconfigure, Contract!Tearable, asked, asking, torn, answer
<1>4. CASE UNCHANGED <<known, clientVars>>
  BY <1>2, <1>4 DEF clientVars, contractVars, asked, asking, torn, answer
<1> QED
  BY <1>1, <1>3, <1>4
  DEF Next, RegistryNext, ReloadStep, Exited, Start, RefuseStart, Reload, RejectReload,
      EnterApply, Hangup, BuildTools, BuildFails, Lock, BeginService, AddTool,
      EndService, DropAbsent, EditStep, vars, registryVars, publicVars, reloadVars

(***************************************************************************)
(* Every step of the routing code and of reloads is a step of              *)
(* RoutingContract or leaves what it shows alone, on every transport and   *)
(* in every form of configuration: a request is answered as if in one      *)
(* step, from one configuration, unless a reload to a service without a    *)
(* name tears it.  (That it is answered at all is liveness.)               *)
(***************************************************************************)
THEOREM ImplementsContract ==
  Spec => Contract!Init /\ [][Contract!Next]_(Contract!vars)
<1>1. Init => Contract!Init
  BY DEF Init, RegistryInit, Contract!Init, Refusal
<1> QED
  BY <1>1, ContractStep, BookkeepingCorrect, PipeIsIdleHolds, NeverEmptyHolds, PTL
  DEF Spec
-----------------------------------------------------------------------------
(***************************************************************************)
(* The safety half of HangupTakesEffect.  Once the disk no longer changes  *)
(* and a signal waits, the disk's services are served or there is work     *)
(* left that leads to them: the signal itself, or a reload that has        *)
(* resolved and read nothing but this disk.                                *)
(***************************************************************************)
Settled == edits = MaxEdits /\ Usable

ReadsThisDisk ==
  /\ stage = "build" \/ locked
  /\ batch = ResolvedServices
  /\ \A e \in batch : stage # "build" \/ e \notin todo => prepared[e] = disk[e]

Heard == up /\ Settled /\ (sig \/ ReadsThisDisk \/ (Current /\ stage = "idle"))

Served == Current /\ ~locked

\* Signals are for a process whose New has returned.
UpInv == (sig => up) /\ (up => stage \notin {"new", "exited"})

\* No step takes the process back to its start.
LEMMA UpStep == UpInv /\ [Next]_vars => UpInv'
<1> SUFFICES ASSUME UpInv, [Next]_vars PROVE UpInv'
  OBVIOUS
<1>1. CASE RegistryNext
  <2>1. CASE Start \/ RefuseStart
    BY <2>1 DEF Start, RefuseStart, EnterApply, UpInv
  <2>2. CASE Reload \/ RejectReload
    BY <2>2 DEF Reload, RejectReload, EnterApply, UpInv
  <2>3. ASSUME NEW e \in Entry, BuildTools(e) \/ BuildFails(e) \/ BeginService(e)
        PROVE  UpInv'
    BY <2>3 DEF BuildTools, BuildFails, LeaveApply, BeginService, UpInv
  <2>4. CASE Lock \/ EndService \/ DropAbsent \/ \E t \in Tool : AddTool(t)
    <3>1. UNCHANGED <<up, sig>> /\ stage' \in {"install", "add", "publish"}
      BY <2>4 DEF Lock, EndService, DropAbsent, AddTool
    <3> QED BY <3>1 DEF UpInv
  <2>5. CASE Publish \/ Hangup
    BY <2>5 DEF Publish, Hangup, UpInv
  <2>6. CASE EditStep
    <3>1. UNCHANGED <<stage, up, sig>>
      BY <2>6 DEF EditStep, reloadVars
    <3> QED BY <3>1 DEF UpInv
  <2> QED BY <1>1, <2>1, <2>2, <2>3, <2>4, <2>5, <2>6 DEF RegistryNext, ReloadStep
<1>2. CASE UNCHANGED registryVars
  BY <1>2 DEF UpInv, registryVars, reloadVars
<1> QED
  BY <1>1, <1>2 DEF Next, Exited, Send, ClientStep, GateAny, GateName, Open, UseSession,
     Disconnect, ServeSTDIO, vars

LEMMA UpHolds == Spec => []UpInv
<1>1. Init => UpInv
  BY DEF Init, RegistryInit, UpInv
<1> QED BY <1>1, UpStep, PTL DEF Spec

\* A disk that no longer changes resolves to the same services.
LEMMA SettledFrame ==
  ASSUME UNCHANGED <<sourceVars>>
  PROVE  /\ Settled' = Settled /\ ResolvedServices' = ResolvedServices
         /\ scanFails' = scanFails
BY DEF sourceVars, Settled, Usable, ResolvedServices, explicitServices, subdirectories, scanFails

LEMMA HeardStep == ASSUME IInv, UpInv, Heard, [Next]_vars PROVE Heard'
<1> USE DEF Heard
<1>1. CASE RegistryNext
  <2>1. edits \in 0 .. MaxEdits /\ edits = MaxEdits /\ MaxEdits \in Nat /\ ~(edits < MaxEdits)
    BY SourcesAssumption DEF IInv, TypeInv, TypeOK, RegistryTypeOK, SourcesTypeOK, Settled
  <2>2. ~EditStep
    BY <2>1 DEF EditStep, Edit
  <2>3. UNCHANGED sourceVars /\ up'
    BY <1>1, <2>2 DEF RegistryNext, ReloadStep, Start, RefuseStart, Reload, RejectReload,
       EnterApply, Hangup, BuildTools, BuildFails, Lock, BeginService, AddTool, EndService,
       DropAbsent, Publish, sourceVars
  <2>4. Settled' /\ ResolvedServices' = ResolvedServices /\ disk' = disk
    BY <2>3, SettledFrame DEF sourceVars
  <2>5. Current' = (applied' = {<<e, disk[e]>> : e \in ResolvedServices})
    BY <2>4 DEF Current
  <2>6. stage \notin {"new", "exited"}
    BY DEF UpInv
  <2>7. CASE Hangup
    BY <2>3, <2>4, <2>7 DEF Hangup
  <2>8. CASE Reload
    BY <2>3, <2>4, <2>8 DEF Reload, EnterApply, ReadsThisDisk
  <2>9. CASE RejectReload
    BY <2>9 DEF RejectReload, Settled, Usable
  <2>10. ASSUME NEW e \in Entry, BuildTools(e) PROVE Heard'
    <3>1. e \in batch /\ prepared \in [Entry -> Doc \cup {Missing}] /\ batch \subseteq Entry
      BY <2>10 DEF BuildTools, IInv, TypeInv, TypeOK, RegistryTypeOK
    <3>2. ReadsThisDisk => ReadsThisDisk'
      BY <2>4, <2>10, <3>1 DEF BuildTools, ReadsThisDisk
    <3> QED BY <2>3, <2>4, <2>5, <2>10, <3>2 DEF BuildTools
  <2>11. ASSUME NEW e \in Entry, BuildFails(e) PROVE Heard'
    <3>1. e \in batch
      BY <2>11 DEF BuildFails, IInv, TypeInv, TypeOK, RegistryTypeOK
    <3>2. ~ReadsThisDisk
      BY <2>11, <3>1 DEF BuildFails, ReadsThisDisk, Settled, Usable
    <3>3. sig
      BY <2>11, <3>2 DEF BuildFails
    <3> QED BY <2>3, <2>4, <2>11, <3>3 DEF BuildFails, LeaveApply
  <2>12. CASE Publish
    <3>1. ReadsThisDisk => applied' = {<<e, disk[e]>> : e \in ResolvedServices}
      BY <2>12 DEF Publish, ReadsThisDisk
    <3> QED BY <2>3, <2>4, <2>5, <2>12, <3>1 DEF Publish, LeaveApply
  <2>13. CASE \/ Lock \/ EndService \/ DropAbsent
              \/ \E e \in Entry : BeginService(e)
              \/ \E t \in Tool : AddTool(t)
    <3>1. /\ UNCHANGED <<sig, batch, prepared>> /\ stage \in {"build", "install", "add"}
          /\ stage' \in {"install", "add", "publish"} /\ (stage = "build" => todo = {})
      BY <2>13 DEF Lock, EndService, DropAbsent, BeginService, AddTool
    <3>2. ReadsThisDisk => ReadsThisDisk'
      BY <2>4, <3>1 DEF ReadsThisDisk
    <3> QED BY <2>3, <2>4, <3>1, <3>2
  <2> QED
    BY <1>1, <2>2, <2>6, <2>7, <2>8, <2>9, <2>10, <2>11, <2>12, <2>13
    DEF RegistryNext, ReloadStep, Start, RefuseStart
<1>2. CASE UNCHANGED registryVars
  <2>1. UNCHANGED <<sourceVars, up, sig, stage, batch, todo, prepared, applied, disk>>
    BY <1>2 DEF registryVars, reloadVars, publicVars, sourceVars
  <2> QED
    BY <2>1, SettledFrame DEF ReadsThisDisk, Current
<1> QED
  BY <1>1, <1>2 DEF Next, Exited, Send, ClientStep, GateAny, GateName, Open, UseSession,
     Disconnect, ServeSTDIO, vars

(***************************************************************************)
(* No signal after the last edit is lost, even one that arrives in the     *)
(* middle of a reload: from then on there is such work, or the disk's      *)
(* services are served.                                                    *)
(***************************************************************************)
THEOREM HangupsAreHeard ==
  Spec => [](sig /\ edits = MaxEdits /\ Usable
               => [](sig \/ ReadsThisDisk \/ Served))
<1>1. IInv /\ UpInv /\ Heard /\ [Next]_vars => Heard'
  BY HeardStep
<1>2. UpInv /\ sig /\ edits = MaxEdits /\ Usable => Heard
  BY DEF UpInv, Heard, Settled
<1>3. Heard => sig \/ ReadsThisDisk \/ Served
  BY DEF Heard, Served
<1> QED
  BY <1>1, <1>2, <1>3, BookkeepingCorrect, UpHolds, PTL DEF Spec

(***************************************************************************)
(* And the work runs out: apply goes through its stages in one direction,  *)
(* each loop with less left to do after every step.                        *)
(***************************************************************************)
Rank(s) == CASE s = "build" -> 3 [] s \in {"install", "add"} -> 2 [] s = "publish" -> 1
             [] OTHER -> 0

Nearer ==
  \/ Rank(stage') < Rank(stage)
  \/ Rank(stage') = Rank(stage) /\ todo' \subseteq todo /\ todo' # todo
  \/ stage = "install" /\ stage' = "add" /\ UNCHANGED todo
  \/ stage = "add" /\ UNCHANGED <<stage, todo>> /\ adding' \subseteq adding /\ adding' # adding

\* Each step of apply on its own.
LEMMA NearerStep ==
  IInv /\ [Next]_vars => [ReloadStep /\ stage \notin {"new", "idle"} => Nearer]_vars
<1> SUFFICES ASSUME IInv, ReloadStep, stage \notin {"new", "idle"} PROVE Nearer
  OBVIOUS
<1>1. ASSUME NEW e \in Entry, BuildTools(e) \/ BuildFails(e) \/ BeginService(e) PROVE Nearer
  BY <1>1 DEF BuildTools, BuildFails, BeginService, Nearer, Rank
<1>2. CASE Lock \/ DropAbsent \/ Publish
  BY <1>2 DEF Lock, DropAbsent, Publish, Nearer, Rank
<1>3. ASSUME NEW t \in Tool, AddTool(t) PROVE Nearer
  BY <1>3 DEF AddTool, Nearer
<1>4. CASE EndService
  BY <1>4 DEF EndService, Nearer, Rank, IInv, TypeInv, PhaseOK
<1> QED
  BY <1>1, <1>2, <1>3, <1>4 DEF ReloadStep, Start, RefuseStart, Reload, RejectReload

THEOREM ReloadsRunOut ==
  Spec => [][ReloadStep /\ stage \notin {"new", "idle"} => Nearer]_vars
BY NearerStep, BookkeepingCorrect, PTL DEF Spec

(***************************************************************************)
(* Nor is apply ever stuck before its end: whatever its stage and its      *)
(* work list, a step of it is open.  The services of one name go in the    *)
(* order of the list, the explicit one first, and somebody is always next. *)
(* (StepIsOpen is what ReloadStep's actions wait for, except for the       *)
(* bound MaxInstances.)                                                    *)
(***************************************************************************)
IsNext(e) == \A f \in todo : f.name = e.name => e.origin = "explicit" \/ f = e

StepIsOpen ==
  \/ stage = "build"                  \* BuildTools or BuildFails, or Lock
  \/ stage = "install" /\ (todo = {} \/ \E e \in todo : IsNext(e))
  \/ stage = "add"                    \* AddTool, or EndService
  \/ stage = "publish"

LEMMA OpenWhileApplying ==
  IInv => (stage \notin {"new", "idle", "exited"} => StepIsOpen)
<1> SUFFICES ASSUME IInv, stage = "install", NEW e \in todo
             PROVE  \E f \in todo : IsNext(f)
  BY DEF IInv, TypeInv, TypeOK, RegistryTypeOK, StepIsOpen
<1>1. todo \subseteq Entry
  BY DEF IInv, TypeInv, TypeOK, RegistryTypeOK
<1>2. \A f, g \in Entry :
        f.name = g.name /\ f # g /\ f.origin # "explicit" => g.origin = "explicit"
  BY SourcesAssumption DEF Entry
<1>3. CASE IsNext(e)
  BY <1>3
<1>4. CASE ~IsNext(e)
  <2>1. PICK f \in todo : f.name = e.name /\ e.origin # "explicit" /\ f # e
    BY <1>4 DEF IsNext
  <2> QED BY <1>1, <1>2, <2>1 DEF IsNext
<1> QED BY <1>3, <1>4

\* The theorem itself.
THEOREM ReloadsNeverStick ==
  Spec => [](stage \notin {"new", "idle", "exited"} => StepIsOpen)
BY OpenWhileApplying, BookkeepingCorrect, PTL
=============================================================================
