------------------------- MODULE RequestBuilderProofs -------------------------
(***************************************************************************)
(* What holds of RequestBuilder for every document, upstream and call,     *)
(* checked by TLAPS.                                                       *)
(***************************************************************************)
EXTENDS RequestBuilder, TLAPS

\* The parameters of an operation are parameters.
LEMMA DeclaredParams ==
  ASSUME NEW o \in Operation
  PROVE  /\ Len(operationParameters(o)) \in Nat
         /\ \A i \in 1 .. Len(operationParameters(o)) : operationParameters(o)[i] \in Param
         /\ declared(o) \subseteq Param
         /\ o.placeholders \subseteq ParamName
<1>1. o.item \in Seq(Param) /\ o.own \in Seq(Param) /\ o.placeholders \subseteq ParamName
  BY ArgumentsAssumption
<1>2. operationParameters(o) \in Seq(Param)
  BY <1>1 DEF operationParameters
<1>3. \A i \in 1 .. Len(operationParameters(o)) : operationParameters(o)[i] \in Param
  BY <1>2
<1> QED
  BY <1>1, <1>2, <1>3 DEF declared

\* Every candidate is an argument name.
LEMMA CandidateType ==
  ASSUME NEW p \in Param, NEW k \in 0 .. MaxSuffix
  PROVE  candidate(p, k) \in ArgName
BY ArgumentsAssumption DEF candidate, Param

\* The media type the body is to be encoded as.
LEMMA BodyMediaType == ASSUME NEW o \in Operation PROVE bodyMedia(o) \in Media \cup {NoMedia}
<1>1. CASE bodyMedia(o) = NoMedia
  BY <1>1
<1>2. CASE bodyMedia(o) # NoMedia
  <2>1. bodyMedia(o) \in o.typed
    BY <1>2 DEF bodyMedia
  <2>2. o.typed \subseteq Media
    BY ArgumentsAssumption
  <2> QED BY <2>1, <2>2
<1> QED BY <1>1, <1>2

(***************************************************************************)
(* The parser: whatever has been handled has a name, and no two have the   *)
(* same.                                                                   *)
(***************************************************************************)
NamesInv ==
  /\ ArgumentsTypeOK
  /\ \A i \in 1 .. done : argName[operationParameters(op)[i]] # NoArg
  /\ stage # "naming" => done = Len(operationParameters(op))
  /\ \A p \in Param : argName[p] # NoArg => p \in declared(op)
  /\ NamesAreApart

LEMMA NamesInit == Init => NamesInv
<1> SUFFICES ASSUME ArgumentsInit PROVE NamesInv
  BY DEF Init
<1> USE DEF ArgumentsInit
<1>1. Len(operationParameters(op)) \in Nat
  BY DeclaredParams
<1>2. ArgumentsTypeOK
  BY <1>1 DEF ArgumentsTypeOK, NoRoute
<1>3. NamesAreApart
  BY ArgumentsAssumption DEF NamesAreApart
<1> QED
  BY <1>2, <1>3 DEF NamesInv

\* One declaration handled.
LEMMA NamesAssign == ASSUME NamesInv, AssignArgName PROVE NamesInv'
<1> DEFINE p == operationParameters(op)[done + 1]
<1>1. /\ op' = op /\ done' = done + 1 /\ done < Len(operationParameters(op))
      /\ op \in Operation /\ done \in Nat
      /\ stage = "naming" /\ stage' = stage /\ route' = route /\ schema' = schema
      /\ argName \in [Param -> ArgName \cup {NoArg}]
  BY DEF NamesInv, ArgumentsTypeOK, AssignArgName
<1>2. p \in Param
  BY <1>1, DeclaredParams
<1>3. CASE argName[p] # NoArg
  <2>1. argName' = argName
    BY <1>3 DEF AssignArgName
  <2>2. ArgumentsTypeOK'
    BY <1>1, <2>1, DeclaredParams DEF NamesInv, ArgumentsTypeOK
  <2>3. NamesAreApart'
    BY <1>1, <2>1 DEF NamesInv, NamesAreApart, hasRequestBody
  <2>4. \A i \in 1 .. done + 1 : i \in 1 .. done \/ i = done + 1
    BY <1>1
  <2> QED
    BY <1>1, <1>3, <2>1, <2>2, <2>3, <2>4 DEF NamesInv
<1>4. CASE argName[p] = NoArg
  <2>1. PICK k \in 0 .. MaxSuffix :
          /\ candidate(p, k) \notin taken
          /\ argName' = [argName EXCEPT ![p] = candidate(p, k)]
    BY <1>4 DEF AssignArgName, NameParam
  <2>2. candidate(p, k) \in ArgName /\ candidate(p, k) # NoArg
    BY <1>2, CandidateType, ArgumentsAssumption
  <2>3. argName' \in [Param -> ArgName \cup {NoArg}]
    BY <1>1, <2>1, <2>2
  <2>4. ArgumentsTypeOK'
    BY <1>1, <2>3, DeclaredParams DEF NamesInv, ArgumentsTypeOK
  <2>5. \A q \in Param : argName[q] # candidate(p, k)
    BY <2>1, <2>2 DEF taken
  <2>6. hasRequestBody(op) => candidate(p, k) # BodyArg
    BY <2>1 DEF taken
  <2>7. NamesAreApart'
    BY <1>1, <1>2, <2>1, <2>5, <2>6 DEF NamesInv, NamesAreApart, hasRequestBody
  <2>8. \A i \in 1 .. done + 1 : i \in 1 .. done \/ i = done + 1
    BY <1>1
  <2>10. p \in declared(op)
    BY <1>1 DEF declared
  <2>11. \A q \in Param : argName'[q] # NoArg => q \in declared(op')
    BY <1>1, <2>1, <2>10 DEF NamesInv
  <2>12. declared(op') = declared(op)
    BY <1>1
  <2>9. \A i \in 1 .. done + 1 : argName'[operationParameters(op)[i]] # NoArg
    <3>1. \A i \in 1 .. done : operationParameters(op)[i] \in Param
      BY <1>1, DeclaredParams
    <3> QED
      BY <1>1, <1>2, <2>1, <2>2, <2>8, <3>1 DEF NamesInv
  <2> QED
    BY <1>1, <2>4, <2>7, <2>9, <2>11 DEF NamesInv
<1> QED
  BY <1>3, <1>4

\* The route and the schema are made of names that exist.
LEMMA NamesPublish == ASSUME NamesInv, CreateRouteConfig \/ GenerateTool PROVE NamesInv'
<1>1. /\ op' = op /\ done' = done /\ argName' = argName
      /\ op \in Operation /\ argName \in [Param -> ArgName \cup {NoArg}]
  BY DEF NamesInv, ArgumentsTypeOK, CreateRouteConfig, GenerateTool
<1>2. NamesAreApart'
  BY <1>1 DEF NamesInv, NamesAreApart, hasRequestBody
<1>3. CASE CreateRouteConfig
  <2>1. \A p \in declared(op) : p \in Param /\ argName[p] \in ArgName
    BY <1>1, <1>3, DeclaredParams DEF NamesInv, CreateRouteConfig, declared
  <2>2. \A p \in Param : p.name \in ParamName /\ p.in \in Location
    BY DEF Param
  <2>3. routeParams \subseteq Config
    BY <1>1, <2>1, <2>2, DeclaredParams, ArgumentsAssumption
    DEF routeParams, configs, Config, Location
  <2> QED
    BY <1>1, <1>2, <1>3, <2>3 DEF NamesInv, ArgumentsTypeOK, CreateRouteConfig
<1>4. CASE GenerateTool
  <2>4. \A p \in declared(op) : argName[p] \in ArgName
    BY <1>1, <1>4, DeclaredParams DEF NamesInv, GenerateTool, declared
  <2>3. schema' \subseteq ArgName
    BY <1>1, <1>4, <2>4, DeclaredParams, ArgumentsAssumption DEF GenerateTool
  <2>1. bodyMedia(op) \in Media \cup {NoMedia}
    BY <1>1, BodyMediaType
  <2>2. route' \in [params : SUBSET Config, media : Media \cup {NoMedia}]
    BY <1>4, <2>1 DEF NamesInv, ArgumentsTypeOK, GenerateTool
  <2> QED
    BY <1>1, <1>2, <1>4, <2>2, <2>3 DEF NamesInv, ArgumentsTypeOK, GenerateTool
<1> QED
  BY <1>3, <1>4

\* The call does not touch the tool.
LEMMA NamesFrame == ASSUME NamesInv, UNCHANGED argumentVars PROVE NamesInv'
BY DEF NamesInv, ArgumentsTypeOK, NamesAreApart, argumentVars, hasRequestBody

(***************************************************************************)
(* The parser's invariant, whatever the parameters are called and however  *)
(* the renamed forms collide with the names of others.                     *)
(***************************************************************************)
THEOREM ParserCorrect == Spec => []NamesInv
<1>1. NamesInv /\ [Next]_vars => NamesInv'
  <2> SUFFICES ASSUME NamesInv, [Next]_vars PROVE NamesInv'
    OBVIOUS
  <2>1. CASE AssignArgName
    BY <2>1, NamesAssign
  <2>2. CASE CreateRouteConfig \/ GenerateTool
    BY <2>2, NamesPublish
  <2>3. CASE Call \/ BuildRequest \/ UNCHANGED vars
    <3>1. UNCHANGED argumentVars
      BY <2>3 DEF BuildRequest, Call, refuseUndeclared, buildURL, addQueryParams,
         createRequestBody, buildURLHook, buildBodyHook, mergeHeaders, setHeader,
         setTypeAndCookies, applyAuth, signRequest, vars
    <3> QED BY <3>1, NamesFrame
  <2> QED
    BY <2>1, <2>2, <2>3 DEF Next, ArgumentsStep, Returned
<1> QED
  BY <1>1, NamesInit, PTL DEF Spec

(***************************************************************************)
(* No two parameters of an operation share a tool argument, and none has   *)
(* the name of the request body.                                           *)
(***************************************************************************)
THEOREM ArgumentsAreApart == Spec => []NamesAreApart
<1>1. NamesInv => NamesAreApart
  BY DEF NamesInv
<1> QED BY <1>1, ParserCorrect, PTL
-----------------------------------------------------------------------------
(***************************************************************************)
(* A parameter is renamed only because somebody has its name; the route is *)
(* made of the names as they are at the end.                               *)
(***************************************************************************)
ToolInv ==
  /\ \A p \in Param : argName[p] \notin {NoArg, p.name} => p.name \in taken
  /\ stage # "naming" => route.params = routeParams
  /\ SchemaIsAccepted

\* Naming one more takes nothing back.
LEMMA ToolAssign == ASSUME NamesInv, NamesInv', ToolInv, AssignArgName PROVE ToolInv'
<1> DEFINE p == operationParameters(op)[done + 1]
<1>1. /\ op' = op /\ stage' = "naming" /\ p \in Param
      /\ argName \in [Param -> ArgName \cup {NoArg}]
  BY DeclaredParams DEF NamesInv, ArgumentsTypeOK, AssignArgName
<1>2. \A q \in Param : argName'[q] \notin {NoArg, q.name} => q.name \in taken'
  <2>1. CASE argName' = argName
    BY <1>1, <2>1 DEF ToolInv, taken, hasRequestBody
  <2>2. CASE argName[p] = NoArg
    <3>1. PICK k \in 0 .. MaxSuffix :
            /\ \A j \in 0 .. (k - 1) : candidate(p, j) \in taken
            /\ argName' = [argName EXCEPT ![p] = candidate(p, k)]
      BY <2>2 DEF AssignArgName, NameParam
    <3>2. \A q \in Param : argName[q] # NoArg => argName'[q] = argName[q]
      BY <1>1, <2>2, <3>1
    <3>3. taken \subseteq taken'
      BY <1>1, <3>2 DEF taken, hasRequestBody
    <3>4. argName'[p] # p.name => p.name \in taken
      <4>1. k = 0 => argName'[p] = p.name
        BY <1>1, <3>1 DEF candidate
      <4>2. ASSUME k # 0 PROVE p.name \in taken
        <5>1. 0 \in 0 .. (k - 1)
          BY <4>2, ArgumentsAssumption
        <5>2. candidate(p, 0) = p.name
          BY DEF candidate
        <5> QED BY <3>1, <5>1, <5>2
      <4> QED BY <4>1, <4>2
    <3>5. \A q \in Param : q # p => argName'[q] = argName[q]
      BY <1>1, <3>1
    <3>6. ASSUME NEW q \in Param, argName'[q] \notin {NoArg, q.name}
          PROVE  q.name \in taken
      <4>1. CASE q = p
        BY <3>4, <3>6, <4>1
      <4>2. CASE q # p
        <5>1. argName[q] \notin {NoArg, q.name}
          BY <3>5, <3>6, <4>2
        <5> QED BY <5>1 DEF ToolInv
      <4> QED BY <4>1, <4>2
    <3> QED BY <3>3, <3>6
  <2> QED BY <2>1, <2>2 DEF AssignArgName
<1> QED BY <1>1, <1>2 DEF ToolInv, SchemaIsAccepted

LEMMA ToolRoute == ASSUME NamesInv, ToolInv, CreateRouteConfig PROVE ToolInv'
<1>1. routeParams' = routeParams /\ taken' = taken /\ argName' = argName
  BY DEF CreateRouteConfig, routeParams, configs, taken, hasRequestBody
<1>2. route'.params = routeParams /\ stage' = "routing"
  BY DEF CreateRouteConfig
<1> QED BY <1>1, <1>2 DEF ToolInv, SchemaIsAccepted

\* Every placeholder is an argument of the route or shares its name with one.
LEMMA ToolPublish == ASSUME NamesInv, ToolInv, GenerateTool PROVE ToolInv'
<1>1. /\ op' = op /\ done' = done /\ argName' = argName /\ op \in Operation
      /\ argName \in [Param -> ArgName \cup {NoArg}]
      /\ route' = [route EXCEPT !.media = bodyMedia(op)]
      /\ route \in [params : SUBSET Config, media : Media \cup {NoMedia}]
      /\ route.params = routeParams
  BY DEF NamesInv, ArgumentsTypeOK, GenerateTool, ToolInv
<1>2. routeParams' = routeParams /\ taken' = taken
  BY <1>1 DEF routeParams, configs, taken, hasRequestBody
<1>3. route'.params = route.params /\ route'.media = bodyMedia(op)
  BY <1>1
<1>4. \A p \in declared(op) : p \in Param /\ argName[p] \in ArgName
  BY <1>1, DeclaredParams DEF NamesInv, GenerateTool, declared
<1> DEFINE named == {argName[p] : p \in declared(op)}
           free  == {n \in op.placeholders : \A p \in declared(op) : p.name # n}
<1>5. {c.arg : c \in routeParams} = named \cup free
  <2> DEFINE cfg(p) == [name |-> p.name, in |-> p.in, arg |-> argName[p]]
             path(n) == [name |-> n, in |-> "path", arg |-> n]
  <2>1. routeParams = {cfg(p) : p \in declared(op)} \cup {path(n) : n \in free}
    BY DEF routeParams, configs
  <2>2. \A p : cfg(p).arg = argName[p]
    OBVIOUS
  <2>3. \A n : path(n).arg = n
    OBVIOUS
  <2> HIDE DEF cfg, path
  <2> QED BY <2>1, <2>2, <2>3
<1>6. ASSUME BodyArg \notin op.placeholders PROVE op.placeholders \subseteq named \cup free
  <2> SUFFICES ASSUME NEW p \in declared(op), p.name \in op.placeholders
               PROVE  p.name \in named
    OBVIOUS
  <2>1. CASE argName[p] = p.name
    BY <2>1
  <2>2. CASE argName[p] # p.name
    <3>1. p.name \in taken /\ p.name # BodyArg
      BY <1>4, <1>6, <2>2, ArgumentsAssumption DEF ToolInv
    <3>2. PICK q \in Param : argName[q] # NoArg /\ p.name = argName[q]
      BY <3>1 DEF taken
    <3> QED BY <3>2 DEF NamesInv
  <2> QED BY <2>1, <2>2
<1>7. SchemaIsAccepted'
  BY <1>1, <1>3, <1>5, <1>6 DEF SchemaIsAccepted, accepted, GenerateTool
<1> QED
  BY <1>1, <1>2, <1>3, <1>7 DEF ToolInv

LEMMA ToolHolds == Spec => []ToolInv
<1>1. Init => ToolInv
  BY DEF Init, ArgumentsInit, ToolInv, SchemaIsAccepted
<1>2. NamesInv /\ NamesInv' /\ ToolInv /\ [Next]_vars => ToolInv'
  <2> SUFFICES ASSUME NamesInv, NamesInv', ToolInv, [Next]_vars PROVE ToolInv'
    OBVIOUS
  <2>1. CASE ArgumentsStep
    BY <2>1, ToolAssign, ToolRoute, ToolPublish DEF ArgumentsStep
  <2>2. CASE Call \/ BuildRequest \/ UNCHANGED vars
    <3>1. UNCHANGED argumentVars
      BY <2>2 DEF BuildRequest, Call, refuseUndeclared, buildURL, addQueryParams,
         createRequestBody, buildURLHook, buildBodyHook, mergeHeaders, setHeader,
         setTypeAndCookies, applyAuth, signRequest, vars
    <3>2. taken' = taken /\ routeParams' = routeParams /\ accepted' = accepted
      BY <3>1 DEF argumentVars, taken, routeParams, configs, accepted, hasRequestBody
    <3> QED BY <3>1, <3>2 DEF argumentVars, ToolInv, SchemaIsAccepted
  <2> QED
    BY <2>1, <2>2 DEF Next, Returned
<1> QED
  BY <1>1, <1>2, ParserCorrect, PTL DEF Spec

(***************************************************************************)
(* The tool's schema and the request builder's route agree, though they    *)
(* are worked out in two passes: a caller who follows the schema is never  *)
(* told that an argument is not declared.                                  *)
(***************************************************************************)
THEOREM ToolsTakeWhatTheySay == Spec => []SchemaIsAccepted
<1>1. ToolInv => SchemaIsAccepted
  BY DEF ToolInv
<1> QED BY <1>1, ToolHolds, PTL
-----------------------------------------------------------------------------
(***************************************************************************)
(* Past the authentication the credential is in its place, and only the    *)
(* signer writes after it: the order of the steps is the whole argument.   *)
(***************************************************************************)
CredentialSet ==
  /\ upstream.place = "header" =>
       wire[canonical[upstream.name]] \in {"credential", "signature"}
  /\ upstream.place = "query" => {q \in query : q.name = upstream.name} = {credential}

SendingInv ==
  /\ upstream \in Upstream
  /\ headers \in [HeaderName -> Source \cup {NoSource}]
  /\ wire \in [HeaderName -> Source \cup {NoSource}]
  /\ pc \in {"sign", "sent"} => CredentialSet

LEMMA SendingInit == Init => SendingInv
BY DEF Init, SendingInv

\* Where the credential goes when it goes into a header.
LEMMA CredentialHeader ==
  ASSUME upstream \in Upstream, upstream.place = "header"
  PROVE  canonical[upstream.name] \in HeaderName
BY BuilderAssumption

\* The steps before the headers are sent leave them alone.
LEMMA SendingBefore ==
  ASSUME SendingInv,
         Call \/ refuseUndeclared \/ buildURL \/ addQueryParams \/ createRequestBody
           \/ buildURLHook \/ buildBodyHook
  PROVE  SendingInv'
<1>1. pc' \notin {"auth", "sign", "sent"}
  BY DEF Call, refuseUndeclared, buildURL, addQueryParams, createRequestBody,
     buildURLHook, buildBodyHook
<1>2. UNCHANGED <<upstream, headers, wire>>
  BY DEF Call, refuseUndeclared, buildURL, addQueryParams, createRequestBody,
     buildURLHook, buildBodyHook
<1> QED
  BY <1>1, <1>2 DEF SendingInv

LEMMA SendingMerge == ASSUME NamesInv, SendingInv, mergeHeaders PROVE SendingInv'
<1>1. pc' \notin {"auth", "sign", "sent"} /\ UNCHANGED <<upstream, wire>>
  BY DEF mergeHeaders
<1>2. \A h \in HeaderName : mergedHeader(h) \in Source \cup {NoSource}
  <2> SUFFICES ASSUME NEW h \in HeaderName
               PROVE  mergedHeader(h) \in Source \cup {NoSource}
    OBVIOUS
  <2>1. \A c \in declaredIn("header") : c.arg \in Source
    BY DEF NamesInv, ArgumentsTypeOK, declaredIn, Config, Source
  <2> DEFINE own == {c \in declaredIn("header") : c.name = h /\ serialised(c.arg)}
  <2>2. own # {} => (CHOOSE c \in own : TRUE) \in declaredIn("header")
    OBVIOUS
  <2> QED
    BY <2>1, <2>2 DEF mergedHeader, Source, Provider
<1> QED
  BY <1>1, <1>2 DEF SendingInv, mergeHeaders

LEMMA SendingHeaders ==
  ASSUME SendingInv, (\E h \in HeaderName : setHeader(h)) \/ setTypeAndCookies
  PROVE  SendingInv'
<1>1. ASSUME NEW h \in HeaderName, setHeader(h) PROVE SendingInv'
  <2>1. /\ pc' \notin {"auth", "sign", "sent"} /\ upstream' = upstream
        /\ headers' \in [HeaderName -> Source \cup {NoSource}]
        /\ wire' \in [HeaderName -> Source \cup {NoSource}]
    BY <1>1 DEF SendingInv, setHeader
  <2> QED BY <2>1 DEF SendingInv
<1>2. CASE setTypeAndCookies
  BY <1>2 DEF SendingInv, setTypeAndCookies, Source, Provider
<1> QED
  BY <1>1, <1>2

LEMMA SendingAuth == ASSUME SendingInv, applyAuth PROVE SendingInv'
<1>1. /\ pc = "auth" /\ pc' \in {"sign", "refused"} 
      /\ UNCHANGED <<upstream, headers>>
  BY DEF SendingInv, applyAuth
<1>2. wire' \in [HeaderName -> Source \cup {NoSource}]
  BY DEF SendingInv, applyAuth, Source, Provider
<1>3. credential' = credential /\ credential.name = upstream.name
  BY <1>1 DEF credential
<1>4. CredentialSet'
  <2>1. upstream.place = "header" => wire'[canonical[upstream.name]] = "credential"
    BY CredentialHeader DEF SendingInv, applyAuth
  <2>2. upstream.place = "query" =>
          {q \in query' : q.name = upstream.name} = {credential}
    BY <1>3 DEF applyAuth
  <2> QED BY <1>1, <1>3, <2>1, <2>2 DEF CredentialSet
<1> QED
  BY <1>1, <1>2, <1>4 DEF SendingInv

LEMMA SendingSign == ASSUME SendingInv, signRequest PROVE SendingInv'
<1>1. /\ pc = "sign" /\ pc' \in {"sent", "refused"}
      /\ UNCHANGED <<upstream, headers, query>>
  BY DEF SendingInv, signRequest
<1>2. wire' \in [HeaderName -> Source \cup {NoSource}]
  BY DEF SendingInv, signRequest, Source, Provider
<1>3. CredentialSet'
  <2>1. \A h \in HeaderName : wire'[h] \in {wire[h], "signature"}
    BY DEF SendingInv, signRequest
  <2>2. credential' = credential
    BY <1>1 DEF credential
  <2>3. CredentialSet
    BY <1>1 DEF SendingInv
  <2>4. upstream.place = "header" =>
          wire'[canonical[upstream.name]] \in {"credential", "signature"}
    BY <2>1, <2>3, CredentialHeader DEF CredentialSet, SendingInv
  <2> QED BY <1>1, <2>2, <2>3, <2>4 DEF CredentialSet
<1> QED
  BY <1>1, <1>2, <1>3 DEF SendingInv

LEMMA SendingFrame == ASSUME SendingInv, UNCHANGED callVars PROVE SendingInv'
BY DEF SendingInv, CredentialSet, credential, callVars

\* The invariant of the request builder.
THEOREM SendingCorrect == Spec => []SendingInv
<1>1. NamesInv /\ SendingInv /\ [Next]_vars => SendingInv'
  <2> SUFFICES ASSUME NamesInv, SendingInv, [Next]_vars PROVE SendingInv'
    OBVIOUS
  <2>1. CASE UNCHANGED callVars
    BY <2>1, SendingFrame
  <2>2. CASE Call \/ BuildRequest
    BY <2>2, SendingBefore, SendingMerge, SendingHeaders, SendingAuth, SendingSign
    DEF BuildRequest
  <2> QED
    BY <2>1, <2>2 DEF Next, Returned, vars
<1> QED
  BY <1>1, SendingInit, ParserCorrect, PTL DEF Spec

(***************************************************************************)
(* Whatever the caller's arguments, the document's parameters and the      *)
(* static headers are called, nothing but the configured credential is     *)
(* sent in the credential's place.                                         *)
(***************************************************************************)
THEOREM CredentialsPrevail == Spec => []CredentialPrevails
<1>1. SendingInv => CredentialPrevails
  BY DEF SendingInv, CredentialSet, CredentialPrevails
<1> QED BY <1>1, SendingCorrect, PTL

-----------------------------------------------------------------------------
(***************************************************************************)
(* Types, step by step: every place of the request holds an argument or    *)
(* what one of the providers put there.                                    *)
(***************************************************************************)
LEMMA RouteIsTyped ==
  ASSUME ArgumentsTypeOK
  PROVE  \A in : \A c \in declaredIn(in) : c \in Config /\ c.name \in ParamName /\ c.arg \in ArgName
BY DEF ArgumentsTypeOK, declaredIn, Config

LEMMA FillerType ==
  ASSUME TypeOK, NEW n \in ParamName
  PROVE  filler(n) \in Source \cup {NoSource}
<1> DEFINE own == {c \in declaredIn("path") : c.name = n /\ present(c.arg)}
<1>1. own # {} => (CHOOSE c \in own : TRUE) \in declaredIn("path")
  OBVIOUS
<1>2. own # {} => (CHOOSE c \in own : TRUE).arg \in ArgName
  BY <1>1, RouteIsTyped DEF TypeOK
<1>3. present(n) => n \in ArgName
  BY DEF TypeOK, present
<1> QED BY <1>2, <1>3 DEF filler, Source

LEMMA BuilderTypes ==
  ASSUME TypeOK, BuildRequest \/ Call, headers' \in [HeaderName -> Source \cup {NoSource}],
         wire' \in [HeaderName -> Source \cup {NoSource}]
  PROVE  TypeOK'
<1>0. /\ UNCHANGED <<argumentVars, upstream>> /\ ArgumentsTypeOK' = ArgumentsTypeOK
  BY DEF BuildRequest, Call, refuseUndeclared, buildURL, addQueryParams, createRequestBody,
     buildURLHook, buildBodyHook, mergeHeaders, setHeader, setTypeAndCookies, applyAuth,
     signRequest, argumentVars, ArgumentsTypeOK
<1>1. CASE Call
  <2>1. PICK given \in Calls[<<op, upstream>>] : args' \in [given -> Kind]
    BY <1>1 DEF Call
  <2>2. given \subseteq ArgName
    BY <2>1, BuilderAssumption DEF TypeOK, ArgumentsTypeOK
  <2>3. DOMAIN args' \subseteq ArgName /\ \A a \in DOMAIN args' : args'[a] \in Kind
    BY <2>1, <2>2
  <2> QED BY <1>0, <1>1, <2>3 DEF Call, TypeOK
<1>2. CASE refuseUndeclared \/ mergeHeaders \/ (\E h \in HeaderName : setHeader(h))
  <2>1. UNCHANGED <<args, pathOf, query, body, contentType, cookies>>
    BY <1>2 DEF refuseUndeclared, mergeHeaders, setHeader
  <2> QED BY <1>0, <2>1 DEF TypeOK
<1>3. CASE buildURL
  <2>1. pathOf' \in [ParamName -> Source \cup {NoSource}]
    BY <1>3, FillerType DEF buildURL
  <2> QED BY <1>0, <1>3, <2>1 DEF buildURL, TypeOK
<1>4. CASE addQueryParams
  <2>1. query' \subseteq [name : HeaderName \cup ParamName \cup {Hook}, from : Source]
    BY <1>4, RouteIsTyped DEF addQueryParams, Source, TypeOK
  <2> QED BY <1>0, <1>4, <2>1 DEF addQueryParams, TypeOK
<1>5. CASE createRequestBody
  <2>1. UNCHANGED <<args, pathOf, query, cookies>>
    BY <1>5 DEF createRequestBody
  <2>2. /\ body' \in [from : Source \cup {NoSource}, bytes : {"none", "form", "text", "json", Hook}]
        /\ contentType' \in Media \cup {NoMedia}
    <3>1. CASE UNCHANGED <<body, contentType>>
      BY <3>1 DEF TypeOK
    <3>2. CASE LET encoded == encodeBody(args[BodyArg], route.media)
               IN  /\ body' = [from |-> BodyArg, bytes |-> encoded[1]]
                   /\ contentType' = encoded[2]
      <4>1. /\ encodeBody(args[BodyArg], route.media)[1] \in {"form", "text", "json"}
            /\ encodeBody(args[BodyArg], route.media)[2] \in Media
        BY DEF encodeBody, Media
      <4> QED BY <3>2, <4>1, ArgumentsAssumption DEF Source
    <3> QED BY <1>5, <3>1, <3>2 DEF createRequestBody
  <2> QED BY <1>0, <2>1, <2>2 DEF TypeOK
<1>6. CASE buildURLHook
  <2>1. pathOf' \in [ParamName -> Source \cup {NoSource}]
    BY <1>6 DEF buildURLHook, TypeOK, Source, Provider
  <2>2. query' \subseteq [name : HeaderName \cup ParamName \cup {Hook}, from : Source]
    BY <1>6 DEF buildURLHook, TypeOK, Source, Provider
  <2> QED BY <1>0, <1>6, <2>1, <2>2 DEF buildURLHook, TypeOK
<1>7. CASE buildBodyHook
  BY <1>0, <1>7 DEF buildBodyHook, TypeOK, Source, Provider, Media
<1>8. CASE setTypeAndCookies
  <2>1. cookies' \subseteq [name : ParamName, from : ArgName]
    BY <1>8, RouteIsTyped DEF setTypeAndCookies, TypeOK
  <2> QED BY <1>0, <1>8, <2>1 DEF setTypeAndCookies, TypeOK
<1>9. CASE applyAuth
  <2>1. query' \subseteq [name : HeaderName \cup ParamName \cup {Hook}, from : Source]
    BY <1>9, BuilderAssumption DEF applyAuth, TypeOK, credential, Source, Provider
  <2> QED BY <1>0, <1>9, <2>1 DEF applyAuth, TypeOK
<1>10. CASE signRequest
  BY <1>0, <1>10 DEF signRequest, TypeOK
<1> QED
  BY <1>1, <1>2, <1>3, <1>4, <1>5, <1>6, <1>7, <1>8, <1>9, <1>10 DEF BuildRequest

(***************************************************************************)
(* The tool and the request that is being built stay of their types.       *)
(***************************************************************************)
THEOREM RequestsAreTyped == Spec => []TypeOK
<1>1. NamesInv /\ Init => TypeOK
  BY DEF Init, TypeOK, NamesInv, NoBody, Media
<1>2. NamesInv' /\ SendingInv' /\ TypeOK /\ [Next]_vars => TypeOK'
  <2> SUFFICES ASSUME NamesInv', SendingInv', TypeOK, [Next]_vars PROVE TypeOK'
    OBVIOUS
  <2>1. CASE UNCHANGED callVars
    BY <2>1 DEF callVars, TypeOK, NamesInv
  <2>2. CASE Call \/ BuildRequest
    BY <2>2, BuilderTypes DEF SendingInv
  <2> QED BY <2>1, <2>2 DEF Next, Returned, vars
<1> QED
  BY <1>1, <1>2, ParserCorrect, SendingCorrect, PTL DEF Spec
-----------------------------------------------------------------------------
(***************************************************************************)
(* A body that came from the caller is of the type written beside it, from *)
(* the step that encodes it to the step that sends it: a hook that changes *)
(* one changes whose the body is.                                          *)
(***************************************************************************)
DescribedInv ==
  body.from = BodyArg =>
    /\ contentType # NoMedia
    /\ body.bytes = CASE contentType \in {"json", "patch"} -> "json"
                      [] contentType \in {"form", "text"}  -> contentType
                      [] OTHER                             -> "none"

LEMMA DescribedHolds == Spec => []DescribedInv
<1>1. Init => DescribedInv
  BY ArgumentsAssumption, BuilderAssumption DEF Init, DescribedInv, NoBody, Source
<1>2. DescribedInv /\ [Next]_vars => DescribedInv'
  <2> SUFFICES ASSUME DescribedInv, [Next]_vars PROVE DescribedInv'
    OBVIOUS
  <2>1. CASE createRequestBody
    <3>1. CASE UNCHANGED <<body, contentType>>
      BY <3>1 DEF DescribedInv
    <3>2. CASE LET encoded == encodeBody(args[BodyArg], route.media)
               IN  /\ body' = [from |-> BodyArg, bytes |-> encoded[1]]
                   /\ contentType' = encoded[2]
      <4>1. LET encoded == encodeBody(args[BodyArg], route.media)
            IN  encoded \in {<<"form", "form">>, <<"text", "text">>, <<"json", "json">>,
                             <<"json", "patch">>}
        BY DEF encodeBody
      <4> QED BY <3>2, <4>1 DEF DescribedInv, NoMedia
    <3> QED BY <2>1, <3>1, <3>2 DEF createRequestBody
  <2>2. CASE buildBodyHook
    <3>1. CASE upstream.bodyBuilder \in {"none", "fails"}
      BY <2>2, <3>1 DEF buildBodyHook, DescribedInv
    <3>2. CASE upstream.bodyBuilder \notin {"none", "fails"}
      <4>1. body'.from = Hook
        BY <2>2, <3>2 DEF buildBodyHook
      <4>2. Hook # BodyArg
        BY ArgumentsAssumption, BuilderAssumption DEF Provider
      <4> QED BY <4>1, <4>2 DEF DescribedInv
    <3> QED BY <3>1, <3>2
  <2>3. CASE UNCHANGED <<body, contentType>>
    BY <2>3 DEF DescribedInv
  <2>4. ASSUME [Next]_vars, ~createRequestBody, ~buildBodyHook
        PROVE  UNCHANGED <<body, contentType>>
    BY <2>4 DEF Next, BuildRequest, Call, refuseUndeclared, buildURL, addQueryParams,
       buildURLHook, mergeHeaders, setHeader, setTypeAndCookies, applyAuth, signRequest,
       Returned, vars, callVars
  <2> QED BY <2>1, <2>2, <2>3, <2>4
<1> QED BY <1>1, <1>2, PTL DEF Spec
-----------------------------------------------------------------------------
\* Two parameters of a route in one location have different names.
LEMMA ConfigsAreApart ==
  ASSUME NamesInv, ToolInv, stage = "published"
  PROVE  /\ \A in : \A c, d \in declaredIn(in) : c.name = d.name => c = d
         /\ \A c \in declaredIn("header") : c.name \in HeaderName
<1> DEFINE named == {[name |-> p.name, in |-> p.in, arg |-> argName[p]] : p \in declared(op)}
           free == {n \in op.placeholders : \A p \in declared(op) : p.name # n}
           added == {[name |-> n, in |-> "path", arg |-> n] : n \in free}
<1>1. op \in Operation /\ route.params = named \cup added
  BY DEF NamesInv, ArgumentsTypeOK, ToolInv, routeParams, configs
<1>2. \A p \in declared(op) : p \in Param
  BY <1>1, DeclaredParams
<1>3. \A p, q \in declared(op) : p.name = q.name /\ p.in = q.in => p = q
  BY <1>2 DEF Param
<1>4. \A c \in named : \E p \in declared(op) :
        c.name = p.name /\ c.in = p.in /\ c.arg = argName[p]
        /\ c = [name |-> p.name, in |-> p.in, arg |-> argName[p]]
  OBVIOUS
<1>5. \A c \in added : c.name \in free /\ c.in = "path"
        /\ c = [name |-> c.name, in |-> "path", arg |-> c.name]
  OBVIOUS
<1> HIDE DEF named, added
<1>6. ASSUME NEW c \in route.params, NEW d \in route.params, c.name = d.name, c.in = d.in
      PROVE  c = d
  <2>1. CASE c \in named /\ d \in named
    BY <1>3, <1>4, <1>6, <2>1
  <2>2. CASE c \in added /\ d \in added
    BY <1>5, <1>6, <2>2
  <2>3. ~(c \in named /\ d \in added) /\ ~(c \in added /\ d \in named)
    BY <1>4, <1>5, <1>6
  <2> QED BY <1>1, <2>1, <2>2, <2>3
<1>7. ASSUME NEW c \in declaredIn("header")
      PROVE  c.name \in HeaderName
  <2>1. c \in named /\ c.in = "header"
    BY <1>1, <1>5 DEF declaredIn
  <2>2. PICK p \in declared(op) : c.name = p.name /\ p.in = "header"
    BY <1>4, <2>1
  <2> QED BY <1>1, <2>2, BuilderAssumption
<1> QED BY <1>6, <1>7 DEF declaredIn

\* What is read of the route and the arguments changes with them only.
LEMMA ArgumentsFrame ==
  ASSUME UNCHANGED <<argumentVars, args>>
  PROVE  /\ \A in : declaredIn(in)' = declaredIn(in)
         /\ \A a : present(a)' = present(a) /\ serialised(a)' = serialised(a)
BY DEF argumentVars, declaredIn, present, serialised
-----------------------------------------------------------------------------
(***************************************************************************)
(* What fills a placeholder.  Where nothing but a path parameter is called *)
(* like a placeholder - no other parameter, no renamed argument and not    *)
(* the body - the second loop of buildURL finds no argument of another     *)
(* place.  Each of the three is needed: the run shadowed_path has the      *)
(* first.                                                                  *)
(***************************************************************************)
PlaceholdersStandAlone ==
  \A o \in Operation : \A n \in o.placeholders :
    /\ \A p \in declared(o) :
         /\ p.name = n => p.in = "path"
         /\ \A k \in 1 .. MaxSuffix : Renamed(p.in, p.name, k) # n
    /\ hasRequestBody(o) => n # BodyArg

\* Names come from the candidates.
NamedByCandidate ==
  \A p \in Param : argName[p] # NoArg => \E k \in 0 .. MaxSuffix : argName[p] = candidate(p, k)

ownArgument(n, a) == \E c \in declaredIn("path") : c.name = n /\ c.arg = a

PlacedInv ==
  /\ NamedByCandidate
  /\ route.media # NoMedia => hasRequestBody(op)
  /\ pc # "call" => stage = "published"
  /\ pc \notin {"call", "check", "refused"} => DOMAIN args \subseteq accepted
  /\ pc = "call" => \A n \in op.placeholders : pathOf[n] \notin ArgName
  /\ \A n \in op.placeholders : pathOf[n] \in ArgName => ownArgument(n, pathOf[n])

LEMMA CandidatesNamed ==
  ASSUME NamesInv, NamedByCandidate, ArgumentsStep
  PROVE  NamedByCandidate'
<1>1. CASE argName' = argName
  BY <1>1 DEF NamedByCandidate
<1>2. CASE AssignArgName /\ argName' # argName
  <2> DEFINE p == operationParameters(op)[done + 1]
  <2>1. PICK k \in 0 .. MaxSuffix : argName' = [argName EXCEPT ![p] = candidate(p, k)]
    BY <1>2 DEF AssignArgName, NameParam
  <2>2. argName \in [Param -> ArgName \cup {NoArg}]
    BY DEF NamesInv, ArgumentsTypeOK
  <2> QED BY <2>1, <2>2 DEF NamedByCandidate
<1> QED BY <1>1, <1>2 DEF ArgumentsStep, CreateRouteConfig, GenerateTool

\* An accepted argument that is called like a placeholder is that of the
\* path parameter of this name.
LEMMA PlaceholderArgument ==
  ASSUME PlaceholdersStandAlone, NamesInv, ToolInv, PlacedInv, stage = "published",
         NEW n \in op.placeholders, n \in accepted
  PROVE  ownArgument(n, n)
<1> DEFINE named == {[name |-> p.name, in |-> p.in, arg |-> argName[p]] : p \in declared(op)}
           free == {m \in op.placeholders : \A p \in declared(op) : p.name # m}
           added == {[name |-> m, in |-> "path", arg |-> m] : m \in free}
<1>1. op \in Operation /\ route.params = named \cup added
  BY DEF NamesInv, ArgumentsTypeOK, ToolInv, routeParams, configs
<1>2. \A p \in declared(op) : p \in Param /\ argName[p] # NoArg
  BY <1>1, DeclaredParams DEF NamesInv, declared
<1>3. CASE n \in free
  <2>1. [name |-> n, in |-> "path", arg |-> n] \in route.params
    BY <1>1, <1>3
  <2> QED BY <2>1 DEF ownArgument, declaredIn
<1>4. CASE \E p \in declared(op) : argName[p] = n
  <2>1. PICK p \in declared(op) : argName[p] = n
    BY <1>4
  <2>2. PICK k \in 0 .. MaxSuffix : n = candidate(p, k)
    BY <1>2, <2>1 DEF NamedByCandidate, PlacedInv
  <2>3. k = 0 /\ p.name = n /\ p.in = "path"
    BY <1>1, <2>2, ArgumentsAssumption DEF candidate, PlaceholdersStandAlone
  <2>4. [name |-> n, in |-> "path", arg |-> n] \in route.params
    BY <1>1, <2>1, <2>3
  <2> QED BY <2>4 DEF ownArgument, declaredIn
<1>5. ~(n = BodyArg /\ route.media # NoMedia)
  BY <1>1 DEF PlaceholdersStandAlone, PlacedInv
<1>6. n \in free \/ (\E p \in declared(op) : argName[p] = n) \/ (n = BodyArg /\ route.media # NoMedia)
  BY <1>1 DEF accepted
<1> QED BY <1>3, <1>4, <1>5, <1>6

(***************************************************************************)
(* Then a placeholder of a request that is sent is filled by the argument  *)
(* of its own path parameter, or by a hook: PlacedOnlyWhereDeclared.       *)
(***************************************************************************)
THEOREM NothingElseIsPlaced ==
  ASSUME PlaceholdersStandAlone PROVE Spec => []PlacedOnlyWhereDeclared
<1>1. NamesInv /\ Init => PlacedInv
  BY BuilderAssumption, DeclaredParams
  DEF Init, ArgumentsInit, PlacedInv, NamedByCandidate, Source, NoRoute, NamesInv, ArgumentsTypeOK
<1>2. NamesInv /\ NamesInv' /\ ToolInv /\ PlacedInv /\ [Next]_vars => PlacedInv'
  <2> SUFFICES ASSUME NamesInv, NamesInv', ToolInv, PlacedInv, [Next]_vars PROVE PlacedInv'
    OBVIOUS
  <2>0. ASSUME UNCHANGED argumentVars
        PROVE  /\ NamedByCandidate' /\ accepted' = accepted /\ op' = op /\ stage' = stage
               /\ route'.media # NoMedia => hasRequestBody(op')
               /\ \A n, a : ownArgument(n, a)' = ownArgument(n, a)
    BY <2>0 DEF PlacedInv, NamedByCandidate, argumentVars, accepted, hasRequestBody, ownArgument,
                declaredIn
  <2>1. CASE ArgumentsStep /\ UNCHANGED callVars
    <3>1. pc = "call" /\ pc' = pc /\ pathOf' = pathOf /\ op' = op
      BY <2>1 DEF PlacedInv, ArgumentsStep, AssignArgName, CreateRouteConfig, GenerateTool,
                  callVars
    <3>2. NamedByCandidate'
      BY <2>1, CandidatesNamed DEF PlacedInv
    <3>3. route'.media # NoMedia => hasRequestBody(op')
      <4>1. CASE AssignArgName
        BY <4>1 DEF AssignArgName, PlacedInv, hasRequestBody
      <4>2. CASE CreateRouteConfig
        BY <4>2 DEF CreateRouteConfig
      <4>3. CASE GenerateTool
        BY <4>3 DEF GenerateTool, NamesInv, ArgumentsTypeOK, bodyMedia, hasRequestBody
      <4> QED BY <2>1, <4>1, <4>2, <4>3 DEF ArgumentsStep
    <3> QED BY <3>1, <3>2, <3>3 DEF PlacedInv
  <2>2. CASE Call \/ refuseUndeclared
    <3>1. UNCHANGED <<argumentVars, pathOf>> /\ stage = "published"
      BY <2>2 DEF Call, refuseUndeclared, PlacedInv
    <3>2. pc' \notin {"call", "check", "refused"} => DOMAIN args' \subseteq accepted
      BY <2>2 DEF Call, refuseUndeclared
    <3>3. pc' # "call"
      BY <2>2 DEF Call, refuseUndeclared
    <3> QED BY <2>0, <3>1, <3>2, <3>3 DEF PlacedInv
  <2>3. CASE buildURL
    <3>1. /\ UNCHANGED <<argumentVars, args>> /\ stage = "published" /\ pc = "url"
          /\ DOMAIN args \subseteq accepted /\ pc' # "call"
      BY <2>3 DEF buildURL, PlacedInv
    <3>2. ASSUME NEW n \in op.placeholders, pathOf'[n] \in ArgName
          PROVE  ownArgument(n, pathOf'[n])
      <4> DEFINE own == {c \in declaredIn("path") : c.name = n /\ present(c.arg)}
      <4>1. n \in ParamName
        BY DeclaredParams DEF NamesInv, ArgumentsTypeOK
      <4>2. pathOf'[n] = filler(n)
        BY <2>3, <4>1 DEF buildURL
      <4>3. CASE own # {}
        <5>1. PICK c \in own : filler(n) = c.arg
          BY <4>3 DEF filler
        <5> QED BY <4>2, <5>1 DEF ownArgument
      <4>4. CASE own = {}
        <5>1. filler(n) = n /\ present(n)
          BY <3>2, <4>2, <4>4, BuilderAssumption DEF filler, Source
        <5>2. n \in accepted
          BY <3>1, <5>1 DEF present
        <5> QED BY <3>1, <4>2, <5>1, <5>2, PlaceholderArgument, PlaceholdersStandAlone
      <4> QED BY <4>3, <4>4
    <3> QED BY <2>0, <3>1, <3>2 DEF PlacedInv
  <2>4. CASE buildURLHook
    <3>1. /\ UNCHANGED <<argumentVars, args>> /\ stage = "published"
          /\ pc = "urlBuilder" /\ pc' # "call"
      BY <2>4 DEF buildURLHook, PlacedInv
    <3>2. ASSUME NEW n \in op.placeholders, pathOf'[n] \in ArgName
          PROVE  ownArgument(n, pathOf'[n])
      <4>1. n \in ParamName
        BY DeclaredParams DEF NamesInv, ArgumentsTypeOK
      <4>2. pathOf'[n] \in {pathOf[n], Hook}
        BY <2>4, <4>1 DEF buildURLHook
      <4>3. pathOf'[n] = pathOf[n]
        BY <3>2, <4>2, BuilderAssumption DEF Provider
      <4> QED BY <3>2, <4>3 DEF PlacedInv
    <3> QED BY <2>0, <3>1, <3>2 DEF PlacedInv
  <2>5. CASE (BuildRequest /\ ~refuseUndeclared /\ ~buildURL /\ ~buildURLHook) \/ UNCHANGED vars
    <3>1. /\ UNCHANGED <<argumentVars, args, pathOf>>
          /\ pc' = pc \/ pc \notin {"call", "check", "refused"}
      BY <2>5 DEF BuildRequest, addQueryParams, createRequestBody, buildBodyHook, mergeHeaders,
         setHeader, setTypeAndCookies, applyAuth, signRequest, vars, callVars
    <3>2. pc' = "call" <=> pc = "call"
      BY <2>5 DEF BuildRequest, addQueryParams, createRequestBody, buildBodyHook, mergeHeaders,
         setHeader, setTypeAndCookies, applyAuth, signRequest, vars, callVars
    <3> QED BY <2>0, <3>1, <3>2 DEF PlacedInv
  <2> QED BY <2>1, <2>2, <2>3, <2>4, <2>5 DEF Next, Returned
<1>3. PlacedInv => PlacedOnlyWhereDeclared
  BY DEF PlacedInv, PlacedOnlyWhereDeclared, ownArgument
<1> QED BY <1>1, <1>2, <1>3, ParserCorrect, ToolHolds, PTL DEF Spec
-----------------------------------------------------------------------------
(***************************************************************************)
(* The outcome of a call is decided by the tool, the upstream and the      *)
(* arguments, in closed form: when it is refused, and what every part of   *)
(* the request is when it is not.                                          *)
(***************************************************************************)
CalledWhenPublished == pc # "call" => stage = "published"

LEMMA CalledPublished == Spec => []CalledWhenPublished
<1>1. Init => CalledWhenPublished
  BY DEF Init, CalledWhenPublished
<1>2. CalledWhenPublished /\ [Next]_vars => CalledWhenPublished'
  <2> SUFFICES ASSUME CalledWhenPublished, [Next]_vars PROVE CalledWhenPublished'
    OBVIOUS
  <2>1. CASE ArgumentsStep /\ UNCHANGED callVars
    BY <2>1 DEF CalledWhenPublished, ArgumentsStep, AssignArgName, CreateRouteConfig,
       GenerateTool, callVars
  <2>2. CASE Call
    BY <2>2 DEF CalledWhenPublished, Call, argumentVars
  <2>3. CASE BuildRequest \/ UNCHANGED vars
    BY <2>3 DEF BuildRequest, refuseUndeclared, buildURL, addQueryParams, createRequestBody,
       buildURLHook, buildBodyHook, mergeHeaders, setHeader, setTypeAndCookies, applyAuth,
       signRequest, vars, callVars, argumentVars, CalledWhenPublished
  <2> QED BY <2>1, <2>2, <2>3 DEF Next, Returned
<1> QED BY <1>1, <1>2, PTL DEF Spec

\* Once a call is made nothing changes what it is decided by.
LEMMA BuildKeeps ==
  ASSUME BuildRequest
  PROVE  UNCHANGED <<argumentVars, upstream, args>> /\ pc # "call"
BY DEF BuildRequest, refuseUndeclared, buildURL, addQueryParams, createRequestBody,
   buildURLHook, buildBodyHook, mergeHeaders, setHeader, setTypeAndCookies, applyAuth,
   signRequest

(***************************************************************************)
(* A call is answered for what it was when it was made: the tool, the      *)
(* upstream and the caller's arguments stay as they are until the request  *)
(* is sent or refused.  So what the theorems below say of the end of a     *)
(* call is said of its beginning.                                          *)
(***************************************************************************)
THEOREM CallsAreAnsweredAsGiven ==
  Spec => [][pc # "call" => UNCHANGED <<argumentVars, upstream, args>>]_vars
<1>1. CalledWhenPublished /\ [Next]_vars =>
        [pc # "call" => UNCHANGED <<argumentVars, upstream, args>>]_vars
  <2> SUFFICES ASSUME CalledWhenPublished, Next, pc # "call"
               PROVE  UNCHANGED <<argumentVars, upstream, args>>
    OBVIOUS
  <2>1. ~ArgumentsStep /\ ~Call
    BY DEF CalledWhenPublished, ArgumentsStep, AssignArgName, CreateRouteConfig,
       GenerateTool, Call
  <2>2. UNCHANGED vars => UNCHANGED <<argumentVars, upstream, args>>
    BY DEF vars, callVars
  <2> QED BY <2>1, <2>2, BuildKeeps DEF Next, Returned
<1> QED BY <1>1, CalledPublished, PTL DEF Spec
-----------------------------------------------------------------------------
\* The form encoding is for objects only.
Unencodable == route.media = "form" /\ BodyArg \in DOMAIN args /\ args[BodyArg] # "object"

\* The reasons there are to refuse a call, in the order they are looked at.
Refusable ==
  \/ ~(DOMAIN args \subseteq accepted)
  \/ \E n \in op.placeholders : filler(n) = NoSource
  \/ Unencodable
  \/ upstream.urlBuilder = "fails" \/ upstream.bodyBuilder = "fails"
  \/ upstream.urlBuilder = "unusable"
  \/ upstream.place = "fails" \/ upstream.signer = "fails"

\* What the step that looks at a reason is followed by.
pastAuth     == {"sign", "sent"}
pastHeaders  == {"auth"} \cup pastAuth
pastMerge    == {"headers"} \cup pastHeaders
pastBodyHook == {"merge"} \cup pastMerge
pastURLHook  == {"bodyBuilder"} \cup pastBodyHook
pastBody     == {"urlBuilder"} \cup pastURLHook
pastQuery    == {"body"} \cup pastBody
pastURL      == {"query"} \cup pastQuery
pastCheck    == {"url"} \cup pastURL

ReasonsInv ==
  /\ pc = "refused"     => Refusable
  /\ pc \in pastCheck    => DOMAIN args \subseteq accepted
  /\ pc \in pastURL      => \A n \in op.placeholders : filler(n) # NoSource
  /\ pc \in pastBody     => ~Unencodable
  /\ pc \in pastURLHook  => upstream.urlBuilder # "fails"
  /\ pc \in pastBodyHook => upstream.bodyBuilder # "fails"
  /\ pc \in pastMerge    => upstream.urlBuilder # "unusable"
  /\ pc \in pastAuth     => upstream.place # "fails"
  /\ pc = "sent"         => upstream.signer # "fails"

LEMMA ReasonsFrame ==
  ASSUME UNCHANGED <<argumentVars, upstream, args>>
  PROVE  /\ Refusable' = Refusable /\ Unencodable' = Unencodable
         /\ accepted' = accepted
         /\ \A n : filler(n)' = filler(n)
<1>1. accepted' = accepted /\ Unencodable' = Unencodable
  BY DEF argumentVars, accepted, Unencodable
<1>2. ASSUME NEW n PROVE filler(n)' = filler(n)
  <2> DEFINE own == {c \in declaredIn("path") : c.name = n /\ present(c.arg)}
  <2>1. own' = own /\ present(n)' = present(n)
    BY ArgumentsFrame
  <2> HIDE DEF own
  <2>2. filler(n) = IF own # {} THEN (CHOOSE c \in own : TRUE).arg
                    ELSE IF present(n) THEN n ELSE NoSource
    BY DEF filler, own
  <2>3. filler(n)' = IF own' # {} THEN (CHOOSE c \in own' : TRUE).arg
                     ELSE IF present(n)' THEN n ELSE NoSource
    BY DEF filler, own
  <2> QED BY <2>1, <2>2, <2>3
<1> QED BY <1>1, <1>2 DEF Refusable, argumentVars

LEMMA ReasonsStep ==
  ASSUME CalledWhenPublished, ReasonsInv, [Next]_vars
  PROVE  ReasonsInv'
<1> USE DEF pastAuth, pastHeaders, pastMerge, pastBodyHook, pastURLHook, pastBody, pastQuery,
            pastURL, pastCheck
<1>1. CASE BuildRequest
  <2>0. /\ UNCHANGED <<argumentVars, upstream, args>> /\ Refusable' = Refusable
        /\ Unencodable' = Unencodable /\ accepted' = accepted /\ op' = op
        /\ \A n : filler(n)' = filler(n)
    BY <1>1, BuildKeeps, ReasonsFrame DEF argumentVars
  <2>1. CASE refuseUndeclared
    BY <2>0, <2>1 DEF refuseUndeclared, ReasonsInv, Refusable
  <2>2. CASE buildURL
    BY <2>0, <2>2 DEF buildURL, ReasonsInv, Refusable
  <2>3. CASE addQueryParams \/ (\E h \in HeaderName : setHeader(h)) \/ setTypeAndCookies
    BY <2>0, <2>3 DEF addQueryParams, setHeader, setTypeAndCookies, ReasonsInv
  <2>4. CASE createRequestBody
    <3>1. pc = "body" /\ pc' \in {"urlBuilder", "refused"}
          /\ (Unencodable <=> pc' = "refused")
      BY <2>4 DEF createRequestBody, Unencodable, NoMedia
    <3> QED BY <2>0, <3>1 DEF ReasonsInv, Refusable
  <2>5. CASE buildURLHook
    BY <2>0, <2>5 DEF buildURLHook, ReasonsInv, Refusable
  <2>6. CASE buildBodyHook
    BY <2>0, <2>6 DEF buildBodyHook, ReasonsInv, Refusable
  <2>7. CASE mergeHeaders
    BY <2>0, <2>7 DEF mergeHeaders, ReasonsInv, Refusable
  <2>8. CASE applyAuth
    BY <2>0, <2>8 DEF applyAuth, ReasonsInv, Refusable
  <2>9. CASE signRequest
    BY <2>0, <2>9 DEF signRequest, ReasonsInv, Refusable
  <2> QED
    BY <1>1, <2>1, <2>2, <2>3, <2>4, <2>5, <2>6, <2>7, <2>8, <2>9 DEF BuildRequest
<1>2. CASE ArgumentsStep /\ UNCHANGED callVars
  <2>1. pc = "call" /\ pc' = pc
    BY <1>2 DEF CalledWhenPublished, ArgumentsStep, AssignArgName, CreateRouteConfig,
       GenerateTool, callVars
  <2> QED BY <2>1 DEF ReasonsInv
<1>3. CASE Call
  BY <1>3 DEF Call, ReasonsInv
<1>4. CASE UNCHANGED vars
  <2>1. UNCHANGED <<argumentVars, upstream, args>> /\ pc' = pc
    BY <1>4 DEF vars, callVars
  <2> QED BY <2>1, ReasonsFrame DEF ReasonsInv, argumentVars
<1> QED BY <1>1, <1>2, <1>3, <1>4 DEF Next, Returned

LEMMA ReasonsHold == Spec => []ReasonsInv
<1>1. Init => ReasonsInv
  BY DEF Init, ReasonsInv, pastAuth, pastHeaders, pastMerge, pastBodyHook, pastURLHook,
     pastBody, pastQuery, pastURL, pastCheck
<1> QED BY <1>1, ReasonsStep, CalledPublished, PTL DEF Spec

(***************************************************************************)
(* A call is refused exactly for the reasons there are, whatever the order *)
(* the code looks at them in: an argument that is not declared, a          *)
(* placeholder that nothing fills, a body that its media type cannot hold, *)
(* a hook, a credential or a signer that fails, a URL that cannot be       *)
(* parsed.  No call with such a reason is sent, and none is refused        *)
(* without one.                                                            *)
(***************************************************************************)
THEOREM RefusalsAreForAReason ==
  Spec => []((pc = "refused" => Refusable) /\ (pc = "sent" => ~Refusable))
<1>1. ReasonsInv => (pc = "refused" => Refusable) /\ (pc = "sent" => ~Refusable)
  BY DEF ReasonsInv, Refusable, pastAuth, pastHeaders, pastMerge, pastBodyHook, pastURLHook,
     pastBody, pastQuery, pastURL, pastCheck
<1> QED BY <1>1, ReasonsHold, PTL
-----------------------------------------------------------------------------
\* The parts of a request.  The path: the caller's arguments, or the hook's.
urlHooked == upstream.urlBuilder # "none"

givenPath  == [n \in ParamName |-> IF n \in op.placeholders THEN filler(n) ELSE NoSource]
hookedPath == [n \in ParamName |-> IF n \in op.placeholders THEN Hook ELSE NoSource]

\* The arguments that have a form in this location, under their names there.
arguments(location) ==
  {[name |-> c.name, from |-> c.arg] : c \in {d \in declaredIn(location) : serialised(d.arg)}}

givenQuery == {q \in arguments("query") : args[q.from] # "empty"}
ownQuery   == IF urlHooked THEN {[name |-> Hook, from |-> Hook]} ELSE givenQuery
sentQuery  == IF upstream.place = "query"
                THEN {q \in ownQuery : q.name # upstream.name} \cup {credential} ELSE ownQuery

bodyGiven   == route.media # NoMedia /\ BodyArg \in DOMAIN args
bodyHooked  == upstream.bodyBuilder # "none"
bodyEncoded == encodeBody(args[BodyArg], route.media)

givenBody == IF bodyGiven THEN [from |-> BodyArg, bytes |-> bodyEncoded[1]] ELSE NoBody
sentBody  == IF bodyHooked THEN [from |-> Hook, bytes |-> Hook] ELSE givenBody
givenType == IF bodyGiven THEN bodyEncoded[2] ELSE NoMedia
sentType  == IF upstream.bodyBuilder = "retypes" THEN "xml" ELSE givenType

\* A header is the one that was written under this name, or one of those that
\* were where several were; then the body's type, the credential and the signer
\* have their say, in this order.
merged(k) == {mergedHeader(h) : h \in {g \in HeaderName : canonical[g] = k}} \ {NoSource}

oneOf(s, places) == IF places = {} THEN s = NoSource ELSE s \in places

withType(k, s) ==
  IF k = "Content-Type" /\ sentType # NoMedia THEN s = "type" ELSE oneOf(s, merged(k))

withCredential(k, s) ==
  IF upstream.place = "header" /\ k = canonical[upstream.name]
    THEN s = "credential" ELSE withType(k, s)

asSent(k, s) ==
  IF upstream.signer = "signs" /\ k = "Signature" THEN s = "signature" ELSE withCredential(k, s)

\* What a call is decided by decides every part.
LEMMA PartsFrame ==
  ASSUME UNCHANGED <<argumentVars, upstream, args>>
  PROVE  /\ givenPath' = givenPath /\ hookedPath' = hookedPath
         /\ \A in : arguments(in)' = arguments(in)
         /\ givenQuery' = givenQuery /\ ownQuery' = ownQuery /\ sentQuery' = sentQuery
         /\ givenBody' = givenBody /\ sentBody' = sentBody
         /\ givenType' = givenType /\ sentType' = sentType
         /\ \A h : mergedHeader(h)' = mergedHeader(h)
         /\ \A k : merged(k)' = merged(k)
<1>1. givenPath' = givenPath /\ hookedPath' = hookedPath
  BY ReasonsFrame DEF givenPath, hookedPath, argumentVars
<1>2. \A in : arguments(in)' = arguments(in)
  BY ArgumentsFrame DEF arguments
<1>3. givenQuery' = givenQuery
  BY <1>2 DEF givenQuery
<1>4. ownQuery' = ownQuery /\ sentQuery' = sentQuery
  BY <1>3 DEF ownQuery, sentQuery, urlHooked, credential
<1>5. givenBody' = givenBody /\ givenType' = givenType
  BY DEF givenBody, givenType, bodyGiven, bodyEncoded, argumentVars
<1>6. sentBody' = sentBody /\ sentType' = sentType
  BY <1>5 DEF sentBody, sentType, bodyHooked
<1>7. ASSUME NEW h PROVE mergedHeader(h)' = mergedHeader(h)
  <2> DEFINE own == {c \in declaredIn("header") : c.name = h /\ serialised(c.arg)}
  <2>1. own' = own /\ op' = op /\ upstream' = upstream
    BY ArgumentsFrame DEF argumentVars
  <2> HIDE DEF own
  <2>2. mergedHeader(h) = IF own # {} THEN (CHOOSE c \in own : TRUE).arg
                          ELSE IF h = "Accept" /\ op.accept THEN "route"
                          ELSE IF h \in upstream.headers THEN "service" ELSE NoSource
    BY DEF mergedHeader, own
  <2>3. mergedHeader(h)' = IF own' # {} THEN (CHOOSE c \in own' : TRUE).arg
                           ELSE IF h = "Accept" /\ op'.accept THEN "route"
                           ELSE IF h \in upstream'.headers THEN "service" ELSE NoSource
    BY DEF mergedHeader, own
  <2> QED BY <2>1, <2>2, <2>3
<1>8. \A k : merged(k)' = merged(k)
  BY <1>7 DEF merged
<1> QED BY <1>1, <1>2, <1>3, <1>4, <1>5, <1>6, <1>7, <1>8

(***************************************************************************)
(* The parts at every step: what is written is what its step was to write, *)
(* until a later step replaces it.                                         *)
(***************************************************************************)
PathMade ==
  pc \in pastURL =>
    pathOf = IF pc \in pastURLHook /\ urlHooked THEN hookedPath ELSE givenPath

QueryMade ==
  pc \in pastQuery =>
    query = IF pc \in pastAuth THEN sentQuery
            ELSE IF pc \in pastURLHook THEN ownQuery ELSE givenQuery

BodyMade ==
  /\ pc \in {"call", "check", "url", "query", "body"} => body = NoBody /\ contentType = NoMedia
  /\ pc \in pastBody =>
       /\ body = IF pc \in pastBodyHook THEN sentBody ELSE givenBody
       /\ contentType = IF pc \in pastBodyHook THEN sentType ELSE givenType

CookiesMade == pc \in pastHeaders => cookies = arguments("cookie")

\* While the merged map is copied, what has left it is in the request.
HeadersMade ==
  /\ pc \notin pastMerge \cup {"refused"} => \A h \in HeaderName : wire[h] = NoSource
  /\ pc = "headers" =>
       \A h \in HeaderName :
         \/ headers[h] = mergedHeader(h)
         \/ headers[h] = NoSource /\ wire[canonical[h]] # NoSource
  /\ pc = "headers" =>
       \A k \in HeaderName : wire[k] # NoSource => wire[k] \in merged(k)
  /\ pc = "auth" => \A k \in HeaderName : withType(k, wire[k])
  /\ pc = "sign" => \A k \in HeaderName : withCredential(k, wire[k])
  /\ pc = "sent" => \A k \in HeaderName : asSent(k, wire[k])

SignatureMade ==
  /\ pc \notin {"sent", "refused"} => covered = NoSource
  /\ pc = "sent" => covered = IF upstream.signer = "none" THEN NoSource ELSE signingRequest

\* Before the call and at its start none of the parts is made.
LEMMA PartsAtCall ==
  ASSUME CalledWhenPublished, (ArgumentsStep /\ UNCHANGED callVars) \/ Call
  PROVE  /\ pc = "call" /\ pc' \in {"call", "check"}
         /\ UNCHANGED <<body, contentType, wire, covered>>
BY DEF CalledWhenPublished, ArgumentsStep, AssignArgName, CreateRouteConfig, GenerateTool,
   callVars, Call

LEMMA PathStep == ASSUME PathMade, BuildRequest PROVE PathMade'
<1> USE DEF pastAuth, pastHeaders, pastMerge, pastBodyHook, pastURLHook, pastBody, pastQuery,
            pastURL
<1>0. /\ givenPath' = givenPath /\ hookedPath' = hookedPath /\ urlHooked' = urlHooked
  BY BuildKeeps, PartsFrame DEF urlHooked
<1>1. CASE buildURL
  BY <1>0, <1>1 DEF buildURL, PathMade, givenPath
<1>2. CASE buildURLHook
  <2>1. pc = "urlBuilder" /\ pathOf = givenPath
    BY <1>2 DEF buildURLHook, PathMade
  <2>2. pc' = "refused" \/ (pc' = "bodyBuilder" /\ upstream.urlBuilder # "fails")
    BY <1>2 DEF buildURLHook
  <2>3. CASE upstream.urlBuilder \in {"none", "fails"}
    <3>1. pathOf' = pathOf
      BY <1>2, <2>3 DEF buildURLHook
    <3> QED BY <1>0, <2>1, <2>2, <2>3, <3>1 DEF PathMade, urlHooked
  <2>4. CASE upstream.urlBuilder \notin {"none", "fails"}
    <3>1. pathOf' = hookedPath
      BY <1>2, <2>4 DEF buildURLHook, hookedPath
    <3> QED BY <1>0, <2>2, <2>4, <3>1 DEF PathMade, urlHooked
  <2> QED BY <2>3, <2>4
<1>3. CASE ~buildURL /\ ~buildURLHook
  <2>1. /\ pathOf' = pathOf
        /\ pc' \in pastURL => pc \in pastURL /\ (pc' \in pastURLHook <=> pc \in pastURLHook)
    BY <1>3 DEF BuildRequest, refuseUndeclared, addQueryParams, createRequestBody,
       buildBodyHook, mergeHeaders, setHeader, setTypeAndCookies, applyAuth, signRequest
  <2> QED BY <1>0, <2>1 DEF PathMade
<1> QED BY <1>1, <1>2, <1>3

LEMMA QueryStep == ASSUME QueryMade, BuildRequest PROVE QueryMade'
<1> USE DEF pastAuth, pastHeaders, pastMerge, pastBodyHook, pastURLHook, pastBody, pastQuery
<1>0. /\ givenQuery' = givenQuery /\ ownQuery' = ownQuery /\ sentQuery' = sentQuery
  BY BuildKeeps, PartsFrame
<1>1. CASE addQueryParams
  <2>1. query' = givenQuery
    BY <1>1 DEF addQueryParams, givenQuery, arguments
  <2> QED BY <1>0, <1>1, <2>1 DEF addQueryParams, QueryMade
<1>2. CASE buildURLHook
  <2>1. pc = "urlBuilder" /\ query = givenQuery
    BY <1>2 DEF buildURLHook, QueryMade
  <2>2. pc' = "refused" \/ (pc' = "bodyBuilder" /\ query' = ownQuery)
    BY <1>2, <2>1 DEF buildURLHook, ownQuery, urlHooked
  <2> QED BY <1>0, <2>2 DEF QueryMade
<1>3. CASE applyAuth
  <2>1. pc = "auth" /\ query = ownQuery
    BY <1>3 DEF applyAuth, QueryMade
  <2>2. pc' = "refused" \/ (pc' = "sign" /\ query' = sentQuery)
    BY <1>3, <2>1 DEF applyAuth, sentQuery
  <2> QED BY <1>0, <2>2 DEF QueryMade
<1>4. CASE ~addQueryParams /\ ~buildURLHook /\ ~applyAuth
  <2>1. /\ query' = query
        /\ pc' \in pastQuery => /\ pc \in pastQuery
                                /\ pc' \in pastURLHook <=> pc \in pastURLHook
                                /\ pc' \in pastAuth <=> pc \in pastAuth
    BY <1>4 DEF BuildRequest, refuseUndeclared, buildURL, createRequestBody, buildBodyHook,
       mergeHeaders, setHeader, setTypeAndCookies, signRequest
  <2> QED BY <1>0, <2>1 DEF QueryMade
<1> QED BY <1>1, <1>2, <1>3, <1>4

LEMMA BodyStep == ASSUME upstream \in Upstream, BodyMade, BuildRequest PROVE BodyMade'
<1> USE DEF pastAuth, pastHeaders, pastMerge, pastBodyHook, pastURLHook, pastBody
<1>0. /\ givenBody' = givenBody /\ sentBody' = sentBody
      /\ givenType' = givenType /\ sentType' = sentType
  BY BuildKeeps, PartsFrame
<1>1. CASE createRequestBody
  <2>1. pc = "body" /\ body = NoBody /\ contentType = NoMedia
    BY <1>1 DEF createRequestBody, BodyMade
  <2>2. pc' = "refused" \/ (pc' = "urlBuilder" /\ body' = givenBody /\ contentType' = givenType)
    BY <1>1, <2>1 DEF createRequestBody, givenBody, givenType, bodyGiven, bodyEncoded
  <2> QED BY <1>0, <2>2 DEF BodyMade
<1>2. CASE buildBodyHook
  <2>1. pc = "bodyBuilder" /\ body = givenBody /\ contentType = givenType
    BY <1>2 DEF buildBodyHook, BodyMade
  <2>2. upstream.bodyBuilder \in {"none", "fails", "rewrites", "retypes"}
    BY BuilderAssumption
  <2>3. pc' = "refused" \/ (pc' = "merge" /\ body' = sentBody /\ contentType' = sentType)
    BY <1>2, <2>1, <2>2 DEF buildBodyHook, sentBody, sentType, bodyHooked
  <2> QED BY <1>0, <2>3 DEF BodyMade
<1>3. CASE ~createRequestBody /\ ~buildBodyHook
  <2>1. /\ UNCHANGED <<body, contentType>>
        /\ pc' \in pastBody => pc \in pastBody /\ (pc' \in pastBodyHook <=> pc \in pastBodyHook)
        /\ pc' \in {"call", "check", "url", "query", "body"} =>
             pc \in {"call", "check", "url", "query", "body"}
    BY <1>3 DEF BuildRequest, refuseUndeclared, buildURL, addQueryParams, buildURLHook,
       mergeHeaders, setHeader, setTypeAndCookies, applyAuth, signRequest
  <2> QED BY <1>0, <2>1 DEF BodyMade
<1> QED BY <1>1, <1>2, <1>3

LEMMA CookiesStep == ASSUME CookiesMade, BuildRequest PROVE CookiesMade'
<1> USE DEF pastAuth, pastHeaders
<1>0. arguments("cookie")' = arguments("cookie")
  BY BuildKeeps, PartsFrame
<1>1. CASE setTypeAndCookies
  <2>1. cookies' = arguments("cookie")
    BY <1>1 DEF setTypeAndCookies, arguments
  <2> QED BY <1>0, <2>1 DEF CookiesMade
<1>2. CASE ~setTypeAndCookies
  <2>1. cookies' = cookies /\ (pc' \in pastHeaders => pc \in pastHeaders)
    BY <1>2 DEF BuildRequest, refuseUndeclared, buildURL, addQueryParams, createRequestBody,
       buildURLHook, buildBodyHook, mergeHeaders, setHeader, applyAuth, signRequest
  <2> QED BY <1>0, <2>1 DEF CookiesMade
<1> QED BY <1>1, <1>2

LEMMA SignatureStep == ASSUME SignatureMade, BuildRequest PROVE SignatureMade'
<1>1. CASE signRequest
  BY <1>1 DEF signRequest, signingRequest, SignatureMade
<1>2. CASE ~signRequest
  <2>1. covered' = covered /\ pc' # "sent" /\ pc \notin {"sent", "refused"}
    BY <1>2 DEF BuildRequest, refuseUndeclared, buildURL, addQueryParams, createRequestBody,
       buildURLHook, buildBodyHook, mergeHeaders, setHeader, setTypeAndCookies, applyAuth
  <2> QED BY <2>1 DEF SignatureMade
<1> QED BY <1>1, <1>2

\* One header leaves the merged map for the request.
LEMMA HeadersCopied ==
  ASSUME SendingInv, HeadersMade, NEW h \in HeaderName, setHeader(h)
  PROVE  HeadersMade'
<1> USE DEF pastAuth, pastHeaders, pastMerge
<1>1. /\ pc = "headers" /\ pc' = "headers" /\ headers[h] # NoSource
      /\ wire' = [wire EXCEPT ![canonical[h]] = headers[h]]
      /\ headers' = [headers EXCEPT ![h] = NoSource]
      /\ \A k : merged(k)' = merged(k)
      /\ \A g : mergedHeader(g)' = mergedHeader(g)
  BY PartsFrame DEF setHeader
<1>2. /\ headers \in [HeaderName -> Source \cup {NoSource}]
      /\ wire \in [HeaderName -> Source \cup {NoSource}]
      /\ canonical \in [HeaderName -> HeaderName]
  BY BuilderAssumption DEF SendingInv
<1>3. headers[h] = mergedHeader(h) /\ headers[h] \in merged(canonical[h])
  BY <1>1 DEF HeadersMade, merged
<1>4. \A k \in HeaderName : wire'[k] = IF k = canonical[h] THEN headers[h] ELSE wire[k]
  BY <1>1, <1>2
<1>5. \A g \in HeaderName : headers'[g] = IF g = h THEN NoSource ELSE headers[g]
  BY <1>1, <1>2
<1>6. ASSUME NEW g \in HeaderName
      PROVE  \/ headers'[g] = mergedHeader(g)
             \/ headers'[g] = NoSource /\ wire'[canonical[g]] # NoSource
  <2>1. CASE g = h
    BY <1>1, <1>2, <1>4, <1>5, <2>1
  <2>2. CASE g # h
    BY <1>1, <1>2, <1>4, <1>5, <2>2 DEF HeadersMade
  <2> QED BY <2>1, <2>2
<1>7. ASSUME NEW k \in HeaderName, wire'[k] # NoSource PROVE wire'[k] \in merged(k)
  BY <1>1, <1>3, <1>4, <1>7 DEF HeadersMade
<1> QED BY <1>1, <1>6, <1>7 DEF HeadersMade

\* The merged map is empty: every header that was in it has been written.
LEMMA HeadersComplete ==
  ASSUME SendingInv, HeadersMade, BodyMade, setTypeAndCookies
  PROVE  HeadersMade'
<1> USE DEF pastAuth, pastHeaders, pastMerge, pastBodyHook, pastURLHook, pastBody
<1>1. /\ pc = "headers" /\ pc' = "auth"
      /\ \A h \in HeaderName : headers[h] = NoSource
      /\ \A k : merged(k)' = merged(k)
      /\ sentType' = sentType
  BY PartsFrame DEF setTypeAndCookies
<1>2. ASSUME NEW k \in HeaderName PROVE oneOf(wire[k], merged(k))
  <2>1. CASE merged(k) = {}
    BY <1>1, <2>1 DEF HeadersMade, oneOf
  <2>2. CASE merged(k) # {}
    <3>1. PICK h \in HeaderName : canonical[h] = k /\ mergedHeader(h) # NoSource
      BY <2>2 DEF merged
    <3>2. wire[k] # NoSource
      BY <1>1, <3>1 DEF HeadersMade
    <3> QED BY <1>1, <2>2, <3>2 DEF HeadersMade, oneOf
  <2> QED BY <2>1, <2>2
<1>3. contentType = sentType
  BY <1>1 DEF BodyMade
<1>4. \A k \in HeaderName :
        wire'[k] = IF k = "Content-Type" /\ sentType # NoMedia THEN "type" ELSE wire[k]
  BY <1>3 DEF setTypeAndCookies, SendingInv
<1>5. \A k \in HeaderName : withType(k, wire[k])'
  BY <1>1, <1>2, <1>4 DEF withType, oneOf
<1> QED BY <1>1, <1>5 DEF HeadersMade

LEMMA HeadersStep ==
  ASSUME SendingInv, HeadersMade, BodyMade, BuildRequest
  PROVE  HeadersMade'
<1> USE DEF pastAuth, pastHeaders, pastMerge
<1>0. /\ UNCHANGED upstream /\ sentType' = sentType /\ \A k : merged(k)' = merged(k)
      /\ \A g : mergedHeader(g)' = mergedHeader(g)
  BY BuildKeeps, PartsFrame
<1>1. CASE mergeHeaders
  <2>1. /\ pc = "merge" /\ pc' \in {"refused", "headers"} /\ wire' = wire
        /\ \A h \in HeaderName : headers'[h] = mergedHeader(h)
    BY <1>1 DEF mergeHeaders
  <2>2. \A k \in HeaderName : wire[k] = NoSource
    BY <2>1 DEF HeadersMade
  <2> QED BY <1>0, <2>1, <2>2 DEF HeadersMade
<1>2. CASE (\E h \in HeaderName : setHeader(h)) \/ setTypeAndCookies
  BY <1>2, HeadersCopied, HeadersComplete
<1>3. CASE applyAuth
  <2>1. pc = "auth" /\ pc' \in {"sign", "refused"}
    BY <1>3 DEF applyAuth
  <2>2. ASSUME NEW k \in HeaderName PROVE withCredential(k, wire[k])'
    <3>1. withType(k, wire[k])
      BY <2>1 DEF HeadersMade
    <3>2. wire'[k] = IF upstream.place = "header" /\ k = canonical[upstream.name]
                       THEN "credential" ELSE wire[k]
      BY <1>3, CredentialHeader DEF applyAuth, SendingInv
    <3> QED BY <1>0, <3>1, <3>2 DEF withCredential, withType, oneOf
  <2> QED BY <2>1, <2>2 DEF HeadersMade
<1>4. CASE signRequest
  <2>1. pc = "sign" /\ pc' \in {"sent", "refused"}
    BY <1>4 DEF signRequest
  <2>2. ASSUME NEW k \in HeaderName PROVE asSent(k, wire[k])'
    <3>1. withCredential(k, wire[k])
      BY <2>1 DEF HeadersMade
    <3>2. wire'[k] = IF upstream.signer = "signs" /\ k = "Signature"
                       THEN "signature" ELSE wire[k]
      BY <1>4 DEF signRequest, SendingInv
    <3> QED BY <1>0, <3>1, <3>2 DEF asSent, withCredential, withType, oneOf
  <2> QED BY <2>1, <2>2 DEF HeadersMade
<1>5. CASE refuseUndeclared \/ buildURL \/ addQueryParams \/ createRequestBody
             \/ buildURLHook \/ buildBodyHook
  <2>1. pc \notin pastMerge \cup {"refused"} /\ pc' \notin pastMerge /\ wire' = wire
    BY <1>5 DEF refuseUndeclared, buildURL, addQueryParams, createRequestBody, buildURLHook,
       buildBodyHook
  <2> QED BY <2>1 DEF HeadersMade
<1> QED BY <1>1, <1>2, <1>3, <1>4, <1>5 DEF BuildRequest

PartsInv ==
  PathMade /\ QueryMade /\ BodyMade /\ CookiesMade /\ HeadersMade /\ SignatureMade

LEMMA PartsHold == Spec => []PartsInv
<1> USE DEF pastAuth, pastHeaders, pastMerge, pastBodyHook, pastURLHook, pastBody, pastQuery,
            pastURL
<1>1. Init => PartsInv
  BY DEF Init, PartsInv, PathMade, QueryMade, BodyMade, CookiesMade, HeadersMade, SignatureMade
<1>2. CalledWhenPublished /\ SendingInv /\ PartsInv /\ [Next]_vars => PartsInv'
  <2> SUFFICES ASSUME CalledWhenPublished, SendingInv, PartsInv, [Next]_vars PROVE PartsInv'
    OBVIOUS
  <2>1. CASE BuildRequest
    BY <2>1, PathStep, QueryStep, BodyStep, CookiesStep, HeadersStep, SignatureStep
    DEF PartsInv, SendingInv
  <2>2. CASE (ArgumentsStep /\ UNCHANGED callVars) \/ Call
    BY <2>2, PartsAtCall
    DEF PartsInv, PathMade, QueryMade, BodyMade, CookiesMade, HeadersMade, SignatureMade
  <2>3. CASE UNCHANGED vars
    <3>1. /\ UNCHANGED <<argumentVars, upstream, args>>
          /\ UNCHANGED <<pc, pathOf, query, body, contentType, cookies, headers, wire, covered>>
      BY <2>3 DEF vars, callVars
    <3>2. UNCHANGED <<urlHooked, givenPath, hookedPath, givenQuery, ownQuery, sentQuery,
                      givenBody, sentBody, givenType, sentType, arguments("cookie")>>
      BY <3>1, PartsFrame DEF urlHooked
    <3>3. /\ \A k : merged(k)' = merged(k)
          /\ \A g : mergedHeader(g)' = mergedHeader(g)
      BY <3>1, PartsFrame
    <3>4. PathMade' /\ QueryMade' /\ BodyMade' /\ CookiesMade' /\ SignatureMade'
      BY <3>1, <3>2
      DEF PartsInv, PathMade, QueryMade, BodyMade, CookiesMade, SignatureMade, signingRequest
    <3>5. HeadersMade'
      BY <3>1, <3>2, <3>3 DEF PartsInv, HeadersMade, oneOf, withType, withCredential, asSent
    <3> QED BY <3>4, <3>5 DEF PartsInv
  <2> QED BY <2>1, <2>2, <2>3 DEF Next, Returned
<1> QED BY <1>1, <1>2, CalledPublished, SendingCorrect, PTL DEF Spec
-----------------------------------------------------------------------------
\* What may stand for a placeholder: the argument of its path parameter; where
\* none is given, the argument of its own name.
filledBy(n, s) ==
  \/ \E c \in declaredIn("path") : c.name = n /\ present(c.arg) /\ s = c.arg
  \/ /\ \A c \in declaredIn("path") : c.name = n => ~present(c.arg)
     /\ present(n) /\ s = n

RequestIsAsAsked ==
  /\ \A n \in ParamName :
       IF n \notin op.placeholders THEN pathOf[n] = NoSource
       ELSE IF urlHooked THEN pathOf[n] = Hook ELSE filledBy(n, pathOf[n])
  /\ query = sentQuery /\ cookies = arguments("cookie")
  /\ body = sentBody /\ contentType = sentType
  /\ \A k \in HeaderName : asSent(k, wire[k])
  /\ covered = IF upstream.signer = "none" THEN NoSource
               ELSE [path |-> pathOf, query |-> query, body |-> body, type |-> sentType]

LEMMA FillerFills ==
  ASSUME NEW n, filler(n) # NoSource
  PROVE  filledBy(n, filler(n))
<1> DEFINE own == {c \in declaredIn("path") : c.name = n /\ present(c.arg)}
<1>1. CASE own # {}
  <2>1. PICK c \in own : filler(n) = c.arg
    BY <1>1 DEF filler
  <2> QED BY <2>1 DEF filledBy
<1>2. CASE own = {}
  <2>1. present(n) /\ filler(n) = n
    BY <1>2 DEF filler
  <2> QED BY <1>2, <2>1 DEF filledBy
<1> QED BY <1>1, <1>2

\* The parts together.
LEMMA AsAsked ==
  ASSUME PartsInv, SendingInv, ReasonsInv, pc = "sent"
  PROVE  RequestIsAsAsked
<1> USE DEF pastAuth, pastHeaders, pastMerge, pastBodyHook, pastURLHook, pastBody, pastQuery,
            pastURL
<1>1. /\ query = sentQuery /\ cookies = arguments("cookie")
      /\ body = sentBody /\ contentType = sentType
      /\ \A k \in HeaderName : asSent(k, wire[k])
  BY DEF PartsInv, QueryMade, BodyMade, CookiesMade, HeadersMade
<1>2. pathOf = IF urlHooked THEN hookedPath ELSE givenPath
  BY DEF PartsInv, PathMade
<1>3. \A n \in op.placeholders : filledBy(n, filler(n))
  BY FillerFills DEF ReasonsInv
<1>4. \A n \in ParamName :
        IF n \notin op.placeholders THEN pathOf[n] = NoSource
        ELSE IF urlHooked THEN pathOf[n] = Hook ELSE filledBy(n, pathOf[n])
  BY <1>2, <1>3 DEF hookedPath, givenPath
<1>5. covered = IF upstream.signer = "none" THEN NoSource
                ELSE [path |-> pathOf, query |-> query, body |-> body, type |-> sentType]
  BY <1>1 DEF PartsInv, SignatureMade, signingRequest
<1> QED BY <1>1, <1>4, <1>5 DEF RequestIsAsAsked

(***************************************************************************)
(* A request that is sent is determined in every part by the tool, the     *)
(* upstream and the call: nothing is missing from it, and nothing else is  *)
(* in it.  The query has exactly the query arguments that have a form, or  *)
(* the hook's, with the credential in place of what had its name; the      *)
(* cookies exactly the cookie arguments; the body is the encoded           *)
(* argument's or the hook's.  A header is exactly one of those merged      *)
(* under its name - which one, where they differ in spelling, is the       *)
(* order of a map - unless the credential or the signature took it, and    *)
(* Content-Type is the body's type where the body has one and is otherwise *)
(* a header like the others.  The signer was shown the path, the query,    *)
(* the body and the body's type, and so no Content-Type where the body has *)
(* no type, even if one was merged and is sent.                            *)
(***************************************************************************)
THEOREM RequestsAreAsAsked == Spec => [](pc = "sent" => RequestIsAsAsked)
<1>1. PartsInv /\ SendingInv /\ ReasonsInv => (pc = "sent" => RequestIsAsAsked)
  BY AsAsked
<1> QED BY <1>1, PartsHold, SendingCorrect, ReasonsHold, PTL
-----------------------------------------------------------------------------
\* Who writes a header: never the body's type among the merged ones.
LEMMA MergedBy ==
  ASSUME NamesInv, NEW k, NEW s \in merged(k)
  PROVE  \E h \in HeaderName :
           /\ canonical[h] = k /\ s = mergedHeader(h)
           /\ \/ \E c \in declaredIn("header") : c.name = h /\ serialised(c.arg) /\ s = c.arg
              \/ h = "Accept" /\ op.accept /\ s = "route"
              \/ h \in upstream.headers /\ s = "service"
<1>1. PICK h \in HeaderName : canonical[h] = k /\ s = mergedHeader(h) /\ s # NoSource
  BY DEF merged
<1> DEFINE own == {c \in declaredIn("header") : c.name = h /\ serialised(c.arg)}
<1>2. CASE own # {}
  <2>1. PICK c \in own : s = c.arg
    BY <1>1, <1>2 DEF mergedHeader
  <2> QED BY <1>1, <2>1
<1>3. CASE own = {}
  BY <1>1, <1>3 DEF mergedHeader
<1> QED BY <1>2, <1>3

\* The Content-Type of a request that is sent.
LEMMA TypeIsSent ==
  ASSUME NamesInv, RequestIsAsAsked
  PROVE  \/ wire["Content-Type"] = "type" /\ sentType # NoMedia
         \/ wire["Content-Type"] \in ArgName \cup {"service", NoSource} /\ sentType = NoMedia
         \/ wire["Content-Type"] = "credential"
<1> DEFINE sent == wire["Content-Type"]
<1>1. withCredential("Content-Type", sent)
  BY BuilderAssumption DEF RequestIsAsAsked, asSent
<1>2. CASE sent \in merged("Content-Type")
  <2>1. sent # "route"
    <3>1. canonical["Accept"] # "Content-Type"
      BY BuilderAssumption
    <3>2. \A c \in declaredIn("header") : c.arg # "route"
      BY RouteIsTyped, BuilderAssumption DEF NamesInv, Provider
    <3> QED BY <1>2, <3>1, <3>2, MergedBy
  <2>2. sent \in ArgName \cup {"service"}
    BY <1>2, <2>1, MergedBy, RouteIsTyped DEF NamesInv
  <2> QED BY <1>1, <2>2, BuilderAssumption DEF withCredential, withType, Provider
<1>3. CASE sent \notin merged("Content-Type")
  BY <1>1, <1>3 DEF withCredential, withType, oneOf
<1> QED BY <1>2, <1>3

(***************************************************************************)
(* A signature is over the path, the query, the body and the body's type   *)
(* that are sent, whatever hooks, credentials and header parameters there  *)
(* are; and a Content-Type that somebody else gave is sent, unsigned, only *)
(* where the body has no type to be signed: SignatureCovers.               *)
(***************************************************************************)
THEOREM SignaturesCover == Spec => []SignatureCovers
<1>1. NamesInv /\ PartsInv /\ SendingInv /\ ReasonsInv => SignatureCovers
  <2> SUFFICES ASSUME NamesInv, PartsInv, SendingInv, ReasonsInv, pc = "sent",
                      upstream.signer = "signs"
               PROVE  SignatureCovers
    BY DEF SignatureCovers
  <2>1. RequestIsAsAsked
    BY AsAsked
  <2>2. covered = [path |-> pathOf, query |-> query, body |-> body, type |-> sentType]
        /\ contentType = sentType
    BY <2>1 DEF RequestIsAsAsked
  <2> QED BY <2>1, <2>2, TypeIsSent DEF SignatureCovers
<1> QED BY <1>1, ParserCorrect, PartsHold, SendingCorrect, ReasonsHold, PTL

(***************************************************************************)
(* In every request that is sent with a caller's body the Content-Type     *)
(* header names the encoding of the bytes, whatever an argument or the     *)
(* configuration says in a header of that name: BodyIsDescribed.           *)
(***************************************************************************)
THEOREM BodiesAreDescribed == Spec => []BodyIsDescribed
<1>1. NamesInv /\ PartsInv /\ SendingInv /\ ReasonsInv /\ DescribedInv => BodyIsDescribed
  <2> SUFFICES ASSUME NamesInv, PartsInv, SendingInv, ReasonsInv, DescribedInv, pc = "sent",
                      body.from = BodyArg
               PROVE  BodyIsDescribed
    BY DEF BodyIsDescribed
  <2>1. RequestIsAsAsked
    BY AsAsked
  <2>2. contentType = sentType /\ sentType # NoMedia
    BY <2>1 DEF RequestIsAsAsked, DescribedInv
  <2>3. wire["Content-Type"] \in {"type", "credential"}
    BY <2>1, <2>2, TypeIsSent
  <2> QED BY <2>3 DEF BodyIsDescribed, DescribedInv
<1> QED
  BY <1>1, ParserCorrect, PartsHold, SendingCorrect, ReasonsHold, DescribedHolds, PTL
-----------------------------------------------------------------------------
\* A header parameter's argument is sent, or what overwrote it is known.
LEMMA HeaderArrives ==
  ASSUME NamesInv, ToolInv, stage = "published", RequestIsAsAsked,
         NEW c \in declaredIn("header"), serialised(c.arg)
  PROVE  \/ wire[canonical[c.name]] \in {c.arg, "credential", "signature"} \cup Rivals(c)
         \/ canonical[c.name] = "Content-Type" /\ wire["Content-Type"] = "type"
<1> DEFINE k == canonical[c.name]
           own == {d \in declaredIn("header") : d.name = c.name /\ serialised(d.arg)}
<1>1. c.name \in HeaderName /\ k \in HeaderName /\ c.arg \in ArgName
  BY ConfigsAreApart, BuilderAssumption, RouteIsTyped DEF NamesInv
<1>2. mergedHeader(c.name) = c.arg
  <2>1. own = {c}
    BY ConfigsAreApart
  <2> QED BY <2>1 DEF mergedHeader
<1>3. c.arg \in merged(k)
  BY <1>1, <1>2, BuilderAssumption DEF merged, Source
<1>4. asSent(k, wire[k])
  BY <1>1 DEF RequestIsAsAsked
<1>5. \/ wire[k] \in {"credential", "signature"}
      \/ k = "Content-Type" /\ wire[k] = "type"
      \/ wire[k] \in merged(k)
  BY <1>3, <1>4 DEF asSent, withCredential, withType, oneOf
<1>6. ASSUME wire[k] \in merged(k) PROVE wire[k] \in {c.arg} \cup Rivals(c)
  <2>1. PICK h \in HeaderName :
          /\ canonical[h] = k /\ wire[k] = mergedHeader(h)
          /\ \/ \E d \in declaredIn("header") :
                   d.name = h /\ serialised(d.arg) /\ wire[k] = d.arg
             \/ h = "Accept" /\ op.accept /\ wire[k] = "route"
             \/ h \in upstream.headers /\ wire[k] = "service"
    BY <1>6, MergedBy
  <2>2. CASE h = c.name
    BY <1>2, <2>1, <2>2
  <2>3. CASE h # c.name
    <3> DEFINE others == {g \in HeaderName \ {c.name} : canonical[g] = canonical[c.name]}
    <3>1. h \in others
      BY <2>1, <2>3
    <3>2. wire[k] \in Rivals(c)
      BY <2>1, <3>1 DEF Rivals
    <3> QED BY <3>2
  <2> QED BY <2>2, <2>3
<1> QED BY <1>5, <1>6

\* What a path, query or cookie parameter was given is in its place.
LEMMA PlaceArrives ==
  ASSUME NamesInv, ToolInv, SendingInv, ReasonsInv, stage = "published", pc = "sent",
         RequestIsAsAsked, NEW c \in route.params, present(c.arg), c.in # "header"
  PROVE  Arrived(c)
<1>1. c \in declaredIn(c.in) /\ c.name \in ParamName /\ c.in \in Location
  BY DEF declaredIn, NamesInv, ArgumentsTypeOK, Config
<1>2. CASE c.in = "path"
  <2>1. ASSUME c.name \in op.placeholders PROVE pathOf[c.name] \in {c.arg, Hook}
    <3>1. urlHooked \/ filledBy(c.name, pathOf[c.name])
      BY <1>1, <2>1 DEF RequestIsAsAsked
    <3>2. CASE urlHooked
      BY <1>1, <2>1, <3>2 DEF RequestIsAsAsked
    <3>3. CASE filledBy(c.name, pathOf[c.name])
      <4>1. PICK d \in declaredIn("path") : d.name = c.name /\ pathOf[c.name] = d.arg
        BY <1>1, <1>2, <3>3 DEF filledBy
      <4>2. d = c
        BY <1>1, <1>2, <4>1, ConfigsAreApart
      <4> QED BY <4>1, <4>2
    <3> QED BY <3>1, <3>2, <3>3
  <2> QED BY <1>2, <2>1 DEF Arrived
<1>3. CASE c.in = "query"
  <2>1. upstream.urlBuilder \in {"none", "rewrites"}
    BY BuilderAssumption
    DEF SendingInv, ReasonsInv, pastAuth, pastHeaders, pastMerge, pastBodyHook, pastURLHook
  <2>2. ASSUME args[c.arg] \notin {"object", "empty"}, upstream.urlBuilder = "none",
               ~(upstream.place = "query" /\ upstream.name = c.name)
        PROVE  [name |-> c.name, from |-> c.arg] \in query
    <3> DEFINE q == [name |-> c.name, from |-> c.arg]
    <3>1. q \in arguments("query")
      BY <1>1, <1>3, <2>2 DEF arguments, serialised
    <3>2. q \in ownQuery
      BY <2>2, <3>1 DEF ownQuery, givenQuery, urlHooked
    <3> QED BY <2>2, <3>2 DEF RequestIsAsAsked, sentQuery
  <2> QED BY <1>3, <2>1, <2>2 DEF Arrived
<1>4. CASE c.in = "cookie"
  BY <1>1, <1>4 DEF RequestIsAsAsked, arguments, serialised, Arrived
<1> QED BY <1>1, <1>2, <1>3, <1>4 DEF Location

(***************************************************************************)
(* Every argument of a request that is sent is where its parameter         *)
(* belongs, for all documents, hooks, credentials, signers and headers:    *)
(* ArgumentsArrive.  An argument in a header gives way to the credential,  *)
(* the signature, as Content-Type to the body's type, and to another       *)
(* spelling of its name, and to nothing else: what is configured under the *)
(* very same name is replaced by it.                                       *)
(***************************************************************************)
THEOREM EveryArgumentArrives == Spec => []ArgumentsArrive
<1>1. NamesInv /\ ToolInv /\ CalledWhenPublished /\ PartsInv /\ SendingInv /\ ReasonsInv
        => ArgumentsArrive
  <2> SUFFICES ASSUME NamesInv, ToolInv, CalledWhenPublished, PartsInv, SendingInv, ReasonsInv,
                      pc = "sent"
               PROVE  ArgumentsArrive
    BY DEF ArgumentsArrive
  <2>1. RequestIsAsAsked /\ stage = "published"
    BY AsAsked DEF CalledWhenPublished
  <2>2. ASSUME NEW c \in route.params, present(c.arg) PROVE Arrived(c)
    <3>1. CASE c.in = "header"
      <4>1. c \in declaredIn("header")
        BY <3>1 DEF declaredIn
      <4>2. args[c.arg] = "object" \/ serialised(c.arg)
        BY <2>2 DEF serialised
      <4> QED BY <2>1, <3>1, <4>1, <4>2, HeaderArrives DEF Arrived
    <3>2. CASE c.in # "header"
      BY <2>1, <2>2, <3>2, PlaceArrives
    <3> QED BY <3>1, <3>2
  <2>3. BodyArg \in DOMAIN args /\ route.media # NoMedia => body.from \in {BodyArg, Hook}
    BY <2>1 DEF RequestIsAsAsked, sentBody, givenBody, bodyGiven
  <2> QED BY <2>2, <2>3 DEF ArgumentsArrive
<1> QED
  BY <1>1, ParserCorrect, ToolHolds, CalledPublished, PartsHold, SendingCorrect, ReasonsHold, PTL
=============================================================================
