---------------------------- MODULE RequestBuilder ----------------------------
(***************************************************************************)
(* One tool call becomes one upstream request: BuildRequest of             *)
(* internal/requester/http_builder.go, step by step, for an operation that *)
(* ToolArguments published.                                                *)
(*                                                                         *)
(* What is sent is described by where it comes from: every place of the    *)
(* request (a placeholder, a query parameter, a header, a cookie, the      *)
(* body) holds the caller's argument, or what the configuration, a hook,   *)
(* the credential or the signer put there.  Of a value only the kind is    *)
(* kept.  File uploads are left out: no RouteConfig has one.               *)
(***************************************************************************)
EXTENDS ToolArguments, FiniteSets

CONSTANTS
  HeaderName,      \* header names as written
  canonical,       \* [HeaderName -> HeaderName]: as net/http writes them
  Upstream,        \* the upstream configurations
  Calls,           \* [Operation \X Upstream -> the sets of arguments that callers
                   \* may give, none where the upstream has no such operation]
  NoSource, Hook   \* nothing there; put there by a host hook

\* A value by the way it is rendered: null; text that a URL takes as it is or
\* has to escape; a list, empty or not; an object.
Kind == {"null", "text", "special", "list", "empty", "object"}

\* "type" is the Content-Type of the body, written as a header.
Provider == {"service", "route", "type", "credential", "signature", Hook}
Source   == ArgName \cup Provider

\* Left out: headers that net/http writes from other fields of the request, and
\* the one that AddCookie adds to.
heldBack == {"Host", "Content-Length", "Transfer-Encoding", "Trailer", "Cookie"}

ASSUME BuilderAssumption ==
  /\ canonical \in [HeaderName -> HeaderName]
  /\ \A k \in {"Accept", "Content-Type", "Signature"} : k \in HeaderName /\ canonical[k] = k
  /\ heldBack \cap {canonical[h] : h \in HeaderName} = {}
  /\ \A o \in Operation : \A p \in declared(o) : p.in = "header" => p.name \in HeaderName
  /\ Calls \in [Operation \X Upstream -> SUBSET SUBSET ArgName]
  /\ NoSource \notin Source /\ Provider \cap ArgName = {}
  /\ Upstream \subseteq
       [headers : SUBSET HeaderName,               \* configured for the service
        place : {"none", "header", "query", "fails"}, \* of the credential
        name : HeaderName \cup ParamName,          \* and its name there
        urlBuilder : {"none", "fails", "rewrites", "unusable"},
        bodyBuilder : {"none", "fails", "rewrites", "retypes"},
        signer : {"none", "fails", "signs"}]
  /\ \A u \in Upstream : u.place = "header" => u.name \in HeaderName

VARIABLES
  pc,          \* the next step of BuildRequest
  upstream,    \* the upstream the service is configured for
  args,        \* [subset of ArgName -> Kind]: the caller's arguments
  pathOf,      \* [placeholder -> Source, or NoSource]
  query,       \* set of [name, from]
  body,        \* [from : Source, bytes], from = NoSource: no body
  contentType, \* of the body, or NoMedia
  headers,     \* [HeaderName -> Source]: the merged map, keyed as written
  wire,        \* [HeaderName -> Source]: the request's headers, canonical
  cookies,     \* set of [name, from]
  covered      \* what the signer was shown, or NoSource

callVars == <<pc, upstream, args, pathOf, query, body, contentType, headers, wire,
              cookies, covered>>
vars == <<argumentVars, callVars>>

NoBody == [from |-> NoSource, bytes |-> "none"]

TypeOK ==
  /\ ArgumentsTypeOK
  /\ upstream \in Upstream
  /\ DOMAIN args \subseteq ArgName /\ \A a \in DOMAIN args : args[a] \in Kind
  /\ pathOf \in [ParamName -> Source \cup {NoSource}]
  /\ query \subseteq [name : HeaderName \cup ParamName \cup {Hook}, from : Source]
  /\ cookies \subseteq [name : ParamName, from : ArgName]
  /\ body \in [from : Source \cup {NoSource}, bytes : {"none", "form", "text", "json", Hook}]
  /\ contentType \in Media \cup {NoMedia}
  /\ headers \in [HeaderName -> Source \cup {NoSource}]
  /\ wire \in [HeaderName -> Source \cup {NoSource}]

Init ==
  /\ ArgumentsInit
  /\ pc = "call"
  /\ upstream \in Upstream /\ Calls[<<op, upstream>>] # {}
  /\ args = <<>>
  /\ pathOf = [n \in ParamName |-> NoSource]
  /\ query = {} /\ cookies = {}
  /\ body = NoBody /\ contentType = NoMedia
  /\ headers = [h \in HeaderName |-> NoSource]
  /\ wire = headers
  /\ covered = NoSource
-----------------------------------------------------------------------------
\* The caller passes any arguments: nobody has checked them against the schema.
Call ==
  /\ pc = "call" /\ stage = "published"
  /\ \E given \in Calls[<<op, upstream>>] : args' \in [given -> Kind]
  /\ pc' = "check"
  /\ UNCHANGED <<argumentVars, upstream, pathOf, query, body, contentType, headers,
                 wire, cookies, covered>>

refuseUndeclared ==
  /\ pc = "check"
  /\ pc' = IF DOMAIN args \subseteq accepted THEN "url" ELSE "refused"
  /\ UNCHANGED <<argumentVars, upstream, args, pathOf, query, body, contentType, headers,
                 wire, cookies, covered>>

declaredIn(location) == {c \in route.params : c.in = location}

present(a) == a \in DOMAIN args /\ args[a] # "null"

\* serializeParam: nothing is made of an object.
serialised(a) == present(a) /\ args[a] # "object"

(***************************************************************************)
(* buildURL: the declared path parameters first; then every argument goes  *)
(* into the placeholder of its own name, if that is still there.           *)
(***************************************************************************)
filler(n) ==
  LET own == {c \in declaredIn("path") : c.name = n /\ present(c.arg)}
  IN  IF own # {} THEN (CHOOSE c \in own : TRUE).arg
      ELSE IF present(n) THEN n ELSE NoSource

buildURL ==
  /\ pc = "url"
  /\ pathOf' = [n \in ParamName |-> IF n \in op.placeholders THEN filler(n) ELSE NoSource]
  /\ pc' = IF \E n \in op.placeholders : filler(n) = NoSource THEN "refused" ELSE "query"
  /\ UNCHANGED <<argumentVars, upstream, args, query, body, contentType, headers,
                 wire, cookies, covered>>

addQueryParamsForGet ==    \* mutant: only GET has a query
  /\ pc = "query"
  /\ query' = {[name |-> c.name, from |-> c.arg] : c \in
                 {d \in declaredIn("query") : /\ serialised(d.arg) /\ args[d.arg] # "empty"
                                              /\ op.method = "GET"}}
  /\ pc' = "body"
  /\ UNCHANGED <<argumentVars, upstream, args, pathOf, body, contentType, headers,
                 wire, cookies, covered>>

\* An empty list has no value to add.
addQueryParams ==
  /\ pc = "query"
  /\ query' = {[name |-> c.name, from |-> c.arg] : c \in
                 {d \in declaredIn("query") : serialised(d.arg) /\ args[d.arg] # "empty"}}
  /\ pc' = "body"
  /\ UNCHANGED <<argumentVars, upstream, args, pathOf, body, contentType, headers,
                 wire, cookies, covered>>

encodeBodyAsDeclared(kind, media) ==    \* mutant: the declaration is claimed for any bytes
  CASE media = "form"                              -> <<"form", media>>
    [] media = "text" /\ kind \in {"text", "special"} -> <<"text", media>>
    [] OTHER                                       -> <<"json", media>>

\* The bytes and the media type that describes them: what cannot be encoded as
\* declared is sent, and declared, as JSON.
encodeBody(kind, media) ==
  CASE media = "form"                              -> <<"form", media>>
    [] media = "text" /\ kind \in {"text", "special"} -> <<"text", media>>
    [] media \in {"json", "patch"}                 -> <<"json", media>>
    [] OTHER                                       -> <<"json", "json">>

createRequestBody ==
  /\ pc = "body"
  /\ UNCHANGED <<argumentVars, upstream, args, pathOf, query, headers, wire, cookies,
                 covered>>
  /\ \/ /\ route.media = NoMedia \/ BodyArg \notin DOMAIN args
        /\ pc' = "urlBuilder"
        /\ UNCHANGED <<body, contentType>>
     \/ /\ route.media = "form" /\ BodyArg \in DOMAIN args /\ args[BodyArg] # "object"
        /\ pc' = "refused"
        /\ UNCHANGED <<body, contentType>>
     \/ /\ route.media # NoMedia /\ BodyArg \in DOMAIN args
        /\ route.media = "form" => args[BodyArg] = "object"
        /\ LET encoded == encodeBody(args[BodyArg], route.media)
           IN  /\ body' = [from |-> BodyArg, bytes |-> encoded[1]]
               /\ contentType' = encoded[2]
        /\ pc' = "urlBuilder"
-----------------------------------------------------------------------------
\* A host hook replaces the URL as a whole.  One that cannot be parsed stops
\* http.NewRequest, after the headers have been merged.
buildURLHook ==
  /\ pc = "urlBuilder"
  /\ IF upstream.urlBuilder \in {"none", "fails"}
       THEN UNCHANGED <<pathOf, query>>
       ELSE /\ pathOf' = [n \in ParamName |-> IF n \in op.placeholders THEN Hook ELSE NoSource]
            /\ query' = {[name |-> Hook, from |-> Hook]}
  /\ pc' = IF upstream.urlBuilder = "fails" THEN "refused" ELSE "bodyBuilder"
  /\ UNCHANGED <<argumentVars, upstream, args, body, contentType, headers, wire,
                 cookies, covered>>

buildBodyHook ==
  /\ pc = "bodyBuilder"
  /\ body' = IF upstream.bodyBuilder \in {"none", "fails"}
               THEN body ELSE [from |-> Hook, bytes |-> Hook]
  /\ contentType' = IF upstream.bodyBuilder = "retypes" THEN "xml" ELSE contentType
  /\ pc' = IF upstream.bodyBuilder = "fails" THEN "refused" ELSE "merge"
  /\ UNCHANGED <<argumentVars, upstream, args, pathOf, query, headers, wire, cookies,
                 covered>>

mergedHeaderConfigLast(h) ==    \* mutant: the configured headers are merged last
  LET own == {c \in declaredIn("header") : c.name = h /\ serialised(c.arg)}
  IN  IF h \in upstream.headers THEN "service"
      ELSE IF own # {} THEN (CHOOSE c \in own : TRUE).arg
      ELSE IF h = "Accept" /\ op.accept THEN "route" ELSE NoSource

\* Later entries win: the service's headers, the route's, the caller's.
mergedHeader(h) ==
  LET own == {c \in declaredIn("header") : c.name = h /\ serialised(c.arg)}
  IN  IF own # {} THEN (CHOOSE c \in own : TRUE).arg
      ELSE IF h = "Accept" /\ op.accept THEN "route"
      ELSE IF h \in upstream.headers THEN "service" ELSE NoSource

mergeHeaders ==
  /\ pc = "merge"
  /\ headers' = [h \in HeaderName |-> mergedHeader(h)]
  /\ pc' = IF upstream.urlBuilder = "unusable" THEN "refused" ELSE "headers"
  /\ UNCHANGED <<argumentVars, upstream, args, pathOf, query, body, contentType, wire,
                 cookies, covered>>

\* The merged map is copied in the order a Go map yields, which is any: of the
\* names that net/http takes for one header the last one copied stays.
setHeader(h) ==
  /\ pc = "headers" /\ headers[h] # NoSource
  /\ wire' = [wire EXCEPT ![canonical[h]] = headers[h]]
  /\ headers' = [headers EXCEPT ![h] = NoSource]
  /\ UNCHANGED <<argumentVars, pc, upstream, args, pathOf, query, body, contentType,
                 cookies, covered>>

\* The body's type replaces a merged Content-Type; without one the merged stays.
setTypeAndCookies ==
  /\ pc = "headers" /\ \A h \in HeaderName : headers[h] = NoSource
  /\ wire' = IF contentType = NoMedia THEN wire
                                      ELSE [wire EXCEPT !["Content-Type"] = "type"]
  /\ cookies' = {[name |-> c.name, from |-> c.arg] :
                    c \in {d \in declaredIn("cookie") : serialised(d.arg)}}
  /\ pc' = "auth"
  /\ UNCHANGED <<argumentVars, upstream, args, pathOf, query, body, contentType, headers,
                 covered>>
-----------------------------------------------------------------------------
credential == [name |-> upstream.name, from |-> "credential"]

applyAuthAdding ==    \* mutant: query.Add for query.Set
  /\ pc = "auth"
  /\ query' = IF upstream.place = "query" THEN query \cup {credential} ELSE query
  /\ wire' = IF upstream.place = "header"
               THEN [wire EXCEPT ![canonical[upstream.name]] = "credential"] ELSE wire
  /\ pc' = IF upstream.place = "fails" THEN "refused" ELSE "sign"
  /\ UNCHANGED <<argumentVars, upstream, args, pathOf, body, contentType, headers,
                 cookies, covered>>

\* Engine.Apply replaces whatever the place of the credential held.
applyAuth ==
  /\ pc = "auth"
  /\ query' = IF upstream.place = "query"
                THEN {q \in query : q.name # upstream.name} \cup {credential} ELSE query
  /\ wire' = IF upstream.place = "header"
               THEN [wire EXCEPT ![canonical[upstream.name]] = "credential"] ELSE wire
  /\ pc' = IF upstream.place = "fails" THEN "refused" ELSE "sign"
  /\ UNCHANGED <<argumentVars, upstream, args, pathOf, body, contentType, headers,
                 cookies, covered>>

\* The path is shown decoded (URL.Path): by its arguments, not as it is escaped.
signingRequestBeforeAuth ==    \* mutant: the signer is shown the URL that was built
  [path |-> pathOf, query |-> {q \in query : q.from # "credential"}, body |-> body,
   type |-> contentType]

signingRequest ==
  [path |-> pathOf, query |-> query, body |-> body, type |-> contentType]

signRequest ==
  /\ pc = "sign"
  /\ covered' = IF upstream.signer = "none" THEN covered ELSE signingRequest
  /\ wire' = IF upstream.signer = "signs" THEN [wire EXCEPT !["Signature"] = "signature"]
                                          ELSE wire
  /\ pc' = IF upstream.signer = "fails" THEN "refused" ELSE "sent"
  /\ UNCHANGED <<argumentVars, upstream, args, pathOf, query, body, contentType, headers,
                 cookies>>

BuildRequest ==
  \/ refuseUndeclared \/ buildURL \/ addQueryParams \/ createRequestBody
  \/ buildURLHook \/ buildBodyHook
  \/ mergeHeaders \/ (\E h \in HeaderName : setHeader(h)) \/ setTypeAndCookies
  \/ applyAuth \/ signRequest

Returned == pc \in {"sent", "refused"} /\ UNCHANGED vars

Next ==
  \/ ArgumentsStep /\ UNCHANGED callVars
  \/ Call \/ BuildRequest \/ Returned

Spec == Init /\ [][Next]_vars
-----------------------------------------------------------------------------
\* What is written under another name that net/http takes for the same header:
\* configured names come in lower case, a document's as they are there.
Rivals(c) ==
  LET others == {h \in HeaderName \ {c.name} : canonical[h] = canonical[c.name]}
  IN  {d.arg : d \in {e \in declaredIn("header") : e.name \in others /\ serialised(e.arg)}}
        \cup {s \in {"service"} : others \cap upstream.headers # {}}
        \cup {s \in {"route"} : "Accept" \in others /\ op.accept}

(***************************************************************************)
(* No argument is lost but to a known other: in a request that is sent,    *)
(* every argument the caller gave is where its parameter belongs, unless   *)
(* it has no serialisation there, a hook rewrote that part, or its header  *)
(* or query parameter is the credential's, the signature's, for            *)
(* Content-Type the body's, or that of a rival of another spelling, which  *)
(* the order of a map may copy last.                                       *)
(***************************************************************************)
Arrived(c) ==
  CASE c.in = "path"   -> \/ c.name \notin op.placeholders
                          \/ pathOf[c.name] \in {c.arg, Hook}
    [] c.in = "query"  -> \/ args[c.arg] \in {"object", "empty"}
                          \/ upstream.urlBuilder = "rewrites"
                          \/ upstream.place = "query" /\ upstream.name = c.name
                          \/ [name |-> c.name, from |-> c.arg] \in query
    [] c.in = "header" -> \/ args[c.arg] = "object"
                          \/ wire[canonical[c.name]] \in {c.arg, "credential", "signature"}
                          \/ wire[canonical[c.name]] \in Rivals(c)
                          \/ canonical[c.name] = "Content-Type" /\ wire["Content-Type"] = "type"
    [] OTHER           -> \/ args[c.arg] = "object"
                          \/ [name |-> c.name, from |-> c.arg] \in cookies

ArgumentsArrive ==
  pc = "sent" =>
    /\ \A c \in route.params : present(c.arg) => Arrived(c)
    /\ BodyArg \in DOMAIN args /\ route.media # NoMedia => body.from \in {BodyArg, Hook}

(***************************************************************************)
(* The credential is the configured one: whatever arguments and static     *)
(* headers say, nothing else is sent in its place (the signer may add to   *)
(* it).                                                                    *)
(***************************************************************************)
CredentialPrevails ==
  pc = "sent" =>
    /\ upstream.place = "header" =>
         wire[canonical[upstream.name]] \in {"credential", "signature"}
    /\ upstream.place = "query" =>
         {q \in query : q.name = upstream.name} = {credential}

(***************************************************************************)
(* A signature is over the request that is sent: its path, its query with  *)
(* the credential in it, its body after the hooks, and the type in its     *)
(* Content-Type header, which is the body's whatever else was given.  A    *)
(* Content-Type of an argument or of the configuration is sent only where  *)
(* the body has no type, and there the signer was shown none: it is not    *)
(* signed.  Nor is a credential that is sent as this header.               *)
(***************************************************************************)
SignatureCovers ==
  pc = "sent" /\ upstream.signer = "signs" =>
    /\ covered.path = pathOf /\ covered.query = query /\ covered.body = body
    /\ \/ wire["Content-Type"] = "type" /\ covered.type = contentType
       \/ wire["Content-Type"] \in ArgName \cup {"service", NoSource} /\ covered.type = NoMedia
       \/ wire["Content-Type"] = "credential"

(***************************************************************************)
(* The Content-Type that is sent describes the bytes that are sent, never  *)
(* merely what the document declared, and never what a header parameter or *)
(* a configured header of that name says (a credential in it aside).       *)
(***************************************************************************)
BodyIsDescribed ==
  pc = "sent" /\ body.from = BodyArg =>
    \/ wire["Content-Type"] = "credential"
    \/ /\ wire["Content-Type"] = "type"
       /\ body.bytes = CASE contentType \in {"json", "patch"} -> "json"
                          [] contentType \in {"form", "text"}  -> contentType
                          [] OTHER                             -> "none"

(***************************************************************************)
(* "Declared arguments are placed only where their location says": what    *)
(* fills a placeholder is an argument of that path parameter.              *)
(***************************************************************************)
PlacedOnlyWhereDeclared ==
  pc = "sent" =>
    \A n \in op.placeholders :
      pathOf[n] \in ArgName => \E c \in declaredIn("path") : c.name = n /\ c.arg = pathOf[n]
=============================================================================
