------------------------------- MODULE ToolCall -------------------------------
(***************************************************************************)
(* A tool call from the client to the upstream and back, in a process that *)
(* checked its configuration when it started and may reload since:         *)
(* server/handler/http.go and auth/middleware (who may call), server/tool  *)
(* (arguments, result), requester (the credential, the request), and the   *)
(* part of config and server.go that decides which credential is used.     *)
(*                                                                         *)
(* One service and one call at a time: calls share nothing but the         *)
(* configuration, which only a reload changes.  How arguments become a     *)
(* request is RequestBuilder's subject; here it succeeds or fails.         *)
(***************************************************************************)
EXTENDS Security

CONSTANTS
  Configuration,  \* what the process may be started with
  Environments,   \* and in which environments
  Presentable,    \* what a caller may present
  ValidToken,     \* access tokens the OAuth provider knows
  NotYet,         \* nothing was sent, answered or returned
  MaxReloads      \* bound

\* A template that parses may ask for a field, for an element, or for nothing.
Template == {"none", "malformed", "field", "element", "any"}
Tool == [outputSchema : BOOLEAN,
         body : Template, errorBody : Template, wraps : BOOLEAN]

ASSUME CallAssumption ==
  /\ \A c \in Configuration :
       /\ c.mode \in {"stdio", "http"} /\ c.public \in BOOLEAN /\ c.oauth \in BOOLEAN
       /\ DOMAIN c.schemes \subseteq SchemeId
       /\ \A id \in DOMAIN c.schemes : c.schemes[id] \in Scheme
       /\ c.downstream \in Requirement \cup {None}
       /\ c.upstream \in Requirement \cup {None}
       /\ c.discovered \in BOOLEAN    \* is the service one of services_dir
       /\ c.tool \in Tool
  /\ Environments \subseteq Environment
  /\ Presentable \subseteq Carried \cup {None}
  /\ ValidToken \subseteq Secret /\ MaxReloads \in Nat
  /\ NotYet \notin Carried \cup {None}

VARIABLES
  env,        \* the environment
  config,     \* the configuration as written
  process,    \* "starting", "refused", "serving"
  schemes,    \* the schemes in use
  downstream, \* the requirement callers have to meet
  upstream,   \* the requirement of the service's upstream
  reloads,
  stage,      \* of the call: "none", "request", "handler", "executor", "waiting", "done"
  presented,  \* what its caller presented
  context,    \* what the middleware left for it: the user, the credential
  required,   \* the upstream requirement of the executor it runs in
  sent,       \* what was sent upstream: a credential, None, or NotYet
  answer,     \* what the upstream answered, or NotYet
  result      \* what the client got, or NotYet

startVars == <<env, config, process, schemes, downstream, upstream, reloads>>
callVars  == <<stage, presented, context, required, sent, answer, result>>
vars      == <<startVars, callVars>>

\* The bare object lacks the field a template may ask for.
Object == {"object", "bare object"}
JSON   == Object \cup {"list", "scalar"}
Body   == JSON \cup {"text", "empty"}
Answer == [status : {"ok", "error"}, body : Body]
Result == [kind : {"refused", "failed"}, text : {"message"}, structured : {FALSE}]
            \cup [kind : {"error"}, text : {"message", "status and body", "rendered"},
                  structured : {FALSE}]
            \cup [kind : {"success"}, text : {"body", "wrapped body", "rendered",
                                              "wrapped rendered"}, structured : BOOLEAN]

noContext == [user |-> FALSE, credential |-> Blank]

TypeOK ==
  /\ env \in Environments /\ config \in Configuration
  /\ process \in {"starting", "refused", "serving"}
  /\ DOMAIN schemes \subseteq SchemeId
  /\ \A id \in DOMAIN schemes : schemes[id] \in Scheme
  /\ downstream \in Requirement \cup {None} /\ upstream \in Requirement \cup {None}
  /\ reloads \in 0 .. MaxReloads
  /\ stage \in {"none", "request", "handler", "executor", "waiting", "done"}
  /\ presented \in Presentable \cup {None}
  /\ context \in [user : BOOLEAN, credential : Secret \cup {Blank}]
  /\ required \in Requirement \cup {None}
  /\ sent \in {NotYet, None} \cup [place : Place, value : Secret \cup Ref]
  /\ answer \in Answer \cup {NotYet}
  /\ result \in Result \cup {NotYet}

Init ==
  /\ env \in Environments /\ config \in Configuration
  /\ process = "starting"
  /\ schemes = config.schemes
  /\ downstream = config.downstream /\ upstream = config.upstream
  /\ reloads = 0
  /\ stage = "none" /\ presented = None /\ context = noContext
  /\ required = None /\ sent = NotYet /\ answer = NotYet /\ result = NotYet
-----------------------------------------------------------------------------
\* config.Load, and New: the credentials in use are the interpolated ones.
Start ==
  /\ process = "starting"
  /\ IF resolveSecurity(env, config)
       THEN /\ process' = "serving"
            /\ schemes' = [id \in DOMAIN config.schemes |->
                             resolveScheme(env, config.schemes[id])]
            /\ downstream' = resolveRequirement(env, config.downstream)
            /\ upstream' = resolveRequirement(env, config.upstream)
       ELSE /\ process' = "refused"
            /\ UNCHANGED <<schemes, downstream, upstream>>
  /\ UNCHANGED <<env, config, reloads, callVars>>

ReloadRereading ==    \* mutant: every service is read again, not only discovered ones
  /\ process = "serving" /\ reloads < MaxReloads
  /\ reloads' = reloads + 1
  /\ upstream' = config.upstream
  /\ UNCHANGED <<env, config, process, schemes, downstream, callVars>>

\* Reload: service.yaml of a discovered service is read again, and used as it
\* is written; a configured service keeps what startup made of it.
Reload ==
  /\ process = "serving" /\ reloads < MaxReloads
  /\ reloads' = reloads + 1
  /\ upstream' = IF config.discovered THEN config.upstream ELSE upstream
  /\ UNCHANGED <<env, config, process, schemes, downstream, callVars>>
-----------------------------------------------------------------------------
Call(carried) ==
  /\ process = "serving" /\ stage = "none"
  /\ config.mode = "stdio" => carried = None
  /\ presented' = carried
  /\ stage' = "request"
  /\ UNCHANGED <<startVars, context, required, sent, answer, result>>

finish(kind, text, structured) ==
  /\ stage' = "done"
  /\ result' = [kind |-> kind, text |-> text, structured |-> structured]

\* extractToken: a bearer token, or the query parameter.
token ==
  IF presented # None /\ presented.place \in {"bearer", "token"}
  THEN presented.value ELSE Blank

(***************************************************************************)
(* CreateHTTPHandler: with OAuth the provider decides, which may fail on   *)
(* any token; else the downstream requirement, if there is one.  The       *)
(* credential is kept for passthrough only by the latter.                  *)
(***************************************************************************)
admitted ==
  \/ /\ config.mode = "stdio" /\ context' = noContext
  \/ /\ config.mode = "http" /\ config.oauth /\ token \in ValidToken
     /\ context' = [user |-> TRUE, credential |-> Blank]
  \/ /\ config.mode = "http" /\ ~config.oauth /\ downstream # None
     /\ accepts(schemes, downstream, presented)
     /\ context' = [user |-> FALSE, credential |-> presented.value]
  \/ /\ config.mode = "http" /\ ~config.oauth /\ downstream = None
     /\ context' = noContext

mayBeTurnedAway ==
  /\ config.mode = "http"
  /\ \/ config.oauth
     \/ downstream # None /\ ~accepts(schemes, downstream, presented)

Admit ==
  /\ stage = "request"
  /\ \/ admitted /\ stage' = "handler" /\ UNCHANGED result
     \/ mayBeTurnedAway /\ finish("refused", "message", FALSE) /\ UNCHANGED context
  /\ UNCHANGED <<startVars, presented, required, sent, answer>>

\* The tool's handler: a user is asked for when OAuth is on, in stdio too;
\* arguments that are no object end the call.  It runs the executor that is
\* registered now.
Handle ==
  /\ stage = "handler"
  /\ \/ /\ config.oauth => context.user
        /\ stage' = "executor" /\ required' = upstream /\ UNCHANGED result
     \/ finish("error", "message", FALSE) /\ UNCHANGED required
  /\ UNCHANGED <<startVars, presented, context, sent, answer>>

\* The executor: BuildRequest may refuse the call, and so may Apply.
Execute ==
  /\ stage = "executor"
  /\ \/ /\ applicable(schemes, required, context.credential)
        /\ sent' = Apply(schemes, required, context.credential)
        /\ stage' = "waiting" /\ UNCHANGED result
     \/ finish("failed", "message", FALSE) /\ UNCHANGED sent
  /\ UNCHANGED <<startVars, presented, context, required, answer>>
-----------------------------------------------------------------------------
(***************************************************************************)
(* responseShaper.  A template renders when it parsed, the body is JSON of *)
(* any kind, and what it asks for is there.                                *)
(***************************************************************************)
parses(template) == template \in {"field", "element", "any"}

renders(template, body) ==
  /\ parses(template) /\ body \in JSON
  /\ template = "field" => body = "object"
  /\ template = "element" => body = "list"

shapeOrBlank(tool, body) ==    \* mutant: what a template cannot show is left out
  IF parses(tool.body)
  THEN IF tool.wraps THEN "wrapped rendered" ELSE "rendered"
  ELSE IF tool.wraps THEN "wrapped body" ELSE "body"

\* What the client is shown of a success; "body" is no shape at all.
shape(tool, body) ==
  IF parses(tool.body)
  THEN IF ~renders(tool.body, body) THEN "body"
       ELSE IF tool.wraps THEN "wrapped rendered" ELSE "rendered"
  ELSE IF tool.wraps THEN "wrapped body" ELSE "body"

shapeError(tool, body) ==
  IF renders(tool.errorBody, body) THEN "rendered" ELSE "status and body"

successResult(tool, body) == tool.outputSchema /\ body \in Object

\* The answer comes back, or nothing does within 30 seconds.
Respond ==
  /\ stage = "waiting"
  /\ \/ \E a \in Answer :
          /\ answer' = a
          /\ IF a.status = "error"
               THEN finish("error", shapeError(config.tool, a.body), FALSE)
               ELSE LET text == shape(config.tool, a.body)
                    IN  finish("success", text,
                               text = "body" /\ successResult(config.tool, a.body))
     \/ finish("failed", "message", FALSE) /\ UNCHANGED answer
  /\ UNCHANGED <<startVars, presented, context, required, sent>>

\* The next call.
Forget ==
  /\ stage = "done" /\ stage' = "none"
  /\ presented' = None /\ context' = noContext /\ required' = None
  /\ sent' = NotYet /\ answer' = NotYet /\ result' = NotYet
  /\ UNCHANGED startVars

Refused == process = "refused" /\ UNCHANGED vars

Next ==
  \/ Start \/ Reload
  \/ \E carried \in Presentable \cup {None} : Call(carried)
  \/ Admit \/ Handle \/ Execute \/ Respond \/ Forget
  \/ Refused

Spec == Init /\ [][Next]_vars
-----------------------------------------------------------------------------
\* The credentials a requirement of the configuration file stands for.
configured(r) ==
  {interpolateCredential(env, r.credential),
   interpolateCredential(env, config.schemes[r.id].default)} \ {Blank}

(***************************************************************************)
(* Nobody unknown uses a process that others can reach: behind every       *)
(* request it sends is a caller with a valid token, or with the configured *)
(* credential in the configured place.                                     *)
(***************************************************************************)
ExposedCallersAreKnown ==
  sent # NotYet /\ config.mode = "http" /\ config.public =>
    /\ presented # None
    /\ \/ config.oauth /\ presented.value \in ValidToken
       \/ /\ config.downstream # None
          /\ presented.place = config.schemes[config.downstream.id].place
          /\ presented.value \in configured(config.downstream)

(***************************************************************************)
(* Passthrough sends the credential of this call's caller, and nothing at  *)
(* all when there is none: the process never lends its own.                *)
(***************************************************************************)
OwnCredentialIsNotLent ==
  sent \notin {NotYet, None} /\ required.passthrough =>
    presented # None /\ sent.value = presented.value

(***************************************************************************)
(* What startup checks is enough: no call of a process that started fails  *)
(* because a scheme or a credential is missing, unless it is the caller's, *)
(* and the requirement callers have to meet can be met.                    *)
(***************************************************************************)
StartupChecksSuffice ==
  /\ stage = "executor" /\ required # None /\ ~required.passthrough =>
       applicable(schemes, required, Blank)
  /\ process = "serving" /\ downstream # None =>
       \E value \in Secret :
         accepts(schemes, downstream, [place |-> schemes[downstream.id].place, value |-> value])

(***************************************************************************)
(* "A per-service credential is interpolated like any other": no upstream  *)
(* is ever sent the reference instead of the value.                        *)
(***************************************************************************)
CredentialsAreResolved == sent \notin {NotYet, None} => sent.value \notin Ref

(***************************************************************************)
(* What the upstream said is not lost, and its failures are errors.  The   *)
(* template for this answer takes the place of its body exactly when it    *)
(* could be evaluated on it; otherwise the body is shown, as it is, or     *)
(* between the prepended and the appended text where no template was       *)
(* parsed.  The promised structured content comes with a body shown as it  *)
(* is, and with nothing else.                                              *)
(*                                                                         *)
(* The documents promise more in two cases: a malformed template leaves    *)
(* the body untouched, where the code still wraps it; and a configured     *)
(* template ends structured content, where one that could not be evaluated *)
(* leaves it.  These two are not claimed here.                             *)
(***************************************************************************)
AnswerIsFaithful ==
  stage = "done" /\ answer # NotYet =>
    LET tool     == config.tool
        failed   == answer.status = "error"
        template == IF failed THEN tool.errorBody ELSE tool.body
        unwrapped == {"body", "status and body", "rendered"}
    IN  /\ result.kind = IF failed THEN "error" ELSE "success"
        /\ renders(template, answer.body) <=>
             result.text \in {"rendered", "wrapped rendered"}
        /\ result.text \notin unwrapped <=>
             /\ ~failed /\ tool.wraps
             /\ parses(template) => renders(template, answer.body)
        /\ result.structured <=>
             /\ ~failed /\ result.text = "body"
             /\ tool.outputSchema /\ answer.body \in Object
=============================================================================
