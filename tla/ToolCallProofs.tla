--------------------------- MODULE ToolCallProofs ---------------------------
(***************************************************************************)
(* Proofs about ToolCall, for every configuration, environment and caller. *)
(* A call is followed from stage to stage: what the middleware let through *)
(* is true of its caller until the next call, because only Call and Forget *)
(* change who that is.                                                     *)
(***************************************************************************)
EXTENDS ToolCall, TLAPS

early == stage \in {"none", "request", "handler", "executor"}

LendInv ==
  /\ early => sent = NotYet
  /\ stage \in {"handler", "executor"} /\ context.credential # Blank =>
       presented # None /\ presented.value = context.credential
  /\ OwnCredentialIsNotLent

(***************************************************************************)
(* Under passthrough nothing but the credential of the call's own caller   *)
(* is sent: OwnCredentialIsNotLent, for any number of calls and reloads.   *)
(***************************************************************************)
THEOREM NothingIsLent == Spec => []OwnCredentialIsNotLent
<1>1. Init => LendInv
  BY DEF Init, LendInv, early, OwnCredentialIsNotLent
<1>2. LendInv /\ [Next]_vars => LendInv'
  <2> SUFFICES ASSUME LendInv, [Next]_vars PROVE LendInv'
    OBVIOUS
  <2> USE DEF LendInv, early, OwnCredentialIsNotLent
  <2>1. CASE Start \/ Reload
    BY <2>1 DEF Start, Reload, callVars
  <2>2. ASSUME NEW carried \in Presentable \cup {None}, Call(carried) PROVE LendInv'
    BY <2>2 DEF Call
  <2>3. CASE Admit
    <3>1. CASE admitted /\ stage' = "handler"
      <4>1. sent' = NotYet /\ required' = required /\ presented' = presented
        BY <2>3 DEF Admit
      <4>2. context'.credential # Blank => presented # None /\ presented.value = context'.credential
        BY <3>1, <2>3 DEF admitted, noContext, accepts
      <4> QED BY <3>1, <4>1, <4>2
    <3>2. CASE finish("refused", "message", FALSE)
      BY <2>3, <3>2 DEF Admit, finish
    <3> QED BY <2>3, <3>1, <3>2 DEF Admit
  <2>4. CASE Handle
    BY <2>4 DEF Handle, finish
  <2>5. CASE Execute
    <3>1. CASE finish("failed", "message", FALSE) /\ sent' = sent
      BY <2>5, <3>1 DEF Execute, finish
    <3>2. CASE /\ applicable(schemes, required, context.credential)
               /\ sent' = Apply(schemes, required, context.credential)
               /\ stage' = "waiting"
      <4>1. /\ stage = "executor" /\ required' = required
            /\ presented' = presented /\ context' = context
        BY <2>5 DEF Execute
      <4>2. required # None /\ required.passthrough =>
              sent'.value = context.credential /\ context.credential # Blank
        BY <3>2 DEF Apply, applicable, credentialToApply
      <4>3. required = None => sent' = None
        BY <3>2 DEF Apply
      <4> QED BY <3>2, <4>1, <4>2, <4>3
    <3> QED BY <2>5, <3>1, <3>2 DEF Execute
  <2>6. CASE Respond
    BY <2>6 DEF Respond, finish
  <2>7. CASE Forget
    BY <2>7 DEF Forget
  <2>8. CASE Refused \/ UNCHANGED vars
    BY <2>8 DEF Refused, vars, startVars, callVars
  <2> QED BY <2>1, <2>2, <2>3, <2>4, <2>5, <2>6, <2>7, <2>8 DEF Next
<1>3. LendInv => OwnCredentialIsNotLent
  BY DEF LendInv
<1> QED BY <1>1, <1>2, <1>3, PTL DEF Spec
-----------------------------------------------------------------------------
(***************************************************************************)
(* What a step of the upstream's answer makes of it is kept until the next *)
(* call: AnswerIsFaithful, for every tool and every answer.                *)
(***************************************************************************)
FaithInv ==
  /\ config \in Configuration
  /\ stage # "done" => answer = NotYet
  /\ AnswerIsFaithful

LEMMA FaithStep == FaithInv /\ Respond => FaithInv'
<1> SUFFICES ASSUME FaithInv, Respond PROVE FaithInv'
  OBVIOUS
<1> DEFINE tool == config.tool
<1>1. stage' = "done" /\ config' = config
  BY DEF Respond, finish, startVars
<1>2. CASE UNCHANGED answer
  BY <1>1, <1>2 DEF FaithInv, AnswerIsFaithful, Respond
<1>3. ASSUME NEW a \in Answer, answer' = a, a.status = "error",
             finish("error", shapeError(config.tool, a.body), FALSE)
      PROVE FaithInv'
  <2>1. /\ result'.kind = "error" /\ result'.structured = FALSE
        /\ result'.text = shapeError(tool, a.body)
    BY <1>3 DEF finish
  <2>2. result'.text = IF renders(tool.errorBody, a.body) THEN "rendered"
                                                         ELSE "status and body"
    BY <2>1 DEF shapeError
  <2> QED BY <1>1, <1>3, <2>1, <2>2 DEF FaithInv, AnswerIsFaithful
<1>4. ASSUME NEW a \in Answer, answer' = a, a.status # "error",
             LET text == shape(config.tool, a.body)
             IN  finish("success", text, text = "body" /\ successResult(config.tool, a.body))
      PROVE FaithInv'
  <2>1. /\ result'.kind = "success"
        /\ result'.text = shape(tool, a.body)
        /\ result'.structured = (shape(tool, a.body) = "body" /\ successResult(tool, a.body))
    BY <1>4 DEF finish
  <2>2. renders(tool.body, a.body) => parses(tool.body)
    BY DEF renders
  <2>3. CASE renders(tool.body, a.body)
    <3>1. result'.text = IF tool.wraps THEN "wrapped rendered" ELSE "rendered"
      BY <2>1, <2>2, <2>3 DEF shape
    <3>2. ~result'.structured
      BY <2>1, <3>1
    <3> QED BY <1>1, <1>4, <2>1, <2>3, <3>1, <3>2 DEF FaithInv, AnswerIsFaithful
  <2>4. CASE ~renders(tool.body, a.body)
    <3>1. result'.text = IF tool.wraps /\ ~parses(tool.body) THEN "wrapped body" ELSE "body"
      BY <2>1, <2>4 DEF shape
    <3>2. result'.structured <=>
            result'.text = "body" /\ tool.outputSchema /\ a.body \in Object
      BY <2>1 DEF successResult
    <3> QED BY <1>1, <1>4, <2>1, <2>4, <3>1, <3>2 DEF FaithInv, AnswerIsFaithful
  <2> QED BY <2>3, <2>4
<1> QED BY <1>2, <1>3, <1>4 DEF Respond

(***************************************************************************)
(* An upstream's failure is an error and its success is not; its body is   *)
(* replaced exactly where the template for this answer could be evaluated  *)
(* on this very body; structured content comes exactly with an object that *)
(* is shown as it is, of a tool that promised it.                          *)
(***************************************************************************)
THEOREM UpstreamIsHeard == Spec => []AnswerIsFaithful
<1>1. Init => FaithInv
  BY DEF Init, FaithInv, AnswerIsFaithful
<1>2. FaithInv /\ [Next]_vars => FaithInv'
  <2> SUFFICES ASSUME FaithInv, [Next]_vars PROVE FaithInv'
    OBVIOUS
  <2> USE DEF FaithInv, AnswerIsFaithful
  <2>1. CASE Start \/ Reload
    BY <2>1 DEF Start, Reload, callVars
  <2>2. ASSUME NEW carried \in Presentable \cup {None}, Call(carried) PROVE FaithInv'
    BY <2>2 DEF Call, startVars
  <2>3. CASE Admit
    BY <2>3 DEF Admit, finish, startVars
  <2>4. CASE Handle
    BY <2>4 DEF Handle, finish, startVars
  <2>5. CASE Execute
    BY <2>5 DEF Execute, finish, startVars
  <2>6. CASE Respond
    BY <2>6, FaithStep
  <2>7. CASE Forget
    BY <2>7 DEF Forget, startVars
  <2>8. CASE Refused \/ UNCHANGED vars
    BY <2>8 DEF Refused, vars, startVars, callVars
  <2> QED BY <2>1, <2>2, <2>3, <2>4, <2>5, <2>6, <2>7, <2>8 DEF Next
<1>3. FaithInv => AnswerIsFaithful
  BY DEF FaithInv
<1> QED BY <1>1, <1>2, <1>3, PTL DEF Spec
-----------------------------------------------------------------------------
(***************************************************************************)
(* What a started process uses is what resolveSecurity accepted, so a call *)
(* that reaches the executor through an exposed process has been checked.  *)
(***************************************************************************)
InUse ==
  process = "serving" =>
    /\ resolveSecurity(env, config)
    /\ schemes = [id \in DOMAIN config.schemes |-> resolveScheme(env, config.schemes[id])]
    /\ downstream = resolveRequirement(env, config.downstream)

callerIsKnown ==
  config.mode = "http" /\ config.public =>
    /\ presented # None
    /\ \/ config.oauth /\ presented.value \in ValidToken
       \/ /\ config.downstream # None
          /\ presented.place = config.schemes[config.downstream.id].place
          /\ presented.value \in configured(config.downstream)

KnownInv ==
  /\ config \in Configuration /\ env \in Environments
  /\ InUse
  /\ stage # "none" => process = "serving"
  /\ early => sent = NotYet
  /\ stage \in {"handler", "executor", "waiting"} => callerIsKnown
  /\ sent # NotYet => callerIsKnown

\* A caller that Verify accepts has the configured credential.
LEMMA AcceptedIsConfigured ==
  ASSUME config \in Configuration, InUse, process = "serving", downstream # None,
         accepts(schemes, downstream, presented)
  PROVE  /\ config.downstream # None /\ presented # None
         /\ presented.place = config.schemes[config.downstream.id].place
         /\ presented.value \in configured(config.downstream)
<1> DEFINE r == config.downstream
<1> DEFINE scheme == config.schemes[r.id]
<1>1. r # None /\ downstream = [r EXCEPT !.credential = interpolateCredential(env, @)]
  BY DEF InUse, resolveRequirement
<1>2. r.id \in DOMAIN config.schemes
  BY <1>1 DEF InUse, resolveSecurity, requirementHolds
<1>3. r \in Requirement /\ scheme \in Scheme
  BY <1>1, <1>2, CallAssumption
<1>4. /\ downstream.id = r.id
      /\ downstream.credential = interpolateCredential(env, r.credential)
  BY <1>1, <1>3 DEF Requirement
<1>5. schemes[r.id] = resolveScheme(env, scheme)
  BY <1>2 DEF InUse
<1>6. /\ schemes[r.id].place = scheme.place
      /\ schemes[r.id].default = interpolateCredential(env, scheme.default)
  BY <1>3, <1>5 DEF resolveScheme, Scheme
<1>7. /\ presented # None /\ presented.value # Blank
      /\ presented.place = scheme.place
      /\ presented.value = ownCredential(schemes, downstream)
  BY <1>4, <1>6 DEF accepts
<1>8. ownCredential(schemes, downstream) \in
        {interpolateCredential(env, r.credential), interpolateCredential(env, scheme.default)}
  BY <1>4, <1>6 DEF ownCredential
<1> QED BY <1>1, <1>7, <1>8 DEF configured

\* Nobody who has to be known is admitted unknown.
LEMMA AdmittedIsKnown ==
  ASSUME config \in Configuration, env \in Environments, InUse, process = "serving",
         admitted
  PROVE  callerIsKnown
<1> SUFFICES ASSUME config.mode = "http", config.public PROVE callerIsKnown
  BY DEF callerIsKnown
<1>1. config.downstream # None \/ config.oauth
  BY DEF InUse, resolveSecurity, exposureHolds
<1>2. CASE config.oauth
  <2>1. token \in ValidToken
    BY <1>2 DEF admitted
  <2>2. presented # None /\ presented.value \in ValidToken
    BY <2>1, CallAssumption, SecurityAssumption DEF token
  <2> QED BY <1>2, <2>2 DEF callerIsKnown
<1>3. CASE ~config.oauth
  <2> DEFINE r == config.downstream
  <2>1. r \in Requirement
    BY <1>1, <1>3, CallAssumption
  <2>2. downstream = [r EXCEPT !.credential = interpolateCredential(env, @)]
    BY <1>1, <1>3 DEF InUse, resolveRequirement
  <2>3. ~isUnset(env, r.credential)
    BY <1>1, <1>3 DEF InUse, resolveSecurity, requirementHolds
  <2>4. r.credential \in Written /\ env \in Environment
    BY <2>1, CallAssumption DEF Requirement
  <2>5. interpolateCredential(env, r.credential) \in Written
    BY <2>3, <2>4 DEF interpolateCredential, isUnset, Written, Environment
  <2>6. downstream \in Requirement
    BY <2>1, <2>2, <2>5 DEF Requirement
  <2>7. downstream # None
    BY <2>6, SecurityAssumption
  <2>8. accepts(schemes, downstream, presented)
    BY <1>3, <2>7 DEF admitted
  <2> QED BY <2>7, <2>8, AcceptedIsConfigured DEF callerIsKnown
<1> QED BY <1>2, <1>3

(***************************************************************************)
(* A process that others can reach works for known callers only:           *)
(* ExposedCallersAreKnown, whatever it is configured with and whatever     *)
(* callers present.                                                        *)
(***************************************************************************)
THEOREM NoUnknownCallers == Spec => []ExposedCallersAreKnown
<1>1. Init => KnownInv
  BY DEF Init, KnownInv, InUse, early
<1>2. KnownInv /\ [Next]_vars => KnownInv'
  <2> SUFFICES ASSUME KnownInv, [Next]_vars PROVE KnownInv'
    OBVIOUS
  <2> USE DEF KnownInv, early
  <2>a. ASSUME UNCHANGED <<config, env, presented>> PROVE callerIsKnown' = callerIsKnown
    BY <2>a DEF callerIsKnown, configured
  <2>b. ASSUME UNCHANGED <<config, env, process, schemes, downstream>> PROVE InUse' = InUse
    BY <2>b DEF InUse
  <2>1. CASE Start
    <3>1. UNCHANGED <<config, env, presented, stage, sent>> /\ stage = "none"
      BY <2>1 DEF Start, callVars
    <3>2. InUse'
      BY <2>1 DEF Start, InUse
    <3> QED BY <3>1, <3>2, <2>a
  <2>2. CASE Reload
    BY <2>2, <2>a, <2>b DEF Reload, callVars
  <2>3. ASSUME NEW carried \in Presentable \cup {None}, Call(carried) PROVE KnownInv'
    BY <2>3, <2>b DEF Call, startVars
  <2>4. CASE Admit
    <3>1. UNCHANGED <<config, env, process, schemes, downstream, presented, sent>>
      BY <2>4 DEF Admit, startVars
    <3>2. process = "serving" /\ stage = "request"
      BY <2>4 DEF Admit
    <3>3. CASE admitted /\ stage' = "handler"
      BY <3>1, <3>2, <3>3, <2>a, <2>b, AdmittedIsKnown
    <3>4. CASE finish("refused", "message", FALSE)
      BY <3>1, <3>2, <3>4, <2>a, <2>b DEF finish
    <3> QED BY <2>4, <3>3, <3>4 DEF Admit
  <2>5. CASE Handle
    BY <2>5, <2>a, <2>b DEF Handle, finish, startVars
  <2>6. CASE Execute
    BY <2>6, <2>a, <2>b DEF Execute, finish, startVars
  <2>7. CASE Respond
    BY <2>7, <2>a, <2>b DEF Respond, finish, startVars
  <2>8. CASE Forget
    BY <2>8, <2>b DEF Forget, startVars
  <2>9. CASE Refused \/ UNCHANGED vars
    BY <2>9, <2>a, <2>b DEF Refused, vars, startVars, callVars
  <2> QED BY <2>1, <2>2, <2>3, <2>4, <2>5, <2>6, <2>7, <2>8, <2>9 DEF Next
<1>3. KnownInv => ExposedCallersAreKnown
  BY DEF KnownInv, callerIsKnown, ExposedCallersAreKnown
<1> QED BY <1>1, <1>2, <1>3, PTL DEF Spec
-----------------------------------------------------------------------------
(***************************************************************************)
(* What startup leaves in use.  Interpolation gives credentials, since no  *)
(* reference that is looked at is unset; a requirement as it is written is *)
(* in use only for a discovered service, after a reload.                   *)
(***************************************************************************)
fromConfig(r) ==
  \/ r = resolveRequirement(env, config.upstream)
  \/ config.discovered /\ r = config.upstream

callIsTyped ==
  /\ stage \in {"none", "request", "handler", "executor", "waiting", "done"}
  /\ presented \in Presentable \cup {None}
  /\ context \in [user : BOOLEAN, credential : Secret \cup {Blank}]
  /\ sent \in {NotYet, None} \cup [place : Place, value : Secret \cup Ref]
  /\ answer \in Answer \cup {NotYet}
  /\ result \in Result \cup {NotYet}

UseInv ==
  /\ env \in Environments /\ config \in Configuration
  /\ process \in {"starting", "refused", "serving"} /\ reloads \in 0 .. MaxReloads
  /\ InUse
  /\ process # "serving" => /\ schemes = config.schemes
                           /\ downstream = config.downstream /\ upstream = config.upstream
  /\ stage # "none" => process = "serving"
  /\ process = "serving" => fromConfig(upstream)
  /\ required # None => process = "serving" /\ fromConfig(required)
  /\ callIsTyped
  /\ ~config.discovered => CredentialsAreResolved

Plain == Secret \cup {Blank}

LEMMA Interpolated ==
  ASSUME NEW e \in Environment, NEW written \in Written, ~isUnset(e, written)
  PROVE  interpolateCredential(e, written) \in Plain
BY DEF interpolateCredential, isUnset, Written, Environment, Plain

\* A requirement that startup accepts, with its variables read.
LEMMA ResolvedRequirement ==
  ASSUME NEW e \in Environment, NEW ss, NEW r \in Requirement, requirementHolds(e, ss, r)
  PROVE  LET rr == resolveRequirement(e, r)
         IN  /\ rr \in Requirement /\ rr.id = r.id /\ rr.passthrough = r.passthrough
             /\ rr.credential = interpolateCredential(e, r.credential)
             /\ rr.credential \in Plain
<1>1. r # None
  BY SecurityAssumption
<1>2. interpolateCredential(e, r.credential) \in Plain
  BY <1>1, Interpolated DEF requirementHolds, Requirement
<1>3. resolveRequirement(e, r) = [r EXCEPT !.credential = interpolateCredential(e, r.credential)]
  BY <1>1 DEF resolveRequirement
<1> QED BY <1>2, <1>3 DEF Requirement, Plain, Written

\* The schemes of a process that serves are usable.
LEMMA SchemesInUse ==
  ASSUME config \in Configuration, env \in Environments, InUse, process = "serving"
  PROVE  /\ DOMAIN schemes = DOMAIN config.schemes
         /\ \A id \in DOMAIN schemes :
              /\ schemes[id] \in Scheme
              /\ schemes[id].place \in Place /\ schemes[id].default \in Plain
              /\ schemes[id].default
                   = interpolateCredential(env, config.schemes[id].default)
<1>1. schemes = [id \in DOMAIN config.schemes |-> resolveScheme(env, config.schemes[id])]
  BY DEF InUse
<1>2. ASSUME NEW id \in DOMAIN config.schemes
      PROVE  /\ schemes[id] \in Scheme
             /\ schemes[id].place \in Place /\ schemes[id].default \in Plain
             /\ schemes[id].default = interpolateCredential(env, config.schemes[id].default)
  <2> DEFINE scheme == config.schemes[id]
             value == interpolateCredential(env, scheme.default)
  <2>1. scheme \in Scheme /\ env \in Environment
    BY CallAssumption
  <2>2. scheme.place \in Place /\ ~isUnset(env, scheme.default)
    BY DEF InUse, resolveSecurity, schemesAreValid
  <2>3. value \in Plain
    BY <2>1, <2>2, Interpolated DEF Scheme
  <2>4. schemes[id] = [scheme EXCEPT !.default = value]
    BY <1>1 DEF resolveScheme
  <2> HIDE DEF value, scheme
  <2>5. schemes[id].place = scheme.place /\ schemes[id].default = value /\ schemes[id] \in Scheme
    BY <2>1, <2>3, <2>4 DEF Scheme, Plain, Written
  <2> QED BY <2>2, <2>3, <2>5 DEF value, scheme
<1> QED BY <1>1, <1>2

\* What callers have to meet is a requirement with a credential.
LEMMA DownstreamInUse ==
  ASSUME config \in Configuration, env \in Environments, InUse, process = "serving",
         downstream # None
  PROVE  /\ downstream \in Requirement /\ downstream.id \in DOMAIN schemes
         /\ ownCredential(schemes, downstream) \in Secret
<1> DEFINE r == config.downstream
<1>1. r # None /\ downstream = resolveRequirement(env, r)
  BY DEF InUse, resolveRequirement
<1>2. r \in Requirement /\ env \in Environment /\ requirementHolds(env, config.schemes, r)
      /\ ~r.passthrough
  BY <1>1, CallAssumption DEF InUse, resolveSecurity
<1> HIDE DEF r
<1>3. /\ downstream \in Requirement /\ downstream.id = r.id
      /\ downstream.credential = interpolateCredential(env, r.credential)
      /\ downstream.credential \in Plain
  BY <1>1, <1>2, ResolvedRequirement
<1>4. /\ r.id \in DOMAIN config.schemes
      /\ \/ interpolateCredential(env, r.credential) # Blank
         \/ interpolateCredential(env, config.schemes[r.id].default) # Blank
  BY <1>1, <1>2 DEF requirementHolds
<1>5. r.id \in DOMAIN schemes /\ schemes[r.id].default \in Plain
      /\ schemes[r.id].default = interpolateCredential(env, config.schemes[r.id].default)
  BY <1>4, SchemesInUse
<1> QED BY <1>3, <1>4, <1>5 DEF ownCredential, Plain

\* So has what goes upstream, unless it is the caller's; it may be a reference
\* only where the requirement is used as it is written.
LEMMA UpstreamInUse ==
  ASSUME config \in Configuration, env \in Environments, InUse, process = "serving",
         NEW r, r # None, fromConfig(r)
  PROVE  /\ r \in Requirement /\ r.id \in DOMAIN schemes
         /\ ~r.passthrough => ownCredential(schemes, r) # Blank
         /\ ownCredential(schemes, r) \in Written
         /\ ~config.discovered => ownCredential(schemes, r) \in Plain
<1> DEFINE c == config.upstream
<1>1. c # None
  BY DEF fromConfig, resolveRequirement
<1>2. c \in Requirement /\ env \in Environment /\ requirementHolds(env, config.schemes, c)
  BY <1>1, CallAssumption DEF InUse, resolveSecurity
<1> HIDE DEF c
<1>3. /\ c.id \in DOMAIN config.schemes
      /\ \/ c.passthrough
         \/ interpolateCredential(env, c.credential) # Blank
         \/ interpolateCredential(env, config.schemes[c.id].default) # Blank
  BY <1>1, <1>2 DEF requirementHolds
<1>4. c.id \in DOMAIN schemes /\ schemes[c.id].default \in Plain
      /\ schemes[c.id].default = interpolateCredential(env, config.schemes[c.id].default)
  BY <1>3, SchemesInUse
<1>5. CASE r = resolveRequirement(env, c)
  <2>1. /\ r \in Requirement /\ r.id = c.id /\ r.passthrough = c.passthrough
        /\ r.credential = interpolateCredential(env, c.credential)
        /\ r.credential \in Plain
    BY <1>2, <1>5, ResolvedRequirement
  <2> QED BY <1>3, <1>4, <2>1 DEF ownCredential, Plain, Written
<1>6. CASE config.discovered /\ r = c
  <2>1. c.credential \in Written
    BY <1>2 DEF Requirement
  <2>2. c.credential = Blank => interpolateCredential(env, c.credential) = Blank
    BY SecurityAssumption DEF interpolateCredential
  <2> QED BY <1>2, <1>3, <1>4, <1>6, <2>1, <2>2 DEF ownCredential, Plain, Written
<1> QED BY <1>5, <1>6 DEF fromConfig, c

\* What can be applied is a credential, in a place there is.
LEMMA AppliedIsTyped ==
  ASSUME UseInv, process = "serving", required # None,
         applicable(schemes, required, context.credential)
  PROVE  LET applied == Apply(schemes, required, context.credential)
         IN  /\ applied \in [place : Place, value : Secret \cup Ref]
             /\ ~config.discovered => applied.value \notin Ref
<1> DEFINE value == credentialToApply(schemes, required, context.credential)
           applied == Apply(schemes, required, context.credential)
<1>1. /\ required.id \in DOMAIN schemes
      /\ ownCredential(schemes, required) \in Written
      /\ ~config.discovered => ownCredential(schemes, required) \in Plain
  BY UpstreamInUse DEF UseInv
<1>2. schemes[required.id].place \in Place
  BY <1>1, SchemesInUse DEF UseInv
<1>3. context.credential \in Plain
  BY DEF UseInv, callIsTyped, Plain
<1>4. value # Blank
  BY DEF applicable
<1>5. value \in Secret \cup Ref /\ (~config.discovered => value \in Secret)
  BY <1>1, <1>3, <1>4 DEF credentialToApply, Plain, Written
<1> HIDE DEF value
<1>6. applied = [place |-> schemes[required.id].place, value |-> value]
  BY DEF Apply, value
<1> HIDE DEF applied
<1>7. applied \in [place : Place, value : Secret \cup Ref]
      /\ (~config.discovered => applied.value \notin Ref)
  BY <1>2, <1>5, <1>6, SecurityAssumption
<1> QED BY <1>7 DEF applied

\* What an admitted call carries is a credential or nothing.
LEMMA AdmittedIsTyped ==
  ASSUME UseInv, process = "serving", admitted
  PROVE  context' \in [user : BOOLEAN, credential : Secret \cup {Blank}]
<1>1. CASE accepts(schemes, downstream, presented) /\ downstream # None
           /\ context' = [user |-> FALSE, credential |-> presented.value]
  <2>1. ownCredential(schemes, downstream) \in Secret
    BY <1>1, DownstreamInUse DEF UseInv
  <2>2. presented.value \in Secret
    BY <1>1, <2>1 DEF accepts
  <2> QED BY <1>1, <2>2
<1>2. CASE context' = [user |-> TRUE, credential |-> Blank]
  BY <1>2
<1>3. CASE context' = noContext
  BY <1>3 DEF noContext
<1> QED BY <1>1, <1>2, <1>3 DEF admitted

LEMMA RespondIsTyped ==
  ASSUME UseInv, Respond
  PROVE  stage' = "done" /\ answer' \in Answer \cup {NotYet} /\ result' \in Result
<1>1. config.tool \in Tool /\ answer \in Answer \cup {NotYet}
  BY CallAssumption DEF UseInv, callIsTyped
<1>2. ASSUME NEW a \in Answer, answer' = a,
             finish("error", shapeError(config.tool, a.body), FALSE)
      PROVE  stage' = "done" /\ answer' \in Answer \cup {NotYet} /\ result' \in Result
  <2>1. shapeError(config.tool, a.body) \in {"rendered", "status and body"}
    BY DEF shapeError
  <2> QED BY <1>2, <2>1 DEF finish, Result
<1>3. ASSUME NEW a \in Answer, answer' = a,
             LET text == shape(config.tool, a.body)
             IN  finish("success", text, text = "body" /\ successResult(config.tool, a.body))
      PROVE  stage' = "done" /\ answer' \in Answer \cup {NotYet} /\ result' \in Result
  <2> DEFINE text == shape(config.tool, a.body)
             structured == text = "body" /\ successResult(config.tool, a.body)
  <2>1. text \in {"body", "wrapped body", "rendered", "wrapped rendered"}
    BY DEF shape
  <2>2. structured \in BOOLEAN
    BY Zenon
  <2>3. finish("success", text, structured)
    BY <1>3
  <2>4. answer' \in Answer
    BY <1>3
  <2> HIDE DEF text, structured
  <2>5. [kind |-> "success", text |-> text, structured |-> structured] \in Result
    BY <2>1, <2>2 DEF Result
  <2>6. stage' = "done" /\ result' = [kind |-> "success", text |-> text, structured |-> structured]
    BY <2>3 DEF finish
  <2> QED BY <2>4, <2>5, <2>6
<1>4. CASE finish("failed", "message", FALSE) /\ UNCHANGED answer
  BY <1>1, <1>4 DEF finish, Result
<1> QED BY <1>2, <1>3, <1>4 DEF Respond

LEMMA UseStep == UseInv /\ [Next]_vars => UseInv'
<1> SUFFICES ASSUME UseInv, [Next]_vars PROVE UseInv'
  OBVIOUS
<1> USE DEF UseInv, fromConfig
<1>a. ASSUME UNCHANGED <<config, env, process, schemes, downstream>> PROVE InUse' = InUse
  BY <1>a DEF InUse
<1>b. ASSUME UNCHANGED sent PROVE CredentialsAreResolved' = CredentialsAreResolved
  BY <1>b DEF CredentialsAreResolved
<1>c. ASSUME UNCHANGED callVars PROVE callIsTyped'
  BY <1>c DEF callVars, callIsTyped
<1>1. CASE Start
  <2>1. UNCHANGED <<config, env, reloads, stage, required, sent>> /\ stage = "none"
    BY <1>1 DEF Start, callVars
  <2>2. callIsTyped'
    BY <1>1, <1>c DEF Start
  <2>3. CASE resolveSecurity(env, config)
    <3>1. /\ process' = "serving" /\ InUse'
          /\ upstream' = resolveRequirement(env, config.upstream)
      BY <1>1, <2>3 DEF Start, InUse
    <3> QED BY <1>b, <2>1, <2>2, <3>1
  <2>4. CASE ~resolveSecurity(env, config)
    <3>1. process' = "refused" /\ UNCHANGED <<schemes, downstream, upstream>>
      BY <1>1, <2>4 DEF Start
    <3>2. InUse'
      BY <3>1 DEF InUse
    <3> QED BY <1>1, <1>b, <2>1, <2>2, <3>1, <3>2 DEF Start
  <2> QED BY <2>3, <2>4
<1>2. CASE Reload
  <2>1. /\ UNCHANGED <<config, env, process, schemes, downstream, callVars>>
        /\ process = "serving" /\ reloads < MaxReloads /\ reloads' = reloads + 1
        /\ upstream' = IF config.discovered THEN config.upstream ELSE upstream
    BY <1>2 DEF Reload
  <2>2. UNCHANGED <<stage, required, sent>>
    BY <2>1 DEF callVars
  <2>3. callIsTyped'
    BY <2>1, <1>c
  <2>4. reloads' \in 0 .. MaxReloads
    BY <2>1, CallAssumption
  <2>5. fromConfig(upstream)'
    BY <2>1
  <2> QED BY <1>a, <1>b, <2>1, <2>2, <2>3, <2>4, <2>5
<1>3. ASSUME NEW carried \in Presentable \cup {None}, Call(carried) PROVE UseInv'
  <2>1. /\ UNCHANGED <<startVars, context, required, sent, answer, result>>
        /\ process = "serving" /\ stage' = "request" /\ presented' = carried
    BY <1>3 DEF Call
  <2>2. callIsTyped'
    BY <2>1 DEF callIsTyped
  <2> QED BY <1>a, <1>b, <2>1, <2>2 DEF startVars
<1>4. CASE Admit
  <2>1. /\ UNCHANGED <<startVars, presented, required, sent, answer>>
        /\ stage = "request" /\ process = "serving"
    BY <1>4 DEF Admit
  <2>2. CASE admitted /\ stage' = "handler" /\ UNCHANGED result
    <3>1. context' \in [user : BOOLEAN, credential : Secret \cup {Blank}]
      BY <2>1, <2>2, AdmittedIsTyped
    <3> QED BY <1>a, <1>b, <2>1, <2>2, <3>1 DEF startVars, callIsTyped
  <2>3. CASE finish("refused", "message", FALSE) /\ UNCHANGED context
    <3>1. stage' = "done" /\ result' \in Result
      BY <2>3 DEF finish, Result
    <3> QED BY <1>a, <1>b, <2>1, <2>3, <3>1 DEF startVars, callIsTyped
  <2> QED BY <1>4, <2>2, <2>3 DEF Admit
<1>5. CASE Handle
  <2>1. /\ UNCHANGED <<startVars, presented, context, sent, answer>>
        /\ stage = "handler" /\ process = "serving"
    BY <1>5 DEF Handle
  <2>2. CASE stage' = "executor" /\ required' = upstream /\ UNCHANGED result
    <3>1. callIsTyped'
      BY <2>1, <2>2 DEF callIsTyped
    <3> QED BY <1>a, <1>b, <2>1, <2>2, <3>1 DEF startVars
  <2>3. CASE finish("error", "message", FALSE) /\ UNCHANGED required
    <3>1. stage' = "done" /\ result' \in Result
      BY <2>3 DEF finish, Result
    <3>2. callIsTyped'
      BY <2>1, <3>1 DEF callIsTyped
    <3> QED BY <1>a, <1>b, <2>1, <2>3, <3>1, <3>2 DEF startVars
  <2> QED BY <1>5, <2>2, <2>3 DEF Handle
<1>6. CASE Execute
  <2>1. /\ UNCHANGED <<startVars, presented, context, required, answer>>
        /\ stage = "executor" /\ process = "serving"
    BY <1>6 DEF Execute
  <2>2. CASE /\ applicable(schemes, required, context.credential)
             /\ sent' = Apply(schemes, required, context.credential)
             /\ stage' = "waiting" /\ UNCHANGED result
    <3>1. CASE required = None
      <4>1. sent' = None
        BY <2>2, <3>1 DEF Apply
      <4>2. callIsTyped' /\ CredentialsAreResolved'
        BY <2>1, <2>2, <4>1 DEF callIsTyped, CredentialsAreResolved
      <4> QED BY <1>a, <2>1, <2>2, <4>2 DEF startVars
    <3>2. CASE required # None
      <4>1. /\ sent' \in [place : Place, value : Secret \cup Ref]
            /\ ~config.discovered => sent'.value \notin Ref
        BY <2>1, <2>2, <3>2, AppliedIsTyped
      <4>2. callIsTyped' /\ (~config.discovered => CredentialsAreResolved')
        BY <2>1, <2>2, <4>1 DEF callIsTyped, CredentialsAreResolved
      <4> QED BY <1>a, <2>1, <2>2, <4>2 DEF startVars
    <3> QED BY <3>1, <3>2
  <2>3. CASE finish("failed", "message", FALSE) /\ UNCHANGED sent
    <3>1. stage' = "done" /\ result' \in Result
      BY <2>3 DEF finish, Result
    <3>2. callIsTyped'
      BY <2>1, <2>3, <3>1 DEF callIsTyped
    <3> QED BY <1>a, <1>b, <2>1, <2>3, <3>1, <3>2 DEF startVars
  <2> QED BY <1>6, <2>2, <2>3 DEF Execute
<1>7. CASE Respond
  <2>1. /\ UNCHANGED <<startVars, presented, context, required, sent>>
        /\ stage = "waiting" /\ process = "serving"
    BY <1>7 DEF Respond
  <2>2. stage' = "done" /\ answer' \in Answer \cup {NotYet} /\ result' \in Result
    BY <1>7, RespondIsTyped
  <2>3. callIsTyped'
    BY <2>1, <2>2 DEF callIsTyped
  <2> QED BY <1>a, <1>b, <2>1, <2>2, <2>3 DEF startVars
<1>8. CASE Forget
  <2>1. /\ UNCHANGED startVars /\ stage' = "none" /\ required' = None /\ sent' = NotYet
        /\ presented' = None /\ context' = noContext /\ answer' = NotYet /\ result' = NotYet
    BY <1>8 DEF Forget
  <2>2. callIsTyped' /\ CredentialsAreResolved'
    BY <2>1 DEF callIsTyped, CredentialsAreResolved, noContext
  <2> QED BY <1>a, <2>1, <2>2 DEF startVars
<1>9. CASE Refused \/ UNCHANGED vars
  <2>1. UNCHANGED <<startVars, callVars, stage, sent, required>>
    BY <1>9 DEF Refused, vars, callVars
  <2> QED BY <1>a, <1>b, <1>c, <2>1 DEF startVars
<1> QED BY <1>1, <1>2, <1>3, <1>4, <1>5, <1>6, <1>7, <1>8, <1>9 DEF Next

LEMMA UseHolds == Spec => []UseInv
<1>1. Init => UseInv
  BY CallAssumption DEF Init, UseInv, InUse, callIsTyped, noContext, CredentialsAreResolved
<1> QED BY <1>1, UseStep, PTL DEF Spec

(***************************************************************************)
(* The settings a process reads, what it makes of them and the call it     *)
(* serves stay what they are meant to be, references included only where   *)
(* one was sent as it is written.                                          *)
(***************************************************************************)
THEOREM CallsAreTyped == Spec => []TypeOK
<1>1. UseInv => TypeOK
  <2> SUFFICES ASSUME UseInv PROVE TypeOK
    OBVIOUS
  <2>1. CASE process = "serving"
    <3>1. DOMAIN schemes \subseteq SchemeId /\ \A id \in DOMAIN schemes : schemes[id] \in Scheme
      BY <2>1, SchemesInUse, CallAssumption DEF UseInv
    <3>2. downstream \in Requirement \cup {None}
      BY <2>1, DownstreamInUse DEF UseInv
    <3>3. upstream \in Requirement \cup {None} /\ required \in Requirement \cup {None}
      BY <2>1, UpstreamInUse DEF UseInv
    <3> QED BY <3>1, <3>2, <3>3 DEF UseInv, TypeOK, callIsTyped
  <2>2. CASE process # "serving"
    BY <2>2, CallAssumption DEF UseInv, TypeOK, callIsTyped
  <2> QED BY <2>1, <2>2
<1> QED BY <1>1, UseHolds, PTL

(***************************************************************************)
(* What startup checks is enough, for every configuration and environment  *)
(* and after any reload: no call that is not passthrough fails for want of *)
(* a scheme or a credential, and callers can meet what is asked of them.   *)
(***************************************************************************)
THEOREM StartupSuffices == Spec => []StartupChecksSuffice
<1>1. UseInv => StartupChecksSuffice
  <2> SUFFICES ASSUME UseInv PROVE StartupChecksSuffice
    OBVIOUS
  <2>1. ASSUME required # None, ~required.passthrough
        PROVE  applicable(schemes, required, Blank)
    BY <2>1, UpstreamInUse DEF UseInv, applicable, credentialToApply
  <2>2. ASSUME process = "serving", downstream # None
        PROVE  \E value \in Secret :
                 accepts(schemes, downstream,
                         [place |-> schemes[downstream.id].place, value |-> value])
    <3> DEFINE value == ownCredential(schemes, downstream)
               carried == [place |-> schemes[downstream.id].place, value |-> value]
    <3>1. value \in Secret /\ downstream.id \in DOMAIN schemes
      BY <2>2, DownstreamInUse DEF UseInv
    <3>2. schemes[downstream.id].place \in Place
      BY <2>2, <3>1, SchemesInUse DEF UseInv
    <3>3. carried # None /\ carried.value # Blank
      BY <3>1, <3>2, SecurityAssumption DEF Carried
    <3>4. accepts(schemes, downstream, carried)
      BY <3>1, <3>3 DEF accepts
    <3> QED BY <3>1, <3>4
  <2> QED BY <2>1, <2>2 DEF StartupChecksSuffice
<1> QED BY <1>1, UseHolds, PTL

(***************************************************************************)
(* Where every service is one of the configuration file no upstream is     *)
(* ever sent a reference: CredentialsAreResolved, through any reloads.  A  *)
(* discovered service does without this, as the run that finds it sent     *)
(* shows.                                                                  *)
(***************************************************************************)
THEOREM ConfiguredCredentialsAreResolved ==
  ASSUME \A c \in Configuration : ~c.discovered
  PROVE  Spec => []CredentialsAreResolved
<1>1. UseInv => CredentialsAreResolved
  BY DEF UseInv
<1> QED BY <1>1, UseHolds, PTL
=============================================================================
