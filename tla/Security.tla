------------------------------- MODULE Security -------------------------------
(***************************************************************************)
(* Credentials: how they are configured (internal/config/security.go), and *)
(* how internal/security attaches them to requests and checks them.        *)
(*                                                                         *)
(* A scheme says how a credential is carried, a requirement which scheme   *)
(* to use and with what.  A credential is written as it is or as ${VAR};   *)
(* where it is carried is a place: an Authorization header of one kind, or *)
(* a header or query parameter of the scheme's name.  A basic credential   *)
(* is a user:pass pair, which encoding and decoding give back unchanged.   *)
(***************************************************************************)
EXTENDS Naturals

CONSTANTS
  SchemeId,
  Secret,      \* credentials
  Ref,         \* references to environment variables
  Blank,       \* the empty string
  Undefined,   \* the value of a variable that is not set
  None         \* no requirement, nothing carried

Place   == {"bearer", "basic", "header", "query"}
Written == Secret \cup Ref \cup {Blank}

Scheme      == [place : Place \cup {"unsupported"}, default : Written]
Requirement == [id : SchemeId, credential : Written, passthrough : BOOLEAN]
Carried     == [place : Place \cup {"token"}, value : Secret \cup Ref \cup {Blank}]
Environment == [Ref -> Secret \cup {Blank, Undefined}]

ASSUME SecurityAssumption ==
  /\ Blank \notin Secret \cup Ref /\ Undefined \notin Secret \cup {Blank}
  /\ Secret \cap Ref = {}
  /\ None \notin Requirement /\ None \notin Carried
-----------------------------------------------------------------------------
(***************************************************************************)
(* Startup: resolveSecurity.  An unset variable is an error, a variable    *)
(* set to nothing is an empty credential.                                  *)
(***************************************************************************)
isUnset(env, written) == written \in Ref /\ env[written] = Undefined

interpolateCredential(env, written) == IF written \in Ref THEN env[written] ELSE written

schemesAreValid(env, schemes) ==
  \A id \in DOMAIN schemes :
    schemes[id].place \in Place /\ ~isUnset(env, schemes[id].default)

resolveScheme(env, scheme) ==
  [scheme EXCEPT !.default = interpolateCredential(env, @)]

resolveRequirement(env, r) ==
  IF r = None THEN None ELSE [r EXCEPT !.credential = interpolateCredential(env, @)]

requirementHoldsAsWritten(env, schemes, r) ==    \* mutant: checked before the variables are read
  r # None =>
     /\ r.id \in DOMAIN schemes /\ ~isUnset(env, r.credential)
     /\ r.passthrough \/ r.credential # Blank \/ schemes[r.id].default # Blank

\* A requirement names a scheme there is and has a credential to use, its own
\* or the scheme's, once the variables are read.
requirementHolds(env, schemes, r) ==
  r # None =>
     /\ r.id \in DOMAIN schemes /\ ~isUnset(env, r.credential)
     /\ \/ r.passthrough
        \/ interpolateCredential(env, r.credential) # Blank
        \/ interpolateCredential(env, schemes[r.id].default) # Blank

exposureHoldsWithUpstream(c) ==    \* mutant: any requirement will do
  c.mode = "http" /\ c.public => c.downstream # None \/ c.upstream # None \/ c.oauth

\* validateExposure: who can be reached from elsewhere knows the callers.
exposureHolds(c) == c.mode = "http" /\ c.public => c.downstream # None \/ c.oauth

resolveSecurity(env, c) ==
  /\ schemesAreValid(env, c.schemes)
  /\ requirementHolds(env, c.schemes, c.downstream)
  /\ requirementHolds(env, c.schemes, c.upstream)
  /\ c.downstream # None => ~c.downstream.passthrough
  /\ exposureHolds(c)
-----------------------------------------------------------------------------
ownCredential(schemes, r) ==
  IF r.credential = Blank THEN schemes[r.id].default ELSE r.credential

\* Verify and extractCredential: one place is looked at, whatever else is sent.
accepts(schemes, r, presented) ==
  /\ r.id \in DOMAIN schemes
  /\ presented # None /\ presented.value # Blank
  /\ presented.place = schemes[r.id].place
  /\ presented.value = ownCredential(schemes, r)

credentialOrOwn(schemes, r, callers) ==    \* mutant: our own where the caller has none
  IF r.passthrough /\ callers # Blank THEN callers ELSE ownCredential(schemes, r)

credentialToApply(schemes, r, callers) ==
  IF r.passthrough THEN callers ELSE ownCredential(schemes, r)

applicableUnchecked(schemes, r, callers) ==    \* mutant: an empty credential is attached
  r # None => r.id \in DOMAIN schemes

\* Engine.Apply, when it does not fail.
applicable(schemes, r, callers) ==
  r # None => r.id \in DOMAIN schemes /\ credentialToApply(schemes, r, callers) # Blank

Apply(schemes, r, callers) ==
  IF r = None THEN None
  ELSE [place |-> schemes[r.id].place, value |-> credentialToApply(schemes, r, callers)]
=============================================================================
