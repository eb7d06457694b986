--------------------------- MODULE MCRequestBuilder ---------------------------
(***************************************************************************)
(* Instances of RequestBuilder.  The operations are the ones whose names   *)
(* collide: across locations, with the renamed form of another parameter,  *)
(* and with the request body.                                              *)
(***************************************************************************)
EXTENDS RequestBuilder, TLC

MCRenamed(in, name, k) ==
  LET renamed == in \o "_" \o name
  IN  IF k = 1 THEN renamed ELSE renamed \o "_" \o ToString(k)

MCArgNames ==
  ParamName \cup {BodyArg}
    \cup {MCRenamed(in, n, k) : in \in Location, n \in ParamName, k \in 1 .. MaxSuffix}

P(in, name) == [name |-> name, in |-> in]

Plain ==
  [item |-> <<>>, own |-> <<>>, placeholders |-> {}, method |-> "GET",
   content |-> {}, typed |-> {}, accept |-> TRUE]

WithBody(method, content) ==
  [Plain EXCEPT !.method = method, !.content = content, !.typed = content]

\* /users/{id}?id=...: the path item declares its parameter first.
PathFirst ==
  [Plain EXCEPT !.item = <<P("path", "id")>>,
                !.own = <<P("query", "id"), P("header", "tenant"), P("path", "id")>>,
                !.placeholders = {"id"}]

\* The same with the query parameter listed first.
QueryFirst ==
  [Plain EXCEPT !.own = <<P("query", "id"), P("path", "id")>>, !.placeholders = {"id"}]

\* Every name a renamed parameter could take first is taken.
Crowded ==
  [Plain EXCEPT !.method = "DELETE",
                !.own = <<P("query", "id"), P("cookie", "path_id"), P("path", "id")>>,
                !.placeholders = {"id"}]

\* A parameter called like the body.
BodyName ==
  [WithBody("POST", {"json", "text"}) EXCEPT !.own = <<P("query", "body"), P("cookie", "id")>>]

\* Parameters in the places credentials have.
Credentials ==
  [WithBody("PUT", {"text"}) EXCEPT !.own = <<P("query", "key"), P("header", "tenant"),
                                              P("path", "id")>>,
                                    !.placeholders = {"id"}]

\* A parameter for the header that the body's type is written to, and one that
\* the configuration spells differently.
Retyped ==
  [WithBody("POST", {"json"}) EXCEPT !.own = <<P("header", "Content-Type"), P("query", "id")>>]

Respelled ==
  [Plain EXCEPT !.own = <<P("header", "Content-Type"), P("header", "Tenant"),
                          P("header", "tenant")>>]

Forms   == {WithBody("PATCH", {"patch", "xml"}), WithBody("POST", {"form", "xml"})}

Colliding == {PathFirst, QueryFirst, Crowded, BodyName}
Encoded   == Forms \cup {Credentials, BodyName}
Written   == {Retyped, Respelled, BodyName}

U(static, credentialAt, name, url, bodyHook, signer) ==
  [headers |-> static, place |-> credentialAt, name |-> name, urlBuilder |-> url,
   bodyBuilder |-> bodyHook, signer |-> signer]

\* A header and nothing else.
Static == {U({"tenant"}, "none", "key", "none", "none", "none")}

\* Credentials, hooks and signers together, then each of their failures.
Guarded ==
  {U({"tenant", "Accept"}, at[1], at[2], url, bytes, signer) :
     at \in {<<"none", "key">>, <<"header", "key">>, <<"header", "tenant">>, <<"query", "key">>},
     url \in {"none", "rewrites"}, bytes \in {"none", "retypes"}, signer \in {"none", "signs"}}
  \cup {U({"tenant", "Accept"}, f[1], "key", f[2], f[3], f[4]) :
           f \in {<<"fails", "none", "none", "none">>, <<"none", "fails", "none", "none">>,
                  <<"none", "unusable", "none", "none">>, <<"none", "none", "fails", "none">>,
                  <<"query", "none", "rewrites", "fails">>}}

\* A configured Content-Type, in lower case as viper has it, with and without a
\* credential that is sent as this header.
Lowered ==
  {U({"tenant", "content-type"}, at, "content-type", "none", bytes, "signs") :
     at \in {"none", "header"}, bytes \in {"none", "rewrites"}}

Shadowed == {QueryFirst}

UpTo(k, names) == {g \in SUBSET names : Cardinality(g) <= k}

\* The arguments of an operation, and some that it does not have.
Named(o) ==
  IF o = BodyName THEN {"id", "body", "query_body"}
                  ELSE {"id", "query_id", "path_id", "path_id_2", "tenant"}

\* Names against names and arguments; credentials, hooks and signers against
\* the parameters that sit in the same places; spellings of one header.
MCCalls ==
  [c \in Operation \X Upstream |->
     IF c[1] \in Colliding /\ c[2] \in Static
       THEN UpTo(3, Named(c[1]))
     ELSE IF c[1] \in Encoded /\ c[2] \in Guarded
       THEN UpTo(2, {"id", "key", "tenant", "body"})
     ELSE IF c[1] \in Written /\ c[2] \in Lowered
       THEN UpTo(2, {"Content-Type", "Tenant", "tenant", "body"})
     ELSE {}]

ShadowedCalls ==
  [c \in Operation \X Upstream |-> UpTo(2, {"id", "path_id", "tenant"})]

Operations == Colliding \cup Encoded \cup Written
Upstreams  == Static \cup Guarded \cup Lowered

\* net/http writes "tenant" and "Tenant" alike.
MCCanonical ==
  [h \in HeaderName |-> CASE h = "tenant" -> "Tenant" [] h = "content-type" -> "Content-Type"
                           [] OTHER -> h]
=============================================================================
