-------------------------- MODULE SchemaConversion --------------------------
(***************************************************************************)
(* The JSON Schema a tool publishes for a body or a response: convertSchema*)
(* of internal/parser/jsonschema.go, for the components of the document    *)
(* DocumentLoad loaded, and responseSchema of parser.go.  SchemaMerge has  *)
(* the keywords and what one level of the conversion does with them.       *)
(***************************************************************************)
EXTENDS SchemaMerge

CONSTANTS
  Value,       \* bound: the JSON values that are tried
  MaxDepth     \* maxSchemaDepth

\* Where a schema has references, and a schema with them rewritten.
members(s) == Range(s.allOf) \cup Range(s.oneOf) \cup Range(s.anyOf)

childrenOf(s) ==
  members(s) \cup Range(s.properties) \cup ({s.items} \ {Nothing})

mapSeq(s, f) == [i \in DOMAIN s |-> f[s[i]]]

readdressed(s, f) ==
  [s EXCEPT !.properties = mapSeq(@, f), !.items = IF @ = Nothing THEN @ ELSE f[@],
            !.allOf = mapSeq(@, f), !.oneOf = mapSeq(@, f), !.anyOf = mapSeq(@, f)]

\* findJSONSchema31Construct: the type "null" and lists of types.
uses31(s) == Len(s.types) > 1 \/ s.types = <<"null">>
-----------------------------------------------------------------------------
\* A field of two branches; mergeBranch has the facets.
RECURSIVE mergeBranchProperty(_, _)
mergeBranchProperty(into, incoming) ==
  mergeBranch(into, incoming, LAMBDA p, q : mergeBranchProperty(p, q))

mergeBranchProperties(p, q) == mergeFields(p, q, LAMBDA a, b : mergeBranchProperty(a, b))

unionBranches(into, branches) ==
  LET props == FoldLeft(LAMBDA p, b : mergeBranchProperties(p, b.properties),
                        into.properties, branches)
  IN  IF DOMAIN props = {} THEN into
      ELSE [into EXCEPT !.properties = props, !.types = <<"object">>, !.required = {}]

schemaNamed(n) == text.components[n]

isNullOnly(n) == schemaNamed(n).types # <<>> /\ Range(schemaNamed(n).types) = {"null"}

withoutNullBranches(branches) == SelectSeq(branches, LAMBDA b : ~isNullOnly(b))

applyCompositionMerged(out, branches, converted, keyword) ==    \* mutant: the merge is all
  LET usable == withoutNullBranches(branches) IN                \* that is published
  IF usable = <<>> THEN out
  ELSE IF Len(usable) = 1 THEN mergeSchema(out, converted[usable[1]])
  ELSE unionBranches(out, mapSeq(usable, converted))

\* A single branch is the schema itself; of several the fields are merged and
\* the branches published beside them as they are.
applyComposition(out, branches, converted, keyword) ==
  LET usable == withoutNullBranches(branches) IN
  IF usable = <<>> THEN out
  ELSE IF Len(usable) = 1 THEN mergeSchema(out, converted[usable[1]])
  ELSE [unionBranches(out, mapSeq(usable, converted))
          EXCEPT ![keyword] = mapSeq(usable, converted)]

\* What stands for a schema inside itself, or too far down.
omitted == [AnySchema EXCEPT !.types = <<"object">>]

\* A schema that has no type gets one from its structure only.
withType(s) ==
  [s EXCEPT !.types = IF @ # <<>> THEN @
                      ELSE IF s.items # Nothing THEN <<"array">>
                      ELSE IF s.properties # <<>> \/ s.additional = "any" THEN <<"object">>
                      ELSE <<>>]

\* convertSchema: path holds the schemas it is inside of, depth is their number.
RECURSIVE convertSchema(_, _)
convertSchema(path, n) ==
  IF n \in path \/ Cardinality(path) >= MaxDepth THEN omitted
  ELSE
    LET s == schemaNamed(n)
        converted == [m \in childrenOf(s) |-> convertSchema(path \cup {n}, m)]
        whole == FoldLeft(LAMBDA out, m : mergeSchema(out, converted[m]),
                          scalarFacets(s), s.allOf)
        chosen == applyComposition(applyComposition(whole, s.oneOf, converted, "oneOf"),
                                   s.anyOf, converted, "anyOf")
    IN  withType([chosen EXCEPT
          !.properties = mapSeq(s.properties, converted) @@ @,
          !.required = @ \cup s.required,
          !.items = IF s.items = Nothing THEN @ ELSE converted[s.items],
          !.additional = IF s.additional = "any" THEN "any" ELSE @])

jsonSchemaFor(n) == convertSchema({}, n)

\* The first of the responses that converts to an object, whatever is skipped.
successCodes == <<"200", "201", "default">>

responseSchema(responses) ==
  LET objects == {i \in DOMAIN successCodes :
                    /\ successCodes[i] \in DOMAIN responses
                    /\ jsonSchemaFor(responses[successCodes[i]]).types = <<"object">>}
  IN  IF objects = {} THEN Nothing
      ELSE jsonSchemaFor(responses[successCodes[CHOOSE i \in objects :
                                                  \A j \in objects : i <= j]])
-----------------------------------------------------------------------------
look(x) == IF x \in Name THEN schemaNamed(x) ELSE x

\* What a schema accepts, all the way down.
RECURSIVE accepts(_, _)
accepts(x, v) == permits(look(x), v, LAMBDA y, w : accepts(y, w))

\* The schemas that describe field f of v: those of the branches v belongs to.
RECURSIVE describing(_, _, _)
describing(n, v, f) ==
  LET s == schemaNamed(n)
      chosen == {b \in Range(s.oneOf) \cup Range(s.anyOf) : accepts(b, v)}
  IN  {s.properties[g] : g \in {f} \cap DOMAIN s.properties}
        \cup UNION {describing(m, v, f) : m \in Range(s.allOf) \cup chosen}

\* A value without nulls whose fields are all declared, by its own branch.
RECURSIVE Addressed(_, _)
Addressed(n, v) ==
  /\ v.type # "null"
  /\ v.type = "object" =>
       \A f \in DOMAIN v.fields :
         /\ describing(n, v, f) # {}
         /\ \A m \in describing(n, v, f) : Addressed(m, v.fields[f])
  /\ v.type = "array" /\ schemaNamed(n).items # Nothing =>
       \A i \in DOMAIN v.elems : Addressed(schemaNamed(n).items, v.elems[i])
-----------------------------------------------------------------------------
(***************************************************************************)
(* What the conversion knowingly gives up.  A document is regular when     *)
(* none of its schemas needs any of it.                                    *)
(***************************************************************************)
\* One type is named; no structure without a type.
Typed(n) ==
  LET s == schemaNamed(n) IN
  /\ Len(s.types) <= 1
  /\ s.types = <<>> =>
       s.properties = <<>> /\ s.items = Nothing /\ s.additional = "unsaid"

\* `additionalProperties: false` is not published.
Open(n) == schemaNamed(n).additional # "none"

choices(n) ==
  {withoutNullBranches(schemaNamed(n).oneOf), withoutNullBranches(schemaNamed(n).anyOf)}

unions(n) == {Range(u) : u \in {c \in choices(n) : Len(c) > 1}}

\* A union with a field is made an object: its branches are all objects, or
\* none has a field.
OneForm(n) ==
  \A u \in unions(n) :
    \/ \A b \in u : jsonSchemaFor(b).types = <<"object">>
    \/ \A b \in u : jsonSchemaFor(b).properties = <<>>

\* A branch is not itself a union: what is made of one may turn away what
\* only one of its branches describes.
Flat(n) ==
  \A u \in unions(n) : \A b \in u :
    jsonSchemaFor(b).oneOf = <<>> /\ jsonSchemaFor(b).anyOf = <<>>

RECURSIVE alike(_, _)
alike(p, q) == alikeBut(p, q, LAMBDA a, b : alike(a, b))

FieldsAlike(n) ==
  \A u \in unions(n) : \A b, c \in {jsonSchemaFor(m) : m \in u} :
    \A f \in DOMAIN b.properties \cap DOMAIN c.properties :
      alike(b.properties[f], c.properties[f])

\* Of what a schema, its allOf and a single branch say twice, one is taken.
merged(n) ==
  Range(schemaNamed(n).allOf) \cup UNION {Range(c) : c \in {d \in choices(n) : Len(d) = 1}}

StatedOnce(n) ==
  LET s == schemaNamed(n)
      own == [scalarFacets(s) EXCEPT !.properties = s.properties]
      parts == {own} \cup {jsonSchemaFor(m) : m \in merged(n)}
      fields == [x \in merged(n) \cup UNION unions(n) |-> DOMAIN jsonSchemaFor(x).properties]
  IN  /\ \A x \in DOMAIN fields : fields[x] \cap DOMAIN s.properties = {}
      /\ \A x \in merged(n), y \in DOMAIN fields : x = y \/ fields[x] \cap fields[y] = {}
      /\ \A key \in {"types", "enum", "min", "above", "items"} :
           Cardinality({p[key] : p \in parts} \ {AnySchema[key]}) <= 1
      /\ \A m \in merged(n) : jsonSchemaFor(m).oneOf = <<>> /\ jsonSchemaFor(m).anyOf = <<>>

\* The schemas at which the conversion of n stops.
RECURSIVE omittedIn(_, _)
omittedIn(path, n) ==
  IF n \in path \/ Cardinality(path) >= MaxDepth THEN {n}
  ELSE UNION {omittedIn(path \cup {n}, m) : m \in childrenOf(schemaNamed(n))}

Regular ==
  LET cut == UNION {omittedIn({}, n) : n \in componentsOf(text)}
  IN  /\ \A n \in componentsOf(text) :
           Typed(n) /\ Open(n) /\ OneForm(n) /\ Flat(n) /\ FieldsAlike(n) /\ StatedOnce(n)
      /\ \A n \in cut : schemaNamed(n).types = <<"object">>
      /\ cut # {} => \A n \in componentsOf(text) : schemaNamed(n).oneOf = <<>>

(***************************************************************************)
(* "The union has to describe everything any branch accepts": of a regular *)
(* document, what a body may be is never turned away by the schema that is *)
(* published, so that a client which validates can make every call.        *)
(***************************************************************************)
NothingRejected ==
  phase = "loaded" => \A n \in text.used : Regular =>
    LET published == jsonSchemaFor(n)
    IN  \A v \in Value : accepts(n, v) /\ Addressed(n, v) => accepts(published, v)

(***************************************************************************)
(* "Their intersection is exactly the constraint the document stated":     *)
(* merging the branches of a union for clients that do not know unions     *)
(* costs those that do nothing.  What is published accepts nothing else    *)
(* (an allOf's requirements beside a union and cut schemas apart), and     *)
(* every field a value may have is found in it.                            *)
(***************************************************************************)
Exact(n) ==
  LET s == schemaNamed(n) IN
  /\ omittedIn({}, n) = {}
  /\ s.oneOf # <<>> => withoutNullBranches(s.oneOf) # <<>>
  /\ s.anyOf # <<>> => withoutNullBranches(s.anyOf) # <<>>
  /\ unions(n) # {} =>
       /\ s.types \in {<<>>, <<"object">>}
       /\ \A m \in merged(n) : /\ jsonSchemaFor(m).types \in {<<>>, <<"object">>}
                               /\ jsonSchemaFor(m).required = {}

UnionsAreKept ==
  phase = "loaded" => \A n \in text.used : Regular =>
    LET published == jsonSchemaFor(n)
        exact == \A m \in componentsOf(text) : Exact(m)
    IN  \A v \in Value :
          /\ exact /\ accepts(published, v) => accepts(n, v)
          /\ accepts(n, v) /\ v.type = "object" =>
               {f \in DOMAIN v.fields : describing(n, v, f) # {}}
                 \subseteq DOMAIN published.properties

(***************************************************************************)
(* "Declaring the wrong shape is worse than declaring none, because a      *)
(* client that validates would reject every successful call": what a       *)
(* successful call may return is what the outputSchema accepts.            *)
(***************************************************************************)
OutputsConform ==
  phase = "loaded" =>
    \A success, other \in text.used :
      LET output == responseSchema(("200" :> success) @@ ("default" :> other))
      IN  output # Nothing =>
            \A v \in Value : accepts(success, v) => accepts(output, v)
=============================================================================
