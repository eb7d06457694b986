------------------------------- MODULE MCParser -------------------------------
(***************************************************************************)
(* Instances of Parser: services whose operations ask for the same names,  *)
(* documents that lenient mode can and cannot repair, and documents with   *)
(* every pair of branches in every kind of union.                          *)
(***************************************************************************)
EXTENDS Parser

N(stem, suffixes) == [stem |-> stem, suffixes |-> suffixes]

\* "find it" and "find_it" are one name, "查询" leaves nothing.
MCSanitized ==
  ("find" :> N("find", <<>>)) @@ ("find!" :> N("find", <<>>))
    @@ ("find_2" :> N("find", <<2>>)) @@ ("opaque" :> Unset)

MCFromSummary == ("Find" :> N("find", <<>>)) @@ ("Opaque" :> Unset)

\* /a/b and /a_b have one method_path name.
MCPathName ==
  [p \in Path |-> [m \in Method |-> N(IF m = "GET" THEN "get_path" ELSE "post_path", <<>>)]]

MCRank == ("/a/b" :> 0) @@ ("/a_b" :> 1)

O(path, method, id, summary) ==
  [path |-> path, method |-> method, operationId |-> id, summary |-> summary,
   description |-> IF summary = Unset THEN "Opaque" ELSE Unset]

\* Of each of the four operations what may be written in a document.
Variants(path, method) ==
  {O(path, method, id, summary) :
     id \in {"find", "find_2", "opaque"}, summary \in {"Find", Unset}}

MCDocuments ==
  {{a, b, c} : a \in Variants("/a/b", "GET"),
               b \in {O("/a/b", "POST", "find", Unset), O("/a/b", "POST", "find_2", "Find")},
               c \in {O("/a_b", "GET", id, Unset) : id \in {"find", Unset}}}
  \cup {{a, c} : a \in {O("/a/b", "GET", "find_2", "Find")}, c \in Variants("/a_b", "GET")}

U(method, name, description) == [method |-> method, name |-> name, description |-> description]
Block(path, updates) == [path |-> path, updates |-> updates]
R(path, methods) == [path |-> path, methods |-> methods]

MCCurations ==
  {NoAdjustments,
   \* A second block of one path: its name counts, its description does not.
   [descriptions |-> <<Block("/a/b", <<U("GET", Unset, "Find")>>),
                       Block("/a/b", <<U("GET", "find!", "Opaque")>>)>>,
    routes |-> <<R("/a/b", {"GET", "POST"}), R("/a_b", {"GET"})>>,
    responses |-> <<>>],
   [descriptions |-> <<Block("/a_b", <<U("POST", "opaque", Unset), U("GET", "find_2", "Find")>>)>>,
    routes |-> <<>>,
    responses |-> <<Block("/a/b", <<[method |-> "POST", template |-> "trim"]>>)>>],
   [descriptions |-> <<Block("/a/b", <<U("POST", "find", "Opaque")>>)>>,
    routes |-> <<R("/a/b", {"POST"}), R("/a_b", {"GET"})>>,
    responses |-> <<Block("/a_b", <<[method |-> "GET", template |-> Unset]>>)>>]}
-----------------------------------------------------------------------------
CONSTANTS root, left, right, str, red, blue, num, pos, nil, chinese, hanzi, r1, r2, r3

String(t) == [type |-> "string", text |-> t]
Number(k) == [type |-> "number", num |-> k]
Null      == [type |-> "null"]
List(s)   == [type |-> "array", elems |-> s]
Object(f) == [type |-> "object", fields |-> f]
Red  == String("red")
Blue == String("blue")

Of(type) == [AnySchema EXCEPT !.types = <<type>>]
Record(fields, required) ==
  [Of("object") EXCEPT !.properties = fields, !.required = required]
OneOf(s) == [AnySchema EXCEPT !.oneOf = s]
AnyOf(s) == [AnySchema EXCEPT !.anyOf = s]

Leaves ==
  (str :> Of("string")) @@ (red :> [Of("string") EXCEPT !.enum = {Red}])
    @@ (blue :> [AnySchema EXCEPT !.enum = {Blue}])
    @@ (num :> [Of("number") EXCEPT !.min = 0])
    @@ (pos :> [Of("number") EXCEPT !.min = 0, !.flag = TRUE])
    @@ (nil :> Of("null"))

Branches ==
  {Record("kind" :> red, {"kind"}),
   Record(("kind" :> blue) @@ ("a" :> str), {"kind"}),
   Record(("kind" :> str) @@ ("a" :> num), {"a"}),
   Record("a" :> pos, {}),
   [Record("a" :> str, {}) EXCEPT !.additional = "none"],
   [Record("a" :> str, {}) EXCEPT !.additional = "any"],
   Record("next" :> root, {}),
   Of("string"), Of("null"),
   [Of("number") EXCEPT !.above = 0],
   [Of("array") EXCEPT !.items = str],
   [Of("string") EXCEPT !.types = <<"string", "null">>]}

Roots ==
  {OneOf(<<left, right>>), AnyOf(<<left, right>>), OneOf(<<left, right, nil>>),
   AnyOf(<<nil, left>>),
   [AnySchema EXCEPT !.allOf = <<left, right>>],
   [Record("kind" :> str, {"kind"}) EXCEPT !.allOf = <<left>>],
   [AnyOf(<<right, nil>>) EXCEPT !.allOf = <<left>>],
   [OneOf(<<left, right>>) EXCEPT !.allOf = <<num>>],
   [AnyOf(<<left, right>>) EXCEPT !.oneOf = <<str, nil>>],
   Record(("kind" :> left) @@ ("a" :> right), {}),
   [Of("array") EXCEPT !.items = left]}

Section(c) == [n \in Name |-> IF n \in DOMAIN c THEN c[n] ELSE Nothing]

Plain ==
  [decodes |-> TRUE, swagger |-> "none", openapi |-> "3.1",
   components |-> Section(Leaves), used |-> {}, inside |-> {},
   listInData |-> FALSE, badExample |-> FALSE, flawed |-> FALSE]

\* Unions whose branches are unions of objects without a common field.
Nested ==
  {[Plain EXCEPT !.components =
      Section((root :> AnyOf(<<left, right>>)) @@ (left :> AnyOf(<<r1, r2>>))
                @@ (right :> AnyOf(<<r3, pos>>))
                @@ (r1 :> Record("kind" :> red, {})) @@ (r2 :> Record("a" :> blue, {}))
                @@ (r3 :> Record("a" :> red, {})) @@ (pos :> Record("kind" :> blue, {}))
                @@ Leaves),
                 !.used = {root}]}

Unions ==
  {[Plain EXCEPT !.components = Section((root :> t) @@ (left :> l) @@ (right :> r) @@ Leaves),
                 !.used = {root}] : l \in Branches, r \in Branches, t \in Roots}
  \cup Nested

\* A list is what a call returns, an error what it returns otherwise.
Answers ==
  {[Plain EXCEPT !.components = Section((left :> [Of("array") EXCEPT !.items = str])
                                    @@ (right :> Record("kind" :> str, {"kind"})) @@ Leaves),
                 !.used = {left, right}]}

MCValue ==
  LET fields == UNION {[s -> {Red, Blue, Number(1)}] : s \in SUBSET {"kind", "a"}}
      flat == {Object(f) : f \in fields}
      scalars == {Red, Blue, Number(0), Number(1)}
  IN  flat \cup scalars
        \cup {Null, List(<<>>), List(<<Red>>), List(<<Red, Number(1)>>), List(<<Null>>)}
        \cup {Object("a" :> Null), Object("a" :> Number(0)), Object("kind" :> List(<<Red>>))}
        \cup {Object("next" :> v) : v \in scalars \cup flat}
        \cup {Object(("kind" :> v) @@ ("a" :> w)) : v \in flat, w \in {Red} \cup flat}
        \cup {List(<<v>>) : v \in flat}

\* Names that conflict with each other's replacements, and references among
\* them; with a type that only 3.1 has or without.
Renamings ==
  {(chinese :> Record("a" :> hanzi, {})) @@ (hanzi :> Of("string")),
   (chinese :> Record("a" :> hanzi, {})) @@ (hanzi :> Of("null")) @@ (r1 :> Of("number")),
   (chinese :> Record("a" :> r1, {})) @@ (r1 :> OneOf(<<chinese, hanzi>>))
     @@ (hanzi :> Of("string")),
   (r1 :> OneOf(<<r2, r3>>)) @@ (r2 :> Of("string")) @@ (r3 :> Of("null")),
   (chinese :> Record("a" :> left, {})) @@ (r2 :> Of("string"))}

Repairs ==
  {[Plain EXCEPT !.openapi = version, !.components = Section(c),
                 !.used = DOMAIN c \cap {chinese, r2},
                 !.inside = {chinese} \cap in, !.listInData = data, !.badExample = example,
                 !.flawed = flaw] :
     version \in {"3.0", "3.1"}, c \in Renamings, in \in {{}, {chinese}},
     data \in BOOLEAN, example \in BOOLEAN, flaw \in BOOLEAN}
  \cup {[Plain EXCEPT !.swagger = s, !.openapi = v, !.decodes = d, !.flawed = f] :
          s \in {"none", "2.0", "other"}, v \in {"none", "3.0", "other"},
          d \in BOOLEAN, f \in BOOLEAN}

S(texts, flags, operations, curations) ==
  {[text |-> t, lenient |-> l, operations |-> o, adjustments |-> c] :
     t \in texts, l \in flags, o \in operations, c \in curations}

Naming  == S({Plain}, {FALSE}, MCDocuments, MCCurations)
Loading == S(Repairs, BOOLEAN, {{}, {O("/a_b", "GET", "find", Unset)}}, {NoAdjustments})
Typing  == S(Unions, {FALSE}, {{}}, {NoAdjustments})

MCSource == Naming \cup Loading \cup Typing
AnswerSource == S(Answers, {FALSE}, {{}}, {NoAdjustments})
MCFiles == {s.text : s \in MCSource \cup AnswerSource}

\* Operations and curation change at will, the other documents stay.
MCRewritten(s) == IF s \in Naming THEN Naming ELSE {s}

AllDocuments == MCDocuments \cup {{}, {O("/a_b", "GET", "find", Unset)}}

MCConformant == Name \ {chinese, hanzi}

\* The two names have one hash.
MCNameCandidate(n, i) == <<r1, r2, r3>>[i]

MCNameRank ==
  LET order == <<blue, chinese, hanzi, left, nil, num, pos, r1, r2, r3, red, right, root, str>>
  IN  [n \in Name |-> CHOOSE i \in DOMAIN order : order[i] = n]

\* Of the documents, as they are and with their references rewritten.
MCSchemaOf ==
  LET sections == {d.components : d \in MCFiles}
      schemas  == UNION {Range(c) : c \in sections} \ {Nothing}
      renamings == {[m \in Name |-> CASE m = chinese -> c [] m = hanzi -> h [] OTHER -> m] :
                      c \in {chinese, r1, r2, r3}, h \in {hanzi, r1, r2, r3}}
  IN  schemas \cup {readdressed(s, f) : s \in schemas, f \in renamings}
=============================================================================
