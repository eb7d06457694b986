---------------------------- MODULE ToolArguments ----------------------------
(***************************************************************************)
(* How one operation of an OpenAPI document becomes a tool and a route:    *)
(* the argument names of internal/parser/parser.go (assignArgNames,        *)
(* addParameters, createRouteConfig, selectBodySchema).                    *)
(*                                                                         *)
(* Parameters are unique per location, tool arguments share one namespace  *)
(* with the request body, so a parameter may be renamed.  The parser works *)
(* the names out twice, for the published schema and for the route the     *)
(* request builder reads; the two have to agree.                           *)
(***************************************************************************)
EXTENDS Naturals, Sequences

CONSTANTS
  ParamName,        \* names in the document
  ArgName,          \* names of tool arguments
  BodyArg,          \* the argument that carries the request body
  NoArg,            \* not named yet
  Renamed(_, _, _), \* "<in>_<name>", for 1, and "<in>_<name>_<k>", for k > 1
  MaxSuffix,        \* bound: the largest k
  Operation         \* the operations of the document

Location == {"path", "query", "header", "cookie"}
Param    == [name : ParamName, in : Location]
Media    == {"json", "form", "multipart", "patch", "xml", "text"}
NoMedia  == "none"

ASSUME ArgumentsAssumption ==
  /\ ParamName \subseteq ArgName
  /\ BodyArg \in ArgName /\ NoArg \notin ArgName
  /\ MaxSuffix \in Nat \ {0}
  /\ \A in \in Location, n \in ParamName, k \in 1 .. MaxSuffix : Renamed(in, n, k) \in ArgName
  /\ Operation \subseteq
       [item : Seq(Param), own : Seq(Param),  \* of the path item, of the operation
        placeholders : SUBSET ParamName,      \* the {names} in the path
        method : {"GET", "POST", "PUT", "PATCH", "DELETE"},
        content : SUBSET Media,               \* the media types of its request body
        typed : SUBSET Media,                 \* those that have a schema
        accept : BOOLEAN]                     \* do its responses have a content type

VARIABLES
  stage,       \* how far the operation is: "naming", "routing", "published"
  op,          \* the operation being turned into a tool
  done,        \* declarations handled so far
  argName,     \* [Param -> its argument, or NoArg]
  route,       \* RouteConfig: its Params and BodyContentType
  schema       \* the argument names of the tool's input schema

argumentVars == <<stage, op, done, argName, route, schema>>

Config  == [name : ParamName, in : Location, arg : ArgName]
NoRoute == [params |-> {}, media |-> NoMedia]

\* operationParameters: the path item's declarations, then the operation's own.
operationParameters(o) == o.item \o o.own

declared(o) ==
  {operationParameters(o)[i] : i \in 1 .. Len(operationParameters(o))}

hasRequestBody(o) == o.content # {}

(***************************************************************************)
(* selectBodySchema: the three preferred types, then +json ones, then the  *)
(* rest by name.  bodyParameter records the choice for three methods only, *)
(* and only when it has a schema.                                          *)
(***************************************************************************)
mediaPreference == <<"json", "form", "multipart", "patch", "xml", "text">>

selectBodySchema(o) ==
  mediaPreference[CHOOSE i \in DOMAIN mediaPreference :
    /\ mediaPreference[i] \in o.content
    /\ \A j \in 1 .. (i - 1) : mediaPreference[j] \notin o.content]

bodyMedia(o) ==
  IF /\ o.method \in {"POST", "PUT", "PATCH"}
     /\ hasRequestBody(o) /\ selectBodySchema(o) \in o.typed
  THEN selectBodySchema(o)
  ELSE NoMedia
-----------------------------------------------------------------------------
ArgumentsInit ==
  /\ stage = "naming"
  /\ op \in Operation
  /\ done = 0
  /\ argName = [p \in Param |-> NoArg]
  /\ route = NoRoute
  /\ schema = {}

taken ==
  {argName[p] : p \in {q \in Param : argName[q] # NoArg}}
    \cup (IF hasRequestBody(op) THEN {BodyArg} ELSE {})

candidate(p, k) == IF k = 0 THEN p.name ELSE Renamed(p.in, p.name, k)

NameParamOnce(p) ==    \* mutant: the new name is not looked up again
  \E k \in {0, 1} :
    /\ k = 0 <=> p.name \notin taken
    /\ argName' = [argName EXCEPT ![p] = candidate(p, k)]

\* assignArgNames: the first candidate nobody has.
NameParam(p) ==
  \E k \in 0 .. MaxSuffix :
    /\ candidate(p, k) \notin taken
    /\ \A j \in 0 .. (k - 1) : candidate(p, j) \in taken
    /\ argName' = [argName EXCEPT ![p] = candidate(p, k)]

\* The next declaration: one of a name and location seen before replaces the
\* earlier one in its place, and is not named again.
AssignArgName ==
  /\ stage = "naming"
  /\ done < Len(operationParameters(op))
  /\ done' = done + 1
  /\ LET p == operationParameters(op)[done + 1]
     IN  IF argName[p] # NoArg THEN UNCHANGED argName ELSE NameParam(p)
  /\ UNCHANGED <<stage, op, route, schema>>

configs(argOf) ==
  {[name |-> p.name, in |-> p.in, arg |-> argOf[p]] : p \in declared(op)}

routeParamsByName ==    \* mutant: the route reads the document's names
  configs([p \in Param |-> p.name])

\* createRouteConfig: every declared parameter, and a path parameter for each
\* placeholder whose name is declared nowhere.
routeParams ==
  LET undeclared == {n \in op.placeholders : \A p \in declared(op) : p.name # n}
  IN  configs(argName)
        \cup {[name |-> n, in |-> "path", arg |-> n] : n \in undeclared}

CreateRouteConfigEarly ==    \* mutant: the route is made of what is named so far
  /\ stage = "naming" /\ stage' = "routing"
  /\ route' = [params |-> routeParams, media |-> NoMedia]
  /\ UNCHANGED <<op, done, argName, schema>>

CreateRouteConfig ==
  /\ stage = "naming" /\ stage' = "routing"
  /\ done = Len(operationParameters(op))
  /\ route' = [params |-> routeParams, media |-> NoMedia]
  /\ UNCHANGED <<op, done, argName, schema>>

(***************************************************************************)
(* generateTool: addParameters names the arguments again, from the same    *)
(* list and so the same way, and adds the placeholders the schema has not  *)
(* got; then the body, whose media type is recorded in the route.          *)
(***************************************************************************)
GenerateTool ==
  /\ stage = "routing" /\ stage' = "published"
  /\ route' = [route EXCEPT !.media = bodyMedia(op)]
  /\ schema' = {argName[p] : p \in declared(op)} \cup op.placeholders
                 \cup (IF bodyMedia(op) # NoMedia THEN {BodyArg} ELSE {})
  /\ UNCHANGED <<op, done, argName>>

ArgumentsStep == AssignArgName \/ CreateRouteConfig \/ GenerateTool

ArgumentsTypeOK ==
  /\ stage \in {"naming", "routing", "published"}
  /\ op \in Operation
  /\ done \in Nat /\ done <= Len(operationParameters(op))
  /\ argName \in [Param -> ArgName \cup {NoArg}]
  /\ route \in [params : SUBSET Config, media : Media \cup {NoMedia}]
  /\ schema \subseteq ArgName
-----------------------------------------------------------------------------
(***************************************************************************)
(* No argument stands for two things: two parameters never share a tool    *)
(* argument, and none has the name of the request body.                    *)
(***************************************************************************)
NamesAreApart ==
  /\ \A p \in Param : argName[p] # NoArg =>
       \A q \in Param \ {p} : argName[p] # argName[q]
  /\ hasRequestBody(op) => \A p \in Param : argName[p] # BodyArg

(***************************************************************************)
(* The two passes agree: what the tool says it takes is what the request   *)
(* builder will accept (refuseUndeclared turns everything else away).  A   *)
(* placeholder called like the body is left out: the schema lists it even  *)
(* where its argument has another name.                                    *)
(***************************************************************************)
accepted ==
  {c.arg : c \in route.params} \cup (IF route.media # NoMedia THEN {BodyArg} ELSE {})

SchemaIsAccepted ==
  stage = "published" /\ BodyArg \notin op.placeholders => schema = accepted
=============================================================================
