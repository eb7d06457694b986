------------------------------ MODULE ToolNames ------------------------------
(***************************************************************************)
(* From a document to a list of tools: processOperations, generateTool and *)
(* the naming of tools in internal/parser/parser.go, run again with a new  *)
(* parser on every reload.                                                 *)
(*                                                                         *)
(* Names come from four places (the adjustments, the operationId, the      *)
(* summary, method and path) that may produce the same one; a taken name   *)
(* gets a numeric suffix, which may itself be a name of somebody else.     *)
(***************************************************************************)
EXTENDS Adjustments, FiniteSets

CONSTANTS
  Stem,                \* names up to their numeric suffixes
  sanitizeToolName,    \* [Raw -> ToolName, or Unset when nothing is left]
  nameFromSummary,     \* [Text -> ToolName, or Unset]
  pathName,            \* [Path -> [Method -> ToolName]]: "<method>_<path>"
  rank,                \* [Path -> Nat]: the order of sort.Strings
  Documents,           \* the documents the service may have: sets of operations
  Curations            \* the adjustments files it may have

\* "a_2_3" is the stem a with the suffixes 2 and 3.
ToolName == [stem : Stem, suffixes : Seq(Nat)]

Operation == [path : Path, method : Method, operationId : Raw \cup {Unset},
              summary : Text \cup {Unset}, description : Text \cup {Unset}]

\* The order in which the operations of one path are looked at.
methodOrder == <<"GET", "POST", "PUT", "DELETE", "PATCH">>

ASSUME ToolNamesAssumption ==
  /\ Unset \notin ToolName
  /\ sanitizeToolName \in [Raw -> ToolName \cup {Unset}]
  /\ nameFromSummary \in [Text -> ToolName \cup {Unset}]
  /\ pathName \in [Path -> [Method -> ToolName]]
  /\ rank \in [Path -> Nat] /\ \A p, q \in Path : rank[p] = rank[q] => p = q
  /\ Method \subseteq {methodOrder[i] : i \in DOMAIN methodOrder}
  /\ \A d \in Documents :
       /\ d \subseteq Operation
       /\ \A o, q \in d : o.path = q.path /\ o.method = q.method => o = q
  /\ Curations \subseteq MCPAdjustments

VARIABLES
  doc,            \* p.doc: a Go map of paths, hence a set
  adjustments,    \* p.adjuster
  todo,           \* the operations the loop has not come to
  usedToolNames,  \* names given out
  routeTools,     \* what is published so far
  previous        \* history: the last finished parse

vars == <<doc, adjustments, todo, usedToolNames, routeTools, previous>>

RouteTool == [op : Operation, name : ToolName, description : Text \cup Operation,
              template : Template \cup {Unset}]

NoParse == [doc |-> {}, adjustments |-> NoAdjustments, tools |-> <<>>]

TypeOK ==
  /\ doc \in Documents /\ adjustments \in Curations
  /\ todo \subseteq doc
  /\ usedToolNames \subseteq ToolName
  /\ routeTools \in Seq(RouteTool)

Init ==
  /\ doc \in Documents /\ adjustments \in Curations
  /\ todo = doc
  /\ usedToolNames = {}
  /\ routeTools = <<>>
  /\ previous = NoParse
-----------------------------------------------------------------------------
suffixed(base, i) == [stem |-> base.stem, suffixes |-> Append(base.suffixes, i)]

uniqueToolNameOnce(base) ==    \* mutant: the suffix is not looked up
  IF base \notin usedToolNames THEN base ELSE suffixed(base, 2)

\* The first number that gives a free name: among one more than there are
\* names, one is free.
uniqueToolName(base) ==
  IF base \notin usedToolNames THEN base
  ELSE suffixed(base, CHOOSE i \in 2 .. (Cardinality(usedToolNames) + 2) :
         /\ suffixed(base, i) \notin usedToolNames
         /\ \A j \in 2 .. (i - 1) : suffixed(base, j) \in usedToolNames)

curatedName(o) ==
  IF GetName(adjustments, o) = Unset THEN Unset
  ELSE sanitizeToolName[GetName(adjustments, o)]

fromId(o)      == IF o.operationId = Unset THEN Unset ELSE sanitizeToolName[o.operationId]
fromSummary(o) == IF o.summary = Unset THEN Unset ELSE nameFromSummary[o.summary]

preferredName(o) ==
  IF curatedName(o) # Unset THEN curatedName(o)
  ELSE IF fromId(o) # Unset THEN fromId(o)
  ELSE IF fromSummary(o) # Unset THEN fromSummary(o)
  ELSE pathName[o.path][o.method]

\* createRouteConfig, then toolDescription: the operation itself stands for
\* the last resort, "<METHOD> <path>".
toolDescription(o) ==
  LET desc == IF o.description # Unset THEN o.description ELSE o.summary
      described == GetDescription(adjustments, o, desc)
  IN  IF described # Unset THEN described
      ELSE IF o.summary # Unset THEN o.summary ELSE o

generateTool(o) ==
  [op |-> o, name |-> uniqueToolName(preferredName(o)), description |-> toolDescription(o),
   template |-> GetResponseTemplate(adjustments, o)]

methodRank(m) == CHOOSE i \in DOMAIN methodOrder : methodOrder[i] = m

precedes(o, q) ==
  \/ rank[o.path] < rank[q.path]
  \/ o.path = q.path /\ methodRank(o.method) < methodRank(q.method)

isNextByRange(o) == o \in todo    \* mutant: the map is ranged over

isNext(o) == o \in todo /\ \A q \in todo : q = o \/ precedes(o, q)

\* One round of the loop.
processOperation(o) ==
  /\ isNext(o)
  /\ todo' = todo \ {o}
  /\ IF ExistsInMCP(adjustments, o)
       THEN /\ routeTools' = Append(routeTools, generateTool(o))
            /\ usedToolNames' = usedToolNames \cup {generateTool(o).name}
       ELSE UNCHANGED <<routeTools, usedToolNames>>
  /\ UNCHANGED <<doc, adjustments, previous>>

ReparseOldPaths ==    \* mutant: the loop still runs over the old document's paths
  /\ todo = {}
  /\ previous' = [doc |-> doc, adjustments |-> adjustments, tools |-> routeTools]
  /\ doc' \in Documents /\ adjustments' \in Curations
  /\ todo' = doc
  /\ usedToolNames' = {}
  /\ routeTools' = <<>>

ReparseKeepingNames ==    \* mutant: usedToolNames outlives the parse
  /\ todo = {}
  /\ previous' = [doc |-> doc, adjustments |-> adjustments, tools |-> routeTools]
  /\ doc' \in Documents /\ adjustments' \in Curations
  /\ todo' = doc'
  /\ routeTools' = <<>>
  /\ UNCHANGED usedToolNames

\* A reload reads both files again, with a parser of its own.
Reparse ==
  /\ todo = {}
  /\ previous' = [doc |-> doc, adjustments |-> adjustments, tools |-> routeTools]
  /\ doc' \in Documents /\ adjustments' \in Curations
  /\ todo' = doc'
  /\ usedToolNames' = {}
  /\ routeTools' = <<>>

Next == Reparse \/ \E o \in todo : processOperation(o)

Spec == Init /\ [][Next]_vars
-----------------------------------------------------------------------------
tools == {routeTools[i] : i \in DOMAIN routeTools}

(***************************************************************************)
(* No tool is lost behind another: whatever the four sources and their     *)
(* suffixes produce, two tools never have one name.                        *)
(***************************************************************************)
NamesAreUnique ==
  \A i, j \in DOMAIN routeTools : routeTools[i].name = routeTools[j].name => i = j

(***************************************************************************)
(* A suffix is the exception: a tool has the name its operation asks for,  *)
(* the curated one first, unless a tool before it has that name.           *)
(***************************************************************************)
SuffixOnlyOnClash ==
  \A i \in DOMAIN routeTools :
    \/ routeTools[i].name = preferredName(routeTools[i].op)
    \/ \E j \in 1 .. (i - 1) : routeTools[j].name = preferredName(routeTools[i].op)

(***************************************************************************)
(* An unchanged service publishes an unchanged list: the same names in the *)
(* same order, although the paths are in a Go map.                         *)
(***************************************************************************)
SameInputSameTools ==
  todo = {} /\ doc = previous.doc /\ adjustments = previous.adjustments
    => routeTools = previous.tools

(***************************************************************************)
(* What was curated is what is published.  For a file without repeated     *)
(* blocks or updates: the tools are the selected operations, each with the *)
(* template of its update, the description of an update that has one, else *)
(* the document's where there is no update, and the name of its update     *)
(* where that is a name and no other tool has it.                          *)
(***************************************************************************)
Unambiguous(blocks) ==
  /\ \A i, j \in DOMAIN blocks : blocks[i].path = blocks[j].path => i = j
  /\ \A i \in DOMAIN blocks : \A j, k \in DOMAIN blocks[i].updates :
       blocks[i].updates[j].method = blocks[i].updates[k].method => j = k

given(blocks, o) ==
  {u \in UNION {{b.updates[j] : j \in DOMAIN b.updates} :
                  b \in {blocks[i] : i \in {k \in DOMAIN blocks : blocks[k].path = o.path}}} :
     u.method = o.method}

selected(o) ==
  \/ adjustments.routes = <<>>
  \/ \E i \in DOMAIN adjustments.routes :
       adjustments.routes[i].path = o.path /\ o.method \in adjustments.routes[i].methods

CurationIsApplied ==
  /\ Unambiguous(adjustments.descriptions) /\ Unambiguous(adjustments.responses)
  /\ \A i, j \in DOMAIN adjustments.routes :
       adjustments.routes[i].path = adjustments.routes[j].path => i = j
  =>
  /\ {t.op : t \in tools} = {o \in doc \ todo : selected(o)}
  /\ \A t \in tools :
       /\ \A u \in given(adjustments.descriptions, t.op) :
            u.description # Unset => t.description = u.description
       /\ given(adjustments.descriptions, t.op) = {} /\ t.op.description # Unset
            => t.description = t.op.description
       /\ {t.template} \ {Unset} =
            {u.template : u \in given(adjustments.responses, t.op)} \ {Unset}
       /\ \A u \in given(adjustments.descriptions, t.op) :
            u.name # Unset /\ sanitizeToolName[u.name] # Unset =>
              \/ t.name = sanitizeToolName[u.name]
              \/ \E other \in tools \ {t} : other.name = sanitizeToolName[u.name]
=============================================================================
