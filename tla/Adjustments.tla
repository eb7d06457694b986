----------------------------- MODULE Adjustments -----------------------------
(***************************************************************************)
(* The adjustments file, by which people curate a document: which routes   *)
(* become tools, under which name, description and response template.      *)
(* internal/models/adjustments.go (what is in it) and the lookups of       *)
(* internal/parser/adjuster.go.                                            *)
(*                                                                         *)
(* The file is a list of blocks, one per path, written by hand or by the   *)
(* config builder: nothing forbids two blocks of one path or two updates   *)
(* of one method, so which one a lookup finds is part of the model.        *)
(* Methods compare without case: a method here is its folded form.         *)
(***************************************************************************)
EXTENDS Naturals, Sequences

CONSTANTS
  Path, Method,
  Raw,          \* names as people and documents write them
  Text,         \* descriptions and summaries
  Template,     \* response templates that are Configured()
  Unset         \* Go's "", or nil

ASSUME UnsetAssumption == Unset \notin Raw \cup Text \cup Template

Update == [method : Method, name : Raw \cup {Unset}, description : Text \cup {Unset}]
Shape  == [method : Method, template : Template \cup {Unset}]

MCPAdjustments ==
  [descriptions : Seq([path : Path, updates : Seq(Update)]),
   routes       : Seq([path : Path, methods : SUBSET Method]),
   responses    : Seq([path : Path, updates : Seq(Shape)])]

\* NewAdjuster, and an adjustments file that is not there.
NoAdjustments == [descriptions |-> <<>>, routes |-> <<>>, responses |-> <<>>]
-----------------------------------------------------------------------------
\* The updates of a method of a path, by block and position in the block.
updatesOf(blocks, o) ==
  UNION {{<<i, j>> : j \in {k \in DOMAIN blocks[i].updates :
                              blocks[i].updates[k].method = o.method}} :
           i \in {k \in DOMAIN blocks : blocks[k].path = o.path}}

earliest(positions) ==
  CHOOSE p \in positions :
    \A q \in positions : p[1] < q[1] \/ (p[1] = q[1] /\ p[2] <= q[2])

firstBlock(blocks, o) ==
  CHOOSE i \in DOMAIN blocks :
    blocks[i].path = o.path /\ \A k \in 1 .. (i - 1) : blocks[k].path # o.path

\* No selection selects everything; of two blocks of a path the first counts.
ExistsInMCP(a, o) ==
  \/ a.routes = <<>>
  \/ /\ \E i \in DOMAIN a.routes : a.routes[i].path = o.path
     /\ o.method \in a.routes[firstBlock(a.routes, o)].methods

\* The first update that has a name, in whichever block.
GetName(a, o) ==
  LET named == {p \in updatesOf(a.descriptions, o) :
                  a.descriptions[p[1]].updates[p[2]].name # Unset}
      p == earliest(named)
  IN  IF named = {} THEN Unset ELSE a.descriptions[p[1]].updates[p[2]].name

\* The first update in the first block of the path, whether it has a
\* description or only a name: then there is none.
GetDescription(a, o, original) ==
  LET own == {p \in updatesOf(a.descriptions, o) : p[1] = firstBlock(a.descriptions, o)}
      p == earliest(own)
  IN  IF own = {} THEN original ELSE a.descriptions[p[1]].updates[p[2]].description

GetResponseTemplateOfPath(a, o) ==    \* mutant: the method is not compared
  IF \E i \in DOMAIN a.responses : a.responses[i].path = o.path
  THEN a.responses[firstBlock(a.responses, o)].updates[1].template ELSE Unset

GetResponseTemplate(a, o) ==
  LET own == updatesOf(a.responses, o)
      p == earliest(own)
  IN  IF own = {} THEN Unset ELSE a.responses[p[1]].updates[p[2]].template
=============================================================================
