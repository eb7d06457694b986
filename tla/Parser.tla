-------------------------------- MODULE Parser --------------------------------
(***************************************************************************)
(* A parse from the files to the tools: SwaggerParser.Init in              *)
(* internal/parser/parser.go.  DocumentLoad reads the document, ToolNames  *)
(* makes a tool of each operation, SchemaConversion gives the schemas.  A  *)
(* reload starts again with a new parser; a document that is refused has   *)
(* none (to ServiceRegistry the service is Unbuildable).                   *)
(***************************************************************************)
EXTENDS ToolNames, SchemaConversion

CONSTANTS
  Source,        \* what a parser is given: both files and the lenient flag
  Rewritten(_)   \* bound: what a source may be when it is read again

parserVars == <<vars, loadVars>>

ParserInit ==
  /\ \E s \in Source : /\ origin = s.text /\ lenient = s.lenient
                       /\ doc = s.operations /\ adjustments = s.adjustments
  /\ Init /\ LoadInit

source == [text |-> origin, lenient |-> lenient, operations |-> doc,
           adjustments |-> adjustments]

\* Both files are read again; the flag is the process's.
NewParser ==
  /\ phase = "loaded"
  /\ \E s \in Rewritten(source) :
       /\ origin' = s.text /\ doc' = s.operations /\ adjustments' = s.adjustments
       /\ s.lenient = lenient /\ lenient' = lenient
  /\ Reparse
  /\ text' = origin' /\ phase' = "probe" /\ renames' = <<>> /\ notices' = {}

Load == LoadStep /\ UNCHANGED vars

ProcessOperation ==
  /\ phase = "loaded"
  /\ \E o \in todo : processOperation(o)
  /\ UNCHANGED loadVars

Refused == phase = "refused" /\ UNCHANGED parserVars

ParserNext == Load \/ ProcessOperation \/ NewParser \/ Refused

ParserSpec == ParserInit /\ [][ParserNext]_parserVars
=============================================================================
