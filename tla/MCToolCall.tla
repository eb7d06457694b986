----------------------------- MODULE MCToolCall -----------------------------
(***************************************************************************)
(* Every way to configure one scheme per direction, with credentials that  *)
(* are written out, read from a variable, or missing; in environments where*)
(* the variable is set, empty or not set.  Tools are varied under one of   *)
(* the configurations, because they do not depend on each other.           *)
(***************************************************************************)
EXTENDS ToolCall, TLC

Requirements(id, credentials) ==
  {None} \cup [id : {id}, credential : credentials, passthrough : BOOLEAN]

PlainTool == [outputSchema |-> TRUE, body |-> "none", errorBody |-> "none", wraps |-> FALSE]

Schemes(in, out) ==
  {[id \in {"in", "out"} |-> IF id = "in" THEN a ELSE b] :
     a \in [place : {"bearer"}, default : in],
     b \in [place : {"header", "unsupported"}, default : out]}

Guarded(discovered) ==
  [mode : {"stdio", "http"}, public : BOOLEAN, oauth : BOOLEAN,
   schemes : Schemes({"s1", Blank}, {"ref", Blank}),
   downstream : Requirements("in", {"ref", Blank}),
   upstream : Requirements("out", {"s2", "ref", Blank})
                \cup Requirements("gone", {"s2"}),
   discovered : discovered, tool : {PlainTool}]

Shaped ==
  [mode : {"stdio"}, public : {FALSE}, oauth : {FALSE}, schemes : Schemes({"s1"}, {"s2"}),
   downstream : {None}, upstream : {None}, discovered : {FALSE}, tool : Tool]

FromConfigFile == Guarded({FALSE}) \cup Shaped
FromDirectory  == Guarded({TRUE})

MCEnvironments == [{"ref"} -> {"s3", Blank, Undefined}]

MCPresentable == [place : {"bearer", "header", "token"}, value : {"s1", "s3", Blank}]
=============================================================================
