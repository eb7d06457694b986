-------------------------- MODULE MCServiceRouting --------------------------
(***************************************************************************)
(* Instances of ServiceRouting.  Two documents: a rename of one operation  *)
(* and one that both have, so that tools go, stay and are replaced.        *)
(***************************************************************************)
EXTENDS ServiceRouting, TLC

CONSTANTS old, new, list, book, cancel

MCToolsOf == (old :> {list, book}) @@ (new :> {list, cancel})

\* A working directory: any number of its services are there already.
WorkingDisks ==
  {d \in [Entry -> {old, Missing}] :
     \A e \in Entry : e.origin # "discovered" => d[e] = old}
=============================================================================
