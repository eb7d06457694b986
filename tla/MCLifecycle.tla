----------------------------- MODULE MCLifecycle -----------------------------
(***************************************************************************)
(* Instances of Lifecycle: one explicit service, whose document is edited, *)
(* broken and removed while the process serves it on each transport.       *)
(***************************************************************************)
EXTENDS Lifecycle, TLC

CONSTANTS old, new, list, book, cancel

MCToolsOf == (old :> {list, book}) @@ (new :> {list, cancel})

StartingDisks == [Entry -> {old}]
=============================================================================
