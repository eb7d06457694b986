--------------------------- MODULE RoutingContract --------------------------
(***************************************************************************)
(* What routing promises to callers while the configuration is reloaded:   *)
(* the configuration changes in one step, every request is answered in one *)
(* step from the configuration of that moment, and every request is        *)
(* answered.  One exception: a reload that brings in a service without a   *)
(* name, which answers on every path, may tear requests that are under     *)
(* way, and a torn request can still be answered only on a path that is    *)
(* configured by name.  ServiceRouting implements it.                      *)
(***************************************************************************)
CONSTANTS Name, Unnamed, Client

VARIABLES
  conf,      \* the names that are configured
  path,      \* [Client -> the name in the URL]
  asking,    \* [Client -> is a request under way]
  torn,      \* the clients whose request a reload has torn
  answer     \* [Client -> the last answer, "none" while asking]

vars == <<conf, path, asking, torn, answer>>

Init ==
  /\ conf = {}
  /\ path = [c \in Client |-> Unnamed]
  /\ asking = [c \in Client |-> FALSE]
  /\ torn = {}
  /\ answer = [c \in Client |-> "none"]

Tearable == {c \in Client : asking[c]}

Reconfigure ==
  /\ conf' \in (SUBSET Name) \ {{}}
  /\ torn' \subseteq IF Unnamed \in conf' \ conf THEN torn \cup Tearable ELSE torn
  /\ UNCHANGED <<path, asking, answer>>

Ask(c, name) ==
  /\ ~asking[c] /\ conf # {}
  /\ path' = [path EXCEPT ![c] = name]
  /\ asking' = [asking EXCEPT ![c] = TRUE]
  /\ answer' = [answer EXCEPT ![c] = "none"]
  /\ UNCHANGED <<conf, torn>>

\* The path of a torn request is configured after all.
Mend(c) ==
  /\ path[c] \in conf
  /\ torn' = torn \ {c}
  /\ UNCHANGED <<conf, path, asking, answer>>

Answered(c) == path[c] \in conf \/ (Unnamed \in conf /\ c \notin torn)

Respond(c) ==
  /\ asking[c]
  /\ asking' = [asking EXCEPT ![c] = FALSE]
  /\ torn' = torn \ {c}
  /\ answer' = [answer EXCEPT ![c] = IF Answered(c) THEN "served" ELSE "refused"]
  /\ UNCHANGED <<conf, path>>

Next ==
  \/ Reconfigure
  \/ \E c \in Client : Respond(c) \/ Mend(c) \/ \E name \in Name : Ask(c, name)

Spec == Init /\ [][Next]_vars /\ \A c \in Client : WF_vars(Respond(c))
=============================================================================
