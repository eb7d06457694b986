--------------------------- MODULE MCConfigBuilder ---------------------------
(***************************************************************************)
(* Two routes of one path, of which one is removed and one described       *)
(* already in the file the builder may be started with.                    *)
(***************************************************************************)
EXTENDS ConfigBuilder, TLC

MCRoute(path, method) == [path |-> path, method |-> method, description |-> "original"]

TwoRoutes == <<MCRoute("/a", "GET"), MCRoute("/a", "POST")>>

MCOpened ==
  {NoAdjustments,
   [descriptions |-> <<[path |-> "/a", updates |-> <<[method |-> "POST", name |-> Unset,
                                                       description |-> "edited"]>>]>>,
    routes |-> <<[path |-> "/a", methods |-> {"POST"}]>>,
    responses |-> <<>>]}

PostOnly == {{r \in AllRoutes : r.method = "POST"}}
=============================================================================
