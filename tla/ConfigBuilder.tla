---------------------------- MODULE ConfigBuilder ----------------------------
(***************************************************************************)
(* mcp-config-builder, the terminal program that writes adjustments files: *)
(* internal/tui (app, main page, route list, description editor, export    *)
(* page) and cmd/mcp-config-builder.                                       *)
(*                                                                         *)
(* The program is a bubbletea loop: keys change the model at once, while   *)
(* what a command produces (a page change, the matches of a filter, the    *)
(* end of the program) arrives as a message after any number of further    *)
(* keys, and at whichever page is active then.  The list component is      *)
(* bubbles/list: under a filter it shows copies of the matching items, its *)
(* Index() counts those, and SetItem() counts all items.                   *)
(***************************************************************************)
EXTENDS Adjustments, SequencesExt

CONSTANTS
  RouteConfigs,   \* the document's routes, in order
  Opened,         \* adjustments files the program may be started with
  Terms,          \* what may be typed as a filter: the routes it matches
  Drafts          \* what may be typed as a description

Route == [path : Path, method : Method, description : Text]

ASSUME BuilderAssumption ==
  /\ RouteConfigs \in Seq(Route)
  /\ \A i, j \in DOMAIN RouteConfigs :
       /\ RouteConfigs[i].path = RouteConfigs[j].path
       /\ RouteConfigs[i].method = RouteConfigs[j].method => i = j
  /\ Opened \subseteq MCPAdjustments
  /\ Terms \subseteq SUBSET {RouteConfigs[i] : i \in DOMAIN RouteConfigs}
  /\ Drafts \subseteq Text \cup {Unset}

VARIABLES
  page,         \* "main", "list", "export"; "quit" when the program is over
  items,        \* all RouteToolItems
  filterState,  \* "unfiltered", "filtering" (typing a term), "applied"
  term,         \* the filter input; all routes when it is empty
  filtered,     \* copies of the items that matched
  editIndex,    \* the item the description editor is open on, or 0
  exportView,   \* the items the export page holds, while it is open
  messages,     \* page changes under way
  filtering,    \* a filter command under way: "none", "running", "matched"
  matches,      \* and what it found
  file          \* the file written

filterVars == <<filterState, term, filtered, filtering, matches>>
vars == <<page, items, filterVars, editIndex, exportView, messages, file>>

AllRoutes == {RouteConfigs[i] : i \in DOMAIN RouteConfigs}

RouteToolItem == [tool : AllRoutes, newDescription : Text \cup {Unset}, removed : BOOLEAN]

editing   == editIndex # 0

TypeOK ==
  /\ page \in {"main", "list", "export", "quit"}
  /\ items \in [DOMAIN RouteConfigs -> RouteToolItem]
  /\ filterState \in {"unfiltered", "filtering", "applied"}
  /\ term \in Terms \cup {AllRoutes}
  /\ filtered \in Seq(RouteToolItem) /\ matches \in Seq(RouteToolItem)
  /\ filtering \in {"none", "running", "matched"}
  /\ editIndex \in {0} \cup DOMAIN RouteConfigs
  /\ exportView \in Seq(RouteToolItem)
  /\ messages \subseteq {"open", "done", "back"}

\* NewListItemModel: what the adjustments file says of each route.
Init ==
  /\ page = "main"
  /\ \E opened \in Opened :
       items = [i \in DOMAIN RouteConfigs |->
                  [tool |-> RouteConfigs[i],
                   newDescription |-> GetDescription(opened, RouteConfigs[i], Unset),
                   removed |-> ~ExistsInMCP(opened, RouteConfigs[i])]]
  /\ filterState = "unfiltered" /\ term = AllRoutes /\ filtered = <<>>
  /\ editIndex = 0
  /\ exportView = <<>>
  /\ messages = {} /\ filtering = "none" /\ matches = <<>>
  /\ file = NoAdjustments
-----------------------------------------------------------------------------
(***************************************************************************)
(* Pages.  A key sends a message; the message turns the page.              *)
(***************************************************************************)
Open ==
  /\ page = "main"
  /\ messages' = messages \cup {"open"}
  /\ UNCHANGED <<page, items, filterVars, editIndex, exportView, file>>

\* esc, in the list and in the editor alike: the editor stays open.
LeaveList ==
  /\ page = "list"
  /\ page' = "main"
  /\ UNCHANGED <<items, filterVars, editIndex, exportView, messages, file>>

\* F finishes, also as a letter of a filter that is being typed.
Finish ==
  /\ page = "list" /\ ~editing
  /\ messages' = messages \cup {"done"}
  /\ UNCHANGED <<page, items, filterVars, editIndex, exportView, file>>

LeaveExport ==
  /\ page = "export"
  /\ messages' = messages \cup {"back"}
  /\ UNCHANGED <<page, items, filterVars, editIndex, exportView, file>>

OpenListItemMsg ==
  /\ "open" \in messages /\ page # "quit"
  /\ page' = "list" /\ exportView' = <<>>
  /\ messages' = messages \ {"open"}
  /\ UNCHANGED <<items, filterVars, editIndex, file>>

VisibleItems == IF filterState = "unfiltered" THEN items ELSE filtered

\* The export page takes what is visible now, not when F was pressed.
DoneMsg ==
  /\ "done" \in messages /\ page # "quit"
  /\ page' = "export"
  /\ exportView' = VisibleItems
  /\ messages' = messages \ {"done"}
  /\ UNCHANGED <<items, filterVars, editIndex, file>>

BackToMainMsg ==
  /\ "back" \in messages /\ page # "quit"
  /\ page' = "list" /\ exportView' = <<>>
  /\ messages' = messages \ {"back"}
  /\ UNCHANGED <<items, filterVars, editIndex, file>>

\* ctrl+c on every page and in the editor.
Quit ==
  /\ page # "quit"
  /\ page' = "quit" /\ exportView' = <<>>
  /\ messages' = {}
  /\ UNCHANGED <<items, filterVars, editIndex, file>>
-----------------------------------------------------------------------------
(***************************************************************************)
(* The filter of bubbles/list.  A key that changes the input starts a      *)
(* command that matches the items (bound: one at a time); its answer is    *)
(* lost on any page but the list and while the editor is open.             *)
(***************************************************************************)
StartFilter ==
  /\ page = "list" /\ ~editing /\ filterState # "filtering" /\ Terms # {}
  /\ filterState' = "filtering"
  /\ filtered' = IF term = AllRoutes THEN items ELSE filtered
  /\ UNCHANGED <<page, items, term, filtering, matches, editIndex, exportView, messages, file>>

TypeFilter(t) ==
  /\ page = "list" /\ ~editing /\ filterState = "filtering"
  /\ filtering = "none" /\ t # term
  /\ term' = t
  /\ filtering' = "running"
  /\ UNCHANGED <<page, items, filterState, filtered, matches, editIndex, exportView, messages,
                 file>>

\* The command copies the matching items, best match first: in any order.
FilterItems ==
  /\ filtering = "running"
  /\ LET found == {i \in DOMAIN items : items[i].tool \in term}
     IN  \E order \in SetToSeqs(found) :
           matches' = [k \in DOMAIN order |-> items[order[k]]]
  /\ filtering' = "matched"
  /\ UNCHANGED <<page, items, filterState, term, filtered, editIndex, exportView, messages,
                 file>>

HearMatches(listens) ==
  /\ filtering = "matched"
  /\ filtering' = "none" /\ matches' = <<>>
  /\ filtered' = IF listens /\ filterState # "unfiltered" THEN matches ELSE filtered
  /\ UNCHANGED <<page, items, filterState, term, editIndex, exportView, messages, file>>

FilterMatchesAnywhere == HearMatches(~editing)       \* mutant: whatever page is open
FilterMatchesInEditor == HearMatches(page = "list")  \* mutant: also while the editor is open

\* Without a filter what was found is not looked at.
FilterMatchesMsg == HearMatches(page = "list" /\ ~editing)

\* An empty input, or nothing that matches, resets the filter.
AcceptFilter ==
  /\ page = "list" /\ ~editing /\ filterState = "filtering"
  /\ IF term = AllRoutes \/ filtered = <<>>
       THEN filterState' = "unfiltered" /\ term' = AllRoutes /\ filtered' = <<>>
       ELSE filterState' = "applied" /\ UNCHANGED <<term, filtered>>
  /\ UNCHANGED <<page, items, filtering, matches, editIndex, exportView, messages, file>>
-----------------------------------------------------------------------------
(***************************************************************************)
(* Changes to the item under the cursor, which may be any visible one; it  *)
(* is the first while a filter is typed.  The index is used as one of all  *)
(* items, and the command that would match again is dropped.               *)
(***************************************************************************)
SetItemBelow(i, item) ==    \* mutant: off by one
  items' = [items EXCEPT ![IF i > 1 THEN i - 1 ELSE i] = item]

InsertItem(i, item) == items' = Append(items, item)    \* mutant: added, not replaced

SetItem(i, item) == items' = [items EXCEPT ![i] = item]

ToggleRemoved(i) ==
  /\ page = "list" /\ ~editing /\ filterState # "filtering"
  /\ i \in DOMAIN VisibleItems
  /\ SetItem(i, [VisibleItems[i] EXCEPT !.removed = ~@])
  /\ UNCHANGED <<page, filterVars, editIndex, exportView, messages, file>>

Edit(i) ==
  /\ page = "list" /\ ~editing
  /\ i \in DOMAIN VisibleItems /\ (filterState = "filtering" => i = 1)
  /\ ~VisibleItems[i].removed
  /\ editIndex' = i
  /\ UNCHANGED <<page, items, filterVars, exportView, messages, file>>

\* Compared with the document's description, not with the one shown.
Save(draft) ==
  /\ page = "list" /\ editing
  /\ editIndex' = 0
  /\ IF draft # VisibleItems[editIndex].tool.description
       THEN SetItem(editIndex, [VisibleItems[editIndex] EXCEPT !.newDescription = draft])
       ELSE UNCHANGED items
  /\ UNCHANGED <<page, filterVars, exportView, messages, file>>
-----------------------------------------------------------------------------
(***************************************************************************)
(* ExportRoutesToYamlFile: a block per path.  The order of the blocks is   *)
(* that of a Go map; no lookup depends on it, so one is chosen.            *)
(***************************************************************************)
updateOf(r) ==
  [method |-> r.tool.method, name |-> Unset, description |-> r.newDescription]

describedAt(r, p) == r.tool.path = p /\ r.newDescription # Unset

described(routes, p) ==
  LET upTo[k \in 0 .. Len(routes)] ==
        IF k = 0 THEN <<>>
        ELSE IF describedAt(routes[k], p) THEN Append(upTo[k - 1], updateOf(routes[k]))
                                          ELSE upTo[k - 1]
  IN  upTo[Len(routes)]

allMethods(routes, p) ==    \* mutant: removed routes are exported as well
  {r.tool.method : r \in {q \in ToSet(routes) : q.tool.path = p}}

keptMethods(routes, p) ==
  {r.tool.method : r \in {q \in ToSet(routes) : q.tool.path = p /\ ~q.removed}}

inBlocks(blockOf) ==
  LET order == SetToSeq(DOMAIN blockOf) IN [k \in DOMAIN order |-> blockOf[order[k]]]

ExportRoutes(routes) ==
  [descriptions |->
     inBlocks([p \in {q \in Path : described(routes, q) # <<>>} |->
                 [path |-> p, updates |-> described(routes, p)]]),
   routes |->
     inBlocks([p \in {q \in Path : keptMethods(routes, q) # {}} |->
                 [path |-> p, methods |-> keptMethods(routes, p)]]),
   responses |-> <<>>]

\* enter, with a file name: a failed write changes nothing, and after one
\* that succeeds the program ends (bound: no key in the second before it does).
Export ==
  /\ page = "export"
  /\ file' = ExportRoutes(exportView)
  /\ page' = "quit" /\ messages' = {}
  /\ UNCHANGED <<items, filterVars, editIndex, exportView>>

Over == page = "quit" /\ UNCHANGED vars

Next ==
  \/ Open \/ LeaveList \/ Finish \/ LeaveExport
  \/ OpenListItemMsg \/ DoneMsg \/ BackToMainMsg \/ Quit
  \/ StartFilter \/ FilterItems \/ FilterMatchesMsg \/ AcceptFilter
  \/ \E t \in Terms \cup {AllRoutes} : TypeFilter(t)
  \/ \E i \in DOMAIN RouteConfigs : ToggleRemoved(i) \/ Edit(i)
  \/ \E draft \in Drafts : Save(draft)
  \/ Export \/ Over

Spec == Init /\ [][Next]_vars
-----------------------------------------------------------------------------
(***************************************************************************)
(* What is exported is what the list showed last: keys that arrive between *)
(* F and the page change are not lost, and nothing behind the export page  *)
(* moves on while it is open.                                              *)
(***************************************************************************)
ExportIsCurrent == page = "export" => exportView = VisibleItems

(***************************************************************************)
(* The editor never loses its item: ctrl+s asserts the type of the item    *)
(* under the cursor, so one that filtering took away ends the program.     *)
(***************************************************************************)
EditedItemIsVisible ==
  editing => editIndex \in DOMAIN VisibleItems /\ ~VisibleItems[editIndex].removed

(***************************************************************************)
(* Without a filter a key changes the item it was pressed on: no other     *)
(* item changes, and none takes the place of another.                      *)
(***************************************************************************)
EditsAreLocal ==
  [][filterState = "unfiltered" =>
       /\ \A i \in DOMAIN items : items'[i].tool = items[i].tool
       /\ \A i, j \in DOMAIN items : items'[i] # items[i] /\ items'[j] # items[j] => i = j
       /\ editing => \A i \in DOMAIN items : i # editIndex => items'[i] = items[i]]_vars

(***************************************************************************)
(* Reading the file gives back the session: when at least one exported     *)
(* route is kept, exactly the kept ones become tools, with the             *)
(* descriptions the list showed.                                           *)
(***************************************************************************)
shown(route) ==
  LET own == {i \in DOMAIN exportView :
                exportView[i].tool = route /\ exportView[i].newDescription # Unset}
  IN  IF own = {} THEN route.description
      ELSE exportView[CHOOSE i \in own : \A j \in own : i <= j].newDescription

FileRoundTrips ==
  LET kept == {r.tool : r \in {q \in ToSet(exportView) : ~q.removed}}
  IN  page = "quit" /\ kept # {} =>
        \A route \in AllRoutes :
          /\ ExistsInMCP(file, route) <=> route \in kept
          /\ GetDescription(file, route, route.description) = shown(route)

(***************************************************************************)
(* "You can view, filter, edit descriptions, and mark routes for removal": *)
(* marking and editing never take a route off the list.                    *)
(***************************************************************************)
NoRouteIsLost == \A route \in AllRoutes : \E i \in DOMAIN items : items[i].tool = route
=============================================================================
