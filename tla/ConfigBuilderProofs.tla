------------------------- MODULE ConfigBuilderProofs -------------------------
(***************************************************************************)
(* Proofs about ConfigBuilder for every document, every file it is started *)
(* with and every order of keys, messages and filter answers.  The         *)
(* invariant is the conjunction of what is shown: the export page and the  *)
(* editor each stand still because every action that changes the list asks *)
(* for the list page, and for a closed editor or for ctrl+s in it.         *)
(***************************************************************************)
EXTENDS ConfigBuilder, AdjustmentsProofs, FiniteSetTheorems

BuilderInv == TypeOK /\ ExportIsCurrent /\ EditedItemIsVisible

LEMMA InitialTypes == Init => TypeOK
<1> SUFFICES ASSUME Init PROVE TypeOK
  OBVIOUS
<1>1. PICK opened \in Opened :
        items = [i \in DOMAIN RouteConfigs |->
                  [tool |-> RouteConfigs[i],
                   newDescription |-> GetDescription(opened, RouteConfigs[i], Unset),
                   removed |-> ~ExistsInMCP(opened, RouteConfigs[i])]]
  BY DEF Init
<1>2. ASSUME NEW i \in DOMAIN RouteConfigs
      PROVE  /\ RouteConfigs[i] \in AllRoutes
             /\ GetDescription(opened, RouteConfigs[i], Unset) \in Text \cup {Unset}
             /\ (~ExistsInMCP(opened, RouteConfigs[i])) \in BOOLEAN
  <2>1. opened \in MCPAdjustments
    BY BuilderAssumption
  <2>2. RouteConfigs[i] \in Route
    BY BuilderAssumption
  <2>3. (~ExistsInMCP(opened, RouteConfigs[i])) \in BOOLEAN
    OBVIOUS
  <2>4. RouteConfigs[i] \in AllRoutes
    BY DEF AllRoutes
  <2> QED BY <2>1, <2>2, <2>3, <2>4, LookupTypes
<1>3. items \in [DOMAIN RouteConfigs -> RouteToolItem]
  BY <1>1, <1>2 DEF RouteToolItem
<1> QED BY <1>3 DEF Init, TypeOK

\* What is visible is a sequence of items.
LEMMA VisibleTypes ==
  ASSUME TypeOK
  PROVE  /\ VisibleItems \in Seq(RouteToolItem)
         /\ items \in Seq(RouteToolItem)
         /\ \A i \in DOMAIN VisibleItems : VisibleItems[i] \in RouteToolItem
<1>1. items \in Seq(RouteToolItem)
  BY BuilderAssumption DEF TypeOK
<1>2. VisibleItems \in Seq(RouteToolItem)
  BY <1>1 DEF TypeOK, VisibleItems
<1> HIDE DEF RouteToolItem
<1> QED BY <1>1, <1>2

\* An item that is changed is an item, of the same route.
LEMMA ChangedItem ==
  ASSUME NEW item \in RouteToolItem, NEW draft \in Text \cup {Unset}
  PROVE  /\ [item EXCEPT !.removed = ~@] \in RouteToolItem
         /\ [item EXCEPT !.removed = ~@].tool = item.tool
         /\ [item EXCEPT !.newDescription = draft] \in RouteToolItem
         /\ [item EXCEPT !.newDescription = draft].tool = item.tool
BY DEF RouteToolItem

LEMMA TypeStep ==
  ASSUME TypeOK, EditedItemIsVisible, [Next]_vars
  PROVE  TypeOK'
<1>0. <<>> \in Seq(RouteToolItem)
  OBVIOUS
<1>1. CASE Open \/ LeaveList \/ Finish \/ LeaveExport \/ OpenListItemMsg
           \/ BackToMainMsg \/ Quit
  BY <1>0, <1>1 DEF TypeOK, Open, LeaveList, Finish, LeaveExport, OpenListItemMsg,
              BackToMainMsg, Quit, filterVars
<1>2. CASE DoneMsg
  BY <1>2, VisibleTypes DEF TypeOK, DoneMsg, filterVars
<1>3. CASE StartFilter
  BY <1>3, VisibleTypes DEF TypeOK, StartFilter
<1>4. CASE FilterItems
  <2> DEFINE found == {i \in DOMAIN items : items[i].tool \in term}
  <2>1. PICK order \in SetToSeqs(found) :
          matches' = [k \in DOMAIN order |-> items[order[k]]]
    BY <1>4 DEF FilterItems
  <2>2. order \in [1 .. Cardinality(found) -> found]
    BY <2>1 DEF SetToSeqs
  <2>3. IsFiniteSet(found) /\ Cardinality(found) \in Nat
    <3>1. items \in Seq(RouteToolItem)
      BY VisibleTypes
    <3>2. DOMAIN items = 1 .. Len(items) /\ Len(items) \in Nat
      BY <3>1
    <3>3. IsFiniteSet(DOMAIN items)
      BY <3>2, FS_Interval
    <3>4. found \subseteq DOMAIN items
      OBVIOUS
    <3> HIDE DEF found
    <3> QED BY <3>3, <3>4, FS_Subset, FS_CardinalityType
  <2>4. matches' \in [1 .. Cardinality(found) -> RouteToolItem]
    BY <2>1, <2>2 DEF TypeOK
  <2>5. matches' \in Seq(RouteToolItem)
    <3> HIDE DEF found
    <3> QED BY <2>3, <2>4
  <2> QED BY <1>4, <2>5 DEF TypeOK, FilterItems
<1>5. CASE FilterMatchesMsg
  BY <1>5 DEF TypeOK, FilterMatchesMsg, HearMatches
<1>6. CASE AcceptFilter
  BY <1>0, <1>6 DEF TypeOK, AcceptFilter
<1>7. CASE \E t \in Terms \cup {AllRoutes} : TypeFilter(t)
  BY <1>7 DEF TypeOK, TypeFilter
<1>8. ASSUME NEW i \in DOMAIN RouteConfigs, ToggleRemoved(i)
      PROVE  TypeOK'
  <2>1. [VisibleItems[i] EXCEPT !.removed = ~@] \in RouteToolItem
    BY <1>8, VisibleTypes, ChangedItem DEF ToggleRemoved
  <2>2. items' \in [DOMAIN RouteConfigs -> RouteToolItem]
    BY <1>8, <2>1 DEF ToggleRemoved, SetItem, TypeOK
  <2> QED BY <1>8, <2>2 DEF TypeOK, ToggleRemoved, filterVars
<1>9. ASSUME NEW i \in DOMAIN RouteConfigs, Edit(i)
      PROVE  TypeOK'
  BY <1>9 DEF TypeOK, Edit, filterVars
<1>10. ASSUME NEW draft \in Drafts, Save(draft)
       PROVE  TypeOK'
  <2>1. draft \in Text \cup {Unset} /\ editIndex \in DOMAIN RouteConfigs
    BY <1>10, BuilderAssumption DEF Save, editing, TypeOK
  <2>2. [VisibleItems[editIndex] EXCEPT !.newDescription = draft] \in RouteToolItem
    BY <1>10, <2>1, VisibleTypes, ChangedItem DEF Save, EditedItemIsVisible
  <2>3. items' \in [DOMAIN RouteConfigs -> RouteToolItem]
    BY <1>10, <2>1, <2>2 DEF Save, SetItem, TypeOK
  <2> QED BY <1>10, <2>3 DEF TypeOK, Save, filterVars
<1>11. CASE Export \/ Over \/ UNCHANGED vars
  BY <1>11 DEF TypeOK, Export, Over, vars, filterVars
<1> QED BY <1>1, <1>2, <1>3, <1>4, <1>5, <1>6, <1>7, <1>8, <1>9, <1>10, <1>11 DEF Next
-----------------------------------------------------------------------------
(***************************************************************************)
(* The export page.  While it is open no action moves the list: keys of    *)
(* the list need the list page, and matches are dropped on any other.      *)
(***************************************************************************)
LEMMA ExportStep ==
  ASSUME ExportIsCurrent, [Next]_vars
  PROVE  ExportIsCurrent'
<1> SUFFICES ASSUME page' = "export" PROVE exportView' = VisibleItems'
  BY DEF ExportIsCurrent
<1>1. CASE DoneMsg
  BY <1>1 DEF DoneMsg, VisibleItems, filterVars
<1>2. ASSUME page = "export", UNCHANGED <<items, filterState, filtered, exportView>>
      PROVE  exportView' = VisibleItems'
  BY <1>2 DEF ExportIsCurrent, VisibleItems
<1>3. CASE Open \/ LeaveExport \/ FilterItems \/ FilterMatchesMsg
  BY <1>2, <1>3 DEF Open, LeaveExport, FilterItems, FilterMatchesMsg, HearMatches, filterVars
<1>4. CASE LeaveList \/ Finish \/ OpenListItemMsg \/ BackToMainMsg \/ Quit
           \/ StartFilter \/ AcceptFilter \/ Export \/ Over
  BY <1>4 DEF LeaveList, Finish, OpenListItemMsg, BackToMainMsg, Quit, StartFilter,
              AcceptFilter, Export, Over, vars
<1>5. CASE \/ \E t \in Terms \cup {AllRoutes} : TypeFilter(t)
           \/ \E i \in DOMAIN RouteConfigs : ToggleRemoved(i) \/ Edit(i)
           \/ \E draft \in Drafts : Save(draft)
  BY <1>5 DEF TypeFilter, ToggleRemoved, Edit, Save
<1>6. CASE UNCHANGED vars
  BY <1>2, <1>6 DEF vars, filterVars
<1> QED BY <1>1, <1>3, <1>4, <1>5, <1>6 DEF Next
-----------------------------------------------------------------------------
(***************************************************************************)
(* The editor.  While it is open only ctrl+s changes an item, and that     *)
(* closes it; no answer of a filter is taken.                              *)
(***************************************************************************)
LEMMA EditorStep ==
  ASSUME EditedItemIsVisible, [Next]_vars
  PROVE  EditedItemIsVisible'
<1> SUFFICES ASSUME editing'
             PROVE  editIndex' \in DOMAIN VisibleItems' /\ ~VisibleItems'[editIndex'].removed
  BY DEF EditedItemIsVisible
<1>1. ASSUME editing, UNCHANGED <<items, filterState, filtered, editIndex>>
      PROVE  editIndex' \in DOMAIN VisibleItems' /\ ~VisibleItems'[editIndex'].removed
  BY <1>1 DEF EditedItemIsVisible, VisibleItems
<1>2. ASSUME NEW i \in DOMAIN RouteConfigs, Edit(i)
      PROVE  editIndex' \in DOMAIN VisibleItems' /\ ~VisibleItems'[editIndex'].removed
  BY <1>2 DEF Edit, VisibleItems, filterVars
<1>3. CASE \E draft \in Drafts : Save(draft)
  BY <1>3 DEF Save, editing
<1>4. CASE Open \/ LeaveList \/ LeaveExport \/ OpenListItemMsg \/ DoneMsg \/ BackToMainMsg
           \/ Quit \/ FilterItems \/ FilterMatchesMsg \/ Export \/ Over \/ UNCHANGED vars
  BY <1>1, <1>4 DEF Open, LeaveList, LeaveExport, OpenListItemMsg, DoneMsg, BackToMainMsg,
     Quit, FilterItems, FilterMatchesMsg, HearMatches, Export, Over, vars, filterVars, editing
<1>5. CASE \/ Finish \/ StartFilter \/ AcceptFilter
           \/ \E t \in Terms \cup {AllRoutes} : TypeFilter(t)
           \/ \E i \in DOMAIN RouteConfigs : ToggleRemoved(i)
  BY <1>5 DEF Finish, StartFilter, AcceptFilter, TypeFilter, ToggleRemoved, editing
<1> QED BY <1>2, <1>3, <1>4, <1>5 DEF Next

LEMMA BuilderInvariant == Spec => []BuilderInv
<1>1. Init => BuilderInv
  <2> SUFFICES ASSUME Init PROVE ExportIsCurrent /\ EditedItemIsVisible
    BY InitialTypes DEF BuilderInv
  <2> QED BY DEF Init, ExportIsCurrent, EditedItemIsVisible, editing
<1>2. BuilderInv /\ [Next]_vars => BuilderInv'
  BY TypeStep, ExportStep, EditorStep DEF BuilderInv
<1> QED BY <1>1, <1>2, PTL DEF Spec
-----------------------------------------------------------------------------
(***************************************************************************)
(* The session is well-formed whatever the filters answer.                 *)
(***************************************************************************)
THEOREM SessionIsTyped == Spec => []TypeOK
<1>1. BuilderInv => TypeOK
  BY DEF BuilderInv
<1> QED BY <1>1, BuilderInvariant, PTL

(***************************************************************************)
(* The file is made of what the list showed last, whatever keys come       *)
(* between F and the page change.                                          *)
(***************************************************************************)
THEOREM ExportsAreCurrent == Spec => []ExportIsCurrent
<1>1. BuilderInv => ExportIsCurrent
  BY DEF BuilderInv
<1> QED BY <1>1, BuilderInvariant, PTL

(***************************************************************************)
(* ctrl+s always finds its item, so its type assertion cannot fail.        *)
(***************************************************************************)
THEOREM EditorKeepsItsItem == Spec => []EditedItemIsVisible
<1>1. BuilderInv => EditedItemIsVisible
  BY DEF BuilderInv
<1> QED BY <1>1, BuilderInvariant, PTL
-----------------------------------------------------------------------------
(***************************************************************************)
(* Without a filter VisibleItems are the items, so the index is the right  *)
(* one.                                                                    *)
(***************************************************************************)
LocalEdit ==
  filterState = "unfiltered" =>
    /\ \A i \in DOMAIN items : items'[i].tool = items[i].tool
    /\ \A i, j \in DOMAIN items : items'[i] # items[i] /\ items'[j] # items[j] => i = j
    /\ editing => \A i \in DOMAIN items : i # editIndex => items'[i] = items[i]

\* One item of the list takes the place of another with its route.
LEMMA OneItemChanges ==
  ASSUME TypeOK, NEW k \in DOMAIN items, NEW item,
         item.tool = items[k].tool, SetItem(k, item), editing => k = editIndex
  PROVE  LocalEdit
<1>1. items' = [items EXCEPT ![k] = item]
  BY DEF SetItem
<1>2. \A i \in DOMAIN items : items'[i] = IF i = k THEN item ELSE items[i]
  BY <1>1 DEF TypeOK
<1> QED BY <1>2 DEF LocalEdit

LEMMA EditStepIsLocal ==
  ASSUME BuilderInv, [Next]_vars
  PROVE  LocalEdit
<1> SUFFICES ASSUME filterState = "unfiltered" PROVE LocalEdit
  BY DEF LocalEdit
<1>1. TypeOK /\ VisibleItems = items /\ DOMAIN items = DOMAIN RouteConfigs
  BY DEF BuilderInv, VisibleItems, TypeOK
<1>2. \A i \in DOMAIN items : items[i] \in RouteToolItem
  BY <1>1, VisibleTypes
<1>3. ASSUME UNCHANGED items PROVE LocalEdit
  BY <1>3 DEF LocalEdit
<1>4. ASSUME NEW i \in DOMAIN RouteConfigs, ToggleRemoved(i)
      PROVE  LocalEdit
  <2>1. SetItem(i, [items[i] EXCEPT !.removed = ~@]) /\ ~editing
    BY <1>1, <1>4 DEF ToggleRemoved
  <2>2. [items[i] EXCEPT !.removed = ~@].tool = items[i].tool
    BY <1>1, <1>2 DEF RouteToolItem
  <2> QED BY <1>1, <2>1, <2>2, OneItemChanges
<1>5. ASSUME NEW draft \in Drafts, Save(draft)
      PROVE  LocalEdit
  <2>1. editIndex \in DOMAIN items
    BY <1>1, <1>5 DEF Save, BuilderInv, EditedItemIsVisible
  <2>2. CASE SetItem(editIndex, [items[editIndex] EXCEPT !.newDescription = draft])
    <3>1. [items[editIndex] EXCEPT !.newDescription = draft].tool = items[editIndex].tool
      BY <1>2, <2>1 DEF RouteToolItem
    <3> QED BY <1>1, <2>1, <2>2, <3>1, OneItemChanges
  <2> QED BY <1>1, <1>3, <1>5, <2>2 DEF Save
<1>6. CASE \/ Open \/ LeaveList \/ Finish \/ LeaveExport
           \/ OpenListItemMsg \/ DoneMsg \/ BackToMainMsg \/ Quit
           \/ StartFilter \/ FilterItems \/ FilterMatchesMsg \/ AcceptFilter
           \/ \E t \in Terms \cup {AllRoutes} : TypeFilter(t)
           \/ \E i \in DOMAIN RouteConfigs : Edit(i)
           \/ Export \/ Over \/ UNCHANGED vars
  BY <1>3, <1>6 DEF Open, LeaveList, Finish, LeaveExport, OpenListItemMsg, DoneMsg,
     BackToMainMsg, Quit, StartFilter, FilterItems, FilterMatchesMsg, HearMatches,
     AcceptFilter, TypeFilter, Edit, Export, Over, vars
<1> QED BY <1>4, <1>5, <1>6 DEF Next

(***************************************************************************)
(* Without a filter, marking and editing change the item they are meant    *)
(* for and no other.  (With one they may not: see NoRouteIsLost.)          *)
(***************************************************************************)
THEOREM EditsStayLocal == Spec => EditsAreLocal
<1>1. BuilderInv /\ [Next]_vars => [LocalEdit]_vars
  BY EditStepIsLocal
<1> QED BY <1>1, BuilderInvariant, PTL DEF Spec, EditsAreLocal, LocalEdit

(***************************************************************************)
(* So the index into the wrong list is all that can lose a route: a        *)
(* session that never filters keeps every route on its place.              *)
(***************************************************************************)
ItemsInPlace == \A i \in DOMAIN RouteConfigs : items[i].tool = RouteConfigs[i]

\* Without a filter no key takes a route off the list (delegate.go, list_item_page.go).
THEOREM UnfilteredRoutesAreKept ==
  Spec /\ [](filterState = "unfiltered") => []NoRouteIsLost
<1>1. Init => ItemsInPlace
  BY DEF Init, ItemsInPlace
<1>2. BuilderInv /\ ItemsInPlace /\ filterState = "unfiltered" /\ [Next]_vars
        => ItemsInPlace'
  <2> SUFFICES ASSUME BuilderInv, ItemsInPlace, filterState = "unfiltered", [Next]_vars,
                      NEW i \in DOMAIN RouteConfigs
               PROVE  items'[i].tool = RouteConfigs[i]
    BY DEF ItemsInPlace
  <2>1. i \in DOMAIN items
    BY DEF BuilderInv, TypeOK
  <2>2. items'[i].tool = items[i].tool
    BY <2>1, EditStepIsLocal DEF LocalEdit
  <2> QED BY <2>2 DEF ItemsInPlace
<1>3. BuilderInv /\ ItemsInPlace => NoRouteIsLost
  BY DEF BuilderInv, TypeOK, ItemsInPlace, NoRouteIsLost, AllRoutes
<1> QED BY <1>1, <1>2, <1>3, BuilderInvariant, PTL DEF Spec
-----------------------------------------------------------------------------
(***************************************************************************)
(* The exporter's loop over the routes.  What a loop computes exists, by   *)
(* the least number of rounds for which it would not.                      *)
(***************************************************************************)
Runs(n, A, a, step) ==
  \E g \in [0 .. n -> A] : g[0] = a /\ \A k \in 1 .. n : g[k] = step[<<k, g[k - 1]>>]

LEMMA LoopRuns ==
  ASSUME NEW n \in Nat, NEW A, NEW a \in A, NEW step \in [(1 .. n) \X A -> A]
  PROVE  Runs(n, A, a, step)
<1> DEFINE bad == {m \in 0 .. n : ~Runs(m, A, a, step)}
<1>1. SUFFICES ASSUME bad # {} PROVE FALSE
  BY DEF bad
<1>2. bad \subseteq Nat
  OBVIOUS
<1>3. PICK m \in bad : \A k \in bad : m <= k
  <2> HIDE DEF bad
  <2> QED BY <1>1, <1>2, LeastNatural
<1>4. m # 0
  <2>1. Runs(0, A, a, step)
    <3> DEFINE g == [k \in 0 .. 0 |-> a]
    <3>1. g \in [0 .. 0 -> A] /\ g[0] = a
      OBVIOUS
    <3> HIDE DEF g
    <3> QED BY <3>1 DEF Runs
  <2> QED BY <2>1
<1>5. m \in 1 .. n /\ m - 1 \in 0 .. n /\ m - 1 \notin bad
  BY <1>3, <1>4
<1>6. PICK g \in [0 .. m - 1 -> A] :
        g[0] = a /\ \A k \in 1 .. m - 1 : g[k] = step[<<k, g[k - 1]>>]
  BY <1>5 DEF Runs
<1> DEFINE h == [k \in 0 .. m |-> IF k = m THEN step[<<m, g[m - 1]>>] ELSE g[k]]
<1>7. g[m - 1] \in A /\ step[<<m, g[m - 1]>>] \in A
  BY <1>5, <1>6
<1>8. h \in [0 .. m -> A]
  BY <1>5, <1>6, <1>7
<1>9. h[0] = a /\ \A k \in 1 .. m : h[k] = step[<<k, h[k - 1]>>]
  <2>0. h[0] = a
    BY <1>5, <1>6
  <2> SUFFICES ASSUME NEW k \in 1 .. m PROVE h[k] = step[<<k, h[k - 1]>>]
    BY <2>0
  <2>1. CASE k = m
    <3>1. h[m] = step[<<m, g[m - 1]>>] /\ h[m - 1] = g[m - 1]
      BY <1>5
    <3> HIDE DEF h
    <3> QED BY <1>5, <2>1, <3>1
  <2>2. CASE k # m
    <3>1. k \in 1 .. m - 1 /\ h[k] = g[k] /\ h[k - 1] = g[k - 1]
      BY <1>5, <2>2
    <3> HIDE DEF h
    <3> QED BY <1>6, <3>1
  <2> QED BY <2>1, <2>2
<1>10. Runs(m, A, a, step)
  <2> HIDE DEF h
  <2> QED BY <1>8, <1>9 DEF Runs
<1> QED BY <1>3, <1>10

\* The updates written for a path are those of its described routes, in the
\* order of the routes: the j-th is that of the route at at[j].
Rows(rows, routes, p, k, at) ==
  /\ rows \in Seq(Update)
  /\ at \in [1 .. Len(rows) -> {i \in 1 .. k : describedAt(routes[i], p)}]
  /\ \A j \in 1 .. Len(rows) : rows[j] = updateOf(routes[at[j]])
  /\ \A i, j \in 1 .. Len(rows) : i < j => at[i] < at[j]
  /\ \A i \in 1 .. k : describedAt(routes[i], p) => \E j \in 1 .. Len(rows) : at[j] = i

LEMMA NextRow ==
  ASSUME NEW routes, NEW p, NEW k \in Nat, NEW rows, NEW at, Rows(rows, routes, p, k, at),
         describedAt(routes[k + 1], p) => updateOf(routes[k + 1]) \in Update
  PROVE  \E next :
           Rows(IF describedAt(routes[k + 1], p) THEN Append(rows, updateOf(routes[k + 1]))
                                                 ELSE rows,
                routes, p, k + 1, next)
<1> DEFINE n == Len(rows)
<1>0. n \in Nat /\ rows \in Seq(Update)
  BY DEF Rows
<1>1. CASE ~describedAt(routes[k + 1], p)
  <2>1. Rows(rows, routes, p, k + 1, at)
    BY <1>1 DEF Rows
  <2> QED BY <1>1, <2>1
<1>2. CASE describedAt(routes[k + 1], p)
  <2> DEFINE row  == updateOf(routes[k + 1])
             more == Append(rows, row)
             next == [j \in 1 .. n + 1 |-> IF j = n + 1 THEN k + 1 ELSE at[j]]
  <2>0. row \in Update
    BY <1>2
  <2> HIDE DEF row
  <2>1. /\ more \in Seq(Update) /\ Len(more) = n + 1 /\ more[n + 1] = row
        /\ \A j \in 1 .. n : more[j] = rows[j]
    BY <1>0, <2>0
  <2>2. \A j \in 1 .. n : at[j] \in 1 .. k /\ describedAt(routes[at[j]], p)
    BY DEF Rows
  <2>3. next \in [1 .. n + 1 -> {i \in 1 .. k + 1 : describedAt(routes[i], p)}]
    BY <1>0, <1>2, <2>2
  <2>4. next[n + 1] = k + 1 /\ \A j \in 1 .. n : next[j] = at[j]
    BY <1>0
  <2> HIDE DEF more, next
  <2>5. \A j \in 1 .. n + 1 : more[j] = updateOf(routes[next[j]])
    BY <1>0, <2>1, <2>4 DEF Rows, row
  <2>6. \A i, j \in 1 .. n + 1 : i < j => next[i] < next[j]
    <3> SUFFICES ASSUME NEW i \in 1 .. n + 1, NEW j \in 1 .. n + 1, i < j
                 PROVE  next[i] < next[j]
      OBVIOUS
    <3>1. i \in 1 .. n
      BY <1>0
    <3>2. CASE j = n + 1
      BY <2>2, <2>4, <3>1, <3>2
    <3>3. CASE j \in 1 .. n
      BY <2>4, <3>1, <3>3 DEF Rows
    <3> QED BY <1>0, <3>2, <3>3
  <2>7. \A i \in 1 .. k + 1 : describedAt(routes[i], p) => \E j \in 1 .. n + 1 : next[j] = i
    <3> SUFFICES ASSUME NEW i \in 1 .. k + 1, describedAt(routes[i], p)
                 PROVE  \E j \in 1 .. n + 1 : next[j] = i
      OBVIOUS
    <3>1. CASE i = k + 1
      BY <1>0, <2>4, <3>1
    <3>2. CASE i \in 1 .. k
      <4>1. PICK j \in 1 .. n : at[j] = i
        BY <3>2 DEF Rows
      <4> QED BY <1>0, <2>4, <4>1
    <3> QED BY <3>1, <3>2
  <2>8. Rows(more, routes, p, k + 1, next)
    BY <2>1, <2>3, <2>5, <2>6, <2>7 DEF Rows
  <2> QED BY <1>2, <2>8 DEF more, row
<1> QED BY <1>1, <1>2

LEMMA DescribedRows ==
  ASSUME NEW routes \in Seq(RouteToolItem), NEW p
  PROVE  \E at : Rows(described(routes, p), routes, p, Len(routes), at)
<1> DEFINE n == Len(routes)
           Loop(g) == [k \in 0 .. n |->
                         IF k = 0 THEN <<>>
                         ELSE IF describedAt(routes[k], p)
                              THEN Append(g[k - 1], updateOf(routes[k])) ELSE g[k - 1]]
           upTo == CHOOSE g : g = Loop(g)
<1>0. n \in Nat
  OBVIOUS
<1>1. described(routes, p) = upTo[n]
  BY DEF described
<1>2. \A i \in 1 .. n : describedAt(routes[i], p) => updateOf(routes[i]) \in Update
  <2> SUFFICES ASSUME NEW i \in 1 .. n, describedAt(routes[i], p)
               PROVE  updateOf(routes[i]) \in Update
    OBVIOUS
  <2>1. routes[i] \in RouteToolItem
    OBVIOUS
  <2>2. routes[i].tool \in Route
    BY <2>1, BuilderAssumption DEF RouteToolItem, AllRoutes
  <2> QED BY <2>1, <2>2 DEF RouteToolItem, Route, Update, updateOf
<1>3. upTo = Loop(upTo)
  <2> DEFINE step == [x \in (1 .. n) \X Seq(Update) |->
                        IF describedAt(routes[x[1]], p)
                        THEN Append(x[2], updateOf(routes[x[1]])) ELSE x[2]]
  <2>1. step \in [(1 .. n) \X Seq(Update) -> Seq(Update)]
    BY <1>2
  <2>2. <<>> \in Seq(Update)
    OBVIOUS
  <2> HIDE DEF step
  <2>3. PICK g \in [0 .. n -> Seq(Update)] :
          g[0] = <<>> /\ \A k \in 1 .. n : g[k] = step[<<k, g[k - 1]>>]
    <3>1. Runs(n, Seq(Update), <<>>, step)
      BY <1>0, <2>1, <2>2, LoopRuns
    <3> QED BY <3>1 DEF Runs
  <2>4. \A k \in 1 .. n, u \in Seq(Update) :
          step[<<k, u>>] = IF describedAt(routes[k], p)
                           THEN Append(u, updateOf(routes[k])) ELSE u
    BY DEF step
  <2>5. \A k \in 0 .. n :
          g[k] = IF k = 0 THEN <<>>
                 ELSE IF describedAt(routes[k], p)
                      THEN Append(g[k - 1], updateOf(routes[k])) ELSE g[k - 1]
    <3> HIDE DEF n, Loop, upTo
    <3> SUFFICES ASSUME NEW k \in 1 .. n
                 PROVE  g[k] = IF describedAt(routes[k], p)
                               THEN Append(g[k - 1], updateOf(routes[k])) ELSE g[k - 1]
      <4>1. \A k \in 0 .. n : k = 0 \/ k \in 1 .. n
        BY <1>0
      <4> QED BY <2>3, <4>1
    <3>1. g[k - 1] \in Seq(Update) /\ g[k] = step[<<k, g[k - 1]>>]
      BY <1>0, <2>3
    <3> QED BY <2>4, <3>1
  <2>6. g = Loop(g)
    BY <2>3, <2>5
  <2> HIDE DEF Loop
  <2> DEFINE Computed(h) == h = Loop(h)
  <2>7. \E h : Computed(h)
    BY <2>6
  <2>8. Computed(CHOOSE h : Computed(h))
    <3> HIDE DEF Computed
    <3> QED BY <2>7
  <2> QED BY <2>8
<1> HIDE DEF upTo
<1>4. \A k \in 0 .. n :
        upTo[k] = IF k = 0 THEN <<>>
                  ELSE IF describedAt(routes[k], p)
                       THEN Append(upTo[k - 1], updateOf(routes[k])) ELSE upTo[k - 1]
  BY <1>3
<1> DEFINE bad == {k \in 0 .. n : ~ \E at : Rows(upTo[k], routes, p, k, at)}
<1>5. SUFFICES ASSUME bad # {} PROVE FALSE
  <2>1. bad = {} => \E at : Rows(upTo[n], routes, p, n, at)
    BY <1>0
  <2> QED BY <1>1, <2>1
<1>6. bad \subseteq Nat
  OBVIOUS
<1>7. PICK k \in bad : \A j \in bad : k <= j
  <2> HIDE DEF bad
  <2> QED BY <1>5, <1>6, LeastNatural
<1>8. k # 0
  <2>1. upTo[0] = <<>>
    BY <1>0, <1>4
  <2>2. Rows(<<>>, routes, p, 0, [j \in 1 .. 0 |-> 0])
    BY DEF Rows
  <2> QED BY <2>1, <2>2
<1>9. k - 1 \in 0 .. n /\ k - 1 \notin bad /\ k \in 1 .. n /\ k - 1 \in Nat /\ (k - 1) + 1 = k
  BY <1>7, <1>8
<1>10. PICK at : Rows(upTo[k - 1], routes, p, k - 1, at)
  BY <1>9
<1>11. PICK next : Rows(upTo[k], routes, p, k, next)
  <2> HIDE DEF bad
  <2>1. upTo[k] = IF describedAt(routes[k], p)
                  THEN Append(upTo[k - 1], updateOf(routes[k])) ELSE upTo[k - 1]
    BY <1>4, <1>8, <1>9
  <2>2. describedAt(routes[k], p) => updateOf(routes[k]) \in Update
    BY <1>2, <1>9
  <2>3. \E next :
          Rows(IF describedAt(routes[(k - 1) + 1], p)
               THEN Append(upTo[k - 1], updateOf(routes[(k - 1) + 1])) ELSE upTo[k - 1],
               routes, p, (k - 1) + 1, next)
    BY <1>9, <1>10, <2>2, NextRow
  <2> QED BY <1>9, <2>1, <2>3
<1> QED BY <1>7, <1>11
-----------------------------------------------------------------------------
(***************************************************************************)
(* The blocks of a file: one for each path, in some order.                 *)
(***************************************************************************)
OnePerPath(blocks, blockOf, order) ==
  /\ order \in Seq(DOMAIN blockOf)
  /\ DOMAIN blocks = DOMAIN order
  /\ \A k \in DOMAIN order : blocks[k] = blockOf[order[k]]
  /\ \A i, j \in DOMAIN order : order[i] = order[j] => i = j
  /\ \A p \in DOMAIN blockOf : \E k \in DOMAIN order : order[k] = p

LEMMA BlocksInOrder ==
  ASSUME NEW blockOf, IsFiniteSet(DOMAIN blockOf)
  PROVE  \E order : OnePerPath(inBlocks(blockOf), blockOf, order)
<1> DEFINE S == DOMAIN blockOf
           n == Cardinality(S)
           order == SetToSeq(S)
<1>1. n \in Nat /\ ExistsBijection(1 .. n, S)
  BY FS_CardinalityType
<1>2. \E f \in [1 .. n -> S] : IsInjective(f)
  BY <1>1 DEF ExistsBijection, Bijection, Injection
<1>3. order \in [1 .. n -> S] /\ IsInjective(order)
  BY <1>2 DEF SetToSeq
<1>4. inBlocks(blockOf) = [k \in DOMAIN order |-> blockOf[order[k]]]
  BY DEF inBlocks
<1> HIDE DEF order
<1>5. order \in Surjection(1 .. n, S)
  <2>1. order \in Injection(1 .. n, S)
    BY <1>3 DEF Injection
  <2>2. IsFiniteSet(1 .. n) /\ Cardinality(1 .. n) = n
    BY <1>1, FS_Interval
  <2> HIDE DEF n, S
  <2> QED BY <2>1, <2>2, FS_Injection DEF n, S
<1>6. \A p \in S : \E k \in 1 .. n : order[k] = p
  BY <1>5 DEF Surjection
<1>7. order \in Seq(DOMAIN blockOf) /\ DOMAIN order = 1 .. n
  <2> HIDE DEF n
  <2> QED BY <1>1, <1>3
<1> HIDE DEF n
<1>8. \A i, j \in DOMAIN order : order[i] = order[j] => i = j
  BY <1>3 DEF IsInjective
<1>9. /\ DOMAIN inBlocks(blockOf) = DOMAIN order
      /\ \A k \in DOMAIN order : inBlocks(blockOf)[k] = blockOf[order[k]]
  BY <1>4
<1>10. OnePerPath(inBlocks(blockOf), blockOf, order)
  BY <1>6, <1>7, <1>8, <1>9 DEF OnePerPath
<1> QED BY <1>10

\* The lookups find the block of a path, if there is one, and no other.
LEMMA FoundBlock ==
  ASSUME NEW blockOf, NEW blocks, NEW order, OnePerPath(blocks, blockOf, order),
         \A p \in DOMAIN blockOf : blockOf[p].path = p, NEW o
  PROVE  /\ \A k \in DOMAIN blocks : blocks[k].path = o.path => o.path \in DOMAIN blockOf
         /\ o.path \in DOMAIN blockOf =>
              /\ firstBlock(blocks, o) \in DOMAIN blocks
              /\ blocks[firstBlock(blocks, o)] = blockOf[o.path]
<1>1. \A k \in DOMAIN blocks : order[k] \in DOMAIN blockOf /\ blocks[k].path = order[k]
  BY DEF OnePerPath
<1>2. ASSUME o.path \in DOMAIN blockOf
      PROVE  /\ firstBlock(blocks, o) \in DOMAIN blocks
             /\ blocks[firstBlock(blocks, o)] = blockOf[o.path]
  <2> DEFINE first(i) == blocks[i].path = o.path /\ \A k \in 1 .. (i - 1) : blocks[k].path # o.path
  <2>1. PICK i \in DOMAIN blocks : order[i] = o.path
    BY <1>2 DEF OnePerPath
  <2>2. \A k \in 1 .. (i - 1) : blocks[k].path # o.path
    <3>1. \A k \in 1 .. (i - 1) : k \in DOMAIN blocks /\ k # i
      BY <2>1 DEF OnePerPath
    <3> QED BY <1>1, <2>1, <3>1 DEF OnePerPath
  <2>3. first(i)
    BY <1>1, <2>1, <2>2
  <2>4. firstBlock(blocks, o) \in DOMAIN blocks /\ first(firstBlock(blocks, o))
    BY <2>1, <2>3 DEF firstBlock
  <2>5. order[firstBlock(blocks, o)] = o.path
    BY <1>1, <2>4
  <2> QED BY <2>4, <2>5 DEF OnePerPath
<1> QED BY <1>1, <1>2

\* A list has finitely many paths.
LEMMA FinitelyManyPaths ==
  ASSUME NEW routes \in Seq(RouteToolItem), NEW S,
         \A p \in S : \E i \in 1 .. Len(routes) : routes[i].tool.path = p
  PROVE  IsFiniteSet(S)
<1> DEFINE T == {routes[i].tool.path : i \in 1 .. Len(routes)}
           f == [i \in 1 .. Len(routes) |-> routes[i].tool.path]
<1>1. f \in Surjection(1 .. Len(routes), T)
  BY DEF Surjection
<1>2. IsFiniteSet(1 .. Len(routes))
  <2>1. Len(routes) \in Nat
    OBVIOUS
  <2> QED BY <2>1, FS_Interval
<1>3. IsFiniteSet(T)
  <2> HIDE DEF f, T
  <2> QED BY <1>1, <1>2, FS_Surjection
<1> QED BY <1>3, FS_Subset

\* A route is known by its path and method.
LEMMA SameRoute ==
  ASSUME NEW r \in AllRoutes, NEW s \in AllRoutes, r.path = s.path, r.method = s.method
  PROVE  r = s
BY BuilderAssumption DEF AllRoutes

LEMMA RouteTypes ==
  \A r \in AllRoutes : r.path \in Path /\ r.method \in Method /\ r.description \in Text
<1>1. AllRoutes \subseteq Route
  BY BuilderAssumption DEF AllRoutes
<1> QED BY <1>1 DEF Route

LEMMA ItemRoutes ==
  ASSUME NEW routes \in Seq(RouteToolItem)
  PROVE  \A i \in DOMAIN routes : routes[i].tool \in AllRoutes
<1>1. \A i \in DOMAIN routes : routes[i] \in RouteToolItem
  OBVIOUS
<1> QED BY <1>1 DEF RouteToolItem

\* Unless the list is empty but for removed routes, the selection holds
\* exactly those that are not.
LEMMA SelectionRoundTrips ==
  ASSUME NEW routes \in Seq(RouteToolItem), NEW route \in AllRoutes,
         \E i \in DOMAIN routes : ~routes[i].removed
  PROVE  ExistsInMCP(ExportRoutes(routes), route)
           <=> \E i \in DOMAIN routes : routes[i].tool = route /\ ~routes[i].removed
<1> DEFINE selected == {q \in Path : keptMethods(routes, q) # {}}
           blockOf == [p \in selected |-> [path |-> p, methods |-> keptMethods(routes, p)]]
           blocks == inBlocks(blockOf)
<1>1. \A p, m : m \in keptMethods(routes, p) <=>
        \E i \in DOMAIN routes : /\ routes[i].tool.path = p /\ routes[i].tool.method = m
                                 /\ ~routes[i].removed
  BY DEF keptMethods, ToSet
<1>2. \A i \in DOMAIN routes : routes[i].tool \in AllRoutes
  BY ItemRoutes
<1>3. \A r \in AllRoutes : r.path \in Path
  BY RouteTypes
<1>4. IsFiniteSet(selected)
  <2>1. \A p \in selected : \E i \in 1 .. Len(routes) : routes[i].tool.path = p
    BY <1>1
  <2> HIDE DEF selected
  <2> QED BY <2>1, FinitelyManyPaths
<1>5. ExportRoutes(routes).routes = blocks
  BY DEF ExportRoutes
<1>6. DOMAIN blockOf = selected /\ \A p \in selected : blockOf[p].path = p
  OBVIOUS
<1>7. PICK order : OnePerPath(blocks, blockOf, order)
  <2> HIDE DEF blockOf, selected
  <2> QED BY <1>4, <1>6, BlocksInOrder
<1>8. blocks # <<>>
  <2>1. \E p : p \in selected
    <3>1. PICK i \in DOMAIN routes : ~routes[i].removed
      OBVIOUS
    <3>2. routes[i].tool.path \in Path
      BY <1>2, <1>3
    <3>3. keptMethods(routes, routes[i].tool.path) # {}
      BY <1>1, <3>1
    <3> QED BY <3>2, <3>3
  <2>2. DOMAIN blocks # {}
    <3> HIDE DEF blockOf, blocks, selected
    <3> QED BY <1>6, <1>7, <2>1 DEF OnePerPath
  <2>3. DOMAIN <<>> = {}
    OBVIOUS
  <2> HIDE DEF blocks
  <2> QED BY <2>2, <2>3
<1>9. /\ \A k \in DOMAIN blocks : blocks[k].path = route.path => route.path \in selected
      /\ route.path \in selected =>
           /\ firstBlock(blocks, route) \in DOMAIN blocks
           /\ blocks[firstBlock(blocks, route)] = blockOf[route.path]
  <2> HIDE DEF blockOf, blocks, selected
  <2> QED BY <1>6, <1>7, FoundBlock
<1> HIDE DEF blocks
<1>10. ExistsInMCP(ExportRoutes(routes), route) <=>
         route.path \in selected /\ route.method \in keptMethods(routes, route.path)
  <2>1. CASE route.path \in selected
    <3>1. blocks[firstBlock(blocks, route)] =
            [path |-> route.path, methods |-> keptMethods(routes, route.path)]
      BY <1>9, <2>1
    <3> QED BY <1>5, <1>8, <1>9, <2>1, <3>1 DEF ExistsInMCP
  <2>2. CASE route.path \notin selected
    BY <1>5, <1>8, <1>9, <2>2 DEF ExistsInMCP
  <2> QED BY <2>1, <2>2
<1>11. route.method \in keptMethods(routes, route.path) => route.path \in selected
  BY <1>3
<1>12. \A i \in DOMAIN routes :
         routes[i].tool.path = route.path /\ routes[i].tool.method = route.method
           => routes[i].tool = route
  BY <1>2, SameRoute
<1> QED BY <1>1, <1>10, <1>11, <1>12

LEMMA InUpdates ==
  ASSUME NEW blocks, NEW o, NEW p
  PROVE  p \in updatesOf(blocks, o) <=>
           \E i \in DOMAIN blocks :
             /\ blocks[i].path = o.path
             /\ \E j \in DOMAIN blocks[i].updates :
                  p = <<i, j>> /\ blocks[i].updates[j].method = o.method
BY DEF updatesOf

\* The first description of a route on the list is the one written first in
\* the only block of its path.
LEMMA DescriptionRoundTrips ==
  ASSUME exportView \in Seq(RouteToolItem), NEW route \in AllRoutes
  PROVE  GetDescription(ExportRoutes(exportView), route, route.description) = shown(route)
<1> DEFINE routes == exportView
           updated == {q \in Path : described(routes, q) # <<>>}
           blockOf == [p \in updated |-> [path |-> p, updates |-> described(routes, p)]]
           blocks == inBlocks(blockOf)
           rows == described(routes, route.path)
           f == firstBlock(blocks, route)
           own == {p \in updatesOf(blocks, route) : p[1] = f}
           listed == {i \in DOMAIN routes :
                        routes[i].tool = route /\ routes[i].newDescription # Unset}
<1>1. route.path \in Path /\ \A i \in DOMAIN routes : routes[i].tool \in AllRoutes
  BY RouteTypes, ItemRoutes
<1>2. \A i \in DOMAIN routes :
        describedAt(routes[i], route.path) /\ updateOf(routes[i]).method = route.method
          <=> i \in listed
  BY <1>1, SameRoute DEF describedAt, updateOf
<1>3. IsFiniteSet(updated)
  <2>1. ASSUME NEW p \in updated
        PROVE  \E i \in 1 .. Len(routes) : routes[i].tool.path = p
    <3>1. PICK at : Rows(described(routes, p), routes, p, Len(routes), at)
      BY DescribedRows
    <3>2. described(routes, p) \in Seq(Update) /\ described(routes, p) # <<>>
      BY <3>1 DEF Rows
    <3>3. 1 \in 1 .. Len(described(routes, p))
      BY <3>2
    <3>4. at[1] \in 1 .. Len(routes) /\ describedAt(routes[at[1]], p)
      BY <3>1, <3>3 DEF Rows
    <3> QED BY <3>4 DEF describedAt
  <2> HIDE DEF updated
  <2> QED BY <2>1, FinitelyManyPaths
<1>4. ExportRoutes(routes).descriptions = blocks
  BY DEF ExportRoutes
<1>5. DOMAIN blockOf = updated /\ \A p \in updated : blockOf[p].path = p
  OBVIOUS
<1>6. PICK order : OnePerPath(blocks, blockOf, order)
  <2> HIDE DEF blockOf, updated
  <2> QED BY <1>3, <1>5, BlocksInOrder
<1>7. /\ \A k \in DOMAIN blocks : blocks[k].path = route.path => route.path \in updated
      /\ route.path \in updated =>
           f \in DOMAIN blocks /\ blocks[f] = [path |-> route.path, updates |-> rows]
  <2>1. route.path \in updated => blockOf[route.path] = [path |-> route.path, updates |-> rows]
    OBVIOUS
  <2> HIDE DEF blockOf, blocks, updated
  <2> QED BY <1>5, <1>6, <2>1, FoundBlock
<1>8. PICK at : Rows(rows, routes, route.path, Len(routes), at)
  BY DescribedRows
<1>9. /\ Len(rows) \in Nat /\ DOMAIN rows = 1 .. Len(rows)
      /\ DOMAIN routes = 1 .. Len(routes) /\ Len(routes) \in Nat
      /\ \A j \in DOMAIN rows : /\ at[j] \in DOMAIN routes
                               /\ describedAt(routes[at[j]], route.path)
                               /\ rows[j] = updateOf(routes[at[j]])
  BY <1>8 DEF Rows
<1> HIDE DEF f
<1>10. ASSUME NEW p
       PROVE  p \in own <=> /\ route.path \in updated
                            /\ \E j \in DOMAIN rows : p = <<f, j>> /\ at[j] \in listed
  <2>1. CASE route.path \in updated
    <3>1. /\ f \in DOMAIN blocks /\ blocks[f].path = route.path /\ blocks[f].updates = rows
      <4> HIDE DEF blocks, rows, updated
      <4> QED BY <1>7, <2>1
    <3> HIDE DEF blocks, updated, rows, routes
    <3>2. p \in own <=> \E j \in DOMAIN rows : p = <<f, j>> /\ rows[j].method = route.method
      BY <3>1, InUpdates
    <3>3. \A j \in DOMAIN rows : rows[j].method = route.method <=> at[j] \in listed
      <4> HIDE DEF listed
      <4> QED BY <1>2, <1>9
    <3> QED BY <2>1, <3>2, <3>3
  <2>2. CASE route.path \notin updated
    <3> HIDE DEF blocks, updated
    <3> QED BY <1>7, <2>2, InUpdates
  <2> QED BY <2>1, <2>2
<1>11. ASSUME NEW i \in listed
       PROVE  route.path \in updated /\ \E j \in DOMAIN rows : at[j] = i
  <2>1. i \in DOMAIN routes /\ describedAt(routes[i], route.path)
    BY <1>2
  <2>2. \E j \in DOMAIN rows : at[j] = i
    <3> HIDE DEF rows, routes
    <3> QED BY <1>8, <1>9, <2>1 DEF Rows
  <2>3. rows # <<>>
    <3> HIDE DEF rows
    <3> QED BY <1>9, <2>2
  <2> QED BY <1>1, <2>2, <2>3
<1>12. CASE listed = {}
  <2>1. own = {}
    <3> HIDE DEF listed, own
    <3> QED BY <1>10, <1>12
  <2>2. GetDescription(ExportRoutes(routes), route, route.description) = route.description
    BY <1>4, <2>1 DEF GetDescription, f
  <2> QED BY <1>12, <2>2 DEF shown
<1>13. CASE listed # {}
  <2> DEFINE p == earliest(own)
  <2>1. own \subseteq Nat \X Nat /\ own # {}
    <3>1. route.path \in updated /\ f \in Nat
      <4> HIDE DEF listed, updated, blocks
      <4>1. DOMAIN blocks \subseteq Nat
        BY <1>6 DEF OnePerPath
      <4> QED BY <1>7, <1>11, <1>13, <4>1
    <3>2. own # {}
      <4>1. PICK i \in listed : TRUE
        BY <1>13
      <4>2. PICK j \in DOMAIN rows : at[j] = i
        BY <1>11
      <4>3. <<f, j>> \in own
        <5> HIDE DEF listed, own, updated, rows
        <5> QED BY <1>10, <3>1, <4>2
      <4> QED BY <4>3
    <3>3. \A q \in own : q \in Nat \X Nat
      <4> HIDE DEF listed, own, updated, rows
      <4> QED BY <1>9, <1>10, <3>1
    <3> HIDE DEF own
    <3> QED BY <3>2, <3>3
  <2>2. p \in own /\ \A q \in own : p[1] < q[1] \/ (p[1] = q[1] /\ p[2] <= q[2])
    <3> HIDE DEF own
    <3> QED BY <2>1, EarliestExists
  <2> HIDE DEF p, own
  <2>3. PICK j \in DOMAIN rows : p = <<f, j>> /\ at[j] \in listed /\ route.path \in updated
    <3> HIDE DEF listed, updated, rows
    <3> QED BY <1>10, <2>2
  <2>4. \A i \in listed : at[j] <= i
    <3> SUFFICES ASSUME NEW i \in listed PROVE at[j] <= i
      OBVIOUS
    <3>1. PICK k \in DOMAIN rows : at[k] = i
      BY <1>11
    <3>2. <<f, k>> \in own
      <4> HIDE DEF listed, updated, rows
      <4> QED BY <1>10, <2>3, <3>1
    <3>3. j <= k
      <4> HIDE DEF rows
      <4> QED BY <1>9, <2>1, <2>2, <2>3, <3>2
    <3> HIDE DEF rows, routes, listed
    <3>4. j = k \/ at[j] < at[k]
      BY <1>8, <1>9, <3>3 DEF Rows
    <3> QED BY <1>9, <3>1, <3>4
  <2>5. GetDescription(ExportRoutes(routes), route, route.description)
          = routes[at[j]].newDescription
    <3>1. rows[j].description = routes[at[j]].newDescription
      <4> HIDE DEF rows, routes
      <4> QED BY <1>9 DEF updateOf
    <3>2. blocks[p[1]].updates[p[2]] = rows[j]
      <4> HIDE DEF blocks, rows, updated
      <4> QED BY <1>7, <2>3
    <3>3. own # {}
      BY <2>1
    <3>4. GetDescription(ExportRoutes(routes), route, route.description)
            = blocks[p[1]].updates[p[2]].description
      <4> USE DEF own, p, f
      <4> HIDE DEF blocks
      <4> QED BY <1>4, <3>3 DEF GetDescription
    <3> QED BY <3>1, <3>2, <3>4
  <2>6. shown(route) = routes[at[j]].newDescription
    <3>1. (CHOOSE i \in listed : \A k \in listed : i <= k) = at[j]
      <4>1. listed \subseteq Nat
        BY <1>9
      <4> HIDE DEF listed
      <4>2. \A i \in listed : (\A k \in listed : i <= k) <=> i = at[j]
        <5> SUFFICES ASSUME NEW i \in listed
                     PROVE  (\A k \in listed : i <= k) <=> i = at[j]
          OBVIOUS
        <5>1. i \in Nat /\ at[j] \in Nat /\ at[j] <= i
          BY <2>3, <2>4, <4>1
        <5>2. (\A k \in listed : i <= k) => i <= at[j]
          BY <2>3
        <5> QED BY <2>4, <5>1, <5>2
      <4> QED BY <2>3, <4>2
    <3> QED BY <1>13, <3>1 DEF shown
  <2> QED BY <2>5, <2>6
<1> QED BY <1>12, <1>13

(***************************************************************************)
(* Reading the file gives back the session: by the two lemmas, because the *)
(* file is always the one made of the list that was exported.              *)
(***************************************************************************)
ExportInv == page = "quit" => exportView = <<>> \/ file = ExportRoutes(exportView)

LEMMA ExportInvStep ==
  ASSUME ExportInv, [Next]_vars
  PROVE  ExportInv'
<1>1. CASE Quit \/ Export
  BY <1>1 DEF ExportInv, Quit, Export
<1>2. CASE Over \/ UNCHANGED vars
  BY <1>2 DEF ExportInv, Over, vars
<1>3. CASE FilterItems \/ FilterMatchesMsg
  BY <1>3 DEF ExportInv, FilterItems, FilterMatchesMsg, HearMatches
<1>4. CASE \/ Open \/ LeaveList \/ Finish \/ LeaveExport
           \/ OpenListItemMsg \/ DoneMsg \/ BackToMainMsg \/ StartFilter \/ AcceptFilter
           \/ \E t \in Terms \cup {AllRoutes} : TypeFilter(t)
           \/ \E i \in DOMAIN RouteConfigs : ToggleRemoved(i) \/ Edit(i)
           \/ \E draft \in Drafts : Save(draft)
  BY <1>4 DEF ExportInv, Open, LeaveList, Finish, LeaveExport, OpenListItemMsg, DoneMsg,
     BackToMainMsg, StartFilter, AcceptFilter, TypeFilter, ToggleRemoved, Edit, Save
<1> QED BY <1>1, <1>2, <1>3, <1>4 DEF Next

(***************************************************************************)
(* The file the session leaves behind says what the export page showed:    *)
(* the parser's lookups over it select the routes that were kept, unless   *)
(* none was, and find the description of every one of them.                *)
(***************************************************************************)
THEOREM FilesRoundTrip == Spec => []FileRoundTrips
<1>1. Init => ExportInv
  BY DEF Init, ExportInv
<1>2. TypeOK /\ ExportInv => FileRoundTrips
  <2> DEFINE kept == {r.tool : r \in {q \in ToSet(exportView) : ~q.removed}}
  <2> SUFFICES ASSUME TypeOK, ExportInv, page = "quit", kept # {}, NEW route \in AllRoutes
               PROVE  /\ ExistsInMCP(file, route) <=> route \in kept
                      /\ GetDescription(file, route, route.description) = shown(route)
    BY DEF FileRoundTrips
  <2>1. \A r : r \in kept <=> \E i \in DOMAIN exportView :
                               exportView[i].tool = r /\ ~exportView[i].removed
    BY DEF ToSet
  <2>2. exportView \in Seq(RouteToolItem)
    BY DEF TypeOK
  <2>3. file = ExportRoutes(exportView)
    <3>1. exportView # <<>>
      BY <2>1
    <3> QED BY <3>1 DEF ExportInv
  <2>4. \E i \in DOMAIN exportView : ~exportView[i].removed
    BY <2>1
  <2> HIDE DEF kept
  <2> QED BY <2>1, <2>2, <2>3, <2>4, SelectionRoundTrips, DescriptionRoundTrips
<1>3. ExportInv /\ [Next]_vars => ExportInv'
  BY ExportInvStep
<1> QED BY <1>1, <1>2, <1>3, SessionIsTyped, PTL DEF Spec
=============================================================================
