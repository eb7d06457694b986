--------------------------- MODULE ToolNamesProofs ---------------------------
(***************************************************************************)
(* Proofs about ToolNames for every document, every adjustments file and   *)
(* any number of reloads.  The search for a free suffix ends because there *)
(* are fewer used names than suffixes it may try (the pigeonhole           *)
(* principle), so what it returns is free; with usedToolNames being the    *)
(* names of routeTools, no two tools share one.                            *)
(***************************************************************************)
EXTENDS ToolNames, AdjustmentsProofs, FiniteSetTheorems, TLAPS

(***************************************************************************)
(* The naming loop.  NamesInv is inductive; besides the properties it says *)
(* that usedToolNames is finite and holds the published names.             *)
(***************************************************************************)
NamesInv ==
  /\ TypeOK
  /\ IsFiniteSet(usedToolNames)
  /\ usedToolNames = {routeTools[i].name : i \in DOMAIN routeTools}
  /\ NamesAreUnique
  /\ SuffixOnlyOnClash

\* Different suffixes make different names.
LEMMA SuffixedApart ==
  ASSUME NEW base \in ToolName, NEW i \in Nat
  PROVE  /\ suffixed(base, i) \in ToolName
         /\ \A j \in Nat : suffixed(base, i) = suffixed(base, j) => i = j
<1>1. base \in [stem : Stem, suffixes : Seq(Nat)] /\ base.suffixes \in Seq(Nat)
  BY DEF ToolName
<1>2. \A k \in Nat : /\ Append(base.suffixes, k) \in Seq(Nat)
                     /\ Append(base.suffixes, k)[Len(base.suffixes) + 1] = k
  BY <1>1
<1>3. \A k \in Nat : suffixed(base, k) \in ToolName
  BY <1>1, <1>2 DEF ToolName, suffixed
<1>4. \A k \in Nat : suffixed(base, k).suffixes = Append(base.suffixes, k)
  BY DEF suffixed
<1> QED BY <1>2, <1>3, <1>4

\* uniqueToolName returns a name nobody has, and the one asked for if it can.
LEMMA UniqueToolNameIsFree ==
  ASSUME NEW base \in ToolName, IsFiniteSet(usedToolNames)
  PROVE  /\ uniqueToolName(base) \in ToolName
         /\ uniqueToolName(base) \notin usedToolNames
         /\ uniqueToolName(base) = base \/ base \in usedToolNames
<1>1. CASE base \notin usedToolNames
  BY <1>1 DEF uniqueToolName
<1>2. CASE base \in usedToolNames
  <2> DEFINE c      == Cardinality(usedToolNames)
             tried  == 2 .. (c + 2)
             free   == {i \in tried : suffixed(base, i) \notin usedToolNames}
  <2>1. c \in Nat
    BY FS_CardinalityType
  <2>2. IsFiniteSet(tried) /\ Cardinality(tried) = c + 1
    BY <2>1, FS_Interval
  <2>3. free # {}
    <3> SUFFICES ASSUME free = {} PROVE FALSE
      OBVIOUS
    <3> DEFINE f == [i \in tried |-> suffixed(base, i)]
    <3>1. f \in [tried -> usedToolNames]
      OBVIOUS
    <3>2. c < Cardinality(tried)
      BY <2>1, <2>2
    <3> HIDE DEF f, tried
    <3>3. \E x, y \in tried : x # y /\ f[x] = f[y]
      BY <2>2, <3>1, <3>2, FS_PigeonHole
    <3> QED BY <2>1, <3>3, SuffixedApart DEF f, tried
  <2>4. PICK i \in free : \A n \in free : i <= n
    <3>1. free \subseteq Nat
      BY <2>1
    <3> QED BY <2>3, <3>1, LeastNatural
  <2>5. \A j \in 2 .. (i - 1) : suffixed(base, j) \in usedToolNames
    BY <2>1, <2>4
  <2> DEFINE chosen == CHOOSE k \in tried :
               /\ suffixed(base, k) \notin usedToolNames
               /\ \A j \in 2 .. (k - 1) : suffixed(base, j) \in usedToolNames
  <2>6. chosen \in tried /\ suffixed(base, chosen) \notin usedToolNames
    BY <2>4, <2>5
  <2>7. uniqueToolName(base) = suffixed(base, chosen)
    BY <1>2 DEF uniqueToolName
  <2>8. chosen \in Nat
    BY <2>1, <2>6
  <2> HIDE DEF chosen
  <2> QED BY <1>2, <2>6, <2>7, <2>8, SuffixedApart
<1> QED BY <1>1, <1>2

\* Every operation asks for some name.
LEMMA PreferredNameType ==
  ASSUME NEW o \in Operation, adjustments \in MCPAdjustments
  PROVE  preferredName(o) \in ToolName
<1>1. curatedName(o) \in ToolName \cup {Unset}
  BY LookupTypes, ToolNamesAssumption DEF curatedName
<1>2. fromId(o) \in ToolName \cup {Unset} /\ fromSummary(o) \in ToolName \cup {Unset}
  BY ToolNamesAssumption DEF fromId, fromSummary, Operation
<1>3. pathName[o.path][o.method] \in ToolName
  BY ToolNamesAssumption DEF Operation
<1> QED BY <1>1, <1>2, <1>3 DEF preferredName

LEMMA GenerateToolType ==
  ASSUME NEW o \in Operation, adjustments \in MCPAdjustments, IsFiniteSet(usedToolNames)
  PROVE  /\ generateTool(o) \in RouteTool
         /\ generateTool(o).op = o
         /\ generateTool(o).name = uniqueToolName(preferredName(o))
<1>1. uniqueToolName(preferredName(o)) \in ToolName
  BY PreferredNameType, UniqueToolNameIsFree
<1>2. toolDescription(o) \in Text \cup Operation
  <2> DEFINE desc == IF o.description # Unset THEN o.description ELSE o.summary
  <2>1. desc \in Text \cup {Unset} /\ o.summary \in Text \cup {Unset}
    BY DEF Operation
  <2>2. GetDescription(adjustments, o, desc) \in Text \cup {Unset, desc}
    BY LookupTypes
  <2> QED BY <2>1, <2>2 DEF toolDescription
<1>3. GetResponseTemplate(adjustments, o) \in Template \cup {Unset}
  BY LookupTypes
<1> QED BY <1>1, <1>2, <1>3 DEF generateTool, RouteTool

LEMMA NamesInit == Init => NamesInv
<1> SUFFICES ASSUME Init PROVE NamesInv
  OBVIOUS
<1>1. TypeOK
  BY DEF Init, TypeOK
<1> QED BY <1>1, FS_EmptySet DEF Init, NamesInv, NamesAreUnique, SuffixOnlyOnClash

LEMMA NamesProcess ==
  ASSUME NamesInv, NEW o \in todo, processOperation(o)
  PROVE  NamesInv'
<1>1. o \in Operation /\ adjustments \in MCPAdjustments
  BY ToolNamesAssumption DEF NamesInv, TypeOK
<1>2. todo' = todo \ {o} /\ UNCHANGED <<doc, adjustments>>
  BY DEF processOperation
<1>3. CASE ~ExistsInMCP(adjustments, o)
  <2>1. UNCHANGED <<routeTools, usedToolNames>>
    BY <1>3 DEF processOperation
  <2>2. TypeOK'
    BY <1>2, <2>1 DEF NamesInv, TypeOK
  <2>3. SuffixOnlyOnClash'
    BY <1>2, <2>1 DEF NamesInv, SuffixOnlyOnClash, preferredName, curatedName, fromId, fromSummary
  <2> QED BY <2>1, <2>2, <2>3 DEF NamesInv, NamesAreUnique
<1>4. CASE ExistsInMCP(adjustments, o)
  <2> DEFINE t == generateTool(o)
             n == Len(routeTools)
  <2>1. routeTools' = Append(routeTools, t) /\ usedToolNames' = usedToolNames \cup {t.name}
    BY <1>4 DEF processOperation
  <2>2. /\ t \in RouteTool /\ t.op = o /\ t.name = uniqueToolName(preferredName(o))
        /\ preferredName(o) \in ToolName
    BY <1>1, GenerateToolType, PreferredNameType DEF NamesInv
  <2>3. /\ t.name \in ToolName /\ t.name \notin usedToolNames
        /\ t.name = preferredName(o) \/ preferredName(o) \in usedToolNames
    BY <2>2, UniqueToolNameIsFree DEF NamesInv
  <2> HIDE DEF t
  <2>4. routeTools \in Seq(RouteTool) /\ n \in Nat
    BY DEF NamesInv, TypeOK
  <2>5. /\ Len(routeTools') = n + 1 /\ DOMAIN routeTools' = 1 .. (n + 1)
        /\ routeTools'[n + 1] = t /\ \A i \in 1 .. n : routeTools'[i] = routeTools[i]
        /\ routeTools' \in Seq(RouteTool)
    BY <2>1, <2>2, <2>4
  <2>6. DOMAIN routeTools = 1 .. n
    BY <2>4
  <2>7. TypeOK'
    BY <1>2, <2>1, <2>3, <2>5 DEF NamesInv, TypeOK
  <2>8. IsFiniteSet(usedToolNames')
    BY <2>1, FS_AddElement DEF NamesInv
  <2>9. usedToolNames' = {routeTools'[i].name : i \in DOMAIN routeTools'}
    BY <2>1, <2>4, <2>5, <2>6 DEF NamesInv
  <2>10. NamesAreUnique'
    <3>1. \A i \in 1 .. n : routeTools'[i].name \in usedToolNames
      BY <2>5, <2>6 DEF NamesInv
    <3> QED BY <3>1, <2>3, <2>4, <2>5, <2>6 DEF NamesInv, NamesAreUnique
  <2>11. SuffixOnlyOnClash'
    <3>1. \A q : preferredName(q)' = preferredName(q)
      BY <1>2 DEF preferredName, curatedName, fromId, fromSummary
    <3>2. ASSUME NEW i \in 1 .. n
          PROVE  \/ routeTools'[i].name = preferredName(routeTools'[i].op)
                 \/ \E j \in 1 .. (i - 1) : routeTools'[j].name = preferredName(routeTools'[i].op)
      <4>1. \A j \in 1 .. i : routeTools'[j] = routeTools[j]
        BY <2>4, <2>5
      <4>2. \/ routeTools[i].name = preferredName(routeTools[i].op)
            \/ \E j \in 1 .. (i - 1) : routeTools[j].name = preferredName(routeTools[i].op)
        BY <2>6 DEF NamesInv, SuffixOnlyOnClash
      <4> QED BY <4>1, <4>2
    <3>3. \/ t.name = preferredName(o)
          \/ \E j \in 1 .. n : routeTools'[j].name = preferredName(o)
      BY <2>3, <2>5, <2>6 DEF NamesInv
    <3>4. ASSUME NEW i \in 1 .. (n + 1)
          PROVE  \/ routeTools'[i].name = preferredName(routeTools'[i].op)
                 \/ \E j \in 1 .. (i - 1) : routeTools'[j].name = preferredName(routeTools'[i].op)
      <4>1. CASE i \in 1 .. n
        BY <3>2, <4>1
      <4>2. CASE i = n + 1
        BY <2>2, <2>4, <2>5, <3>3, <4>2
      <4> QED BY <2>4, <4>1, <4>2
    <3> QED BY <2>5, <3>1, <3>4 DEF SuffixOnlyOnClash
  <2> QED BY <2>7, <2>8, <2>9, <2>10, <2>11 DEF NamesInv
<1> QED BY <1>3, <1>4

LEMMA NamesReparse == ASSUME NamesInv, Reparse PROVE NamesInv'
<1>1. TypeOK'
  BY DEF Reparse, TypeOK
<1>2. usedToolNames' = {} /\ routeTools' = <<>>
  BY DEF Reparse
<1> QED BY <1>1, <1>2, FS_EmptySet DEF NamesInv, NamesAreUnique, SuffixOnlyOnClash

LEMMA NamesNext == NamesInv /\ [Next]_vars => NamesInv'
<1> SUFFICES ASSUME NamesInv, [Next]_vars PROVE NamesInv'
  OBVIOUS
<1>1. CASE Reparse
  BY <1>1, NamesReparse
<1>2. ASSUME NEW o \in todo, processOperation(o) PROVE NamesInv'
  BY <1>2, NamesProcess
<1>3. CASE UNCHANGED vars
  <2>1. TypeOK'
    BY <1>3 DEF NamesInv, TypeOK, vars
  <2>2. SuffixOnlyOnClash'
    BY <1>3 DEF NamesInv, SuffixOnlyOnClash, vars, preferredName, curatedName, fromId, fromSummary
  <2> QED BY <1>3, <2>1, <2>2 DEF NamesInv, NamesAreUnique, vars
<1> QED BY <1>1, <1>2, <1>3 DEF Next

LEMMA NamesCorrect == Spec => []NamesInv
BY NamesInit, NamesNext, PTL DEF Spec

\* Every tool has a name, a description and at most one template.
THEOREM ToolsAreTyped == Spec => []TypeOK
<1>1. NamesInv => TypeOK
  BY DEF NamesInv
<1> QED BY NamesCorrect, <1>1, PTL

\* No two tools of a service share a name, whatever the document asks for.
THEOREM NoToolIsHidden == Spec => []NamesAreUnique
<1>1. NamesInv => NamesAreUnique
  BY DEF NamesInv
<1> QED BY NamesCorrect, <1>1, PTL

\* A tool is renamed only when a tool before it has the name it asks for.
THEOREM NamesAreKept == Spec => []SuffixOnlyOnClash
<1>1. NamesInv => SuffixOnlyOnClash
  BY DEF NamesInv
<1> QED BY NamesCorrect, <1>1, PTL
-----------------------------------------------------------------------------
(***************************************************************************)
(* Curation.  Whatever the file repeats, the tools are what the lookups    *)
(* say of the operations that have been looked at; where it repeats        *)
(* nothing, there is one update to find and every lookup finds it.         *)
(***************************************************************************)
LookupInv ==
  /\ {t.op : t \in tools} = {o \in doc \ todo : ExistsInMCP(adjustments, o)}
  /\ \A t \in tools : /\ t.description = toolDescription(t.op)
                      /\ t.template = GetResponseTemplate(adjustments, t.op)

LEMMA LookupNext == NamesInv /\ LookupInv /\ [Next]_vars => LookupInv'
<1> SUFFICES ASSUME NamesInv, LookupInv, [Next]_vars PROVE LookupInv'
  OBVIOUS
<1>1. CASE Reparse
  <2>1. routeTools' = <<>> /\ todo' = doc'
    BY <1>1 DEF Reparse
  <2>2. tools' = {}
    BY <2>1 DEF tools
  <2> QED BY <2>1, <2>2 DEF LookupInv
<1>2. ASSUME NEW o \in todo, processOperation(o) PROVE LookupInv'
  <2>1. /\ todo' = todo \ {o} /\ UNCHANGED <<doc, adjustments>> /\ o \in doc
    BY <1>2 DEF processOperation, NamesInv, TypeOK
  <2>2. \A q : toolDescription(q)' = toolDescription(q)
    BY <2>1 DEF toolDescription
  <2>3. CASE ~ExistsInMCP(adjustments, o)
    <3>1. tools' = tools
      BY <1>2, <2>3 DEF processOperation, tools
    <3> QED BY <2>1, <2>2, <2>3, <3>1 DEF LookupInv
  <2>4. CASE ExistsInMCP(adjustments, o)
    <3> DEFINE t == generateTool(o)
               n == Len(routeTools)
    <3>1. /\ t.op = o /\ t.description = toolDescription(o)
          /\ t.template = GetResponseTemplate(adjustments, o)
          /\ routeTools' = Append(routeTools, t)
      BY <1>2, <2>4 DEF generateTool, processOperation
    <3> HIDE DEF t
    <3>2. routeTools \in Seq(RouteTool)
      BY DEF NamesInv, TypeOK
    <3>3. /\ DOMAIN routeTools' = 1 .. (n + 1) /\ DOMAIN routeTools = 1 .. n /\ n \in Nat
          /\ routeTools'[n + 1] = t /\ \A i \in 1 .. n : routeTools'[i] = routeTools[i]
      BY <3>1, <3>2
    <3>4. tools' = tools \cup {t}
      BY <3>3 DEF tools
    <3>5. {u.op : u \in tools'} = {u.op : u \in tools} \cup {o}
      BY <3>1, <3>4
    <3>6. {u.op : u \in tools'} = {q \in doc' \ todo' : ExistsInMCP(adjustments', q)}
      BY <2>1, <2>4, <3>5 DEF LookupInv
    <3> QED BY <2>1, <2>2, <3>1, <3>4, <3>6 DEF LookupInv
  <2> QED BY <2>3, <2>4
<1>3. CASE UNCHANGED vars
  BY <1>3 DEF vars, LookupInv, tools, toolDescription
<1> QED BY <1>1, <1>2, <1>3 DEF Next

Unrepeated(blocks) == \A i, j \in DOMAIN blocks : blocks[i].path = blocks[j].path => i = j

\* Without repeated blocks the first one of a path is the only one.
LEMMA OnlyBlock ==
  ASSUME NEW S, NEW blocks \in Seq(S), Unrepeated(blocks), NEW o,
         NEW i \in DOMAIN blocks, blocks[i].path = o.path
  PROVE  firstBlock(blocks, o) = i
<1>1. DOMAIN blocks = 1 .. Len(blocks) /\ Len(blocks) \in Nat
  OBVIOUS
<1>2. \A k \in 1 .. (i - 1) : blocks[k].path # o.path
  BY <1>1 DEF Unrepeated
<1> QED BY <1>2 DEF firstBlock, Unrepeated

\* Then a route is selected by the block of its path or not at all.
LEMMA SelectionIsRead ==
  ASSUME adjustments \in MCPAdjustments, Unrepeated(adjustments.routes), NEW o
  PROVE  ExistsInMCP(adjustments, o) <=> selected(o)
<1> DEFINE S == [path : Path, methods : SUBSET Method]
<1>1. adjustments.routes \in Seq(S)
  BY DEF MCPAdjustments
<1>2. \A i \in DOMAIN adjustments.routes :
        adjustments.routes[i].path = o.path => firstBlock(adjustments.routes, o) = i
  BY <1>1, OnlyBlock
<1> QED BY <1>2 DEF ExistsInMCP, selected

\* And of the updates of an operation there is at most one, which is found.
LEMMA OnlyUpdate ==
  ASSUME NEW S, NEW blocks \in Seq([path : Path, updates : Seq(S)]), Unambiguous(blocks), NEW o
  PROVE  /\ updatesOf(blocks, o) = {} <=> given(blocks, o) = {}
         /\ updatesOf(blocks, o) # {} =>
              LET p == earliest(updatesOf(blocks, o))
              IN  /\ p \in updatesOf(blocks, o) /\ p[1] = firstBlock(blocks, o)
                  /\ given(blocks, o) = {blocks[p[1]].updates[p[2]]}
         /\ \A p \in updatesOf(blocks, o) :
              p[1] = firstBlock(blocks, o) /\ given(blocks, o) = {blocks[p[1]].updates[p[2]]}
<1> DEFINE U == updatesOf(blocks, o)
           at(p) == blocks[p[1]].updates[p[2]]
<1>0. \A p \in U : \E i \in DOMAIN blocks : \E j \in DOMAIN blocks[i].updates :
        p = <<i, j>> /\ blocks[i].path = o.path /\ blocks[i].updates[j].method = o.method
  <2> DEFINE own(i) == {<<i, j>> : j \in {k \in DOMAIN blocks[i].updates :
                                           blocks[i].updates[k].method = o.method}}
  <2> SUFFICES ASSUME NEW p \in U
               PROVE  \E i \in DOMAIN blocks : \E j \in DOMAIN blocks[i].updates :
                        /\ p = <<i, j>> /\ blocks[i].path = o.path
                        /\ blocks[i].updates[j].method = o.method
    OBVIOUS
  <2>1. PICK i \in {k \in DOMAIN blocks : blocks[k].path = o.path} : p \in own(i)
    BY DEF updatesOf
  <2>2. \E j \in DOMAIN blocks[i].updates : p = <<i, j>> /\ blocks[i].updates[j].method = o.method
    BY <2>1
  <2> QED BY <2>1, <2>2
<1>a. U \subseteq Nat \X Nat
  BY UpdatesOfType
<1>1. \A p \in U : p[1] \in DOMAIN blocks /\ blocks[p[1]].path = o.path
  <2> HIDE DEF U
  <2> QED BY <1>0
<1>2. \A i \in DOMAIN blocks : \A j \in DOMAIN blocks[i].updates :
        blocks[i].path = o.path /\ blocks[i].updates[j].method = o.method => <<i, j>> \in U
  BY DEF updatesOf
<1>3. \A p, q \in U : p = q
  <2> SUFFICES ASSUME NEW p \in U, NEW q \in U PROVE p = q
    OBVIOUS
  <2>1. PICK i \in DOMAIN blocks : \E j \in DOMAIN blocks[i].updates :
          p = <<i, j>> /\ blocks[i].path = o.path /\ blocks[i].updates[j].method = o.method
    BY <1>0
  <2>2. PICK k \in DOMAIN blocks : \E j \in DOMAIN blocks[k].updates :
          q = <<k, j>> /\ blocks[k].path = o.path /\ blocks[k].updates[j].method = o.method
    BY <1>0
  <2>3. i = k
    BY <2>1, <2>2 DEF Unambiguous
  <2> QED BY <2>1, <2>2, <2>3 DEF Unambiguous
<1>4. given(blocks, o) = {at(p) : p \in U}
  <2>1. ASSUME NEW p \in U PROVE at(p) \in given(blocks, o)
    <3>1. PICK i \in DOMAIN blocks : \E j \in DOMAIN blocks[i].updates :
            p = <<i, j>> /\ blocks[i].path = o.path /\ blocks[i].updates[j].method = o.method
      BY <1>0
    <3>2. PICK j \in DOMAIN blocks[i].updates :
            p = <<i, j>> /\ blocks[i].updates[j].method = o.method
      BY <3>1
    <3>3. at(p) = blocks[i].updates[j]
      BY <3>2
    <3> HIDE DEF at
    <3>4. at(p) \in {blocks[i].updates[k] : k \in DOMAIN blocks[i].updates}
      BY <3>2, <3>3
    <3>5. at(p).method = o.method
      BY <3>2, <3>3
    <3> DEFINE B == {blocks[k] : k \in {l \in DOMAIN blocks : blocks[l].path = o.path}}
    <3>6. blocks[i] \in B
      BY <3>1
    <3>7. at(p) \in UNION {{b.updates[k] : k \in DOMAIN b.updates} : b \in B}
      BY <3>4, <3>6, Zenon
    <3> QED BY <3>5, <3>7 DEF given
  <2>2. ASSUME NEW u \in given(blocks, o) PROVE \E p \in U : u = at(p)
    <3>1. PICK i \in DOMAIN blocks : \E j \in DOMAIN blocks[i].updates :
            blocks[i].path = o.path /\ u = blocks[i].updates[j] /\ u.method = o.method
      BY DEF given
    <3>2. PICK j \in DOMAIN blocks[i].updates :
            blocks[i].path = o.path /\ u = blocks[i].updates[j] /\ u.method = o.method
      BY <3>1
    <3>3. <<i, j>> \in U /\ at(<<i, j>>) = u
      BY <1>2, <3>2
    <3> QED BY <3>3
  <2> HIDE DEF at, U
  <2> QED BY <2>1, <2>2
<1>5. \A p \in U : p[1] = firstBlock(blocks, o)
  <2> DEFINE B == [path : Path, updates : Seq(S)]
  <2>1. blocks \in Seq(B) /\ Unrepeated(blocks)
    BY DEF Unambiguous, Unrepeated
  <2> HIDE DEF B
  <2> QED BY <1>1, <2>1, OnlyBlock
<1>6. U # {} => earliest(U) \in U
  BY <1>a, EarliestExists
<1> HIDE DEF U, at
<1>7. ASSUME U # {}
      PROVE  /\ earliest(U) \in U /\ earliest(U)[1] = firstBlock(blocks, o)
             /\ given(blocks, o) = {at(earliest(U))}
  BY <1>3, <1>4, <1>5, <1>6, <1>7
<1>8. U = {} <=> given(blocks, o) = {}
  BY <1>4
<1>9. \A p \in U : given(blocks, o) = {at(p)}
  BY <1>3, <1>4
<1> QED BY <1>5, <1>7, <1>8, <1>9 DEF U, at

(***************************************************************************)
(* What was curated is what is published: CurationIsApplied, for every     *)
(* document and every file that says one thing of an operation.            *)
(***************************************************************************)
THEOREM CurationsApply == Spec => []CurationIsApplied
<1>1. Init => LookupInv
  BY DEF Init, LookupInv, tools
<1>2. NamesInv /\ LookupInv => CurationIsApplied
  <2> DEFINE D == adjustments.descriptions
             R == adjustments.responses
  <2> SUFFICES ASSUME NamesInv, LookupInv, Unambiguous(D), Unambiguous(R),
                      Unrepeated(adjustments.routes)
               PROVE  CurationIsApplied
    BY DEF CurationIsApplied, Unrepeated
  <2>1. adjustments \in MCPAdjustments
    BY ToolNamesAssumption DEF NamesInv, TypeOK
  <2>2. D \in Seq([path : Path, updates : Seq(Update)]) /\ R \in Seq([path : Path, updates : Seq(Shape)])
    BY <2>1 DEF MCPAdjustments
  <2> HIDE DEF D, R
  <2>3. {t.op : t \in tools} = {o \in doc \ todo : selected(o)}
    BY <2>1, SelectionIsRead DEF LookupInv
  <2>4. ASSUME NEW t \in tools, NEW u \in given(D, t.op), u.description # Unset
        PROVE  t.description = u.description
    <3> DEFINE o == t.op
               own == {p \in updatesOf(D, o) : p[1] = firstBlock(D, o)}
               p == earliest(updatesOf(D, o))
    <3>1. /\ updatesOf(D, o) # {} /\ own = updatesOf(D, o)
          /\ given(D, o) = {D[p[1]].updates[p[2]]}
      BY <2>2, <2>4, OnlyUpdate
    <3>2. u = D[p[1]].updates[p[2]]
      BY <2>4, <3>1
    <3> HIDE DEF p
    <3>3. \A original : GetDescription(adjustments, o, original) = u.description
      BY <3>1, <3>2 DEF GetDescription, D, p
    <3> QED BY <2>4, <3>3 DEF LookupInv, toolDescription
  <2>5. ASSUME NEW t \in tools, given(D, t.op) = {}, t.op.description # Unset
        PROVE  t.description = t.op.description
    <3>1. updatesOf(D, t.op) = {}
      BY <2>2, <2>5, OnlyUpdate
    <3>2. \A original : GetDescription(adjustments, t.op, original) = original
      BY <3>1 DEF GetDescription, D
    <3> QED BY <2>5, <3>2 DEF LookupInv, toolDescription
  <2>6. ASSUME NEW t \in tools
        PROVE  {t.template} \ {Unset} = {u.template : u \in given(R, t.op)} \ {Unset}
    <3> DEFINE p == earliest(updatesOf(R, t.op))
    <3>1. t.template = GetResponseTemplate(adjustments, t.op)
      BY DEF LookupInv
    <3>2. CASE updatesOf(R, t.op) = {}
      <4>1. given(R, t.op) = {} /\ t.template = Unset
        BY <2>2, <3>1, <3>2, OnlyUpdate DEF GetResponseTemplate, R
      <4> QED BY <4>1
    <3>3. CASE updatesOf(R, t.op) # {}
      <4>1. given(R, t.op) = {R[p[1]].updates[p[2]]}
        BY <2>2, <3>3, OnlyUpdate
      <4>2. t.template = R[p[1]].updates[p[2]].template
        BY <3>1, <3>3 DEF GetResponseTemplate, R
      <4> HIDE DEF p
      <4> QED BY <4>1, <4>2
    <3> QED BY <3>2, <3>3
  <2>7. ASSUME NEW t \in tools, NEW u \in given(D, t.op), u.name # Unset,
               sanitizeToolName[u.name] # Unset
        PROVE  \/ t.name = sanitizeToolName[u.name]
               \/ \E other \in tools \ {t} : other.name = sanitizeToolName[u.name]
    <3> DEFINE at(p) == D[p[1]].updates[p[2]]
               named == {p \in updatesOf(D, t.op) : at(p).name # Unset}
    <3>1. \A p \in updatesOf(D, t.op) : given(D, t.op) = {at(p)}
      BY <2>2, OnlyUpdate
    <3>2. named # {}
      <4>1. PICK p : p \in updatesOf(D, t.op)
        BY <2>2, <2>7, OnlyUpdate
      <4> QED BY <2>7, <3>1, <4>1
    <3>3. updatesOf(D, t.op) \subseteq Nat \X Nat
      BY <2>2, UpdatesOfType
    <3>4. earliest(named) \in named
      BY <3>2, <3>3, EarliestExists
    <3>5. at(earliest(named)) = u
      BY <2>7, <3>1, <3>4
    <3>6. GetName(adjustments, t.op) = u.name
      BY <3>2, <3>5 DEF GetName, D
    <3>7. preferredName(t.op) = sanitizeToolName[u.name]
      BY <2>7, <3>6 DEF preferredName, curatedName
    <3>8. PICK i \in DOMAIN routeTools : t = routeTools[i]
      BY <2>7 DEF tools
    <3>9. SuffixOnlyOnClash
      BY DEF NamesInv
    <3>10. \A j \in 1 .. (i - 1) : routeTools[j] \in tools
      BY DEF NamesInv, TypeOK, tools
    <3> QED BY <3>7, <3>8, <3>9, <3>10 DEF SuffixOnlyOnClash
  <2> QED BY <2>3, <2>4, <2>5, <2>6, <2>7 DEF CurationIsApplied, D, R
<1> QED BY <1>1, <1>2, LookupNext, NamesCorrect, PTL DEF Spec
-----------------------------------------------------------------------------
(***************************************************************************)
(* A list of tools is determined by its operations: they come in one       *)
(* order, and each tool follows from its operation and the names before.   *)
(***************************************************************************)
nameAfter(used, base) ==
  IF base \notin used THEN base
  ELSE suffixed(base, CHOOSE i \in 2 .. (Cardinality(used) + 2) :
         /\ suffixed(base, i) \notin used
         /\ \A j \in 2 .. (i - 1) : suffixed(base, j) \in used)

toolAfter(used, o) ==
  [op |-> o, name |-> nameAfter(used, preferredName(o)), description |-> toolDescription(o),
   template |-> GetResponseTemplate(adjustments, o)]

namesBefore(list, i) == {list[j].name : j \in 1 .. (i - 1)}
operationsOf(list)   == {list[i].op : i \in DOMAIN list}

IsParse(list) ==
  /\ list \in Seq(RouteTool)
  /\ \A i \in DOMAIN list : list[i] = toolAfter(namesBefore(list, i), list[i].op)
  /\ \A i, j \in DOMAIN list : i < j => precedes(list[i].op, list[j].op)

LEMMA PrecedesIsAsymmetric ==
  ASSUME NEW o \in Operation, NEW q \in Operation, precedes(o, q)
  PROVE  ~precedes(q, o)
<1>1. /\ o.path \in Path /\ q.path \in Path /\ o.method \in Method /\ q.method \in Method
      /\ rank[o.path] \in Nat /\ rank[q.path] \in Nat
  BY ToolNamesAssumption DEF Operation
<1>2. ASSUME NEW m \in Method PROVE methodRank(m) \in Nat
  <2>1. DOMAIN methodOrder \subseteq Nat
    BY DEF methodOrder
  <2>2. \E i \in DOMAIN methodOrder : methodOrder[i] = m
    BY ToolNamesAssumption
  <2> QED BY <2>1, <2>2 DEF methodRank
<1>3. methodRank(o.method) \in Nat /\ methodRank(q.method) \in Nat
  BY <1>1, <1>2
<1> HIDE DEF methodRank
<1> QED BY <1>1, <1>3 DEF precedes

\* Up to the first difference two parses agree, so there is none.
LEMMA ParsesAgree ==
  ASSUME NEW a, NEW b, IsParse(a), IsParse(b), operationsOf(a) = operationsOf(b)
  PROVE  a = b
<1> DEFINE same(i)  == i \in DOMAIN a /\ i \in DOMAIN b /\ a[i] = b[i]
           differ   == {i \in DOMAIN a \cup DOMAIN b : ~same(i)}
<1>1. /\ a \in Seq(RouteTool) /\ b \in Seq(RouteTool)
      /\ DOMAIN a = 1 .. Len(a) /\ DOMAIN b = 1 .. Len(b) /\ Len(a) \in Nat /\ Len(b) \in Nat
  BY DEF IsParse
<1>2. /\ \A i \in DOMAIN a : a[i].op \in Operation
      /\ \A i \in DOMAIN b : b[i].op \in Operation
  <2>1. /\ \A i \in DOMAIN a : a[i] \in RouteTool
        /\ \A i \in DOMAIN b : b[i] \in RouteTool
    BY <1>1
  <2> QED BY <2>1 DEF RouteTool
<1>3. differ = {}
  <2> SUFFICES ASSUME differ # {} PROVE FALSE
    OBVIOUS
  <2>1. PICK i \in differ : \A n \in differ : i <= n
    <3>1. differ \subseteq Nat
      BY <1>1
    <3> HIDE DEF differ
    <3> QED BY <3>1, LeastNatural
  <2>2. i \in Nat /\ i >= 1 /\ \A k \in 1 .. (i - 1) : same(k)
    <3>1. \A k \in 1 .. (i - 1) : k \in DOMAIN a \cup DOMAIN b /\ k \notin differ
      BY <1>1, <2>1
    <3> QED BY <1>1, <2>1, <3>1
  <2>3. \A o \in Operation : ~precedes(o, o)
    BY PrecedesIsAsymmetric
  <2>4. ASSUME i \in DOMAIN a
        PROVE  \E k \in DOMAIN b : k >= i /\ b[k].op = a[i].op
    <3>1. PICK k \in DOMAIN b : b[k].op = a[i].op
      BY <2>4 DEF operationsOf
    <3>2. ASSUME k < i PROVE FALSE
      <4>1. k \in DOMAIN a /\ a[k] = b[k]
        BY <1>1, <2>2, <3>2
      <4>2. precedes(a[k].op, a[i].op)
        BY <2>4, <3>2, <4>1 DEF IsParse
      <4> QED BY <1>2, <2>3, <2>4, <3>1, <4>1, <4>2
    <3> QED BY <1>1, <2>2, <3>1, <3>2
  <2>5. ASSUME i \in DOMAIN b
        PROVE  \E k \in DOMAIN a : k >= i /\ a[k].op = b[i].op
    <3>1. PICK k \in DOMAIN a : a[k].op = b[i].op
      BY <2>5 DEF operationsOf
    <3>2. ASSUME k < i PROVE FALSE
      <4>1. k \in DOMAIN b /\ a[k] = b[k]
        BY <1>1, <2>2, <3>2
      <4>2. precedes(b[k].op, b[i].op)
        BY <2>5, <3>2, <4>1 DEF IsParse
      <4> QED BY <1>2, <2>3, <2>5, <3>1, <4>1, <4>2
    <3> QED BY <1>1, <2>2, <3>1, <3>2
  <2>6. i \in DOMAIN a /\ i \in DOMAIN b
    <3>1. i \in DOMAIN a => i \in DOMAIN b
      BY <1>1, <2>2, <2>4
    <3>2. i \in DOMAIN b => i \in DOMAIN a
      BY <1>1, <2>2, <2>5
    <3> QED BY <2>1, <3>1, <3>2
  <2>7. a[i].op = b[i].op
    <3>1. PICK k \in DOMAIN b : k >= i /\ b[k].op = a[i].op
      BY <2>4, <2>6
    <3>2. PICK m \in DOMAIN a : m >= i /\ a[m].op = b[i].op
      BY <2>5, <2>6
    <3>3. CASE k = i \/ m = i
      BY <3>1, <3>2, <3>3
    <3>4. CASE k > i /\ m > i
      <4>1. precedes(b[i].op, a[i].op)
        BY <2>6, <3>1, <3>4 DEF IsParse
      <4>2. precedes(a[i].op, b[i].op)
        BY <2>6, <3>2, <3>4 DEF IsParse
      <4> QED BY <1>2, <2>6, <4>1, <4>2, PrecedesIsAsymmetric
    <3> QED BY <1>1, <2>2, <3>1, <3>2, <3>3, <3>4
  <2>8. namesBefore(a, i) = namesBefore(b, i)
    BY <2>2 DEF namesBefore
  <2>9. a[i] = b[i]
    <3>1. /\ a[i] = toolAfter(namesBefore(a, i), a[i].op)
          /\ b[i] = toolAfter(namesBefore(b, i), b[i].op)
      BY <2>6 DEF IsParse
    <3> QED BY <2>7, <2>8, <3>1
  <2> QED BY <2>1, <2>6, <2>9
<1>4. DOMAIN a = DOMAIN b /\ \A i \in DOMAIN a : a[i] = b[i]
  BY <1>3
<1>5. a = [i \in DOMAIN a |-> a[i]] /\ b = [i \in DOMAIN b |-> b[i]]
  BY <1>1
<1> QED BY <1>4, <1>5, Zenon

PreviousIsParse ==
  previous.doc = doc /\ previous.adjustments = adjustments =>
    /\ IsParse(previous.tools)
    /\ operationsOf(previous.tools) = {o \in doc : ExistsInMCP(adjustments, o)}

\* While a list is built it is a parse so far; the list before it was one of
\* its own document and file.
SameInv ==
  /\ IsParse(routeTools)
  /\ \A i \in DOMAIN routeTools : \A o \in todo : precedes(routeTools[i].op, o)
  /\ operationsOf(routeTools) = {o \in doc \ todo : ExistsInMCP(adjustments, o)}
  /\ PreviousIsParse

LEMMA SameProcess ==
  ASSUME NamesInv, SameInv, NEW o \in todo, processOperation(o)
  PROVE  SameInv'
<1>1. /\ todo' = todo \ {o} /\ UNCHANGED <<doc, adjustments, previous>> /\ o \in doc /\ isNext(o)
      /\ adjustments \in MCPAdjustments /\ o \in Operation /\ IsFiniteSet(usedToolNames)
  BY ToolNamesAssumption DEF processOperation, NamesInv, TypeOK
<1>2. \A used, q : toolAfter(used, q)' = toolAfter(used, q)
  BY <1>1 DEF toolAfter, preferredName, curatedName, fromId, fromSummary, toolDescription
<1>3. PreviousIsParse'
  BY <1>1, <1>2 DEF SameInv, PreviousIsParse, IsParse
<1>4. CASE ~ExistsInMCP(adjustments, o)
  <2>1. routeTools' = routeTools
    BY <1>4 DEF processOperation
  <2>2. IsParse(routeTools)'
    BY <1>2, <2>1 DEF SameInv, IsParse
  <2>3. operationsOf(routeTools)' = {q \in doc \ todo : ExistsInMCP(adjustments, q)}'
    BY <1>1, <1>4, <2>1 DEF SameInv, operationsOf
  <2> QED BY <1>1, <1>3, <2>1, <2>2, <2>3 DEF SameInv
<1>5. CASE ExistsInMCP(adjustments, o)
  <2> DEFINE t == generateTool(o)
             n == Len(routeTools)
             list == routeTools'
  <2>1. /\ t = toolAfter(usedToolNames, o) /\ t.op = o /\ t \in RouteTool
        /\ routeTools' = Append(routeTools, t)
    BY <1>1, <1>5, GenerateToolType
    DEF processOperation, generateTool, toolAfter, uniqueToolName, nameAfter
  <2> HIDE DEF t
  <2>2. routeTools \in Seq(RouteTool)
    BY DEF NamesInv, TypeOK
  <2>3. /\ DOMAIN list = 1 .. (n + 1) /\ DOMAIN routeTools = 1 .. n /\ n \in Nat
        /\ list[n + 1] = t /\ \A i \in 1 .. n : list[i] = routeTools[i]
        /\ list \in Seq(RouteTool)
    BY <2>1, <2>2
  <2> HIDE DEF list, n
  <2>4. \A i \in 1 .. n : namesBefore(list, i) = namesBefore(routeTools, i)
    BY <2>3 DEF namesBefore
  <2>5. namesBefore(list, n + 1) = usedToolNames
    BY <2>3 DEF namesBefore, NamesInv
  <2>6. \A i \in 1 .. (n + 1) : list[i] = toolAfter(namesBefore(list, i), list[i].op)
    <3>1. ASSUME NEW i \in 1 .. n PROVE list[i] = toolAfter(namesBefore(list, i), list[i].op)
      <4>1. routeTools[i] = toolAfter(namesBefore(routeTools, i), routeTools[i].op)
        BY <2>3 DEF SameInv, IsParse
      <4> QED BY <2>3, <2>4, <4>1
    <3>2. list[n + 1] = toolAfter(namesBefore(list, n + 1), list[n + 1].op)
      BY <2>1, <2>3, <2>5
    <3> QED BY <2>3, <3>1, <3>2
  <2>7. ASSUME NEW i \in 1 .. (n + 1), NEW j \in 1 .. (n + 1), i < j
        PROVE  precedes(list[i].op, list[j].op)
    <3>1. i \in 1 .. n /\ list[i] = routeTools[i]
      BY <2>3, <2>7
    <3>2. CASE j \in 1 .. n
      BY <2>3, <2>7, <3>1, <3>2 DEF SameInv, IsParse
    <3>3. CASE j = n + 1
      BY <2>1, <2>3, <3>1, <3>3 DEF SameInv
    <3> QED BY <2>3, <3>2, <3>3
  <2>8. IsParse(routeTools)'
    BY <1>2, <2>3, <2>6, <2>7 DEF IsParse, list
  <2>9. \A i \in DOMAIN list : \A q \in todo' : precedes(list[i].op, q)
    <3>1. \A q \in todo' : q \in todo /\ precedes(o, q)
      BY <1>1 DEF isNext
    <3>2. ASSUME NEW i \in 1 .. n, NEW q \in todo' PROVE precedes(list[i].op, q)
      BY <2>3, <3>1 DEF SameInv
    <3> QED BY <2>1, <2>3, <3>1, <3>2
  <2>10. operationsOf(list) = {q \in doc \ todo' : ExistsInMCP(adjustments, q)}
    <3>1. operationsOf(list) = operationsOf(routeTools) \cup {o}
      BY <2>1, <2>3 DEF operationsOf
    <3> QED BY <1>1, <1>5, <3>1 DEF SameInv
  <2> QED BY <1>1, <1>3, <2>8, <2>9, <2>10 DEF SameInv, list, operationsOf
<1> QED BY <1>4, <1>5

LEMMA SameReparse == ASSUME NamesInv, SameInv, Reparse PROVE SameInv'
<1>1. /\ todo = {} /\ todo' = doc' /\ routeTools' = <<>>
      /\ previous' = [doc |-> doc, adjustments |-> adjustments, tools |-> routeTools]
  BY DEF Reparse
<1>2. /\ previous'.doc = doc /\ previous'.adjustments = adjustments
      /\ previous'.tools = routeTools
  BY <1>1
<1>3. IsParse(routeTools)' /\ operationsOf(routeTools)' = {}
  BY <1>1 DEF IsParse, operationsOf
<1>4. ASSUME previous'.doc = doc', previous'.adjustments = adjustments'
      PROVE  /\ IsParse(previous.tools)'
             /\ operationsOf(previous.tools)' = {o \in doc' : ExistsInMCP(adjustments', o)}
  <2>1. UNCHANGED <<doc, adjustments>>
    BY <1>2, <1>4
  <2>2. \A used, q : toolAfter(used, q)' = toolAfter(used, q)
    BY <2>1 DEF toolAfter, preferredName, curatedName, fromId, fromSummary, toolDescription
  <2>3. IsParse(previous.tools)'
    BY <1>2, <2>2 DEF SameInv, IsParse
  <2> QED BY <1>1, <1>2, <2>1, <2>3 DEF SameInv, operationsOf
<1> QED BY <1>1, <1>3, <1>4 DEF SameInv, PreviousIsParse

(***************************************************************************)
(* An unchanged service publishes an unchanged list: SameInputSameTools,   *)
(* for every document and file, though the paths are in a map.             *)
(***************************************************************************)
THEOREM ReloadsReproduce == Spec => []SameInputSameTools
<1>1. Init => SameInv
  BY DEF Init, SameInv, PreviousIsParse, IsParse, operationsOf, NoParse
<1>2. NamesInv /\ SameInv /\ [Next]_vars => SameInv'
  <2> SUFFICES ASSUME NamesInv, SameInv, [Next]_vars PROVE SameInv'
    OBVIOUS
  <2>1. CASE UNCHANGED vars
    <3>1. \A used, q : toolAfter(used, q)' = toolAfter(used, q)
      BY <2>1
      DEF vars, toolAfter, preferredName, curatedName, fromId, fromSummary, toolDescription
    <3> QED BY <2>1, <3>1 DEF vars, SameInv, PreviousIsParse, IsParse
  <2> QED BY <2>1, SameProcess, SameReparse DEF Next
<1>3. SameInv => SameInputSameTools
  <2> SUFFICES ASSUME SameInv, todo = {}, doc = previous.doc, adjustments = previous.adjustments
               PROVE  routeTools = previous.tools
    BY DEF SameInputSameTools
  <2> QED BY ParsesAgree DEF SameInv, PreviousIsParse
<1> QED BY <1>1, <1>2, <1>3, NamesCorrect, PTL DEF Spec
=============================================================================
