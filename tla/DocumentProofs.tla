--------------------------- MODULE DocumentProofs ---------------------------
(***************************************************************************)
(* Proofs about the parser's documents.  DocumentLoad, for every document  *)
(* and every name: the search for a conformant name ends because the names *)
(* that can be in its way are those of the other components, which are     *)
(* fewer than the candidates (the pigeonhole principle).  The invariant    *)
(* follows the components through the phases: in their old form under      *)
(* their new name until rewriteRefs, rewritten afterwards.                 *)
(*                                                                         *)
(* SchemaMerge, for every schema and every value: what one schema made of  *)
(* several accepts.                                                        *)
(***************************************************************************)
EXTENDS SchemaMerge, FiniteSetTheorems, WellFoundedInduction, TLAPS

Fresh ==
  /\ \A n \in DOMAIN renames :
       /\ renames[n] \notin componentsOf(origin)
       /\ \E i \in 1 .. MaxCandidate : renames[n] = NameCandidate(n, i)
  /\ \A m, n \in DOMAIN renames : renames[m] = renames[n] => m = n

InPlace ==
  /\ \A n \in componentsOf(origin) : text.components[renamed(n)] = origin.components[n]
  /\ \A m \in Name :
       (\A n \in componentsOf(origin) : renamed(n) # m) => text.components[m] = Nothing
  /\ text.used = origin.used

Rewritten ==
  /\ \A n \in componentsOf(origin) :
       text.components[renamed(n)] = Readdress(origin.components[n], renaming)
  /\ \A m \in Name :
       (\A n \in componentsOf(origin) : renamed(n) # m) => text.components[m] = Nothing
  /\ text.used = {renamed(n) : n \in origin.used}

LoadInv ==
  /\ LoadTypeOK
  /\ Fresh
  /\ phase = "probe" => text = origin
  /\ phase \in {"probe", "normalise"} => renames = <<>>
  /\ phase \in {"normalise", "rename"} => InPlace
  /\ phase \in {"load", "loaded"} => Rewritten
-----------------------------------------------------------------------------
\* Documents are made of their fields.
LEMMA OriginType ==
  ASSUME LoadTypeOK
  PROVE  /\ origin \in Document /\ origin.used \subseteq Name
         /\ componentsOf(origin) \subseteq Name /\ IsFiniteSet(componentsOf(origin))
         /\ \A n \in componentsOf(origin) : origin.components[n] \in SchemaOf
<1>1. origin \in Document /\ IsFiniteSet(componentsOf(origin))
  BY DocumentAssumption DEF LoadTypeOK
<1>2. origin.components \in [Name -> SchemaOf \cup {Nothing}] /\ origin.used \subseteq Name
  BY <1>1 DEF Document
<1> QED BY <1>1, <1>2 DEF componentsOf

\* The map that rewriteRefs applies is a renaming.
LEMMA RenamingType ==
  ASSUME LoadInv
  PROVE  renaming \in Renaming
<1> DEFINE tries == [m \in Name \ Conformant |->
                       IF m \in DOMAIN renames
                         THEN CHOOSE i \in 1 .. MaxCandidate : renames[m] = NameCandidate(m, i)
                         ELSE 1]
<1>1. DOMAIN renames \subseteq Name \ Conformant
  BY OriginType DEF LoadInv, LoadTypeOK
<1>2. \A m \in DOMAIN renames :
        /\ tries[m] \in 1 .. MaxCandidate
        /\ renames[m] = NameCandidate(m, tries[m])
  BY <1>1 DEF LoadInv, Fresh
<1>3. tries \in [Name \ Conformant -> 1 .. MaxCandidate]
  <2>1. 1 \in 1 .. MaxCandidate
    BY DocumentAssumption
  <2>2. \A m \in Name \ Conformant : tries[m] \in 1 .. MaxCandidate
    <3> SUFFICES ASSUME NEW m \in Name \ Conformant PROVE tries[m] \in 1 .. MaxCandidate
      OBVIOUS
    <3>1. CASE m \in DOMAIN renames
      BY <1>2, <3>1
    <3>2. CASE m \notin DOMAIN renames
      BY <2>1, <3>2
    <3> QED BY <3>1, <3>2
  <2> QED BY <2>2
<1> HIDE DEF tries
<1>4. renaming = [m \in Name |-> IF m \in DOMAIN renames THEN NameCandidate(m, tries[m]) ELSE m]
  BY <1>1, <1>2 DEF renaming, renamed
<1> QED BY <1>1, <1>3, <1>4 DEF Renaming

\* No two components have one name at any time.
LEMMA Apart ==
  ASSUME LoadTypeOK, Fresh
  PROVE  NamesStayApart
BY DEF LoadTypeOK, Fresh, NamesStayApart, renamed

\* conformantName finds a name: a candidate of nobody.
LEMMA ConformantNameIsFree ==
  ASSUME LoadTypeOK, NEW n \in componentsOf(origin) \ Conformant, n \notin DOMAIN renames
  PROVE  /\ conformantName(n) \in Conformant
         /\ conformantName(n) \notin taken
         /\ \E i \in 1 .. MaxCandidate : conformantName(n) = NameCandidate(n, i)
<1> DEFINE others == componentsOf(origin) \ {n}
           tried  == 1 .. MaxCandidate
           free   == {i \in tried : NameCandidate(n, i) \notin taken}
<1>1. n \in Name /\ IsFiniteSet(componentsOf(origin))
  BY OriginType
<1>2. IsFiniteSet(others) /\ Cardinality(others) < MaxCandidate
  <2>1. Cardinality(componentsOf(origin)) <= MaxCandidate
    BY DocumentAssumption DEF LoadTypeOK
  <2>2. Cardinality(others) = Cardinality(componentsOf(origin)) - 1 /\ IsFiniteSet(others)
    BY <1>1, FS_RemoveElement
  <2>3. Cardinality(others) \in Nat /\ Cardinality(componentsOf(origin)) \in Nat
    BY <1>1, <2>2, FS_CardinalityType
  <2> QED BY <2>1, <2>2, <2>3, DocumentAssumption
<1>3. IsFiniteSet(tried) /\ Cardinality(tried) = MaxCandidate
  BY DocumentAssumption, FS_Interval
<1>4. \A i \in tried : NameCandidate(n, i) \in taken =>
        \E m \in others : renamed(m) = NameCandidate(n, i)
  <2> SUFFICES ASSUME NEW i \in tried, NameCandidate(n, i) \in taken
               PROVE  \E m \in others : renamed(m) = NameCandidate(n, i)
    OBVIOUS
  <2>1. NameCandidate(n, i) \in Conformant
    BY <1>1, DocumentAssumption
  <2>2. CASE NameCandidate(n, i) \in componentsOf(origin)
    <3>1. NameCandidate(n, i) \notin DOMAIN renames /\ NameCandidate(n, i) # n
      BY <2>1 DEF LoadTypeOK
    <3> QED BY <2>2, <3>1 DEF renamed
  <2>3. CASE NameCandidate(n, i) \in newNames
    <3>1. PICK m \in DOMAIN renames : renames[m] = NameCandidate(n, i)
      BY <2>3 DEF newNames
    <3> QED BY <3>1 DEF LoadTypeOK, renamed
  <2> QED BY <2>2, <2>3 DEF taken
<1>5. free # {}
  <2> SUFFICES ASSUME free = {} PROVE FALSE
    OBVIOUS
  <2> DEFINE blocker == [i \in tried |-> CHOOSE m \in others : renamed(m) = NameCandidate(n, i)]
  <2>1. \A i \in tried : blocker[i] \in others /\ renamed(blocker[i]) = NameCandidate(n, i)
    BY <1>4
  <2>2. blocker \in [tried -> others]
    BY <2>1
  <2> HIDE DEF blocker, tried, others
  <2>3. \E i, j \in tried : i # j /\ blocker[i] = blocker[j]
    BY <1>2, <1>3, <2>2, FS_PigeonHole
  <2> USE DEF tried
  <2> QED BY <1>1, <2>1, <2>3, DocumentAssumption
<1>6. PICK i \in free : \A j \in free : i <= j
  <2> DEFINE Less == OpToRel(<, Nat)
  <2>1. PICK i \in free : \A j \in free : ~ (<<j, i>> \in Less)
    <3>1. free \subseteq Nat
      OBVIOUS
    <3> HIDE DEF free, Less
    <3>2. IsWellFoundedOn(Less, Nat)
      BY NatLessThanWellFounded DEF Less
    <3> QED BY <1>5, <3>1, <3>2, WFMin
  <2>2. \A m, k \in Nat : k < m => <<k, m>> \in Less
    BY DEF OpToRel
  <2> HIDE DEF Less
  <2>3. free \subseteq Nat
    OBVIOUS
  <2> HIDE DEF free
  <2>4. \A j \in free : i \in Nat /\ j \in Nat /\ ~ (j < i)
    BY <2>1, <2>2, <2>3
  <2> QED BY <2>4
<1>7. i \in tried /\ NameCandidate(n, i) \notin taken
      /\ \A j \in 1 .. (i - 1) : NameCandidate(n, j) \in taken
  <2>1. i \in tried /\ i \in Nat /\ i <= MaxCandidate /\ NameCandidate(n, i) \notin taken
    BY <1>6, DocumentAssumption
  <2>2. ASSUME NEW j \in 1 .. (i - 1), NameCandidate(n, j) \notin taken PROVE FALSE
    <3>1. j \in tried /\ j < i
      BY <2>1, DocumentAssumption
    <3>2. j \in free
      BY <2>2, <3>1
    <3>3. i <= j
      BY <1>6, <3>2
    <3> QED BY <2>1, <3>1, <3>3
  <2> QED BY <2>1, <2>2
<1> DEFINE chosen == CHOOSE k \in tried :
             /\ NameCandidate(n, k) \notin taken
             /\ \A j \in 1 .. (k - 1) : NameCandidate(n, j) \in taken
<1>8. chosen \in tried /\ NameCandidate(n, chosen) \notin taken
  BY <1>7
<1>9. conformantName(n) = NameCandidate(n, chosen)
  BY DEF conformantName
<1> HIDE DEF chosen
<1> QED BY <1>1, <1>8, <1>9, DocumentAssumption
-----------------------------------------------------------------------------
LEMMA LoadInitial == LoadInit => LoadInv
<1> SUFFICES ASSUME LoadInit PROVE LoadInv
  OBVIOUS
<1>1. origin \in Document
  BY DocumentAssumption DEF LoadInit
<1>2. DOMAIN renames = {}
  BY DEF LoadInit
<1> QED BY <1>1, <1>2 DEF LoadInit, LoadInv, LoadTypeOK, Fresh

\* Before anything is renamed every component is where it was.
LEMMA Untouched ==
  ASSUME LoadInv, renames = <<>>, text.components = origin.components, text.used = origin.used
  PROVE  InPlace /\ Rewritten
<1>1. \A m \in Name : renamed(m) = m
  BY DEF renamed
<1>2. renaming = [m \in Name |-> m]
  BY <1>1 DEF renaming
<1>3. /\ componentsOf(origin) \subseteq Name /\ origin.used \subseteq Name
      /\ \A n \in componentsOf(origin) : origin.components[n] \in SchemaOf
  BY OriginType DEF LoadInv
<1>4. \A m \in Name : m \notin componentsOf(origin) => text.components[m] = Nothing
  BY DEF componentsOf
<1>5. InPlace
  BY <1>1, <1>3, <1>4 DEF InPlace
<1>6. text.used = {renamed(n) : n \in origin.used}
  BY <1>1, <1>3
<1>7. Rewritten
  BY <1>1, <1>2, <1>3, <1>4, <1>6, DocumentAssumption DEF Rewritten
<1> QED BY <1>5, <1>7

LEMMA ProbeKeeps == LoadInv /\ ProbeDocument => LoadInv'
<1> SUFFICES ASSUME LoadInv, ProbeDocument PROVE LoadInv'
  OBVIOUS
<1>1. /\ phase = "probe" /\ phase' \in {"refused", "loaded", "normalise", "load"}
      /\ UNCHANGED <<origin, lenient, text, renames, notices>>
  BY DEF ProbeDocument, Proceed
<1>2. InPlace /\ Rewritten
  BY <1>1, Untouched DEF LoadInv
<1>3. InPlace' /\ Rewritten'
  BY <1>1, <1>2 DEF InPlace, Rewritten, componentsOf, renamed, renaming
<1>4. LoadTypeOK' /\ Fresh'
  BY <1>1 DEF LoadInv, LoadTypeOK, Fresh, componentsOf
<1> QED BY <1>1, <1>3, <1>4 DEF LoadInv

LEMMA RedeclareKeeps == LoadInv /\ redeclareVersionIn => LoadInv'
<1> SUFFICES ASSUME LoadInv, redeclareVersionIn PROVE LoadInv'
  OBVIOUS
<1>1. /\ phase = "normalise" /\ phase' = "rename"
      /\ UNCHANGED <<origin, lenient, renames>>
  BY DEF redeclareVersionIn
<1>2. text \in Document
  BY DEF LoadInv, LoadTypeOK
<1>3. /\ text' \in {text, [text EXCEPT !.openapi = "3.1"]}
      /\ notices' \subseteq notices \cup {"version"}
  BY DEF redeclareVersionIn
<1>4. text' \in Document /\ text'.components = text.components /\ text'.used = text.used
  BY <1>2, <1>3 DEF Document
<1>5. InPlace'
  BY <1>1, <1>4 DEF LoadInv, InPlace, componentsOf, renamed
<1>6. LoadTypeOK' /\ Fresh'
  BY <1>1, <1>3, <1>4 DEF LoadInv, LoadTypeOK, Fresh, componentsOf
<1> QED BY <1>1, <1>5, <1>6 DEF LoadInv

LEMMA RenameKeeps ==
  ASSUME LoadInv, NEW n \in unrenamed, renameComponent(n)
  PROVE  LoadInv'
<1> DEFINE new == conformantName(n)
<1>1. /\ phase = "rename" /\ phase' = phase
      /\ UNCHANGED <<origin, lenient>>
      /\ text' = [text EXCEPT !.components =
                    [text.components EXCEPT ![new] = text.components[n], ![n] = Nothing]]
      /\ renames' = [m \in DOMAIN renames \cup {n} |-> IF m = n THEN new ELSE renames[m]]
      /\ notices' = notices \cup {"renamed"}
  BY DEF renameComponent
<1>2. text \in Document /\ text.components \in [Name -> SchemaOf \cup {Nothing}]
      /\ n \in Name /\ n \notin Conformant /\ text.components[n] # Nothing
  BY DEF LoadInv, LoadTypeOK, Document, unrenamed, componentsOf
<1>3. LoadTypeOK /\ Fresh /\ InPlace /\ NamesStayApart
  BY <1>1, Apart DEF LoadInv
\* n is a component that has its own name still.
<1>4. n \in componentsOf(origin) /\ n \notin DOMAIN renames
  <2>1. PICK m \in componentsOf(origin) : renamed(m) = n
    BY <1>2, <1>3 DEF InPlace
  <2> QED BY <1>2, <1>3, <2>1 DEF LoadTypeOK, renamed
<1>5. /\ new \in Conformant /\ new \in Name /\ new # n /\ new \notin taken
      /\ \E i \in 1 .. MaxCandidate : new = NameCandidate(n, i)
  BY <1>2, <1>3, <1>4, ConformantNameIsFree, DocumentAssumption
<1>6. new \notin componentsOf(origin) /\ \A m \in DOMAIN renames : renames[m] # new
  BY <1>5 DEF taken, newNames
<1> HIDE DEF new
<1>7. componentsOf(origin)' = componentsOf(origin)
  BY <1>1 DEF componentsOf
<1>8. DOMAIN renames' = DOMAIN renames \cup {n} /\ renames'[n] = new
      /\ \A m \in DOMAIN renames : renames'[m] = renames[m]
  BY <1>1, <1>4
<1>9. /\ text' \in Document /\ text'.used = text.used
      /\ text'.components[new] = text.components[n] /\ text'.components[n] = Nothing
      /\ \A m \in Name \ {n, new} : text'.components[m] = text.components[m]
  <2> DEFINE c == [text.components EXCEPT ![new] = text.components[n], ![n] = Nothing]
  <2>1. c \in [Name -> SchemaOf \cup {Nothing}]
    BY <1>2, <1>5
  <2>2. c[new] = text.components[n] /\ c[n] = Nothing
        /\ \A m \in Name \ {n, new} : c[m] = text.components[m]
    BY <1>2, <1>5
  <2> HIDE DEF c
  <2>3. text' = [text EXCEPT !.components = c]
    BY <1>1 DEF c
  <2>4. text' \in Document /\ text'.used = text.used /\ text'.components = c
    BY <1>2, <2>1, <2>3 DEF Document
  <2> QED BY <2>2, <2>4
<1>10. LoadTypeOK'
  BY <1>1, <1>3, <1>4, <1>2, <1>5, <1>7, <1>8, <1>9 DEF LoadTypeOK
<1>11. Fresh'
  BY <1>3, <1>5, <1>6, <1>7, <1>8 DEF Fresh
<1>12. renamed(n)' = new /\ renamed(n) = n
       /\ \A m \in Name \ {n} : renamed(m)' = renamed(m)
  BY <1>4, <1>8 DEF renamed
<1>13. \A m \in componentsOf(origin) \ {n} : renamed(m) # n /\ renamed(m) # new
       /\ renamed(m) \in Name
  <2>1. \A m \in componentsOf(origin) : renamed(m) \in Name
    BY <1>3, OriginType, DocumentAssumption DEF LoadTypeOK, renamed
  <2>2. \A m \in componentsOf(origin) \ {n} : renamed(m) # n
    BY <1>3, <1>4, <1>12 DEF NamesStayApart
  <2>3. \A m \in componentsOf(origin) : renamed(m) # new
    BY <1>6 DEF renamed
  <2> QED BY <2>1, <2>2, <2>3
<1>14. InPlace'
  <2>1. \A m \in componentsOf(origin) : text'.components[renamed(m)'] = origin.components[m]
    <3> SUFFICES ASSUME NEW m \in componentsOf(origin)
                 PROVE  text'.components[renamed(m)'] = origin.components[m]
      OBVIOUS
    <3>1. CASE m = n
      BY <1>3, <1>4, <1>9, <1>12, <3>1 DEF InPlace
    <3>2. CASE m # n
      <4>1. m \in Name /\ renamed(m)' = renamed(m)
        BY <1>3, <1>12, <3>2, OriginType
      <4>2. text'.components[renamed(m)] = text.components[renamed(m)]
        BY <1>9, <1>13, <3>2
      <4> QED BY <1>3, <4>1, <4>2 DEF InPlace
    <3> QED BY <3>1, <3>2
  <2>2. ASSUME NEW x \in Name, \A m \in componentsOf(origin) : renamed(m)' # x
        PROVE  text'.components[x] = Nothing
    <3>1. x # new
      BY <1>4, <1>12, <2>2
    <3>2. CASE x = n
      BY <1>9, <3>2
    <3>3. CASE x # n
      <4>1. \A m \in componentsOf(origin) : renamed(m) # x
        BY <1>3, <1>12, <2>2, <3>3, OriginType
      <4> QED BY <1>3, <1>9, <3>1, <3>3, <4>1 DEF InPlace
    <3> QED BY <3>2, <3>3
  <2>3. text'.used = origin.used
    BY <1>3, <1>9 DEF InPlace
  <2> QED BY <1>1, <1>7, <2>1, <2>2, <2>3 DEF InPlace
<1> QED BY <1>1, <1>10, <1>11, <1>14 DEF LoadInv

LEMMA RewriteKeeps == LoadInv /\ rewriteRefs => LoadInv'
<1> SUFFICES ASSUME LoadInv, rewriteRefs PROVE LoadInv'
  OBVIOUS
<1> DEFINE c == [n \in Name |-> IF text.components[n] = Nothing THEN Nothing
                                ELSE Readdress(text.components[n], renaming)]
           u == {renamed(n) : n \in text.used}
<1>1. /\ phase = "rename" /\ phase' = "load"
      /\ UNCHANGED <<origin, lenient, renames, notices>>
      /\ text' = [text EXCEPT !.components = c, !.used = u]
  BY DEF rewriteRefs
<1>2. LoadTypeOK /\ Fresh /\ InPlace /\ text \in Document
      /\ text.components \in [Name -> SchemaOf \cup {Nothing}] /\ text.used \subseteq Name
  BY <1>1 DEF LoadInv, LoadTypeOK, Document
<1>3. c \in [Name -> SchemaOf \cup {Nothing}]
  BY <1>2, RenamingType, DocumentAssumption
<1>4. \A n \in Name : renamed(n) \in Name
  BY <1>2, DocumentAssumption DEF LoadTypeOK, renamed
<1>5. u \subseteq Name
  BY <1>2, <1>4
<1>6. text' \in Document /\ text'.components = c /\ text'.used = u
  <2> HIDE DEF c, u
  <2> QED BY <1>1, <1>2, <1>3, <1>5 DEF Document
<1>7. \A n \in componentsOf(origin) : c[renamed(n)] = Readdress(origin.components[n], renaming)
  <2>1. \A n \in componentsOf(origin) :
          n \in Name /\ origin.components[n] \in SchemaOf /\ renamed(n) \in Name
    BY <1>2, <1>4, OriginType
  <2> QED BY <1>2, <2>1, DocumentAssumption DEF InPlace
<1>8. \A m \in Name : (\A n \in componentsOf(origin) : renamed(n) # m) => c[m] = Nothing
  BY <1>2 DEF InPlace
<1>9. u = {renamed(n) : n \in origin.used}
  BY <1>2 DEF InPlace
<1> HIDE DEF c, u
<1>10. Rewritten'
  BY <1>1, <1>6, <1>7, <1>8, <1>9 DEF Rewritten, componentsOf, renamed, renaming
<1>11. LoadTypeOK' /\ Fresh'
  BY <1>1, <1>2, <1>6 DEF LoadTypeOK, Fresh, componentsOf
<1> QED BY <1>1, <1>10, <1>11 DEF LoadInv

LEMMA ValidateKeeps == LoadInv /\ LoadAndValidate => LoadInv'
<1> SUFFICES ASSUME LoadInv, LoadAndValidate PROVE LoadInv'
  OBVIOUS
<1>1. /\ phase = "load" /\ phase' \in {"loaded", "refused"}
      /\ UNCHANGED <<origin, lenient, text, renames>>
      /\ notices' \subseteq notices \cup {"examples"}
  BY DEF LoadAndValidate
<1>2. Rewritten'
  BY <1>1 DEF LoadInv, Rewritten, componentsOf, renamed, renaming
<1>3. LoadTypeOK' /\ Fresh'
  BY <1>1 DEF LoadInv, LoadTypeOK, Fresh, componentsOf
<1> QED BY <1>1, <1>2, <1>3 DEF LoadInv

LEMMA LoadInductive == LoadSpec => []LoadInv
<1>1. LoadInv /\ [LoadStep]_loadVars => LoadInv'
  <2> SUFFICES ASSUME LoadInv, [LoadStep]_loadVars PROVE LoadInv'
    OBVIOUS
  <2>1. CASE LoadStep
    BY <2>1, ProbeKeeps, RedeclareKeeps, RenameKeeps, RewriteKeeps, ValidateKeeps DEF LoadStep
  <2>2. CASE UNCHANGED loadVars
    BY <2>2 DEF loadVars, LoadInv, LoadTypeOK, Fresh, InPlace, Rewritten, componentsOf,
                renamed, renaming
  <2> QED BY <2>1, <2>2
<1> QED BY <1>1, LoadInitial, PTL DEF LoadSpec

(***************************************************************************)
(* The names given out are conformant ones and the renamed components are  *)
(* components that needed a name, in every state of every load.            *)
(***************************************************************************)
THEOREM LoadsAreTyped == LoadSpec => []LoadTypeOK
<1>1. LoadInv => LoadTypeOK
  BY DEF LoadInv
<1> QED BY <1>1, LoadInductive, PTL

\* The loaded components are the document's, each under its new name.
LEMMA ComponentsRenamed ==
  ASSUME LoadInv, Rewritten
  PROVE  /\ componentsOf(text) = {renamed(n) : n \in componentsOf(origin)}
         /\ \A n \in componentsOf(origin) :
              /\ n \in Name /\ renamed(n) \in Name
              /\ origin.components[n] \in SchemaOf
<1>1. LoadTypeOK
  BY DEF LoadInv
<1>2. \A n \in componentsOf(origin) :
        renamed(n) \in Name /\ Readdress(origin.components[n], renaming) # Nothing
  <2>1. \A n \in componentsOf(origin) : n \in Name /\ origin.components[n] \in SchemaOf
    BY <1>1, OriginType
  <2>2. \A n \in componentsOf(origin) : renamed(n) \in Name
    BY <1>1, <2>1, DocumentAssumption DEF LoadTypeOK, renamed
  <2>3. \A n \in componentsOf(origin) : Readdress(origin.components[n], renaming) \in SchemaOf
    BY <2>1, RenamingType, DocumentAssumption
  <2> QED BY <2>2, <2>3, DocumentAssumption
<1>3. componentsOf(text) = {renamed(n) : n \in componentsOf(origin)}
  BY <1>2 DEF Rewritten, componentsOf
<1> QED BY <1>1, <1>2, <1>3, OriginType

(***************************************************************************)
(* Renaming components changes nothing about what the document means:      *)
(* each is loaded once, under a name of its own, with its references to    *)
(* the components they named.                                              *)
(***************************************************************************)
THEOREM RenamingKeepsTheDocument == LoadSpec => []ComponentsSurvive
<1>1. LoadInv => ComponentsSurvive
  <2> SUFFICES ASSUME LoadInv, phase = "loaded" PROVE ComponentsSurvive
    BY DEF ComponentsSurvive
  <2>1. LoadTypeOK /\ Fresh /\ Rewritten
    BY DEF LoadInv
  <2> QED BY <2>1, Apart, ComponentsRenamed DEF Rewritten, ComponentsSurvive
<1> QED BY <1>1, LoadInductive, PTL
-----------------------------------------------------------------------------
(***************************************************************************)
(* Leniency.  The invariant says what each notice stands for: the version  *)
(* is redeclared, or a component renamed, when and only when it is         *)
(* reported; nothing else of the document changes.                         *)
(***************************************************************************)
Reported ==
  /\ text.decodes = origin.decodes /\ text.swagger = origin.swagger
  /\ text.inside = origin.inside /\ text.listInData = origin.listInData
  /\ text.badExample = origin.badExample /\ text.flawed = origin.flawed
  /\ phase \in {"probe", "normalise"} => text = origin /\ notices = {}
  /\ phase \in {"rename", "load"} =>
       /\ "examples" \notin notices
       /\ ("renamed" \in notices) = (DOMAIN renames # {})
       /\ ("version" \in notices) = (origin.openapi = "3.0" /\ has31Construct(origin))
       /\ text.openapi = IF "version" \in notices THEN "3.1" ELSE origin.openapi
  /\ phase = "load" => componentsOf(text) \subseteq Conformant

HonestInv == lenient => Reported /\ LenientIsHonest

LEMMA ProbeReports == LoadInv /\ HonestInv /\ ProbeDocument => HonestInv'
<1> SUFFICES ASSUME LoadInv, HonestInv, ProbeDocument, lenient
             PROVE  Reported' /\ LenientIsHonest'
  BY DEF HonestInv, ProbeDocument, Proceed
<1>1. /\ phase = "probe" /\ phase' \in {"refused", "loaded", "normalise"}
      /\ UNCHANGED <<origin, lenient, text, renames, notices>>
  BY DEF ProbeDocument, Proceed
<1>2. text = origin /\ notices = {} /\ Reported
  BY <1>1 DEF HonestInv, Reported
<1>3. Reported'
  BY <1>1, <1>2 DEF Reported
<1>4. phase' = "loaded" => origin.swagger # "none"
  BY <1>2 DEF ProbeDocument, Proceed
<1>5. phase' = "refused" => \/ ~origin.decodes \/ ~resolves(origin)
                            \/ origin.swagger = "other"
                            \/ origin.swagger = "none" /\ origin.openapi \in {"none", "other"}
  <2>1. origin.swagger \in {"none", "2.0", "other"}
    BY OriginType DEF LoadInv, Document
  <2> QED BY <1>2, <2>1 DEF ProbeDocument, Proceed
<1>6. LenientIsHonest'
  BY <1>1, <1>2, <1>4, <1>5 DEF LenientIsHonest, resolves, componentsOf
<1> QED BY <1>3, <1>6

LEMMA RedeclareReports == LoadInv /\ HonestInv /\ redeclareVersionIn => HonestInv'
<1> SUFFICES ASSUME LoadInv, HonestInv, redeclareVersionIn, lenient
             PROVE  Reported' /\ LenientIsHonest'
  BY DEF HonestInv, redeclareVersionIn
<1>1. /\ phase = "normalise" /\ phase' = "rename"
      /\ UNCHANGED <<origin, lenient, renames>>
  BY DEF redeclareVersionIn
<1>2. text = origin /\ notices = {} /\ renames = <<>> /\ text \in Document
  BY <1>1 DEF HonestInv, Reported, LoadInv, LoadTypeOK
<1>3. LenientIsHonest'
  BY <1>1 DEF LenientIsHonest
<1>4. has31Construct(origin)' = has31Construct(origin) /\ DOMAIN renames' = {}
  BY <1>1, <1>2 DEF has31Construct, componentsOf
<1>5. CASE text.openapi = "3.0" /\ has31Construct(text)
  <2>1. text' = [text EXCEPT !.openapi = "3.1"] /\ notices' = {"version"}
    BY <1>2, <1>5 DEF redeclareVersionIn
  <2>2. /\ text'.openapi = "3.1"
        /\ text'.decodes = origin.decodes /\ text'.swagger = origin.swagger
        /\ text'.inside = origin.inside /\ text'.listInData = origin.listInData
        /\ text'.badExample = origin.badExample /\ text'.flawed = origin.flawed
    BY <1>2, <2>1 DEF Document
  <2> QED BY <1>1, <1>2, <1>3, <1>4, <1>5, <2>1, <2>2 DEF Reported
<1>6. CASE ~(text.openapi = "3.0" /\ has31Construct(text))
  <2>1. text' = origin /\ notices' = {}
    BY <1>2, <1>6 DEF redeclareVersionIn
  <2> QED BY <1>1, <1>2, <1>3, <1>4, <1>6, <2>1 DEF Reported
<1> QED BY <1>5, <1>6

LEMMA RenameReports ==
  ASSUME LoadInv, HonestInv, NEW n \in unrenamed, renameComponent(n)
  PROVE  HonestInv'
<1> SUFFICES ASSUME lenient PROVE Reported' /\ LenientIsHonest'
  BY DEF HonestInv, renameComponent
<1>1. /\ phase = "rename" /\ phase' = "rename"
      /\ UNCHANGED <<origin, lenient>>
      /\ n \in DOMAIN renames'
      /\ notices' = notices \cup {"renamed"}
  BY DEF renameComponent
<1>2. /\ text'.openapi = text.openapi /\ text'.inside = text.inside
      /\ text'.decodes = text.decodes /\ text'.swagger = text.swagger
      /\ text'.listInData = text.listInData /\ text'.badExample = text.badExample
      /\ text'.flawed = text.flawed
  BY DEF renameComponent, LoadInv, LoadTypeOK, Document
<1>3. has31Construct(origin)' = has31Construct(origin)
  BY <1>1 DEF has31Construct, componentsOf
<1>4. LenientIsHonest'
  BY <1>1 DEF LenientIsHonest
<1> QED BY <1>1, <1>2, <1>3, <1>4 DEF HonestInv, Reported

LEMMA RewriteReports == LoadInv /\ HonestInv /\ rewriteRefs => HonestInv'
<1> SUFFICES ASSUME LoadInv, HonestInv, rewriteRefs, lenient
             PROVE  Reported' /\ LenientIsHonest'
  BY DEF HonestInv, rewriteRefs
<1>1. /\ phase = "rename" /\ phase' = "load" /\ unrenamed = {}
      /\ UNCHANGED <<origin, lenient, renames, notices>>
  BY DEF rewriteRefs
<1>2. /\ text'.openapi = text.openapi /\ text'.inside = text.inside
      /\ text'.decodes = text.decodes /\ text'.swagger = text.swagger
      /\ text'.listInData = text.listInData /\ text'.badExample = text.badExample
      /\ text'.flawed = text.flawed
      /\ \A n \in Name : text.components[n] = Nothing => text'.components[n] = Nothing
  BY DEF rewriteRefs, LoadInv, LoadTypeOK, Document
<1>3. componentsOf(text)' \subseteq Conformant
  BY <1>1, <1>2 DEF unrenamed, componentsOf
<1>4. has31Construct(origin)' = has31Construct(origin)
  BY <1>1 DEF has31Construct, componentsOf
<1>5. LenientIsHonest'
  BY <1>1 DEF LenientIsHonest
<1> QED BY <1>1, <1>2, <1>3, <1>4, <1>5 DEF HonestInv, Reported

\* Without a notice nothing was changed.
LEMMA NothingChanged ==
  ASSUME LoadInv, Rewritten, Reported, DOMAIN renames = {}, text.openapi = origin.openapi
  PROVE  text = origin
<1>1. text \in Document /\ origin \in Document
  BY OriginType DEF LoadInv, LoadTypeOK
<1>2. renaming = [m \in Name |-> m] /\ \A m \in Name : renamed(m) = m
  BY DEF renaming, renamed
<1>3. \A m \in Name : text.components[m] = origin.components[m]
  <2> SUFFICES ASSUME NEW m \in Name PROVE text.components[m] = origin.components[m]
    OBVIOUS
  <2>1. CASE m \in componentsOf(origin)
    BY <1>2, <2>1, OriginType, DocumentAssumption DEF Rewritten, LoadInv
  <2>2. CASE m \notin componentsOf(origin)
    <3>1. origin.components[m] = Nothing
      BY <2>2 DEF componentsOf
    <3>2. \A k \in componentsOf(origin) : renamed(k) # m
      BY <1>2, <2>2, OriginType DEF LoadInv
    <3> QED BY <3>1, <3>2 DEF Rewritten
  <2> QED BY <2>1, <2>2
<1>4. text.components = origin.components
  BY <1>1, <1>3 DEF Document
<1>5. text.used = origin.used
  BY <1>2, OriginType DEF Rewritten, LoadInv
<1> QED BY <1>1, <1>4, <1>5 DEF Reported, Document

\* A document whose references lead somewhere is loaded with references that do.
LEMMA ReferencesResolve ==
  ASSUME LoadInv, Rewritten, Reported, resolves(origin),
         origin.inside \cap DOMAIN renames = {}
  PROVE  resolves(text)
<1>1. componentsOf(text) = {renamed(n) : n \in componentsOf(origin)}
  BY ComponentsRenamed
<1>2. ASSUME NEW n \in componentsOf(origin)
      PROVE  Children(text.components[renamed(n)]) \subseteq componentsOf(text)
  <2>1. origin.components[n] \in SchemaOf
    BY ComponentsRenamed
  <2>2. Children(text.components[renamed(n)])
          = {renaming[m] : m \in Children(origin.components[n])}
    <3>1. text.components[renamed(n)] = Readdress(origin.components[n], renaming)
      BY DEF Rewritten
    <3>2. renaming \in Renaming
      BY RenamingType
    <3>3. \A f \in Renaming : Children(Readdress(origin.components[n], f))
                                = {f[m] : m \in Children(origin.components[n])}
      BY <2>1, DocumentAssumption
    <3> QED BY <3>1, <3>2, <3>3
  <2>3. Children(origin.components[n]) \subseteq componentsOf(origin)
    BY DEF resolves
  <2>4. \A m \in componentsOf(origin) : renaming[m] = renamed(m)
    BY ComponentsRenamed DEF renaming
  <2> QED BY <1>1, <2>2, <2>3, <2>4
<1>3. text.used \subseteq componentsOf(text)
  BY <1>1 DEF Rewritten, resolves
<1>4. text.inside \subseteq componentsOf(text)
  BY <1>1 DEF Reported, resolves, renamed
<1> QED BY <1>1, <1>2, <1>3, <1>4 DEF resolves

LEMMA ValidateReports == LoadInv /\ HonestInv /\ LoadAndValidate => HonestInv'
<1> SUFFICES ASSUME LoadInv, HonestInv, LoadAndValidate, lenient
             PROVE  Reported' /\ LenientIsHonest'
  BY DEF HonestInv, LoadAndValidate
<1>1. /\ phase = "load" /\ phase' \in {"loaded", "refused"}
      /\ UNCHANGED <<origin, lenient, text, renames>>
  BY DEF LoadAndValidate
<1>2. Reported /\ Rewritten
  BY <1>1 DEF HonestInv, LoadInv
<1>3. Reported'
  BY <1>1, <1>2 DEF Reported
<1>4. CASE phase' = "loaded"
  <2>1. /\ conforms(text, FALSE)
        /\ notices' = IF conforms(text, TRUE) THEN notices ELSE notices \cup {"examples"}
    BY <1>4 DEF LoadAndValidate
  <2>2. notices' = {} => text = origin /\ conforms(text, TRUE)
    <3> SUFFICES ASSUME notices' = {} PROVE text = origin /\ conforms(text, TRUE)
      OBVIOUS
    <3>1. notices = {} /\ conforms(text, TRUE)
      BY <2>1
    <3>2. DOMAIN renames = {} /\ text.openapi = origin.openapi
      BY <1>1, <1>2, <3>1 DEF Reported
    <3> QED BY <1>2, <3>1, <3>2, NothingChanged
  <2>3. conforms(origin, TRUE) /\ ~origin.listInData => notices' = {}
    <3> SUFFICES ASSUME conforms(origin, TRUE), ~origin.listInData PROVE notices' = {}
      OBVIOUS
    <3>1. "version" \notin notices /\ text.openapi = origin.openapi
      BY <1>1, <1>2 DEF Reported, conforms, has31Construct
    <3>2. DOMAIN renames = {}
      BY DEF LoadInv, LoadTypeOK, conforms
    <3>3. text = origin
      BY <1>2, <3>1, <3>2, NothingChanged
    <3>4. notices = {}
      BY <1>1, <1>2, <3>1, <3>2 DEF Reported, LoadInv, LoadTypeOK
    <3> QED BY <2>1, <3>3, <3>4
  <2>4. conforms(origin, TRUE)' = conforms(origin, TRUE)
    BY <1>1 DEF conforms, componentsOf
  <2>5. origin' = origin /\ text' = text /\ phase' # "refused"
    BY <1>1, <1>4
  <2> HIDE DEF conforms
  <2>6. LenientIsHonest'
    BY <2>2, <2>3, <2>4, <2>5 DEF LenientIsHonest
  <2> QED BY <1>3, <2>6
<1>5. CASE phase' = "refused"
  <2>0. resolves(origin)' = resolves(origin)
    BY <1>1 DEF resolves, componentsOf
  <2> SUFFICES ASSUME ~origin.flawed, resolves(origin), origin.inside \cap DOMAIN renames = {}
               PROVE  FALSE
    BY <1>1, <1>3, <1>5, <2>0 DEF LenientIsHonest
  <2>1. resolves(text)
    BY <1>2, ReferencesResolve
  <2>2. text.openapi = "3.0" => \A n \in componentsOf(text) : ~Uses31(text.components[n])
    <3> SUFFICES ASSUME text.openapi = "3.0", NEW n \in componentsOf(origin)
                 PROVE  ~Uses31(text.components[renamed(n)])
      BY <1>2, ComponentsRenamed
    <3>1. ~has31Construct(origin)
      BY <1>1, <1>2 DEF Reported
    <3>2. ~Uses31(origin.components[n]) /\ origin.components[n] \in SchemaOf
      BY <1>2, <3>1, ComponentsRenamed DEF has31Construct
    <3>3. text.components[renamed(n)] = Readdress(origin.components[n], renaming)
      BY <1>2 DEF Rewritten
    <3>4. \A f \in Renaming : ~Uses31(Readdress(origin.components[n], f))
      BY <3>2, DocumentAssumption
    <3> QED BY <3>3, <3>4, RenamingType
  <2>3. conforms(text, FALSE)
    BY <1>1, <1>2, <2>2 DEF conforms, Reported
  <2> QED BY <1>5, <2>1, <2>3 DEF LoadAndValidate
<1> QED BY <1>1, <1>3, <1>4, <1>5

LEMMA HonestInductive == LoadSpec => []HonestInv
<1>1. LoadInit => HonestInv
  BY DEF LoadInit, HonestInv, Reported, LenientIsHonest
<1>2. LoadInv /\ HonestInv /\ [LoadStep]_loadVars => HonestInv'
  <2> SUFFICES ASSUME LoadInv, HonestInv, [LoadStep]_loadVars PROVE HonestInv'
    OBVIOUS
  <2>1. CASE LoadStep
    BY <2>1, ProbeReports, RedeclareReports, RenameReports, RewriteReports, ValidateReports
       DEF LoadStep
  <2>2. CASE UNCHANGED loadVars
    BY <2>2 DEF loadVars, HonestInv, Reported, LenientIsHonest, conforms, resolves,
                has31Construct, componentsOf
  <2> QED BY <2>1, <2>2
<1> QED BY <1>1, <1>2, LoadInductive, PTL DEF LoadSpec

(***************************************************************************)
(* Leniency is no hole: what is loaded without a notice is what strict     *)
(* mode would have loaded, and what is refused could not be repaired.      *)
(***************************************************************************)
THEOREM LeniencyIsReported == LoadSpec => []LenientIsHonest
<1>1. HonestInv => LenientIsHonest
  BY DEF HonestInv, LenientIsHonest
<1> QED BY <1>1, HonestInductive, PTL
-----------------------------------------------------------------------------
(***************************************************************************)
(* A published schema, one level of it: no reference, no allOf, exclusive  *)
(* bounds in the spelling of 2020-12, nothing about other fields.          *)
(***************************************************************************)
IsPublished(s) ==
  /\ s = [k \in DOMAIN AnySchema |-> s[k]]
  /\ \E T : s.types \in Seq(T)
  /\ s.properties = [f \in DOMAIN s.properties |-> s.properties[f]]
  /\ s.flag = FALSE /\ s.allOf = <<>> /\ s.additional # "none"

\* The members of a set, in some order.
LEMMA ListedInFull ==
  ASSUME NEW S, IsFiniteSet(S)
  PROVE  /\ DOMAIN SetToSeq(S) = 1 .. Cardinality(S)
         /\ Range(SetToSeq(S)) = S
         /\ SetToSeq(S) \in [DOMAIN SetToSeq(S) -> Range(SetToSeq(S))]
<1> DEFINE n == Cardinality(S)
<1>1. n \in Nat /\ ExistsBijection(1 .. n, S)
  BY FS_CardinalityType
<1>2. PICK g \in Bijection(1 .. n, S) : TRUE
  BY <1>1 DEF ExistsBijection
<1>3. g \in [1 .. n -> S] /\ IsInjective(g)
  BY <1>2 DEF Bijection, Injection
<1>4. SetToSeq(S) \in [1 .. n -> S] /\ IsInjective(SetToSeq(S))
  BY <1>3 DEF SetToSeq
<1> DEFINE f == SetToSeq(S)
<1> HIDE DEF f
<1>5. f \in Bijection(1 .. n, S)
  <2>1. IsFiniteSet(1 .. n) /\ Cardinality(1 .. n) = n
    BY <1>1, FS_Interval
  <2>2. f \in Injection(1 .. n, S)
    BY <1>4 DEF Injection, f
  <2>3. f \in Surjection(1 .. n, S)
    BY <2>1, <2>2, FS_Injection
  <2> QED BY <2>2, <2>3 DEF Bijection
<1> QED BY <1>4, <1>5 DEF f, Bijection, Surjection, Range

LEMMA RangeIsFinite ==
  ASSUME NEW T, NEW t \in Seq(T)
  PROVE  IsFiniteSet(Range(t))
<1>1. t \in Surjection(1 .. Len(t), Range(t))
  BY DEF Surjection, Range
<1>2. IsFiniteSet(1 .. Len(t))
  BY FS_Interval
<1> QED BY <1>1, <1>2, FS_Surjection

\* Every field of a value is one the schema has, all the way down.
declares(s, v, Declared(_, _)) ==
  v.type = "object" =>
    \A f \in DOMAIN v.fields :
      f \in DOMAIN s.properties /\ Declared(s.properties[f], v.fields[f])

\* The merge of two schemas, keyword by keyword.
LEMMA MergedKeywords ==
  ASSUME NEW p, NEW q, NEW Merged(_, _), IsPublished(p), IsPublished(q)
  PROVE  LET r == mergeBranch(p, q, Merged)
         IN  /\ IsPublished(r)
             /\ r.types = mergeBranchType(p.types, q.types)
             /\ r.enum = mergeBranchEnum(p.enum, q.enum)
             /\ r.required = p.required \cap q.required
             /\ r.properties = mergeFields(p.properties, q.properties, Merged)
             /\ \A key \in {"min", "above", "items", "oneOf", "anyOf"} : r[key] = p[key]
<1> DEFINE r == mergeBranch(p, q, Merged)
<1>0. DOMAIN AnySchema = {"types", "enum", "min", "flag", "above", "properties", "required",
                          "additional", "items", "allOf", "oneOf", "anyOf"}
  BY DEF AnySchema
<1>1. /\ r.types = mergeBranchType(p.types, q.types)
      /\ r.enum = mergeBranchEnum(p.enum, q.enum)
      /\ r.required = p.required \cap q.required
      /\ r.properties = mergeFields(p.properties, q.properties, Merged)
      /\ \A key \in {"min", "above", "items", "oneOf", "anyOf", "flag", "allOf", "additional"} :
           r[key] = p[key]
  BY <1>0 DEF mergeBranch, IsPublished
<1>2. r = [k \in DOMAIN AnySchema |-> r[k]]
  BY <1>0 DEF mergeBranch, IsPublished
<1>3. \E T : r.types \in Seq(T)
  <2>1. PICK A : p.types \in Seq(A)
    BY DEF IsPublished
  <2>2. PICK B : q.types \in Seq(B)
    BY DEF IsPublished
  <2>3. CASE p.types = <<>> \/ q.types = <<>>
    <3>1. r.types \in Seq(A)
      BY <1>1, <2>3 DEF mergeBranchType
    <3> QED BY <3>1
  <2>4. CASE p.types # <<>> /\ q.types # <<>>
    <3> DEFINE S == Range(p.types) \cup Range(q.types)
    <3>1. IsFiniteSet(S)
      <4>1. IsFiniteSet(Range(p.types)) /\ IsFiniteSet(Range(q.types))
        BY <2>1, <2>2, RangeIsFinite
      <4> QED BY <4>1, FS_Union
    <3>2. SetToSeq(S) \in Seq(S)
      <4> DEFINE t == SetToSeq(S)
      <4>1. DOMAIN t = 1 .. Cardinality(S) /\ Range(t) = S /\ t \in [DOMAIN t -> Range(t)]
        BY <3>1, ListedInFull
      <4>2. Cardinality(S) \in Nat
        BY <3>1, FS_CardinalityType
      <4> HIDE DEF t, S
      <4>3. t \in [1 .. Cardinality(S) -> S]
        BY <4>1
      <4>4. t \in Seq(S)
        BY <4>2, <4>3
      <4> QED BY <4>4 DEF t
    <3> QED BY <1>1, <2>4, <3>2 DEF mergeBranchType
  <2> QED BY <2>3, <2>4
<1>4. r.properties = [f \in DOMAIN r.properties |-> r.properties[f]]
  BY <1>1 DEF mergeFields
<1> QED BY <1>1, <1>2, <1>3, <1>4 DEF IsPublished

(***************************************************************************)
(* What scalarFacets carries over: of a schema with at most one type it    *)
(* turns no value away that was accepted, and it lets none in that the     *)
(* facets excluded, unless a minimum stood beside an exclusive one.        *)
(***************************************************************************)
THEOREM FacetsCarryOver ==
  ASSUME NEW s, NEW v, NEW Accepted(_, _), NEW T, s.types \in Seq(T), Len(s.types) <= 1
  PROVE  /\ permits(s, v, Accepted) => permits(scalarFacets(s), v, Accepted)
         /\ /\ permits(scalarFacets(s), v, Accepted)
            /\ s.min = Nothing \/ s.above = Nothing
            => /\ s.types # <<>> => v.type \in Range(s.types)
               /\ s.enum # {} => v \in s.enum
               /\ v.type = "number" =>
                    /\ s.min # Nothing => IF s.flag THEN v.num > s.min ELSE v.num >= s.min
                    /\ s.above # Nothing => v.num > s.above
<1> DEFINE r == scalarFacets(s)
<1>1. /\ r.types = IF s.types = <<>> THEN <<>> ELSE <<s.types[1]>>
      /\ r.enum = s.enum
      /\ r.min = IF s.above # Nothing \/ s.flag THEN Nothing ELSE s.min
      /\ r.above = IF s.above = Nothing /\ s.flag THEN s.min ELSE s.above
      /\ r.flag = FALSE /\ r.properties = <<>> /\ r.required = {} /\ r.additional = "unsaid"
      /\ r.items = Nothing /\ r.allOf = <<>> /\ r.oneOf = <<>> /\ r.anyOf = <<>>
  BY DEF scalarFacets, AnySchema
<1> HIDE DEF r
<1>2. r.types = s.types
  BY <1>1
<1>3. DOMAIN <<>> = {} /\ {i \in DOMAIN <<>> : Accepted(r.allOf[i], v)} = {}
  OBVIOUS
<1>4. permits(r, v, Accepted) <=>
        /\ s.types # <<>> => v.type \in Range(s.types)
        /\ s.enum # {} => v \in s.enum
        /\ v.type = "number" => /\ r.min # Nothing => v.num >= r.min
                                /\ r.above # Nothing => v.num > r.above
  BY <1>1, <1>2, <1>3 DEF permits
<1>5. permits(s, v, Accepted) =>
        /\ s.types # <<>> => v.type \in Range(s.types)
        /\ s.enum # {} => v \in s.enum
        /\ v.type = "number" =>
             /\ s.min # Nothing => IF s.flag THEN v.num > s.min ELSE v.num >= s.min
             /\ s.above # Nothing => v.num > s.above
  BY DEF permits
<1>6. permits(s, v, Accepted) => permits(r, v, Accepted)
  BY <1>1, <1>4, <1>5
<1>7. permits(r, v, Accepted) /\ (s.min = Nothing \/ s.above = Nothing) =>
        /\ s.types # <<>> => v.type \in Range(s.types)
        /\ s.enum # {} => v \in s.enum
        /\ v.type = "number" =>
             /\ s.min # Nothing => IF s.flag THEN v.num > s.min ELSE v.num >= s.min
             /\ s.above # Nothing => v.num > s.above
  BY <1>1, <1>4
<1> QED BY <1>6, <1>7 DEF r

(***************************************************************************)
(* An allOf is flattened by mergeSchema: of two published schemas that do  *)
(* not state the same facet or the same field, what is made accepts        *)
(* exactly the values that both accept, and is published like them.        *)
(***************************************************************************)
THEOREM AllOfIsBoth ==
  ASSUME NEW p, NEW q, NEW v, NEW Accepted(_, _), IsPublished(p), IsPublished(q),
         \A key \in {"types", "enum", "min", "above", "items", "oneOf", "anyOf"} :
           p[key] = AnySchema[key] \/ q[key] = AnySchema[key],
         DOMAIN p.properties \cap DOMAIN q.properties = {}
  PROVE  LET r == mergeSchema(p, q)
         IN  /\ IsPublished(r)
             /\ permits(r, v, Accepted) <=> permits(p, v, Accepted) /\ permits(q, v, Accepted)
<1> DEFINE r == mergeSchema(p, q)
<1>0. /\ DOMAIN AnySchema = {"types", "enum", "min", "flag", "above", "properties", "required",
                             "additional", "items", "allOf", "oneOf", "anyOf"}
      /\ AnySchema.types = <<>> /\ AnySchema.enum = {} /\ AnySchema.min = Nothing
      /\ AnySchema.above = Nothing /\ AnySchema.items = Nothing
      /\ AnySchema.oneOf = <<>> /\ AnySchema.anyOf = <<>>
      /\ AnySchema.flag = FALSE /\ AnySchema.allOf = <<>> /\ AnySchema.additional = "unsaid"
  BY DEF AnySchema
<1>1. DOMAIN p = DOMAIN AnySchema
  BY DEF IsPublished
<1>2. /\ r.properties = mergeFields(p.properties, q.properties, LAMBDA a, b : a)
      /\ r.required = p.required \cup q.required
      /\ \A key \in DOMAIN AnySchema \ {"properties", "required"} :
           r[key] = IF p[key] = AnySchema[key] THEN q[key] ELSE p[key]
      /\ r = [k \in DOMAIN AnySchema |-> r[k]]
  BY <1>0, <1>1 DEF mergeSchema
<1> HIDE DEF r
<1>3. \A t \in {p, q, r} : t.flag = FALSE /\ t.allOf = <<>> /\ t.additional # "none"
  <2>1. \A t \in {p, q} : t.flag = FALSE /\ t.allOf = <<>> /\ t.additional # "none"
    BY DEF IsPublished
  <2>2. r.flag = FALSE /\ r.allOf = <<>> /\ r.additional # "none"
    <3>1. r.flag \in {p.flag, q.flag}
      BY <1>0, <1>2
    <3>2. r.allOf \in {p.allOf, q.allOf}
      BY <1>0, <1>2
    <3>3. r.additional \in {p.additional, q.additional}
      BY <1>0, <1>2
    <3> QED BY <2>1, <3>1, <3>2, <3>3
  <2> QED BY <2>1, <2>2
<1>4. /\ r.properties = [f \in DOMAIN r.properties |-> r.properties[f]]
      /\ DOMAIN r.properties = DOMAIN p.properties \cup DOMAIN q.properties
      /\ \A f \in DOMAIN p.properties : r.properties[f] = p.properties[f]
      /\ \A f \in DOMAIN q.properties : r.properties[f] = q.properties[f]
  <2>1. r.properties = [f \in DOMAIN p.properties \cup DOMAIN q.properties |->
                          IF f \notin DOMAIN q.properties THEN p.properties[f]
                          ELSE IF f \notin DOMAIN p.properties THEN q.properties[f]
                          ELSE p.properties[f]]
    BY <1>2 DEF mergeFields
  <2>2. DOMAIN p.properties \cap DOMAIN q.properties = {}
    OBVIOUS
  <2> QED BY ONLY <2>1, <2>2
<1>5. IsPublished(r)
  <2>1. r.types = p.types \/ r.types = q.types
    BY <1>0, <1>2
  <2> QED BY <1>2, <1>3, <1>4, <2>1 DEF IsPublished
<1> DEFINE typed(T)     == T # <<>> => v.type \in Range(T)
           listed(E)    == E # {} => v \in E
           bounded(m)   == v.type = "number" => (m # Nothing => v.num >= m)
           exceeds(m)   == v.type = "number" => (m # Nothing => v.num > m)
           complete(R)  == v.type = "object" => R \subseteq DOMAIN v.fields
           filled(F)    == v.type = "object" => \A f \in DOMAIN F \cap DOMAIN v.fields :
                                                  Accepted(F[f], v.fields[f])
           elements(e)  == v.type = "array" /\ e # Nothing =>
                             \A i \in DOMAIN v.elems : Accepted(e, v.elems[i])
           single(U)    == U # <<>> => Cardinality({i \in DOMAIN U : Accepted(U[i], v)}) = 1
           chosen(U)    == U # <<>> => {i \in DOMAIN U : Accepted(U[i], v)} # {}
<1>6. \A t \in {p, q, r} : permits(t, v, Accepted) <=>
        /\ typed(t.types) /\ listed(t.enum) /\ bounded(t.min) /\ exceeds(t.above)
        /\ complete(t.required) /\ filled(t.properties) /\ elements(t.items)
        /\ single(t.oneOf) /\ chosen(t.anyOf)
  <2>1. \A t : {i \in DOMAIN <<>> : Accepted(t.allOf[i], v)} = {} /\ DOMAIN <<>> = {}
    OBVIOUS
  <2> QED BY <1>3, <2>1 DEF permits
<1>7. /\ typed(r.types) <=> typed(p.types) /\ typed(q.types)
      /\ listed(r.enum) <=> listed(p.enum) /\ listed(q.enum)
      /\ bounded(r.min) <=> bounded(p.min) /\ bounded(q.min)
      /\ exceeds(r.above) <=> exceeds(p.above) /\ exceeds(q.above)
      /\ elements(r.items) <=> elements(p.items) /\ elements(q.items)
      /\ single(r.oneOf) <=> single(p.oneOf) /\ single(q.oneOf)
      /\ chosen(r.anyOf) <=> chosen(p.anyOf) /\ chosen(q.anyOf)
  <2>1. /\ typed(<<>>) /\ listed({}) /\ bounded(Nothing) /\ exceeds(Nothing)
        /\ elements(Nothing) /\ single(<<>>) /\ chosen(<<>>)
    OBVIOUS
  <2> HIDE DEF typed, listed, bounded, exceeds, elements, single, chosen
  <2> QED BY <1>0, <1>2, <2>1
<1>8. complete(r.required) <=> complete(p.required) /\ complete(q.required)
  BY <1>2
<1>9. filled(r.properties) <=> filled(p.properties) /\ filled(q.properties)
  BY <1>4
<1> HIDE DEF typed, listed, bounded, exceeds, complete, filled, elements, single, chosen
<1>10. permits(r, v, Accepted) <=> permits(p, v, Accepted) /\ permits(q, v, Accepted)
  BY <1>6, <1>7, <1>8, <1>9
<1> QED BY <1>5, <1>10 DEF r

LEMMA LeastNatural ==
  ASSUME NEW S, S \subseteq Nat, S # {}
  PROVE  \E m \in S : \A n \in S : m <= n
<1> DEFINE Less == OpToRel(<, Nat)
<1>1. IsWellFoundedOn(Less, Nat)
  BY NatLessThanWellFounded
<1>2. \A m, n \in Nat : n < m => <<n, m>> \in Less
  BY DEF OpToRel
<1> HIDE DEF Less
<1>3. PICK m \in S : \A n \in S : ~ (<<n, m>> \in Less)
  BY <1>1, WFMin
<1>4. \A n \in S : n \in Nat /\ m \in Nat /\ ~ (n < m)
  BY <1>2, <1>3
<1> QED BY <1>4

(***************************************************************************)
(* "The union has to describe everything any branch accepts": of a field  *)
(* that several branches have, what one of them accepts and declares the   *)
(* merge of them all (mergeBranchProperty) accepts, however deep they are  *)
(* and however many, where they are alike in what is not widened.  P is a  *)
(* set of published schemas that holds their fields and their merges; the  *)
(* other hypotheses on it are the recursions SchemaConversion closes.      *)
(***************************************************************************)
THEOREM UnionsWiden ==
  ASSUME NEW P, NEW rank \in [P -> Nat],
         NEW Accepted(_, _), NEW Declared(_, _), NEW Merged(_, _), NEW Alike(_, _),
         \A s \in P :
           /\ IsPublished(s)
           /\ \A f \in DOMAIN s.properties :
                s.properties[f] \in P /\ rank[s.properties[f]] < rank[s]
           /\ \A v : /\ Accepted(s, v) <=> permits(s, v, Accepted)
                     /\ Declared(s, v) <=> declares(s, v, Declared),
         \A p, q \in P :
           /\ Merged(p, q) \in P
           /\ Merged(p, q) = mergeBranch(p, q, Merged)
           /\ Alike(p, q) <=> alikeBut(p, q, Alike),
         NEW b \in Seq(P), b # <<>>,
         \A i, j \in DOMAIN b : i < j => Alike(b[i], b[j]),
         NEW m, m[1] = b[1],
         \A i \in 1 .. Len(b) - 1 : m[i + 1] = Merged(m[i], b[i + 1])
  PROVE  \A i \in DOMAIN b : \A v :
           Accepted(b[i], v) /\ Declared(b[i], v)
             => Accepted(m[Len(b)], v) /\ Declared(m[Len(b)], v)
<1> DEFINE fits(s, v) == Accepted(s, v) /\ Declared(s, v)
\* The merge of two, keyword by keyword.
<1>1. ASSUME NEW p \in P, NEW q \in P
      PROVE  LET r == Merged(p, q)
             IN  /\ r.types = mergeBranchType(p.types, q.types)
                 /\ r.enum = mergeBranchEnum(p.enum, q.enum)
                 /\ r.required = p.required \cap q.required
                 /\ r.properties = mergeFields(p.properties, q.properties, Merged)
                 /\ \A key \in {"min", "above", "items", "oneOf", "anyOf"} : r[key] = p[key]
  <2> DEFINE r == mergeBranch(p, q, Merged)
  <2>1. IsPublished(p) /\ IsPublished(q) /\ Merged(p, q) = r
    OBVIOUS
  <2>2. /\ r.types = mergeBranchType(p.types, q.types)
        /\ r.enum = mergeBranchEnum(p.enum, q.enum)
        /\ r.required = p.required \cap q.required
        /\ r.properties = mergeFields(p.properties, q.properties, Merged)
        /\ \A key \in {"min", "above", "items", "oneOf", "anyOf"} : r[key] = p[key]
    BY <2>1, MergedKeywords
  <2> QED BY <2>1, <2>2
\* One level: what fits a field they share has to fit the merge of that field.
<1>2. ASSUME NEW p \in P, NEW q \in P, Alike(p, q), NEW v, NEW s \in {p, q}, fits(s, v),
             \A f \in DOMAIN p.properties \cap DOMAIN q.properties :
               fits(s.properties[f], v.fields[f])
                 => fits(Merged(p.properties[f], q.properties[f]), v.fields[f])
      PROVE  fits(Merged(p, q), v)
  <2> DEFINE r == Merged(p, q)
  <2>0. /\ r.types = mergeBranchType(p.types, q.types)
        /\ r.enum = mergeBranchEnum(p.enum, q.enum)
        /\ r.required = p.required \cap q.required
        /\ r.properties = mergeFields(p.properties, q.properties, Merged)
        /\ \A key \in {"min", "above", "items", "oneOf", "anyOf"} : r[key] = p[key]
        /\ r \in P /\ s \in P /\ IsPublished(r) /\ IsPublished(s)
    BY <1>1
  <2> HIDE DEF r
  <2>1. /\ s.types # <<>> => v.type \in Range(s.types)
        /\ s.enum # {} => v \in s.enum
        /\ v.type = "number" => /\ s.min # Nothing => v.num >= s.min
                                /\ s.above # Nothing => v.num > s.above
        /\ v.type = "object" => /\ s.required \subseteq DOMAIN v.fields
                                /\ \A f \in DOMAIN s.properties \cap DOMAIN v.fields :
                                     Accepted(s.properties[f], v.fields[f])
        /\ v.type = "array" /\ s.items # Nothing =>
             \A i \in DOMAIN v.elems : Accepted(s.items, v.elems[i])
        /\ s.oneOf # <<>> => Cardinality({i \in DOMAIN s.oneOf : Accepted(s.oneOf[i], v)}) = 1
        /\ s.anyOf # <<>> => {i \in DOMAIN s.anyOf : Accepted(s.anyOf[i], v)} # {}
    <3>1. permits(s, v, Accepted)
      BY <1>2, <2>0
    <3> QED BY <2>0, <3>1 DEF permits, IsPublished
  <2>2. /\ r.min = s.min /\ r.above = s.above /\ r.items = s.items
        /\ r.oneOf = s.oneOf /\ r.anyOf = s.anyOf
    <3>1. alikeBut(p, q, Alike)
      BY <1>2
    <3> QED BY <2>0, <3>1 DEF alikeBut
  <2>3. r.types # <<>> => v.type \in Range(r.types)
    <3> SUFFICES ASSUME p.types # <<>>, q.types # <<>>
                 PROVE  v.type \in Range(r.types)
      BY <2>0 DEF mergeBranchType
    <3>1. PICK A : p.types \in Seq(A)
      BY DEF IsPublished
    <3>2. PICK B : q.types \in Seq(B)
      BY DEF IsPublished
    <3>3. IsFiniteSet(Range(p.types) \cup Range(q.types))
      BY <3>1, <3>2, RangeIsFinite, FS_Union
    <3>4. Range(r.types) = Range(p.types) \cup Range(q.types)
      BY <2>0, <3>3, ListedInFull DEF mergeBranchType
    <3> QED BY <2>1, <3>4
  <2>4. r.enum # {} => v \in r.enum
    BY <2>0, <2>1 DEF mergeBranchEnum
  <2>5. ASSUME v.type = "object", NEW f \in DOMAIN v.fields
        PROVE  f \in DOMAIN r.properties /\ fits(r.properties[f], v.fields[f])
    <3>0. declares(s, v, Declared)
      BY <1>2, <2>0
    <3>1. f \in DOMAIN s.properties /\ fits(s.properties[f], v.fields[f])
      BY <2>1, <2>5, <3>0 DEF declares
    <3>2. CASE f \in DOMAIN p.properties \cap DOMAIN q.properties
      <4>1. r.properties[f] = Merged(p.properties[f], q.properties[f]) /\ f \in DOMAIN r.properties
        BY <2>0, <3>2 DEF mergeFields
      <4> QED BY <1>2, <3>1, <3>2, <4>1
    <3>3. CASE f \notin DOMAIN p.properties \cap DOMAIN q.properties
      <4>1. r.properties[f] = s.properties[f] /\ f \in DOMAIN r.properties
        BY <2>0, <3>1, <3>3 DEF mergeFields
      <4> QED BY <3>1, <4>1
    <3> QED BY <3>2, <3>3
  <2>6. v.type = "object" => r.required \subseteq DOMAIN v.fields
    BY <2>0, <2>1
  <2>7. permits(r, v, Accepted)
    <3>1. {i \in DOMAIN <<>> : Accepted(r.allOf[i], v)} = {} /\ DOMAIN <<>> = {}
      OBVIOUS
    <3>2. /\ r.oneOf # <<>> => Cardinality({i \in DOMAIN r.oneOf : Accepted(r.oneOf[i], v)}) = 1
          /\ r.anyOf # <<>> => {i \in DOMAIN r.anyOf : Accepted(r.anyOf[i], v)} # {}
      BY <2>1, <2>2
    <3>3. v.type = "number" => /\ r.min # Nothing => v.num >= r.min
                               /\ r.above # Nothing => v.num > r.above
      BY <2>1, <2>2
    <3>4. v.type = "array" /\ r.items # Nothing =>
            \A i \in DOMAIN v.elems : Accepted(r.items, v.elems[i])
      BY <2>1, <2>2
    <3>5. r.flag = FALSE /\ r.allOf = <<>> /\ r.additional # "none"
      BY <2>0 DEF IsPublished
    <3> QED BY <2>3, <2>4, <2>5, <2>6, <3>1, <3>2, <3>3, <3>4, <3>5 DEF permits
  <2>8. declares(r, v, Declared)
    BY <2>5 DEF declares
  <2> QED BY <2>0, <2>7, <2>8 DEF r
\* Two schemas, by the smallest that would be a counterexample.
<1>3. ASSUME NEW p \in P, NEW q \in P, Alike(p, q), NEW v, fits(p, v) \/ fits(q, v)
      PROVE  fits(Merged(p, q), v)
  <2> DEFINE wrong(x, y, w) == Alike(x, y) /\ (fits(x, w) \/ fits(y, w)) /\ ~fits(Merged(x, y), w)
             sizes == {n \in Nat : \E x, y \in P : \E w : rank[x] = n /\ wrong(x, y, w)}
  <2> SUFFICES ASSUME wrong(p, q, v) PROVE FALSE
    BY <1>3
  <2> HIDE DEF wrong
  <2>1. sizes \subseteq Nat /\ rank[p] \in sizes
    OBVIOUS
  <2>2. PICK n \in sizes : \A k \in sizes : n <= k
    BY <2>1, LeastNatural
  <2>3. PICK x \in P, y \in P : \E w : rank[x] = n /\ wrong(x, y, w)
    BY <2>2
  <2>4. PICK w : rank[x] = n /\ wrong(x, y, w)
    BY <2>3
  <2>5. ASSUME NEW f \in DOMAIN x.properties \cap DOMAIN y.properties
        PROVE  \A u : ~wrong(x.properties[f], y.properties[f], u)
    <3> SUFFICES ASSUME NEW u, wrong(x.properties[f], y.properties[f], u)
                 PROVE  FALSE
      OBVIOUS
    <3>1. x.properties[f] \in P /\ y.properties[f] \in P /\ rank[x.properties[f]] < n
      BY <2>4, <2>5
    <3>2. rank[x.properties[f]] \in Nat /\ n \in Nat
      BY <3>1
    <3>3. rank[x.properties[f]] \in sizes
      BY <3>1, <3>2
    <3> HIDE DEF sizes
    <3> QED BY <2>2, <3>1, <3>2, <3>3
  <2>6. \A f \in DOMAIN x.properties \cap DOMAIN y.properties :
          Alike(x.properties[f], y.properties[f])
    <3>1. alikeBut(x, y, Alike)
      BY <2>4 DEF wrong
    <3> QED BY <3>1 DEF alikeBut
  <2>7. ASSUME NEW s \in {x, y}, fits(s, w)
        PROVE  fits(Merged(x, y), w)
    <3>1. \A f \in DOMAIN x.properties \cap DOMAIN y.properties :
            fits(s.properties[f], w.fields[f])
              => fits(Merged(x.properties[f], y.properties[f]), w.fields[f])
      BY <2>5, <2>6, <2>7 DEF wrong
    <3>2. Alike(x, y)
      BY <2>4 DEF wrong
    <3>3. x \in P /\ y \in P
      OBVIOUS
    <3> HIDE DEF fits
    <3> QED BY ONLY <1>2, <2>7, <3>1, <3>2, <3>3
  <2> QED BY <2>4, <2>7 DEF wrong
\* What is like both is like their merge, the same way.
<1>4. ASSUME NEW p \in P, NEW q \in P, NEW o \in P, Alike(p, q), Alike(p, o), Alike(q, o)
      PROVE  Alike(Merged(p, q), o)
  <2> DEFINE wrong(x, y, z) == /\ Alike(x, y) /\ Alike(x, z) /\ Alike(y, z)
                               /\ ~Alike(Merged(x, y), z)
             sizes == {n \in Nat : \E x, y, z \in P : rank[x] = n /\ wrong(x, y, z)}
  <2> SUFFICES ASSUME wrong(p, q, o) PROVE FALSE
    BY <1>4
  <2> HIDE DEF wrong
  <2>1. sizes \subseteq Nat /\ rank[p] \in sizes
    OBVIOUS
  <2>2. PICK n \in sizes : \A k \in sizes : n <= k
    BY <2>1, LeastNatural
  <2>3. PICK x \in P, y \in P, z \in P : rank[x] = n /\ wrong(x, y, z)
    BY <2>2
  <2>4. /\ Alike(x, y) /\ Alike(x, z) /\ Alike(y, z) /\ ~Alike(Merged(x, y), z)
        /\ alikeBut(x, y, Alike) /\ alikeBut(x, z, Alike) /\ alikeBut(y, z, Alike)
    BY <2>3 DEF wrong
  <2> DEFINE r == Merged(x, y)
  <2>5. /\ r \in P /\ r.properties = mergeFields(x.properties, y.properties, Merged)
        /\ \A key \in {"min", "above", "items", "oneOf", "anyOf"} : r[key] = x[key]
    BY <1>1
  <2> HIDE DEF r
  <2>6. ASSUME NEW f \in DOMAIN r.properties \cap DOMAIN z.properties
        PROVE  Alike(r.properties[f], z.properties[f])
    <3>1. CASE f \in DOMAIN x.properties /\ f \notin DOMAIN y.properties
      <4>1. r.properties[f] = x.properties[f]
        BY <2>5, <3>1 DEF mergeFields
      <4> QED BY <2>4, <2>6, <3>1, <4>1 DEF alikeBut
    <3>2. CASE f \notin DOMAIN x.properties /\ f \in DOMAIN y.properties
      <4>1. r.properties[f] = y.properties[f]
        BY <2>5, <3>2 DEF mergeFields
      <4> QED BY <2>4, <2>6, <3>2, <4>1 DEF alikeBut
    <3>3. CASE f \in DOMAIN x.properties /\ f \in DOMAIN y.properties
      <4>1. r.properties[f] = Merged(x.properties[f], y.properties[f])
        BY <2>5, <3>3 DEF mergeFields
      <4>2. /\ x.properties[f] \in P /\ y.properties[f] \in P /\ z.properties[f] \in P
            /\ rank[x.properties[f]] < n
        BY <2>3, <2>6, <3>3
      <4>3. ~wrong(x.properties[f], y.properties[f], z.properties[f])
        <5>1. rank[x.properties[f]] \in Nat /\ n \in Nat
          BY <4>2
        <5>2. rank[x.properties[f]] \notin sizes
          <6> HIDE DEF sizes
          <6> QED BY <2>2, <4>2, <5>1
        <5> QED BY <4>2, <5>1, <5>2
      <4>4. /\ Alike(x.properties[f], y.properties[f])
            /\ Alike(x.properties[f], z.properties[f])
            /\ Alike(y.properties[f], z.properties[f])
        BY <2>4, <2>6, <3>3 DEF alikeBut
      <4> QED BY <4>1, <4>3, <4>4 DEF wrong
    <3>4. f \in DOMAIN x.properties \cup DOMAIN y.properties
      BY <2>5, <2>6 DEF mergeFields
    <3> QED BY <3>1, <3>2, <3>3, <3>4
  <2>7. r.properties = <<>> <=> z.properties = <<>>
    <3>1. DOMAIN mergeFields(x.properties, y.properties, Merged)
            = DOMAIN x.properties \cup DOMAIN y.properties
      BY DEF mergeFields
    <3>2. \A t \in P : t.properties = <<>> <=> DOMAIN t.properties = {}
      <4> SUFFICES ASSUME NEW t \in P PROVE t.properties = <<>> <=> DOMAIN t.properties = {}
        OBVIOUS
      <4>1. t.properties = [f \in DOMAIN t.properties |-> t.properties[f]]
        BY DEF IsPublished
      <4>2. DOMAIN t.properties = {} => t.properties = [f \in {} |-> t.properties[f]]
        BY <4>1
      <4>3. \A g : [f \in {} |-> g[f]] = <<>>
        OBVIOUS
      <4> QED BY <4>2, <4>3
    <3>3. \A t \in {y, z} : x.properties = <<>> <=> t.properties = <<>>
      BY <2>4 DEF alikeBut
    <3>4. DOMAIN r.properties = DOMAIN x.properties \cup DOMAIN y.properties
      <4>1. r.properties = mergeFields(x.properties, y.properties, Merged)
        BY <2>5
      <4> QED BY ONLY <3>1, <4>1
    <3>5. r \in P /\ x \in P /\ y \in P /\ z \in P
      BY <2>3, <2>5
    <3> QED BY <3>2, <3>3, <3>4, <3>5
  <2>8. \A key \in {"min", "above", "items", "oneOf", "anyOf"} : r[key] = z[key]
    BY <2>4, <2>5 DEF alikeBut
  <2>9. alikeBut(r, z, Alike)
    BY <2>6, <2>7, <2>8 DEF alikeBut
  <2> QED BY <2>3, <2>4, <2>5, <2>9 DEF r
\* Any number of them, by the first that would be left out.
<1>5. ASSUME NEW n \in DOMAIN b
      PROVE  /\ m[n] \in P
             /\ \A k \in DOMAIN b : n < k => Alike(m[n], b[k])
             /\ \A i \in 1 .. n : \A v : fits(b[i], v) => fits(m[n], v)
  <2> DEFINE right(k) == /\ m[k] \in P
                         /\ \A j \in DOMAIN b : k < j => Alike(m[k], b[j])
                         /\ \A i \in 1 .. k : \A v : fits(b[i], v) => fits(m[k], v)
             wrong == {k \in DOMAIN b : ~right(k)}
  <2> SUFFICES ASSUME wrong # {} PROVE FALSE
    BY <1>5
  <2>0. DOMAIN b = 1 .. Len(b) /\ Len(b) \in Nat
    OBVIOUS
  <2>1. PICK k \in wrong : \A j \in wrong : k <= j
    <3>1. wrong \subseteq Nat
      BY <2>0
    <3> HIDE DEF wrong
    <3> QED BY <3>1, LeastNatural
  <2>2. CASE k = 1
    <3>1. \A j \in DOMAIN b : 1 < j => Alike(b[1], b[j])
      BY <2>0, <2>1, <2>2
    <3>2. b[1] \in P /\ \A i \in 1 .. 1 : i = 1
      BY <2>0, <2>1, <2>2
    <3> HIDE DEF fits
    <3> QED BY <2>1, <2>2, <3>1, <3>2
  <2>3. CASE k # 1
    <3> DEFINE j == k - 1
    <3>0. k \in DOMAIN b
      OBVIOUS
    <3> HIDE DEF wrong
    <3>1. j \in DOMAIN b /\ j < k /\ j + 1 = k /\ k \in DOMAIN b /\ j \in 1 .. Len(b) - 1
      BY <2>0, <2>3, <3>0
    <3> HIDE DEF j, fits
    <3>2. right(j)
      <4>1. j \notin wrong
        BY <2>0, <2>1, <3>1
      <4> HIDE DEF right
      <4> QED BY <3>1, <4>1 DEF wrong
    <3>3. m[k] = Merged(m[j], b[k]) /\ m[j] \in P /\ b[k] \in P /\ Alike(m[j], b[k])
      BY <2>0, <3>1, <3>2
    <3>4. m[k] \in P
      BY <3>3
    <3>5. ASSUME NEW i \in DOMAIN b, k < i PROVE Alike(m[k], b[i])
      <4>1. Alike(m[j], b[i]) /\ Alike(b[k], b[i]) /\ b[i] \in P
        BY <3>1, <3>2, <3>5
      <4> QED BY <1>4, <3>3, <4>1
    <3>6. ASSUME NEW i \in 1 .. k, NEW v, fits(b[i], v) PROVE fits(m[k], v)
      <4>1. CASE i = k
        BY <1>3, <3>3, <3>6, <4>1 DEF fits
      <4>2. CASE i # k
        <5>1. fits(m[j], v)
          <6>1. i \in 1 .. j
            BY <2>0, <3>1, <4>2
          <6> QED BY <3>2, <3>6, <6>1
        <5> QED BY <1>3, <3>3, <5>1 DEF fits
      <4> QED BY <4>1, <4>2
    <3>7. right(k)
      BY <3>4, <3>5, <3>6
    <3> HIDE DEF right
    <3> QED BY <2>1, <3>7 DEF wrong
  <2> QED BY <2>2, <2>3
<1>6. Len(b) \in DOMAIN b /\ DOMAIN b = 1 .. Len(b)
  OBVIOUS
<1>7. \A i \in DOMAIN b : \A v : fits(b[i], v) => fits(m[Len(b)], v)
  <2> HIDE DEF fits
  <2> QED BY <1>5, <1>6
<1> QED BY <1>7
=============================================================================
