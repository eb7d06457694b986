---------------------------- MODULE DocumentLoad ----------------------------
(***************************************************************************)
(* From bytes to a loaded OpenAPI document: detectAndParseOpenAPI and what *)
(* lenient mode does to a document on the way (internal/parser/parser.go). *)
(*                                                                         *)
(* A document is what its probe decodes to.  Of the components only the    *)
(* schemas are kept: the other sections are renamed by the same loop.      *)
(* Loading, converting from 2.0 and validating belong to kin-openapi; how  *)
(* the parser uses them is modelled.                                       *)
(***************************************************************************)
EXTENDS FiniteSets, Naturals, Sequences

CONSTANTS
  Name,           \* names a component may have
  Conformant,     \* those of componentNameCharset
  NameCandidate(_, _),  \* conformantName's i-th candidate for a name
  MaxCandidate,   \* bound: candidates tried for one name
  nameRank,       \* [Name -> Nat]: the order of sort.Strings
  SchemaOf,       \* the schemas of a component (their children are Names)
  Nothing,        \* no component, an absent keyword
  Children(_),    \* the components a schema refers to
  Readdress(_, _),  \* a schema with its references sent through a function
  Uses31(_),      \* does it use "null" or a list as a type
  Files           \* the documents there may be

Document ==
  [decodes : BOOLEAN,        \* as JSON or YAML
   swagger : {"none", "2.0", "other"},
   openapi : {"none", "3.0", "3.1", "other"},
   components : [Name -> SchemaOf \cup {Nothing}],
   used : SUBSET Name,        \* by operations, for a body or a response
   inside : SUBSET Name,     \* components with a $ref to a part of them
   listInData : BOOLEAN,     \* an example or extension has a "type" list
   badExample : BOOLEAN,     \* an example disagrees with its schema
   flawed : BOOLEAN]         \* something else OpenAPI does not allow

VARIABLES
  origin,     \* the document that was read
  lenient,    \* p.lenient
  phase,      \* where detectAndParseOpenAPI is
  text,       \* jsonObj, then p.doc
  renames,    \* renameNonASCIIComponents: [old name -> new name]
  notices     \* p.notices, one of a kind

loadVars == <<origin, lenient, phase, text, renames, notices>>

componentsOf(d) == {n \in Name : d.components[n] # Nothing}

\* What lenient mode may do to the names.
Renaming ==
  {[m \in Name |-> IF m \in bad THEN NameCandidate(m, tries[m]) ELSE m] :
     bad \in SUBSET (Name \ Conformant), tries \in [Name \ Conformant -> 1 .. MaxCandidate]}

ASSUME DocumentAssumption ==
  /\ Nothing \notin SchemaOf
  /\ Conformant \subseteq Name
  /\ nameRank \in [Name -> Nat] /\ \A m, n \in Name : nameRank[m] = nameRank[n] => m = n
  /\ MaxCandidate \in Nat \ {0}
  /\ \A n \in Name, i \in 1 .. MaxCandidate :
       /\ NameCandidate(n, i) \in Conformant
       /\ \A j \in 1 .. MaxCandidate : NameCandidate(n, i) = NameCandidate(n, j) => i = j
  /\ \A s \in SchemaOf :
       /\ Readdress(s, [m \in Name |-> m]) = s
       /\ Children(s) \subseteq Name
       /\ \A f \in Renaming :
            /\ Readdress(s, f) \in SchemaOf
            /\ Children(Readdress(s, f)) = {f[m] : m \in Children(s)}
            /\ Uses31(Readdress(s, f)) <=> Uses31(s)
  /\ \A d \in Files :
       /\ d \in Document /\ IsFiniteSet(componentsOf(d))
       /\ componentsOf(d) \subseteq Conformant \/ Cardinality(componentsOf(d)) <= MaxCandidate

LoadTypeOK ==
  /\ origin \in Files /\ text \in Document /\ lenient \in BOOLEAN
  /\ phase \in {"probe", "normalise", "rename", "load", "loaded", "refused"}
  /\ DOMAIN renames \subseteq componentsOf(origin) \ Conformant
  /\ \A n \in DOMAIN renames : renames[n] \in Conformant
  /\ notices \subseteq {"version", "renamed", "examples"}

LoadInit ==
  /\ origin \in Files /\ text = origin
  /\ lenient \in BOOLEAN
  /\ phase = "probe"
  /\ renames = <<>> /\ notices = {}
renamed(n) == IF n \in DOMAIN renames THEN renames[n] ELSE n

renaming == [m \in Name |-> renamed(m)]
-----------------------------------------------------------------------------
Proceed(next) == phase' = next /\ UNCHANGED <<origin, lenient, text, renames, notices>>

\* The loader follows every reference.
resolves(d) ==
  /\ \A n \in componentsOf(d) : Children(d.components[n]) \subseteq componentsOf(d)
  /\ d.used \cup d.inside \subseteq componentsOf(d)

\* probeSpecDocument, the version fields, and convertOpenAPI2to3, whose result
\* nobody validates.
ProbeDocument ==
  /\ phase = "probe"
  /\ IF ~text.decodes \/ (text.swagger = "none" /\ text.openapi \in {"none", "other"})
       THEN Proceed("refused")
     ELSE IF text.swagger # "none"
       THEN Proceed(IF text.swagger = "2.0" /\ resolves(text) THEN "loaded" ELSE "refused")
     ELSE Proceed(IF lenient THEN "normalise" ELSE "load")

\* findJSONSchema31Construct walks the whole document, data included.
has31Construct(d) ==
  d.listInData \/ \E n \in componentsOf(d) : Uses31(d.components[n])

redeclareVersionSilently ==    \* mutant: the change is not reported
  /\ phase = "normalise"
  /\ text' = [text EXCEPT !.openapi =
                IF @ = "3.0" /\ has31Construct(text) THEN "3.1" ELSE @]
  /\ phase' = "rename"
  /\ UNCHANGED <<origin, lenient, renames, notices>>

redeclareVersionIn ==
  /\ phase = "normalise"
  /\ IF text.openapi = "3.0" /\ has31Construct(text)
       THEN /\ text' = [text EXCEPT !.openapi = "3.1"]
            /\ notices' = notices \cup {"version"}
       ELSE UNCHANGED <<text, notices>>
  /\ phase' = "rename"
  /\ UNCHANGED <<origin, lenient, renames>>

newNames == {renames[n] : n \in DOMAIN renames}

takenWithoutNew == componentsOf(origin)    \* mutant: names given out are not noted

\* Every name the section came with, and every one given out since.
taken == componentsOf(origin) \cup newNames

\* The first candidate that is free: among one more than there are names, one is.
conformantName(n) ==
  NameCandidate(n, CHOOSE i \in 1 .. MaxCandidate :
    /\ NameCandidate(n, i) \notin taken
    /\ \A j \in 1 .. (i - 1) : NameCandidate(n, j) \in taken)

unrenamed == componentsOf(text) \ Conformant

\* One round of renameNonASCIIComponents, in the order of the names.
renameComponent(n) ==
  /\ phase = "rename"
  /\ n \in unrenamed /\ \A m \in unrenamed : nameRank[n] <= nameRank[m]
  /\ LET replacement == conformantName(n)
     IN  /\ text' = [text EXCEPT !.components =
                       [@ EXCEPT ![replacement] = text.components[n], ![n] = Nothing]]
         /\ renames' = [m \in DOMAIN renames \cup {n} |->
                          IF m = n THEN replacement ELSE renames[m]]
  /\ notices' = notices \cup {"renamed"}
  /\ UNCHANGED <<origin, lenient, phase>>

\* A $ref to a part of a component is no key of renames.
rewriteRefs ==
  /\ phase = "rename" /\ unrenamed = {}
  /\ text' = [text EXCEPT
                !.components = [n \in Name |-> IF @[n] = Nothing THEN Nothing
                                               ELSE Readdress(@[n], renaming)],
                !.used = {renamed(n) : n \in @}]
  /\ phase' = "load"
  /\ UNCHANGED <<origin, lenient, renames, notices>>

\* doc.Validate, with and without the examples.
conforms(d, examples) ==
  /\ ~d.flawed
  /\ componentsOf(d) \subseteq Conformant
  /\ d.openapi = "3.0" => \A n \in componentsOf(d) : ~Uses31(d.components[n])
  /\ examples => ~d.badExample

\* LoadFromData, validateConformance and the notice for what it let pass.
LoadAndValidate ==
  /\ phase = "load"
  /\ IF resolves(text) /\ conforms(text, ~lenient)
       THEN /\ phase' = "loaded"
            /\ notices' = IF lenient /\ ~conforms(text, TRUE)
                            THEN notices \cup {"examples"} ELSE notices
       ELSE phase' = "refused" /\ UNCHANGED notices
  /\ UNCHANGED <<origin, lenient, text, renames>>

LoadStep ==
  \/ ProbeDocument \/ redeclareVersionIn
  \/ \E n \in unrenamed : renameComponent(n)
  \/ rewriteRefs \/ LoadAndValidate

LoadSpec == LoadInit /\ [][LoadStep]_loadVars
-----------------------------------------------------------------------------
(***************************************************************************)
(* "Renaming it - with every reference rewritten to match - changes        *)
(* nothing about what the document means": when a document is loaded every *)
(* component it came with is there once, under a name of its own, with its *)
(* references to the components they named.                                *)
(***************************************************************************)
NamesStayApart ==
  \A m, n \in componentsOf(origin) : renamed(m) = renamed(n) => m = n

ComponentsSurvive ==
  phase = "loaded" =>
    /\ NamesStayApart
    /\ componentsOf(text) = {renamed(n) : n \in componentsOf(origin)}
    /\ \A n \in componentsOf(origin) :
         text.components[renamed(n)] = Readdress(origin.components[n], renaming)
    /\ text.used = {renamed(n) : n \in origin.used}

(***************************************************************************)
(* Leniency is no hole: what is loaded without a notice is what strict     *)
(* mode would have loaded, and a document strict mode loads gets none (a   *)
(* list of types in an example is the exception).  What lenient mode       *)
(* refuses is no document, is flawed, or has references it cannot follow,  *)
(* which it came with unless they lead into a component it renamed.        *)
(***************************************************************************)
LenientIsHonest ==
  lenient =>
    /\ phase = "loaded" /\ notices = {} => text = origin
    /\ phase = "loaded" /\ notices = {} /\ origin.swagger = "none" => conforms(origin, TRUE)
    /\ phase = "loaded" /\ conforms(origin, TRUE) /\ ~origin.listInData => notices = {}
    /\ phase = "refused" =>
         \/ ~origin.decodes \/ origin.flawed
         \/ origin.swagger = "other"
         \/ origin.swagger = "none" /\ origin.openapi \in {"none", "other"}
         \/ ~resolves(origin)
         \/ origin.inside \cap DOMAIN renames # {}
=============================================================================
