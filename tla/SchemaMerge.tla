---------------------------- MODULE SchemaMerge ----------------------------
(***************************************************************************)
(* One level of the schemas a tool publishes: what a schema says of a      *)
(* value, and how convertSchema makes one schema of several (scalarFacets, *)
(* mergeSchema and mergeBranchProperty of internal/parser/jsonschema.go).  *)
(* What is said of its fields, elements and branches is a parameter;       *)
(* SchemaConversion closes the recursion.                                  *)
(*                                                                         *)
(* A schema of the document refers to others by name, one that is          *)
(* published holds them; the keywords are the same.  Descriptions,         *)
(* formats, defaults, `not`, `nullable` and bounds other than a minimum    *)
(* are left out.                                                           *)
(***************************************************************************)
EXTENDS DocumentLoad, SequencesExt

\* The schema that says nothing.
AnySchema ==
  [types |-> <<>>, enum |-> {},
   min |-> Nothing, flag |-> FALSE, above |-> Nothing,  \* exclusive: 3.0 and 3.1
   properties |-> <<>>, required |-> {}, additional |-> "unsaid",
   items |-> Nothing, allOf |-> <<>>, oneOf |-> <<>>, anyOf |-> <<>>]

(***************************************************************************)
(* What a schema means: the values it accepts, given which of its fields,  *)
(* elements and branches do.  This is JSON Schema's definition, for the    *)
(* document's schemas and the published ones alike.                        *)
(***************************************************************************)
permits(s, v, Accepted(_, _)) ==
  LET among(branches) == {i \in DOMAIN branches : Accepted(branches[i], v)}
  IN  /\ s.types # <<>> => v.type \in Range(s.types)
      /\ s.enum # {} => v \in s.enum
      /\ v.type = "number" =>
           /\ s.min # Nothing => IF s.flag THEN v.num > s.min ELSE v.num >= s.min
           /\ s.above # Nothing => v.num > s.above
      /\ v.type = "object" =>
           /\ s.required \subseteq DOMAIN v.fields
           /\ \A f \in DOMAIN s.properties \cap DOMAIN v.fields :
                Accepted(s.properties[f], v.fields[f])
           /\ s.additional = "none" => DOMAIN v.fields \subseteq DOMAIN s.properties
      /\ v.type = "array" /\ s.items # Nothing =>
           \A i \in DOMAIN v.elems : Accepted(s.items, v.elems[i])
      /\ among(s.allOf) = DOMAIN s.allOf
      /\ s.oneOf # <<>> => Cardinality(among(s.oneOf)) = 1
      /\ s.anyOf # <<>> => among(s.anyOf) # {}
-----------------------------------------------------------------------------
\* Of a list of types the first; a bound in the spelling of 2020-12.
scalarFacets(s) ==
  [AnySchema EXCEPT
     !.types = IF s.types = <<>> THEN <<>> ELSE <<s.types[1]>>,
     !.enum = s.enum,
     !.min = IF s.above # Nothing \/ s.flag THEN Nothing ELSE s.min,
     !.above = IF s.above = Nothing /\ s.flag THEN s.min ELSE s.above]

\* The fields of two schemas, with one made of those that both have.
mergeFields(p, q, Merged(_, _)) ==
  [f \in DOMAIN p \cup DOMAIN q |->
     IF f \notin DOMAIN q THEN p[f]
     ELSE IF f \notin DOMAIN p THEN q[f] ELSE Merged(p[f], q[f])]

\* What is there wins; fields and requirements add up.
mergeSchema(into, member) ==
  [key \in DOMAIN into |->
     CASE key = "properties" -> mergeFields(into[key], member[key], LAMBDA a, b : a)
       [] key = "required"   -> into[key] \cup member[key]
       [] OTHER -> IF into[key] = AnySchema[key] THEN member[key] ELSE into[key]]

mergeBranchEnumFirst(a, b) == a    \* mutant: the first branch's values stay

\* A branch without an enum takes any value, and so does one without a type.
mergeBranchEnum(a, b) == IF a = {} \/ b = {} THEN {} ELSE a \cup b

mergeBranchType(a, b) ==
  IF a = <<>> \/ b = <<>> THEN <<>> ELSE SetToSeq(Range(a) \cup Range(b))

\* mergeBranchProperty, one level of it: fields that both have are merged the
\* same way (Merged), and the other keywords stay as the first branch has them.
mergeBranch(into, incoming, Merged(_, _)) ==
  [into EXCEPT !.enum = mergeBranchEnum(@, incoming.enum),
               !.types = mergeBranchType(@, incoming.types),
               !.required = @ \cap incoming.required,
               !.properties = mergeFields(@, incoming.properties, Merged)]

\* Of a field that several branches have, bounds, items and unions are taken
\* from the first: two that differ in nothing else.
alikeBut(p, q, Alike(_, _)) ==
  /\ \A key \in {"min", "above", "items", "oneOf", "anyOf"} : p[key] = q[key]
  /\ p.properties = <<>> <=> q.properties = <<>>
  /\ \A f \in DOMAIN p.properties \cap DOMAIN q.properties :
       Alike(p.properties[f], q.properties[f])
=============================================================================
