------------------------- MODULE AdjustmentsProofs --------------------------
(***************************************************************************)
(* Lemmas about the lookups of Adjustments, whatever blocks and updates    *)
(* the file repeats, for ToolNames and ConfigBuilder, which both read it.  *)
(***************************************************************************)
EXTENDS Adjustments, WellFoundedInduction, TLAPS

\* A set of naturals has a least element.
LEMMA LeastNatural ==
  ASSUME NEW S, S \subseteq Nat, S # {}
  PROVE  \E m \in S : \A n \in S : m <= n
<1> DEFINE Less == OpToRel(<, Nat)
<1>1. IsWellFoundedOn(Less, Nat)
  BY NatLessThanWellFounded
<1>2. \A m, n \in Nat : n < m => <<n, m>> \in Less
  BY DEF OpToRel
<1> HIDE DEF Less
<1>3. PICK m \in S : \A n \in S : ~ (<<n, m>> \in Less)
  BY <1>1, WFMin
<1>4. \A n \in S : n \in Nat /\ m \in Nat /\ ~ (n < m)
  BY <1>2, <1>3
<1> QED BY <1>4

\* The earliest of some positions is one of them, and before the others.
LEMMA EarliestExists ==
  ASSUME NEW P, P \subseteq Nat \X Nat, P # {}
  PROVE  /\ earliest(P) \in P
         /\ \A q \in P :
              earliest(P)[1] < q[1] \/ (earliest(P)[1] = q[1] /\ earliest(P)[2] <= q[2])
<1> DEFINE rows == {p[1] : p \in P}
<1>0. rows \subseteq Nat /\ rows # {}
  OBVIOUS
<1> HIDE DEF rows
<1>1. PICK a \in rows : \A n \in rows : a <= n
  BY <1>0, LeastNatural
<1> USE DEF rows
<1> DEFINE columns == {p[2] : p \in {q \in P : q[1] = a}}
<1>2. columns \subseteq Nat /\ columns # {}
  BY <1>1
<1> HIDE DEF columns
<1>3. PICK b \in columns : \A n \in columns : b <= n
  BY <1>2, LeastNatural
<1>4. PICK p \in P : p[1] = a /\ p[2] = b
  BY <1>3 DEF columns
<1>5. ASSUME NEW q \in P
      PROVE  p[1] < q[1] \/ (p[1] = q[1] /\ p[2] <= q[2])
  <2>1. q \in Nat \X Nat /\ a \in Nat
    OBVIOUS
  <2>2. a <= q[1]
    BY <1>1
  <2>3. CASE q[1] = a
    <3>1. q[2] \in columns
      BY <2>3 DEF columns
    <3> QED BY <1>3, <1>4, <2>3, <3>1
  <2>4. CASE q[1] # a
    BY <1>4, <2>1, <2>2, <2>4
  <2> QED BY <2>3, <2>4
<1> DEFINE before(r) == \A q \in P : r[1] < q[1] \/ (r[1] = q[1] /\ r[2] <= q[2])
           first == CHOOSE r \in P : before(r)
<1>6. before(p)
  BY <1>5
<1>7. first \in P /\ before(first)
  <2> HIDE DEF before
  <2> QED BY <1>6
<1>8. earliest(P) = first
  BY DEF earliest
<1> HIDE DEF first
<1> QED BY <1>7, <1>8
-----------------------------------------------------------------------------
(***************************************************************************)
(* The lookups in the adjustments return what the file holds.              *)
(***************************************************************************)
LEMMA UpdatesOfType ==
  ASSUME NEW S, NEW blocks \in Seq([path : Path, updates : Seq(S)]), NEW o
  PROVE  /\ updatesOf(blocks, o) \subseteq Nat \X Nat
         /\ \A p \in updatesOf(blocks, o) : blocks[p[1]].updates[p[2]] \in S
<1> SUFFICES ASSUME NEW p \in updatesOf(blocks, o)
             PROVE  p \in Nat \X Nat /\ blocks[p[1]].updates[p[2]] \in S
  OBVIOUS
<1> DEFINE own(i) == {<<i, j>> : j \in {k \in DOMAIN blocks[i].updates :
                                         blocks[i].updates[k].method = o.method}}
<1>0. PICK i \in {k \in DOMAIN blocks : blocks[k].path = o.path} : p \in own(i)
  BY DEF updatesOf
<1>1. i \in DOMAIN blocks /\ \E j \in DOMAIN blocks[i].updates : p = <<i, j>>
  BY <1>0
<1>2. PICK j \in DOMAIN blocks[i].updates : p = <<i, j>>
  BY <1>1
<1>3. i \in Nat /\ blocks[i].updates \in Seq(S)
  <2> DEFINE B == [path : Path, updates : Seq(S)]
  <2>1. blocks \in Seq(B)
    OBVIOUS
  <2> HIDE DEF B
  <2>2. i \in Nat /\ blocks[i] \in B
    BY <1>1, <2>1
  <2> QED BY <2>2 DEF B
<1>4. j \in Nat /\ blocks[i].updates[j] \in S
  BY <1>2, <1>3
<1> QED BY <1>2, <1>3, <1>4

LEMMA LookupTypes ==
  ASSUME NEW a \in MCPAdjustments, NEW o, NEW original
  PROVE  /\ GetName(a, o) \in Raw \cup {Unset}
         /\ GetDescription(a, o, original) \in Text \cup {Unset, original}
         /\ GetResponseTemplate(a, o) \in Template \cup {Unset}
<1> DEFINE D == a.descriptions
           R == a.responses
<1>1. D \in Seq([path : Path, updates : Seq(Update)]) /\ R \in Seq([path : Path, updates : Seq(Shape)])
  BY DEF MCPAdjustments
<1>2. /\ updatesOf(D, o) \subseteq Nat \X Nat
      /\ \A p \in updatesOf(D, o) : D[p[1]].updates[p[2]] \in Update
  BY <1>1, UpdatesOfType
<1>3. /\ updatesOf(R, o) \subseteq Nat \X Nat
      /\ \A p \in updatesOf(R, o) : R[p[1]].updates[p[2]] \in Shape
  BY <1>1, UpdatesOfType
<1>4. GetName(a, o) \in Raw \cup {Unset}
  <2> DEFINE named == {p \in updatesOf(D, o) : D[p[1]].updates[p[2]].name # Unset}
  <2>1. CASE named = {}
    BY <2>1 DEF GetName
  <2>2. CASE named # {}
    <3>1. earliest(named) \in named
      BY <1>2, <2>2, EarliestExists
    <3>2. D[earliest(named)[1]].updates[earliest(named)[2]] \in Update
      BY <1>2, <3>1
    <3> QED BY <2>2, <3>2 DEF GetName, Update
  <2> QED BY <2>1, <2>2
<1>5. GetDescription(a, o, original) \in Text \cup {Unset, original}
  <2> DEFINE own == {p \in updatesOf(D, o) : p[1] = firstBlock(D, o)}
  <2>1. CASE own = {}
    BY <2>1 DEF GetDescription
  <2>2. CASE own # {}
    <3>1. earliest(own) \in own
      BY <1>2, <2>2, EarliestExists
    <3>2. D[earliest(own)[1]].updates[earliest(own)[2]] \in Update
      BY <1>2, <3>1
    <3> QED BY <2>2, <3>2 DEF GetDescription, Update
  <2> QED BY <2>1, <2>2
<1>6. GetResponseTemplate(a, o) \in Template \cup {Unset}
  <2>1. CASE updatesOf(R, o) = {}
    BY <2>1 DEF GetResponseTemplate
  <2>2. CASE updatesOf(R, o) # {}
    <3>1. earliest(updatesOf(R, o)) \in updatesOf(R, o)
      BY <1>3, <2>2, EarliestExists
    <3>2. R[earliest(updatesOf(R, o))[1]].updates[earliest(updatesOf(R, o))[2]] \in Shape
      BY <1>3, <3>1
    <3> QED BY <2>2, <3>2 DEF GetResponseTemplate, Shape
  <2> QED BY <2>1, <2>2
<1> QED BY <1>4, <1>5, <1>6
=============================================================================
