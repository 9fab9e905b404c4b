-------------------------- MODULE ConfigUpdate_proofs --------------------------
(***************************************************************************)
(* Proofs about an update of the configuration: the patch, as ConfigPatch  *)
(* makes it, and its check, as UpdateCheck does it.                        *)
(*                                                                         *)
(* The patch, for any schema, any nesting and lists of any length.  The    *)
(* inductive part is PatchInv: a fact that only one configuration has is   *)
(* under a change or below the two sections of a pending call              *)
(* (NothingLost), a change is about such a fact (NothingInvented), and a   *)
(* call meets a missing list only in a Lustre storage (LustreCall).        *)
(*                                                                         *)
(* The check, for patches of any bounded length, any counts and any pools. *)
(* The inductive part is Report: the results so far are those of the       *)
(* cached answer, or, while nothing is cached, those of either answer.     *)
(***************************************************************************)
EXTENDS ConfigPatch, UpdateCheck, SequenceTheorems, WellFoundedInduction, TLAPS

-----------------------------------------------------------------------------
(* Numbers and sequences *)

\* A set of indices has a smallest one.
LEMMA SmallestIndex ==
  ASSUME NEW I, I \subseteq Nat, I # {}
  PROVE  Min(I) \in I /\ \A i \in I : Min(I) <= i
<1> DEFINE Less == {ss \in Nat \X Nat : ss[1] < ss[2]}
<1>1. IsWellFoundedOn(Less, Nat)
  BY NatLessThanWellFounded DEF OpToRel
<1>2. PICK x \in I : \A y \in I : ~(<<y, x>> \in Less)
  <2> HIDE DEF Less
  <2> QED BY <1>1, WFMin
<1>3. ASSUME NEW y \in I PROVE x <= y
  <2>1. x \in Nat /\ y \in Nat /\ (y < x => <<y, x>> \in Less)
    OBVIOUS
  <2>2. QED BY <1>2, <2>1
<1>4. QED BY <1>3 DEF Min

\* next() over the deployed list finds an item with the key if there is one.
LEMMA FirstWithKey ==
  ASSUME NEW K, NEW olds \in Seq(K), NEW key
  PROVE  /\ IndexOf(olds, key) = 0 <=> \A j \in DOMAIN olds : olds[j] # key
         /\ IndexOf(olds, key) # 0 =>
              /\ IndexOf(olds, key) \in DOMAIN olds
              /\ olds[IndexOf(olds, key)] = key
<1> DEFINE I == {j \in 1..Len(olds) : olds[j] = key}
<1>1. IndexOf(olds, key) = IF I # {} THEN Min(I) ELSE 0
  BY DEF IndexOf, SelectInSeq
<1>2. CASE I = {}
  BY <1>1, <1>2
<1>3. CASE I # {}
  <2>1. Min(I) \in I
    BY <1>3, SmallestIndex
  <2>2. QED BY <1>1, <1>3, <2>1
<1>4. QED BY <1>2, <1>3

\* Some item of the list has this key.
Keyed(keys, key) == \E j \in DOMAIN keys : keys[j] = key

\* How the items of two lists are paired by their keys.
LEMMA PairedItems ==
  ASSUME NEW K, NEW olds \in Seq(K), NEW news \in Seq(K),
         NEW match, match = Matches(olds, news),
         NEW gone, gone = NotVisited(olds, {match[i] : i \in DOMAIN news})
  PROVE  /\ \A i \in DOMAIN news :
              /\ match[i] = 0 <=> ~Keyed(olds, news[i])
              /\ match[i] # 0 => match[i] \in DOMAIN olds /\ olds[match[i]] = news[i]
         /\ \A j \in DOMAIN olds : ~Keyed(news, olds[j]) => j \in gone
         /\ (\A j, k \in DOMAIN olds : olds[j] = olds[k] => j = k) =>
              \A j \in gone : ~Keyed(news, olds[j])
<1>1. ASSUME NEW i \in DOMAIN news
      PROVE  /\ match[i] = 0 <=> ~Keyed(olds, news[i])
             /\ match[i] # 0 => match[i] \in DOMAIN olds /\ olds[match[i]] = news[i]
  BY FirstWithKey DEF Matches, Keyed
<1>2. ASSUME NEW j \in DOMAIN olds, ~Keyed(news, olds[j]) PROVE j \in gone
  <2>1. j # 0
    OBVIOUS
  <2>2. QED BY <1>1, <1>2, <2>1 DEF Keyed, NotVisited
<1>3. ASSUME \A j, k \in DOMAIN olds : olds[j] = olds[k] => j = k,
             NEW j \in gone, Keyed(news, olds[j])
      PROVE  FALSE
  <2>1. PICK i \in DOMAIN news : news[i] = olds[j]
    BY <1>3 DEF Keyed
  <2>2. j \in DOMAIN olds /\ j # match[i]
    BY <1>3 DEF NotVisited
  <2>3. match[i] \in DOMAIN olds /\ olds[match[i]] = olds[j]
    BY <1>1, <2>1, <2>2 DEF Keyed
  <2>4. QED BY <1>3, <2>2, <2>3
<1>4. QED BY <1>1, <1>2, <1>3

\* For lists of any length, every item ends up in the patch: a wanted item is
\* compared with a deployed one of the same key, or added if there is none; a
\* deployed item whose key is gone is removed. If the deployed keys are unique,
\* nothing else is reported as removed.
THEOREM ItemsAccountedFor ==
  ASSUME NEW K, NEW olds \in Seq(K), NEW news \in Seq(K)
  PROVE  LET match == Matches(olds, news)
             gone  == NotVisited(olds, {match[i] : i \in DOMAIN news})
         IN  /\ \A i \in DOMAIN news :
                  /\ match[i] = 0 <=> ~Keyed(olds, news[i])
                  /\ match[i] # 0 => match[i] \in DOMAIN olds /\ olds[match[i]] = news[i]
             /\ \A j \in DOMAIN olds : ~Keyed(news, olds[j]) => j \in gone
             /\ (\A j, k \in DOMAIN olds : olds[j] = olds[k] => j = k) =>
                  \A j \in gone : ~Keyed(news, olds[j])
<1> DEFINE match == Matches(olds, news)
           gone == NotVisited(olds, {match[i] : i \in DOMAIN news})
<1>1. match = Matches(olds, news) /\ gone = NotVisited(olds, {match[i] : i \in DOMAIN news})
  OBVIOUS
<1> HIDE DEF match, gone
<1>2. /\ \A i \in DOMAIN news :
           /\ match[i] = 0 <=> ~Keyed(olds, news[i])
           /\ match[i] # 0 => match[i] \in DOMAIN olds /\ olds[match[i]] = news[i]
      /\ \A j \in DOMAIN olds : ~Keyed(news, olds[j]) => j \in gone
      /\ (\A j, k \in DOMAIN olds : olds[j] = olds[k] => j = k) =>
           \A j \in gone : ~Keyed(news, olds[j])
  BY <1>1, PairedItems
<1>3. QED BY <1>2 DEF match, gone

\* Induction: a set of numbers that has 0, and n+1 with every n, has them all.
LEMMA AllNumbers ==
  ASSUME NEW G, 0 \in G, \A n \in Nat : n \in G => n+1 \in G
  PROVE  Nat \subseteq G
<1> DEFINE Bad == {n \in Nat : n \notin G}
<1>1. SUFFICES ASSUME Bad # {} PROVE FALSE
  OBVIOUS
<1>2. PICK m \in Bad : \A k \in Bad : m <= k
  <2> Bad \subseteq Nat
    OBVIOUS
  <2> HIDE DEF Bad
  <2> QED BY <1>1, SmallestIndex
<1>3. m \in Nat /\ m # 0
  OBVIOUS
<1>4. m-1 \in Nat /\ m-1 \in G
  BY <1>2, <1>3
<1>5. (m-1)+1 \in G
  BY <1>4
<1>6. QED BY <1>3, <1>5

\* A path is a sequence, of whatever elements.
IsPath(p) == \E S : p \in Seq(S)

\* A path and its last step.
LEMMA PathAppend ==
  ASSUME NEW p, NEW s, IsPath(p)
  PROVE  /\ IsPath(Append(p, s))
         /\ Append(p, s) # << >>
         /\ Front(Append(p, s)) = p
         /\ Last(Append(p, s)) = s
         /\ IsPrefix(p, Append(p, s))
<1>1. PICK S : p \in Seq(S)
  BY DEF IsPath
<1> DEFINE T == S \cup {s}
           q == Append(p, s)
<1>2. p \in Seq(T) /\ s \in T
  BY <1>1
<1> HIDE DEF T
<1>3. q \in Seq(T) /\ Len(q) = Len(p) + 1 /\ q # << >>
      /\ (\A i \in 1..Len(p) : q[i] = p[i]) /\ q[Len(p) + 1] = s
  BY <1>2
<1>4. SubSeq(q, 1, Len(p)) = p /\ SubSeq(p, 1, Len(p)) = p
  BY <1>2, <1>3
<1>5. Len(p) \in Nat
  BY <1>2
<1> HIDE DEF q
<1>6. Front(q) = p /\ Last(q) = s /\ IsPrefix(p, q)
  BY <1>3, <1>4, <1>5 DEF Front, Last, IsPrefix
<1>7. IsPath(q)
  BY <1>3 DEF IsPath
<1>8. QED BY <1>3, <1>6, <1>7 DEF q

\* A path with a last step determines both.
LEMMA SamePath ==
  ASSUME NEW p, NEW q, NEW s, NEW r, IsPath(p), IsPath(q), Append(p, s) = Append(q, r)
  PROVE  p = q /\ s = r
<1> DEFINE u == Append(p, s)
           v == Append(q, r)
<1>1. Front(u) = p /\ Last(u) = s
  BY PathAppend
<1>2. Front(v) = q /\ Last(v) = r
  BY PathAppend
<1>3. u = v
  OBVIOUS
<1> HIDE DEF u, v
<1>4. QED BY <1>1, <1>2, <1>3

\* A path lies under itself.
LEMMA PrefixSelf ==
  ASSUME NEW p, IsPath(p)
  PROVE  IsPrefix(p, p)
<1>1. PICK S : p \in Seq(S)
  BY DEF IsPath
<1>2. QED BY <1>1 DEF IsPrefix

\* What lies under a longer path lies under the shorter one.
LEMMA PrefixDown ==
  ASSUME NEW p, NEW s, NEW a, IsPath(p), IsPath(a), IsPrefix(Append(p, s), a)
  PROVE  IsPrefix(p, a)
<1>1. PICK S : p \in Seq(S)
  BY DEF IsPath
<1>2. PICK R : a \in Seq(R)
  BY DEF IsPath
<1> DEFINE T == S \cup R \cup {s}
           q == Append(p, s)
<1>3. p \in Seq(T) /\ a \in Seq(T) /\ s \in T
  BY <1>1, <1>2
<1> HIDE DEF T
<1>4. q \in Seq(T) /\ Len(q) = Len(p) + 1 /\ \A i \in 1..Len(p) : q[i] = p[i]
  BY <1>3
<1>5. Len(q) <= Len(a) /\ SubSeq(q, 1, Len(q)) = SubSeq(a, 1, Len(q)) /\ SubSeq(q, 1, Len(q)) = q
  BY <1>4 DEF IsPrefix
<1> HIDE DEF q
<1>6. \A i \in 1..Len(q) : q[i] = a[i]
  BY <1>3, <1>4, <1>5
<1>7. Len(p) <= Len(a) /\ \A i \in 1..Len(p) : p[i] = a[i]
  BY <1>3, <1>4, <1>5, <1>6
<1>8. SubSeq(p, 1, Len(p)) = SubSeq(a, 1, Len(p))
  BY <1>3, <1>7
<1>9. QED BY <1>7, <1>8 DEF IsPrefix

-----------------------------------------------------------------------------
(* The sections below a section *)

\* The recursive definition of Below has a solution.
LEMMA BelowDef ==
  ASSUME NEW node
  PROVE  /\ Below(node)[0] = {node}
         /\ \A n \in Nat : n < Depth =>
              Below(node)[n+1] = Below(node)[n] \cup UNION { Children(x) : x \in Below(node)[n] }
<1> DEFINE Rec(g, m) ==
             [n \in 0..m |-> IF n = 0 THEN {node}
                             ELSE g[n-1] \cup UNION { Children(x) : x \in g[n-1] }]
           G == {m \in Nat : \E g : g = Rec(g, m)}
<1>1. 0 \in G
  <2> DEFINE g == [n \in 0..0 |-> {node}]
  <2>1. g = Rec(g, 0)
    OBVIOUS
  <2>2. QED BY <2>1
<1>2. ASSUME NEW m \in Nat, m \in G PROVE m+1 \in G
  <2>1. PICK g : g = Rec(g, m)
    BY <1>2
  <2> DEFINE h == [n \in 0..(m+1) |-> IF n = m+1 THEN g[m] \cup UNION { Children(x) : x \in g[m] }
                                      ELSE g[n]]
  <2>2. ASSUME NEW n \in 0..(m+1)
        PROVE  h[n] = IF n = 0 THEN {node} ELSE h[n-1] \cup UNION { Children(x) : x \in h[n-1] }
    <3>1. CASE n = 0
      <4>1. g[0] = {node}
        BY <2>1
      <4>2. h[0] = g[0]
        OBVIOUS
      <4>3. QED BY <3>1, <4>1, <4>2
    <3>2. CASE n = m+1
      <4>1. h[m] = g[m] /\ n-1 = m
        BY <3>2
      <4>2. h[n] = g[m] \cup UNION { Children(x) : x \in g[m] }
        BY <3>2
      <4> HIDE DEF h
      <4>3. QED BY <3>2, <4>1, <4>2
    <3>3. CASE n # 0 /\ n # m+1
      <4>1. h[n] = g[n] /\ h[n-1] = g[n-1]
        BY <3>3
      <4>2. g[n] = g[n-1] \cup UNION { Children(x) : x \in g[n-1] }
        <5>1. n \in 0..m
          BY <3>3
        <5>2. g[n] = Rec(g, m)[n]
          BY <2>1
        <5> HIDE DEF h
        <5>3. QED BY <3>3, <5>1, <5>2
      <4> HIDE DEF h
      <4>3. QED BY <3>3, <4>1, <4>2
    <3>4. QED BY <3>1, <3>2, <3>3
  <2>3. h = Rec(h, m+1)
    <3>1. h = [n \in 0..(m+1) |-> h[n]]
      OBVIOUS
    <3> HIDE DEF h
    <3>2. QED BY <2>2, <3>1
  <2> HIDE DEF h
  <2>4. QED BY <2>3
<1>3. Depth \in G
  <2>1. Nat \subseteq G
    <3> HIDE DEF G
    <3> QED BY <1>1, <1>2, AllNumbers
  <2>2. QED BY <2>1, SchemasAssumption
<1>4. Below(node) = Rec(Below(node), Depth)
  <2>1. Below(node) = CHOOSE g : g = Rec(g, Depth)
    BY DEF Below
  <2>2. \E g : g = Rec(g, Depth)
    BY <1>3
  <2> DEFINE P(g) == g = Rec(g, Depth)
  <2>3. (\E g : P(g)) => P(CHOOSE g : P(g))
    OBVIOUS
  <2>4. QED BY <2>1, <2>2, <2>3
<1>5. Depth \in Nat
  BY SchemasAssumption
<1> DEFINE B == Below(node)
<1>6. B = Rec(B, Depth)
  BY <1>4
<1> HIDE DEF B
<1>7. B[0] = {node}
  BY <1>5, <1>6
<1>8. ASSUME NEW n \in Nat, n < Depth
      PROVE  B[n+1] = B[n] \cup UNION { Children(x) : x \in B[n] }
  <2>1. n+1 \in 0..Depth /\ n+1 # 0 /\ (n+1)-1 = n
    BY <1>5, <1>8
  <2>2. B[n+1] = Rec(B, Depth)[n+1]
    BY <1>6
  <2>3. QED BY <2>1, <2>2
<1>9. QED BY <1>7, <1>8 DEF B

\* A node is below itself.
LEMMA BelowSelf ==
  ASSUME NEW node, NEW n \in 0..Depth
  PROVE  node \in Below(node)[n]
<1> DEFINE G == {m \in Nat : m <= Depth => node \in Below(node)[m]}
<1>1. 0 \in G
  BY BelowDef
<1>2. ASSUME NEW m \in Nat, m \in G PROVE m+1 \in G
  <2>1. SUFFICES ASSUME m+1 <= Depth PROVE node \in Below(node)[m+1]
    OBVIOUS
  <2>2. m < Depth /\ node \in Below(node)[m]
    BY <1>2, <2>1, SchemasAssumption
  <2>3. QED BY <2>2, BelowDef
<1>3. Nat \subseteq G
  <2> HIDE DEF G
  <2> QED BY <1>1, <1>2, AllNumbers
<1>4. QED BY <1>3, SchemasAssumption

\* What is below a node is the node and what is below its children.
LEMMA BelowSplit ==
  ASSUME NEW node, NEW n \in Nat, n < Depth
  PROVE  Below(node)[n+1] = {node} \cup UNION { Below(y)[n] : y \in Children(node) }
<1> DEFINE Split(m) == Below(node)[m+1] = {node} \cup UNION { Below(y)[m] : y \in Children(node) }
           G == {m \in Nat : m < Depth => Split(m)}
<1>0. Depth \in Nat
  BY SchemasAssumption
<1>1. 0 \in G
  <2>1. SUFFICES ASSUME 0 < Depth PROVE Below(node)[0+1] = {node} \cup UNION { Below(y)[0] : y \in Children(node) }
    OBVIOUS
  <2>2. Below(node)[0+1] = {node} \cup UNION { Children(x) : x \in {node} }
    BY <2>1, BelowDef
  <2>3. \A y : Below(y)[0] = {y}
    BY BelowDef
  <2>4. QED BY <2>2, <2>3
<1>2. ASSUME NEW m \in Nat, m \in G PROVE m+1 \in G
  <2>1. SUFFICES ASSUME m+1 < Depth PROVE Split(m+1)
    OBVIOUS
  <2>2. m < Depth /\ Split(m)
    BY <1>0, <1>2, <2>1
  <2> DEFINE A == Below(node)[m+1]
             C == Children(node)
  <2>3. A = {node} \cup UNION { Below(y)[m] : y \in C }
    BY <2>2
  <2>4. Below(node)[(m+1)+1] = A \cup UNION { Children(x) : x \in A }
    BY <2>1, BelowDef
  <2>5. \A y : Below(y)[m+1] = Below(y)[m] \cup UNION { Children(x) : x \in Below(y)[m] }
    BY <2>2, BelowDef
  <2>6. \A y : y \in Below(y)[m]
    BY <1>0, <2>2, BelowSelf
  <2> DEFINE D == UNION { Below(y)[m+1] : y \in C }
  <2> HIDE DEF A, D, Split
  <2>7. A \subseteq {node} \cup D
    BY <2>3, <2>5 DEF D
  <2>8. ASSUME NEW x \in A PROVE Children(x) \subseteq D
    <3>1. CASE x = node
      BY <2>5, <2>6, <3>1 DEF D
    <3>2. CASE x # node
      <4>1. PICK y \in C : x \in Below(y)[m]
        BY <2>3, <2>8, <3>2
      <4>2. QED BY <2>5, <4>1 DEF D
    <3>3. QED BY <3>1, <3>2
  <2>9. D \subseteq A \cup UNION { Children(x) : x \in A }
    <3>1. SUFFICES ASSUME NEW z \in D PROVE z \in A \cup UNION { Children(x) : x \in A }
      OBVIOUS
    <3>2. PICK y \in C : z \in Below(y)[m+1]
      BY <3>1 DEF D
    <3>3. z \in Below(y)[m] \/ \E x \in Below(y)[m] : z \in Children(x)
      BY <2>5, <3>2
    <3>4. QED BY <2>3, <3>2, <3>3
  <2>10. node \in A
    BY <2>3
  <2>11. Below(node)[(m+1)+1] = {node} \cup D
    BY <2>4, <2>7, <2>8, <2>9, <2>10
  <2>12. QED BY <2>11 DEF Split, D
<1>3. Nat \subseteq G
  <2> HIDE DEF G
  <2> QED BY <1>1, <1>2, AllNumbers
<1>4. QED BY <1>3

\* A node below another one, and not that one, is the child of one below it.
LEMMA BelowParent ==
  ASSUME NEW node, NEW n \in 0..Depth, NEW y \in Below(node)[n], y # node
  PROVE  \E x \in Below(node)[n] : y \in Children(x)
<1> DEFINE P(m) == \A z \in Below(node)[m] \ {node} : \E x \in Below(node)[m] : z \in Children(x)
           G == {m \in Nat : m <= Depth => P(m)}
<1>0. Depth \in Nat
  BY SchemasAssumption
<1>1. 0 \in G
  BY BelowDef
<1>2. ASSUME NEW m \in Nat, m \in G PROVE m+1 \in G
  <2>1. SUFFICES ASSUME m+1 <= Depth PROVE P(m+1)
    OBVIOUS
  <2>2. m < Depth /\ P(m)
    BY <1>0, <1>2, <2>1
  <2>3. Below(node)[m+1] = Below(node)[m] \cup UNION { Children(x) : x \in Below(node)[m] }
    BY <2>2, BelowDef
  <2>4. QED BY <2>2, <2>3
<1>3. Nat \subseteq G
  <2> HIDE DEF G
  <2> QED BY <1>1, <1>2, AllNumbers
<1>4. QED BY <1>0, <1>3

-----------------------------------------------------------------------------
(* Facts *)

\* What is assumed of the fields, one by one.
LEMMA FieldFacts ==
  ASSUME NEW schema \in DOMAIN Schemas, NEW field \in Fields[schema]
  PROVE  FieldAssumption(schema, field) /\ LustreAssumption(schema, field)
  BY SchemasAssumption

\* A field has one of three kinds.
LEMMA FieldKind ==
  ASSUME NEW schema \in DOMAIN Schemas, NEW field \in Fields[schema]
  PROVE  field.kind \in {"param", "section", "list"}
  BY FieldFacts DEF FieldAssumption

\* The update key of a list is the one of its key, and its policy counts.
LEMMA ListField ==
  ASSUME NEW schema \in DOMAIN Schemas, NEW field \in Fields[schema], field.kind = "list"
  PROVE  field.update_key = Update_key(field.key) /\ field.policy # "IGNORED"
<1>1. FieldAssumption(schema, field)
  BY FieldFacts
<1>2. QED BY <1>1 DEF FieldAssumption

\* Sequence is not a field, but the other form of Script.
LEMMA FieldKey ==
  ASSUME NEW schema \in DOMAIN Schemas, NEW field \in Fields[schema]
  PROVE  field.key # "Sequence"
<1>1. FieldAssumption(schema, field)
  BY FieldFacts
<1>2. QED BY <1>1 DEF FieldAssumption

\* A class has one field of a key.
LEMMA OneField ==
  ASSUME NEW schema \in DOMAIN Schemas, NEW f \in Fields[schema], NEW g \in Fields[schema],
         f.key = g.key
  PROVE  f = g
<1>1. PICK i \in DOMAIN Schemas[schema] : f = Schemas[schema][i]
  BY DEF Fields
<1>2. PICK j \in DOMAIN Schemas[schema] : g = Schemas[schema][j]
  BY DEF Fields
<1>3. QED BY <1>1, <1>2, SchemasAssumption

\* There is nothing in a section that is missing or empty.
LEMMA NothingThere ==
  ASSUME NEW section, NEW key, ~Truthy(section)
  PROVE  /\ Get(section, key) = None
         /\ Items(section, key) = << >>
         /\ GetValue(section, key) = [key |-> key, value |-> None]
<1>1. Get(section, key) = None
  BY DEF Truthy, Get
<1>2. QED BY <1>1 DEF Items, GetValue

\* Facts and children by the kind of the field.
LEMMA ParamBy ==
  ASSUME NEW node, NEW field, field.kind = "param"
  PROVE  /\ ChildrenBy(node, field) = {}
         /\ \A f : f \in FactsBy(node, field) <=>
              /\ GetValue(node.section, field.key).value # None
              /\ f = Fact(Append(node.path, Step(field.key)), GetValue(node.section, field.key).key,
                          GetValue(node.section, field.key).value)
<1> DEFINE v == GetValue(node.section, field.key)
           fact == Fact(Append(node.path, Step(field.key)), v.key, v.value)
<1>1. FactsBy(node, field) = IF v.value = None THEN {} ELSE {fact}
  BY DEF FactsBy
<1>2. ChildrenBy(node, field) = {}
  BY DEF ChildrenBy
<1> HIDE DEF v, fact
<1>3. \A f : f \in FactsBy(node, field) <=> v.value # None /\ f = fact
  BY <1>1
<1>4. QED BY <1>2, <1>3 DEF v, fact

\* A section has one child by a section field, and one fact.
LEMMA SectionBy ==
  ASSUME NEW node, NEW field, field.kind = "section"
  PROVE  /\ \A x : x \in ChildrenBy(node, field) <=>
              /\ Truthy(Get(node.section, field.key))
              /\ x = Node(Get(node.section, field.key), field.schema,
                          Append(node.path, Step(field.key)))
         /\ \A f : f \in FactsBy(node, field) <=>
              /\ Truthy(Get(node.section, field.key)) /\ field.policy # "IGNORED"
              /\ f = Fact(Append(node.path, Step(field.key)), "", "set")
<1> DEFINE child == Node(Get(node.section, field.key), field.schema, Append(node.path, Step(field.key)))
           fact == Fact(Append(node.path, Step(field.key)), "", "set")
           there == Truthy(Get(node.section, field.key))
<1>1. FactsBy(node, field) = IF there /\ field.policy # "IGNORED" THEN {fact} ELSE {}
  BY DEF FactsBy
<1>2. ChildrenBy(node, field) = IF there THEN {child} ELSE {}
  BY DEF ChildrenBy
<1> HIDE DEF child, fact, there
<1>3. /\ \A x : x \in ChildrenBy(node, field) <=> there /\ x = child
      /\ \A f : f \in FactsBy(node, field) <=> (there /\ field.policy # "IGNORED") /\ f = fact
  BY <1>1, <1>2
<1>4. QED BY <1>3 DEF child, fact, there

\* The node of an item of a list.
ItemNode(node, field, item) ==
  Node(item, field.schema, Append(node.path, ItemStep(field.key, Get(item, field.update_key))))

\* It has a child for each item of a list, and no fact.
LEMMA ListBy ==
  ASSUME NEW node, NEW field, field.kind = "list"
  PROVE  /\ FactsBy(node, field) = {}
         /\ \A x : x \in ChildrenBy(node, field) <=>
              \E i \in DOMAIN Items(node.section, field.key) :
                x = ItemNode(node, field, Items(node.section, field.key)[i])
<1> DEFINE items == Items(node.section, field.key)
<1>1. ChildrenBy(node, field) = { ItemNode(node, field, items[i]) : i \in DOMAIN items }
  BY DEF ChildrenBy, ItemNode
<1>2. FactsBy(node, field) = {}
  BY DEF FactsBy
<1> HIDE DEF items
<1>3. \A x : x \in ChildrenBy(node, field) <=> \E i \in DOMAIN items : x = ItemNode(node, field, items[i])
  BY <1>1
<1>4. QED BY <1>2, <1>3 DEF items

\* The node of one of the items.
AmongItems(x, node, field, items) == \E i \in DOMAIN items : x = ItemNode(node, field, items[i])

\* The children by a list are the nodes of its items.
LEMMA ListChild ==
  ASSUME NEW node, NEW field, field.kind = "list",
         NEW items, items = Items(node.section, field.key), NEW x
  PROVE  x \in ChildrenBy(node, field) <=> AmongItems(x, node, field, items)
  BY ListBy DEF AmongItems

\* A node of the schema, at a path.
IsNode(node) == node.schema \in DOMAIN Schemas /\ IsPath(node.path)

\* A child is a node one step below.
LEMMA ChildrenOfNode ==
  ASSUME NEW node, IsNode(node), NEW child \in Children(node)
  PROVE  IsNode(child) /\ \E s : child.path = Append(node.path, s)
<1>1. PICK field \in Fields[node.schema] : child \in ChildrenBy(node, field)
  BY DEF Children
<1>2. field.kind \in {"param", "section", "list"}
      /\ (field.kind # "param" => field.schema \in DOMAIN Schemas)
  BY FieldFacts DEF IsNode, FieldAssumption
<1>3. CASE field.kind = "param"
  BY <1>1, <1>3, ParamBy
<1>4. CASE field.kind = "section"
  <2>1. child = Node(Get(node.section, field.key), field.schema, Append(node.path, Step(field.key)))
    BY <1>1, <1>4, SectionBy
  <2>2. IsPath(Append(node.path, Step(field.key)))
    BY PathAppend DEF IsNode
  <2>3. QED BY <1>2, <1>4, <2>1, <2>2 DEF IsNode, Node
<1>5. CASE field.kind = "list"
  <2>1. PICK x, s : child = Node(x, field.schema, Append(node.path, s))
    BY <1>1, <1>5, ListBy DEF ItemNode
  <2>2. IsPath(Append(node.path, s))
    BY PathAppend DEF IsNode
  <2>3. QED BY <1>2, <1>5, <2>1, <2>2 DEF IsNode, Node
<1>6. QED BY <1>2, <1>3, <1>4, <1>5

\* The facts of a section are its own and those of its children.
LEMMA FactsSplit ==
  ASSUME NEW node
  PROVE  /\ FactsOf(Below(node)[0]) = FactsAt(node)
         /\ \A n \in Nat : n < Depth =>
              FactsOf(Below(node)[n+1]) =
                FactsAt(node) \cup UNION { FactsOf(Below(y)[n]) : y \in Children(node) }
<1>1. FactsOf(Below(node)[0]) = FactsAt(node)
  BY BelowDef DEF FactsOf
<1>2. ASSUME NEW n \in Nat, n < Depth
      PROVE  FactsOf(Below(node)[n+1]) =
               FactsAt(node) \cup UNION { FactsOf(Below(y)[n]) : y \in Children(node) }
  <2>1. Below(node)[n+1] = {node} \cup UNION { Below(y)[n] : y \in Children(node) }
    BY <1>2, BelowSplit
  <2>2. ASSUME NEW f
        PROVE  f \in FactsOf(Below(node)[n+1]) <=>
                 f \in FactsAt(node) \cup UNION { FactsOf(Below(y)[n]) : y \in Children(node) }
    <3>1. f \in FactsOf(Below(node)[n+1]) <=> \E x \in Below(node)[n+1] : f \in FactsAt(x)
      BY DEF FactsOf
    <3>2. \A y : f \in FactsOf(Below(y)[n]) <=> \E x \in Below(y)[n] : f \in FactsAt(x)
      BY DEF FactsOf
    <3>3. QED BY <2>1, <3>1, <3>2
  <2>3. QED BY <2>2
<1>3. QED BY <1>1, <1>2

\* The address of a fact at a node is one step below it.
LEMMA AddressAt ==
  ASSUME NEW node, IsNode(node), NEW f \in FactsAt(node)
  PROVE  /\ IsPath(f.address) /\ IsPrefix(node.path, f.address)
         /\ \E field \in Fields[node.schema] :
              f \in FactsBy(node, field) /\ f.address = Append(node.path, Step(field.key))
<1>1. PICK field \in Fields[node.schema] : f \in FactsBy(node, field)
  BY DEF FactsAt
<1>2. field.kind \in {"param", "section", "list"}
  BY FieldFacts DEF IsNode, FieldAssumption
<1>3. f.address = Append(node.path, Step(field.key))
  <2>1. CASE field.kind = "param"
    BY <1>1, <2>1, ParamBy DEF Fact
  <2>2. CASE field.kind = "section"
    <3>1. f = Fact(Append(node.path, Step(field.key)), "", "set")
      BY <1>1, <2>2, SectionBy
    <3>2. QED BY <3>1 DEF Fact
  <2>3. CASE field.kind = "list"
    BY <1>1, <2>3, ListBy
  <2>4. QED BY <1>2, <2>1, <2>2, <2>3
<1>4. QED BY <1>1, <1>3, PathAppend DEF IsNode

\* So is the address of every fact below it.
LEMMA AddressBelow ==
  ASSUME NEW node, IsNode(node), NEW n \in 0..Depth, NEW f \in FactsOf(Below(node)[n])
  PROVE  IsPath(f.address) /\ IsPrefix(node.path, f.address)
<1> DEFINE P(x, m) == \A g \in FactsOf(Below(x)[m]) : IsPath(g.address) /\ IsPrefix(x.path, g.address)
           G == {m \in Nat : m <= Depth => \A x : IsNode(x) => P(x, m)}
<1>0. Depth \in Nat
  BY SchemasAssumption
<1>1. 0 \in G
  <2>1. SUFFICES ASSUME NEW x, IsNode(x), NEW g \in FactsOf(Below(x)[0])
                 PROVE  IsPath(g.address) /\ IsPrefix(x.path, g.address)
    OBVIOUS
  <2>2. g \in FactsAt(x)
    BY <2>1, FactsSplit
  <2>3. QED BY <2>1, <2>2, AddressAt
<1>2. ASSUME NEW m \in Nat, m \in G PROVE m+1 \in G
  <2>1. SUFFICES ASSUME m+1 <= Depth, NEW x, IsNode(x), NEW g \in FactsOf(Below(x)[m+1])
                 PROVE  IsPath(g.address) /\ IsPrefix(x.path, g.address)
    OBVIOUS
  <2>2. m < Depth /\ m <= Depth
    BY <1>0, <2>1
  <2>3. g \in FactsAt(x) \/ \E y \in Children(x) : g \in FactsOf(Below(y)[m])
    BY <2>1, <2>2, FactsSplit
  <2>4. CASE g \in FactsAt(x)
    BY <2>1, <2>4, AddressAt
  <2>5. ASSUME NEW y \in Children(x), g \in FactsOf(Below(y)[m])
        PROVE  IsPath(g.address) /\ IsPrefix(x.path, g.address)
    <3>1. IsNode(y) /\ \E s : y.path = Append(x.path, s)
      BY <2>1, ChildrenOfNode
    <3>2. IsPath(g.address) /\ IsPrefix(y.path, g.address)
      BY <1>2, <2>2, <2>5, <3>1
    <3>3. QED BY <2>1, <3>1, <3>2, PrefixDown DEF IsNode
  <2>6. QED BY <2>3, <2>4, <2>5
<1>3. Nat \subseteq G
  <2> HIDE DEF G
  <2> QED BY <1>1, <1>2, AllNumbers
<1>4. QED BY <1>0, <1>3

\* A section that is missing or empty has no facts.
LEMMA NoFacts ==
  ASSUME NEW node, IsNode(node), ~Truthy(node.section), NEW n \in 0..Depth
  PROVE  FactsOf(Below(node)[n]) = {} /\ Children(node) = {} /\ FactsAt(node) = {}
<1>1. ASSUME NEW field \in Fields[node.schema]
      PROVE  FactsBy(node, field) = {} /\ ChildrenBy(node, field) = {}
  <2>1. field.kind \in {"param", "section", "list"}
    BY FieldFacts DEF IsNode, FieldAssumption
  <2>2. Get(node.section, field.key) = None /\ Items(node.section, field.key) = << >>
        /\ GetValue(node.section, field.key).value = None /\ ~Truthy(None)
    BY NothingThere DEF Truthy
  <2>3. CASE field.kind = "param"
    BY <2>2, <2>3, ParamBy
  <2>4. CASE field.kind = "section"
    <3>1. ~Truthy(Get(node.section, field.key))
      BY <2>2
    <3>2. QED BY <2>4, <3>1, SectionBy
  <2>5. CASE field.kind = "list"
    <3>1. DOMAIN Items(node.section, field.key) = {}
      BY <2>2
    <3>2. QED BY <2>5, <3>1, ListBy
  <2>6. QED BY <2>1, <2>3, <2>4, <2>5
<1>2. FactsAt(node) = {} /\ Children(node) = {}
  BY <1>1 DEF FactsAt, Children
<1>3. CASE n = 0
  BY <1>2, <1>3, FactsSplit
<1>4. CASE n # 0
  <2>1. PICK m \in Nat : m < Depth /\ n = m+1
    <3>1. n-1 \in Nat /\ n-1 < Depth /\ (n-1)+1 = n
      BY <1>4, SchemasAssumption
    <3>2. QED BY <3>1
  <2>2. FactsOf(Below(node)[m+1]) =
          FactsAt(node) \cup UNION { FactsOf(Below(y)[m]) : y \in Children(node) }
    BY <2>1, FactsSplit
  <2>3. QED BY <1>2, <2>1, <2>2
<1>5. QED BY <1>2, <1>3, <1>4

\* The nodes of a configuration are nodes of the schema.
LEMMA NodesBelow ==
  ASSUME NEW node, IsNode(node), NEW n \in 0..Depth, NEW x \in Below(node)[n]
  PROVE  IsNode(x)
<1> DEFINE G == {m \in Nat : m <= Depth => \A y \in Below(node)[m] : IsNode(y)}
<1>0. Depth \in Nat
  BY SchemasAssumption
<1>1. 0 \in G
  BY BelowDef
<1>2. ASSUME NEW m \in Nat, m \in G PROVE m+1 \in G
  <2>1. SUFFICES ASSUME m+1 <= Depth, NEW y \in Below(node)[m+1] PROVE IsNode(y)
    OBVIOUS
  <2>2. m < Depth /\ \A z \in Below(node)[m] : IsNode(z)
    BY <1>0, <1>2, <2>1
  <2>3. y \in Below(node)[m] \/ \E z \in Below(node)[m] : y \in Children(z)
    BY <2>1, <2>2, BelowDef
  <2>4. QED BY <2>2, <2>3, ChildrenOfNode
<1>3. Nat \subseteq G
  <2> HIDE DEF G
  <2> QED BY <1>1, <1>2, AllNumbers
<1>4. QED BY <1>0, <1>3

\* A set of well-formed nodes that has the children of its nodes.
Closed(nodes) == \A x \in nodes : IsNode(x) /\ WellFormed(x) /\ Children(x) \subseteq nodes

Configs == { pair[1] : pair \in Pairs } \cup { pair[2] : pair \in Pairs }

RootNode(config) == Node(config, Root, << >>)

\* The nodes of a configuration are well-formed and have their children and parents among them.
LEMMA ConfigClosed ==
  ASSUME NEW config \in Configs
  PROVE  /\ config # None /\ IsNode(RootNode(config))
         /\ Closed(NodesOf(config))
         /\ RootNode(config) \in NodesOf(config)
         /\ \A y \in NodesOf(config) : y # RootNode(config) => \E x \in NodesOf(config) : y \in Children(x)
<1> DEFINE r == RootNode(config)
           N == NodesOf(config)
<1>1. config # None /\ \A x \in N : WellFormed(x) /\ Children(x) \subseteq N
  BY PairsAssumption DEF Configs
<1>2. IsNode(r)
  <2>1. << >> \in Seq({})
    OBVIOUS
  <2>2. IsPath(<< >>)
    BY <2>1 DEF IsPath
  <2>3. QED BY <2>2, SchemasAssumption DEF IsNode, RootNode, Node
<1>3. N = Below(r)[Depth] /\ Depth \in 0..Depth
  BY SchemasAssumption DEF NodesOf, RootNode
<1> HIDE DEF r, N
<1>4. \A x \in N : IsNode(x)
  BY <1>2, <1>3, NodesBelow
<1>5. r \in N
  BY <1>3, BelowSelf
<1>6. \A y \in N : y # r => \E x \in N : y \in Children(x)
  BY <1>3, BelowParent
<1>7. QED BY <1>1, <1>2, <1>4, <1>5, <1>6 DEF Closed, r, N

-----------------------------------------------------------------------------
(* One call of _compare_section *)

BNode(c) == Node(c.b, c.schema, c.path)
TNode(c) == Node(c.t, c.schema, c.path)

\* A call that compares a section of B with one of T, at the same place.
Located(c, B, T) ==
  /\ c.schema \in DOMAIN Schemas
  /\ IsPath(c.path)
  /\ IsAction(c.schema) => \E p : \E k \in ActionKeys : IsPath(p) /\ c.path = Append(p, Step(k))
  /\ Truthy(c.b) => BNode(c) \in B
  /\ Truthy(c.t) => TNode(c) \in T

NewChanges(c) ==
  UNION { FieldChanges(c, Schemas[c.schema][i], PathAt(c, i)) : i \in DOMAIN Schemas[c.schema] }

NewCalls(c) ==
  UNION { FieldCalls(c, Schemas[c.schema][i], PathAt(c, i)) : i \in DOMAIN Schemas[c.schema] }

\* The nodes of a call.
LEMMA NodeOfCall ==
  ASSUME NEW c, c.schema \in DOMAIN Schemas, IsPath(c.path)
  PROVE  /\ IsNode(BNode(c)) /\ BNode(c).section = c.b /\ BNode(c).schema = c.schema /\ BNode(c).path = c.path
         /\ IsNode(TNode(c)) /\ TNode(c).section = c.t /\ TNode(c).schema = c.schema /\ TNode(c).path = c.path
  BY DEF BNode, TNode, Node, IsNode

\* The key under which a value is found.
LEMMA ValueKey ==
  ASSUME NEW section, NEW key
  PROVE  LET v == GetValue(section, key) IN
         \/ v.key = key
         \/ key = "Script" /\ v.key = "Sequence" /\ v.value # None
  BY DEF GetValue

\* Only Script has two forms.
LEMMA SwitchedForm ==
  ASSUME NEW c, NEW field, FormSwitched(c, field)
  PROVE  /\ field.kind = "param" /\ field.key = "Script"
         /\ GetValue(c.b, field.key).value # None \/ GetValue(c.t, field.key).value # None
  BY ValueKey DEF FormSwitched

\* The path is the one of the section, but for the arguments of an action
\* that has switched its form.
LEMMA WherePath ==
  ASSUME NEW c, c.schema \in DOMAIN Schemas, NEW i \in DOMAIN Schemas[c.schema]
  PROVE  \/ PathAt(c, i) = c.path
         \/ /\ PathAt(c, i) = Front(c.path)
            /\ IsAction(c.schema)
            /\ Schemas[c.schema][i].kind = "param" /\ Schemas[c.schema][i].key = "Args"
            /\ \E j \in DOMAIN Schemas[c.schema] :
                 FormSwitched(c, Schemas[c.schema][j]) /\ PathAt(c, j) = c.path
<1> DEFINE F == Schemas[c.schema]
<1>1. CASE \A j \in DOMAIN F : ~(j < i /\ FormSwitched(c, F[j]))
  BY <1>1 DEF PathAt
<1>2. ASSUME NEW j \in DOMAIN F, j < i, FormSwitched(c, F[j])
      PROVE  /\ PathAt(c, i) = Front(c.path)
             /\ IsAction(c.schema)
             /\ F[i].kind = "param" /\ F[i].key = "Args"
             /\ PathAt(c, j) = c.path
  <2>1. F[j] \in Fields[c.schema] /\ F[i] \in Fields[c.schema]
    BY DEF Fields
  <2>2. F[j].key = "Script"
    BY <1>2, SwitchedForm
  <2>3. IsAction(c.schema)
    BY <2>1, <2>2 DEF IsAction
  <2>4. \A k \in DOMAIN F : FormSwitched(c, F[k]) => k = j
    <3>1. SUFFICES ASSUME NEW k \in DOMAIN F, FormSwitched(c, F[k]) PROVE k = j
      OBVIOUS
    <3>2. F[k].key = "Script"
      BY <3>1, SwitchedForm
    <3>3. QED BY <2>2, <3>2, SchemasAssumption
  <2>5. F[i].kind = "param" /\ F[i].key \in {"Script", "Args"}
    BY <2>1, <2>3, FieldFacts DEF FieldAssumption
  <2>6. i \in Nat /\ j \in Nat
    BY SchemasAssumption
  <2>7. F[i].key # F[j].key
    BY <1>2, <2>6, SchemasAssumption
  <2>8. PathAt(c, j) = c.path
    BY <2>4, <2>6 DEF PathAt
  <2>9. PathAt(c, i) = Front(c.path)
    BY <1>2 DEF PathAt
  <2>10. QED BY <2>2, <2>3, <2>5, <2>7, <2>8, <2>9
<1>3. QED BY <1>1, <1>2

\* The calls that are made for the sections and lists of a class.
LEMMA NewCallsBy ==
  ASSUME NEW c, c.schema \in DOMAIN Schemas, NEW d
  PROVE  d \in NewCalls(c) <=>
           \E field \in Fields[c.schema] :
             \/ field.kind = "section" /\ d \in NestedCalls(c, field, c.path)
             \/ field.kind = "list" /\ d \in ItemCalls(c, field, c.path)
<1> DEFINE F == Schemas[c.schema]
<1>1. ASSUME NEW i \in DOMAIN F
      PROVE  /\ F[i] \in Fields[c.schema]
             /\ F[i].kind = "param" => FieldCalls(c, F[i], PathAt(c, i)) = {}
             /\ F[i].kind = "section" => FieldCalls(c, F[i], PathAt(c, i)) = NestedCalls(c, F[i], c.path)
             /\ F[i].kind = "list" => FieldCalls(c, F[i], PathAt(c, i)) = ItemCalls(c, F[i], c.path)
             /\ F[i].kind \in {"param", "section", "list"}
  <2>1. F[i] \in Fields[c.schema]
    BY DEF Fields
  <2>2. F[i].kind \in {"param", "section", "list"}
    BY <2>1, FieldKind
  <2>3. F[i].kind # "param" => PathAt(c, i) = c.path
    BY WherePath
  <2>4. QED BY <2>1, <2>2, <2>3 DEF FieldCalls
<1>2. ASSUME NEW field \in Fields[c.schema]
      PROVE  \E i \in DOMAIN F : field = F[i]
  BY DEF Fields
<1>3. d \in NewCalls(c) <=> \E i \in DOMAIN F : d \in FieldCalls(c, F[i], PathAt(c, i))
  BY DEF NewCalls
<1>4. ASSUME d \in NewCalls(c)
      PROVE  \E field \in Fields[c.schema] :
               \/ field.kind = "section" /\ d \in NestedCalls(c, field, c.path)
               \/ field.kind = "list" /\ d \in ItemCalls(c, field, c.path)
  <2>1. PICK i \in DOMAIN F : d \in FieldCalls(c, F[i], PathAt(c, i))
    BY <1>3, <1>4
  <2>2. QED BY <1>1, <2>1
<1>5. ASSUME NEW field \in Fields[c.schema],
             \/ field.kind = "section" /\ d \in NestedCalls(c, field, c.path)
             \/ field.kind = "list" /\ d \in ItemCalls(c, field, c.path)
      PROVE  d \in NewCalls(c)
  <2>1. PICK i \in DOMAIN F : field = F[i]
    BY <1>2
  <2>2. QED BY <1>1, <1>3, <1>5, <2>1
<1>6. QED BY <1>4, <1>5

\* The changes that are found for the fields of a class.
LEMMA NewChangesBy ==
  ASSUME NEW c, c.schema \in DOMAIN Schemas, NEW ch
  PROVE  ch \in NewChanges(c) <=>
           \/ \E field \in Fields[c.schema] :
                \/ field.kind = "section" /\ ch \in CompareSingle(c, field, c.path)
                \/ field.kind = "list" /\ ch \in CompareList(c, field, c.path)
           \/ \E i \in DOMAIN Schemas[c.schema] :
                /\ Schemas[c.schema][i].kind = "param"
                /\ ch \in CompareParam(c, Schemas[c.schema][i], PathAt(c, i))
<1> DEFINE F == Schemas[c.schema]
<1>1. ASSUME NEW i \in DOMAIN F
      PROVE  /\ F[i] \in Fields[c.schema]
             /\ F[i].kind = "param" =>
                  FieldChanges(c, F[i], PathAt(c, i)) = CompareParam(c, F[i], PathAt(c, i))
             /\ F[i].kind = "section" => FieldChanges(c, F[i], PathAt(c, i)) = CompareSingle(c, F[i], c.path)
             /\ F[i].kind = "list" => FieldChanges(c, F[i], PathAt(c, i)) = CompareList(c, F[i], c.path)
             /\ F[i].kind \in {"param", "section", "list"}
  <2>1. F[i] \in Fields[c.schema]
    BY DEF Fields
  <2>2. F[i].kind \in {"param", "section", "list"}
    BY <2>1, FieldKind
  <2>3. F[i].kind # "param" => PathAt(c, i) = c.path
    BY WherePath
  <2>4. QED BY <2>1, <2>2, <2>3 DEF FieldChanges
<1>2. ASSUME NEW field \in Fields[c.schema]
      PROVE  \E i \in DOMAIN F : field = F[i]
  BY DEF Fields
<1>3. ch \in NewChanges(c) <=> \E i \in DOMAIN F : ch \in FieldChanges(c, F[i], PathAt(c, i))
  BY DEF NewChanges
<1>4. ASSUME ch \in NewChanges(c)
      PROVE  \/ \E field \in Fields[c.schema] :
                  \/ field.kind = "section" /\ ch \in CompareSingle(c, field, c.path)
                  \/ field.kind = "list" /\ ch \in CompareList(c, field, c.path)
             \/ \E i \in DOMAIN F : F[i].kind = "param" /\ ch \in CompareParam(c, F[i], PathAt(c, i))
  <2>1. PICK i \in DOMAIN F : ch \in FieldChanges(c, F[i], PathAt(c, i))
    BY <1>3, <1>4
  <2>2. QED BY <1>1, <2>1
<1>5. ASSUME NEW field \in Fields[c.schema],
             \/ field.kind = "section" /\ ch \in CompareSingle(c, field, c.path)
             \/ field.kind = "list" /\ ch \in CompareList(c, field, c.path)
      PROVE  ch \in NewChanges(c)
  <2>1. PICK i \in DOMAIN F : field = F[i]
    BY <1>2
  <2>2. QED BY <1>1, <1>3, <1>5, <2>1
<1>6. ASSUME NEW i \in DOMAIN F, F[i].kind = "param", ch \in CompareParam(c, F[i], PathAt(c, i))
      PROVE  ch \in NewChanges(c)
  BY <1>1, <1>3, <1>6
<1>7. QED BY <1>4, <1>5, <1>6

-----------------------------------------------------------------------------
(* Every difference in a section is reported or left to a call *)

\* Address a lies under one of the changes, as PatchIsComplete asks.
Covered(a, C) ==
  \E ch \in C :
    /\ IsPrefix(AddressOf(ch), a)
    /\ ch.update_policy = "IGNORED" => Last(a) = Step("QueueUpdateStrategy")

\* The address of a change that is not one of a list.
LEMMA ParamAddress ==
  ASSUME NEW path, NEW key, NEW old, NEW new, NEW policy
  PROVE  /\ key # "Sequence" =>
              AddressOf(Changed(path, key, old, new, policy, FALSE)) = Append(path, Step(key))
         /\ key = "Sequence" =>
              AddressOf(Changed(path, key, old, new, policy, FALSE)) = Append(path, Step("Script"))
  BY DEF AddressOf, Changed

\* The address of the change of a list.
LEMMA ListAddress ==
  ASSUME NEW path, NEW key, NEW item, item # None, NEW policy
  PROVE  /\ AddressOf(Changed(path, key, None, item, policy, TRUE)) =
              Append(path, ItemStep(key, Get(item, Update_key(key))))
         /\ AddressOf(Changed(path, key, item, None, policy, TRUE)) =
              Append(path, ItemStep(key, Get(item, Update_key(key))))
<1>1. ASSUME NEW ch, ch.is_list = TRUE, ch.path = path, ch.key = key,
             (ch.old_value = None /\ ch.new_value = item) \/ ch.old_value = item
      PROVE  AddressOf(ch) = Append(path, ItemStep(key, Get(item, Update_key(key))))
  BY <1>1 DEF AddressOf
<1>2. QED BY <1>1 DEF Changed

\* The change of form is reported for the action as a whole.
LEMMA SwitchedCovers ==
  ASSUME NEW B, NEW T, NEW c, Located(c, B, T), NEW j \in DOMAIN Schemas[c.schema],
         FormSwitched(c, Schemas[c.schema][j]), PathAt(c, j) = c.path
  PROVE  \E ch \in NewChanges(c) :
           /\ CompareParam(c, Schemas[c.schema][j], c.path) = {ch}
           /\ AddressOf(ch) = c.path /\ ch.update_policy # "IGNORED"
           /\ ch.path = Front(c.path) /\ ch.key \in ActionKeys
<1> DEFINE field == Schemas[c.schema][j]
           bv == GetValue(c.b, field.key)
           tv == GetValue(c.t, field.key)
<1>1. field \in Fields[c.schema] /\ c.schema \in DOMAIN Schemas
  BY DEF Fields, Located
<1>2. field.kind = "param" /\ field.key = "Script"
  BY SwitchedForm
<1>3. IsAction(c.schema)
  BY <1>1, <1>2 DEF IsAction
<1>4. PICK p : \E k \in ActionKeys : IsPath(p) /\ c.path = Append(p, Step(k))
  BY <1>3 DEF Located
<1>5. PICK k \in ActionKeys : IsPath(p) /\ c.path = Append(p, Step(k))
  BY <1>4
<1>6. Front(c.path) = p /\ Last(c.path) = Step(k)
  BY <1>5, PathAppend
<1>7. Last(c.path)[1] = k
  BY <1>6 DEF Step
<1> DEFINE ch == Changed(p, k, bv, tv, field.policy, FALSE)
<1>8. CompareParam(c, field, c.path) = {ch}
  BY <1>6, <1>7 DEF CompareParam
<1>9. ch \in NewChanges(c)
  BY <1>1, <1>2, <1>8, NewChangesBy
<1>10. AddressOf(ch) = c.path
  BY <1>5, ParamAddress DEF ActionKeys
<1>11. field.policy # "IGNORED"
  <2>1. FieldAssumption(c.schema, field)
    BY <1>1, FieldFacts
  <2>2. QED BY <1>2, <2>1 DEF FieldAssumption
<1>12. ch.update_policy = field.policy /\ ch.path = p /\ ch.key = k
  BY DEF Changed
<1>13. QED BY <1>5, <1>6, <1>8, <1>9, <1>10, <1>11, <1>12

\* A parameter found in one form in both configurations, with two values.
LEMMA UnswitchedParam ==
  ASSUME NEW c, NEW field, field.kind = "param", field.key # "Sequence", NEW path,
         GetValue(c.b, field.key).key = GetValue(c.t, field.key).key,
         GetValue(c.b, field.key).value # GetValue(c.t, field.key).value
  PROVE  \A ch : ch \in CompareParam(c, field, path) <=>
           ch = Changed(path, GetValue(c.b, field.key).key, GetValue(c.b, field.key).value,
                        GetValue(c.t, field.key).value, field.policy, FALSE)
  BY DEF CompareParam, FormSwitched

\* The address of such a change.
LEMMA UnswitchedAddress ==
  ASSUME NEW section, NEW key, key # "Sequence", NEW path, NEW old, NEW new, NEW policy
  PROVE  AddressOf(Changed(path, GetValue(section, key).key, old, new, policy, FALSE)) =
           Append(path, Step(key))
<1> DEFINE v == GetValue(section, key)
<1>1. v.key = key \/ (v.key = "Sequence" /\ key = "Script")
  BY ValueKey
<1> HIDE DEF v
<1>2. AddressOf(Changed(path, v.key, old, new, policy, FALSE)) = Append(path, Step(key))
  BY <1>1, ParamAddress
<1>3. QED BY <1>2 DEF v

\* A parameter that differs is reported.
LEMMA ParamCovered ==
  ASSUME NEW B, NEW T, NEW c, Located(c, B, T), NEW field \in Fields[c.schema],
         field.kind = "param",
         \/ GetValue(c.b, field.key).key # GetValue(c.t, field.key).key
         \/ GetValue(c.b, field.key).value # GetValue(c.t, field.key).value
  PROVE  Covered(Append(c.path, Step(field.key)), NewChanges(c))
<1> DEFINE a == Append(c.path, Step(field.key))
<1>1. PICK i \in DOMAIN Schemas[c.schema] : field = Schemas[c.schema][i]
  BY DEF Fields, Located
<1>2. c.schema \in DOMAIN Schemas /\ IsPath(c.path)
  BY DEF Located
<1>3. IsPath(a) /\ IsPrefix(c.path, a) /\ Last(a) = Step(field.key) /\ IsPrefix(a, a)
  BY <1>2, PathAppend, PrefixSelf
<1>4. FieldAssumption(c.schema, field)
  BY <1>2, FieldFacts
<1>5. field.key # "Sequence" /\ (field.policy = "IGNORED" => field.key = "QueueUpdateStrategy")
  BY <1>4 DEF FieldAssumption
<1> SUFFICES Covered(a, NewChanges(c))
  OBVIOUS
<1> HIDE DEF a
<1>6. ASSUME NEW j \in DOMAIN Schemas[c.schema], FormSwitched(c, Schemas[c.schema][j]), PathAt(c, j) = c.path
      PROVE  Covered(a, NewChanges(c))
  BY <1>3, <1>6, SwitchedCovers DEF Covered
<1>7. CASE FormSwitched(c, field)
  <2>1. field.key = "Script"
    BY <1>7, SwitchedForm
  <2>2. PathAt(c, i) = c.path
    BY <1>1, <1>2, <2>1, WherePath
  <2>3. QED BY <1>1, <1>6, <1>7, <2>2
<1>8. CASE ~FormSwitched(c, field)
  <2>1. GetValue(c.b, field.key).key = GetValue(c.t, field.key).key
    BY <1>8 DEF FormSwitched
  <2>2. CASE PathAt(c, i) = c.path
    <3> DEFINE ch == Changed(c.path, GetValue(c.b, field.key).key, GetValue(c.b, field.key).value,
                             GetValue(c.t, field.key).value, field.policy, FALSE)
    <3>1. ch \in CompareParam(c, field, c.path)
      BY <1>5, <2>1, UnswitchedParam
    <3>2. ch \in NewChanges(c)
      BY <1>1, <1>2, <2>2, <3>1, NewChangesBy
    <3>3. AddressOf(ch) = a
      <4>1. \A old, new, policy :
              AddressOf(Changed(c.path, GetValue(c.b, field.key).key, old, new, policy, FALSE)) =
                Append(c.path, Step(field.key))
        BY <1>5, UnswitchedAddress
      <4>2. QED BY <4>1 DEF a
    <3>4. ch.update_policy = field.policy
      BY DEF Changed
    <3> HIDE DEF ch
    <3>5. QED BY <1>3, <1>5, <3>2, <3>3, <3>4 DEF Covered
  <2>3. CASE PathAt(c, i) # c.path
    BY <1>2, <1>6, <2>3, WherePath
  <2>4. QED BY <2>2, <2>3
<1>9. QED BY <1>7, <1>8

\* The sections of a section: a call, or a change of the section as a whole.
LEMMA SectionStep ==
  ASSUME NEW B, NEW T, NEW c, Located(c, B, T), NEW field \in Fields[c.schema], field.kind = "section",
         Truthy(Get(c.b, field.key)) \/ Truthy(Get(c.t, field.key))
  PROVE  IF OneSided(c, field) /\ ~Traversed(field)
         THEN \A a : IsPrefix(Append(c.path, Step(field.key)), a) => Covered(a, NewChanges(c))
         ELSE Call(Get(c.b, field.key), Get(c.t, field.key), field.schema,
                   Append(c.path, Step(field.key))) \in NewCalls(c)
<1> DEFINE bv == Get(c.b, field.key)
           tv == Get(c.t, field.key)
           here == Append(c.path, Step(field.key))
           d == Call(bv, tv, field.schema, here)
<1>1. c.schema \in DOMAIN Schemas
  BY DEF Located
<1>2. CASE ~(OneSided(c, field) /\ ~Traversed(field))
  <2>1. (Truthy(bv) /\ Truthy(tv)) \/ (OneSided(c, field) /\ Traversed(field))
    BY <1>2 DEF OneSided, Truthy
  <2>2. d \in NestedCalls(c, field, c.path)
    BY <2>1 DEF NestedCalls
  <2>3. d \in NewCalls(c)
    BY <1>1, <2>2, NewCallsBy
  <2>4. QED BY <1>2, <2>3
<1>3. CASE OneSided(c, field) /\ ~Traversed(field)
  <2> DEFINE ch == Changed(c.path, field.key, Shown(bv), Shown(tv), field.policy, FALSE)
  <2>1. ch \in CompareSingle(c, field, c.path)
    BY <1>3 DEF CompareSingle
  <2>2. ch \in NewChanges(c)
    BY <1>1, <2>1, NewChangesBy
  <2>3. field.key # "Sequence"
    BY <1>1, FieldKey
  <2>4. AddressOf(ch) = here
    BY <2>3, ParamAddress
  <2>5. ch.update_policy # "IGNORED"
    BY <1>3 DEF Changed, Traversed
  <2> HIDE DEF ch, here
  <2>6. \A a : IsPrefix(here, a) => Covered(a, NewChanges(c))
    BY <2>2, <2>4, <2>5 DEF Covered
  <2>7. QED BY <1>3, <2>6 DEF here
<1>4. QED BY <1>2, <1>3

\* Every item of the list has its update key.
Named(list, field) == \A i \in DOMAIN list : list[i] # None /\ Get(list[i], field.update_key) # None

\* The items of a list of a well-formed section.
LEMMA ListOfNode ==
  ASSUME NEW B, Closed(B), NEW node, IsNode(node), Truthy(node.section) => node \in B,
         NEW field \in Fields[node.schema], field.kind = "list",
         NEW list, list = Items(node.section, field.key),
         NEW names, names = Keys(list, field.update_key)
  PROVE  /\ names \in Seq(Range(names)) /\ DOMAIN names = DOMAIN list
         /\ Named(list, field)
         /\ list # << >> => node \in B
<1> DEFINE items == Items(node.section, field.key)
           keys  == Keys(items, field.update_key)
<1>1. CASE ~Truthy(node.section)
  <2>1. items = << >>
    BY <1>1, NothingThere
  <2>2. keys = << >>
    BY <2>1 DEF Keys
  <2>3. \A S : << >> \in Seq(S)
    OBVIOUS
  <2>4. items \in Seq(Range(items)) /\ keys \in Seq(Range(keys))
    <3> HIDE DEF items, keys
    <3> QED BY <2>1, <2>2, <2>3
  <2>5. DOMAIN items = {} /\ DOMAIN keys = {}
    <3> HIDE DEF items, keys
    <3> QED BY <2>1, <2>2
  <2>6. QED BY <2>1, <2>4, <2>5 DEF Named
<1>2. CASE Truthy(node.section)
  <2>1. node \in B /\ WellFormed(node)
    BY <1>2 DEF Closed
  <2>2. /\ items \in Seq(Range(items))
        /\ \A i \in DOMAIN items : items[i] # None /\ Get(items[i], field.update_key) # None
    BY <2>1 DEF WellFormed
  <2> HIDE DEF items
  <2>3. DOMAIN items = 1..Len(items) /\ Len(items) \in Nat
    BY <2>2
  <2>4. keys = [i \in 1..Len(items) |-> Get(items[i], field.update_key)]
    BY <2>3 DEF Keys
  <2>5. \A i \in 1..Len(items) : Get(items[i], field.update_key) \in Range(keys)
    BY <2>4 DEF Range
  <2> DEFINE R == Range(keys)
  <2>6. keys \in Seq(R)
    <3> HIDE DEF R
    <3> QED BY <2>3, <2>4, <2>5 DEF R
  <2>7. DOMAIN keys = DOMAIN items
    BY <2>3, <2>4
  <2>8. QED BY <2>1, <2>2, <2>6, <2>7 DEF items, Named
<1>3. QED BY <1>1, <1>2

\* The two lists that are compared for a field, and the items found gone.
Olds(c, field) == Items(c.b, field.key)
News(c, field) == Items(c.t, field.key)
Gone(c, field) == NotVisited(Olds(c, field), { MatchesOf(c, field)[i] : i \in DOMAIN News(c, field) })

\* No two items of the list have the same update key.
UniqueItems(items, field) ==
  \A i, j \in DOMAIN items : Get(items[i], field.update_key) = Get(items[j], field.update_key) => i = j

\* How the items of the two lists are paired.
Paired(c, field, B, T) ==
  LET olds  == Olds(c, field)
      news  == News(c, field)
      match == MatchesOf(c, field)
      Key(item) == Get(item, field.update_key)
  IN  /\ 0 \notin DOMAIN olds
      /\ \A j \in DOMAIN olds : olds[j] # None /\ Key(olds[j]) # None /\ BNode(c) \in B
      /\ \A i \in DOMAIN news : news[i] # None /\ Key(news[i]) # None /\ TNode(c) \in T
      /\ \A i \in DOMAIN news :
           /\ match[i] = 0 <=> \A j \in DOMAIN olds : Key(olds[j]) # Key(news[i])
           /\ match[i] # 0 => match[i] \in DOMAIN olds /\ Key(olds[match[i]]) = Key(news[i])
      /\ \A j : j \in Gone(c, field) <=> j \in DOMAIN olds /\ \A i \in DOMAIN news : match[i] # j
      /\ UniqueItems(olds, field) =>
           \A j \in Gone(c, field) : \A i \in DOMAIN news : Key(news[i]) # Key(olds[j])

\* So they are, in every call.
LEMMA Pairing ==
  ASSUME NEW B, NEW T, Closed(B), Closed(T), NEW c, Located(c, B, T),
         NEW field \in Fields[c.schema], field.kind = "list"
  PROVE  Paired(c, field, B, T)
<1> DEFINE olds  == Olds(c, field)
           news  == News(c, field)
           match == MatchesOf(c, field)
           Key(item) == Get(item, field.update_key)
           okeys == Keys(olds, field.update_key)
           nkeys == Keys(news, field.update_key)
<1>1. /\ c.schema \in DOMAIN Schemas /\ IsPath(c.path)
      /\ Truthy(c.b) => BNode(c) \in B
      /\ Truthy(c.t) => TNode(c) \in T
  BY DEF Located
<1>2. /\ IsNode(BNode(c)) /\ BNode(c).section = c.b /\ BNode(c).schema = c.schema
      /\ IsNode(TNode(c)) /\ TNode(c).section = c.t /\ TNode(c).schema = c.schema
  BY <1>1, NodeOfCall
<1>3. /\ okeys \in Seq(Range(okeys)) /\ DOMAIN okeys = DOMAIN olds
      /\ \A j \in DOMAIN olds : olds[j] # None /\ Key(olds[j]) # None
      /\ olds # << >> => BNode(c) \in B
  <2>1. /\ IsNode(BNode(c)) /\ (Truthy(BNode(c).section) => BNode(c) \in B)
        /\ field \in Fields[BNode(c).schema]
    BY <1>1, <1>2
  <2>2. olds = Items(BNode(c).section, field.key) /\ okeys = Keys(olds, field.update_key)
    BY <1>2 DEF Olds
  <2> DEFINE node == BNode(c)
  <2>3. /\ IsNode(node) /\ (Truthy(node.section) => node \in B) /\ field \in Fields[node.schema]
        /\ olds = Items(node.section, field.key) /\ okeys = Keys(olds, field.update_key)
    BY <2>1, <2>2
  <2> HIDE DEF okeys, olds, node
  <2>4. /\ okeys \in Seq(Range(okeys)) /\ DOMAIN okeys = DOMAIN olds
        /\ Named(olds, field)
        /\ olds # << >> => node \in B
    BY <2>3, ListOfNode
  <2>5. QED BY <2>4 DEF node, Named
<1>4. /\ nkeys \in Seq(Range(nkeys)) /\ DOMAIN nkeys = DOMAIN news
      /\ \A i \in DOMAIN news : news[i] # None /\ Key(news[i]) # None
      /\ news # << >> => TNode(c) \in T
  <2>1. /\ IsNode(TNode(c)) /\ (Truthy(TNode(c).section) => TNode(c) \in T)
        /\ field \in Fields[TNode(c).schema]
    BY <1>1, <1>2
  <2>2. news = Items(TNode(c).section, field.key) /\ nkeys = Keys(news, field.update_key)
    BY <1>2 DEF News
  <2> DEFINE node == TNode(c)
  <2>3. /\ IsNode(node) /\ (Truthy(node.section) => node \in T) /\ field \in Fields[node.schema]
        /\ news = Items(node.section, field.key) /\ nkeys = Keys(news, field.update_key)
    BY <2>1, <2>2
  <2> HIDE DEF nkeys, news, node
  <2>4. /\ nkeys \in Seq(Range(nkeys)) /\ DOMAIN nkeys = DOMAIN news
        /\ Named(news, field)
        /\ news # << >> => node \in T
    BY <2>3, ListOfNode
  <2>5. QED BY <2>4 DEF node, Named
<1>5. (\A j \in DOMAIN olds : okeys[j] = Key(olds[j])) /\ (\A i \in DOMAIN news : nkeys[i] = Key(news[i]))
  BY DEF Keys
<1>6. match = Matches(okeys, nkeys)
  BY DEF MatchesOf, Olds, News
<1> DEFINE K == Range(okeys) \cup Range(nkeys)
<1>7. okeys \in Seq(K) /\ nkeys \in Seq(K)
  BY <1>3, <1>4
<1>8. NotVisited(okeys, { match[i] : i \in DOMAIN nkeys }) = Gone(c, field)
  BY <1>3, <1>4 DEF NotVisited, Gone
<1> HIDE DEF olds, news, match, okeys, nkeys, K
<1>9. /\ \A i \in DOMAIN nkeys :
           /\ match[i] = 0 <=> ~Keyed(okeys, nkeys[i])
           /\ match[i] # 0 => match[i] \in DOMAIN okeys /\ okeys[match[i]] = nkeys[i]
      /\ (\A j, k \in DOMAIN okeys : okeys[j] = okeys[k] => j = k) =>
           \A j \in Gone(c, field) : ~Keyed(nkeys, okeys[j])
  BY <1>6, <1>7, <1>8, PairedItems
<1>10. \A i \in DOMAIN news :
         /\ match[i] = 0 <=> \A j \in DOMAIN olds : Key(olds[j]) # Key(news[i])
         /\ match[i] # 0 => match[i] \in DOMAIN olds /\ Key(olds[match[i]]) = Key(news[i])
  BY <1>3, <1>4, <1>5, <1>9 DEF Keyed
<1>11. \A j : j \in Gone(c, field) <=> j \in DOMAIN olds /\ \A i \in DOMAIN news : match[i] # j
  BY DEF Gone, NotVisited, olds, news, match
<1>12. UniqueItems(olds, field) =>
         \A j \in Gone(c, field) : \A i \in DOMAIN news : Key(news[i]) # Key(olds[j])
  <2>1. SUFFICES ASSUME UniqueItems(olds, field), NEW j \in Gone(c, field), NEW i \in DOMAIN news,
                        Key(news[i]) = Key(olds[j])
                 PROVE  FALSE
    OBVIOUS
  <2>2. \A k, l \in DOMAIN okeys : okeys[k] = okeys[l] => k = l
    BY <1>3, <1>5, <2>1 DEF UniqueItems
  <2>3. ~Keyed(nkeys, okeys[j])
    BY <1>9, <2>2
  <2>4. j \in DOMAIN olds
    BY <1>11
  <2>5. QED BY <1>4, <1>5, <2>1, <2>3, <2>4 DEF Keyed
<1>13. (\A j \in DOMAIN olds : olds # << >>) /\ (\A i \in DOMAIN news : news # << >>)
  <2>1. DOMAIN << >> = {}
    OBVIOUS
  <2>2. QED BY <2>1
<1>14. 0 \notin DOMAIN olds
  BY <1>3
<1>15. QED BY <1>3, <1>4, <1>10, <1>11, <1>12, <1>13, <1>14 DEF olds, news, match, Paired

\* An item that is compared with another one.
LEMMA ItemCall ==
  ASSUME NEW B, NEW T, Closed(B), Closed(T), NEW c, Located(c, B, T),
         NEW field \in Fields[c.schema], field.kind = "list",
         NEW i \in DOMAIN News(c, field), MatchesOf(c, field)[i] # 0
  PROVE  \E d \in NewCalls(c) :
           /\ BNode(d) = ItemNode(BNode(c), field, Olds(c, field)[MatchesOf(c, field)[i]])
           /\ TNode(d) = ItemNode(TNode(c), field, News(c, field)[i])
<1> DEFINE new == News(c, field)[i]
           old == Olds(c, field)[MatchesOf(c, field)[i]]
           d == Call(old, new, field.schema, Append(c.path, ItemStep(field.key, Get(new, field.update_key))))
<1>1. c.schema \in DOMAIN Schemas /\ BNode(c).path = c.path /\ TNode(c).path = c.path
  BY DEF Located, BNode, TNode, Node
<1>2. Get(old, field.update_key) = Get(new, field.update_key)
  BY Pairing DEF Paired
<1>3. d \in ItemCalls(c, field, c.path)
  BY DEF ItemCalls, News, Olds
<1>4. d \in NewCalls(c)
  BY <1>1, <1>3, NewCallsBy
<1> HIDE DEF new, old
<1>5. BNode(d) = ItemNode(BNode(c), field, old) /\ TNode(d) = ItemNode(TNode(c), field, new)
  BY <1>1, <1>2 DEF BNode, TNode, ItemNode, Call, Node
<1>6. QED BY <1>4, <1>5 DEF new, old

\* An item that is added is reported with all that is in it.
LEMMA AddedCovers ==
  ASSUME NEW B, NEW T, Closed(B), Closed(T), NEW c, Located(c, B, T),
         NEW field \in Fields[c.schema], field.kind = "list",
         NEW i \in DOMAIN News(c, field), MatchesOf(c, field)[i] = 0,
         NEW a, IsPrefix(ItemNode(TNode(c), field, News(c, field)[i]).path, a)
  PROVE  Covered(a, NewChanges(c))
<1> DEFINE new == News(c, field)[i]
           ch == Changed(c.path, field.key, None, new, field.policy, TRUE)
<1>1. c.schema \in DOMAIN Schemas /\ TNode(c).path = c.path
  BY DEF Located, TNode, Node
<1>2. field.update_key = Update_key(field.key) /\ field.policy # "IGNORED"
  BY <1>1, ListField
<1>3. new # None
  BY Pairing DEF Paired
<1>4. ch \in CompareList(c, field, c.path)
  BY DEF CompareList, News
<1>5. ch \in NewChanges(c)
  BY <1>1, <1>4, NewChangesBy
<1>6. ch.update_policy = field.policy
  BY DEF Changed
<1>7. AddressOf(ch) = Append(c.path, ItemStep(field.key, Get(new, field.update_key)))
  <2>1. AddressOf(ch) = Append(c.path, ItemStep(field.key, Get(new, Update_key(field.key))))
    <3> HIDE DEF new
    <3> QED BY <1>3, ListAddress
  <2>2. QED BY <1>2, <2>1
<1> HIDE DEF ch
<1>8. AddressOf(ch) = ItemNode(TNode(c), field, new).path
  BY <1>1, <1>7 DEF ItemNode, Node
<1>9. QED BY <1>2, <1>5, <1>6, <1>8 DEF Covered

\* An item that is removed, too.
LEMMA RemovedCovers ==
  ASSUME NEW B, NEW T, Closed(B), Closed(T), NEW c, Located(c, B, T),
         NEW field \in Fields[c.schema], field.kind = "list",
         NEW j \in Gone(c, field),
         NEW a, IsPrefix(ItemNode(BNode(c), field, Olds(c, field)[j]).path, a)
  PROVE  Covered(a, NewChanges(c))
<1> DEFINE old == Olds(c, field)[j]
           ch == Changed(c.path, field.key, old, None, field.policy, TRUE)
<1>1. c.schema \in DOMAIN Schemas /\ BNode(c).path = c.path
  BY DEF Located, BNode, Node
<1>2. field.update_key = Update_key(field.key) /\ field.policy # "IGNORED"
  BY <1>1, ListField
<1>3. old # None
  BY Pairing DEF Paired
<1>4. ch \in CompareList(c, field, c.path)
  BY DEF CompareList, News, Olds, Gone
<1>5. ch \in NewChanges(c)
  BY <1>1, <1>4, NewChangesBy
<1>6. ch.update_policy = field.policy
  BY DEF Changed
<1>7. AddressOf(ch) = Append(c.path, ItemStep(field.key, Get(old, field.update_key)))
  <2>1. AddressOf(ch) = Append(c.path, ItemStep(field.key, Get(old, Update_key(field.key))))
    <3> HIDE DEF old
    <3> QED BY <1>3, ListAddress
  <2>2. QED BY <1>2, <2>1
<1> HIDE DEF ch
<1>8. AddressOf(ch) = ItemNode(BNode(c), field, old).path
  BY <1>1, <1>7 DEF ItemNode, Node
<1>9. QED BY <1>2, <1>5, <1>6, <1>8 DEF Covered

BFacts(c, n) == FactsOf(Below(BNode(c))[n])
TFacts(c, n) == FactsOf(Below(TNode(c))[n])

\* A fact within n levels of one of the two sections alone.
Differs(f, c, n) ==
  \/ f \in BFacts(c, n) /\ f \notin TFacts(c, n)
  \/ f \in TFacts(c, n) /\ f \notin BFacts(c, n)

\* A fact is one of the section itself or one of a section in it.
LEMMA FactsDown ==
  ASSUME NEW node, NEW n \in 0..Depth, NEW f
  PROVE  f \in FactsOf(Below(node)[n]) <=>
           f \in FactsAt(node) \/ (n # 0 /\ \E y \in Children(node) : f \in FactsOf(Below(y)[n-1]))
<1>1. CASE n = 0
  BY <1>1, FactsSplit
<1>2. CASE n # 0
  <2>1. n-1 \in Nat /\ n-1 < Depth /\ (n-1)+1 = n
    BY <1>2, SchemasAssumption
  <2>2. FactsOf(Below(node)[(n-1)+1]) =
          FactsAt(node) \cup UNION { FactsOf(Below(y)[n-1]) : y \in Children(node) }
    BY <2>1, FactsSplit
  <2>3. QED BY <1>2, <2>1, <2>2
<1>3. QED BY <1>1, <1>2

\* A fact of one of the two sections alone.
LEMMA FactsHere ==
  ASSUME NEW B, NEW T, NEW c, Located(c, B, T), NEW f,
         \/ f \in FactsAt(BNode(c)) /\ f \notin FactsAt(TNode(c))
         \/ f \in FactsAt(TNode(c)) /\ f \notin FactsAt(BNode(c))
  PROVE  Covered(f.address, NewChanges(c))
<1>1. c.schema \in DOMAIN Schemas /\ IsPath(c.path)
  BY DEF Located
<1>2. /\ IsNode(BNode(c)) /\ BNode(c).section = c.b /\ BNode(c).schema = c.schema /\ BNode(c).path = c.path
      /\ IsNode(TNode(c)) /\ TNode(c).section = c.t /\ TNode(c).schema = c.schema /\ TNode(c).path = c.path
  BY <1>1, NodeOfCall
<1>3. PICK field \in Fields[c.schema] :
        /\ f.address = Append(c.path, Step(field.key))
        /\ \/ f \in FactsBy(BNode(c), field) /\ f \notin FactsBy(TNode(c), field)
           \/ f \in FactsBy(TNode(c), field) /\ f \notin FactsBy(BNode(c), field)
  <2>1. CASE f \in FactsAt(BNode(c)) /\ f \notin FactsAt(TNode(c))
    <3>1. PICK field \in Fields[c.schema] :
            f \in FactsBy(BNode(c), field) /\ f.address = Append(c.path, Step(field.key))
      BY <1>2, <2>1, AddressAt
    <3>2. f \notin FactsBy(TNode(c), field)
      BY <1>2, <2>1 DEF FactsAt
    <3>3. QED BY <3>1, <3>2
  <2>2. CASE f \in FactsAt(TNode(c)) /\ f \notin FactsAt(BNode(c))
    <3>1. PICK field \in Fields[c.schema] :
            f \in FactsBy(TNode(c), field) /\ f.address = Append(c.path, Step(field.key))
      BY <1>2, <2>2, AddressAt
    <3>2. f \notin FactsBy(BNode(c), field)
      BY <1>2, <2>2 DEF FactsAt
    <3>3. QED BY <3>1, <3>2
  <2>3. QED BY <2>1, <2>2
<1>4. CASE field.kind = "param"
  <2>1. \/ GetValue(c.b, field.key).key # GetValue(c.t, field.key).key
        \/ GetValue(c.b, field.key).value # GetValue(c.t, field.key).value
    BY <1>2, <1>3, <1>4, ParamBy
  <2>2. QED BY <1>3, <1>4, <2>1, ParamCovered
<1>5. CASE field.kind = "section"
  <2>1. field.policy # "IGNORED" /\ OneSided(c, field)
    <3>1. \A g : g \in FactsBy(BNode(c), field) <=>
            /\ Truthy(Get(c.b, field.key)) /\ field.policy # "IGNORED"
            /\ g = Fact(Append(c.path, Step(field.key)), "", "set")
      BY <1>2, <1>5, SectionBy
    <3>2. \A g : g \in FactsBy(TNode(c), field) <=>
            /\ Truthy(Get(c.t, field.key)) /\ field.policy # "IGNORED"
            /\ g = Fact(Append(c.path, Step(field.key)), "", "set")
      BY <1>2, <1>5, SectionBy
    <3>3. QED BY <1>3, <3>1, <3>2 DEF OneSided
  <2>2. ~Traversed(field) /\ (Truthy(Get(c.b, field.key)) \/ Truthy(Get(c.t, field.key)))
    BY <2>1 DEF Traversed, OneSided, Truthy
  <2>3. \A a : IsPrefix(Append(c.path, Step(field.key)), a) => Covered(a, NewChanges(c))
    BY <1>5, <2>1, <2>2, SectionStep
  <2>4. IsPrefix(f.address, f.address)
    BY <1>1, <1>3, PathAppend, PrefixSelf
  <2>5. QED BY <1>3, <2>3, <2>4
<1>6. CASE field.kind = "list"
  BY <1>2, <1>3, <1>6, ListBy
<1>7. QED BY <1>1, <1>4, <1>5, <1>6, FieldKind

\* The call that a section of a section may lead to.
NestedCall(c, field) ==
  Call(Get(c.b, field.key), Get(c.t, field.key), field.schema, Append(c.path, Step(field.key)))

\* Its sections are the children of the sections of the call.
LEMMA NestedFacts ==
  ASSUME NEW B, NEW T, NEW c, Located(c, B, T), NEW field \in Fields[c.schema], field.kind = "section",
         NEW d, d = NestedCall(c, field), NEW m \in 0..Depth, NEW f
  PROVE  /\ f \in BFacts(d, m) <=> \E y \in ChildrenBy(BNode(c), field) : f \in FactsOf(Below(y)[m])
         /\ f \in TFacts(d, m) <=> \E y \in ChildrenBy(TNode(c), field) : f \in FactsOf(Below(y)[m])
         /\ f \in BFacts(d, m) \/ f \in TFacts(d, m) => IsPrefix(Append(c.path, Step(field.key)), f.address)
<1>1. /\ c.schema \in DOMAIN Schemas /\ IsPath(c.path)
      /\ BNode(c).section = c.b /\ BNode(c).path = c.path
      /\ TNode(c).section = c.t /\ TNode(c).path = c.path
  BY NodeOfCall DEF Located
<1>2. field.schema \in DOMAIN Schemas
  <2>1. FieldAssumption(c.schema, field)
    BY <1>1, FieldFacts
  <2>2. QED BY <2>1 DEF FieldAssumption
<1>3. /\ d.b = Get(c.b, field.key) /\ d.t = Get(c.t, field.key)
      /\ d.schema = field.schema /\ d.path = Append(c.path, Step(field.key)) /\ IsPath(d.path)
  BY <1>1, PathAppend DEF NestedCall, Call
<1>4. /\ IsNode(BNode(d)) /\ BNode(d).section = d.b /\ BNode(d).path = d.path
      /\ IsNode(TNode(d)) /\ TNode(d).section = d.t /\ TNode(d).path = d.path
  BY <1>2, <1>3, NodeOfCall
<1>5. \A y : y \in ChildrenBy(BNode(c), field) <=> Truthy(d.b) /\ y = BNode(d)
  <2>1. BNode(d) = Node(Get(c.b, field.key), field.schema, Append(c.path, Step(field.key)))
    BY <1>3 DEF BNode
  <2>2. \A y : y \in ChildrenBy(BNode(c), field) <=>
          /\ Truthy(Get(BNode(c).section, field.key))
          /\ y = Node(Get(BNode(c).section, field.key), field.schema, Append(BNode(c).path, Step(field.key)))
    BY SectionBy
  <2>3. QED BY <1>1, <1>3, <2>1, <2>2
<1>6. \A y : y \in ChildrenBy(TNode(c), field) <=> Truthy(d.t) /\ y = TNode(d)
  <2>1. TNode(d) = Node(Get(c.t, field.key), field.schema, Append(c.path, Step(field.key)))
    BY <1>3 DEF TNode
  <2>2. \A y : y \in ChildrenBy(TNode(c), field) <=>
          /\ Truthy(Get(TNode(c).section, field.key))
          /\ y = Node(Get(TNode(c).section, field.key), field.schema, Append(TNode(c).path, Step(field.key)))
    BY SectionBy
  <2>3. QED BY <1>1, <1>3, <2>1, <2>2
<1>7. (~Truthy(d.b) => BFacts(d, m) = {}) /\ (~Truthy(d.t) => TFacts(d, m) = {})
  BY <1>4, NoFacts DEF BFacts, TFacts
<1>8. f \in BFacts(d, m) \/ f \in TFacts(d, m) => IsPrefix(Append(c.path, Step(field.key)), f.address)
  BY <1>3, <1>4, AddressBelow DEF BFacts, TFacts
<1>9. QED BY <1>5, <1>6, <1>7, <1>8 DEF BFacts, TFacts

\* A fact below a section of one of the two sections, and not of the other.
LEMMA InSection ==
  ASSUME NEW B, NEW T, NEW c, Located(c, B, T), NEW field \in Fields[c.schema], field.kind = "section",
         NEW m \in 0..Depth, NEW f,
         \/ /\ \E y \in ChildrenBy(BNode(c), field) : f \in FactsOf(Below(y)[m])
            /\ \A y \in Children(TNode(c)) : f \notin FactsOf(Below(y)[m])
         \/ /\ \E y \in ChildrenBy(TNode(c), field) : f \in FactsOf(Below(y)[m])
            /\ \A y \in Children(BNode(c)) : f \notin FactsOf(Below(y)[m])
  PROVE  \/ Covered(f.address, NewChanges(c))
         \/ \E d \in NewCalls(c) : Differs(f, d, m)
<1> DEFINE d == NestedCall(c, field)
<1>1. /\ f \in BFacts(d, m) <=> \E y \in ChildrenBy(BNode(c), field) : f \in FactsOf(Below(y)[m])
      /\ f \in TFacts(d, m) <=> \E y \in ChildrenBy(TNode(c), field) : f \in FactsOf(Below(y)[m])
      /\ f \in BFacts(d, m) \/ f \in TFacts(d, m) => IsPrefix(Append(c.path, Step(field.key)), f.address)
  BY NestedFacts
<1>2. /\ BNode(c).schema = c.schema /\ BNode(c).section = c.b
      /\ TNode(c).schema = c.schema /\ TNode(c).section = c.t
  BY NodeOfCall DEF Located
<1>3. ChildrenBy(BNode(c), field) \subseteq Children(BNode(c)) /\ ChildrenBy(TNode(c), field) \subseteq Children(TNode(c))
  BY <1>2 DEF Children
<1>4. Differs(f, d, m)
  BY <1>1, <1>3 DEF Differs
<1>5. Truthy(Get(c.b, field.key)) \/ Truthy(Get(c.t, field.key))
  BY <1>2, SectionBy
<1>6. CASE OneSided(c, field) /\ ~Traversed(field)
  <2>1. \A a : IsPrefix(Append(c.path, Step(field.key)), a) => Covered(a, NewChanges(c))
    BY <1>5, <1>6, SectionStep
  <2>2. QED BY <1>1, <1>4, <2>1 DEF Differs
<1>7. CASE ~(OneSided(c, field) /\ ~Traversed(field))
  <2>1. d \in NewCalls(c)
    BY <1>5, <1>7, SectionStep DEF NestedCall
  <2>2. QED BY <1>4, <2>1
<1>8. QED BY <1>6, <1>7

\* The same for the items of a list.
LEMMA InList ==
  ASSUME NEW B, NEW T, Closed(B), Closed(T), NEW c, Located(c, B, T),
         NEW field \in Fields[c.schema], field.kind = "list",
         NEW m \in 0..Depth, NEW f,
         \/ /\ \E y \in ChildrenBy(BNode(c), field) : f \in FactsOf(Below(y)[m])
            /\ \A y \in Children(TNode(c)) : f \notin FactsOf(Below(y)[m])
         \/ /\ \E y \in ChildrenBy(TNode(c), field) : f \in FactsOf(Below(y)[m])
            /\ \A y \in Children(BNode(c)) : f \notin FactsOf(Below(y)[m])
  PROVE  \/ Covered(f.address, NewChanges(c))
         \/ \E d \in NewCalls(c) : Differs(f, d, m)
<1> DEFINE olds  == Olds(c, field)
           news  == News(c, field)
           match == MatchesOf(c, field)
<1>1. /\ IsNode(BNode(c)) /\ BNode(c).schema = c.schema /\ BNode(c).section = c.b
      /\ IsNode(TNode(c)) /\ TNode(c).schema = c.schema /\ TNode(c).section = c.t
  BY NodeOfCall DEF Located
<1>2. ChildrenBy(BNode(c), field) \subseteq Children(BNode(c)) /\ ChildrenBy(TNode(c), field) \subseteq Children(TNode(c))
  BY <1>1 DEF Children
<1>3. \A y : y \in ChildrenBy(BNode(c), field) <=> \E j \in DOMAIN olds : y = ItemNode(BNode(c), field, olds[j])
  <2>1. olds = Items(BNode(c).section, field.key)
    BY <1>1 DEF Olds
  <2> HIDE DEF olds, news, match
  <2>2. ASSUME NEW y
        PROVE  y \in ChildrenBy(BNode(c), field) <=> AmongItems(y, BNode(c), field, olds)
    BY <2>1, ListChild
  <2>3. QED BY <2>2 DEF AmongItems
<1>4. \A y : y \in ChildrenBy(TNode(c), field) <=> \E i \in DOMAIN news : y = ItemNode(TNode(c), field, news[i])
  <2>1. news = Items(TNode(c).section, field.key)
    BY <1>1 DEF News
  <2> HIDE DEF olds, news, match
  <2>2. ASSUME NEW y
        PROVE  y \in ChildrenBy(TNode(c), field) <=> AmongItems(y, TNode(c), field, news)
    BY <2>1, ListChild
  <2>3. QED BY <2>2 DEF AmongItems
<1>5. ASSUME NEW x, IsNode(x), NEW y \in Children(x), f \in FactsOf(Below(y)[m])
      PROVE  IsPrefix(y.path, f.address)
  BY <1>5, ChildrenOfNode, AddressBelow
<1>6. Paired(c, field, B, T)
  BY Pairing
<1>7. /\ \A i \in DOMAIN news : match[i] # 0 => match[i] \in DOMAIN olds
      /\ \A j : j \in Gone(c, field) <=> j \in DOMAIN olds /\ \A i \in DOMAIN news : match[i] # j
      /\ \A j \in DOMAIN olds : j # 0
  BY <1>6 DEF Paired
<1> HIDE DEF olds, news, match
<1>8. ASSUME NEW i \in DOMAIN news, match[i] # 0
      PROVE  \E d \in NewCalls(c) : /\ BNode(d) = ItemNode(BNode(c), field, olds[match[i]])
                                    /\ TNode(d) = ItemNode(TNode(c), field, news[i])
  BY <1>8, ItemCall DEF olds, news, match
<1>9. CASE /\ \E y \in ChildrenBy(BNode(c), field) : f \in FactsOf(Below(y)[m])
           /\ \A y \in Children(TNode(c)) : f \notin FactsOf(Below(y)[m])
  <2>1. PICK j \in DOMAIN olds : f \in FactsOf(Below(ItemNode(BNode(c), field, olds[j]))[m])
    BY <1>3, <1>9
  <2>2. CASE \A i \in DOMAIN news : match[i] # j
    <3>1. j \in Gone(c, field)
      BY <1>7, <2>2
    <3>2. ItemNode(BNode(c), field, olds[j]) \in Children(BNode(c))
      BY <1>2, <1>3
    <3>3. IsPrefix(ItemNode(BNode(c), field, olds[j]).path, f.address)
      BY <1>1, <1>5, <2>1, <3>2
    <3>4. QED BY <3>1, <3>3, RemovedCovers DEF olds
  <2>3. ASSUME NEW i \in DOMAIN news, match[i] = j
        PROVE  \E d \in NewCalls(c) : Differs(f, d, m)
    <3>1. PICK d \in NewCalls(c) : /\ BNode(d) = ItemNode(BNode(c), field, olds[j])
                                   /\ TNode(d) = ItemNode(TNode(c), field, news[i])
      BY <1>7, <1>8, <2>3
    <3>2. TNode(d) \in Children(TNode(c))
      BY <1>2, <1>4, <3>1
    <3>3. QED BY <1>9, <2>1, <3>1, <3>2 DEF BFacts, TFacts, Differs
  <2>4. QED BY <2>2, <2>3
<1>10. CASE /\ \E y \in ChildrenBy(TNode(c), field) : f \in FactsOf(Below(y)[m])
            /\ \A y \in Children(BNode(c)) : f \notin FactsOf(Below(y)[m])
  <2>1. PICK i \in DOMAIN news : f \in FactsOf(Below(ItemNode(TNode(c), field, news[i]))[m])
    BY <1>4, <1>10
  <2>2. CASE match[i] = 0
    <3>1. ItemNode(TNode(c), field, news[i]) \in Children(TNode(c))
      BY <1>2, <1>4
    <3>2. IsPrefix(ItemNode(TNode(c), field, news[i]).path, f.address)
      BY <1>1, <1>5, <2>1, <3>1
    <3>3. QED BY <2>2, <3>2, AddedCovers DEF news, match
  <2>3. CASE match[i] # 0
    <3>1. PICK d \in NewCalls(c) : /\ BNode(d) = ItemNode(BNode(c), field, olds[match[i]])
                                   /\ TNode(d) = ItemNode(TNode(c), field, news[i])
      BY <1>8, <2>3
    <3>2. BNode(d) \in Children(BNode(c))
      BY <1>2, <1>3, <1>7, <2>3, <3>1
    <3>3. QED BY <1>10, <2>1, <3>1, <3>2 DEF BFacts, TFacts, Differs
  <2>4. QED BY <2>2, <2>3
<1>11. QED BY <1>9, <1>10

\* What differs between the two sections of a call is reported by it, or
\* differs between the two sections of a call that it makes.
LEMMA DiffStep ==
  ASSUME NEW B, NEW T, Closed(B), Closed(T), NEW c, Located(c, B, T),
         NEW n \in 0..Depth, NEW f, Differs(f, c, n)
  PROVE  \/ Covered(f.address, NewChanges(c))
         \/ \E d \in NewCalls(c) : \E m \in 0..Depth : Differs(f, d, m)
<1>1. c.schema \in DOMAIN Schemas /\ BNode(c).schema = c.schema /\ TNode(c).schema = c.schema
  BY NodeOfCall DEF Located
<1>2. f \in BFacts(c, n) <=>
        f \in FactsAt(BNode(c)) \/ (n # 0 /\ \E y \in Children(BNode(c)) : f \in FactsOf(Below(y)[n-1]))
  BY FactsDown DEF BFacts
<1>3. f \in TFacts(c, n) <=>
        f \in FactsAt(TNode(c)) \/ (n # 0 /\ \E y \in Children(TNode(c)) : f \in FactsOf(Below(y)[n-1]))
  BY FactsDown DEF TFacts
<1>4. CASE \/ f \in FactsAt(BNode(c)) /\ f \notin FactsAt(TNode(c))
           \/ f \in FactsAt(TNode(c)) /\ f \notin FactsAt(BNode(c))
  BY <1>4, FactsHere
<1>5. CASE /\ n # 0
           /\ \/ /\ \E y \in Children(BNode(c)) : f \in FactsOf(Below(y)[n-1])
                 /\ \A y \in Children(TNode(c)) : f \notin FactsOf(Below(y)[n-1])
              \/ /\ \E y \in Children(TNode(c)) : f \in FactsOf(Below(y)[n-1])
                 /\ \A y \in Children(BNode(c)) : f \notin FactsOf(Below(y)[n-1])
  <2> DEFINE m == n-1
  <2>1. m \in 0..Depth
    BY <1>5, SchemasAssumption
  <2> HIDE DEF m
  <2>2. PICK field \in Fields[c.schema] :
          \/ /\ \E y \in ChildrenBy(BNode(c), field) : f \in FactsOf(Below(y)[m])
             /\ \A y \in Children(TNode(c)) : f \notin FactsOf(Below(y)[m])
          \/ /\ \E y \in ChildrenBy(TNode(c), field) : f \in FactsOf(Below(y)[m])
             /\ \A y \in Children(BNode(c)) : f \notin FactsOf(Below(y)[m])
    <3>1. CASE /\ \E y \in Children(BNode(c)) : f \in FactsOf(Below(y)[m])
               /\ \A y \in Children(TNode(c)) : f \notin FactsOf(Below(y)[m])
      <4>1. PICK y \in Children(BNode(c)) : f \in FactsOf(Below(y)[m])
        BY <3>1
      <4>2. PICK field \in Fields[c.schema] : y \in ChildrenBy(BNode(c), field)
        BY <1>1 DEF Children
      <4>3. QED BY <3>1, <4>1, <4>2
    <3>2. CASE /\ \E y \in Children(TNode(c)) : f \in FactsOf(Below(y)[m])
               /\ \A y \in Children(BNode(c)) : f \notin FactsOf(Below(y)[m])
      <4>1. PICK y \in Children(TNode(c)) : f \in FactsOf(Below(y)[m])
        BY <3>2
      <4>2. PICK field \in Fields[c.schema] : y \in ChildrenBy(TNode(c), field)
        BY <1>1 DEF Children
      <4>3. QED BY <3>2, <4>1, <4>2
    <3>3. QED BY <1>5, <3>1, <3>2 DEF m
  <2>3. CASE field.kind = "param"
    BY <2>2, <2>3, ParamBy
  <2>4. CASE field.kind = "section"
    BY <2>1, <2>2, <2>4, InSection
  <2>5. CASE field.kind = "list"
    BY <2>1, <2>2, <2>5, InList
  <2>6. QED BY <1>1, <2>3, <2>4, <2>5, FieldKind
<1>6. QED BY <1>2, <1>3, <1>4, <1>5 DEF Differs

-----------------------------------------------------------------------------
(* The calls and changes that one call leads to *)

\* What a call says of the fields it makes calls for.
LEMMA CallField ==
  ASSUME NEW c, c.schema \in DOMAIN Schemas, NEW field \in Fields[c.schema], field.kind # "param"
  PROVE  /\ field.schema \in DOMAIN Schemas /\ field.schema # Root
         /\ IsAction(field.schema) => field.kind = "section" /\ field.key \in ActionKeys
<1>1. FieldAssumption(c.schema, field)
  BY FieldFacts
<1>2. QED BY <1>1, FieldKind DEF FieldAssumption

\* A call is made for a section or for two items with the same key.
MadeFor(c, d, field) ==
  /\ d.schema = field.schema
  /\ \/ /\ field.kind = "section" /\ d.path = Append(c.path, Step(field.key))
        /\ d.b = Get(c.b, field.key) /\ d.t = Get(c.t, field.key)
        /\ \/ (Truthy(d.b) # Truthy(d.t)) /\ Traversed(field)
           \/ Truthy(d.b) /\ Truthy(d.t)
     \/ /\ field.kind = "list"
        /\ d.path = Append(c.path, ItemStep(field.key, Get(d.t, field.update_key)))
        /\ \E j \in DOMAIN Olds(c, field) : d.b = Olds(c, field)[j]
        /\ \E i \in DOMAIN News(c, field) : d.t = News(c, field)[i]
        /\ d.b # None /\ d.t # None /\ Get(d.t, field.update_key) # None
        /\ Get(d.b, field.update_key) = Get(d.t, field.update_key)

\* Every call is made so.
LEMMA CallsMade ==
  ASSUME NEW B, NEW T, Closed(B), Closed(T), NEW c, Located(c, B, T), NEW d \in NewCalls(c)
  PROVE  \E field \in Fields[c.schema] : MadeFor(c, d, field)
<1>1. c.schema \in DOMAIN Schemas
  BY DEF Located
<1>2. PICK field \in Fields[c.schema] :
        \/ field.kind = "section" /\ d \in NestedCalls(c, field, c.path)
        \/ field.kind = "list" /\ d \in ItemCalls(c, field, c.path)
  BY <1>1, NewCallsBy
<1>3. CASE field.kind = "section"
  <2>1. /\ d = NestedCall(c, field)
        /\ \/ Truthy(Get(c.b, field.key)) /\ Truthy(Get(c.t, field.key))
           \/ OneSided(c, field) /\ Traversed(field)
    BY <1>2, <1>3 DEF NestedCalls, NestedCall
  <2>2. /\ d.b = Get(c.b, field.key) /\ d.t = Get(c.t, field.key)
        /\ d.schema = field.schema /\ d.path = Append(c.path, Step(field.key))
    BY <2>1 DEF NestedCall, Call
  <2>3. \/ (Truthy(d.b) # Truthy(d.t)) /\ Traversed(field)
        \/ Truthy(d.b) /\ Truthy(d.t)
    BY <2>1, <2>2 DEF OneSided
  <2>4. QED BY <1>3, <2>2, <2>3 DEF MadeFor
<1>4. CASE field.kind = "list"
  <2>1. PICK i \in DOMAIN News(c, field) :
          /\ MatchesOf(c, field)[i] # 0
          /\ d = Call(Olds(c, field)[MatchesOf(c, field)[i]], News(c, field)[i], field.schema,
                      Append(c.path, ItemStep(field.key, Get(News(c, field)[i], field.update_key))))
    BY <1>2, <1>4 DEF ItemCalls, Olds, News
  <2>2. Paired(c, field, B, T)
    BY <1>4, Pairing
  <2> DEFINE j == MatchesOf(c, field)[i]
  <2>3. /\ j \in DOMAIN Olds(c, field)
        /\ Olds(c, field)[j] # None /\ News(c, field)[i] # None /\ Get(News(c, field)[i], field.update_key) # None
        /\ Get(Olds(c, field)[j], field.update_key) = Get(News(c, field)[i], field.update_key)
    BY <2>1, <2>2 DEF Paired
  <2>4. d.b = Olds(c, field)[j] /\ d.t = News(c, field)[i] /\ d.schema = field.schema
        /\ d.path = Append(c.path, ItemStep(field.key, Get(News(c, field)[i], field.update_key)))
    BY <2>1 DEF Call
  <2>5. QED BY <1>4, <2>3, <2>4 DEF MadeFor
<1>5. QED BY <1>2, <1>3, <1>4

\* The sections of a call that is made are below those of the call.
LEMMA CallsBelow ==
  ASSUME NEW B, NEW T, Closed(B), Closed(T), NEW c, Located(c, B, T), NEW d \in NewCalls(c)
  PROVE  /\ Truthy(d.b) => BNode(c) \in B /\ BNode(d) \in Children(BNode(c))
         /\ Truthy(d.t) => TNode(c) \in T /\ TNode(d) \in Children(TNode(c))
<1>1. /\ BNode(c).section = c.b /\ BNode(c).schema = c.schema /\ BNode(c).path = c.path
      /\ TNode(c).section = c.t /\ TNode(c).schema = c.schema /\ TNode(c).path = c.path
  BY DEF BNode, TNode, Node
<1>2. PICK field \in Fields[c.schema] :
           /\ d.schema = field.schema
           /\ \/ /\ field.kind = "section" /\ d.path = Append(c.path, Step(field.key))
                 /\ d.b = Get(c.b, field.key) /\ d.t = Get(c.t, field.key)
              \/ /\ field.kind = "list"
                 /\ d.path = Append(c.path, ItemStep(field.key, Get(d.t, field.update_key)))
                 /\ \E j \in DOMAIN Olds(c, field) : d.b = Olds(c, field)[j]
                 /\ \E i \in DOMAIN News(c, field) : d.t = News(c, field)[i]
                 /\ Get(d.b, field.update_key) = Get(d.t, field.update_key)
  BY CallsMade DEF MadeFor
<1>3. CASE field.kind = "section"
  <2>1. /\ BNode(d) = Node(Get(c.b, field.key), field.schema, Append(c.path, Step(field.key)))
        /\ TNode(d) = Node(Get(c.t, field.key), field.schema, Append(c.path, Step(field.key)))
    BY <1>2, <1>3 DEF BNode, TNode
  <2>2. Truthy(d.b) => BNode(d) \in ChildrenBy(BNode(c), field)
    BY <1>1, <1>2, <1>3, <2>1, SectionBy
  <2>3. Truthy(d.t) => TNode(d) \in ChildrenBy(TNode(c), field)
    BY <1>1, <1>2, <1>3, <2>1, SectionBy
  <2>4. (Truthy(d.b) => Truthy(c.b)) /\ (Truthy(d.t) => Truthy(c.t))
    BY <1>2, <1>3, NothingThere DEF Truthy
  <2>5. QED BY <1>1, <2>2, <2>3, <2>4 DEF Children, Located
<1>4. CASE field.kind = "list"
  <2>1. Paired(c, field, B, T)
    BY <1>4, Pairing
  <2>2. BNode(c) \in B /\ TNode(c) \in T
    BY <1>2, <1>4, <2>1 DEF Paired
  <2>3. BNode(d) = ItemNode(BNode(c), field, d.b) /\ TNode(d) = ItemNode(TNode(c), field, d.t)
    BY <1>1, <1>2, <1>4 DEF BNode, TNode, ItemNode, Node
  <2>4. AmongItems(BNode(d), BNode(c), field, Olds(c, field)) /\ AmongItems(TNode(d), TNode(c), field, News(c, field))
    BY <1>2, <1>4, <2>3 DEF AmongItems
  <2>5. BNode(d) \in ChildrenBy(BNode(c), field) /\ TNode(d) \in ChildrenBy(TNode(c), field)
    BY <1>1, <1>4, <2>4, ListChild DEF Olds, News
  <2>6. QED BY <1>1, <2>2, <2>5 DEF Children
<1>5. QED BY <1>2, <1>3, <1>4

\* The calls that are made compare sections at the same place.
LEMMA LocatedNext ==
  ASSUME NEW B, NEW T, Closed(B), Closed(T), NEW c, Located(c, B, T), NEW d \in NewCalls(c)
  PROVE  Located(d, B, T)
<1>1. c.schema \in DOMAIN Schemas /\ IsPath(c.path)
  BY DEF Located
<1>2. PICK field \in Fields[c.schema] :
           /\ d.schema = field.schema /\ field.kind # "param"
           /\ field.kind = "section" => d.path = Append(c.path, Step(field.key))
           /\ \E s : d.path = Append(c.path, s)
  <2>1. PICK field \in Fields[c.schema] : MadeFor(c, d, field)
    BY CallsMade
  <2>2. QED BY <2>1 DEF MadeFor
<1>3. IsPath(d.path)
  BY <1>1, <1>2, PathAppend
<1>4. /\ field.schema \in DOMAIN Schemas
      /\ IsAction(field.schema) => field.kind = "section" /\ field.key \in ActionKeys
  BY <1>1, <1>2, CallField
<1>5. IsAction(d.schema) => \E p : \E k \in ActionKeys : IsPath(p) /\ d.path = Append(p, Step(k))
  BY <1>1, <1>2, <1>4
<1>6. (Truthy(d.b) => BNode(d) \in B) /\ (Truthy(d.t) => TNode(d) \in T)
  BY CallsBelow DEF Closed
<1>7. QED BY <1>2, <1>3, <1>4, <1>5, <1>6 DEF Located

\* The changes that a call reports change something.
RealChange(ch) ==
  /\ ch.old_value # ch.new_value
  /\ ch.is_list \in BOOLEAN
  /\ ch.is_list => None \in {ch.old_value, ch.new_value}

\* Every one of them is a real change.
LEMMA ChangeTypes ==
  ASSUME NEW B, NEW T, Closed(B), Closed(T), NEW c, Located(c, B, T), NEW ch \in NewChanges(c)
  PROVE  RealChange(ch)
<1>1. c.schema \in DOMAIN Schemas
  BY DEF Located
<1>2. CASE \E i \in DOMAIN Schemas[c.schema] : ch \in CompareParam(c, Schemas[c.schema][i], PathAt(c, i))
  <2>1. PICK i \in DOMAIN Schemas[c.schema] : ch \in CompareParam(c, Schemas[c.schema][i], PathAt(c, i))
    BY <1>2
  <2> DEFINE field == Schemas[c.schema][i]
             bv == GetValue(c.b, field.key)
             tv == GetValue(c.t, field.key)
  <2>2. CASE FormSwitched(c, field)
    <3>1. bv.key # tv.key
      BY <2>2 DEF FormSwitched
    <3>2. ch.old_value = bv /\ ch.new_value = tv /\ ch.is_list = FALSE
      BY <2>1, <2>2 DEF CompareParam, Changed
    <3> HIDE DEF bv, tv
    <3>3. QED BY <3>1, <3>2 DEF RealChange
  <2>3. CASE ~FormSwitched(c, field)
    <3> HIDE DEF field
    <3>1. bv.value # tv.value /\ ch.old_value = bv.value /\ ch.new_value = tv.value /\ ch.is_list = FALSE
      BY <2>1, <2>3 DEF CompareParam, Changed, field
    <3> HIDE DEF bv, tv
    <3>2. QED BY <3>1 DEF RealChange
  <2>4. QED BY <2>2, <2>3
<1>3. ASSUME NEW field \in Fields[c.schema], field.kind = "section", ch \in CompareSingle(c, field, c.path)
      PROVE  ch.old_value # ch.new_value /\ ch.is_list = FALSE
  BY <1>3 DEF CompareSingle, Changed, OneSided, Shown, Truthy
<1>4. ASSUME NEW field \in Fields[c.schema], field.kind = "list", ch \in CompareList(c, field, c.path)
      PROVE  ch.old_value # ch.new_value /\ ch.is_list = TRUE /\ None \in {ch.old_value, ch.new_value}
  <2>1. Paired(c, field, B, T)
    BY <1>4, Pairing
  <2>2. CASE \E i \in DOMAIN News(c, field) :
               ch = Changed(c.path, field.key, None, News(c, field)[i], field.policy, TRUE)
    BY <2>1, <2>2 DEF Paired, Changed
  <2>3. CASE \E j \in Gone(c, field) :
               ch = Changed(c.path, field.key, Olds(c, field)[j], None, field.policy, TRUE)
    BY <2>1, <2>3 DEF Paired, Changed
  <2>4. QED BY <1>4, <2>2, <2>3 DEF CompareList, Olds, News, Gone
<1>5. QED BY <1>1, <1>2, <1>3, <1>4, NewChangesBy DEF RealChange

-----------------------------------------------------------------------------
(* Sections by their place *)

\* Only the root of the configuration has no parent.
Rooted(nodes) == \A y \in nodes : y.path # << >> => \E x \in nodes : y \in Children(x)

\* What is found at the place of a node is that node.
OnlyAt(node, nodes) == \A x \in nodes : x.path = node.path => x = node

\* No list in one of the nodes has two items with the same update key.
UniqueKeys(nodes) ==
  \A x \in nodes : \A field \in Fields[x.schema] :
    field.kind = "list" => UniqueItems(Items(x.section, field.key), field)

\* The steps of a path.
LEMMA StepKeys ==
  ASSUME NEW k, NEW l, NEW m, NEW n
  PROVE  /\ ItemStep(k, m) = ItemStep(l, n) <=> k = l /\ m = n
         /\ Step(k) = Step(l) <=> k = l
         /\ Step(k) = ItemStep(l, n) <=> k = l /\ n = None
  BY DEF Step, ItemStep

\* The node of an item with update key n.
ItemNamed(x, node, field, n) ==
  \E i \in DOMAIN Items(node.section, field.key) :
    /\ x = ItemNode(node, field, Items(node.section, field.key)[i])
    /\ Get(Items(node.section, field.key)[i], field.update_key) = n

\* The child at the place of a field is there by that field.
LEMMA ChildByStep ==
  ASSUME NEW nodes, Closed(nodes), NEW node \in nodes, NEW x \in Children(node),
         NEW field \in Fields[node.schema], NEW n,
         \/ field.kind = "section" /\ n = None
         \/ field.kind = "list" /\ n # None,
         x.path = Append(node.path, ItemStep(field.key, n))
  PROVE  /\ x \in ChildrenBy(node, field)
         /\ field.kind = "list" => ItemNamed(x, node, field, n)
<1>1. node.schema \in DOMAIN Schemas /\ IsPath(node.path) /\ WellFormed(node)
  BY DEF Closed, IsNode
<1>2. PICK g \in Fields[node.schema] : x \in ChildrenBy(node, g)
  BY DEF Children
<1>3. CASE g.kind = "param"
  BY <1>2, <1>3, ParamBy
<1>4. CASE g.kind = "section"
  <2>1. x.path = Append(node.path, Step(g.key))
    <3>1. x = Node(Get(node.section, g.key), g.schema, Append(node.path, Step(g.key)))
      BY <1>2, <1>4, SectionBy
    <3>2. QED BY <3>1 DEF Node
  <2>2. Step(g.key) = ItemStep(field.key, n)
    <3>1. Append(node.path, Step(g.key)) = Append(node.path, ItemStep(field.key, n))
      BY <2>1
    <3>2. QED BY <1>1, <3>1, SamePath
  <2>3. g.key = field.key /\ n = None
    BY <2>2, StepKeys
  <2>4. g = field
    BY <1>1, <2>3, OneField
  <2>5. QED BY <1>2, <1>4, <2>3, <2>4
<1>5. CASE g.kind = "list"
  <2> DEFINE items == Items(node.section, g.key)
  <2>1. PICK i \in DOMAIN items : x = ItemNode(node, g, items[i])
    BY <1>2, <1>5, ListChild DEF AmongItems
  <2>2. Get(items[i], g.update_key) # None
    BY <1>1, <1>5 DEF WellFormed
  <2>3. x.path = Append(node.path, ItemStep(g.key, Get(items[i], g.update_key)))
    BY <2>1 DEF ItemNode, Node
  <2>4. ItemStep(g.key, Get(items[i], g.update_key)) = ItemStep(field.key, n)
    <3>1. Append(node.path, ItemStep(g.key, Get(items[i], g.update_key))) =
            Append(node.path, ItemStep(field.key, n))
      BY <2>3
    <3> HIDE DEF items
    <3>2. QED BY <1>1, <3>1, SamePath
  <2>5. g.key = field.key /\ n = Get(items[i], g.update_key)
    BY <2>4, StepKeys
  <2>6. g = field
    BY <1>1, <2>5, OneField
  <2>7. QED BY <1>2, <1>5, <2>1, <2>5, <2>6 DEF ItemNamed
<1>6. QED BY <1>1, <1>3, <1>4, <1>5, FieldKind

\* The node above a node.
LEMMA ParentAt ==
  ASSUME NEW nodes, Closed(nodes), Rooted(nodes), NEW x \in nodes, NEW p, NEW s, IsPath(p),
         x.path = Append(p, s)
  PROVE  \E z \in nodes : z.path = p /\ x \in Children(z)
<1>1. x.path # << >>
  BY PathAppend
<1>2. PICK z \in nodes : x \in Children(z)
  BY <1>1 DEF Rooted
<1>3. IsNode(z)
  BY DEF Closed
<1>4. PICK r : x.path = Append(z.path, r)
  BY <1>2, <1>3, ChildrenOfNode
<1>5. z.path = p
  BY <1>3, <1>4, SamePath DEF IsNode
<1>6. QED BY <1>2, <1>5

\* A section of a section is the only one at its place.
LEMMA OnlySection ==
  ASSUME NEW nodes, Closed(nodes), Rooted(nodes), NEW node, IsNode(node), OnlyAt(node, nodes),
         NEW field \in Fields[node.schema], field.kind = "section"
  PROVE  OnlyAt(Node(Get(node.section, field.key), field.schema, Append(node.path, Step(field.key))), nodes)
<1> DEFINE child == Node(Get(node.section, field.key), field.schema, Append(node.path, Step(field.key)))
<1>1. SUFFICES ASSUME NEW x \in nodes, x.path = Append(node.path, Step(field.key)) PROVE x = child
  BY DEF OnlyAt, Node
<1>2. PICK z \in nodes : z.path = node.path /\ x \in Children(z)
  BY <1>1, ParentAt DEF IsNode
<1>3. z = node
  BY <1>2 DEF OnlyAt
<1>4. x.path = Append(node.path, ItemStep(field.key, None))
  BY <1>1 DEF Step, ItemStep
<1>5. x \in ChildrenBy(node, field)
  BY <1>2, <1>3, <1>4, ChildByStep
<1>6. QED BY <1>5, SectionBy

\* So is an item of a list with unique keys.
LEMMA OnlyItem ==
  ASSUME NEW nodes, Closed(nodes), Rooted(nodes), UniqueKeys(nodes), NEW node, IsNode(node), OnlyAt(node, nodes),
         NEW field \in Fields[node.schema], field.kind = "list",
         NEW i \in DOMAIN Items(node.section, field.key),
         NEW item, item = Items(node.section, field.key)[i],
         Get(item, field.update_key) # None
  PROVE  OnlyAt(ItemNode(node, field, item), nodes)
<1> DEFINE items == Items(node.section, field.key)
           n == Get(items[i], field.update_key)
<1>1. SUFFICES ASSUME NEW x \in nodes, x.path = Append(node.path, ItemStep(field.key, n))
               PROVE  x = ItemNode(node, field, items[i])
  BY DEF OnlyAt, ItemNode, Node
<1>2. PICK z \in nodes : z.path = node.path /\ x \in Children(z)
  BY <1>1, ParentAt DEF IsNode
<1>3. z = node
  BY <1>2 DEF OnlyAt
<1>4. PICK j \in DOMAIN items : x = ItemNode(node, field, items[j]) /\ Get(items[j], field.update_key) = n
  <2>1. ItemNamed(x, node, field, n)
    <3> HIDE DEF n, items
    <3>1. n # None
      BY DEF n, items
    <3>2. QED BY <1>1, <1>2, <1>3, <3>1, ChildByStep
  <2>2. QED BY <2>1 DEF ItemNamed
<1>5. UniqueItems(items, field)
  BY <1>3 DEF UniqueKeys
<1>6. i = j
  BY <1>4, <1>5 DEF UniqueItems
<1>7. QED BY <1>4, <1>6

\* No item of the list has this update key.
NoneNamed(node, field, n) ==
  \A i \in DOMAIN Items(node.section, field.key) : Get(Items(node.section, field.key)[i], field.update_key) # n

\* No node is at the place of an item that is not there.
LEMMA NoItem ==
  ASSUME NEW nodes, Closed(nodes), Rooted(nodes), NEW node, IsNode(node), OnlyAt(node, nodes),
         NEW field \in Fields[node.schema], field.kind = "list",
         NEW n, n # None, NoneNamed(node, field, n), NEW x \in nodes
  PROVE  x.path # Append(node.path, ItemStep(field.key, n))
<1>1. SUFFICES ASSUME x.path = Append(node.path, ItemStep(field.key, n)) PROVE FALSE
  OBVIOUS
<1>2. PICK z \in nodes : z.path = node.path /\ x \in Children(z)
  BY <1>1, ParentAt DEF IsNode
<1>3. z = node
  BY <1>2 DEF OnlyAt
<1>4. ItemNamed(x, node, field, n)
  BY <1>1, <1>2, <1>3, ChildByStep
<1>5. QED BY <1>4 DEF ItemNamed, NoneNamed

\* A fact at the place of a field is one of that field.
LEMMA FactByStep ==
  ASSUME NEW nodes, Closed(nodes), NEW node, IsNode(node), OnlyAt(node, nodes),
         NEW field \in Fields[node.schema], NEW f \in FactsOf(nodes),
         f.address = Append(node.path, Step(field.key))
  PROVE  f \in FactsBy(node, field) /\ node \in nodes
<1>1. PICK x \in nodes : f \in FactsAt(x)
  BY DEF FactsOf
<1>2. IsNode(x)
  BY DEF Closed
<1>3. PICK g \in Fields[x.schema] : f \in FactsBy(x, g) /\ f.address = Append(x.path, Step(g.key))
  BY <1>1, <1>2, AddressAt
<1>4. x.path = node.path /\ Step(g.key) = Step(field.key)
  BY <1>2, <1>3, SamePath DEF IsNode
<1>5. x = node /\ g.key = field.key
  BY <1>4, StepKeys DEF OnlyAt
<1>6. g = field
  BY <1>3, <1>5, OneField DEF IsNode
<1>7. QED BY <1>3, <1>5, <1>6

\* Each of the two sections of a call is the only one at its place.
Sole(c, B, T) == OnlyAt(BNode(c), B) /\ OnlyAt(TNode(c), T)

\* Two configurations whose lists have unique keys.
Trees(B, T) ==
  /\ Closed(B) /\ Rooted(B) /\ UniqueKeys(B)
  /\ Closed(T) /\ Rooted(T) /\ UniqueKeys(T)

\* The calls that are made compare the only sections at their place.
LEMMA SoleNext ==
  ASSUME NEW B, NEW T, Trees(B, T), NEW c, Located(c, B, T), Sole(c, B, T), NEW d \in NewCalls(c)
  PROVE  Sole(d, B, T)
<1>1. /\ Closed(B) /\ Rooted(B) /\ UniqueKeys(B)
      /\ Closed(T) /\ Rooted(T) /\ UniqueKeys(T)
      /\ OnlyAt(BNode(c), B) /\ OnlyAt(TNode(c), T)
  BY DEF Trees, Sole
<1>2. /\ IsNode(BNode(c)) /\ BNode(c).section = c.b /\ BNode(c).schema = c.schema /\ BNode(c).path = c.path
      /\ IsNode(TNode(c)) /\ TNode(c).section = c.t /\ TNode(c).schema = c.schema /\ TNode(c).path = c.path
  BY NodeOfCall DEF Located
<1>3. PICK field \in Fields[c.schema] : MadeFor(c, d, field)
  BY <1>1, CallsMade
<1>4. CASE field.kind = "section"
  <2>1. /\ BNode(d) = Node(Get(BNode(c).section, field.key), field.schema, Append(BNode(c).path, Step(field.key)))
        /\ TNode(d) = Node(Get(TNode(c).section, field.key), field.schema, Append(TNode(c).path, Step(field.key)))
    BY <1>2, <1>3, <1>4 DEF MadeFor, BNode, TNode
  <2>2. OnlyAt(BNode(d), B)
    BY <1>1, <1>2, <1>4, <2>1, OnlySection
  <2>3. OnlyAt(TNode(d), T)
    BY <1>1, <1>2, <1>4, <2>1, OnlySection
  <2>4. QED BY <2>2, <2>3 DEF Sole
<1>5. CASE field.kind = "list"
  <2>1. PICK j \in DOMAIN Items(BNode(c).section, field.key) : d.b = Items(BNode(c).section, field.key)[j]
    BY <1>2, <1>3, <1>5 DEF MadeFor, Olds
  <2>2. PICK i \in DOMAIN Items(TNode(c).section, field.key) : d.t = Items(TNode(c).section, field.key)[i]
    BY <1>2, <1>3, <1>5 DEF MadeFor, News
  <2>3. /\ d.schema = field.schema
        /\ d.path = Append(c.path, ItemStep(field.key, Get(d.t, field.update_key)))
        /\ Get(d.b, field.update_key) = Get(d.t, field.update_key) /\ Get(d.t, field.update_key) # None
    BY <1>3, <1>5 DEF MadeFor
  <2>4. BNode(d) = ItemNode(BNode(c), field, d.b) /\ TNode(d) = ItemNode(TNode(c), field, d.t)
    BY <1>2, <2>3 DEF BNode, TNode, ItemNode, Node
  <2>5. OnlyAt(BNode(d), B)
    BY <1>1, <1>2, <1>5, <2>1, <2>3, <2>4, OnlyItem
  <2>6. OnlyAt(TNode(d), T)
    BY <1>1, <1>2, <1>5, <2>2, <2>3, <2>4, OnlyItem
  <2>7. QED BY <2>5, <2>6 DEF Sole
<1>6. QED BY <1>3, <1>4, <1>5 DEF MadeFor

-----------------------------------------------------------------------------
(* Every change is about a difference *)

\* The addresses of the facts of one of the two configurations alone.
Apart(B, T) == { f.address : f \in (FactsOf(B) \ FactsOf(T)) \cup (FactsOf(T) \ FactsOf(B)) }

\* A fact of a field of one of the two sections alone.
LEMMA ApartAt ==
  ASSUME NEW B, NEW T, Trees(B, T), NEW c, Located(c, B, T), Sole(c, B, T),
         NEW field \in Fields[c.schema], NEW f, f.address = Append(c.path, Step(field.key)),
         \/ BNode(c) \in B /\ f \in FactsBy(BNode(c), field) /\ f \notin FactsBy(TNode(c), field)
         \/ TNode(c) \in T /\ f \in FactsBy(TNode(c), field) /\ f \notin FactsBy(BNode(c), field)
  PROVE  Append(c.path, Step(field.key)) \in Apart(B, T)
<1>1. Closed(B) /\ Closed(T) /\ OnlyAt(BNode(c), B) /\ OnlyAt(TNode(c), T)
  BY DEF Trees, Sole
<1>2. /\ IsNode(BNode(c)) /\ BNode(c).schema = c.schema /\ BNode(c).path = c.path
      /\ IsNode(TNode(c)) /\ TNode(c).schema = c.schema /\ TNode(c).path = c.path
  BY NodeOfCall DEF Located
<1>3. f \in FactsOf(B) => f \in FactsBy(BNode(c), field)
  BY <1>1, <1>2, FactByStep
<1>4. f \in FactsOf(T) => f \in FactsBy(TNode(c), field)
  BY <1>1, <1>2, FactByStep
<1>5. BNode(c) \in B /\ f \in FactsBy(BNode(c), field) => f \in FactsOf(B)
  BY <1>2 DEF FactsOf, FactsAt
<1>6. TNode(c) \in T /\ f \in FactsBy(TNode(c), field) => f \in FactsOf(T)
  BY <1>2 DEF FactsOf, FactsAt
<1>7. f \in (FactsOf(B) \ FactsOf(T)) \cup (FactsOf(T) \ FactsOf(B))
  BY <1>3, <1>4, <1>5, <1>6
<1>8. QED BY <1>7 DEF Apart

\* A parameter that differs, in its form or its value.
LEMMA ParamApart ==
  ASSUME NEW B, NEW T, Trees(B, T), NEW c, Located(c, B, T), Sole(c, B, T),
         NEW field \in Fields[c.schema], field.kind = "param",
         \/ GetValue(c.b, field.key).key # GetValue(c.t, field.key).key
         \/ GetValue(c.b, field.key).value # GetValue(c.t, field.key).value,
         GetValue(c.b, field.key).value # None \/ GetValue(c.t, field.key).value # None
  PROVE  Append(c.path, Step(field.key)) \in Apart(B, T)
<1> DEFINE here == Append(c.path, Step(field.key))
           bv == GetValue(c.b, field.key)
           tv == GetValue(c.t, field.key)
           bf == Fact(here, bv.key, bv.value)
           tf == Fact(here, tv.key, tv.value)
<1>1. /\ BNode(c).section = c.b /\ BNode(c).path = c.path
      /\ TNode(c).section = c.t /\ TNode(c).path = c.path
  BY DEF BNode, TNode, Node
<1>2. \A f : f \in FactsBy(BNode(c), field) <=> bv.value # None /\ f = bf
  BY <1>1, ParamBy
<1>3. \A f : f \in FactsBy(TNode(c), field) <=> tv.value # None /\ f = tf
  BY <1>1, ParamBy
<1>4. (bv.value # None => BNode(c) \in B) /\ (tv.value # None => TNode(c) \in T)
  <2>1. (~Truthy(c.b) => bv.value = None) /\ (~Truthy(c.t) => tv.value = None)
    BY NothingThere
  <2>2. QED BY <2>1 DEF Located
<1>5. bf # tf /\ bf.address = here /\ tf.address = here
  <2> HIDE DEF bv, tv, here
  <2>1. bv.key # tv.key \/ bv.value # tv.value
    BY DEF bv, tv
  <2>2. bf.key = bv.key /\ bf.value = bv.value /\ tf.key = tv.key /\ tf.value = tv.value
        /\ bf.address = here /\ tf.address = here
    BY DEF Fact
  <2> HIDE DEF bf, tf
  <2>3. QED BY <2>1, <2>2
<1> HIDE DEF bf, tf
<1>6. CASE bv.value # None
  BY <1>2, <1>3, <1>4, <1>5, <1>6, ApartAt
<1>7. CASE tv.value # None
  BY <1>2, <1>3, <1>4, <1>5, <1>7, ApartAt
<1>8. QED BY <1>6, <1>7

\* A section that only one configuration has.
LEMMA SectionApart ==
  ASSUME NEW B, NEW T, Trees(B, T), NEW c, Located(c, B, T), Sole(c, B, T),
         NEW field \in Fields[c.schema], field.kind = "section", field.policy # "IGNORED",
         OneSided(c, field)
  PROVE  Append(c.path, Step(field.key)) \in Apart(B, T)
<1> DEFINE here == Append(c.path, Step(field.key))
           f == Fact(here, "", "set")
           bt == Truthy(Get(c.b, field.key))
           tt == Truthy(Get(c.t, field.key))
<1>1. /\ BNode(c).section = c.b /\ BNode(c).path = c.path
      /\ TNode(c).section = c.t /\ TNode(c).path = c.path
  BY DEF BNode, TNode, Node
<1>2. f \in FactsBy(BNode(c), field) <=> bt
  BY <1>1, SectionBy
<1>3. f \in FactsBy(TNode(c), field) <=> tt
  BY <1>1, SectionBy
<1>4. (bt => BNode(c) \in B) /\ (tt => TNode(c) \in T)
  <2>1. (bt => Truthy(c.b)) /\ (tt => Truthy(c.t))
    BY NothingThere DEF Truthy
  <2>2. QED BY <2>1 DEF Located
<1>5. bt # tt
  BY DEF OneSided
<1>6. f.address = here
  BY DEF Fact
<1>7. (bt \in BOOLEAN) /\ (tt \in BOOLEAN)
  BY DEF Truthy
<1> HIDE DEF f, bt, tt
<1>8. QED BY <1>2, <1>3, <1>4, <1>5, <1>6, <1>7, ApartAt

\* An item has a fact of its own, its update key.
LEMMA ItemFact ==
  ASSUME NEW nodes, Closed(nodes), NEW others, Closed(others), NEW node, IsNode(node),
         NEW field \in Fields[node.schema], field.kind = "list",
         NEW item, item # None, Get(item, field.update_key) # None,
         NEW x \in nodes, x = ItemNode(node, field, item),
         \A y \in others : y.path # x.path
  PROVE  \E f \in FactsOf(nodes) : f \notin FactsOf(others) /\ IsPrefix(x.path, f.address)
<1>1. IsNode(x) /\ x.section = item /\ x.schema = field.schema
  BY DEF Closed, ItemNode, Node
<1>2. PICK g \in Fields[field.schema] : g.kind = "param" /\ g.key = field.update_key
  <2>1. FieldAssumption(node.schema, field)
    BY FieldFacts DEF IsNode
  <2>2. QED BY <2>1 DEF FieldAssumption
<1>3. GetValue(item, g.key).value = Get(item, field.update_key)
  BY <1>2 DEF GetValue
<1> DEFINE f == Fact(Append(x.path, Step(g.key)), GetValue(item, g.key).key, GetValue(item, g.key).value)
<1>4. f \in FactsBy(x, g)
  BY <1>1, <1>2, <1>3, ParamBy
<1>5. f \in FactsOf(nodes)
  BY <1>1, <1>2, <1>4 DEF FactsOf, FactsAt
<1>6. f.address = Append(x.path, Step(g.key))
  BY DEF Fact
<1> HIDE DEF f
<1>7. IsPath(x.path) /\ IsPrefix(x.path, f.address)
  BY <1>1, <1>6, PathAppend DEF IsNode
<1>8. ASSUME f \in FactsOf(others) PROVE FALSE
  <2>1. PICK y \in others : f \in FactsAt(y)
    BY <1>8 DEF FactsOf
  <2>2. IsNode(y)
    BY DEF Closed
  <2>3. PICK s : f.address = Append(y.path, s)
    BY <2>1, <2>2, AddressAt
  <2>4. y.path = x.path
    <3>1. Append(y.path, s) = Append(x.path, Step(g.key))
      BY <1>6, <2>3
    <3>2. IsPath(y.path)
      BY <2>2 DEF IsNode
    <3>3. QED BY <1>7, <3>1, <3>2, SamePath
  <2>5. QED BY <2>4
<1>9. QED BY <1>5, <1>7, <1>8

\* An item that only the wanted configuration has.
LEMMA AddedApart ==
  ASSUME NEW B, NEW T, Trees(B, T), NEW c, Located(c, B, T), Sole(c, B, T),
         NEW field \in Fields[c.schema], field.kind = "list",
         NEW i \in DOMAIN News(c, field), MatchesOf(c, field)[i] = 0
  PROVE  \E a \in Apart(B, T) : IsPrefix(ItemNode(TNode(c), field, News(c, field)[i]).path, a)
<1> DEFINE item == News(c, field)[i]
           n == Get(item, field.update_key)
           x == ItemNode(TNode(c), field, item)
<1>1. Closed(B) /\ Rooted(B) /\ Closed(T) /\ OnlyAt(BNode(c), B)
  BY DEF Trees, Sole
<1>2. /\ IsNode(BNode(c)) /\ BNode(c).section = c.b /\ BNode(c).schema = c.schema /\ BNode(c).path = c.path
      /\ IsNode(TNode(c)) /\ TNode(c).section = c.t /\ TNode(c).schema = c.schema /\ TNode(c).path = c.path
  BY NodeOfCall DEF Located
<1>3. Paired(c, field, B, T)
  BY <1>1, Pairing
<1>4. /\ item # None /\ n # None /\ TNode(c) \in T
      /\ NoneNamed(BNode(c), field, n)
  BY <1>2, <1>3 DEF Paired, Olds, NoneNamed
<1>5. x \in T
  <2>1. AmongItems(x, TNode(c), field, News(c, field))
    BY DEF AmongItems
  <2>2. x \in ChildrenBy(TNode(c), field)
    BY <1>2, <2>1, ListChild DEF News
  <2>3. QED BY <1>1, <1>2, <1>4, <2>2 DEF Closed, Children
<1>6. x.path = Append(c.path, ItemStep(field.key, n))
  BY <1>2 DEF ItemNode, Node
<1>7. \A y \in B : y.path # x.path
  <2> HIDE DEF n, x
  <2> QED BY <1>1, <1>2, <1>4, <1>6, NoItem
<1> HIDE DEF item
<1>8. \E f \in FactsOf(T) : f \notin FactsOf(B) /\ IsPrefix(x.path, f.address)
  BY <1>1, <1>2, <1>4, <1>5, <1>7, ItemFact
<1> HIDE DEF x
<1>9. \E a \in Apart(B, T) : IsPrefix(x.path, a)
  BY <1>8 DEF Apart
<1>10. QED BY <1>9 DEF x, item

\* And one that only the deployed configuration has.
LEMMA RemovedApart ==
  ASSUME NEW B, NEW T, Trees(B, T), NEW c, Located(c, B, T), Sole(c, B, T),
         NEW field \in Fields[c.schema], field.kind = "list",
         NEW j \in Gone(c, field)
  PROVE  \E a \in Apart(B, T) : IsPrefix(ItemNode(BNode(c), field, Olds(c, field)[j]).path, a)
<1> DEFINE item == Olds(c, field)[j]
           n == Get(item, field.update_key)
           x == ItemNode(BNode(c), field, item)
<1>1. Closed(B) /\ Rooted(T) /\ Closed(T) /\ OnlyAt(TNode(c), T) /\ UniqueKeys(B)
  BY DEF Trees, Sole
<1>2. /\ IsNode(BNode(c)) /\ BNode(c).section = c.b /\ BNode(c).schema = c.schema /\ BNode(c).path = c.path
      /\ IsNode(TNode(c)) /\ TNode(c).section = c.t /\ TNode(c).schema = c.schema /\ TNode(c).path = c.path
  BY NodeOfCall DEF Located
<1>3. Paired(c, field, B, T)
  BY <1>1, Pairing
<1>4. j \in DOMAIN Olds(c, field) /\ item # None /\ n # None /\ BNode(c) \in B
  BY <1>3 DEF Paired
<1>5. UniqueItems(Olds(c, field), field)
  BY <1>1, <1>2, <1>4 DEF UniqueKeys, Olds
<1>6. NoneNamed(TNode(c), field, n)
  BY <1>2, <1>3, <1>5 DEF Paired, News, NoneNamed
<1>7. x \in B
  <2>1. AmongItems(x, BNode(c), field, Olds(c, field))
    BY <1>4 DEF AmongItems
  <2>2. x \in ChildrenBy(BNode(c), field)
    BY <1>2, <2>1, ListChild DEF Olds
  <2>3. QED BY <1>1, <1>2, <1>4, <2>2 DEF Closed, Children
<1>8. x.path = Append(c.path, ItemStep(field.key, n))
  BY <1>2 DEF ItemNode, Node
<1>9. \A y \in T : y.path # x.path
  <2> HIDE DEF n, x
  <2> QED BY <1>1, <1>2, <1>4, <1>6, <1>8, NoItem
<1> HIDE DEF item
<1>10. \E f \in FactsOf(B) : f \notin FactsOf(T) /\ IsPrefix(x.path, f.address)
  BY <1>1, <1>2, <1>4, <1>7, <1>9, ItemFact
<1> HIDE DEF x
<1>11. \E a \in Apart(B, T) : IsPrefix(x.path, a)
  BY <1>10 DEF Apart
<1>12. QED BY <1>11 DEF x, item

\* A change is about a difference, or about the arguments of an action that
\* has switched its form.
Justified(ch, B, T, C) ==
  \/ \E a \in Apart(B, T) : IsPrefix(AddressOf(ch), a)
  \/ ch.key = "Args" /\ \E d \in C : d.path = ch.path /\ d.key \in ActionKeys

\* The change of a parameter.
LEMMA ParamJustified ==
  ASSUME NEW B, NEW T, Trees(B, T), NEW c, Located(c, B, T), Sole(c, B, T),
         NEW i \in DOMAIN Schemas[c.schema], NEW field, field = Schemas[c.schema][i],
         field.kind = "param", NEW ch \in CompareParam(c, field, PathAt(c, i))
  PROVE  Justified(ch, B, T, NewChanges(c))
<1> DEFINE here == Append(c.path, Step(field.key))
<1>1. c.schema \in DOMAIN Schemas /\ IsPath(c.path) /\ field \in Fields[c.schema]
  BY DEF Located, Fields
<1>2. IsPath(here) /\ IsPrefix(c.path, here) /\ IsPrefix(here, here)
  BY <1>1, PathAppend, PrefixSelf
<1>3. field.key # "Sequence"
  BY <1>1, FieldKey
<1> HIDE DEF here
<1>4. CASE FormSwitched(c, field)
  <2>1. field.key = "Script" /\ (GetValue(c.b, field.key).value # None \/ GetValue(c.t, field.key).value # None)
    BY <1>4, SwitchedForm
  <2>2. PathAt(c, i) = c.path
    BY <1>1, <2>1, WherePath
  <2>3. AddressOf(ch) = c.path
    BY <1>4, <2>2, SwitchedCovers
  <2>4. GetValue(c.b, field.key).key # GetValue(c.t, field.key).key
    BY <1>4 DEF FormSwitched
  <2>5. here \in Apart(B, T)
    BY <1>1, <2>1, <2>4, ParamApart DEF here
  <2>6. QED BY <1>2, <2>3, <2>5 DEF Justified
<1>5. CASE ~FormSwitched(c, field)
  <2>1. /\ GetValue(c.b, field.key).key = GetValue(c.t, field.key).key
        /\ GetValue(c.b, field.key).value # GetValue(c.t, field.key).value
    BY <1>5 DEF FormSwitched, CompareParam
  <2>2. ch = Changed(PathAt(c, i), GetValue(c.b, field.key).key, GetValue(c.b, field.key).value,
                     GetValue(c.t, field.key).value, field.policy, FALSE)
    BY <1>5, <2>1 DEF CompareParam
  <2>3. ch.path = PathAt(c, i) /\ ch.key = GetValue(c.b, field.key).key
    BY <2>2 DEF Changed
  <2>4. CASE PathAt(c, i) = c.path
    <3>1. \A old, new, policy :
            AddressOf(Changed(c.path, GetValue(c.b, field.key).key, old, new, policy, FALSE)) =
              Append(c.path, Step(field.key))
      BY <1>3, UnswitchedAddress
    <3>2. AddressOf(ch) = here
      BY <2>2, <2>4, <3>1 DEF here
    <3>3. here \in Apart(B, T)
      BY <1>1, <2>1, ParamApart DEF here
    <3>4. QED BY <1>2, <3>2, <3>3 DEF Justified
  <2>5. CASE PathAt(c, i) # c.path
    <3>1. /\ PathAt(c, i) = Front(c.path) /\ field.key = "Args"
          /\ \E j \in DOMAIN Schemas[c.schema] :
               FormSwitched(c, Schemas[c.schema][j]) /\ PathAt(c, j) = c.path
      BY <1>1, <2>5, WherePath
    <3>2. PICK d \in NewChanges(c) : d.path = Front(c.path) /\ d.key \in ActionKeys
      BY <3>1, SwitchedCovers
    <3>3. ch.key = "Args"
      BY <2>3, <3>1, ValueKey
    <3>4. QED BY <2>3, <3>1, <3>2, <3>3 DEF Justified
  <2>6. QED BY <2>4, <2>5
<1>6. QED BY <1>4, <1>5

\* The address of the change of an item is the place of its node.
LEMMA ItemAddress ==
  ASSUME NEW node, IsNode(node), NEW field \in Fields[node.schema], field.kind = "list",
         NEW item, item # None
  PROVE  /\ AddressOf(Changed(node.path, field.key, None, item, field.policy, TRUE)) =
              ItemNode(node, field, item).path
         /\ AddressOf(Changed(node.path, field.key, item, None, field.policy, TRUE)) =
              ItemNode(node, field, item).path
<1>1. field.update_key = Update_key(field.key)
  BY ListField DEF IsNode
<1>2. ItemNode(node, field, item).path = Append(node.path, ItemStep(field.key, Get(item, Update_key(field.key))))
  BY <1>1 DEF ItemNode, Node
<1>3. QED BY <1>2, ListAddress

\* Every change that a call reports is about a difference, but for the arguments.
LEMMA ExactStep ==
  ASSUME NEW B, NEW T, Trees(B, T), NEW c, Located(c, B, T), Sole(c, B, T), NEW ch \in NewChanges(c)
  PROVE  Justified(ch, B, T, NewChanges(c))
<1>1. c.schema \in DOMAIN Schemas /\ Closed(B) /\ Closed(T) /\ IsPath(c.path)
  BY DEF Located, Trees
<1>2. ASSUME NEW i \in DOMAIN Schemas[c.schema], Schemas[c.schema][i].kind = "param",
             ch \in CompareParam(c, Schemas[c.schema][i], PathAt(c, i))
      PROVE  Justified(ch, B, T, NewChanges(c))
  BY <1>2, ParamJustified
<1>3. ASSUME NEW field \in Fields[c.schema], field.kind = "section", ch \in CompareSingle(c, field, c.path)
      PROVE  Justified(ch, B, T, NewChanges(c))
  <2> DEFINE here == Append(c.path, Step(field.key))
  <2>1. /\ OneSided(c, field) /\ field.policy # "IGNORED"
        /\ ch = Changed(c.path, field.key, Shown(Get(c.b, field.key)), Shown(Get(c.t, field.key)),
                        field.policy, FALSE)
    BY <1>3 DEF CompareSingle, Traversed
  <2>2. field.key # "Sequence"
    BY <1>1, FieldKey
  <2>3. AddressOf(ch) = here
    BY <2>1, <2>2, ParamAddress
  <2>4. here \in Apart(B, T)
    BY <1>3, <2>1, SectionApart
  <2>5. IsPrefix(here, here)
    BY <1>1, PathAppend, PrefixSelf
  <2> HIDE DEF here
  <2>6. QED BY <2>3, <2>4, <2>5 DEF Justified
<1>4. ASSUME NEW field \in Fields[c.schema], field.kind = "list", ch \in CompareList(c, field, c.path)
      PROVE  Justified(ch, B, T, NewChanges(c))
  <2>1. Paired(c, field, B, T)
    BY <1>1, <1>4, Pairing
  <2>2. /\ IsNode(BNode(c)) /\ BNode(c).schema = c.schema /\ BNode(c).path = c.path
        /\ IsNode(TNode(c)) /\ TNode(c).schema = c.schema /\ TNode(c).path = c.path
    BY <1>1, NodeOfCall
  <2>3. ASSUME NEW i \in DOMAIN News(c, field), MatchesOf(c, field)[i] = 0,
               ch = Changed(c.path, field.key, None, News(c, field)[i], field.policy, TRUE)
        PROVE  Justified(ch, B, T, NewChanges(c))
    <3>1. News(c, field)[i] # None
      BY <2>1 DEF Paired
    <3>2. AddressOf(ch) = ItemNode(TNode(c), field, News(c, field)[i]).path
      BY <1>4, <2>2, <2>3, <3>1, ItemAddress
    <3>3. \E a \in Apart(B, T) : IsPrefix(ItemNode(TNode(c), field, News(c, field)[i]).path, a)
      BY <1>4, <2>3, AddedApart
    <3>4. QED BY <3>2, <3>3 DEF Justified
  <2>4. ASSUME NEW j \in Gone(c, field),
               ch = Changed(c.path, field.key, Olds(c, field)[j], None, field.policy, TRUE)
        PROVE  Justified(ch, B, T, NewChanges(c))
    <3>1. Olds(c, field)[j] # None
      BY <2>1 DEF Paired
    <3>2. AddressOf(ch) = ItemNode(BNode(c), field, Olds(c, field)[j]).path
      BY <1>4, <2>2, <2>4, <3>1, ItemAddress
    <3>3. \E a \in Apart(B, T) : IsPrefix(ItemNode(BNode(c), field, Olds(c, field)[j]).path, a)
      BY <1>4, RemovedApart
    <3>4. QED BY <3>2, <3>3 DEF Justified
  <2>5. QED BY <1>4, <2>3, <2>4 DEF CompareList, Olds, News, Gone
<1>5. QED BY <1>1, <1>2, <1>3, <1>4, NewChangesBy

-----------------------------------------------------------------------------
(* Lists in sections that are missing *)

\* LustreSwitched, of any two configurations.
StorageSwitched(b, t) ==
  \E old \in Range(Items(b, "SharedStorage")), new \in Range(Items(t, "SharedStorage")) :
    /\ old.Name = new.Name
    /\ Truthy(Get(old, "FsxLustreSettings")) # Truthy(Get(new, "FsxLustreSettings"))

\* Two storages of the same name.
SameStorage(c, b, t) ==
  /\ c.b \in Range(Items(b, "SharedStorage")) /\ c.t \in Range(Items(t, "SharedStorage"))
  /\ Get(c.b, "Name") = Get(c.t, "Name") /\ Get(c.t, "Name") # None

\* How a call can meet a section that is missing and has lists.
LustreCall(c, b, t) ==
  /\ c.schema = Root => c.b = b /\ c.t = t
  /\ c.schema = "SharedStorageSchema" => SameStorage(c, b, t)
  /\ c.b = None \/ c.t = None => (HasList(c.schema) => StorageSwitched(b, t))

\* The calls that are made meet a missing list only in a Lustre storage.
LEMMA LustreNext ==
  ASSUME NEW B, NEW T, Closed(B), Closed(T), NEW c, Located(c, B, T), NEW d \in NewCalls(c),
         NEW b, NEW t, LustreCall(c, b, t)
  PROVE  LustreCall(d, b, t)
<1>1. c.schema \in DOMAIN Schemas
  BY DEF Located
<1>2. PICK field \in Fields[c.schema] : MadeFor(c, d, field)
  BY CallsMade
<1>3. d.schema = field.schema /\ field.kind # "param"
  BY <1>2 DEF MadeFor
<1>4. LustreAssumption(c.schema, field)
  BY <1>1, FieldFacts
<1>5. d.schema # Root
  BY <1>1, <1>3, CallField
<1>6. ASSUME d.schema = "SharedStorageSchema" PROVE SameStorage(d, b, t)
  <2>1. c.schema = Root /\ field.kind = "list" /\ field.key = "SharedStorage"
    BY <1>3, <1>4, <1>6 DEF LustreAssumption
  <2>2. c.b = b /\ c.t = t
    BY <2>1 DEF LustreCall
  <2>3. field.update_key = "Name"
    <3>1. field.update_key = Update_key("SharedStorage")
      BY <1>1, <2>1, ListField
    <3>2. QED BY <3>1 DEF Update_key
  <2>4. /\ \E j \in DOMAIN Olds(c, field) : d.b = Olds(c, field)[j]
        /\ \E i \in DOMAIN News(c, field) : d.t = News(c, field)[i]
        /\ Get(d.t, field.update_key) # None
        /\ Get(d.b, field.update_key) = Get(d.t, field.update_key)
    BY <1>2, <2>1 DEF MadeFor
  <2>5. QED BY <2>1, <2>2, <2>3, <2>4 DEF SameStorage, Olds, News, Range
<1>7. ASSUME d.b = None \/ d.t = None, HasList(d.schema) PROVE StorageSwitched(b, t)
  <2>1. /\ field.kind = "section" /\ Traversed(field) /\ Truthy(d.b) # Truthy(d.t)
        /\ d.b = Get(c.b, field.key) /\ d.t = Get(c.t, field.key)
    BY <1>2, <1>7 DEF MadeFor, Truthy
  <2>2. c.schema = "SharedStorageSchema" /\ field.key = "FsxLustreSettings"
    BY <1>3, <1>4, <1>7, <2>1 DEF LustreAssumption, Traversed
  <2>3. SameStorage(c, b, t)
    BY <2>2 DEF LustreCall
  <2>4. c.b.Name = c.t.Name
    <3>1. \A s : Get(s, "Name") # None => Get(s, "Name") = s.Name
      BY DEF Get
    <3>2. QED BY <2>3, <3>1 DEF SameStorage
  <2>5. QED BY <2>1, <2>2, <2>3, <2>4 DEF SameStorage, StorageSwitched
<1>8. QED BY <1>5, <1>6, <1>7 DEF LustreCall

\* A call raises only where it meets such a list.
LEMMA RaisesOn ==
  ASSUME NEW c, NEW b, NEW t, LustreCall(c, b, t), Raises(c)
  PROVE  StorageSwitched(b, t)
<1>1. HasList(c.schema) /\ (c.b = None \/ c.t = None)
  BY DEF Raises, HasList
<1>2. QED BY <1>1 DEF LustreCall

-----------------------------------------------------------------------------
(* The invariant *)

\* The facts of one of the two configurations alone.
ApartFacts(B, T) == (FactsOf(B) \ FactsOf(T)) \cup (FactsOf(T) \ FactsOf(B))

\* The pending calls compare sections at the same place of the two
\* configurations, and meet a list that is missing only as LustreSwitched says.
CallsPlaced ==
  \A c \in pending : Located(c, NodesOf(base), NodesOf(target)) /\ LustreCall(c, base, target)

\* What differs is reported or will still be met.
NothingLost ==
  ~raised =>
    \A f \in ApartFacts(NodesOf(base), NodesOf(target)) :
      \/ Covered(f.address, changes)
      \/ \E c \in pending : \E n \in 0..Depth : Differs(f, c, n)

\* What is reported differs.
NothingInvented ==
  UniqueKeys(NodesOf(base)) /\ UniqueKeys(NodesOf(target)) =>
    /\ \A c \in pending : Sole(c, NodesOf(base), NodesOf(target))
    /\ \A ch \in changes : Justified(ch, NodesOf(base), NodesOf(target), changes)

PatchInv ==
  /\ base \in Configs /\ target \in Configs
  /\ PatchTypeOK
  /\ raised => pending = {} /\ StorageSwitched(base, target)
  /\ CallsPlaced
  /\ NothingLost
  /\ NothingInvented

\* The two configurations as trees of sections.
LEMMA ConfigTrees ==
  ASSUME NEW config \in Configs
  PROVE  /\ config # None /\ RootNode(config) \in NodesOf(config)
         /\ Closed(NodesOf(config)) /\ Rooted(NodesOf(config)) /\ OnlyAt(RootNode(config), NodesOf(config))
<1> DEFINE N == NodesOf(config)
           r == RootNode(config)
<1>1. /\ config # None /\ IsNode(r) /\ Closed(N) /\ r \in N
      /\ \A y \in N : y # r => \E x \in N : y \in Children(x)
  BY ConfigClosed
<1>2. r.path = << >>
  BY DEF RootNode, Node
<1> HIDE DEF N, r
<1>3. Rooted(N)
  BY <1>1, <1>2 DEF Rooted
<1>4. OnlyAt(r, N)
  <2>1. SUFFICES ASSUME NEW y \in N, y.path = << >>, y # r PROVE FALSE
    BY <1>2 DEF OnlyAt
  <2>2. PICK x \in N : y \in Children(x)
    BY <1>1, <2>1
  <2>3. IsNode(x)
    BY <1>1 DEF Closed
  <2>4. PICK s : y.path = Append(x.path, s)
    BY <2>2, <2>3, ChildrenOfNode
  <2>5. QED BY <2>1, <2>3, <2>4, PathAppend DEF IsNode
<1>5. QED BY <1>1, <1>3, <1>4 DEF N, r

\* One call is pending, and everything is to be found by it.
LEMMA PatchInvInit ==
  PatchInit => PatchInv
<1> SUFFICES ASSUME PatchInit PROVE PatchInv
  OBVIOUS
<1> DEFINE B == NodesOf(base)
           T == NodesOf(target)
           c == Call(base, target, Root, << >>)
<1>1. base \in Configs /\ target \in Configs
  BY DEF PatchInit, Configs
<1>2. /\ base # None /\ RootNode(base) \in B /\ OnlyAt(RootNode(base), B)
      /\ target # None /\ RootNode(target) \in T /\ OnlyAt(RootNode(target), T)
  BY <1>1, ConfigTrees
<1>3. pending = {c} /\ raised = FALSE /\ changes = {}
  BY DEF PatchInit
<1>4. c.b = base /\ c.t = target /\ c.schema = Root /\ c.path = << >>
  BY DEF Call
<1>5. BNode(c) = RootNode(base) /\ TNode(c) = RootNode(target)
  BY <1>4 DEF BNode, TNode, RootNode
<1> HIDE DEF c
<1>6. PatchTypeOK
  BY <1>3 DEF PatchTypeOK
<1>7. Located(c, B, T)
  <2>1. << >> \in Seq({})
    OBVIOUS
  <2>2. IsPath(<< >>)
    BY <2>1 DEF IsPath
  <2>3. QED BY <1>2, <1>4, <1>5, <2>2, SchemasAssumption DEF Located
<1>8. LustreCall(c, base, target)
  BY <1>2, <1>4 DEF LustreCall, Root
<1>9. Sole(c, B, T)
  BY <1>2, <1>5 DEF Sole
<1>10. \A f \in ApartFacts(B, T) : Differs(f, c, Depth)
  BY <1>5 DEF ApartFacts, Differs, BFacts, TFacts, NodesOf, RootNode
<1>11. Depth \in 0..Depth
  BY SchemasAssumption
<1> HIDE DEF B, T
<1>12. CallsPlaced
  BY <1>3, <1>7, <1>8 DEF CallsPlaced, B, T
<1>13. NothingLost
  BY <1>3, <1>10, <1>11 DEF NothingLost, B, T
<1>14. NothingInvented
  BY <1>3, <1>9 DEF NothingInvented, B, T
<1>15. QED BY <1>1, <1>3, <1>6, <1>12, <1>13, <1>14 DEF PatchInv

\* More changes cover more and justify more.
LEMMA MoreChanges ==
  ASSUME NEW C, NEW D, C \subseteq D
  PROVE  /\ \A a : Covered(a, C) => Covered(a, D)
         /\ \A ch, B, T : Justified(ch, B, T, C) => Justified(ch, B, T, D)
  BY DEF Covered, Justified

\* One call of _compare_section that returns.
LEMMA SectionKeepsInv ==
  ASSUME PatchInv, NEW c \in pending, CompareSection(c)
  PROVE  PatchInv'
<1> DEFINE B == NodesOf(base)
           T == NodesOf(target)
<1>1. /\ base' = base /\ target' = target /\ raised' = raised
      /\ changes' = changes \cup NewChanges(c)
      /\ pending' = (pending \ {c}) \cup NewCalls(c)
  BY DEF CompareSection, NewChanges, NewCalls
<1>2. /\ base \in Configs /\ target \in Configs /\ PatchTypeOK
      /\ ~raised
      /\ CallsPlaced /\ NothingLost /\ NothingInvented
  BY DEF PatchInv
<1>3. Closed(B) /\ Rooted(B) /\ Closed(T) /\ Rooted(T)
  BY <1>2, ConfigTrees
<1>4. Located(c, B, T) /\ LustreCall(c, base, target)
  BY <1>2 DEF CallsPlaced
<1>5. B' = B /\ T' = T
  BY <1>1
<1>6. PatchTypeOK'
  <2>1. \A ch \in NewChanges(c) : RealChange(ch)
    BY <1>3, <1>4, ChangeTypes
  <2>2. raised \in BOOLEAN /\ \A ch \in changes : RealChange(ch)
    BY <1>2 DEF PatchTypeOK, RealChange
  <2>3. \A ch \in changes' : RealChange(ch)
    BY <1>1, <2>1, <2>2
  <2>4. raised' \in BOOLEAN /\ ~raised'
    BY <1>1, <1>2, <2>2
  <2>5. QED BY <2>3, <2>4 DEF PatchTypeOK, RealChange
<1>7. CallsPlaced'
  <2>1. ASSUME NEW d \in pending' PROVE Located(d, B, T) /\ LustreCall(d, base, target)
    <3>1. CASE d \in pending
      BY <1>2, <3>1 DEF CallsPlaced
    <3>2. CASE d \in NewCalls(c)
      BY <1>3, <1>4, <3>2, LocatedNext, LustreNext
    <3>3. QED BY <1>1, <2>1, <3>1, <3>2
  <2>2. QED BY <1>1, <2>1 DEF CallsPlaced
<1>8. NothingLost'
  <2>1. SUFFICES ASSUME ~raised, NEW f \in ApartFacts(B, T)
                 PROVE  \/ Covered(f.address, changes')
                        \/ \E d \in pending' : \E n \in 0..Depth : Differs(f, d, n)
    BY <1>1 DEF NothingLost
  <2>2. CASE Covered(f.address, changes)
    BY <1>1, <2>2, MoreChanges
  <2>3. ASSUME NEW d \in pending, NEW n \in 0..Depth, Differs(f, d, n)
        PROVE  \/ Covered(f.address, changes')
               \/ \E e \in pending' : \E m \in 0..Depth : Differs(f, e, m)
    <3>1. CASE d # c
      BY <1>1, <2>3, <3>1
    <3>2. CASE d = c
      <4>1. \/ Covered(f.address, NewChanges(c))
            \/ \E e \in NewCalls(c) : \E m \in 0..Depth : Differs(f, e, m)
        BY <1>3, <1>4, <2>3, <3>2, DiffStep
      <4>2. CASE Covered(f.address, NewChanges(c))
        BY <1>1, <4>2, MoreChanges
      <4>3. QED BY <1>1, <4>1, <4>2
    <3>3. QED BY <3>1, <3>2
  <2>4. QED BY <1>2, <2>1, <2>2, <2>3 DEF NothingLost
<1>9. NothingInvented'
  <2>1. SUFFICES ASSUME UniqueKeys(B), UniqueKeys(T)
                 PROVE  /\ \A d \in pending' : Sole(d, B, T)
                        /\ \A ch \in changes' : Justified(ch, B, T, changes')
    BY <1>1 DEF NothingInvented
  <2>2. Trees(B, T)
    BY <1>3, <2>1 DEF Trees
  <2>3. /\ \A d \in pending : Sole(d, B, T)
        /\ \A ch \in changes : Justified(ch, B, T, changes)
    BY <1>2, <2>1 DEF NothingInvented
  <2>4. ASSUME NEW d \in pending' PROVE Sole(d, B, T)
    <3>1. CASE d \in pending
      BY <2>3, <3>1
    <3>2. CASE d \in NewCalls(c)
      BY <1>4, <2>2, <2>3, <3>2, SoleNext
    <3>3. QED BY <1>1, <2>4, <3>1, <3>2
  <2>5. ASSUME NEW ch \in changes' PROVE Justified(ch, B, T, changes')
    <3>1. CASE ch \in changes
      BY <1>1, <2>3, <3>1, MoreChanges
    <3>2. CASE ch \in NewChanges(c)
      <4>1. Justified(ch, B, T, NewChanges(c))
        BY <1>4, <2>2, <2>3, <3>2, ExactStep
      <4>2. QED BY <1>1, <4>1, MoreChanges
    <3>3. QED BY <1>1, <2>5, <3>1, <3>2
  <2>6. QED BY <2>4, <2>5
<1>10. QED BY <1>1, <1>2, <1>6, <1>7, <1>8, <1>9 DEF PatchInv

\* One that raises.
LEMMA RaiseKeepsInv ==
  ASSUME PatchInv, NEW c \in pending, CompareRaises(c)
  PROVE  PatchInv'
<1>1. /\ base' = base /\ target' = target /\ raised' = TRUE /\ changes' = {} /\ pending' = {}
      /\ Raises(c)
  BY DEF CompareRaises
<1>2. base \in Configs /\ target \in Configs /\ LustreCall(c, base, target)
  BY DEF PatchInv, CallsPlaced
<1>3. StorageSwitched(base, target)
  BY <1>1, <1>2, RaisesOn
<1>4. PatchTypeOK'
  BY <1>1 DEF PatchTypeOK
<1>5. CallsPlaced' /\ NothingLost' /\ NothingInvented'
  BY <1>1 DEF CallsPlaced, NothingLost, NothingInvented
<1>6. QED BY <1>1, <1>2, <1>3, <1>4, <1>5 DEF PatchInv

\* Every step keeps the invariant.
LEMMA PatchInvNext ==
  PatchInv /\ [PatchNext]_patchVars => PatchInv'
<1> SUFFICES ASSUME PatchInv, [PatchNext]_patchVars PROVE PatchInv'
  OBVIOUS
<1>1. CASE PatchNext
  <2> DEFINE call == CHOOSE c \in pending : TRUE
  <2>1. call \in pending /\ (CompareSection(call) \/ CompareRaises(call))
    BY <1>1 DEF PatchNext
  <2> HIDE DEF call
  <2>2. QED BY <2>1, SectionKeepsInv, RaiseKeepsInv
<1>2. CASE UNCHANGED patchVars
  BY <1>2 DEF patchVars, PatchInv, PatchTypeOK, CallsPlaced, NothingLost, NothingInvented
<1>3. QED BY <1>1, <1>2

\* Every reachable state of the comparison satisfies the invariant.
THEOREM PatchInvariance == PatchSpec => []PatchInv
<1>1. PatchInit => PatchInv
  BY PatchInvInit
<1>2. PatchInv /\ [PatchNext]_patchVars => PatchInv'
  BY PatchInvNext
<1>3. QED BY <1>1, <1>2, PTL DEF PatchSpec

\* A patch is made whole or not at all, every change of it changes a value, and
\* a change of a list adds or removes one item: _compare_section on
\* configurations of any size, with any schema that meets the assumptions.
THEOREM PatchTypeCorrect == PatchSpec => []PatchTypeOK
<1>1. PatchInv => PatchTypeOK
  BY DEF PatchInv
<1>2. QED BY <1>1, PatchInvariance, PTL

\* Once _compare has returned, whatever differs between the two configurations
\* lies under a change whose policy is checked: for any nesting, lists of any
\* length and keys that need not be unique.
THEOREM PatchComplete == PatchSpec => []PatchIsComplete
<1>1. PatchInv => PatchIsComplete
  <2>1. SUFFICES ASSUME PatchInv, Done, NEW a \in Differences PROVE Covered(a, changes)
    BY DEF PatchIsComplete, Covered
  <2>2. PICK f \in ApartFacts(NodesOf(base), NodesOf(target)) : a = f.address
    BY DEF Differences, ApartFacts
  <2>3. pending = {} /\ ~raised
    BY <2>1 DEF Done
  <2>4. QED BY <2>1, <2>2, <2>3 DEF PatchInv, NothingLost
<1>2. QED BY <1>1, PatchInvariance, PTL

\* With unique update keys, every change that _compare reports is about a
\* difference, or about the arguments of an action that has switched its form.
THEOREM PatchExact == PatchSpec => []PatchIsExact
<1>1. PatchInv => PatchIsExact
  <2>1. SUFFICES ASSUME PatchInv, KeysAreUnique, NEW c \in changes
                 PROVE  (\E a \in Differences : IsPrefix(AddressOf(c), a)) \/ FormChanged(c)
    BY DEF PatchIsExact
  <2>2. UniqueKeys(NodesOf(base)) /\ UniqueKeys(NodesOf(target))
    <3>1. ASSUME NEW x \in NodesOf(base) \cup NodesOf(target), NEW field \in Fields[x.schema],
                 field.kind = "list"
          PROVE  UniqueItems(Items(x.section, field.key), field)
      <4> DEFINE items == Items(x.section, field.key)
                 keys == Keys(items, field.update_key)
      <4>1. \A i, j \in DOMAIN keys : keys[i] = keys[j] => i = j
        BY <2>1, <3>1 DEF KeysAreUnique
      <4>2. DOMAIN keys = DOMAIN items /\ \A i \in DOMAIN items : keys[i] = Get(items[i], field.update_key)
        BY DEF Keys
      <4> HIDE DEF keys, items
      <4>3. UniqueItems(items, field)
        BY <4>1, <4>2 DEF UniqueItems
      <4>4. QED BY <4>3 DEF items
    <3>2. QED BY <3>1 DEF UniqueKeys
  <2>3. Justified(c, NodesOf(base), NodesOf(target), changes)
    BY <2>1, <2>2 DEF PatchInv, NothingInvented
  <2>4. Differences = Apart(NodesOf(base), NodesOf(target))
    BY DEF Differences, Apart
  <2>5. QED BY <2>3, <2>4 DEF Justified, FormChanged
<1>2. QED BY <1>1, PatchInvariance, PTL

\* _compare raises only when a storage gains or loses its FsxLustreSettings.
THEOREM RaisedByLustre == PatchSpec => []RaisesOnlyOnLustre
<1>1. PatchInv => RaisesOnlyOnLustre
  BY DEF PatchInv, RaisesOnlyOnLustre, StorageSwitched, LustreSwitched
<1>2. QED BY <1>1, PatchInvariance, PTL

-----------------------------------------------------------------------------
(* The check of the patch *)

Verdicts == {"SUCCEEDED", "ACTION NEEDED", "FAILED"}

FleetResults(v) ==
  \A i \in 1..Len(results) :
    patch[i].policy \in FleetPolicies
      => results[i] = CheckResult(patch[i], patch, v, FALSE, strategy)

Report ==
  /\ capacity = NONE => FleetResults(TRUE) /\ FleetResults(FALSE)
  /\ capacity = "TRUE" => FleetResults(TRUE)
  /\ capacity = "FALSE" => FleetResults(FALSE)

Decision ==
  /\ pc = "compare" => results = << >>
  /\ pc \in {"accepted", "submitted"} /\ ~force
       => Len(results) = Len(patch) /\ PatchAllowed

Inv == TypeOK /\ Report /\ Decision

\* A patch is a sequence of changes.
LEMMA PatchIsSequence ==
  ASSUME NEW p \in Patches
  PROVE  p \in Seq(Changes) /\ DOMAIN p = 1..Len(p)
<1>1. PICK n \in 0..MaxChanges : p \in [1..n -> Changes]
  BY DEF Patches
<1>2. n \in Nat
  BY MaxChangesAssumption
<1>3. p \in Seq(Changes)
  BY <1>1, <1>2, SeqDef
<1>4. QED BY <1>3, LenProperties

\* What the fleet policies decide does not depend on the login nodes.
LEMMA LoginIrrelevant ==
  ASSUME NEW c, NEW p, NEW v, NEW w, NEW t, c.policy \in FleetPolicies
  PROVE  CheckResult(c, p, v, w, t) = CheckResult(c, p, v, FALSE, t)
  BY DEF CheckResult, Allows, FleetPolicies, FixedPolicies

\* A fleet policy that does not ask for the capacity decides without it.
LEMMA CapacityIrrelevant ==
  ASSUME NEW c, NEW p, NEW v, NEW u, NEW t, c.policy \in FleetPolicies,
         ~AsksCapacity(c), c.fact \in BOOLEAN
  PROVE  CheckResult(c, p, v, FALSE, t) = CheckResult(c, p, u, FALSE, t)
  BY DEF CheckResult, Allows, FleetPolicies, FixedPolicies, AsksCapacity

\* The fields of a change.
LEMMA ChangeFields ==
  ASSUME NEW policy, NEW edit, NEW at, NEW fact
  PROVE  /\ Change(policy, edit, at, fact).edit = edit
         /\ Change(policy, edit, at, fact).fact = fact
  BY DEF Change

OtherEdits == {"modify", "add", "remove", "home", "mount"}

\* A change is one of MinCount or MaxCount, or was made by Change.
LEMMA ChangeShape ==
  ASSUME NEW c \in Changes
  PROVE  \/ c \in CountChanges
         \/ \E policy, at : \E edit \in OtherEdits, fact \in BOOLEAN :
              c = Change(policy, edit, at, fact)
<1> DEFINE Made == \E policy, at : \E edit \in OtherEdits, fact \in BOOLEAN :
                     c = Change(policy, edit, at, fact)
<1>1. CASE c \in FixedChanges
  BY <1>1, Zenon DEF FixedChanges, OtherEdits
<1>2. CASE c \in FleetChanges
  BY <1>2, Zenon DEF FleetChanges, OtherEdits
<1>3. CASE c \in ManagedChanges
  <2>1. CASE c \in {Change("MANAGED_FSX", e, NONE, f) : e \in {"add", "modify"}, f \in BOOLEAN}
    <3>1. PICK e \in {"add", "modify"}, f \in BOOLEAN : c = Change("MANAGED_FSX", e, NONE, f)
      BY <2>1
    <3>2. e \in OtherEdits
      BY DEF OtherEdits
    <3>3. QED BY <3>1, <3>2, Zenon
  <2>2. CASE c \in {Change("SHARED_STORAGE_UPDATE_POLICY", e, NONE, f) :
                      e \in {"home", "mount"}, f \in BOOLEAN}
    <3>1. PICK e \in {"home", "mount"}, f \in BOOLEAN :
            c = Change("SHARED_STORAGE_UPDATE_POLICY", e, NONE, f)
      BY <2>2
    <3>2. e \in OtherEdits
      BY DEF OtherEdits
    <3>3. QED BY <3>1, <3>2, Zenon
  <2>3. CASE c \in {Change("MANAGED_PLACEMENT_GROUP", "modify", NONE, f) : f \in BOOLEAN}
    BY <2>3, Zenon DEF OtherEdits
  <2>4. QED BY <1>3, <2>1, <2>2, <2>3 DEF ManagedChanges
<1>4. CASE c \in LoginChanges
  BY <1>4, Zenon DEF LoginChanges, OtherEdits
<1>5. QED BY <1>1, <1>2, <1>3, <1>4 DEF Changes

\* The fact of a change is a truth value.
LEMMA ChangeFact ==
  ASSUME NEW c \in Changes
  PROVE  c.fact \in BOOLEAN
<1>1. CASE c \in CountChanges
  BY <1>1 DEF CountChanges
<1>2. CASE c \notin CountChanges
  BY <1>2, ChangeShape, ChangeFields
<1>3. QED BY <1>1, <1>2

\* The changes of MinCount and MaxCount are those of a compute resource.
LEMMA CountChange ==
  ASSUME NEW c \in Changes, c.edit \in {"MinCount", "MaxCount"}
  PROVE  /\ c.policy = "RESIZE_UPDATE_STRATEGY_ON_REMOVE"
         /\ c.old \in Counts \cup {Unset} /\ c.new \in Counts \cup {Unset}
<1>1. c \in CountChanges
  BY ChangeShape, ChangeFields DEF OtherEdits
<1>2. QED BY <1>1 DEF CountChanges

-----------------------------------------------------------------------------
\* Nothing has been checked and nothing is cached.
LEMMA InvInit == Init => Inv
<1> SUFFICES ASSUME Init PROVE Inv
  OBVIOUS
<1>1. << >> \in Patches
  <2>1. << >> \in [1..0 -> Changes]
    OBVIOUS
  <2>2. 0 \in 0..MaxChanges
    BY MaxChangesAssumption
  <2>3. QED BY <2>1, <2>2 DEF Patches
<1>2. results \in Seq(Verdicts) /\ Len(results) = 0 /\ Len(patch) = 0
  <2>1. << >> \in Seq(Verdicts) /\ Len(<< >>) = 0
    BY EmptySeq
  <2>2. results = << >> /\ patch = << >>
    BY DEF Init
  <2>3. QED BY <2>1, <2>2
<1>3. TypeOK
  <2>1. patch \in Patches
    BY <1>1 DEF Init
  <2>2. capacity \in CacheStates /\ login \in CacheStates /\ strategy \in Strategies
    BY DEF Init, CacheStates, Strategies
  <2>3. Len(results) <= Len(patch)
    BY <1>2
  <2>4. QED BY <1>2, <2>1, <2>2, <2>3 DEF Init, TypeOK, Verdicts
<1>4. Report /\ Decision
  BY <1>2 DEF Init, Report, FleetResults, Decision, NONE
<1>5. QED BY <1>3, <1>4 DEF Inv

\* One iteration of ConfigPatch.check: the new result is that of the cached answer,
\* which from now on does not change.
LEMMA CheckChangeKeeps ==
  ASSUME Inv, CheckChange
  PROVE  Inv'
<1> USE DEF Inv
<1> DEFINE n == Len(results) + 1
           c == patch[n]
<1>1. /\ patch \in Seq(Changes) /\ DOMAIN patch = 1..Len(patch)
      /\ results \in Seq(Verdicts) /\ pc = "check"
      /\ Len(results) \in Nat /\ n \in 1..Len(patch) /\ 1..n = 1..Len(results) \cup {n}
  <2>1. patch \in Seq(Changes) /\ DOMAIN patch = 1..Len(patch) /\ results \in Seq(Verdicts)
    BY PatchIsSequence DEF TypeOK, Verdicts
  <2>2. Len(results) \in Nat /\ Len(patch) \in Nat
    BY <2>1, LenProperties
  <2>3. pc = "check" /\ Len(results) < Len(patch)
    BY DEF CheckChange
  <2>4. QED BY <2>1, <2>2, <2>3
<1>2. c \in Changes /\ c.fact \in BOOLEAN
  BY <1>1, ElementOfSeq, ChangeFact
<1>3. PICK v \in has_running_capacity, w \in has_running_login_nodes(PoolOf(c)) :
        /\ results' = Append(results, CheckResult(c, patch, v, w, strategy))
        /\ capacity' = IF AsksCapacity(c) THEN Cached(v) ELSE capacity
        /\ login'    = IF AsksLogin(c, v) THEN Cached(w) ELSE login
  BY DEF CheckChange
<1>4. UNCHANGED <<running, loginNodes, pc, patch, strategy, force>>
  BY DEF CheckChange, clusterVars, requestVars
<1>5. CheckResult(c, patch, v, w, strategy) \in Verdicts
  BY DEF CheckResult, Verdicts
<1>6. /\ results' \in Seq(Verdicts) /\ Len(results') = n
      /\ \A i \in 1..Len(results) : results'[i] = results[i]
      /\ results'[n] = CheckResult(c, patch, v, w, strategy)
  BY <1>1, <1>3, <1>5, AppendProperties
<1>7. TypeOK'
  <2>1. capacity' \in CacheStates /\ login' \in CacheStates
    BY <1>3 DEF TypeOK, Cached, CacheStates
  <2>2. n <= Len(patch)
    BY <1>1
  <2>3. QED BY <1>4, <1>6, <2>1, <2>2 DEF TypeOK, Verdicts
<1>8. Decision'
  BY <1>1, <1>4 DEF Decision
<1>9. v \in BOOLEAN /\ FleetResults(v) /\ (capacity # NONE => Cached(v) = capacity)
  BY DEF has_running_capacity, CapacityRead, TypeOK, Report, Cached, CacheStates, NONE
<1>10. FleetResults(v)'
  <2>1. c.policy \in FleetPolicies
          => results'[n] = CheckResult(c, patch, v, FALSE, strategy)
    <3> HIDE DEF c
    <3> SUFFICES ASSUME c.policy \in FleetPolicies
                 PROVE  results'[n] = CheckResult(c, patch, v, FALSE, strategy)
      OBVIOUS
    <3>1. CheckResult(c, patch, v, w, strategy) = CheckResult(c, patch, v, FALSE, strategy)
      BY LoginIrrelevant
    <3>2. QED BY <1>6, <3>1
  <2>2. QED BY <1>1, <1>4, <1>6, <1>9, <2>1 DEF FleetResults
<1>11. CASE AsksCapacity(c)
  BY <1>3, <1>7, <1>8, <1>9, <1>10, <1>11 DEF Report, Cached, NONE
<1>12. CASE ~AsksCapacity(c)
  <2>1. ASSUME NEW u \in BOOLEAN, FleetResults(u)
        PROVE  FleetResults(u)'
    <3>1. c.policy \in FleetPolicies
            => results'[n] = CheckResult(c, patch, u, FALSE, strategy)
      <4> HIDE DEF c
      <4> SUFFICES ASSUME c.policy \in FleetPolicies
                   PROVE  results'[n] = CheckResult(c, patch, u, FALSE, strategy)
        OBVIOUS
      <4>1. CheckResult(c, patch, v, w, strategy) = CheckResult(c, patch, v, FALSE, strategy)
        BY LoginIrrelevant
      <4>2. CheckResult(c, patch, v, FALSE, strategy) = CheckResult(c, patch, u, FALSE, strategy)
        BY <1>2, <1>12, CapacityIrrelevant
      <4>3. QED BY <1>6, <4>1, <4>2
    <3>2. QED BY <1>1, <1>4, <1>6, <2>1, <3>1 DEF FleetResults
  <2>2. Report'
    BY <1>3, <1>12, <2>1 DEF Report
  <2>3. QED BY <1>7, <1>8, <2>2
<1>13. QED BY <1>11, <1>12

\* Inv is inductive; the moves of the fleet touch neither results nor caches.
LEMMA InvNext == Inv /\ [Next]_vars => Inv'
<1> SUFFICES ASSUME Inv, [Next]_vars PROVE Inv'
  OBVIOUS
<1> USE DEF Inv
<1>1. CASE Compare
  <2>1. patch' \in Patches /\ Len(patch') \in Nat
    BY <1>1, PatchIsSequence, LenProperties DEF Compare
  <2>2. results' = << >> /\ Len(results') = 0 /\ results' \in Seq(Verdicts)
    BY <1>1 DEF Compare, Decision
  <2>3. TypeOK'
    BY <1>1, <2>1, <2>2 DEF Compare, TypeOK, clusterVars, cacheVars, Verdicts
  <2>4. Report' /\ Decision'
    BY <1>1, <2>2 DEF Compare, Report, FleetResults, Decision
  <2>5. QED BY <2>3, <2>4
<1>2. CASE CheckChange
  BY <1>2, CheckChangeKeeps
<1>3. CASE ValidatePatch
  BY <1>3 DEF ValidatePatch, clusterVars, requestVars, cacheVars, TypeOK, Report,
              FleetResults, Decision, PatchAllowed
<1>4. CASE Submit
  BY <1>4 DEF Submit, clusterVars, requestVars, cacheVars, TypeOK, Report, FleetResults,
              Decision, PatchAllowed
<1>5. CASE FleetMoves
  BY <1>5 DEF FleetMoves, requestVars, cacheVars, TypeOK, Report, FleetResults, Decision,
              PatchAllowed
<1>6. CASE LoginNodesMove
  BY <1>6 DEF LoginNodesMove, requestVars, cacheVars, TypeOK, Report, FleetResults, Decision,
              PatchAllowed
<1>7. CASE UNCHANGED vars
  BY <1>7 DEF vars, TypeOK, Report, FleetResults, Decision, PatchAllowed
<1>8. QED BY <1>1, <1>2, <1>3, <1>4, <1>5, <1>6, <1>7 DEF Next

\* The strengthened invariant of the check.
THEOREM Invariance == Spec => []Inv
  BY InvInit, InvNext, PTL DEF Spec

\* Types of the request, the report and the caches.
THEOREM TypeCorrect == Spec => []TypeOK
  BY Invariance, PTL DEF Inv

\* However the fleet moves during ConfigPatch.check, all its results are about
\* one state of the fleet.
THEOREM OneFleet == Spec => []ReportOfOneFleet
<1>1. Inv => ReportOfOneFleet
  <2> SUFFICES ASSUME Inv PROVE ReportOfOneFleet
    OBVIOUS
  <2>1. DOMAIN results = 1..Len(results)
    BY LenProperties DEF Inv, TypeOK
  <2>2. FleetResults(TRUE) \/ FleetResults(FALSE)
    BY DEF Inv, TypeOK, CacheStates, Report
  <2>3. QED BY <2>1, <2>2 DEF FleetResults, ReportOfOneFleet
<1>2. QED BY <1>1, Invariance, PTL

\* A resize accepted on a running fleet without TERMINATE takes no dynamic node
\* away, for all counts.
THEOREM DynamicNodesSafe == Spec => []DynamicNodesKept
<1>1. Inv => DynamicNodesKept
  <2> SUFFICES ASSUME Inv, ResizedWhileRunning, NEW cr \in ComputeResources
               PROVE  GrowsMax(cr) >= 0 /\ GrowsMax(cr) - GrowsMin(cr) >= 0
    BY DEF DynamicNodesKept
  <2> USE DEF Inv
  <2>1. patch \in Seq(Changes) /\ DOMAIN patch = 1..Len(patch)
        /\ DOMAIN results = DOMAIN patch
    BY PatchIsSequence, LenProperties DEF TypeOK, Decision, ResizedWhileRunning
  <2>2. ASSUME NEW i \in DOMAIN patch, patch[i].edit \in {"MinCount", "MaxCount"}
        PROVE  /\ patch[i].policy = "RESIZE_UPDATE_STRATEGY_ON_REMOVE"
               /\ patch[i].old \in Counts \cup {Unset} /\ patch[i].new \in Counts \cup {Unset}
               /\ MaxCountGrows(patch[i]) \/ MinCountFollowed(patch[i], patch)
    <3>1. patch[i] \in Changes
      BY <2>1, ElementOfSeq
    <3>2. results[i] = "SUCCEEDED"
      BY <2>1 DEF Decision, PatchAllowed, ResizedWhileRunning
    <3>3. patch[i].policy = "RESIZE_UPDATE_STRATEGY_ON_REMOVE"
          /\ patch[i].old \in Counts \cup {Unset} /\ patch[i].new \in Counts \cup {Unset}
      BY <2>2, <3>1, CountChange
    <3>4. CheckResult(patch[i], patch, TRUE, FALSE, strategy) = "SUCCEEDED"
      BY <2>1, <3>2, <3>3 DEF Report, FleetResults, FleetPolicies, Decision, ResizedWhileRunning
    <3>5. ResizeAllows(patch[i], patch, TRUE, strategy)
      BY <3>3, <3>4 DEF CheckResult, Allows, FixedPolicies
    <3>6. QED BY <2>2, <3>3, <3>5 DEF ResizeAllows, ResizedWhileRunning
  <2>3. \A x \in Counts \cup {Unset} : IntMin(x) \in Int /\ IntMax(x) \in Int
    BY CountsAssumption DEF IntMin, IntMax, Unset, DefaultMinCount
  <2>4. \A i, j \in At(cr, "MaxCount") : i = j
    BY <2>2 DEF TypeOK, Patches, At
  <2>5. At(cr, "MaxCount") # {}
          => \E i \in At(cr, "MaxCount") :
               /\ GrowsMax(cr) = IntMax(patch[i].new) - IntMax(patch[i].old)
               /\ GrowsMax(cr) \in Int /\ GrowsMax(cr) >= 0
    <3> SUFFICES ASSUME At(cr, "MaxCount") # {}
                 PROVE  \E i \in At(cr, "MaxCount") :
                          /\ GrowsMax(cr) = IntMax(patch[i].new) - IntMax(patch[i].old)
                          /\ GrowsMax(cr) \in Int /\ GrowsMax(cr) >= 0
      OBVIOUS
    <3> DEFINE i == CHOOSE i \in At(cr, "MaxCount") : TRUE
    <3>1. i \in At(cr, "MaxCount")
      OBVIOUS
    <3>2. GrowsMax(cr) = IntMax(patch[i].new) - IntMax(patch[i].old)
      BY DEF GrowsMax, The
    <3>3. MaxCountGrows(patch[i])
      BY <2>2, <3>1 DEF At, MinCountFollowed
    <3>4. IntMax(patch[i].new) \in Int /\ IntMax(patch[i].old) \in Int
          /\ IntMax(patch[i].new) >= IntMax(patch[i].old)
      BY <2>2, <2>3, <3>1, <3>3 DEF At, MaxCountGrows
    <3> HIDE DEF i
    <3>5. GrowsMax(cr) \in Int /\ GrowsMax(cr) >= 0
      BY <3>2, <3>4
    <3>6. QED BY <3>1, <3>2, <3>5
  <2>6. At(cr, "MaxCount") = {} => GrowsMax(cr) = 0
    BY DEF GrowsMax
  <2>7. CASE At(cr, "MinCount") = {}
    <3>1. GrowsMin(cr) = 0
      BY <2>7 DEF GrowsMin
    <3>2. QED BY <2>5, <2>6, <3>1
  <2>8. CASE At(cr, "MinCount") # {}
    <3> DEFINE k == CHOOSE i \in At(cr, "MinCount") : TRUE
    <3>1. k \in At(cr, "MinCount")
      BY <2>8
    <3>2. GrowsMin(cr) = IntMin(patch[k].new) - IntMin(patch[k].old) /\ GrowsMin(cr) \in Int
      BY <2>2, <2>3, <2>8, <3>1 DEF GrowsMin, The, At
    <3>3. MinCountFollowed(patch[k], patch)
      BY <2>2, <3>1 DEF At, MaxCountGrows
    <3>4. PICK j \in At(cr, "MaxCount") :
            IntMax(patch[j].new) - IntMax(patch[j].old) >= GrowsMin(cr)
      BY <3>1, <3>2, <3>3 DEF MinCountFollowed, At
    <3>5. GrowsMax(cr) = IntMax(patch[j].new) - IntMax(patch[j].old)
          /\ GrowsMax(cr) \in Int /\ GrowsMax(cr) >= 0
      BY <2>4, <2>5
    <3>6. QED BY <3>2, <3>4, <3>5
  <2>9. QED BY <2>7, <2>8
<1>2. QED BY <1>1, Invariance, PTL
=============================================================================
