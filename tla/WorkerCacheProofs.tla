-------------------------- MODULE WorkerCacheProofs --------------------------
(***************************************************************************)
(* A worker's cache (WorkerCache), of any documents and requests: it keeps *)
(* what the last two requests finished, a build answers as one without it, *)
(* and nothing they finished is built again.  The calls of build_node are  *)
(* a stack, so the invariant says of each frame what its call has come to, *)
(* and of each entry what a build without a cache comes to.  Subtrees and  *)
(* Builds recurse over a document's nodes, which topo_order has ordered.   *)
(***************************************************************************)
EXTENDS MCDocuments, SequenceTheorems, FiniteSetTheorems, WellFoundedInduction, TLAPS

(* Induction, in the form of a smallest number. *)
LEMMA SmallestOf ==
    ASSUME NEW U \in SUBSET Nat, U # {}
    PROVE  \E m \in U : \A k \in U : m <= k
<1> DEFINE R == OpToRel(<, Nat)
<1>1. IsWellFoundedOn(R, Nat)
  BY NatLessThanWellFounded
<1>2. \A x, y \in Nat : x < y => <<x, y>> \in R
  BY DEF OpToRel
<1> HIDE DEF R
<1>3. PICK m \in U : \A y \in U : ~ (<<y, m>> \in R)
  BY <1>1, WFMin
<1>4. ASSUME NEW k \in U PROVE m <= k
  <2>1. ~(k < m) /\ k \in Nat /\ m \in Nat
    BY <1>2, <1>3
  <2> QED BY <2>1
<1> QED
  BY <1>4

LEMMA PlaceByPlace ==
    ASSUME NEW U, 0 \in U, \A n \in Nat : n \in U => n + 1 \in U
    PROVE  Nat \subseteq U
<1> SUFFICES ASSUME Nat \ U # {} PROVE FALSE
  OBVIOUS
<1>1. PICK m \in Nat \ U : \A k \in Nat \ U : m <= k
  BY SmallestOf
<1>2. m # 0 /\ m - 1 \in Nat
  BY <1>1
<1>3. m - 1 \in U
  BY <1>1, <1>2
<1> QED
  BY <1>1, <1>2, <1>3

------------------------------------------------------------------------------
(* What documents are *)

OfChildren(d, n) == DOMAIN C!Children(d, n)

(* The operands of a node are nodes of its document, and are built before it. *)
LEMMA DocumentsAre ==
    ASSUME NEW d \in Documents
    PROVE  /\ Len(d.op) \in Nat /\ C!NodesOf(d) = 1..Len(d.op) /\ d.root \in C!NodesOf(d)
           /\ \A n \in C!NodesOf(d) : /\ C!Children(d, n) \in Seq(C!NodesOf(d)) /\ Len(C!Children(d, n)) \in Nat
                                  /\ OfChildren(d, n) = 1..Len(C!Children(d, n))
                                  /\ \A i \in OfChildren(d, n) : C!Children(d, n)[i] \in C!NodesOf(d)
           /\ \E place \in [C!NodesOf(d) -> 0..Len(d.op)] :
                  \A n \in C!NodesOf(d) : \A i \in OfChildren(d, n) : place[C!Children(d, n)[i]] < place[n]
<1>1. C!Ordered(d)
  BY CacheAssumption
<1>2. Len(d.op) \in Nat /\ C!NodesOf(d) = 1..Len(d.op) /\ d.root \in C!NodesOf(d)
  BY <1>1 DEF C!Ordered, C!NodesOf
<1>3. \A n \in C!NodesOf(d) : C!Children(d, n) \in Seq(C!NodesOf(d))
  BY <1>1 DEF C!Ordered, C!Children
<1>4. ASSUME NEW n \in C!NodesOf(d)
      PROVE  /\ Len(C!Children(d, n)) \in Nat /\ OfChildren(d, n) = 1..Len(C!Children(d, n))
             /\ \A i \in OfChildren(d, n) : C!Children(d, n)[i] \in C!NodesOf(d)
  <2> DEFINE s == C!Children(d, n)
  <2>1. s \in Seq(C!NodesOf(d))
    BY <1>3
  <2> HIDE DEF s
  <2>2. Len(s) \in Nat /\ DOMAIN s = 1..Len(s) /\ \A i \in 1..Len(s) : s[i] \in C!NodesOf(d)
    BY <2>1
  <2> QED BY <2>2 DEF s, OfChildren
<1>5. PICK place \in [C!NodesOf(d) -> C!NodesOf(d)] :
          \A n \in C!NodesOf(d) : \A i \in DOMAIN C!Children(d, n) : place[C!Children(d, n)[i]] < place[n]
  BY <1>1 DEF C!Ordered
<1>6. place \in [C!NodesOf(d) -> 0..Len(d.op)]
  BY <1>2, <1>5
<1> QED BY <1>2, <1>3, <1>4, <1>5, <1>6 DEF OfChildren

(* A set of nodes that has each node whose operands it has, has them all. *)
LEMMA NodeByNode ==
    ASSUME NEW d \in Documents, NEW U,
           \A n \in C!NodesOf(d) : (\A i \in OfChildren(d, n) : C!Children(d, n)[i] \in U) => n \in U
    PROVE  C!NodesOf(d) \subseteq U
<1>1. PICK place \in [C!NodesOf(d) -> 0..Len(d.op)] :
          \A n \in C!NodesOf(d) : \A i \in OfChildren(d, n) : place[C!Children(d, n)[i]] < place[n]
  BY DocumentsAre
<1> DEFINE V == {k \in Nat : \A n \in C!NodesOf(d) : place[n] < k => n \in U}
<1>2. 0 \in V
  BY <1>1
<1>3. ASSUME NEW k \in Nat, k \in V PROVE k + 1 \in V
  <2>1. ASSUME NEW n \in C!NodesOf(d), place[n] < k + 1 PROVE n \in U
    <3>1. \A i \in OfChildren(d, n) : C!Children(d, n)[i] \in C!NodesOf(d) /\ place[C!Children(d, n)[i]] < place[n]
      BY <1>1, DocumentsAre
    <3>2. \A i \in OfChildren(d, n) : place[C!Children(d, n)[i]] < k
      BY <1>1, <2>1, <3>1
    <3> QED BY <1>3, <3>1, <3>2
  <2> QED BY <2>1
<1>4. Nat \subseteq V
  <2> HIDE DEF V
  <2> QED BY <1>2, <1>3, PlaceByPlace
<1>5. ASSUME NEW n \in C!NodesOf(d) PROVE n \in U
  <2>1. place[n] \in Nat /\ place[n] < place[n] + 1 /\ place[n] + 1 \in V
    BY <1>1, <1>4, DocumentsAre
  <2> QED BY <2>1
<1> QED BY <1>5

------------------------------------------------------------------------------
(* What the recursive definitions say *)

(* What Subtrees says of a node, if f says it of its operands. *)
SubtreeBy(d, f, n) ==
    LET of == [i \in DOMAIN C!Children(d, n) |-> f[C!Children(d, n)[i]]]
    IN  [key |-> <<C!Blanked(d, n), [i \in DOMAIN of |-> of[i].key]>>,
         ids |-> <<n>> \o C!FlattenSeq([i \in DOMAIN of |-> of[i].ids])]

LEMMA SubtreeByOperands ==
    ASSUME NEW d, NEW n, NEW f, NEW g, \A i \in DOMAIN C!Children(d, n) : f[C!Children(d, n)[i]] = g[C!Children(d, n)[i]]
    PROVE  SubtreeBy(d, f, n) = SubtreeBy(d, g, n)
<1>1. [i \in DOMAIN C!Children(d, n) |-> f[C!Children(d, n)[i]]] = [i \in DOMAIN C!Children(d, n) |-> g[C!Children(d, n)[i]]]
  OBVIOUS
<1> QED BY <1>1 DEF SubtreeBy

(* Subtrees says of every node what SubtreeBy does: its recursion comes to an end. *)
LEMMA SubtreesAre ==
    ASSUME NEW d \in Documents
    PROVE  \A n \in C!NodesOf(d) : C!Subtrees[d][n] = SubtreeBy(d, C!Subtrees[d], n)
<1>1. PICK place \in [C!NodesOf(d) -> 0..Len(d.op)] :
          \A n \in C!NodesOf(d) : \A i \in OfChildren(d, n) : place[C!Children(d, n)[i]] < place[n]
  BY DocumentsAre
<1> DEFINE Right(f, k) == \A n \in C!NodesOf(d) : place[n] < k => f[n] = SubtreeBy(d, f, n)
           V == {k \in Nat : \E f : f = [n \in C!NodesOf(d) |-> f[n]] /\ Right(f, k)}
<1>2. 0 \in V
  <2> DEFINE f == [n \in C!NodesOf(d) |-> 0]
  <2>1. f = [n \in C!NodesOf(d) |-> f[n]] /\ Right(f, 0)
    BY <1>1
  <2> QED BY <2>1
<1>3. ASSUME NEW k \in Nat, k \in V PROVE k + 1 \in V
  <2>1. PICK f : f = [n \in C!NodesOf(d) |-> f[n]] /\ Right(f, k)
    BY <1>3
  <2> DEFINE g == [n \in C!NodesOf(d) |-> IF place[n] = k THEN SubtreeBy(d, f, n) ELSE f[n]]
  <2>2. /\ g = [n \in C!NodesOf(d) |-> g[n]]
        /\ \A n \in C!NodesOf(d) : g[n] = IF place[n] = k THEN SubtreeBy(d, f, n) ELSE f[n]
    OBVIOUS
  <2> HIDE DEF g
  <2>3. ASSUME NEW n \in C!NodesOf(d), place[n] < k + 1 PROVE g[n] = SubtreeBy(d, g, n)
    <3>1. \A i \in DOMAIN C!Children(d, n) : C!Children(d, n)[i] \in C!NodesOf(d) /\ place[C!Children(d, n)[i]] < place[n]
      BY <1>1, DocumentsAre DEF OfChildren
    <3>2. \A i \in DOMAIN C!Children(d, n) : g[C!Children(d, n)[i]] = f[C!Children(d, n)[i]]
      BY <1>1, <2>2, <2>3, <3>1
    <3>3. SubtreeBy(d, g, n) = SubtreeBy(d, f, n)
      BY <3>2, SubtreeByOperands
    <3>4. CASE place[n] = k
      BY <2>2, <3>3, <3>4
    <3>5. CASE place[n] # k
      <4>1. place[n] < k
        BY <1>1, <2>3, <3>5
      <4> QED BY <2>1, <2>2, <3>3, <3>5, <4>1
    <3> QED BY <3>4, <3>5
  <2> QED BY <2>2, <2>3
<1>4. Nat \subseteq V
  <2> HIDE DEF V
  <2> QED BY <1>2, <1>3, PlaceByPlace
<1>5. PICK f : f = [n \in C!NodesOf(d) |-> f[n]] /\ Right(f, Len(d.op) + 1)
  <2>1. Len(d.op) + 1 \in Nat
    BY DocumentsAre
  <2> QED BY <1>4, <2>1
<1>6. f = [n \in C!NodesOf(d) |-> SubtreeBy(d, f, n)]
  <2>1. \A n \in C!NodesOf(d) : place[n] < Len(d.op) + 1
    BY <1>1, DocumentsAre
  <2>2. \A n \in C!NodesOf(d) : f[n] = SubtreeBy(d, f, n)
    BY <1>5, <2>1
  <2> QED BY <1>5, <2>2
<1>7. C!Subtrees[d] = CHOOSE sub : sub = [n \in C!NodesOf(d) |-> SubtreeBy(d, sub, n)]
  BY DEF C!Subtrees, SubtreeBy
<1>8. C!Subtrees[d] = [n \in C!NodesOf(d) |-> SubtreeBy(d, C!Subtrees[d], n)]
  BY <1>6, <1>7
<1> QED BY <1>8

(* What Builds says of a node at a place, if f says it of its operands. *)
BuildOf(d, n, offset, of) ==
    LET built == C!Afresh(d, n, offset, [i \in DOMAIN of |-> of[i].built])
    IN  [built    |-> built,
         finished |-> (IF built.ok THEN {built.shape} ELSE {})
                      \union UNION {of[i].finished : i \in {j \in DOMAIN of : \A k \in 1..(j - 1) : of[k].built.ok}}]
BuildBy(d, f, n, offset) == BuildOf(d, n, offset, [i \in DOMAIN C!Children(d, n) |-> f[C!Children(d, n)[i]][C!At(d, n, offset)]])

LEMMA BuildByOperands ==
    ASSUME NEW d, NEW n, NEW offset, NEW f, NEW g,
           \A i \in DOMAIN C!Children(d, n) : f[C!Children(d, n)[i]][C!At(d, n, offset)] = g[C!Children(d, n)[i]][C!At(d, n, offset)]
    PROVE  BuildBy(d, f, n, offset) = BuildBy(d, g, n, offset)
<1>1. [i \in DOMAIN C!Children(d, n) |-> f[C!Children(d, n)[i]][C!At(d, n, offset)]]
      = [i \in DOMAIN C!Children(d, n) |-> g[C!Children(d, n)[i]][C!At(d, n, offset)]]
  OBVIOUS
<1> QED BY <1>1 DEF BuildBy

LEMMA AtNumber ==
    ASSUME NEW d, NEW n, NEW offset \in Nat
    PROVE  C!At(d, n, offset) \in Nat
BY DEF C!At

(* And so does Builds. *)
LEMMA BuildsAre ==
    ASSUME NEW d \in Documents
    PROVE  \A n \in C!NodesOf(d), offset \in Nat : C!Builds[d][n][offset] = BuildBy(d, C!Builds[d], n, offset)
<1>1. PICK place \in [C!NodesOf(d) -> 0..Len(d.op)] :
          \A n \in C!NodesOf(d) : \A i \in OfChildren(d, n) : place[C!Children(d, n)[i]] < place[n]
  BY DocumentsAre
<1> DEFINE Function(f) == f = [n \in C!NodesOf(d) |-> [offset \in Nat |-> f[n][offset]]]
           Right(f, k) == \A n \in C!NodesOf(d), offset \in Nat : place[n] < k => f[n][offset] = BuildBy(d, f, n, offset)
           V == {k \in Nat : \E f : Function(f) /\ Right(f, k)}
<1>2. 0 \in V
  <2> DEFINE f == [n \in C!NodesOf(d) |-> [offset \in Nat |-> 0]]
  <2>1. Function(f) /\ Right(f, 0)
    BY <1>1
  <2> QED BY <2>1
<1>3. ASSUME NEW k \in Nat, k \in V PROVE k + 1 \in V
  <2>1. PICK f : Function(f) /\ Right(f, k)
    BY <1>3
  <2> DEFINE g == [n \in C!NodesOf(d) |-> [offset \in Nat |-> IF place[n] = k THEN BuildBy(d, f, n, offset) ELSE f[n][offset]]]
  <2>2. /\ Function(g)
        /\ \A n \in C!NodesOf(d), offset \in Nat :
               g[n][offset] = IF place[n] = k THEN BuildBy(d, f, n, offset) ELSE f[n][offset]
    OBVIOUS
  <2> HIDE DEF g
  <2>3. ASSUME NEW n \in C!NodesOf(d), NEW offset \in Nat, place[n] < k + 1 PROVE g[n][offset] = BuildBy(d, g, n, offset)
    <3>1. \A i \in DOMAIN C!Children(d, n) : C!Children(d, n)[i] \in C!NodesOf(d) /\ place[C!Children(d, n)[i]] < place[n]
      BY <1>1, DocumentsAre DEF OfChildren
    <3>2. \A i \in DOMAIN C!Children(d, n) : place[C!Children(d, n)[i]] # k
      BY <1>1, <2>3, <3>1
    <3>3. C!At(d, n, offset) \in Nat
      BY AtNumber
    <3>4. \A i \in DOMAIN C!Children(d, n) : g[C!Children(d, n)[i]][C!At(d, n, offset)] = f[C!Children(d, n)[i]][C!At(d, n, offset)]
      BY <2>2, <3>1, <3>2, <3>3
    <3>5. BuildBy(d, g, n, offset) = BuildBy(d, f, n, offset)
      BY <3>4, BuildByOperands
    <3>6. CASE place[n] = k
      BY <2>2, <3>5, <3>6
    <3>7. CASE place[n] # k
      <4>1. place[n] < k
        BY <1>1, <2>3, <3>7
      <4> QED BY <2>1, <2>2, <3>5, <3>7, <4>1
    <3> QED BY <3>6, <3>7
  <2> QED BY <2>2, <2>3
<1>4. Nat \subseteq V
  <2> HIDE DEF V
  <2> QED BY <1>2, <1>3, PlaceByPlace
<1>5. PICK f : Function(f) /\ Right(f, Len(d.op) + 1)
  <2>1. Len(d.op) + 1 \in Nat
    BY DocumentsAre
  <2> QED BY <1>4, <2>1
<1>6. f = [n \in C!NodesOf(d) |-> [offset \in Nat |-> BuildBy(d, f, n, offset)]]
  <2>1. \A n \in C!NodesOf(d) : place[n] < Len(d.op) + 1
    BY <1>1, DocumentsAre
  <2>2. \A n \in C!NodesOf(d), offset \in Nat : f[n][offset] = BuildBy(d, f, n, offset)
    BY <1>5, <2>1
  <2> QED BY <1>5, <2>2
<1>7. C!Builds[d] = CHOOSE build : build = [n \in C!NodesOf(d) |-> [offset \in Nat |-> BuildBy(d, build, n, offset)]]
  BY DEF C!Builds, BuildBy, BuildOf
<1>8. C!Builds[d] = [n \in C!NodesOf(d) |-> [offset \in Nat |-> BuildBy(d, C!Builds[d], n, offset)]]
  BY <1>6, <1>7
<1> QED BY <1>8

------------------------------------------------------------------------------
(* Sequences joined *)

(* FlattenSeq joins what it is given one after the other. *)
LEMMA JoinedBy ==
    ASSUME NEW s, Len(s) \in Nat \ {0}, DOMAIN s = 1..Len(s)
    PROVE  \E f : /\ f[1] = s[1] /\ C!FlattenSeq(s) = f[Len(s)]
                  /\ \A i \in 2..Len(s) : f[i] = f[i - 1] \o s[i]
<1> DEFINE Join(a, b) == a \o b
           By(f, i) == IF i = 1 THEN s[i] ELSE Join(f[i - 1], s[i])
           V == {k \in Nat : \E f : f = [i \in 1..Len(s) |-> f[i]] /\ \A i \in 1..Len(s) : i <= k => f[i] = By(f, i)}
<1>0. C!FlattenSeq(s) = (CHOOSE h : h = [i \in 1..Len(s) |-> By(h, i)])[Len(s)]
  BY Zenon DEF C!FlattenSeq
<1> HIDE DEF Join
<1>1. 0 \in V
  <2> DEFINE f == [i \in 1..Len(s) |-> 0]
  <2>1. f = [i \in 1..Len(s) |-> f[i]] /\ \A i \in 1..Len(s) : i <= 0 => f[i] = By(f, i)
    OBVIOUS
  <2> QED BY <2>1
<1>2. ASSUME NEW k \in Nat, k \in V PROVE k + 1 \in V
  <2>1. PICK f : f = [i \in 1..Len(s) |-> f[i]] /\ \A i \in 1..Len(s) : i <= k => f[i] = By(f, i)
    BY <1>2
  <2> DEFINE g == [i \in 1..Len(s) |-> IF i = k + 1 THEN By(f, i) ELSE f[i]]
  <2>2. g = [i \in 1..Len(s) |-> g[i]] /\ \A i \in 1..Len(s) : g[i] = IF i = k + 1 THEN By(f, i) ELSE f[i]
    OBVIOUS
  <2> HIDE DEF g
  <2>3. ASSUME NEW i \in 1..Len(s), i <= k + 1 PROVE g[i] = By(g, i)
    <3>1. i # 1 => i - 1 \in 1..Len(s) /\ i - 1 # k + 1
      BY <2>3
    <3>2. i # 1 => g[i - 1] = f[i - 1]
      BY <2>2, <3>1
    <3>3. By(g, i) = By(f, i)
      BY <3>2
    <3>4. CASE i = k + 1
      <4>1. g[i] = By(f, i)
        BY <2>2, <3>4
      <4> QED BY <3>3, <4>1
    <3>5. CASE i # k + 1
      <4>1. i <= k /\ g[i] = f[i]
        BY <2>2, <2>3, <3>5
      <4>2. f[i] = By(f, i)
        BY <2>1, <4>1
      <4> QED BY <3>3, <4>1, <4>2
    <3> QED BY <3>4, <3>5
  <2> HIDE DEF By
  <2> QED BY <2>2, <2>3
<1>3. Len(s) \in V
  <2> HIDE DEF V
  <2> QED BY <1>1, <1>2, PlaceByPlace
<1>4. PICK f : f = [i \in 1..Len(s) |-> f[i]] /\ \A i \in 1..Len(s) : i <= Len(s) => f[i] = By(f, i)
  BY <1>3
<1> DEFINE flatten == CHOOSE h : h = [i \in 1..Len(s) |-> By(h, i)]
<1>5. f = [i \in 1..Len(s) |-> By(f, i)]
  <2> HIDE DEF By
  <2>1. \A i \in 1..Len(s) : f[i] = By(f, i)
    <3>1. \A i \in 1..Len(s) : i <= Len(s)
      OBVIOUS
    <3> QED BY <1>4, <3>1
  <2> QED BY <1>4, <2>1
<1>6. flatten = [i \in 1..Len(s) |-> By(flatten, i)]
  BY <1>5
<1>7. C!FlattenSeq(s) = flatten[Len(s)]
  BY <1>0
<1>8. \A i \in 1..Len(s) : flatten[i] = By(flatten, i)
  BY <1>6
<1> HIDE DEF flatten
<1>9. flatten[1] = s[1] /\ \A i \in 2..Len(s) : flatten[i] = Join(flatten[i - 1], s[i])
  BY <1>8
<1> QED BY <1>7, <1>9, Zenon DEF Join

LEMMA JoinedNone ==
    ASSUME NEW s, DOMAIN s = 1..0, Len(s) = 0
    PROVE  C!FlattenSeq(s) = s
BY DEF C!FlattenSeq

(* A join is a sequence of what the parts are sequences of, and has what they have. *)
LEMMA JoinedHas ==
    ASSUME NEW T, NEW m \in Nat, NEW s \in Seq(Seq(T)), Len(s) = m
    PROVE  /\ C!FlattenSeq(s) \in Seq(T)
           /\ \A i \in 1..m : \A j \in 1..Len(s[i]) : \E k \in 1..Len(C!FlattenSeq(s)) : C!FlattenSeq(s)[k] = s[i][j]
<1>1. DOMAIN s = 1..m /\ \A i \in 1..m : s[i] \in Seq(T)
  OBVIOUS
<1>2. CASE m = 0
  <2>1. C!FlattenSeq(s) = s /\ s = <<>>
    BY <1>1, <1>2, JoinedNone
  <2> QED BY <1>2, <2>1
<1>3. CASE m # 0
  <2>0. Len(s) \in Nat \ {0} /\ DOMAIN s = 1..Len(s)
    BY <1>1, <1>3
  <2>1. PICK f : /\ f[1] = s[1] /\ C!FlattenSeq(s) = f[m]
                 /\ \A i \in 2..m : f[i] = f[i - 1] \o s[i]
    BY <2>0, JoinedBy, Zenon
  <2> DEFINE Has(n) == /\ f[n] \in Seq(T)
                       /\ \A i \in 1..n : \A j \in 1..Len(s[i]) : \E k \in 1..Len(f[n]) : f[n][k] = s[i][j]
             V == {n \in Nat : n + 1 <= m => Has(n + 1)}
  <2>2. 0 \in V
    <3>1. f[1] = s[1] /\ 1 \in 1..m
      BY <1>3, <2>1
    <3>2. Has(1)
      <4> DEFINE a == s[1]
      <4>1. f[1] = a /\ a \in Seq(T) /\ \A i \in 1..1 : s[i] = a
        BY <1>1, <3>1
      <4> HIDE DEF a
      <4> QED BY <4>1
    <3>3. 0 + 1 = 1
      OBVIOUS
    <3> HIDE DEF Has
    <3> QED BY <3>2, <3>3
  <2>3. ASSUME NEW n \in Nat, n \in V PROVE n + 1 \in V
    <3> SUFFICES ASSUME n + 2 <= m PROVE Has(n + 2)
      OBVIOUS
    <3>1. Has(n + 1) /\ n + 2 \in 2..m /\ n + 1 \in 1..m /\ n + 2 \in 1..m /\ (n + 2) - 1 = n + 1
      <4>1. n + 1 <= m
        BY <1>3
      <4>2. Has(n + 1)
        BY <2>3, <4>1
      <4> HIDE DEF Has
      <4> QED BY <1>3, <4>2
    <3> DEFINE a == f[n + 1]
               b == s[n + 2]
               c == f[n + 2]
    <3>2. c = a \o b
      BY <2>1, <3>1
    <3>3. a \in Seq(T) /\ b \in Seq(T)
      BY <1>1, <3>1
    <3> HIDE DEF a, b, c
    <3>4. /\ c \in Seq(T) /\ Len(c) = Len(a) + Len(b) /\ Len(a) \in Nat /\ Len(b) \in Nat
          /\ \A k \in 1..Len(a) : c[k] = a[k]
          /\ \A k \in 1..Len(b) : c[k + Len(a)] = b[k]
      BY <3>2, <3>3
    <3>5. ASSUME NEW i \in 1..(n + 2), NEW j \in 1..Len(s[i]) PROVE \E k \in 1..Len(c) : c[k] = s[i][j]
      <4>1. CASE i = n + 2
        <5>1. s[i] = b /\ j \in 1..Len(b) /\ j + Len(a) \in 1..Len(c) /\ c[j + Len(a)] = b[j]
          BY <3>4, <3>5, <4>1 DEF b
        <5> QED BY <5>1
      <4>2. CASE i # n + 2
        <5>1. i \in 1..(n + 1)
          BY <4>2
        <5>2. PICK k \in 1..Len(a) : a[k] = s[i][j]
          BY <3>1, <3>5, <5>1 DEF a
        <5>3. k \in 1..Len(c) /\ c[k] = a[k]
          BY <3>4
        <5> QED BY <5>2, <5>3
      <4> QED BY <4>1, <4>2
    <3> QED BY <3>4, <3>5 DEF c
  <2>4. m - 1 \in V
    <3>1. m - 1 \in Nat
      BY <1>3
    <3> HIDE DEF V
    <3> QED BY <2>2, <2>3, <3>1, PlaceByPlace
  <2>5. Has(m)
    <3>1. (m - 1) + 1 = m
      BY <1>3
    <3>2. (m - 1) + 1 <= m => Has((m - 1) + 1)
      BY <2>4
    <3> HIDE DEF Has
    <3> QED BY <3>1, <3>2
  <2>6. f[m] = C!FlattenSeq(s) /\ m \in 1..m
    BY <1>3, <2>1
  <2> DEFINE c == f[m]
  <2>7. c \in Seq(T) /\ \A i \in 1..m : \A j \in 1..Len(s[i]) : \E k \in 1..Len(c) : c[k] = s[i][j]
    BY <2>5
  <2> HIDE DEF c
  <2>8. c = C!FlattenSeq(s)
    BY <2>6 DEF c
  <2> QED BY <2>7, <2>8
<1> QED BY <1>2, <1>3

(* Joins of parts that match place by place match place by place. *)
LEMMA JoinedMatch ==
    ASSUME NEW T, NEW U, NEW R, NEW m \in Nat, NEW s \in Seq(Seq(T)), NEW t \in Seq(Seq(U)), Len(s) = m, Len(t) = m,
           \A i \in 1..m : Len(s[i]) = Len(t[i]) /\ \A j \in 1..Len(s[i]) : <<s[i][j], t[i][j]>> \in R
    PROVE  /\ Len(C!FlattenSeq(s)) = Len(C!FlattenSeq(t))
           /\ \A k \in 1..Len(C!FlattenSeq(s)) : <<C!FlattenSeq(s)[k], C!FlattenSeq(t)[k]>> \in R
<1>1. /\ DOMAIN s = 1..m /\ \A i \in 1..m : s[i] \in Seq(T)
      /\ DOMAIN t = 1..m /\ \A i \in 1..m : t[i] \in Seq(U)
  OBVIOUS
<1>2. CASE m = 0
  <2>1. C!FlattenSeq(s) = s /\ s = <<>> /\ C!FlattenSeq(t) = t /\ t = <<>>
    BY <1>1, <1>2, JoinedNone
  <2> QED BY <1>2, <2>1
<1>3. CASE m # 0
  <2>0. Len(s) \in Nat \ {0} /\ DOMAIN s = 1..Len(s) /\ Len(t) \in Nat \ {0} /\ DOMAIN t = 1..Len(t)
    BY <1>1, <1>3
  <2>a. \E f : /\ f[1] = s[1] /\ C!FlattenSeq(s) = f[Len(s)]
              /\ \A i \in 2..Len(s) : f[i] = f[i - 1] \o s[i]
    BY <2>0, JoinedBy, Zenon
  <2>b. \E f : /\ f[1] = t[1] /\ C!FlattenSeq(t) = f[Len(t)]
              /\ \A i \in 2..Len(t) : f[i] = f[i - 1] \o t[i]
    BY <2>0, JoinedBy, Zenon
  <2>1. PICK f : /\ f[1] = s[1] /\ C!FlattenSeq(s) = f[m]
                 /\ \A i \in 2..m : f[i] = f[i - 1] \o s[i]
    BY <2>a, Zenon
  <2>2. PICK g : /\ g[1] = t[1] /\ C!FlattenSeq(t) = g[m]
                 /\ \A i \in 2..m : g[i] = g[i - 1] \o t[i]
    BY <2>b, Zenon
  <2> DEFINE Has(n) == /\ f[n] \in Seq(T) /\ g[n] \in Seq(U) /\ Len(f[n]) = Len(g[n])
                       /\ \A k \in 1..Len(f[n]) : <<f[n][k], g[n][k]>> \in R
             V == {n \in Nat : n + 1 <= m => Has(n + 1)}
  <2>3. 0 \in V
    <3>1. f[1] = s[1] /\ g[1] = t[1] /\ 1 \in 1..m
      BY <1>3, <2>1, <2>2
    <3>2. Has(1)
      BY <1>1, <3>1
    <3>3. 0 + 1 = 1
      OBVIOUS
    <3> HIDE DEF Has
    <3> QED BY <3>2, <3>3
  <2>4. ASSUME NEW n \in Nat, n \in V PROVE n + 1 \in V
    <3> SUFFICES ASSUME n + 2 <= m PROVE Has(n + 2)
      OBVIOUS
    <3>1. Has(n + 1) /\ n + 2 \in 2..m /\ n + 1 \in 1..m /\ n + 2 \in 1..m /\ (n + 2) - 1 = n + 1
      <4>1. n + 1 <= m
        BY <1>3
      <4>2. Has(n + 1)
        BY <2>4, <4>1
      <4> HIDE DEF Has
      <4> QED BY <1>3, <4>2
    <3> DEFINE a == f[n + 1]
               b == s[n + 2]
               c == f[n + 2]
               x == g[n + 1]
               y == t[n + 2]
               z == g[n + 2]
    <3>2. c = a \o b /\ z = x \o y
      BY <2>1, <2>2, <3>1
    <3>3. /\ a \in Seq(T) /\ b \in Seq(T) /\ x \in Seq(U) /\ y \in Seq(U)
          /\ Len(a) = Len(x) /\ (\A k \in 1..Len(a) : <<a[k], x[k]>> \in R)
          /\ Len(b) = Len(y) /\ (\A k \in 1..Len(b) : <<b[k], y[k]>> \in R)
      BY <1>1, <3>1
    <3> HIDE DEF a, b, c, x, y, z
    <3>4. /\ c \in Seq(T) /\ Len(c) = Len(a) + Len(b) /\ Len(a) \in Nat /\ Len(b) \in Nat
          /\ \A k \in 1..Len(c) : c[k] = IF k <= Len(a) THEN a[k] ELSE b[k - Len(a)]
      <4>1. c = a \o b
        BY <3>2
      <4>2. /\ a \o b \in Seq(T) /\ Len(a \o b) = Len(a) + Len(b)
            /\ \A k \in 1..(Len(a) + Len(b)) : (a \o b)[k] = IF k <= Len(a) THEN a[k] ELSE b[k - Len(a)]
        BY <3>3, ConcatProperties
      <4>3. Len(a) \in Nat /\ Len(b) \in Nat
        BY <3>3
      <4> QED BY <4>1, <4>2, <4>3
    <3>5. /\ z \in Seq(U) /\ Len(z) = Len(a) + Len(b)
          /\ \A k \in 1..Len(z) : z[k] = IF k <= Len(a) THEN x[k] ELSE y[k - Len(a)]
      <4>1. z = x \o y
        BY <3>2
      <4>2. /\ x \o y \in Seq(U) /\ Len(x \o y) = Len(x) + Len(y)
            /\ \A k \in 1..(Len(x) + Len(y)) : (x \o y)[k] = IF k <= Len(x) THEN x[k] ELSE y[k - Len(x)]
        BY <3>3, ConcatProperties
      <4>3. Len(x) = Len(a) /\ Len(y) = Len(b)
        BY <3>3
      <4> QED BY <4>1, <4>2, <4>3
    <3>6. ASSUME NEW k \in 1..Len(c) PROVE <<c[k], z[k]>> \in R
      <4>1. CASE k <= Len(a)
        <5>1. k \in 1..Len(a) /\ c[k] = a[k] /\ z[k] = x[k]
          BY <3>4, <3>5, <4>1
        <5> QED BY <3>3, <5>1
      <4>2. CASE ~(k <= Len(a))
        <5>1. k - Len(a) \in 1..Len(b) /\ c[k] = b[k - Len(a)] /\ z[k] = y[k - Len(a)]
          BY <3>4, <3>5, <4>2
        <5> QED BY <3>3, <5>1
      <4> QED BY <4>1, <4>2
    <3> QED BY <3>4, <3>5, <3>6 DEF c, z
  <2>5. m - 1 \in V
    <3>1. m - 1 \in Nat
      BY <1>3
    <3> HIDE DEF V
    <3> QED BY <2>3, <2>4, <3>1, PlaceByPlace
  <2>6. Has(m)
    BY <1>3, <2>5
  <2> QED BY <2>1, <2>2, <2>6
<1> QED BY <1>2, <1>3

------------------------------------------------------------------------------
(* Builds without a cache *)

(* A build without a cache, and the builds of its operands. *)
Child(d, n, i) == C!Children(d, n)[i]
BuiltTo(d, n, offset) == C!Builds[d][n][offset].built
BuiltAt(d, n, offset, i) == BuiltTo(d, Child(d, n, i), C!At(d, n, offset))
Within(d, n, offset) == C!Builds[d][n][offset].finished
Own(d, n) == IF C!Op(d, n) \in C!Treatments THEN <<n>> ELSE <<>>

LEMMA SubtreeIs ==
    ASSUME NEW d \in Documents, NEW n \in C!NodesOf(d)
    PROVE  /\ C!SubtreeKey(d, n) = <<C!Blanked(d, n), [i \in OfChildren(d, n) |-> C!SubtreeKey(d, Child(d, n, i))]>>
           /\ C!SubtreeIds(d, n) = <<n>> \o C!FlattenSeq([i \in OfChildren(d, n) |-> C!SubtreeIds(d, Child(d, n, i))])
<1> DEFINE of == [i \in OfChildren(d, n) |-> C!Subtrees[d][Child(d, n, i)]]
<1>1. C!Subtrees[d][n] = [key |-> <<C!Blanked(d, n), [i \in DOMAIN of |-> of[i].key]>>,
                        ids |-> <<n>> \o C!FlattenSeq([i \in DOMAIN of |-> of[i].ids])]
  BY SubtreesAre DEF SubtreeBy, OfChildren, Child
<1>2. /\ [i \in DOMAIN of |-> of[i].key] = [i \in OfChildren(d, n) |-> C!SubtreeKey(d, Child(d, n, i))]
      /\ [i \in DOMAIN of |-> of[i].ids] = [i \in OfChildren(d, n) |-> C!SubtreeIds(d, Child(d, n, i))]
  BY DEF C!SubtreeKey, C!SubtreeIds
<1> DEFINE keys == [i \in DOMAIN of |-> of[i].key]
           ids == [i \in DOMAIN of |-> of[i].ids]
<1>3. C!SubtreeKey(d, n) = <<C!Blanked(d, n), keys>> /\ C!SubtreeIds(d, n) = <<n>> \o C!FlattenSeq(ids)
  <2>1. C!Subtrees[d][n] = [key |-> <<C!Blanked(d, n), keys>>, ids |-> <<n>> \o C!FlattenSeq(ids)]
    BY <1>1, Zenon
  <2> HIDE DEF keys, ids
  <2> QED BY <2>1 DEF C!SubtreeKey, C!SubtreeIds
<1> QED BY <1>2, <1>3, Zenon

BuiltOf(d, n, offset, of) == C!Afresh(d, n, offset, [i \in DOMAIN of |-> of[i].built])
FinishedOf(of, built) ==
    (IF built.ok THEN {built.shape} ELSE {})
    \union UNION {of[i].finished : i \in {j \in DOMAIN of : \A k \in 1..(j - 1) : of[k].built.ok}}

LEMMA BuildOfIs ==
    ASSUME NEW d, NEW n, NEW offset, NEW of
    PROVE  /\ BuildOf(d, n, offset, of).built = BuiltOf(d, n, offset, of)
           /\ BuildOf(d, n, offset, of).finished = FinishedOf(of, BuiltOf(d, n, offset, of))
<1>1. BuildOf(d, n, offset, of) = [built |-> BuiltOf(d, n, offset, of), finished |-> FinishedOf(of, BuiltOf(d, n, offset, of))]
  BY Zenon DEF BuildOf, BuiltOf, FinishedOf
<1> QED BY <1>1

LEMMA AfreshIs ==
    ASSUME NEW d, NEW n, NEW offset, NEW of, NEW built, built = C!Afresh(d, n, offset, of)
    PROVE  /\ built.ok \in BOOLEAN
           /\ built.ok <=> C!Op(d, n) # "bad" /\ \A i \in DOMAIN of : of[i].ok
           /\ built.ok => /\ built.shape = C!Shape(d, n, offset, of)
                          /\ built.features = C!Features(d, n, of)
BY DEF C!Afresh, C!Failed, C!Solid

(* A build went well if those of its operands did, and is then made of theirs. *)
LEMMA BuiltIs ==
    ASSUME NEW d \in Documents, NEW n \in C!NodesOf(d), NEW offset \in Nat
    PROVE  /\ BuiltTo(d, n, offset).ok \in BOOLEAN
           /\ BuiltTo(d, n, offset).ok <=> C!Op(d, n) # "bad" /\ \A i \in OfChildren(d, n) : BuiltAt(d, n, offset, i).ok
           /\ BuiltTo(d, n, offset).ok =>
                  /\ BuiltTo(d, n, offset).shape
                     = <<C!Op(d, n), offset, [i \in OfChildren(d, n) |-> BuiltAt(d, n, offset, i).shape]>>
                  /\ BuiltTo(d, n, offset).features
                     = C!FlattenSeq([i \in OfChildren(d, n) |-> BuiltAt(d, n, offset, i).features]) \o Own(d, n)
<1> DEFINE of == [i \in OfChildren(d, n) |-> C!Builds[d][Child(d, n, i)][C!At(d, n, offset)]]
           made == [i \in DOMAIN of |-> of[i].built]
           built == C!Afresh(d, n, offset, made)
<1>1. BuiltTo(d, n, offset) = built
  <2>1. C!Builds[d][n][offset] = BuildOf(d, n, offset, of)
    BY BuildsAre DEF BuildBy, OfChildren, Child
  <2> HIDE DEF of, made
  <2>2. BuildOf(d, n, offset, of).built = built
    BY BuildOfIs DEF made, BuiltOf
  <2> QED BY <2>1, <2>2 DEF BuiltTo
<1>2. DOMAIN made = OfChildren(d, n) /\ \A i \in OfChildren(d, n) : made[i] = BuiltAt(d, n, offset, i)
  BY DEF BuiltTo, BuiltAt
<1> HIDE DEF made
<1>3. /\ built.ok \in BOOLEAN
      /\ built.ok <=> C!Op(d, n) # "bad" /\ \A i \in DOMAIN made : made[i].ok
      /\ built.ok => built.shape = C!Shape(d, n, offset, made) /\ built.features = C!Features(d, n, made)
  BY AfreshIs
<1>4. /\ [i \in DOMAIN made |-> made[i].shape] = [i \in OfChildren(d, n) |-> BuiltAt(d, n, offset, i).shape]
      /\ [i \in DOMAIN made |-> made[i].features] = [i \in OfChildren(d, n) |-> BuiltAt(d, n, offset, i).features]
  BY <1>2
<1>5. /\ C!Shape(d, n, offset, made) = <<C!Op(d, n), offset, [i \in OfChildren(d, n) |-> BuiltAt(d, n, offset, i).shape]>>
      /\ C!Features(d, n, made) = C!FlattenSeq([i \in OfChildren(d, n) |-> BuiltAt(d, n, offset, i).features]) \o Own(d, n)
  BY <1>4 DEF C!Shape, C!Features, Own
<1> HIDE DEF built
<1> QED BY <1>1, <1>2, <1>3, <1>5

(* A child that the build comes to: those before it are built. *)
Reached(d, n, offset, i) == i \in OfChildren(d, n) /\ \A k \in 1..(i - 1) : BuiltAt(d, n, offset, k).ok

(* What a build finishes is what its operands do up to the first that fails, and itself. *)
LEMMA WithinIs ==
    ASSUME NEW d \in Documents, NEW n \in C!NodesOf(d), NEW offset \in Nat, NEW s
    PROVE  s \in Within(d, n, offset)
           <=> \/ BuiltTo(d, n, offset).ok /\ s = BuiltTo(d, n, offset).shape
               \/ \E i \in OfChildren(d, n) : /\ Reached(d, n, offset, i)
                                              /\ s \in Within(d, Child(d, n, i), C!At(d, n, offset))
<1> DEFINE of == [i \in OfChildren(d, n) |-> C!Builds[d][Child(d, n, i)][C!At(d, n, offset)]]
           built == BuiltTo(d, n, offset)
           before == {j \in DOMAIN of : \A k \in 1..(j - 1) : of[k].built.ok}
<1>1. Within(d, n, offset) = (IF built.ok THEN {built.shape} ELSE {}) \union UNION {of[i].finished : i \in before}
  <2>1. C!Builds[d][n][offset] = BuildOf(d, n, offset, of)
    BY BuildsAre DEF BuildBy, OfChildren, Child
  <2> HIDE DEF of, before, built
  <2>2. built = BuiltOf(d, n, offset, of) /\ Within(d, n, offset) = FinishedOf(of, BuiltOf(d, n, offset, of))
    BY <2>1, BuildOfIs DEF BuiltTo, Within, built
  <2> QED BY <2>2, Zenon DEF FinishedOf, before
<1>2. DOMAIN of = OfChildren(d, n) /\ OfChildren(d, n) = 1..Len(C!Children(d, n)) /\ Len(C!Children(d, n)) \in Nat
  BY DocumentsAre
<1>3. \A i \in OfChildren(d, n) : /\ of[i].built = BuiltAt(d, n, offset, i)
                                  /\ of[i].finished = Within(d, Child(d, n, i), C!At(d, n, offset))
  BY DEF BuiltTo, BuiltAt, Within
<1> HIDE DEF of
<1>4. \A i \in OfChildren(d, n) : \A k \in 1..(i - 1) : k \in OfChildren(d, n)
  BY <1>2
<1>5. \A i : i \in before <=> Reached(d, n, offset, i)
  BY <1>2, <1>3, <1>4 DEF Reached
<1> HIDE DEF built, before
<1>6. s \in UNION {of[i].finished : i \in before} <=> \E i \in before : s \in of[i].finished
  OBVIOUS
<1>7. (\E i \in before : s \in of[i].finished)
      <=> \E i \in OfChildren(d, n) : Reached(d, n, offset, i) /\ s \in Within(d, Child(d, n, i), C!At(d, n, offset))
  BY <1>3, <1>5 DEF Reached
<1> QED BY <1>1, <1>6, <1>7 DEF built

(* What a build is made of is finished in it. *)
LEMMA WithinParts ==
    ASSUME NEW d \in Documents, NEW n \in C!NodesOf(d), NEW offset \in Nat, NEW i, Reached(d, n, offset, i)
    PROVE  Within(d, Child(d, n, i), C!At(d, n, offset)) \subseteq Within(d, n, offset)
BY WithinIs DEF Reached

LEMMA ChildIs ==
    ASSUME NEW d \in Documents, NEW n \in C!NodesOf(d), NEW i \in OfChildren(d, n)
    PROVE  /\ Child(d, n, i) \in C!NodesOf(d)
           /\ \A offset \in Nat : C!At(d, n, offset) \in Nat
BY DocumentsAre, AtNumber DEF Child

------------------------------------------------------------------------------
(* The numbers of a subtree *)

(* The nodes of a subtree. *)
IdsOf(d, n) == {C!SubtreeIds(d, n)[k] : k \in 1..Len(C!SubtreeIds(d, n))}

LEMMA IdsAre ==
    ASSUME NEW d \in Documents
    PROVE  \A n \in C!NodesOf(d) : /\ C!SubtreeIds(d, n) \in Seq(C!NodesOf(d)) /\ n \in IdsOf(d, n)
                               /\ \A i \in OfChildren(d, n) : IdsOf(d, Child(d, n, i)) \subseteq IdsOf(d, n)
<1> DEFINE Good(n) == /\ C!SubtreeIds(d, n) \in Seq(C!NodesOf(d)) /\ n \in IdsOf(d, n)
                      /\ \A i \in OfChildren(d, n) : IdsOf(d, Child(d, n, i)) \subseteq IdsOf(d, n)
           U == {n \in C!NodesOf(d) : Good(n)}
<1>1. ASSUME NEW n \in C!NodesOf(d), \A i \in OfChildren(d, n) : C!Children(d, n)[i] \in U
      PROVE  Good(n)
  <2> DEFINE s == [i \in OfChildren(d, n) |-> C!SubtreeIds(d, Child(d, n, i))]
             m == Len(C!Children(d, n))
             rest == C!FlattenSeq(s)
             all == C!SubtreeIds(d, n)
  <2>0. m \in Nat /\ OfChildren(d, n) = 1..m
    BY DocumentsAre
  <2>1. /\ m \in Nat /\ OfChildren(d, n) = 1..m /\ \A i \in 1..m : s[i] = C!SubtreeIds(d, Child(d, n, i))
        /\ s \in Seq(Seq(C!NodesOf(d))) /\ Len(s) = m
    <3>1. \A i \in 1..m : C!SubtreeIds(d, Child(d, n, i)) \in Seq(C!NodesOf(d))
      BY <1>1, <2>0 DEF Child
    <3> HIDE DEF m
    <3>2. \A i \in 1..m : s[i] = C!SubtreeIds(d, Child(d, n, i))
      BY <2>0
    <3>3. s = [i \in 1..m |-> s[i]]
      BY <2>0
    <3> HIDE DEF s
    <3>4. s \in [1..m -> Seq(C!NodesOf(d))]
      BY <3>1, <3>2, <3>3
    <3> QED BY <2>0, <3>2, <3>4
  <2>2. all = <<n>> \o rest
    BY SubtreeIs
  <2> HIDE DEF s, m
  <2>3. /\ rest \in Seq(C!NodesOf(d))
        /\ \A i \in 1..m : \A j \in 1..Len(s[i]) : \E k \in 1..Len(rest) : rest[k] = s[i][j]
    BY <2>1, JoinedHas
  <2> HIDE DEF rest, all
  <2>4. /\ all \in Seq(C!NodesOf(d)) /\ Len(all) = Len(rest) + 1 /\ all[1] = n /\ Len(rest) \in Nat
        /\ \A k \in 1..Len(rest) : k + 1 \in 1..Len(all) /\ all[k + 1] = rest[k]
    BY <2>2, <2>3
  <2>5. ASSUME NEW i \in OfChildren(d, n), NEW c \in IdsOf(d, Child(d, n, i)) PROVE c \in IdsOf(d, n)
    <3>1. PICK j \in 1..Len(s[i]) : c = s[i][j]
      BY <2>1, <2>5 DEF IdsOf
    <3>2. PICK k \in 1..Len(rest) : rest[k] = c
      BY <2>1, <2>3, <3>1
    <3>3. k + 1 \in 1..Len(all) /\ all[k + 1] = c
      BY <2>4, <3>2
    <3> QED BY <3>3 DEF IdsOf, all
  <2>6. n \in IdsOf(d, n)
    <3>1. 1 \in 1..Len(all)
      BY <2>4
    <3> QED BY <2>4, <3>1 DEF IdsOf, all
  <2> QED BY <2>4, <2>5, <2>6 DEF all
<1>2. C!NodesOf(d) \subseteq U
  <2> HIDE DEF Good
  <2>1. \A n \in C!NodesOf(d) : (\A i \in OfChildren(d, n) : C!Children(d, n)[i] \in U) => n \in U
    BY <1>1
  <2> HIDE DEF U
  <2> QED BY <2>1, NodeByNode
<1> QED BY <1>2

(* The features of a build are treatments in its subtree. *)
LEMMA FeaturesAre ==
    ASSUME NEW d \in Documents
    PROVE  \A n \in C!NodesOf(d), offset \in Nat :
               BuiltTo(d, n, offset).ok => BuiltTo(d, n, offset).features \in Seq(IdsOf(d, n))
<1> DEFINE Good(n) == \A offset \in Nat : BuiltTo(d, n, offset).ok => BuiltTo(d, n, offset).features \in Seq(IdsOf(d, n))
           U == {n \in C!NodesOf(d) : Good(n)}
<1>1. ASSUME NEW n \in C!NodesOf(d), \A i \in OfChildren(d, n) : C!Children(d, n)[i] \in U, NEW offset \in Nat,
             BuiltTo(d, n, offset).ok
      PROVE  BuiltTo(d, n, offset).features \in Seq(IdsOf(d, n))
  <2> DEFINE s == [i \in OfChildren(d, n) |-> BuiltAt(d, n, offset, i).features]
             m == Len(C!Children(d, n))
             T == IdsOf(d, n)
  <2>1. m \in Nat /\ OfChildren(d, n) = 1..m
    BY DocumentsAre
  <2>2. ASSUME NEW i \in 1..m PROVE BuiltAt(d, n, offset, i).features \in Seq(T)
    <3> DEFINE c == Child(d, n, i)
               f == BuiltAt(d, n, offset, i).features
    <3>1. c \in C!NodesOf(d) /\ C!At(d, n, offset) \in Nat /\ Good(c)
      BY <1>1, <2>1, ChildIs DEF Child
    <3>2. BuiltAt(d, n, offset, i).ok
      BY <1>1, <2>1, BuiltIs
    <3>3. f \in Seq(IdsOf(d, c))
      BY <3>1, <3>2 DEF BuiltAt
    <3>4. IdsOf(d, c) \subseteq T
      BY <2>1, IdsAre
    <3> HIDE DEF f, c, T
    <3> QED BY <3>3, <3>4 DEF f
  <2>3. s \in Seq(Seq(T)) /\ Len(s) = m
    <3> HIDE DEF T
    <3> QED BY <2>1, <2>2
  <2>4. C!FlattenSeq(s) \in Seq(T)
    <3> HIDE DEF s, m, T
    <3> QED BY <2>1, <2>3, JoinedHas
  <2>5. Own(d, n) \in Seq(T)
    <3>1. n \in T
      BY IdsAre
    <3> HIDE DEF T
    <3> QED BY <3>1 DEF Own
  <2>6. BuiltTo(d, n, offset).features = C!FlattenSeq(s) \o Own(d, n)
    BY <1>1, BuiltIs
  <2> HIDE DEF s, T
  <2> QED BY <2>4, <2>5, <2>6 DEF T
<1>2. C!NodesOf(d) \subseteq U
  <2>1. \A n \in C!NodesOf(d) : (\A i \in OfChildren(d, n) : C!Children(d, n)[i] \in U) => n \in U
    BY <1>1
  <2> HIDE DEF U
  <2> QED BY <2>1, NodeByNode
<1> QED BY <1>2

------------------------------------------------------------------------------
(* What has the same key is built alike *)

(* Nodes of the same key are one operation with operands of the same keys. *)
LEMMA SameKey ==
    ASSUME NEW d \in Documents, NEW e \in Documents, NEW n \in C!NodesOf(d), NEW m \in C!NodesOf(e),
           C!SubtreeKey(d, n) = C!SubtreeKey(e, m)
    PROVE  /\ C!Op(d, n) = C!Op(e, m) /\ OfChildren(d, n) = OfChildren(e, m)
           /\ Len(C!Children(d, n)) = Len(C!Children(e, m))
           /\ \A i \in OfChildren(d, n) : C!SubtreeKey(d, Child(d, n, i)) = C!SubtreeKey(e, Child(e, m, i))
           /\ \A offset : C!At(d, n, offset) = C!At(e, m, offset)
<1> DEFINE s == [i \in OfChildren(d, n) |-> C!SubtreeKey(d, Child(d, n, i))]
           t == [i \in OfChildren(e, m) |-> C!SubtreeKey(e, Child(e, m, i))]
<1>1. C!SubtreeKey(d, n) = <<C!Blanked(d, n), s>> /\ C!SubtreeKey(e, m) = <<C!Blanked(e, m), t>>
  BY SubtreeIs
<1>2. /\ DOMAIN s = OfChildren(d, n) /\ \A i \in OfChildren(d, n) : s[i] = C!SubtreeKey(d, Child(d, n, i))
      /\ DOMAIN t = OfChildren(e, m) /\ \A i \in OfChildren(e, m) : t[i] = C!SubtreeKey(e, Child(e, m, i))
  OBVIOUS
<1> HIDE DEF s, t
<1>3. C!Blanked(d, n) = C!Blanked(e, m) /\ s = t
  <2>1. \A v, w, x, y : <<v, w>> = <<x, y>> => v = x /\ w = y
    OBVIOUS
  <2>2. <<C!Blanked(d, n), s>> = <<C!Blanked(e, m), t>>
    BY <1>1
  <2> QED BY <2>1, <2>2
<1>4. C!Op(d, n) = C!Op(e, m)
  <2>1. \A f, v : C!Blanked(f, v) = <<C!Op(f, v), IF C!Op(f, v) = "trim" THEN C!Children(f, v)[2] ELSE 0>>
    BY DEF C!Blanked
  <2> QED BY <1>3, <2>1
<1>5. Len(C!Children(d, n)) = Len(C!Children(e, m))
  <2>1. /\ OfChildren(d, n) = 1..Len(C!Children(d, n)) /\ OfChildren(e, m) = 1..Len(C!Children(e, m))
        /\ Len(C!Children(d, n)) \in Nat /\ Len(C!Children(e, m)) \in Nat
    BY DocumentsAre
  <2>2. OfChildren(d, n) = OfChildren(e, m)
    BY <1>2, <1>3
  <2> QED BY <2>1, <2>2
<1> QED BY <1>2, <1>3, <1>4, <1>5 DEF C!At

(* They are built to the same shape at the same place, or fail alike. *)
LEMMA SameShapes ==
    ASSUME NEW d \in Documents, NEW e \in Documents
    PROVE  \A n \in C!NodesOf(d), m \in C!NodesOf(e), offset \in Nat : C!SubtreeKey(d, n) = C!SubtreeKey(e, m) =>
               /\ BuiltTo(d, n, offset).ok = BuiltTo(e, m, offset).ok
               /\ BuiltTo(d, n, offset).ok => BuiltTo(d, n, offset).shape = BuiltTo(e, m, offset).shape
               /\ Within(d, n, offset) = Within(e, m, offset)
<1> DEFINE Good(n) ==
               \A m \in C!NodesOf(e), offset \in Nat : C!SubtreeKey(d, n) = C!SubtreeKey(e, m) =>
                   /\ BuiltTo(d, n, offset).ok = BuiltTo(e, m, offset).ok
                   /\ BuiltTo(d, n, offset).ok => BuiltTo(d, n, offset).shape = BuiltTo(e, m, offset).shape
                   /\ Within(d, n, offset) = Within(e, m, offset)
           U == {n \in C!NodesOf(d) : Good(n)}
<1>1. ASSUME NEW n \in C!NodesOf(d), \A i \in OfChildren(d, n) : C!Children(d, n)[i] \in U,
             NEW m \in C!NodesOf(e), NEW offset \in Nat, C!SubtreeKey(d, n) = C!SubtreeKey(e, m)
      PROVE  /\ BuiltTo(d, n, offset).ok = BuiltTo(e, m, offset).ok
             /\ BuiltTo(d, n, offset).ok => BuiltTo(d, n, offset).shape = BuiltTo(e, m, offset).shape
             /\ Within(d, n, offset) = Within(e, m, offset)
  <2>1. /\ C!Op(d, n) = C!Op(e, m) /\ OfChildren(d, n) = OfChildren(e, m) /\ C!At(d, n, offset) = C!At(e, m, offset)
        /\ \A i \in OfChildren(d, n) : C!SubtreeKey(d, Child(d, n, i)) = C!SubtreeKey(e, Child(e, m, i))
    BY <1>1, SameKey
  <2>2. ASSUME NEW i \in OfChildren(d, n)
        PROVE  /\ BuiltAt(d, n, offset, i).ok = BuiltAt(e, m, offset, i).ok
               /\ BuiltAt(d, n, offset, i).ok => BuiltAt(d, n, offset, i).shape = BuiltAt(e, m, offset, i).shape
               /\ Within(d, Child(d, n, i), C!At(d, n, offset)) = Within(e, Child(e, m, i), C!At(e, m, offset))
    <3>1. Child(d, n, i) \in C!NodesOf(d) /\ Child(e, m, i) \in C!NodesOf(e) /\ C!At(d, n, offset) \in Nat
      BY <2>1, ChildIs
    <3>2. Good(Child(d, n, i))
      BY <1>1 DEF Child
    <3> QED BY <2>1, <3>1, <3>2 DEF BuiltAt
  <2>3. BuiltTo(d, n, offset).ok = BuiltTo(e, m, offset).ok
    BY <2>1, <2>2, BuiltIs
  <2>4. ASSUME BuiltTo(d, n, offset).ok PROVE BuiltTo(d, n, offset).shape = BuiltTo(e, m, offset).shape
    <3> DEFINE s == [i \in OfChildren(d, n) |-> BuiltAt(d, n, offset, i).shape]
               t == [i \in OfChildren(e, m) |-> BuiltAt(e, m, offset, i).shape]
    <3>1. \A i \in OfChildren(d, n) : BuiltAt(d, n, offset, i).shape = BuiltAt(e, m, offset, i).shape
      BY <2>2, <2>4, BuiltIs
    <3>2. s = t
      BY <2>1, <3>1
    <3>3. /\ BuiltTo(d, n, offset).shape = <<C!Op(d, n), offset, s>>
          /\ BuiltTo(e, m, offset).shape = <<C!Op(e, m), offset, t>>
      BY <2>3, <2>4, BuiltIs
    <3> QED BY <2>1, <3>2, <3>3
  <2>5. \A i : Reached(d, n, offset, i) <=> Reached(e, m, offset, i)
    <3>1. OfChildren(d, n) = 1..Len(C!Children(d, n)) /\ Len(C!Children(d, n)) \in Nat
      BY DocumentsAre
    <3>2. \A i \in OfChildren(d, n) : \A k \in 1..(i - 1) : k \in OfChildren(d, n)
      BY <3>1
    <3> QED BY <2>1, <2>2, <3>2 DEF Reached
  <2>6. \A s : s \in Within(d, n, offset) <=> s \in Within(e, m, offset)
    BY <2>1, <2>2, <2>3, <2>4, <2>5, WithinIs
  <2>7. Within(d, n, offset) = Within(e, m, offset)
    BY <2>6
  <2> QED BY <2>3, <2>4, <2>7
<1>2. C!NodesOf(d) \subseteq U
  <2>1. \A n \in C!NodesOf(d) : (\A i \in OfChildren(d, n) : C!Children(d, n)[i] \in U) => n \in U
    BY <1>1
  <2> HIDE DEF U
  <2> QED BY <2>1, NodeByNode
<1> QED BY <1>2

(* Nodes of two documents that are written alike. *)
Alike(d, e) == {p \in C!NodesOf(d) \X C!NodesOf(e) : C!SubtreeKey(d, p[1]) = C!SubtreeKey(e, p[2])}
Match(d, e, s, t) == Len(s) = Len(t) /\ \A k \in 1..Len(s) : <<s[k], t[k]>> \in Alike(d, e)

LEMMA MatchJoined ==
    ASSUME NEW d, NEW e, NEW q \in Nat, NEW s, NEW t, s = [i \in 1..q |-> s[i]], t = [i \in 1..q |-> t[i]],
           \A i \in 1..q : s[i] \in Seq(C!NodesOf(d)) /\ t[i] \in Seq(C!NodesOf(e)) /\ Match(d, e, s[i], t[i])
    PROVE  /\ C!FlattenSeq(s) \in Seq(C!NodesOf(d)) /\ C!FlattenSeq(t) \in Seq(C!NodesOf(e))
           /\ Match(d, e, C!FlattenSeq(s), C!FlattenSeq(t))
<1>1. s \in [1..q -> Seq(C!NodesOf(d))] /\ t \in [1..q -> Seq(C!NodesOf(e))]
  OBVIOUS
<1>2. s \in Seq(Seq(C!NodesOf(d))) /\ t \in Seq(Seq(C!NodesOf(e))) /\ Len(s) = q /\ Len(t) = q
  BY <1>1
<1>3. \A i \in 1..q : Len(s[i]) = Len(t[i]) /\ \A j \in 1..Len(s[i]) : <<s[i][j], t[i][j]>> \in Alike(d, e)
  BY DEF Match
<1>4. C!FlattenSeq(s) \in Seq(C!NodesOf(d)) /\ C!FlattenSeq(t) \in Seq(C!NodesOf(e))
  BY <1>2, JoinedHas
<1>5. /\ Len(C!FlattenSeq(s)) = Len(C!FlattenSeq(t))
      /\ \A k \in 1..Len(C!FlattenSeq(s)) : <<C!FlattenSeq(s)[k], C!FlattenSeq(t)[k]>> \in Alike(d, e)
  BY <1>2, <1>3, JoinedMatch
<1> QED BY <1>4, <1>5 DEF Match

LEMMA MatchAfter ==
    ASSUME NEW d, NEW e, NEW a \in Seq(C!NodesOf(d)), NEW x \in Seq(C!NodesOf(d)), NEW b \in Seq(C!NodesOf(e)), NEW y \in Seq(C!NodesOf(e)),
           Match(d, e, a, b), Match(d, e, x, y)
    PROVE  Match(d, e, a \o x, b \o y)
<1> DEFINE s == a \o x
           t == b \o y
<1>1. /\ Len(a) = Len(b) /\ Len(x) = Len(y) /\ Len(a) \in Nat /\ Len(x) \in Nat
      /\ \A k \in 1..Len(a) : <<a[k], b[k]>> \in Alike(d, e)
      /\ \A k \in 1..Len(x) : <<x[k], y[k]>> \in Alike(d, e)
  BY DEF Match
<1>2. /\ Len(s) = Len(a) + Len(x) /\ Len(t) = Len(a) + Len(x)
      /\ \A k \in 1..(Len(a) + Len(x)) : s[k] = IF k <= Len(a) THEN a[k] ELSE x[k - Len(a)]
      /\ \A k \in 1..(Len(a) + Len(x)) : t[k] = IF k <= Len(a) THEN b[k] ELSE y[k - Len(a)]
  <2>1. /\ Len(s) = Len(a) + Len(x)
        /\ \A k \in 1..(Len(a) + Len(x)) : s[k] = IF k <= Len(a) THEN a[k] ELSE x[k - Len(a)]
    BY ConcatProperties
  <2>2. /\ Len(t) = Len(b) + Len(y)
        /\ \A k \in 1..(Len(b) + Len(y)) : t[k] = IF k <= Len(b) THEN b[k] ELSE y[k - Len(b)]
    BY ConcatProperties
  <2> QED BY <1>1, <2>1, <2>2
<1> HIDE DEF s, t
<1>3. ASSUME NEW k \in 1..(Len(a) + Len(x)) PROVE <<s[k], t[k]>> \in Alike(d, e)
  <2>1. CASE k <= Len(a)
    <3>1. k \in 1..Len(a) /\ s[k] = a[k] /\ t[k] = b[k]
      BY <1>1, <1>2, <2>1
    <3> QED BY <1>1, <3>1
  <2>2. CASE ~(k <= Len(a))
    <3>1. k - Len(a) \in 1..Len(x) /\ s[k] = x[k - Len(a)] /\ t[k] = y[k - Len(a)]
      BY <1>1, <1>2, <2>2
    <3> QED BY <1>1, <3>1
  <2> QED BY <2>1, <2>2
<1> QED BY <1>2, <1>3 DEF Match, s, t

LEMMA MatchOne ==
    ASSUME NEW d, NEW e, NEW n \in C!NodesOf(d), NEW m \in C!NodesOf(e), C!SubtreeKey(d, n) = C!SubtreeKey(e, m)
    PROVE  Match(d, e, <<n>>, <<m>>)
<1>1. <<n, m>> \in Alike(d, e)
  BY DEF Alike
<1> DEFINE s == <<n>>
           t == <<m>>
<1>2. Len(s) = 1 /\ Len(t) = 1 /\ s[1] = n /\ t[1] = m
  OBVIOUS
<1> HIDE DEF s, t
<1>3. Match(d, e, s, t)
  BY <1>1, <1>2 DEF Match
<1> QED BY <1>3 DEF s, t

(* Their subtrees have their nodes in the same order, alike one by one. *)
LEMMA SameIds ==
    ASSUME NEW d \in Documents, NEW e \in Documents
    PROVE  \A n \in C!NodesOf(d), m \in C!NodesOf(e) : C!SubtreeKey(d, n) = C!SubtreeKey(e, m) =>
               Match(d, e, C!SubtreeIds(d, n), C!SubtreeIds(e, m))
<1> DEFINE Good(n) ==
               \A m \in C!NodesOf(e) : C!SubtreeKey(d, n) = C!SubtreeKey(e, m) => Match(d, e, C!SubtreeIds(d, n), C!SubtreeIds(e, m))
           U == {n \in C!NodesOf(d) : Good(n)}
<1>1. ASSUME NEW n \in C!NodesOf(d), \A i \in OfChildren(d, n) : C!Children(d, n)[i] \in U,
             NEW m \in C!NodesOf(e), C!SubtreeKey(d, n) = C!SubtreeKey(e, m)
      PROVE  Match(d, e, C!SubtreeIds(d, n), C!SubtreeIds(e, m))
  <2> DEFINE s == [i \in OfChildren(d, n) |-> C!SubtreeIds(d, Child(d, n, i))]
             t == [i \in OfChildren(e, m) |-> C!SubtreeIds(e, Child(e, m, i))]
             q == Len(C!Children(d, n))
  <2>1. /\ OfChildren(d, n) = 1..q /\ OfChildren(e, m) = 1..q /\ q \in Nat
        /\ \A i \in 1..q : C!SubtreeKey(d, Child(d, n, i)) = C!SubtreeKey(e, Child(e, m, i))
    BY <1>1, SameKey, DocumentsAre
  <2> HIDE DEF q
  <2>2. \A i \in 1..q : /\ C!SubtreeIds(d, Child(d, n, i)) \in Seq(C!NodesOf(d)) /\ C!SubtreeIds(e, Child(e, m, i)) \in Seq(C!NodesOf(e))
                        /\ Match(d, e, C!SubtreeIds(d, Child(d, n, i)), C!SubtreeIds(e, Child(e, m, i)))
    <3> TAKE i \in 1..q
    <3>1. Child(d, n, i) \in C!NodesOf(d) /\ Child(e, m, i) \in C!NodesOf(e)
      BY <2>1, ChildIs
    <3>2. Good(Child(d, n, i))
      BY <1>1, <2>1 DEF Child
    <3>3. Match(d, e, C!SubtreeIds(d, Child(d, n, i)), C!SubtreeIds(e, Child(e, m, i)))
      BY <2>1, <3>1, <3>2
    <3> QED BY <3>1, <3>3, IdsAre
  <2>3. /\ s = [i \in 1..q |-> s[i]] /\ t = [i \in 1..q |-> t[i]]
        /\ \A i \in 1..q : s[i] = C!SubtreeIds(d, Child(d, n, i)) /\ t[i] = C!SubtreeIds(e, Child(e, m, i))
    BY <2>1
  <2>4. C!SubtreeIds(d, n) = <<n>> \o C!FlattenSeq(s) /\ C!SubtreeIds(e, m) = <<m>> \o C!FlattenSeq(t)
    BY SubtreeIs
  <2> HIDE DEF s, t
  <2>5. /\ C!FlattenSeq(s) \in Seq(C!NodesOf(d)) /\ C!FlattenSeq(t) \in Seq(C!NodesOf(e))
        /\ Match(d, e, C!FlattenSeq(s), C!FlattenSeq(t))
    BY <2>1, <2>2, <2>3, MatchJoined
  <2>6. <<n>> \in Seq(C!NodesOf(d)) /\ <<m>> \in Seq(C!NodesOf(e)) /\ Match(d, e, <<n>>, <<m>>)
    BY <1>1, MatchOne
  <2> QED BY <2>4, <2>5, <2>6, MatchAfter
<1>2. C!NodesOf(d) \subseteq U
  <2>1. \A n \in C!NodesOf(d) : (\A i \in OfChildren(d, n) : C!Children(d, n)[i] \in U) => n \in U
    BY <1>1
  <2> HIDE DEF U
  <2> QED BY <2>1, NodeByNode
<1> QED BY <1>2

LEMMA SameOwn ==
    ASSUME NEW d \in Documents, NEW e \in Documents, NEW n \in C!NodesOf(d), NEW m \in C!NodesOf(e), C!SubtreeKey(d, n) = C!SubtreeKey(e, m)
    PROVE  Own(d, n) \in Seq(C!NodesOf(d)) /\ Own(e, m) \in Seq(C!NodesOf(e)) /\ Match(d, e, Own(d, n), Own(e, m))
<1>1. C!Op(d, n) = C!Op(e, m)
  BY SameKey
<1>2. Match(d, e, <<>>, <<>>)
  BY DEF Match
<1> QED BY <1>1, <1>2, MatchOne DEF Own

LEMMA FeaturesTyped ==
    ASSUME NEW d \in Documents, NEW n \in C!NodesOf(d), NEW offset \in Nat, BuiltTo(d, n, offset).ok
    PROVE  BuiltTo(d, n, offset).features \in Seq(C!NodesOf(d))
<1>1. IdsOf(d, n) \subseteq C!NodesOf(d)
  <2>1. C!SubtreeIds(d, n) \in Seq(C!NodesOf(d))
    BY IdsAre
  <2> QED BY <2>1 DEF IdsOf
<1> DEFINE f == BuiltTo(d, n, offset).features
<1>2. f \in Seq(IdsOf(d, n))
  BY FeaturesAre
<1> HIDE DEF f
<1>3. f \in Seq(C!NodesOf(d))
  BY <1>1, <1>2
<1> QED BY <1>3 DEF f

(* And what they name is alike one by one. *)
LEMMA SameFeatures ==
    ASSUME NEW d \in Documents, NEW e \in Documents
    PROVE  \A n \in C!NodesOf(d), m \in C!NodesOf(e), offset \in Nat : C!SubtreeKey(d, n) = C!SubtreeKey(e, m) /\ BuiltTo(d, n, offset).ok =>
               Match(d, e, BuiltTo(d, n, offset).features, BuiltTo(e, m, offset).features)
<1> DEFINE Good(n) ==
               \A m \in C!NodesOf(e), offset \in Nat : C!SubtreeKey(d, n) = C!SubtreeKey(e, m) /\ BuiltTo(d, n, offset).ok =>
                   Match(d, e, BuiltTo(d, n, offset).features, BuiltTo(e, m, offset).features)
           U == {n \in C!NodesOf(d) : Good(n)}
<1>1. ASSUME NEW n \in C!NodesOf(d), \A i \in OfChildren(d, n) : C!Children(d, n)[i] \in U,
             NEW m \in C!NodesOf(e), NEW offset \in Nat, C!SubtreeKey(d, n) = C!SubtreeKey(e, m), BuiltTo(d, n, offset).ok
      PROVE  Match(d, e, BuiltTo(d, n, offset).features, BuiltTo(e, m, offset).features)
  <2> DEFINE s == [i \in OfChildren(d, n) |-> BuiltAt(d, n, offset, i).features]
             t == [i \in OfChildren(e, m) |-> BuiltAt(e, m, offset, i).features]
             q == Len(C!Children(d, n))
  <2>1. /\ OfChildren(d, n) = 1..q /\ OfChildren(e, m) = 1..q /\ q \in Nat /\ C!At(d, n, offset) = C!At(e, m, offset)
        /\ \A i \in 1..q : C!SubtreeKey(d, Child(d, n, i)) = C!SubtreeKey(e, Child(e, m, i))
    BY <1>1, SameKey, DocumentsAre
  <2> HIDE DEF q
  <2>2. ASSUME NEW i \in 1..q
        PROVE  /\ BuiltAt(d, n, offset, i).features \in Seq(C!NodesOf(d)) /\ BuiltAt(e, m, offset, i).features \in Seq(C!NodesOf(e))
               /\ Match(d, e, BuiltAt(d, n, offset, i).features, BuiltAt(e, m, offset, i).features)
    <3>1. Child(d, n, i) \in C!NodesOf(d) /\ Child(e, m, i) \in C!NodesOf(e) /\ C!At(d, n, offset) \in Nat /\ C!At(e, m, offset) \in Nat
      BY <2>1, ChildIs
    <3>2. Good(Child(d, n, i))
      BY <1>1, <2>1 DEF Child
    <3>3. BuiltAt(d, n, offset, i).ok /\ BuiltAt(e, m, offset, i).ok
      <4>1. BuiltAt(d, n, offset, i).ok
        BY <1>1, <2>1, BuiltIs
      <4> QED BY <2>1, <3>1, <4>1, SameShapes DEF BuiltAt
    <3>4. Match(d, e, BuiltAt(d, n, offset, i).features, BuiltAt(e, m, offset, i).features)
      BY <2>1, <3>1, <3>2, <3>3 DEF BuiltAt
    <3> QED BY <3>1, <3>3, <3>4, FeaturesTyped DEF BuiltAt
  <2>3. /\ s = [i \in 1..q |-> s[i]] /\ t = [i \in 1..q |-> t[i]]
        /\ \A i \in 1..q : s[i] = BuiltAt(d, n, offset, i).features /\ t[i] = BuiltAt(e, m, offset, i).features
    BY <2>1
  <2>4. /\ BuiltTo(d, n, offset).features = C!FlattenSeq(s) \o Own(d, n)
        /\ BuiltTo(e, m, offset).features = C!FlattenSeq(t) \o Own(e, m)
    <3>1. BuiltTo(e, m, offset).ok
      BY <1>1, SameShapes
    <3> QED BY <1>1, <3>1, BuiltIs
  <2> HIDE DEF s, t
  <2>5. /\ C!FlattenSeq(s) \in Seq(C!NodesOf(d)) /\ C!FlattenSeq(t) \in Seq(C!NodesOf(e))
        /\ Match(d, e, C!FlattenSeq(s), C!FlattenSeq(t))
    BY <2>1, <2>2, <2>3, MatchJoined
  <2>6. Own(d, n) \in Seq(C!NodesOf(d)) /\ Own(e, m) \in Seq(C!NodesOf(e)) /\ Match(d, e, Own(d, n), Own(e, m))
    BY <1>1, SameOwn
  <2> QED BY <2>4, <2>5, <2>6, MatchAfter
<1>2. C!NodesOf(d) \subseteq U
  <2>1. \A n \in C!NodesOf(d) : (\A i \in OfChildren(d, n) : C!Children(d, n)[i] \in U) => n \in U
    BY <1>1
  <2> HIDE DEF U
  <2> QED BY <2>1, NodeByNode
<1> QED BY <1>2

------------------------------------------------------------------------------
(* What is built alike has the same key, where no tool changes its number *)

(* The key of a trim has its tool's number: one that is built alike names its tool by the same. *)
ToolsKeepTheirNumbers ==
    \A d, e \in Documents : \A n \in C!NodesOf(d), m \in C!NodesOf(e) : \A o, p \in Nat :
        /\ BuiltTo(d, n, o).ok /\ BuiltTo(e, m, p).ok /\ BuiltTo(d, n, o).shape = BuiltTo(e, m, p).shape
        /\ C!Op(d, n) = "trim"
        => C!Children(d, n)[2] = C!Children(e, m)[2]

(* A shape tells its key: what was built alike is found under the key it was kept by. *)
LEMMA SameShapeSameKey ==
    ASSUME ToolsKeepTheirNumbers, NEW d \in Documents, NEW e \in Documents
    PROVE  \A n \in C!NodesOf(d), m \in C!NodesOf(e), o, p \in Nat :
               /\ BuiltTo(d, n, o).ok /\ BuiltTo(e, m, p).ok
               /\ BuiltTo(d, n, o).shape = BuiltTo(e, m, p).shape
               => o = p /\ C!SubtreeKey(d, n) = C!SubtreeKey(e, m)
<1> DEFINE Good(n) ==
               \A m \in C!NodesOf(e), o, p \in Nat :
                   /\ BuiltTo(d, n, o).ok /\ BuiltTo(e, m, p).ok
                   /\ BuiltTo(d, n, o).shape = BuiltTo(e, m, p).shape
                   => o = p /\ C!SubtreeKey(d, n) = C!SubtreeKey(e, m)
           U == {n \in C!NodesOf(d) : Good(n)}
<1>1. ASSUME NEW n \in C!NodesOf(d), \A i \in OfChildren(d, n) : C!Children(d, n)[i] \in U,
             NEW m \in C!NodesOf(e), NEW o \in Nat, NEW p \in Nat, BuiltTo(d, n, o).ok, BuiltTo(e, m, p).ok,
             BuiltTo(d, n, o).shape = BuiltTo(e, m, p).shape
      PROVE  o = p /\ C!SubtreeKey(d, n) = C!SubtreeKey(e, m)
  <2> DEFINE s == [i \in OfChildren(d, n) |-> BuiltAt(d, n, o, i).shape]
             t == [i \in OfChildren(e, m) |-> BuiltAt(e, m, p, i).shape]
             x == [i \in OfChildren(d, n) |-> C!SubtreeKey(d, Child(d, n, i))]
             y == [i \in OfChildren(e, m) |-> C!SubtreeKey(e, Child(e, m, i))]
  <2>1. BuiltTo(d, n, o).shape = <<C!Op(d, n), o, s>> /\ BuiltTo(e, m, p).shape = <<C!Op(e, m), p, t>>
    BY <1>1, BuiltIs
  <2>2. /\ DOMAIN s = OfChildren(d, n) /\ \A i \in OfChildren(d, n) : s[i] = BuiltAt(d, n, o, i).shape
        /\ DOMAIN t = OfChildren(e, m) /\ \A i \in OfChildren(e, m) : t[i] = BuiltAt(e, m, p, i).shape
    OBVIOUS
  <2> HIDE DEF s, t
  <2>3. C!Op(d, n) = C!Op(e, m) /\ o = p /\ s = t
    <3>1. \A a, b, c, u, v, w : <<a, b, c>> = <<u, v, w>> => a = u /\ b = v /\ c = w
      OBVIOUS
    <3>2. <<C!Op(d, n), o, s>> = <<C!Op(e, m), p, t>>
      BY <1>1, <2>1
    <3> QED BY <3>1, <3>2
  <2>4. OfChildren(d, n) = OfChildren(e, m)
    BY <2>2, <2>3
  <2>5. ASSUME NEW i \in OfChildren(d, n) PROVE C!SubtreeKey(d, Child(d, n, i)) = C!SubtreeKey(e, Child(e, m, i))
    <3>1. Child(d, n, i) \in C!NodesOf(d) /\ Child(e, m, i) \in C!NodesOf(e) /\ C!At(d, n, o) \in Nat /\ C!At(e, m, p) \in Nat
      BY <2>4, ChildIs
    <3>2. BuiltAt(d, n, o, i).ok /\ BuiltAt(e, m, p, i).ok /\ BuiltAt(d, n, o, i).shape = BuiltAt(e, m, p, i).shape
      BY <1>1, <2>2, <2>3, <2>4, BuiltIs
    <3>3. Good(Child(d, n, i))
      BY <1>1 DEF Child
    <3> QED BY <3>1, <3>2, <3>3 DEF BuiltAt
  <2>6. x = y
    BY <2>4, <2>5
  <2>7. C!Blanked(d, n) = C!Blanked(e, m)
    <3>1. C!Op(d, n) = "trim" => C!Children(d, n)[2] = C!Children(e, m)[2]
      BY <1>1 DEF ToolsKeepTheirNumbers
    <3> QED BY <2>3, <3>1 DEF C!Blanked
  <2>8. C!SubtreeKey(d, n) = <<C!Blanked(d, n), x>> /\ C!SubtreeKey(e, m) = <<C!Blanked(e, m), y>>
    BY SubtreeIs
  <2> QED BY <2>3, <2>6, <2>7, <2>8
<1>2. C!NodesOf(d) \subseteq U
  <2>1. \A n \in C!NodesOf(d) : (\A i \in OfChildren(d, n) : C!Children(d, n)[i] \in U) => n \in U
    BY <1>1
  <2> HIDE DEF U
  <2> QED BY <2>1, NodeByNode
<1> QED BY <1>2

------------------------------------------------------------------------------
(* Lists of anything *)

IsList(s) == s \in Seq({s[i] : i \in 1..Len(s)})

LEMMA Appended ==
    ASSUME NEW s, IsList(s), NEW b
    PROVE  /\ IsList(Append(s, b)) /\ Len(s) \in Nat /\ Len(Append(s, b)) = Len(s) + 1
           /\ Append(s, b)[Len(s) + 1] = b /\ \A i \in 1..Len(s) : Append(s, b)[i] = s[i]
<1> DEFINE S == {s[i] : i \in 1..Len(s)} \union {b}
           t == Append(s, b)
<1>1. s \in Seq(S) /\ b \in S
  BY DEF IsList
<1> HIDE DEF S
<1>2. /\ t \in Seq(S) /\ Len(s) \in Nat /\ Len(t) = Len(s) + 1
      /\ t[Len(s) + 1] = b /\ \A i \in 1..Len(s) : t[i] = s[i]
  BY <1>1
<1> HIDE DEF t
<1>3. IsList(t)
  <2>1. t \in [1..Len(t) -> S]
    BY <1>2
  <2>2. t \in [1..Len(t) -> {t[i] : i \in 1..Len(t)}] /\ Len(t) \in Nat
    BY <1>2, <2>1
  <2> QED BY <2>2 DEF IsList
<1> QED BY <1>2, <1>3 DEF t

LEMMA ListIs ==
    ASSUME NEW s, IsList(s)
    PROVE  /\ Len(s) \in Nat /\ s = [i \in 1..Len(s) |-> s[i]] /\ DOMAIN s = 1..Len(s)
           /\ s = <<>> <=> Len(s) = 0
           /\ s # <<>> => C!Last(s) = s[Len(s)] /\ Len(s) \in 1..Len(s)
<1> DEFINE S == {s[i] : i \in 1..Len(s)}
<1>1. s \in Seq(S)
  BY DEF IsList
<1> HIDE DEF S
<1> QED BY <1>1 DEF C!Last

LEMMA MadeList ==
    ASSUME NEW m \in Nat, NEW s, s = [i \in 1..m |-> s[i]]
    PROVE  IsList(s) /\ Len(s) = m
<1> DEFINE S == {s[i] : i \in 1..m}
<1>1. s \in [1..m -> S]
  OBVIOUS
<1>2. s \in Seq(S) /\ Len(s) = m
  BY <1>1
<1> QED BY <1>2 DEF IsList

LEMMA Fronted ==
    ASSUME NEW s, IsList(s), s # <<>>
    PROVE  /\ IsList(C!Front(s)) /\ Len(C!Front(s)) = Len(s) - 1 /\ Len(s) - 1 \in Nat
           /\ \A i \in 1..(Len(s) - 1) : C!Front(s)[i] = s[i]
<1>1. Len(s) \in Nat /\ Len(s) # 0
  BY ListIs
<1> DEFINE t == [i \in 1..(Len(s) - 1) |-> s[i]]
<1>2. C!Front(s) = t
  BY <1>1 DEF C!Front, SubSeq
<1>3. Len(s) - 1 \in Nat /\ t = [i \in 1..(Len(s) - 1) |-> t[i]]
  BY <1>1
<1>4. \A i \in 1..(Len(s) - 1) : t[i] = s[i]
  OBVIOUS
<1> HIDE DEF t
<1>5. IsList(t) /\ Len(t) = Len(s) - 1
  BY <1>3, MadeList
<1> QED BY <1>2, <1>3, <1>4, <1>5

LEMMA Updated ==
    ASSUME NEW s, IsList(s), NEW k \in 1..Len(s), NEW v
    PROVE  /\ IsList([s EXCEPT ![k] = v]) /\ Len([s EXCEPT ![k] = v]) = Len(s)
           /\ [s EXCEPT ![k] = v][k] = v
           /\ \A i \in 1..Len(s) : i # k => [s EXCEPT ![k] = v][i] = s[i]
<1>1. Len(s) \in Nat /\ s = [i \in 1..Len(s) |-> s[i]] /\ DOMAIN s = 1..Len(s)
  BY ListIs
<1> DEFINE t == [s EXCEPT ![k] = v]
           n == Len(s)
<1>2. t = [i \in 1..n |-> t[i]] /\ t[k] = v /\ \A i \in 1..n : i # k => t[i] = s[i]
  BY <1>1
<1> HIDE DEF t
<1>3. IsList(t) /\ Len(t) = n
  BY <1>1, <1>2, MadeList
<1> QED BY <1>2, <1>3 DEF t

------------------------------------------------------------------------------
(* What is kept *)

(* The keys of the operands. *)
KeysBelow(d, n, offset) == {C!Key(d, Child(d, n, i), C!At(d, n, offset)) : i \in OfChildren(d, n)}

(* Features that name, one for one, what a build without a cache names. *)
Names(d, n, offset, features) ==
    features \in Seq(IdsOf(d, n)) /\ Match(d, d, features, BuiltTo(d, n, offset).features)

(* An entry is what a build of some node of some document comes to. *)
IsOf(entry, key, d, n, offset) ==
    /\ key = C!Key(d, n, offset) /\ BuiltTo(d, n, offset).ok
    /\ entry.shape = BuiltTo(d, n, offset).shape /\ entry.ids = C!SubtreeIds(d, n)
    /\ Names(d, n, offset, entry.features)
    /\ entry.deps = KeysBelow(d, n, offset)
EntryIs(entry, key) ==
    /\ entry = [shape |-> entry.shape, features |-> entry.features, ids |-> entry.ids, used |-> entry.used, deps |-> entry.deps]
    /\ \E d \in Documents : \E n \in C!NodesOf(d), offset \in Nat : IsOf(entry, key, d, n, offset)

(* A part is used as late as a whole that was made of it, or is about to be. *)
StoreStands(store, pend, now) ==
    \A k \in DOMAIN store :
        /\ EntryIs(store[k], k) /\ store[k].used \in 0..now
        /\ \A dep \in store[k].deps : dep \in DOMAIN store /\ (store[dep].used >= store[k].used \/ dep \in pend)

Done(store, now, s) == \E k \in DOMAIN store : store[k].shape = s /\ store[k].used = now

(* A key tells its subtree and its place. *)
LEMMA KeyIs ==
    ASSUME NEW d, NEW n, NEW e, NEW m, NEW o, NEW p
    PROVE  C!Key(d, n, o) = C!Key(e, m, p) <=> C!SubtreeKey(d, n) = C!SubtreeKey(e, m) /\ o = p
BY DEF C!Key

(* An entry of the key of a node is what a build of that node comes to. *)
LEMMA EntryOf ==
    ASSUME NEW entry, NEW d \in Documents, NEW n \in C!NodesOf(d), NEW offset \in Nat, EntryIs(entry, C!Key(d, n, offset))
    PROVE  /\ BuiltTo(d, n, offset).ok /\ entry.shape = BuiltTo(d, n, offset).shape
           /\ entry.deps = KeysBelow(d, n, offset)
           /\ entry.shape \in Within(d, n, offset)
<1>0. PICK e \in Documents : \E m \in C!NodesOf(e), p \in Nat : IsOf(entry, C!Key(d, n, offset), e, m, p)
  BY DEF EntryIs
<1>1. PICK m \in C!NodesOf(e), p \in Nat : IsOf(entry, C!Key(d, n, offset), e, m, p)
  BY <1>0
<1>2. C!SubtreeKey(d, n) = C!SubtreeKey(e, m) /\ offset = p
  BY <1>1, KeyIs DEF IsOf
<1>3. BuiltTo(d, n, offset).ok /\ entry.shape = BuiltTo(d, n, offset).shape
  <2>1. BuiltTo(e, m, offset).ok /\ entry.shape = BuiltTo(e, m, offset).shape
    BY <1>1, <1>2 DEF IsOf
  <2> QED BY <1>2, <2>1, SameShapes
<1>4. KeysBelow(d, n, offset) = KeysBelow(e, m, offset)
  <2>1. /\ OfChildren(d, n) = OfChildren(e, m) /\ C!At(d, n, offset) = C!At(e, m, offset)
        /\ \A i \in OfChildren(d, n) : C!SubtreeKey(d, Child(d, n, i)) = C!SubtreeKey(e, Child(e, m, i))
    BY <1>2, SameKey
  <2> QED BY <2>1 DEF KeysBelow, C!Key
<1>5. entry.shape \in Within(d, n, offset)
  BY <1>3, WithinIs
<1> QED BY <1>1, <1>2, <1>3, <1>4, <1>5 DEF IsOf

(* What is in use is in use down to its last part. *)
LEMMA UsedThroughout ==
    ASSUME NEW store, NEW now \in Nat, StoreStands(store, {}, now), NEW d \in Documents
    PROVE  \A n \in C!NodesOf(d), offset \in Nat :
               C!Key(d, n, offset) \in DOMAIN store /\ store[C!Key(d, n, offset)].used = now
               => \A s \in Within(d, n, offset) : Done(store, now, s)
<1> DEFINE Good(n) ==
               \A offset \in Nat : C!Key(d, n, offset) \in DOMAIN store /\ store[C!Key(d, n, offset)].used = now
                                   => \A s \in Within(d, n, offset) : Done(store, now, s)
           U == {n \in C!NodesOf(d) : Good(n)}
<1>1. ASSUME NEW n \in C!NodesOf(d), \A i \in OfChildren(d, n) : C!Children(d, n)[i] \in U, NEW offset \in Nat,
             C!Key(d, n, offset) \in DOMAIN store, store[C!Key(d, n, offset)].used = now,
             NEW s \in Within(d, n, offset)
      PROVE  Done(store, now, s)
  <2> DEFINE key == C!Key(d, n, offset)
             entry == store[key]
  <2>1. entry.shape = BuiltTo(d, n, offset).shape /\ entry.deps = KeysBelow(d, n, offset)
    BY <1>1, EntryOf DEF StoreStands
  <2>2. CASE s = BuiltTo(d, n, offset).shape
    BY <1>1, <2>1, <2>2 DEF Done
  <2>3. ASSUME NEW i \in OfChildren(d, n), s \in Within(d, Child(d, n, i), C!At(d, n, offset)) PROVE Done(store, now, s)
    <3> DEFINE below == C!Key(d, Child(d, n, i), C!At(d, n, offset))
    <3>1. below \in entry.deps
      BY <2>1 DEF KeysBelow
    <3>2. below \in DOMAIN store /\ store[below].used >= now /\ store[below].used \in 0..now
      BY <1>1, <3>1 DEF StoreStands
    <3>3. store[below].used = now
      BY <3>2
    <3>4. Good(Child(d, n, i)) /\ C!At(d, n, offset) \in Nat
      BY <1>1, ChildIs DEF Child
    <3> QED BY <2>3, <3>2, <3>3, <3>4
  <2> QED BY <1>1, <2>2, <2>3, WithinIs
<1>2. C!NodesOf(d) \subseteq U
  <2>1. \A n \in C!NodesOf(d) : (\A i \in OfChildren(d, n) : C!Children(d, n)[i] \in U) => n \in U
    BY <1>1
  <2> HIDE DEF U
  <2> QED BY <2>1, NodeByNode
<1> QED BY <1>2

(* A hit, renamed: it names in this document what a build of this document would name. *)
LEMMA Renames ==
    ASSUME NEW entry, NEW d \in Documents, NEW n \in C!NodesOf(d), NEW offset \in Nat, EntryIs(entry, C!Key(d, n, offset))
    PROVE  Names(d, n, offset, C!Renumbered(entry.features, entry.ids, C!SubtreeIds(d, n)))
<1>0. PICK e \in Documents : \E m \in C!NodesOf(e), p \in Nat : IsOf(entry, C!Key(d, n, offset), e, m, p)
  BY DEF EntryIs
<1>1. PICK m \in C!NodesOf(e), p \in Nat : IsOf(entry, C!Key(d, n, offset), e, m, p)
  BY <1>0
<1>2. C!SubtreeKey(e, m) = C!SubtreeKey(d, n) /\ offset = p
  BY <1>1, KeyIs DEF IsOf
<1> DEFINE f == entry.features
           ids == C!SubtreeIds(e, m)
           to == C!SubtreeIds(d, n)
           fresh == BuiltTo(e, m, offset).features
           here == BuiltTo(d, n, offset).features
           New(v) == to[CHOOSE i \in DOMAIN ids : ids[i] = v /\ \A j \in DOMAIN ids : ids[j] = v => j <= i]
           named == C!Renumbered(f, ids, to)
<1>3. entry.ids = ids /\ BuiltTo(e, m, offset).ok /\ f \in Seq(IdsOf(e, m)) /\ Match(e, e, f, fresh)
  BY <1>1, <1>2 DEF IsOf, Names
<1>4. /\ Match(e, d, ids, to) /\ Match(e, d, fresh, here)
      /\ ids \in Seq(C!NodesOf(e)) /\ to \in Seq(C!NodesOf(d))
  BY <1>2, <1>3, SameIds, SameFeatures, IdsAre
<1>5. named = [i \in DOMAIN f |-> New(f[i])]
  BY DEF C!Renumbered
<1> HIDE DEF f, ids, to, fresh, here, named
<1>6. ASSUME NEW v \in IdsOf(e, m) PROVE New(v) \in IdsOf(d, n) /\ C!SubtreeKey(d, New(v)) = C!SubtreeKey(e, v)
  <2> DEFINE At_(i) == ids[i] = v
             I == {i \in 1..Len(ids) : ids[i] = v}
             Latest(i) == ids[i] = v /\ \A j \in DOMAIN ids : ids[j] = v => j <= i
  <2>1. I # {} /\ Len(ids) \in Nat /\ DOMAIN ids = 1..Len(ids)
    BY <1>4, <1>6 DEF IdsOf, ids
  <2>2. \E i \in DOMAIN ids : Latest(i)
    <3>1. {Len(ids) - i : i \in I} \in SUBSET Nat /\ {Len(ids) - i : i \in I} # {}
      BY <2>1
    <3>2. PICK q \in {Len(ids) - i : i \in I} : \A k \in {Len(ids) - i : i \in I} : q <= k
      BY <3>1, SmallestOf
    <3>3. PICK i \in I : q = Len(ids) - i
      BY <3>2
    <3>4. \A j \in I : Len(ids) - i <= Len(ids) - j
      BY <3>2, <3>3
    <3>5. \A j \in DOMAIN ids : ids[j] = v => j <= i
      BY <2>1, <3>4
    <3> QED BY <2>1, <3>5
  <2> DEFINE c == CHOOSE i \in DOMAIN ids : Latest(i)
  <2>3. c \in DOMAIN ids /\ ids[c] = v
    BY <2>2
  <2>4. New(v) = to[c]
    OBVIOUS
  <2> HIDE DEF c
  <2>5. c \in 1..Len(ids) /\ Len(ids) = Len(to) /\ <<ids[c], to[c]>> \in Alike(e, d)
    BY <1>4, <2>1, <2>3 DEF Match
  <2> QED BY <2>3, <2>4, <2>5 DEF Alike, IdsOf, to
<1> HIDE DEF New
<1>7. Len(f) \in Nat /\ DOMAIN f = 1..Len(f) /\ Len(f) = Len(fresh) /\ \A i \in 1..Len(f) : f[i] \in IdsOf(e, m)
  BY <1>3 DEF Match
<1>8. named \in Seq(IdsOf(d, n)) /\ Len(named) = Len(f) /\ \A i \in 1..Len(f) : named[i] = New(f[i])
  <2>1. named \in [1..Len(f) -> IdsOf(d, n)] /\ \A i \in 1..Len(f) : named[i] = New(f[i])
    BY <1>5, <1>6, <1>7
  <2> QED BY <1>7, <2>1
<1>9. ASSUME NEW i \in 1..Len(f) PROVE <<named[i], here[i]>> \in Alike(d, d)
  <2>1. <<f[i], fresh[i]>> \in Alike(e, e) /\ <<fresh[i], here[i]>> \in Alike(e, d)
    BY <1>3, <1>4, <1>7 DEF Match
  <2>2. IdsOf(d, n) \subseteq C!NodesOf(d)
    BY <1>4 DEF IdsOf, to
  <2>3. named[i] \in C!NodesOf(d) /\ C!SubtreeKey(d, named[i]) = C!SubtreeKey(e, f[i])
    BY <1>6, <1>7, <1>8, <2>2
  <2> QED BY <2>1, <2>3 DEF Alike
<1>10. Len(f) = Len(here)
  BY <1>4, <1>7 DEF Match
<1> QED BY <1>3, <1>8, <1>9, <1>10 DEF Names, Match, f, ids, to, fresh, here, named

------------------------------------------------------------------------------
(* The invariant *)

(* What a call returned is what a build without a cache comes to. *)
RightFor(d, n, offset, built) ==
    /\ built.ok = BuiltTo(d, n, offset).ok
    /\ built.ok => built.shape = BuiltTo(d, n, offset).shape /\ Names(d, n, offset, built.features)

(* What went well is in use under its key, or about to be; of what failed, all that was finished. *)
InUse(store, pend, now, d, n, offset, built) ==
    IF built.ok THEN /\ C!Key(d, n, offset) \in DOMAIN store
                     /\ store[C!Key(d, n, offset)].used = now \/ C!Key(d, n, offset) \in pend
    ELSE \A s \in Within(d, n, offset) : Done(store, now, s)
Stands(store, pend, now, d, n, offset, built) == RightFor(d, n, offset, built) /\ InUse(store, pend, now, d, n, offset, built)

(* A call under way has what its first operands came to. *)
KeysMade(d, frame) ==
    {C!Key(d, Child(d, frame.node, i), C!At(d, frame.node, frame.offset)) : i \in {j \in 1..Len(frame.made) : frame.made[j].ok}}
FrameStands(store, pend, now, docs, d, frame) ==
    /\ frame = [node |-> frame.node, offset |-> frame.offset, made |-> frame.made, deps |-> frame.deps]
    /\ frame.node \in C!NodesOf(d) /\ frame.offset \in Nat /\ IsList(frame.made)
    /\ Len(frame.made) <= Len(C!Children(d, frame.node))
    /\ \A i \in 1..Len(frame.made) :
           /\ Stands(store, pend, now, d, Child(d, frame.node, i), C!At(d, frame.node, frame.offset), frame.made[i])
           /\ i < Len(frame.made) => frame.made[i].ok
    /\ frame.deps = KeysMade(d, frame)
    /\ Within(d, frame.node, frame.offset) \subseteq C!Finished(docs)

(* One call is of the root, or of the next operand of the call below it. *)
NextOf(d, frame, n, offset) ==
    /\ ~C!Enough(frame.made, C!Children(d, frame.node))
    /\ n = Child(d, frame.node, Len(frame.made) + 1) /\ offset = C!At(d, frame.node, frame.offset)
CalledBy(d, frames, n, offset) ==
    IF frames = <<>> THEN n = d.root /\ offset = 0 ELSE NextOf(d, frames[Len(frames)], n, offset)
WorkStands(store, pend, now, docs, d, frames) ==
    /\ IsList(frames)
    /\ \A i \in 1..Len(frames) : FrameStands(store, pend, now, docs, d, frames[i])
    /\ Len(frames) # 0 => frames[1].node = d.root /\ frames[1].offset = 0
    /\ \A i \in 1..Len(frames) : i < Len(frames) => NextOf(d, frames[i], frames[i + 1].node, frames[i + 1].offset)

(* What was answered is right; all of it but the last went well. *)
AnswerStands(store, pend, now, docs, given) ==
    /\ IsList(given) /\ Len(given) <= Len(docs)
    /\ \A i \in 1..Len(given) :
           /\ Stands(store, pend, now, docs[i], docs[i].root, 0, given[i])
           /\ i < Len(given) => given[i].ok

PendingStands(store, pend, docs) ==
    \A k \in pend :
        /\ k \in DOMAIN store
        /\ \E d \in Documents : \E n \in C!NodesOf(d), offset \in Nat :
               k = C!Key(d, n, offset) /\ Within(d, n, offset) \subseteq C!Finished(docs)

(* What the cache keeps was finished by one of the last two requests, and all they finished is kept. *)
KeptFrom(store, last, time) ==
    \A k \in DOMAIN store : \E j \in DOMAIN last : store[k].used + j = time /\ store[k].shape \in C!Finished(last[j])
KeptAll(store, last, time) ==
    \A j \in DOMAIN last : \A s \in C!Finished(last[j]) :
        \E k \in DOMAIN store : store[k].shape = s /\ store[k].used + j >= time

(* An entry in use was finished by this request; the others are as they were kept. *)
UsedFrom(store, old, docs, now, uncached) ==
    \A k \in DOMAIN store :
        \/ store[k].used = now /\ store[k].shape \in C!Finished(docs)
        \/ ~uncached /\ k \in DOMAIN old /\ store[k].used = old[k].used /\ store[k].shape = old[k].shape

(* What the variables hold between requests and within one. *)
Typed ==
    /\ asked \in Requests \union {C!Nothing}
    /\ generation \in 0..MaxBuilds
    /\ recent \in Seq(Seq(Documents)) /\ Len(recent) <= 2

(* The cache holds what the last two requests finished, all of it and nothing else. *)
Kept ==
    /\ StoreStands(cache, {}, generation)
    /\ KeptFrom(cache, recent, generation) /\ KeptAll(cache, recent, generation)
Idle == ~C!Busy => entries = <<>> /\ work = <<>> /\ pending = {} /\ answer = <<>> /\ rebuilt = {}

(* A request under way. *)
Serving ==
    C!Busy =>
        /\ ~asked.uncached => generation < MaxBuilds
        /\ StoreStands(entries, pending, C!Now)
        /\ UsedFrom(entries, cache, asked.docs, C!Now, asked.uncached)
        /\ ~asked.uncached => KeptAll(entries, recent, generation)
        /\ PendingStands(entries, pending, asked.docs)
        /\ AnswerStands(entries, pending, C!Now, asked.docs, answer)
        /\ work # <<>> => ~C!Enough(answer, asked.docs)
        /\ WorkStands(entries, pending, C!Now, asked.docs, C!Doc, work)
CacheInv == Typed /\ Kept /\ Idle /\ Serving

------------------------------------------------------------------------------
(* Requests *)

(* A request is of documents, and of at least one. *)
LEMMA RequestIs ==
    ASSUME Typed
    PROVE  /\ C!Busy => /\ asked \in Requests /\ asked.docs \in Seq(Documents) /\ asked.docs # <<>>
                      /\ Len(asked.docs) \in Nat \ {0} /\ asked.uncached \in BOOLEAN
                      /\ \A i \in 1..Len(asked.docs) : asked.docs[i] \in Documents
           /\ C!Now \in Nat /\ (~C!Busy => C!Now = generation) /\ (~asked.uncached => C!Now = generation)
           /\ MaxBuilds \in Nat /\ generation \in Nat
<1>1. MaxBuilds \in Nat /\ generation \in Nat
  BY CacheAssumption DEF Typed
<1>2. ASSUME C!Busy
      PROVE  /\ asked \in Requests /\ asked.docs \in Seq(Documents) /\ asked.docs # <<>>
             /\ Len(asked.docs) \in Nat \ {0} /\ asked.uncached \in BOOLEAN
             /\ \A i \in 1..Len(asked.docs) : asked.docs[i] \in Documents
  <2>1. asked \in Requests
    BY <1>2 DEF Typed, C!Busy
  <2>2. asked \in [docs : Seq(Documents) \ {<<>>}, uncached : BOOLEAN]
    BY <2>1, CacheAssumption
  <2> DEFINE s == asked.docs
  <2>3. s \in Seq(Documents) /\ s # <<>> /\ asked.uncached \in BOOLEAN
    BY <2>2
  <2> HIDE DEF s
  <2>4. Len(s) \in Nat \ {0} /\ \A i \in 1..Len(s) : s[i] \in Documents
    BY <2>3
  <2> QED BY <2>1, <2>3, <2>4 DEF s
<1>3. C!Now \in Nat /\ (~C!Busy => C!Now = generation) /\ (~asked.uncached => C!Now = generation)
  BY <1>1 DEF C!Now, C!Busy, C!Nothing
<1> QED BY <1>1, <1>2, <1>3

LEMMA FinishedIs ==
    ASSUME NEW docs \in Seq(Documents), NEW s
    PROVE  s \in C!Finished(docs)
           <=> \E i \in 1..Len(docs) : /\ \A k \in 1..(i - 1) : BuiltTo(docs[k], docs[k].root, 0).ok
                                       /\ s \in Within(docs[i], docs[i].root, 0)
<1>1. DOMAIN docs = 1..Len(docs)
  OBVIOUS
<1> DEFINE I == {j \in DOMAIN docs : \A k \in 1..(j - 1) : C!Reference(docs[k]).ok}
<1>2. C!Finished(docs) = UNION {Within(docs[i], docs[i].root, 0) : i \in I}
  BY Zenon DEF C!Finished, Within
<1>3. \A i : i \in I <=> i \in 1..Len(docs) /\ \A k \in 1..(i - 1) : BuiltTo(docs[k], docs[k].root, 0).ok
  BY <1>1 DEF C!Reference, BuiltTo
<1> HIDE DEF I
<1>4. s \in UNION {Within(docs[i], docs[i].root, 0) : i \in I} <=> \E i \in I : s \in Within(docs[i], docs[i].root, 0)
  OBVIOUS
<1> QED BY <1>2, <1>3, <1>4

(* As long as an answer is not enough, all of it went well. *)
LEMMA NotEnough ==
    ASSUME NEW made, IsList(made), NEW whole, Len(whole) \in Nat, Len(made) <= Len(whole), ~C!Enough(made, whole),
           \A i \in 1..Len(made) : made[i].ok \in BOOLEAN /\ (i < Len(made) => made[i].ok)
    PROVE  /\ Len(made) < Len(whole) /\ Len(made) + 1 \in 1..Len(whole)
           /\ \A i \in 1..Len(made) : made[i].ok
<1>1. Len(made) \in Nat /\ (made = <<>> <=> Len(made) = 0)
  BY ListIs
<1>2. Len(made) # Len(whole) /\ (Len(made) # 0 => made[Len(made)].ok)
  <2>1. made # <<>> => C!Last(made) = made[Len(made)]
    BY ListIs
  <2> QED BY <1>1, <2>1 DEF C!Enough
<1>3. \A i \in 1..Len(made) : made[i].ok
  <2> TAKE i \in 1..Len(made)
  <2>1. CASE i = Len(made)
    BY <1>1, <1>2, <2>1
  <2>2. CASE i # Len(made)
    <3>1. i < Len(made)
      BY <1>1, <2>2
    <3> QED BY <3>1
  <2> QED BY <2>1, <2>2
<1> QED BY <1>1, <1>2, <1>3

LEMMA IsEnough ==
    ASSUME NEW made, IsList(made), NEW whole, C!Enough(made, whole)
    PROVE  Len(made) = Len(whole) \/ (Len(made) \in 1..Len(made) /\ ~made[Len(made)].ok)
BY ListIs DEF C!Enough

LEMMA RightBoolean ==
    ASSUME NEW d \in Documents, NEW n \in C!NodesOf(d), NEW offset \in Nat, NEW built, RightFor(d, n, offset, built)
    PROVE  built.ok \in BOOLEAN
BY BuiltIs DEF RightFor

(* The document that is built, and what is called for it. *)
LEMMA DocIs ==
    ASSUME CacheInv, C!Busy, ~C!Enough(answer, asked.docs)
    PROVE  /\ C!Doc \in Documents /\ Len(answer) + 1 \in 1..Len(asked.docs) /\ IsList(answer)
           /\ C!Doc.root \in C!NodesOf(C!Doc)
           /\ Within(C!Doc, C!Doc.root, 0) \subseteq C!Finished(asked.docs)
           /\ \A i \in 1..Len(answer) : answer[i].ok
<1>1. AnswerStands(entries, pending, C!Now, asked.docs, answer)
  BY DEF CacheInv, Serving
<1>2. /\ asked.docs \in Seq(Documents) /\ Len(asked.docs) \in Nat
      /\ \A i \in 1..Len(asked.docs) : asked.docs[i] \in Documents
  BY RequestIs DEF CacheInv
<1>3. IsList(answer) /\ Len(answer) <= Len(asked.docs) /\ Len(answer) \in Nat
  BY <1>1, ListIs DEF AnswerStands
<1>4. ASSUME NEW i \in 1..Len(answer)
      PROVE  /\ answer[i].ok \in BOOLEAN /\ (i < Len(answer) => answer[i].ok)
             /\ answer[i].ok = BuiltTo(asked.docs[i], asked.docs[i].root, 0).ok
  <2>1. asked.docs[i] \in Documents /\ asked.docs[i].root \in C!NodesOf(asked.docs[i])
    BY <1>2, <1>3, DocumentsAre
  <2>2. RightFor(asked.docs[i], asked.docs[i].root, 0, answer[i]) /\ (i < Len(answer) => answer[i].ok)
    BY <1>1 DEF AnswerStands, Stands
  <2> QED BY <2>1, <2>2, RightBoolean DEF RightFor
<1>5. Len(answer) + 1 \in 1..Len(asked.docs) /\ \A i \in 1..Len(answer) : answer[i].ok
  BY <1>2, <1>3, <1>4, NotEnough
<1>6. C!Doc \in Documents
  BY <1>2, <1>5 DEF C!Doc
<1>7. ASSUME NEW s \in Within(C!Doc, C!Doc.root, 0) PROVE s \in C!Finished(asked.docs)
  <2> DEFINE q == Len(answer) + 1
  <2>1. q \in 1..Len(asked.docs) /\ \A k \in 1..(q - 1) : BuiltTo(asked.docs[k], asked.docs[k].root, 0).ok
    BY <1>3, <1>4, <1>5
  <2>2. s \in Within(asked.docs[q], asked.docs[q].root, 0)
    BY <1>7 DEF C!Doc
  <2> HIDE DEF q
  <2> QED BY <1>2, <2>1, <2>2, FinishedIs
<1> QED BY <1>3, <1>5, <1>6, <1>7, DocumentsAre

LEMMA FrameMade ==
    ASSUME NEW store, NEW pend, NEW now, NEW docs, NEW d \in Documents, NEW frame, FrameStands(store, pend, now, docs, d, frame)
    PROVE  /\ frame.node \in C!NodesOf(d) /\ frame.offset \in Nat /\ C!At(d, frame.node, frame.offset) \in Nat
           /\ IsList(frame.made) /\ Len(frame.made) \in Nat
           /\ Len(C!Children(d, frame.node)) \in Nat /\ OfChildren(d, frame.node) = 1..Len(C!Children(d, frame.node))
           /\ Len(frame.made) <= Len(C!Children(d, frame.node))
           /\ \A i \in 1..Len(frame.made) :
                  /\ i \in OfChildren(d, frame.node) /\ Child(d, frame.node, i) \in C!NodesOf(d)
                  /\ frame.made[i].ok \in BOOLEAN
                  /\ (i < Len(frame.made) => frame.made[i].ok)
                  /\ frame.made[i].ok = BuiltAt(d, frame.node, frame.offset, i).ok
<1>1. /\ frame.node \in C!NodesOf(d) /\ frame.offset \in Nat /\ IsList(frame.made)
      /\ Len(frame.made) <= Len(C!Children(d, frame.node))
      /\ \A i \in 1..Len(frame.made) :
             /\ RightFor(d, Child(d, frame.node, i), C!At(d, frame.node, frame.offset), frame.made[i])
             /\ i < Len(frame.made) => frame.made[i].ok
  BY DEF FrameStands, Stands
<1>2. /\ Len(frame.made) \in Nat /\ C!At(d, frame.node, frame.offset) \in Nat
      /\ Len(C!Children(d, frame.node)) \in Nat /\ OfChildren(d, frame.node) = 1..Len(C!Children(d, frame.node))
  BY <1>1, ListIs, AtNumber, DocumentsAre
<1>3. ASSUME NEW i \in 1..Len(frame.made)
      PROVE  /\ i \in OfChildren(d, frame.node) /\ Child(d, frame.node, i) \in C!NodesOf(d)
             /\ frame.made[i].ok \in BOOLEAN
             /\ (i < Len(frame.made) => frame.made[i].ok)
             /\ frame.made[i].ok = BuiltAt(d, frame.node, frame.offset, i).ok
  <2>1. i \in OfChildren(d, frame.node)
    BY <1>1, <1>2
  <2>2. Child(d, frame.node, i) \in C!NodesOf(d)
    BY <1>1, <2>1, ChildIs
  <2> QED BY <1>1, <1>2, <2>1, <2>2, RightBoolean DEF RightFor, BuiltAt
<1> QED BY <1>1, <1>2, <1>3

(* The operand that a call comes to next is one its build reaches. *)
LEMMA NextIs ==
    ASSUME NEW store, NEW pend, NEW now, NEW docs, NEW d \in Documents, NEW frame, FrameStands(store, pend, now, docs, d, frame),
           NEW n, NEW offset, NextOf(d, frame, n, offset)
    PROVE  /\ Len(frame.made) + 1 \in OfChildren(d, frame.node)
           /\ \A i \in 1..Len(frame.made) : frame.made[i].ok
           /\ n \in C!NodesOf(d) /\ offset \in Nat /\ Within(d, n, offset) \subseteq C!Finished(docs)
<1>0. /\ frame.node \in C!NodesOf(d) /\ frame.offset \in Nat /\ C!At(d, frame.node, frame.offset) \in Nat
      /\ IsList(frame.made) /\ Len(frame.made) \in Nat
      /\ Len(C!Children(d, frame.node)) \in Nat /\ OfChildren(d, frame.node) = 1..Len(C!Children(d, frame.node))
      /\ Len(frame.made) <= Len(C!Children(d, frame.node))
      /\ \A i \in 1..Len(frame.made) : frame.made[i].ok \in BOOLEAN /\ (i < Len(frame.made) => frame.made[i].ok)
      /\ \A i \in 1..Len(frame.made) : frame.made[i].ok = BuiltAt(d, frame.node, frame.offset, i).ok
  BY FrameMade
<1> DEFINE q == Len(frame.made) + 1
<1>1. /\ q \in 1..Len(C!Children(d, frame.node))
      /\ \A i \in 1..Len(frame.made) : frame.made[i].ok
  BY <1>0, NotEnough DEF NextOf
<1>2. Reached(d, frame.node, frame.offset, q)
  <2>1. \A k \in 1..(q - 1) : BuiltAt(d, frame.node, frame.offset, k).ok
    BY <1>0, <1>1
  <2> HIDE DEF q
  <2> QED BY <1>0, <1>1, <2>1 DEF Reached
<1>3. Within(d, Child(d, frame.node, q), C!At(d, frame.node, frame.offset)) \subseteq Within(d, frame.node, frame.offset)
  BY <1>0, <1>2, WithinParts
<1>4. Within(d, frame.node, frame.offset) \subseteq C!Finished(docs)
  BY DEF FrameStands
<1>5. n = Child(d, frame.node, q) /\ offset = C!At(d, frame.node, frame.offset)
  BY DEF NextOf
<1>6. Child(d, frame.node, q) \in C!NodesOf(d)
  BY <1>0, <1>1, ChildIs
<1> QED BY <1>0, <1>1, <1>3, <1>4, <1>5, <1>6

------------------------------------------------------------------------------
(* What stands goes on standing *)

(* Nothing that was in use falls out of use. *)
Carries(store, pend, now, to, left) ==
    \A k \in DOMAIN store :
        /\ k \in DOMAIN to /\ to[k].shape = store[k].shape
        /\ store[k].used = now => to[k].used = now
        /\ k \in pend => k \in left \/ to[k].used = now

(* What stands in a store stands in one that carries it on. *)
LEMMA StandsOn ==
    ASSUME NEW store, NEW pend, NEW now, NEW to, NEW left, Carries(store, pend, now, to, left),
           NEW d, NEW n, NEW offset, NEW built, Stands(store, pend, now, d, n, offset, built)
    PROVE  Stands(to, left, now, d, n, offset, built)
<1>1. ASSUME NEW s, Done(store, now, s) PROVE Done(to, now, s)
  BY <1>1 DEF Done, Carries
<1>2. InUse(to, left, now, d, n, offset, built)
  BY <1>1 DEF Stands, InUse, Carries
<1> QED BY <1>2 DEF Stands

LEMMA FrameStandsOn ==
    ASSUME NEW store, NEW pend, NEW now, NEW to, NEW left, Carries(store, pend, now, to, left),
           NEW docs, NEW d, NEW frame, FrameStands(store, pend, now, docs, d, frame)
    PROVE  FrameStands(to, left, now, docs, d, frame)
BY StandsOn DEF FrameStands

LEMMA WorkStandsOn ==
    ASSUME NEW store, NEW pend, NEW now, NEW to, NEW left, Carries(store, pend, now, to, left),
           NEW docs, NEW d, NEW frames, WorkStands(store, pend, now, docs, d, frames)
    PROVE  WorkStands(to, left, now, docs, d, frames)
BY FrameStandsOn DEF WorkStands

LEMMA AnswerStandsOn ==
    ASSUME NEW store, NEW pend, NEW now, NEW to, NEW left, Carries(store, pend, now, to, left),
           NEW docs, NEW given, AnswerStands(store, pend, now, docs, given)
    PROVE  AnswerStands(to, left, now, docs, given)
BY StandsOn DEF AnswerStands

(* The calls around the innermost one. *)
LEMMA WorkAround ==
    ASSUME NEW store, NEW pend, NEW now, NEW docs, NEW d, NEW frames, WorkStands(store, pend, now, docs, d, frames), frames # <<>>
    PROVE  /\ WorkStands(store, pend, now, docs, d, C!Front(frames))
           /\ CalledBy(d, C!Front(frames), frames[Len(frames)].node, frames[Len(frames)].offset)
           /\ C!Last(frames) = frames[Len(frames)] /\ FrameStands(store, pend, now, docs, d, C!Last(frames))
<1> DEFINE around == C!Front(frames)
           q == Len(frames)
<1>1. /\ IsList(frames) /\ q \in Nat \ {0} /\ C!Last(frames) = frames[q] /\ q \in 1..q
  BY ListIs DEF WorkStands
<1>2. /\ IsList(around) /\ Len(around) = q - 1 /\ q - 1 \in Nat /\ \A i \in 1..(q - 1) : around[i] = frames[i]
  BY <1>1, Fronted
<1>3. around = <<>> <=> q - 1 = 0
  BY <1>2, ListIs
<1> HIDE DEF around
<1>4. WorkStands(store, pend, now, docs, d, around)
  <2>1. \A i \in 1..Len(around) : FrameStands(store, pend, now, docs, d, around[i])
    BY <1>1, <1>2 DEF WorkStands
  <2>2. Len(around) # 0 => around[1].node = d.root /\ around[1].offset = 0
    BY <1>1, <1>2 DEF WorkStands
  <2>3. ASSUME NEW i \in 1..Len(around), i < Len(around) PROVE NextOf(d, around[i], around[i + 1].node, around[i + 1].offset)
    <3>1. i \in 1..(q - 1) /\ i + 1 \in 1..(q - 1) /\ i \in 1..q /\ i < q
      BY <1>1, <1>2, <2>3
    <3> QED BY <1>2, <3>1 DEF WorkStands
  <2> QED BY <1>2, <2>1, <2>2, <2>3 DEF WorkStands
<1>5. CalledBy(d, around, frames[q].node, frames[q].offset)
  <2>1. CASE q = 1
    <3>1. around = <<>> /\ frames[1].node = d.root /\ frames[1].offset = 0
      BY <1>1, <1>2, <1>3, <2>1 DEF WorkStands
    <3> QED BY <2>1, <3>1 DEF CalledBy
  <2>2. CASE q # 1
    <3>1. around # <<>> /\ q - 1 \in 1..q /\ q - 1 < q /\ (q - 1) + 1 = q /\ around[Len(around)] = frames[q - 1]
      BY <1>1, <1>2, <1>3, <2>2
    <3>2. NextOf(d, frames[q - 1], frames[q].node, frames[q].offset)
      BY <3>1 DEF WorkStands
    <3> QED BY <3>1, <3>2 DEF CalledBy
  <2> QED BY <2>1, <2>2
<1>6. FrameStands(store, pend, now, docs, d, C!Last(frames))
  BY <1>1 DEF WorkStands
<1> QED BY <1>1, <1>4, <1>5, <1>6 DEF around

(* The key of a frame is that of its node in the document that is built. *)
LEMMA FrameKeyIs ==
    ASSUME NEW frame
    PROVE  C!FrameKey(frame) = C!Key(C!Doc, frame.node, frame.offset)
BY DEF C!FrameKey, C!Indexed

(* The call that comes next is of a node that the builds come to. *)
LEMMA CalledIs ==
    ASSUME CacheInv, C!Busy, C!Calls
    PROVE  /\ ~C!Enough(answer, asked.docs) /\ C!Doc \in Documents
           /\ C!Called = [node |-> C!Called.node, offset |-> C!Called.offset, made |-> <<>>, deps |-> {}]
           /\ C!Called.node \in C!NodesOf(C!Doc) /\ C!Called.offset \in Nat
           /\ Within(C!Doc, C!Called.node, C!Called.offset) \subseteq C!Finished(asked.docs)
           /\ CalledBy(C!Doc, work, C!Called.node, C!Called.offset)
<1>1. /\ work # <<>> => ~C!Enough(answer, asked.docs)
      /\ WorkStands(entries, pending, C!Now, asked.docs, C!Doc, work)
  BY DEF CacheInv, Serving
<1>2. ~C!Enough(answer, asked.docs)
  BY <1>1 DEF C!Calls
<1>3. C!Doc \in Documents /\ C!Doc.root \in C!NodesOf(C!Doc) /\ Within(C!Doc, C!Doc.root, 0) \subseteq C!Finished(asked.docs)
  BY <1>2, DocIs
<1>4. CASE work = <<>>
  <2>1. C!Called = C!Frame(C!Doc.root, 0)
    BY <1>4 DEF C!Called
  <2>2. C!Called = [node |-> C!Called.node, offset |-> C!Called.offset, made |-> <<>>, deps |-> {}]
        /\ C!Called.node = C!Doc.root /\ C!Called.offset = 0
    BY <2>1 DEF C!Frame
  <2> QED BY <1>2, <1>3, <1>4, <2>2 DEF CalledBy
<1>5. CASE work # <<>>
  <2> DEFINE top == work[Len(work)]
  <2>1. C!Last(work) = top /\ FrameStands(entries, pending, C!Now, asked.docs, C!Doc, top)
    BY <1>1, <1>5, WorkAround
  <2>2. ~C!Enough(top.made, C!Children(C!Doc, top.node))
    BY <1>5, <2>1 DEF C!Calls, C!Complete, C!Top
  <2> DEFINE n == Child(C!Doc, top.node, Len(top.made) + 1)
             offset == C!At(C!Doc, top.node, top.offset)
  <2>3. C!Called = C!Frame(n, offset)
    BY <1>5, <2>1 DEF C!Called, C!Top, Child
  <2>4. NextOf(C!Doc, top, n, offset)
    BY <2>2 DEF NextOf
  <2>5. n \in C!NodesOf(C!Doc) /\ offset \in Nat /\ Within(C!Doc, n, offset) \subseteq C!Finished(asked.docs)
    BY <1>3, <2>1, <2>4, NextIs
  <2> HIDE DEF n, offset, top
  <2>6. C!Called = [node |-> C!Called.node, offset |-> C!Called.offset, made |-> <<>>, deps |-> {}]
        /\ C!Called.node = n /\ C!Called.offset = offset
    BY <2>3 DEF C!Frame
  <2>7. CalledBy(C!Doc, work, n, offset)
    BY <1>5, <2>4 DEF CalledBy, top
  <2> QED BY <1>2, <1>3, <2>5, <2>6, <2>7
<1> QED BY <1>4, <1>5

(* A call that was made returns what is right: the frame that called has one more of its operands. *)
LEMMA FrameReturned ==
    ASSUME NEW store, NEW pend, NEW now, NEW docs, NEW d \in Documents, NEW frame, FrameStands(store, pend, now, docs, d, frame),
           NEW n \in C!NodesOf(d), NEW offset \in Nat, NextOf(d, frame, n, offset),
           NEW built, Stands(store, pend, now, d, n, offset, built),
           NEW deps, deps = (IF built.ok THEN frame.deps \union {C!Key(d, n, offset)} ELSE frame.deps),
           NEW new, new = [node |-> frame.node, offset |-> frame.offset, made |-> Append(frame.made, built), deps |-> deps]
    PROVE  FrameStands(store, pend, now, docs, d, new) /\ new.node = frame.node /\ new.offset = frame.offset
<1> DEFINE made == frame.made
           q == Len(made) + 1
           more == Append(made, built)
<1>1. frame = [node |-> frame.node, offset |-> frame.offset, made |-> frame.made, deps |-> frame.deps]
  BY DEF FrameStands
<1>2. /\ new = [node |-> new.node, offset |-> new.offset, made |-> new.made, deps |-> new.deps]
      /\ new.node = frame.node /\ new.offset = frame.offset /\ new.made = more
      /\ new.deps = IF built.ok THEN frame.deps \union {C!Key(d, n, offset)} ELSE frame.deps
  BY <1>1
<1>3. /\ frame.node \in C!NodesOf(d) /\ frame.offset \in Nat /\ IsList(made) /\ Len(made) \in Nat
      /\ OfChildren(d, frame.node) = 1..Len(C!Children(d, frame.node)) /\ Len(C!Children(d, frame.node)) \in Nat
  BY DocumentsAre, ListIs DEF FrameStands
<1>4. /\ q \in OfChildren(d, frame.node) /\ \A i \in 1..Len(made) : made[i].ok
      /\ n = Child(d, frame.node, q) /\ offset = C!At(d, frame.node, frame.offset)
  BY NextIs DEF NextOf
<1>5. /\ IsList(more) /\ Len(more) = q /\ more[q] = built /\ \A i \in 1..Len(made) : more[i] = made[i]
  BY <1>3, Appended
<1> HIDE DEF more
<1>6. ASSUME NEW i \in 1..q
      PROVE  /\ Stands(store, pend, now, d, Child(d, frame.node, i), C!At(d, frame.node, frame.offset), more[i])
             /\ i < q => more[i].ok
  <2>1. CASE i = q
    BY <1>3, <1>4, <1>5, <2>1
  <2>2. CASE i # q
    <3>1. i \in 1..Len(made) /\ more[i] = made[i]
      BY <1>3, <1>5, <2>2
    <3>2. Stands(store, pend, now, d, Child(d, frame.node, i), C!At(d, frame.node, frame.offset), made[i])
      BY <3>1 DEF FrameStands
    <3> QED BY <1>4, <3>1, <3>2
  <2> QED BY <2>1, <2>2
<1>7. new.deps = KeysMade(d, new)
  <2> DEFINE key(i) == C!Key(d, Child(d, frame.node, i), C!At(d, frame.node, frame.offset))
  <2>1. frame.deps = {key(i) : i \in 1..Len(made)}
    <3>1. {j \in 1..Len(made) : made[j].ok} = 1..Len(made)
      BY <1>4
    <3> QED BY <3>1 DEF FrameStands, KeysMade
  <2>2. KeysMade(d, new) = {key(i) : i \in {j \in 1..q : more[j].ok}}
    BY <1>2, <1>5 DEF KeysMade
  <2>3. \A j \in 1..q : more[j].ok <=> j \in 1..Len(made) \/ (j = q /\ built.ok)
    <3> TAKE j \in 1..q
    <3>1. CASE j = q
      BY <1>3, <1>5, <3>1
    <3>2. CASE j # q
      <4>1. j \in 1..Len(made)
        BY <1>3, <3>2
      <4> QED BY <1>4, <1>5, <4>1
    <3> QED BY <3>1, <3>2
  <2>4. CASE built.ok
    <3>1. {j \in 1..q : more[j].ok} = 1..q /\ 1..q = (1..Len(made)) \union {q}
      BY <1>3, <2>3, <2>4
    <3> HIDE DEF key
    <3>2. {key(i) : i \in 1..q} = {key(i) : i \in 1..Len(made)} \union {key(q)}
      BY <3>1
    <3>3. key(q) = C!Key(d, n, offset)
      BY <1>4 DEF key
    <3> QED BY <1>2, <2>1, <2>2, <2>4, <3>1, <3>2, <3>3
  <2>5. CASE ~built.ok
    <3>1. {j \in 1..q : more[j].ok} = 1..Len(made)
      BY <1>3, <2>3, <2>5
    <3> QED BY <1>2, <2>1, <2>2, <2>5, <3>1
  <2> QED BY <2>4, <2>5
<1>8. Within(d, new.node, new.offset) \subseteq C!Finished(docs)
  BY <1>2 DEF FrameStands
<1>9. Len(more) <= Len(C!Children(d, frame.node))
  BY <1>3, <1>4, <1>5
<1>10. /\ new.node \in C!NodesOf(d) /\ new.offset \in Nat /\ IsList(new.made)
       /\ Len(new.made) <= Len(C!Children(d, new.node))
       /\ \A i \in 1..Len(new.made) :
              /\ Stands(store, pend, now, d, Child(d, new.node, i), C!At(d, new.node, new.offset), new.made[i])
              /\ i < Len(new.made) => new.made[i].ok
  BY <1>2, <1>3, <1>5, <1>6, <1>9
<1> HIDE DEF q
<1> QED BY <1>2, <1>7, <1>8, <1>10 DEF FrameStands

(* A return is right where it is received: by the frame that called, or as an answer. *)
LEMMA Returned ==
    ASSUME CacheInv, C!Busy, ~C!Enough(answer, asked.docs), asked' = asked,
           NEW store, NEW pend, NEW frames,
           WorkStands(store, pend, C!Now, asked.docs, C!Doc, frames), AnswerStands(store, pend, C!Now, asked.docs, answer),
           NEW n \in C!NodesOf(C!Doc), NEW offset \in Nat, CalledBy(C!Doc, frames, n, offset),
           NEW built, Stands(store, pend, C!Now, C!Doc, n, offset, built),
           C!Return(built, C!Key(C!Doc, n, offset), frames)
    PROVE  /\ AnswerStands(store, pend, C!Now, asked.docs, answer')
           /\ work' # <<>> => ~C!Enough(answer', asked.docs)
           /\ WorkStands(store, pend, C!Now, asked.docs, C!Doc', work')
<1>0. /\ C!Doc \in Documents /\ Len(answer) + 1 \in 1..Len(asked.docs) /\ IsList(answer)
      /\ \A i \in 1..Len(answer) : answer[i].ok
  BY DocIs
<1>1. CASE frames = <<>>
  <2>1. work' = <<>> /\ answer' = Append(answer, built) /\ n = C!Doc.root /\ offset = 0
    BY <1>1 DEF C!Return, CalledBy
  <2> DEFINE q == Len(answer) + 1
             more == Append(answer, built)
  <2>2. /\ IsList(more) /\ Len(more) = q /\ more[q] = built /\ Len(answer) \in Nat
        /\ \A i \in 1..Len(answer) : more[i] = answer[i]
    BY <1>0, Appended
  <2> HIDE DEF more
  <2>3. ASSUME NEW i \in 1..q
        PROVE  /\ Stands(store, pend, C!Now, asked.docs[i], asked.docs[i].root, 0, more[i])
               /\ i < q => more[i].ok
    <3>1. CASE i = q
      <4>1. asked.docs[i] = C!Doc
        BY <3>1 DEF C!Doc
      <4> QED BY <2>1, <2>2, <3>1, <4>1
    <3>2. CASE i # q
      <4>1. i \in 1..Len(answer) /\ more[i] = answer[i]
        BY <2>2, <3>2
      <4>2. Stands(store, pend, C!Now, asked.docs[i], asked.docs[i].root, 0, answer[i])
        BY <4>1 DEF AnswerStands
      <4> QED BY <1>0, <4>1, <4>2
    <3> QED BY <3>1, <3>2
  <2>4. AnswerStands(store, pend, C!Now, asked.docs, more)
    <3>1. Len(more) <= Len(asked.docs)
      BY <1>0, <2>2
    <3> HIDE DEF q
    <3> QED BY <2>2, <2>3, <3>1 DEF AnswerStands
  <2>5. \A d : WorkStands(store, pend, C!Now, asked.docs, d, <<>>)
    <3>1. IsList(<<>>) /\ Len(<<>>) = 0
      BY DEF IsList
    <3>2. 1..Len(<<>>) = {}
      BY <3>1
    <3> QED BY <3>1, <3>2 DEF WorkStands
  <2> QED BY <2>1, <2>4, <2>5 DEF more
<1>2. CASE frames # <<>>
  <2> DEFINE q == Len(frames)
             key == C!Key(C!Doc, n, offset)
             top == frames[q]
             new == [frames[q] EXCEPT !.made = Append(@, built), !.deps = IF built.ok THEN @ \union {key} ELSE @]
             to == [frames EXCEPT ![q] = new]
  <2>1. IsList(frames) /\ q \in Nat /\ q \in 1..q /\ DOMAIN frames = 1..q /\ frames = [i \in 1..q |-> frames[i]]
    BY <1>2, ListIs DEF WorkStands
  <2>2. work' = to /\ answer' = answer
    <3> DEFINE w == [frames EXCEPT ![q].made = Append(@, built), ![q].deps = IF built.ok THEN @ \union {key} ELSE @]
    <3>1. work' = w /\ answer' = answer /\ q \in DOMAIN frames
      BY <1>2, <2>1 DEF C!Return
    <3>2. w = to
      <4> HIDE DEF q, key
      <4> QED BY <3>1
    <3> HIDE DEF w, to
    <3> QED BY <3>1, <3>2
  <2>3. FrameStands(store, pend, C!Now, asked.docs, C!Doc, top) /\ NextOf(C!Doc, top, n, offset)
    BY <1>2, <2>1 DEF WorkStands, CalledBy
  <2>4. FrameStands(store, pend, C!Now, asked.docs, C!Doc, new) /\ new.node = top.node /\ new.offset = top.offset
    <3> DEFINE deps == IF built.ok THEN top.deps \union {key} ELSE top.deps
    <3>1. top = [node |-> top.node, offset |-> top.offset, made |-> top.made, deps |-> top.deps]
      BY <2>3 DEF FrameStands
    <3> DEFINE more == Append(top.made, built)
    <3>2. new = [top EXCEPT !.made = more, !.deps = deps]
      OBVIOUS
    <3> HIDE DEF top, new, deps, more
    <3>3. new = [node |-> top.node, offset |-> top.offset, made |-> more, deps |-> deps]
      BY <3>1, <3>2
    <3> USE DEF deps, more
    <3> HIDE DEF key
    <3>4. deps = IF built.ok THEN top.deps \union {C!Key(C!Doc, n, offset)} ELSE top.deps
      BY DEF key
    <3> HIDE DEF deps
    <3> QED BY <1>0, <2>3, <3>3, <3>4, FrameReturned
  <2> HIDE DEF new
  <2>5. IsList(to) /\ Len(to) = q /\ to[q] = new /\ \A i \in 1..q : i # q => to[i] = frames[i]
    BY <2>1, Updated
  <2> HIDE DEF to
  <2>6. \A i \in 1..q : to[i].node = frames[i].node /\ to[i].offset = frames[i].offset
    BY <2>4, <2>5
  <2>7. WorkStands(store, pend, C!Now, asked.docs, C!Doc, to)
    <3>1. \A i \in 1..Len(to) : FrameStands(store, pend, C!Now, asked.docs, C!Doc, to[i])
      <4> TAKE i \in 1..Len(to)
      <4>1. CASE i = q
        BY <2>4, <2>5, <4>1
      <4>2. CASE i # q
        BY <2>5, <4>2 DEF WorkStands
      <4> QED BY <4>1, <4>2
    <3>2. to[1].node = C!Doc.root /\ to[1].offset = 0
      BY <2>1, <2>6 DEF WorkStands
    <3>3. ASSUME NEW i \in 1..Len(to), i < Len(to) PROVE NextOf(C!Doc, to[i], to[i + 1].node, to[i + 1].offset)
      <4>1. i \in 1..q /\ i < q /\ i # q /\ i + 1 \in 1..q
        BY <2>1, <2>5, <3>3
      <4>2. NextOf(C!Doc, frames[i], frames[i + 1].node, frames[i + 1].offset)
        BY <4>1 DEF WorkStands
      <4> QED BY <2>5, <2>6, <4>1, <4>2
    <3> QED BY <2>5, <3>1, <3>2, <3>3 DEF WorkStands
  <2>8. C!Doc' = C!Doc
    BY <2>2 DEF C!Doc
  <2> QED BY <2>2, <2>7, <2>8
<1> QED BY <1>1, <1>2

------------------------------------------------------------------------------
(* Every step *)

(* A step within a request: what is kept stays. *)
LEMMA StillServing ==
    ASSUME CacheInv, C!Busy, asked' = asked, UNCHANGED C!kept,
           StoreStands(entries', pending', C!Now), UsedFrom(entries', cache, asked.docs, C!Now, asked.uncached),
           ~asked.uncached => KeptAll(entries', recent, generation),
           PendingStands(entries', pending', asked.docs),
           AnswerStands(entries', pending', C!Now, asked.docs, answer'),
           work' # <<>> => ~C!Enough(answer', asked.docs),
           WorkStands(entries', pending', C!Now, asked.docs, C!Doc', work')
    PROVE  CacheInv'
<1>1. cache' = cache /\ generation' = generation /\ recent' = recent
  BY DEF C!kept
<1>2. C!Now' = C!Now /\ C!Busy'
  BY <1>1 DEF C!Now, C!Busy
<1>3. Typed' /\ Kept'
  BY <1>1 DEF CacheInv, Typed, Kept
<1>4. Idle'
  BY <1>2 DEF Idle
<1>5. Serving'
  BY <1>1, <1>2 DEF CacheInv, Serving
<1> QED BY <1>3, <1>4, <1>5 DEF CacheInv

(* Where the cache has the node. *)
LEMMA HitIs ==
    ASSUME CacheInv, C!Hit
    PROVE  CacheInv'
<1> DEFINE n == C!Called.node
           offset == C!Called.offset
           key == C!Key(C!Doc, n, offset)
           entry == entries[key]
           named == C!Renumbered(entry.features, entry.ids, C!SubtreeIds(C!Doc, n))
           built == C!Solid(entry.shape, named)
           docs == asked.docs
<1>1. /\ C!Busy /\ pending = {} /\ C!Calls /\ key \in DOMAIN entries
      /\ C!Return(built, key, work) /\ pending' = {key}
      /\ asked' = asked /\ entries' = entries /\ UNCHANGED C!kept
  BY FrameKeyIs DEF C!Hit
<1>2. /\ StoreStands(entries, {}, C!Now) /\ UsedFrom(entries, cache, docs, C!Now, asked.uncached)
      /\ ~asked.uncached => KeptAll(entries, recent, generation)
      /\ AnswerStands(entries, {}, C!Now, docs, answer)
      /\ WorkStands(entries, {}, C!Now, docs, C!Doc, work)
  BY <1>1 DEF CacheInv, Serving
<1>3. /\ ~C!Enough(answer, docs) /\ C!Doc \in Documents /\ n \in C!NodesOf(C!Doc) /\ offset \in Nat
      /\ Within(C!Doc, n, offset) \subseteq C!Finished(docs) /\ CalledBy(C!Doc, work, n, offset)
  BY <1>1, CalledIs
<1>4. EntryIs(entry, key)
  BY <1>1, <1>2 DEF StoreStands
<1>5. Stands(entries, {key}, C!Now, C!Doc, n, offset, built)
  <2>1. BuiltTo(C!Doc, n, offset).ok /\ entry.shape = BuiltTo(C!Doc, n, offset).shape
    BY <1>3, <1>4, EntryOf
  <2>2. Names(C!Doc, n, offset, named)
    BY <1>3, <1>4, Renames
  <2>3. BuiltTo(C!Doc, n, offset).ok \in BOOLEAN
    BY <1>3, BuiltIs
  <2> HIDE DEF named
  <2>4. built.ok = TRUE /\ built.shape = entry.shape /\ built.features = named
    BY DEF C!Solid
  <2> HIDE DEF built, entry
  <2> QED BY <1>1, <2>1, <2>2, <2>3, <2>4 DEF Stands, RightFor, InUse
<1>6. Carries(entries, {}, C!Now, entries, {key})
  BY DEF Carries
<1>7. AnswerStands(entries, {key}, C!Now, docs, answer) /\ WorkStands(entries, {key}, C!Now, docs, C!Doc, work)
  BY <1>2, <1>6, AnswerStandsOn, WorkStandsOn
<1> HIDE DEF built, entry
<1>8. /\ AnswerStands(entries, {key}, C!Now, docs, answer') /\ (work' # <<>> => ~C!Enough(answer', docs))
      /\ WorkStands(entries, {key}, C!Now, docs, C!Doc', work')
  BY <1>1, <1>3, <1>5, <1>7, Returned
<1>9. StoreStands(entries, {key}, C!Now)
  BY <1>2 DEF StoreStands
<1>10. PendingStands(entries, {key}, docs)
  BY <1>1, <1>3 DEF PendingStands
<1> HIDE DEF key
<1> QED BY <1>1, <1>2, <1>8, <1>9, <1>10, StillServing

(* What a whole is made of is a call its build comes to. *)
LEMMA BeneathIs ==
    ASSUME NEW docs, NEW d \in Documents, NEW n \in C!NodesOf(d), NEW offset \in Nat,
           Within(d, n, offset) \subseteq C!Finished(docs), BuiltTo(d, n, offset).ok,
           NEW dep \in KeysBelow(d, n, offset)
    PROVE  \E e \in Documents : \E m \in C!NodesOf(e), p \in Nat :
               dep = C!Key(e, m, p) /\ Within(e, m, p) \subseteq C!Finished(docs)
<1>1. PICK i \in OfChildren(d, n) : dep = C!Key(d, Child(d, n, i), C!At(d, n, offset))
  BY DEF KeysBelow
<1>2. Child(d, n, i) \in C!NodesOf(d) /\ C!At(d, n, offset) \in Nat
  BY <1>1, ChildIs
<1>3. Reached(d, n, offset, i)
  <2>1. \A k \in OfChildren(d, n) : BuiltAt(d, n, offset, k).ok
    BY BuiltIs
  <2>2. OfChildren(d, n) = 1..Len(C!Children(d, n)) /\ Len(C!Children(d, n)) \in Nat
    BY DocumentsAre
  <2>3. \A k \in 1..(i - 1) : k \in OfChildren(d, n)
    BY <1>1, <2>2
  <2> QED BY <1>1, <2>1, <2>3 DEF Reached
<1>4. Within(d, Child(d, n, i), C!At(d, n, offset)) \subseteq C!Finished(docs)
  BY <1>1, <1>3, WithinParts
<1> QED BY <1>1, <1>2, <1>4

(* What is touched is in use, and its parts are next. *)
LEMMA TouchIs ==
    ASSUME CacheInv, C!Touch
    PROVE  CacheInv'
<1> DEFINE key == CHOOSE k \in pending : TRUE
           docs == asked.docs
<1>1. /\ pending # {} /\ key \in pending /\ UNCHANGED <<C!kept, asked, work, answer, rebuilt>>
      /\ \/ /\ entries[key].used # C!Now /\ entries' = [entries EXCEPT ![key].used = C!Now]
            /\ pending' = (pending \ {key}) \union entries[key].deps
         \/ /\ ~(key \in DOMAIN entries /\ entries[key].used # C!Now)
            /\ entries' = entries /\ pending' = pending \ {key}
  BY DEF C!Touch, C!Beneath
<1> HIDE DEF key
<1>2. C!Busy
  BY <1>1 DEF CacheInv, Idle
<1>3. /\ StoreStands(entries, pending, C!Now) /\ UsedFrom(entries, cache, docs, C!Now, asked.uncached)
      /\ ~asked.uncached => KeptAll(entries, recent, generation)
      /\ PendingStands(entries, pending, docs)
      /\ AnswerStands(entries, pending, C!Now, docs, answer)
      /\ work # <<>> => ~C!Enough(answer, docs)
      /\ WorkStands(entries, pending, C!Now, docs, C!Doc, work)
  BY <1>2 DEF CacheInv, Serving
<1>4. key \in DOMAIN entries
  BY <1>1, <1>3 DEF PendingStands
<1>5. /\ C!Now \in Nat /\ (~asked.uncached => C!Now = generation) /\ DOMAIN recent = 1..Len(recent)
  BY RequestIs DEF CacheInv, Typed
<1>6. PICK d \in Documents : \E n \in C!NodesOf(d), offset \in Nat :
          key = C!Key(d, n, offset) /\ Within(d, n, offset) \subseteq C!Finished(docs)
  BY <1>1, <1>3 DEF PendingStands
<1>7. PICK n \in C!NodesOf(d), offset \in Nat : key = C!Key(d, n, offset) /\ Within(d, n, offset) \subseteq C!Finished(docs)
  BY <1>6
<1>8. /\ BuiltTo(d, n, offset).ok /\ entries[key].deps = KeysBelow(d, n, offset)
      /\ entries[key].shape \in C!Finished(docs)
  BY <1>3, <1>4, <1>7, EntryOf DEF StoreStands
<1>9. C!Doc' = C!Doc
  BY <1>1 DEF C!Doc
<1>10. ASSUME Carries(entries, pending, C!Now, entries', pending'), StoreStands(entries', pending', C!Now),
              UsedFrom(entries', cache, docs, C!Now, asked.uncached),
              ~asked.uncached => KeptAll(entries', recent, generation),
              PendingStands(entries', pending', docs)
       PROVE  CacheInv'
  <2>1. AnswerStands(entries', pending', C!Now, docs, answer) /\ WorkStands(entries', pending', C!Now, docs, C!Doc, work)
    BY <1>3, <1>10, AnswerStandsOn, WorkStandsOn
  <2>2. answer' = answer /\ work' = work /\ asked' = asked /\ UNCHANGED C!kept
    BY <1>1
  <2>3. AnswerStands(entries', pending', C!Now, docs, answer') /\ WorkStands(entries', pending', C!Now, docs, C!Doc', work')
    BY <1>9, <2>1, <2>2
  <2>4. work' # <<>> => ~C!Enough(answer', docs)
    BY <1>3, <2>2
  <2> QED BY <1>2, <1>10, <2>2, <2>3, <2>4, StillServing
<1>11. CASE entries[key].used # C!Now /\ entries' = [entries EXCEPT ![key].used = C!Now]
            /\ pending' = (pending \ {key}) \union entries[key].deps
  <2> DEFINE to == entries'
  <2>1. /\ DOMAIN to = DOMAIN entries /\ \A k \in DOMAIN entries : k # key => to[k] = entries[k]
        /\ to[key] = [entries[key] EXCEPT !.used = C!Now]
    BY <1>4, <1>11
  <2>2. EntryIs(entries[key], key)
    BY <1>3, <1>4 DEF StoreStands
  <2>3. /\ to[key] = [shape |-> to[key].shape, features |-> to[key].features, ids |-> to[key].ids, used |-> to[key].used, deps |-> to[key].deps]
        /\ to[key].shape = entries[key].shape /\ to[key].features = entries[key].features
        /\ to[key].ids = entries[key].ids /\ to[key].deps = entries[key].deps /\ to[key].used = C!Now
    <3> DEFINE e == entries[key]
               t == to[key]
    <3>1. e = [shape |-> e.shape, features |-> e.features, ids |-> e.ids, used |-> e.used, deps |-> e.deps]
      BY <2>2 DEF EntryIs
    <3>2. t = [e EXCEPT !.used = C!Now]
      BY <2>1
    <3> HIDE DEF e, t
    <3>3. /\ t = [shape |-> t.shape, features |-> t.features, ids |-> t.ids, used |-> t.used, deps |-> t.deps]
          /\ t.shape = e.shape /\ t.features = e.features
          /\ t.ids = e.ids /\ t.deps = e.deps /\ t.used = C!Now
      BY <3>1, <3>2
    <3> QED BY <3>3 DEF e, t
  <2>4. EntryIs(to[key], key)
    <3>1. \A e, m, p : IsOf(entries[key], key, e, m, p) => IsOf(to[key], key, e, m, p)
      BY <2>3, Zenon DEF IsOf
    <3> HIDE DEF to
    <3> QED BY <2>2, <2>3, <3>1 DEF EntryIs
  <2> HIDE DEF to
  <2>5. \A k \in DOMAIN entries : to[k].deps = entries[k].deps /\ to[k].shape = entries[k].shape
                                  /\ to[k].used = (IF k = key THEN C!Now ELSE entries[k].used)
    BY <2>1, <2>3
  <2>6. StoreStands(to, pending', C!Now)
    <3> SUFFICES ASSUME NEW k \in DOMAIN entries
                 PROVE  /\ EntryIs(to[k], k) /\ to[k].used \in 0..C!Now
                        /\ \A dep \in to[k].deps : dep \in DOMAIN entries /\ (to[dep].used >= to[k].used \/ dep \in pending')
      BY <2>1 DEF StoreStands
    <3>1. /\ EntryIs(entries[k], k) /\ entries[k].used \in 0..C!Now
          /\ \A dep \in entries[k].deps : /\ dep \in DOMAIN entries /\ entries[dep].used \in 0..C!Now
                                          /\ (entries[dep].used >= entries[k].used \/ dep \in pending)
      BY <1>3 DEF StoreStands
    <3>2. EntryIs(to[k], k) /\ to[k].used \in 0..C!Now
      BY <1>5, <2>1, <2>4, <2>5, <3>1
    <3>3. ASSUME NEW dep \in to[k].deps PROVE dep \in DOMAIN entries /\ (to[dep].used >= to[k].used \/ dep \in pending')
      <4>1. /\ dep \in entries[k].deps /\ dep \in DOMAIN entries /\ entries[dep].used \in 0..C!Now
            /\ (entries[dep].used >= entries[k].used \/ dep \in pending)
        BY <2>5, <3>1, <3>3
      <4>2. CASE k = key
        BY <1>11, <4>1, <4>2
      <4>3. CASE k # key /\ dep = key
        BY <1>5, <2>5, <3>1, <4>1, <4>3
      <4>4. CASE k # key /\ dep # key
        <5>1. to[dep].used = entries[dep].used /\ to[k].used = entries[k].used
          BY <2>5, <4>1, <4>4
        <5>2. dep \in pending => dep \in pending'
          BY <1>11, <4>4
        <5> QED BY <4>1, <5>1, <5>2
      <4> QED BY <4>2, <4>3, <4>4
    <3> QED BY <3>2, <3>3
  <2>7. UsedFrom(to, cache, docs, C!Now, asked.uncached)
    <3>1. \A k \in DOMAIN entries : k = key => to[k].used = C!Now /\ to[k].shape \in C!Finished(docs)
      BY <1>8, <2>5
    <3> QED BY <1>3, <2>1, <2>5, <3>1 DEF UsedFrom
  <2>8. ASSUME ~asked.uncached PROVE KeptAll(to, recent, generation)
    <3> SUFFICES ASSUME NEW j \in DOMAIN recent, NEW s \in C!Finished(recent[j])
                 PROVE  \E k \in DOMAIN to : to[k].shape = s /\ to[k].used + j >= generation
      BY DEF KeptAll
    <3>1. PICK k \in DOMAIN entries : entries[k].shape = s /\ entries[k].used + j >= generation
      BY <1>3, <2>8 DEF KeptAll
    <3>2. j \in Nat
      BY <1>5
    <3>3. to[k].shape = s /\ to[k].used + j >= generation
      BY <1>5, <2>5, <2>8, <3>1, <3>2
    <3> QED BY <2>1, <3>1, <3>3
  <2>9. PendingStands(to, pending', docs)
    <3> SUFFICES ASSUME NEW k \in pending'
                 PROVE  k \in DOMAIN entries /\ \E e \in Documents : \E m \in C!NodesOf(e), p \in Nat :
                            k = C!Key(e, m, p) /\ Within(e, m, p) \subseteq C!Finished(docs)
      BY <2>1 DEF PendingStands
    <3>1. CASE k \in pending
      BY <1>3, <3>1 DEF PendingStands
    <3>2. CASE k \notin pending
      <4>1. k \in entries[key].deps
        BY <1>11, <3>2
      <4>2. k \in DOMAIN entries
        BY <1>3, <1>4, <4>1 DEF StoreStands
      <4>3. k \in KeysBelow(d, n, offset)
        BY <1>8, <4>1
      <4> QED BY <1>7, <1>8, <4>2, <4>3, BeneathIs
    <3> QED BY <3>1, <3>2
  <2>10. Carries(entries, pending, C!Now, to, pending')
    <3> SUFFICES ASSUME NEW k \in DOMAIN entries
                 PROVE  /\ to[k].shape = entries[k].shape /\ (entries[k].used = C!Now => to[k].used = C!Now)
                        /\ k \in pending => k \in pending' \/ to[k].used = C!Now
      BY <2>1 DEF Carries
    <3> QED BY <1>11, <2>5
  <2> QED BY <1>10, <2>6, <2>7, <2>8, <2>9, <2>10 DEF to
<1>12. CASE entries[key].used = C!Now /\ entries' = entries /\ pending' = pending \ {key}
  <2>1. Carries(entries, pending, C!Now, entries, pending')
    BY <1>12 DEF Carries
  <2>2. StoreStands(entries, pending', C!Now)
    <3> SUFFICES ASSUME NEW k \in DOMAIN entries
                 PROVE  /\ EntryIs(entries[k], k) /\ entries[k].used \in 0..C!Now
                        /\ \A dep \in entries[k].deps : dep \in DOMAIN entries /\ (entries[dep].used >= entries[k].used \/ dep \in pending')
      BY DEF StoreStands
    <3>1. /\ EntryIs(entries[k], k) /\ entries[k].used \in 0..C!Now
          /\ \A dep \in entries[k].deps : dep \in DOMAIN entries /\ (entries[dep].used >= entries[k].used \/ dep \in pending)
      BY <1>3 DEF StoreStands
    <3>2. ASSUME NEW dep \in entries[k].deps PROVE entries[dep].used >= entries[k].used \/ dep \in pending'
      <4>1. CASE dep = key
        BY <1>5, <1>12, <3>1, <4>1
      <4>2. CASE dep # key
        BY <1>12, <3>1, <3>2, <4>2
      <4> QED BY <4>1, <4>2
    <3> QED BY <3>1, <3>2
  <2>3. PendingStands(entries, pending', docs)
    BY <1>3, <1>12 DEF PendingStands
  <2>4. /\ Carries(entries, pending, C!Now, entries', pending') /\ StoreStands(entries', pending', C!Now)
        /\ UsedFrom(entries', cache, docs, C!Now, asked.uncached)
        /\ (~asked.uncached => KeptAll(entries', recent, generation)) /\ PendingStands(entries', pending', docs)
    BY <1>3, <1>12, <2>1, <2>2, <2>3
  <2> QED BY <1>10, <2>4
<1> QED BY <1>1, <1>4, <1>11, <1>12

(* Where the cache has it not. *)
LEMMA DescendIs ==
    ASSUME CacheInv, C!Descend
    PROVE  CacheInv'
<1> DEFINE docs == asked.docs
           q == Len(work)
           to == Append(work, C!Called)
<1>1. /\ C!Busy /\ pending = {} /\ C!Calls /\ work' = to
      /\ asked' = asked /\ entries' = entries /\ pending' = pending /\ answer' = answer /\ UNCHANGED C!kept
  BY DEF C!Descend
<1>2. /\ StoreStands(entries, pending, C!Now) /\ UsedFrom(entries, cache, docs, C!Now, asked.uncached)
      /\ ~asked.uncached => KeptAll(entries, recent, generation)
      /\ PendingStands(entries, pending, docs)
      /\ AnswerStands(entries, pending, C!Now, docs, answer)
      /\ WorkStands(entries, pending, C!Now, docs, C!Doc, work)
  BY <1>1 DEF CacheInv, Serving
<1>3. /\ ~C!Enough(answer, asked.docs) /\ C!Doc \in Documents
      /\ C!Called = [node |-> C!Called.node, offset |-> C!Called.offset, made |-> <<>>, deps |-> {}]
      /\ C!Called.node \in C!NodesOf(C!Doc) /\ C!Called.offset \in Nat
      /\ Within(C!Doc, C!Called.node, C!Called.offset) \subseteq C!Finished(asked.docs)
      /\ CalledBy(C!Doc, work, C!Called.node, C!Called.offset)
  BY <1>1, CalledIs
<1> DEFINE new == C!Called
<1>4. FrameStands(entries, pending, C!Now, docs, C!Doc, new)
  <2> HIDE DEF new
  <2>1. /\ new = [node |-> new.node, offset |-> new.offset, made |-> <<>>, deps |-> {}]
        /\ new.node \in C!NodesOf(C!Doc) /\ new.offset \in Nat /\ Within(C!Doc, new.node, new.offset) \subseteq C!Finished(docs)
    BY <1>3 DEF new
  <2>2. new.made = <<>> /\ new.deps = {}
    BY <2>1
  <2>3. IsList(new.made) /\ Len(new.made) = 0 /\ 1..Len(new.made) = {}
    <3>1. IsList(<<>>) /\ Len(<<>>) = 0 /\ 1..0 = {}
      BY DEF IsList
    <3> QED BY <2>2, <3>1
  <2>4. Len(new.made) <= Len(C!Children(C!Doc, new.node))
    <3>1. Len(C!Children(C!Doc, new.node)) \in Nat
      BY <1>3, <2>1, DocumentsAre
    <3> QED BY <2>3, <3>1
  <2>5. new.deps = KeysMade(C!Doc, new)
    BY <2>2, <2>3 DEF KeysMade
  <2>6. new = [node |-> new.node, offset |-> new.offset, made |-> new.made, deps |-> new.deps]
    BY <2>1, <2>2
  <2> QED BY <2>1, <2>3, <2>4, <2>5, <2>6 DEF FrameStands
<1>5. /\ IsList(work) /\ IsList(to) /\ q \in Nat /\ Len(to) = q + 1 /\ to[q + 1] = new /\ \A i \in 1..q : to[i] = work[i]
  BY <1>2, Appended DEF WorkStands
<1>6. work = <<>> <=> q = 0
  BY <1>5, ListIs
<1> HIDE DEF new, to
<1>7. WorkStands(entries, pending, C!Now, docs, C!Doc, to)
  <2>1. ASSUME NEW i \in 1..Len(to) PROVE FrameStands(entries, pending, C!Now, docs, C!Doc, to[i])
    <3>1. CASE i = q + 1
      BY <1>4, <1>5, <3>1
    <3>2. CASE i # q + 1
      <4>1. i \in 1..q
        BY <1>5, <3>2
      <4> QED BY <1>2, <1>5, <4>1 DEF WorkStands
    <3> QED BY <3>1, <3>2
  <2>2. to[1].node = C!Doc.root /\ to[1].offset = 0
    <3>1. CASE q = 0
      <4>1. to[1] = C!Called
        BY <1>5, <3>1 DEF new
      <4>2. C!Called.node = C!Doc.root /\ C!Called.offset = 0
        BY <1>3, <1>6, <3>1 DEF CalledBy
      <4> QED BY <4>1, <4>2
    <3>2. CASE q # 0
      <4>1. 1 \in 1..q /\ to[1] = work[1]
        BY <1>5, <3>2
      <4> QED BY <1>2, <3>2, <4>1 DEF WorkStands
    <3> QED BY <3>1, <3>2
  <2>3. ASSUME NEW i \in 1..Len(to), i < Len(to) PROVE NextOf(C!Doc, to[i], to[i + 1].node, to[i + 1].offset)
    <3>0. i \in 1..q
      BY <1>5, <2>3
    <3>1. CASE i = q
      <4>1. work # <<>> /\ to[i] = work[q] /\ to[i + 1] = C!Called
        BY <1>5, <1>6, <3>0, <3>1 DEF new
      <4>2. NextOf(C!Doc, work[q], C!Called.node, C!Called.offset)
        BY <1>3, <4>1 DEF CalledBy
      <4> QED BY <4>1, <4>2
    <3>2. CASE i # q
      <4>1. i < q /\ i + 1 \in 1..q
        BY <1>5, <3>0, <3>2
      <4>2. to[i] = work[i] /\ to[i + 1] = work[i + 1]
        BY <1>5, <3>0, <4>1
      <4>3. NextOf(C!Doc, work[i], work[i + 1].node, work[i + 1].offset)
        BY <1>2, <3>0, <4>1 DEF WorkStands
      <4> QED BY <4>2, <4>3
    <3> QED BY <3>1, <3>2
  <2> QED BY <1>5, <2>1, <2>2, <2>3 DEF WorkStands
<1>8. C!Doc' = C!Doc
  BY <1>1 DEF C!Doc
<1>9. /\ AnswerStands(entries', pending', C!Now, docs, answer') /\ WorkStands(entries', pending', C!Now, docs, C!Doc', work')
      /\ (work' # <<>> => ~C!Enough(answer', docs))
  BY <1>1, <1>2, <1>3, <1>7, <1>8
<1>10. /\ StoreStands(entries', pending', C!Now) /\ UsedFrom(entries', cache, docs, C!Now, asked.uncached)
       /\ ~asked.uncached => KeptAll(entries', recent, generation)
       /\ PendingStands(entries', pending', docs)
  BY <1>1, <1>2
<1> QED BY <1>1, <1>9, <1>10, StillServing

(* A call whose operands are all built, or one of them has failed, comes to what it should. *)
LEMMA FrameBuilt ==
    ASSUME NEW store, NEW now \in Nat, StoreStands(store, {}, now),
           NEW docs, NEW d \in Documents, NEW frame, FrameStands(store, {}, now, docs, d, frame),
           C!Enough(frame.made, C!Children(d, frame.node)),
           NEW built, built = C!Afresh(d, frame.node, frame.offset, frame.made)
    PROVE  /\ RightFor(d, frame.node, frame.offset, built)
           /\ built.ok => /\ frame.deps = KeysBelow(d, frame.node, frame.offset)
                          /\ \A dep \in frame.deps : dep \in DOMAIN store /\ store[dep].used = now
           /\ ~built.ok => \A s \in Within(d, frame.node, frame.offset) : Done(store, now, s)
<1> DEFINE n == frame.node
           offset == frame.offset
           made == frame.made
           q == Len(made)
           m == Len(C!Children(d, n))
           inner == C!At(d, n, offset)
<1>1. /\ n \in C!NodesOf(d) /\ offset \in Nat /\ inner \in Nat /\ IsList(made) /\ q \in Nat
      /\ m \in Nat /\ OfChildren(d, n) = 1..m /\ q <= m
      /\ \A i \in 1..q : /\ i \in OfChildren(d, n) /\ Child(d, n, i) \in C!NodesOf(d)
                         /\ made[i].ok \in BOOLEAN /\ (i < q => made[i].ok) /\ made[i].ok = BuiltAt(d, n, offset, i).ok
  BY FrameMade
<1>2. DOMAIN made = 1..q
  BY <1>1, ListIs
<1>3. \A i \in 1..q : Stands(store, {}, now, d, Child(d, n, i), inner, made[i])
  BY DEF FrameStands
<1>4. /\ built.ok \in BOOLEAN
      /\ built.ok <=> C!Op(d, n) # "bad" /\ \A i \in 1..q : made[i].ok
      /\ built.ok => built.shape = C!Shape(d, n, offset, made) /\ built.features = C!Features(d, n, made)
  BY <1>2, AfreshIs
<1>5. q = m \/ (q \in 1..q /\ ~made[q].ok)
  BY <1>1, IsEnough
<1>6. /\ BuiltTo(d, n, offset).ok \in BOOLEAN
      /\ BuiltTo(d, n, offset).ok <=> C!Op(d, n) # "bad" /\ \A i \in 1..m : BuiltAt(d, n, offset, i).ok
      /\ BuiltTo(d, n, offset).ok =>
             /\ BuiltTo(d, n, offset).shape = <<C!Op(d, n), offset, [i \in OfChildren(d, n) |-> BuiltAt(d, n, offset, i).shape]>>
             /\ BuiltTo(d, n, offset).features
                = C!FlattenSeq([i \in OfChildren(d, n) |-> BuiltAt(d, n, offset, i).features]) \o Own(d, n)
  <2> HIDE DEF m
  <2> QED BY <1>1, BuiltIs
<1> HIDE DEF q, m, inner, made
<1>7. built.ok = BuiltTo(d, n, offset).ok
  <2>1. CASE q = m
    BY <1>1, <1>4, <1>6, <2>1
  <2>2. CASE q \in 1..q /\ ~made[q].ok
    <3>1. ~built.ok
      BY <1>4, <2>2
    <3>2. q \in 1..m /\ ~BuiltAt(d, n, offset, q).ok
      BY <1>1, <2>2
    <3> QED BY <1>4, <1>6, <3>1, <3>2
  <2> QED BY <1>5, <2>1, <2>2
<1>8. ASSUME built.ok
      PROVE  /\ built.shape = BuiltTo(d, n, offset).shape /\ Names(d, n, offset, built.features)
             /\ frame.deps = KeysBelow(d, n, offset)
             /\ \A dep \in frame.deps : dep \in DOMAIN store /\ store[dep].used = now
  <2>1. q = m /\ \A i \in 1..m : made[i].ok /\ BuiltAt(d, n, offset, i).ok
    BY <1>1, <1>4, <1>5, <1>8
  <2> DEFINE old(i) == BuiltAt(d, n, offset, i)
  <2>2. \A i \in 1..m : /\ made[i].shape = old(i).shape /\ Names(d, Child(d, n, i), inner, made[i].features)
                        /\ C!Key(d, Child(d, n, i), inner) \in DOMAIN store
                        /\ store[C!Key(d, Child(d, n, i), inner)].used = now
    BY <1>3, <2>1 DEF Stands, RightFor, InUse, BuiltAt, inner
  <2>3. built.shape = BuiltTo(d, n, offset).shape
    <3>1. [i \in DOMAIN made |-> made[i].shape] = [i \in OfChildren(d, n) |-> BuiltAt(d, n, offset, i).shape]
      BY <1>1, <1>2, <2>1, <2>2
    <3> QED BY <1>4, <1>6, <1>7, <1>8, <3>1 DEF C!Shape
  <2>4. Names(d, n, offset, built.features)
    <3> DEFINE s == [i \in 1..m |-> made[i].features]
               t == [i \in 1..m |-> BuiltAt(d, n, offset, i).features]
               T == IdsOf(d, n)
    <3>1. \A i \in 1..m : /\ s[i] \in Seq(IdsOf(d, Child(d, n, i))) /\ Match(d, d, s[i], t[i])
                          /\ t[i] \in Seq(C!NodesOf(d))
      <4> TAKE i \in 1..m
      <4>1. s[i] \in Seq(IdsOf(d, Child(d, n, i))) /\ Match(d, d, s[i], t[i])
        BY <2>2 DEF Names, BuiltAt, inner
      <4>2. Child(d, n, i) \in C!NodesOf(d) /\ BuiltTo(d, Child(d, n, i), inner).ok
        BY <1>1, <2>1 DEF BuiltAt, inner
      <4>3. BuiltTo(d, Child(d, n, i), inner).features \in Seq(C!NodesOf(d))
        BY <1>1, <4>2, FeaturesTyped
      <4> QED BY <4>1, <4>3 DEF BuiltAt, inner
    <3>2. /\ T \subseteq C!NodesOf(d) /\ n \in T /\ \A i \in 1..m : IdsOf(d, Child(d, n, i)) \subseteq T
      <4>1. C!SubtreeIds(d, n) \in Seq(C!NodesOf(d)) /\ n \in T /\ \A i \in 1..m : IdsOf(d, Child(d, n, i)) \subseteq T
        BY <1>1, IdsAre
      <4> QED BY <4>1 DEF IdsOf
    <3>3. /\ built.features = C!FlattenSeq(s) \o Own(d, n)
          /\ BuiltTo(d, n, offset).features = C!FlattenSeq(t) \o Own(d, n)
      <4>1. [i \in DOMAIN made |-> made[i].features] = s
        BY <1>2, <2>1
      <4>2. [i \in OfChildren(d, n) |-> BuiltAt(d, n, offset, i).features] = t
        BY <1>1
      <4> HIDE DEF s, t
      <4>3. built.features = C!FlattenSeq(s) \o Own(d, n)
        BY <1>4, <1>8, <4>1 DEF C!Features, Own
      <4> QED BY <1>6, <1>7, <1>8, <4>2, <4>3
    <3>4. s = [i \in 1..m |-> s[i]] /\ t = [i \in 1..m |-> t[i]]
      OBVIOUS
    <3> HIDE DEF s, t, T
    <3>5. \A i \in 1..m : s[i] \in Seq(T) /\ s[i] \in Seq(C!NodesOf(d))
      BY <3>1, <3>2
    <3>6. /\ C!FlattenSeq(s) \in Seq(C!NodesOf(d)) /\ C!FlattenSeq(t) \in Seq(C!NodesOf(d))
          /\ Match(d, d, C!FlattenSeq(s), C!FlattenSeq(t))
      BY <1>1, <3>1, <3>4, <3>5, MatchJoined
    <3>7. Own(d, n) \in Seq(C!NodesOf(d)) /\ Match(d, d, Own(d, n), Own(d, n))
      BY <1>1, SameOwn
    <3>8. Match(d, d, built.features, BuiltTo(d, n, offset).features)
      BY <3>3, <3>6, <3>7, MatchAfter
    <3>9. built.features \in Seq(T)
      <4>1. s \in Seq(Seq(T)) /\ Len(s) = m
        <5>1. s \in [1..m -> Seq(T)]
          BY <3>4, <3>5
        <5> QED BY <1>1, <5>1
      <4>2. C!FlattenSeq(s) \in Seq(T)
        BY <4>1, JoinedHas
      <4>3. Own(d, n) \in Seq(T)
        BY <3>2 DEF Own
      <4> QED BY <3>3, <4>2, <4>3
    <3> QED BY <3>8, <3>9 DEF Names, T
  <2>5. frame.deps = KeysBelow(d, n, offset)
    <3>1. frame.deps = {C!Key(d, Child(d, n, i), inner) : i \in {j \in 1..q : made[j].ok}}
      BY DEF FrameStands, KeysMade, q, inner, made
    <3>2. {j \in 1..q : made[j].ok} = OfChildren(d, n)
      BY <1>1, <2>1
    <3> QED BY <3>1, <3>2 DEF KeysBelow, inner
  <2>6. \A dep \in frame.deps : dep \in DOMAIN store /\ store[dep].used = now
    BY <1>1, <2>2, <2>5 DEF KeysBelow, inner
  <2> QED BY <2>3, <2>4, <2>5, <2>6
<1>9. ASSUME ~built.ok, NEW s \in Within(d, n, offset) PROVE Done(store, now, s)
  <2>1. PICK i \in OfChildren(d, n) : Reached(d, n, offset, i) /\ s \in Within(d, Child(d, n, i), inner)
    BY <1>1, <1>7, <1>9, WithinIs DEF inner
  <2>2. i \in 1..q
    <3>1. CASE q = m
      BY <1>1, <3>1
    <3>2. CASE q \in 1..q /\ ~made[q].ok
      <4>1. ~BuiltAt(d, n, offset, q).ok
        BY <1>1, <3>2
      <4>2. i <= q
        <5>1. \A k \in 1..(i - 1) : BuiltAt(d, n, offset, k).ok
          BY <2>1 DEF Reached
        <5>2. i \in Nat /\ q \in Nat
          BY <1>1
        <5>3. q \notin 1..(i - 1)
          BY <4>1, <5>1
        <5> QED BY <3>2, <5>2, <5>3
      <4> QED BY <1>1, <4>2
    <3> QED BY <1>5, <3>1, <3>2
  <2>3. InUse(store, {}, now, d, Child(d, n, i), inner, made[i]) /\ Child(d, n, i) \in C!NodesOf(d)
    BY <1>1, <1>3, <2>2 DEF Stands
  <2>4. CASE made[i].ok
    <3>1. C!Key(d, Child(d, n, i), inner) \in DOMAIN store /\ store[C!Key(d, Child(d, n, i), inner)].used = now
      BY <2>3, <2>4 DEF InUse
    <3> QED BY <1>1, <2>1, <2>3, <3>1, UsedThroughout
  <2>5. CASE ~made[i].ok
    BY <2>1, <2>3, <2>5 DEF InUse
  <2> QED BY <2>4, <2>5
<1>10. RightFor(d, n, offset, built)
  BY <1>7, <1>8 DEF RightFor
<1> QED BY <1>8, <1>9, <1>10

(* What is finished is what a build without a cache comes to. *)
LEMMA FinishIs ==
    ASSUME CacheInv, C!Finish
    PROVE  CacheInv'
<1> DEFINE docs == asked.docs
           top == C!Last(work)
           n == top.node
           offset == top.offset
           key == C!Key(C!Doc, n, offset)
           built == C!Afresh(C!Doc, n, offset, top.made)
           new == C!Entry(top, built)
<1>1. /\ pending = {} /\ work # <<>> /\ C!Enough(top.made, C!Children(C!Doc, n))
      /\ entries' = IF ~built.ok THEN entries
                    ELSE [k \in DOMAIN entries \union {key} |-> IF k = key THEN new ELSE entries[k]]
      /\ C!Return(built, key, C!Front(work)) /\ pending' = pending /\ asked' = asked /\ UNCHANGED C!kept
  BY FrameKeyIs DEF C!Finish, C!Top, C!Complete
<1>2. C!Busy
  BY <1>1 DEF CacheInv, Idle
<1>3. /\ StoreStands(entries, {}, C!Now) /\ UsedFrom(entries, cache, docs, C!Now, asked.uncached)
      /\ ~asked.uncached => KeptAll(entries, recent, generation)
      /\ AnswerStands(entries, {}, C!Now, docs, answer) /\ ~C!Enough(answer, docs)
      /\ WorkStands(entries, {}, C!Now, docs, C!Doc, work)
  BY <1>1, <1>2 DEF CacheInv, Serving
<1>4. C!Doc \in Documents
  BY <1>2, <1>3, DocIs
<1>5. /\ C!Now \in Nat /\ (~asked.uncached => C!Now = generation) /\ DOMAIN recent = 1..Len(recent)
  BY RequestIs DEF CacheInv, Typed
<1>6. /\ FrameStands(entries, {}, C!Now, docs, C!Doc, top) /\ CalledBy(C!Doc, C!Front(work), n, offset)
      /\ WorkStands(entries, {}, C!Now, docs, C!Doc, C!Front(work))
  BY <1>1, <1>3, WorkAround
<1>7. /\ RightFor(C!Doc, n, offset, built)
      /\ built.ok => /\ top.deps = KeysBelow(C!Doc, n, offset)
                     /\ \A dep \in top.deps : dep \in DOMAIN entries /\ entries[dep].used = C!Now
      /\ ~built.ok => \A s \in Within(C!Doc, n, offset) : Done(entries, C!Now, s)
  <2> HIDE DEF top
  <2> QED BY <1>1, <1>3, <1>4, <1>5, <1>6, FrameBuilt
<1>8. n \in C!NodesOf(C!Doc) /\ offset \in Nat /\ Within(C!Doc, n, offset) \subseteq C!Finished(docs)
  BY <1>6 DEF FrameStands
<1>9. built.ok = BuiltTo(C!Doc, n, offset).ok /\ built.ok \in BOOLEAN
      /\ (built.ok => built.shape = BuiltTo(C!Doc, n, offset).shape /\ Names(C!Doc, n, offset, built.features))
  BY <1>4, <1>7, <1>8, BuiltIs DEF RightFor
<1>10. /\ new = [shape |-> new.shape, features |-> new.features, ids |-> new.ids, used |-> new.used, deps |-> new.deps]
       /\ new.shape = built.shape /\ new.features = built.features /\ new.ids = C!SubtreeIds(C!Doc, n)
       /\ new.used = C!Now /\ new.deps = top.deps
  BY DEF C!Entry
<1> HIDE DEF new, built, top
<1>11. ASSUME NEW to, to = entries', Carries(entries, {}, C!Now, to, {}), StoreStands(to, {}, C!Now),
              UsedFrom(to, cache, docs, C!Now, asked.uncached), ~asked.uncached => KeptAll(to, recent, generation),
              InUse(to, {}, C!Now, C!Doc, n, offset, built)
       PROVE  CacheInv'
  <2>1. Stands(to, {}, C!Now, C!Doc, n, offset, built)
    BY <1>7, <1>11 DEF Stands
  <2>2. /\ AnswerStands(to, {}, C!Now, docs, answer) /\ WorkStands(to, {}, C!Now, docs, C!Doc, C!Front(work))
    BY <1>3, <1>6, <1>11, AnswerStandsOn, WorkStandsOn
  <2>3. /\ AnswerStands(to, {}, C!Now, docs, answer') /\ (work' # <<>> => ~C!Enough(answer', docs))
        /\ WorkStands(to, {}, C!Now, docs, C!Doc', work')
    BY <1>1, <1>2, <1>3, <1>6, <1>8, <2>1, <2>2, Returned
  <2>4. PendingStands(to, {}, docs)
    BY DEF PendingStands
  <2>5. /\ entries' = to /\ pending' = {}
    BY <1>1, <1>11
  <2>6. /\ StoreStands(entries', pending', C!Now) /\ UsedFrom(entries', cache, docs, C!Now, asked.uncached)
        /\ (~asked.uncached => KeptAll(entries', recent, generation)) /\ PendingStands(entries', pending', docs)
        /\ AnswerStands(entries', pending', C!Now, docs, answer')
        /\ WorkStands(entries', pending', C!Now, docs, C!Doc', work')
    BY <1>11, <2>3, <2>4, <2>5
  <2> QED BY <1>1, <1>2, <2>3, <2>6, StillServing
<1>12. CASE ~built.ok
  <2>1. entries' = entries
    BY <1>1, <1>12
  <2>2. Carries(entries, {}, C!Now, entries, {})
    BY DEF Carries
  <2>3. InUse(entries, {}, C!Now, C!Doc, n, offset, built)
    BY <1>7, <1>12 DEF InUse
  <2> QED BY <1>3, <1>11, <2>1, <2>2, <2>3
<1>13. CASE built.ok
  <2> DEFINE to == [k \in DOMAIN entries \union {key} |-> IF k = key THEN new ELSE entries[k]]
  <2>1. entries' = to
    BY <1>1, <1>13
  <2>2. /\ DOMAIN to = DOMAIN entries \union {key} /\ to[key] = new
        /\ \A k \in DOMAIN entries : k # key => to[k] = entries[k]
    OBVIOUS
  <2> HIDE DEF to
  <2>3. EntryIs(new, key)
    <3>1. IsOf(new, key, C!Doc, n, offset)
      BY <1>7, <1>9, <1>10, <1>13 DEF IsOf
    <3> QED BY <1>4, <1>8, <1>10, <3>1 DEF EntryIs
  <2>4. built.shape = BuiltTo(C!Doc, n, offset).shape /\ built.shape \in C!Finished(docs)
    <3>1. built.shape \in Within(C!Doc, n, offset)
      BY <1>4, <1>8, <1>9, <1>13, WithinIs
    <3> QED BY <1>8, <1>9, <1>13, <3>1
  <2>5. key \in DOMAIN entries => entries[key].shape = built.shape
    <3>1. key \in DOMAIN entries => EntryIs(entries[key], key)
      BY <1>3 DEF StoreStands
    <3> QED BY <1>4, <1>8, <2>4, <3>1, EntryOf
  <2>6. \A k \in DOMAIN entries : /\ entries[k].used \in 0..C!Now /\ to[k].shape = entries[k].shape
                                  /\ to[k].used = (IF k = key THEN C!Now ELSE entries[k].used)
    BY <1>3, <1>10, <2>2, <2>5 DEF StoreStands
  <2>7. Carries(entries, {}, C!Now, to, {})
    BY <2>2, <2>6 DEF Carries
  <2>8. StoreStands(to, {}, C!Now)
    <3> SUFFICES ASSUME NEW k \in DOMAIN to
                 PROVE  /\ EntryIs(to[k], k) /\ to[k].used \in 0..C!Now
                        /\ \A dep \in to[k].deps : dep \in DOMAIN to /\ to[dep].used >= to[k].used
      BY DEF StoreStands
    <3>1. CASE k = key
      <4>1. \A dep \in to[k].deps : dep \in DOMAIN entries /\ entries[dep].used = C!Now
        BY <1>7, <1>10, <1>13, <2>2, <3>1
      <4>2. \A dep \in to[k].deps : dep \in DOMAIN to /\ to[dep].used = C!Now
        BY <2>2, <2>6, <4>1
      <4> QED BY <1>5, <1>10, <2>2, <2>3, <3>1, <4>2
    <3>2. CASE k # key
      <4>1. k \in DOMAIN entries /\ to[k] = entries[k]
        BY <2>2, <3>2
      <4>2. /\ EntryIs(entries[k], k) /\ entries[k].used \in 0..C!Now
            /\ \A dep \in entries[k].deps : dep \in DOMAIN entries /\ entries[dep].used >= entries[k].used
        BY <1>3, <4>1 DEF StoreStands
      <4>3. \A dep \in to[k].deps : dep \in DOMAIN to /\ to[dep].used >= to[k].used
        <5> TAKE dep \in to[k].deps
        <5>1. dep \in DOMAIN entries /\ entries[dep].used >= entries[k].used
          BY <4>1, <4>2
        <5>2. to[dep].used = (IF dep = key THEN C!Now ELSE entries[dep].used)
          BY <2>6, <5>1
        <5> QED BY <1>5, <2>2, <4>1, <4>2, <5>1, <5>2
      <4> QED BY <4>1, <4>2, <4>3
    <3> QED BY <3>1, <3>2
  <2>9. UsedFrom(to, cache, docs, C!Now, asked.uncached)
    <3> SUFFICES ASSUME NEW k \in DOMAIN to
                 PROVE  \/ to[k].used = C!Now /\ to[k].shape \in C!Finished(docs)
                        \/ ~asked.uncached /\ k \in DOMAIN cache /\ to[k].used = cache[k].used /\ to[k].shape = cache[k].shape
      BY DEF UsedFrom
    <3>1. CASE k = key
      BY <1>10, <2>2, <2>4, <3>1
    <3>2. CASE k # key
      BY <1>3, <2>2, <3>2 DEF UsedFrom
    <3> QED BY <3>1, <3>2
  <2>10. ASSUME ~asked.uncached PROVE KeptAll(to, recent, generation)
    <3> SUFFICES ASSUME NEW j \in DOMAIN recent, NEW s \in C!Finished(recent[j])
                 PROVE  \E k \in DOMAIN to : to[k].shape = s /\ to[k].used + j >= generation
      BY DEF KeptAll
    <3>1. PICK k \in DOMAIN entries : entries[k].shape = s /\ entries[k].used + j >= generation
      BY <1>3, <2>10 DEF KeptAll
    <3>2. j \in Nat
      BY <1>5
    <3>3. to[k].shape = s /\ to[k].used + j >= generation
      BY <1>5, <2>6, <2>10, <3>1, <3>2
    <3> QED BY <2>2, <3>1, <3>3
  <2>11. InUse(to, {}, C!Now, C!Doc, n, offset, built)
    BY <1>10, <1>13, <2>2 DEF InUse
  <2> QED BY <1>11, <2>1, <2>7, <2>8, <2>9, <2>10, <2>11
<1> QED BY <1>9, <1>12, <1>13

(* When a request is answered, all that its builds finished is in use. *)
LEMMA AllDone ==
    ASSUME CacheInv, C!Busy, pending = {}, C!Enough(answer, asked.docs), NEW s \in C!Finished(asked.docs)
    PROVE  Done(entries, C!Now, s)
<1> DEFINE docs == asked.docs
           q == Len(answer)
<1>1. StoreStands(entries, {}, C!Now) /\ AnswerStands(entries, {}, C!Now, docs, answer)
  BY DEF CacheInv, Serving
<1>2. /\ docs \in Seq(Documents) /\ Len(docs) \in Nat /\ C!Now \in Nat
      /\ \A i \in 1..Len(docs) : docs[i] \in Documents
  BY RequestIs DEF CacheInv
<1>3. IsList(answer) /\ q \in Nat /\ q <= Len(docs)
  BY <1>1, ListIs DEF AnswerStands
<1>4. q = Len(docs) \/ (q \in 1..q /\ ~answer[q].ok)
  BY <1>3, IsEnough
<1>5. PICK i \in 1..Len(docs) : /\ \A k \in 1..(i - 1) : BuiltTo(docs[k], docs[k].root, 0).ok
                                /\ s \in Within(docs[i], docs[i].root, 0)
  BY <1>2, FinishedIs
<1> HIDE DEF docs, q
<1>6. i \in 1..q
  <2>1. CASE q = Len(docs)
    BY <2>1
  <2>2. CASE q \in 1..q /\ ~answer[q].ok
    <3>1. ~BuiltTo(docs[q], docs[q].root, 0).ok
      <4>1. docs[q] \in Documents /\ docs[q].root \in C!NodesOf(docs[q])
        BY <1>2, <1>3, <2>2, DocumentsAre
      <4>2. RightFor(docs[q], docs[q].root, 0, answer[q])
        BY <1>1, <2>2 DEF AnswerStands, Stands, docs, q
      <4> QED BY <2>2, <4>1, <4>2, RightBoolean, BuiltIs DEF RightFor
    <3>2. q \notin 1..(i - 1)
      BY <1>5, <3>1
    <3> QED BY <1>2, <1>3, <2>2, <3>2
  <2> QED BY <1>4, <2>1, <2>2
<1>7. InUse(entries, {}, C!Now, docs[i], docs[i].root, 0, answer[i])
  BY <1>1, <1>6 DEF AnswerStands, Stands, docs, q
<1>8. docs[i] \in Documents /\ docs[i].root \in C!NodesOf(docs[i])
  BY <1>2, DocumentsAre
<1>9. CASE answer[i].ok
  <2>1. C!Key(docs[i], docs[i].root, 0) \in DOMAIN entries /\ entries[C!Key(docs[i], docs[i].root, 0)].used = C!Now
    BY <1>7, <1>9 DEF InUse
  <2> QED BY <1>1, <1>2, <1>5, <1>8, <2>1, UsedThroughout
<1>10. CASE ~answer[i].ok
  BY <1>5, <1>7, <1>10 DEF InUse
<1> QED BY <1>9, <1>10

(* Nothing is kept, and nothing is under way. *)
LEMMA NothingStands ==
    ASSUME NEW pend, NEW now, NEW docs, NEW last, NEW old, NEW uncached, NEW time
    PROVE  /\ StoreStands(<<>>, pend, now) /\ KeptFrom(<<>>, last, time) /\ KeptAll(<<>>, <<>>, time)
           /\ UsedFrom(<<>>, old, docs, now, uncached) /\ \A store : PendingStands(store, {}, docs)
           /\ \A store : KeptAll(store, <<>>, time)
           /\ \A store, d : WorkStands(store, pend, now, docs, d, <<>>)
           /\ Len(docs) \in Nat => \A store : AnswerStands(store, pend, now, docs, <<>>)
<1>1. DOMAIN <<>> = {} /\ Len(<<>>) = 0 /\ IsList(<<>>) /\ 1..0 = {}
  BY DEF IsList
<1>2. StoreStands(<<>>, pend, now) /\ KeptFrom(<<>>, last, time) /\ KeptAll(<<>>, <<>>, time)
  BY <1>1 DEF StoreStands, KeptFrom, KeptAll
<1>3. /\ UsedFrom(<<>>, old, docs, now, uncached) /\ \A store : PendingStands(store, {}, docs)
      /\ \A store : KeptAll(store, <<>>, time)
  BY <1>1 DEF UsedFrom, PendingStands, KeptAll
<1>4. \A store, d : WorkStands(store, pend, now, docs, d, <<>>)
  BY <1>1 DEF WorkStands
<1>5. Len(docs) \in Nat => \A store : AnswerStands(store, pend, now, docs, <<>>)
  BY <1>1 DEF AnswerStands
<1> QED BY <1>2, <1>3, <1>4, <1>5

LEMMA NothingKept ==
    ASSUME cache = <<>>, generation = 0, recent = <<>>
    PROVE  Kept /\ (asked \in Requests \union {C!Nothing} => Typed)
<1>1. MaxBuilds \in Nat
  BY CacheAssumption
<1>2. <<>> \in Seq(Seq(Documents)) /\ Len(<<>>) = 0
  OBVIOUS
<1>3. asked \in Requests \union {C!Nothing} => Typed
  BY <1>1, <1>2 DEF Typed
<1> QED BY <1>3, NothingStands DEF Kept

LEMMA InitIs == C!Init => CacheInv
<1> SUFFICES ASSUME C!Init PROVE CacheInv
  OBVIOUS
<1>1. ~C!Busy
  BY DEF C!Init, C!Busy
<1>2. Typed /\ Kept
  BY NothingKept DEF C!Init
<1>3. Idle
  BY DEF C!Init, Idle
<1> QED BY <1>1, <1>2, <1>3 DEF CacheInv, Serving

(* A worker that is started again keeps nothing. *)
LEMMA RestartIs ==
    ASSUME CacheInv, C!Restart
    PROVE  CacheInv'
<1>1. ~C!Busy'
  BY DEF C!Restart, C!Busy
<1>2. Kept'
  BY NothingStands DEF C!Restart, Kept
<1>3. Typed'
  <2>1. MaxBuilds \in Nat /\ <<>> \in Seq(Seq(Documents)) /\ Len(<<>>) = 0
    BY CacheAssumption
  <2> QED BY <2>1 DEF C!Restart, Typed
<1>4. Idle'
  BY DEF C!Restart, Idle
<1> QED BY <1>1, <1>2, <1>3, <1>4 DEF CacheInv, Serving

(* A request begins with what was kept, or with nothing. *)
LEMMA AskIs ==
    ASSUME CacheInv, NEW request \in Requests, C!Ask(request)
    PROVE  CacheInv'
<1>1. /\ ~C!Busy /\ (request.uncached \/ generation < MaxBuilds)
      /\ asked' = request /\ entries' = IF request.uncached THEN <<>> ELSE cache
      /\ cache' = cache /\ generation' = generation /\ recent' = recent
      /\ work' = work /\ pending' = pending /\ answer' = answer /\ rebuilt' = rebuilt
  BY DEF C!Ask, C!kept
<1>2. work = <<>> /\ pending = {} /\ answer = <<>>
  BY <1>1 DEF CacheInv, Idle
<1>3. request \in [docs : Seq(Documents) \ {<<>>}, uncached : BOOLEAN]
  BY CacheAssumption
<1>4. request # C!Nothing /\ Len(request.docs) \in Nat /\ request.uncached \in BOOLEAN
  <2> DEFINE s == request.docs
  <2>1. s \in Seq(Documents) /\ s # <<>> /\ request.uncached \in BOOLEAN
    BY <1>3
  <2> HIDE DEF s
  <2>2. Len(s) \in Nat
    BY <2>1
  <2>3. C!Nothing.docs = <<>>
    BY DEF C!Nothing
  <2> QED BY <2>1, <2>2, <2>3 DEF s
<1>5. Typed' /\ Kept' /\ C!Busy'
  BY <1>1, <1>4 DEF CacheInv, Typed, Kept, C!Busy
<1>6. Idle'
  BY <1>5 DEF Idle
<1>7. C!Now' = IF request.uncached THEN 0 ELSE generation
  BY <1>1 DEF C!Now
<1>8. /\ ~request.uncached => generation < MaxBuilds
      /\ StoreStands(entries', {}, C!Now') /\ UsedFrom(entries', cache, request.docs, C!Now', request.uncached)
      /\ ~request.uncached => KeptAll(entries', recent, generation)
  <2>1. CASE request.uncached
    BY <1>1, <1>7, <2>1, NothingStands
  <2>2. CASE ~request.uncached
    <3>1. entries' = cache /\ C!Now' = generation /\ generation < MaxBuilds
      BY <1>1, <1>4, <1>7, <2>2
    <3>2. StoreStands(cache, {}, generation) /\ KeptAll(cache, recent, generation)
      BY DEF CacheInv, Kept
    <3>3. UsedFrom(cache, cache, request.docs, C!Now', request.uncached)
      BY <2>2 DEF UsedFrom
    <3> QED BY <3>1, <3>2, <3>3
  <2> QED BY <2>1, <2>2
<1>9. /\ PendingStands(entries', {}, request.docs)
      /\ AnswerStands(entries', {}, C!Now', request.docs, <<>>)
      /\ WorkStands(entries', {}, C!Now', request.docs, C!Doc', <<>>)
  BY <1>4, NothingStands
<1>10. Serving'
  BY <1>1, <1>2, <1>8, <1>9 DEF Serving
<1> QED BY <1>5, <1>6, <1>10 DEF CacheInv

(* What two requests have not used is dropped, and nothing else. *)
LEMMA EndIs ==
    ASSUME CacheInv, C!End
    PROVE  CacheInv'
<1> DEFINE docs == asked.docs
           next == generation + 1
           last == IF recent = <<>> THEN <<docs>> ELSE <<docs, recent[1]>>
           aged == C!Aged(next)
<1>1. /\ C!Busy /\ pending = {} /\ C!Enough(answer, docs)
      /\ asked' = C!Nothing /\ entries' = <<>> /\ answer' = <<>> /\ rebuilt' = {} /\ work' = <<>> /\ pending' = {}
      /\ IF asked.uncached THEN cache' = cache /\ generation' = generation /\ recent' = recent
         ELSE generation' = next /\ cache' = aged /\ recent' = last
  BY DEF C!End, C!kept
<1>2. ~C!Busy' /\ Idle' /\ Serving'
  BY <1>1 DEF C!Busy, Idle, Serving
<1>3. CASE asked.uncached
  <2>1. Typed' /\ Kept'
    BY <1>1, <1>3 DEF CacheInv, Typed, Kept
  <2> QED BY <1>2, <2>1 DEF CacheInv
<1>4. CASE ~asked.uncached
  <2>1. /\ generation \in Nat /\ MaxBuilds \in Nat /\ generation < MaxBuilds /\ C!Now = generation
        /\ recent \in Seq(Seq(Documents)) /\ Len(recent) \in Nat /\ Len(recent) <= 2 /\ DOMAIN recent = 1..Len(recent)
        /\ docs \in Seq(Documents)
    BY <1>1, <1>4, RequestIs DEF CacheInv, Typed, Serving
  <2>2. /\ StoreStands(entries, {}, generation) /\ UsedFrom(entries, cache, docs, generation, FALSE)
        /\ KeptAll(entries, recent, generation) /\ KeptFrom(cache, recent, generation)
    BY <1>1, <1>4, <2>1 DEF CacheInv, Serving, Kept, UsedFrom
  <2>3. \A s \in C!Finished(docs) : Done(entries, generation, s)
    BY <1>1, <2>1, AllDone
  <2>4. /\ last \in Seq(Seq(Documents)) /\ Len(last) <= 2 /\ DOMAIN last = 1..Len(last) /\ last[1] = docs
        /\ 1 \in DOMAIN last
        /\ 2 \in DOMAIN last <=> 1 \in DOMAIN recent
        /\ 1 \in DOMAIN recent => last[2] = recent[1]
        /\ \A j \in DOMAIN last : j = 1 \/ j = 2
    <3>1. CASE recent = <<>>
      BY <2>1, <3>1
    <3>2. CASE recent # <<>>
      <4>1. 1 \in 1..Len(recent) /\ recent[1] \in Seq(Documents)
        BY <2>1, <3>2
      <4> DEFINE a == docs
                 b == recent[1]
                 two == <<a, b>>
      <4>2. last = two /\ a \in Seq(Documents) /\ b \in Seq(Documents)
        BY <2>1, <3>2, <4>1
      <4>3. 1 \in DOMAIN recent
        BY <2>1, <4>1
      <4> HIDE DEF a, b
      <4>4. two \in Seq(Seq(Documents)) /\ Len(two) = 2 /\ DOMAIN two = 1..2 /\ two[1] = a /\ two[2] = b
        BY <4>2
      <4> HIDE DEF two, last
      <4>5. last[1] = a /\ last[2] = b /\ last \in Seq(Seq(Documents)) /\ Len(last) = 2 /\ DOMAIN last = 1..2
        BY <4>2, <4>4
      <4>6. last[1] = docs /\ last[2] = recent[1]
        BY <4>5 DEF a, b
      <4> QED BY <4>3, <4>5, <4>6
    <3> QED BY <3>1, <3>2
  <2> HIDE DEF last, docs
  <2>5. \A k \in DOMAIN entries : entries[k].used \in 0..generation
    BY <2>2 DEF StoreStands
  <2>6. /\ \A k : k \in DOMAIN aged <=> k \in DOMAIN entries /\ next - entries[k].used <= 2
        /\ \A k \in DOMAIN aged : aged[k] = entries[k]
    BY DEF C!Aged, C!Young
  <2> HIDE DEF aged
  <2>7. StoreStands(aged, {}, next)
    <3> SUFFICES ASSUME NEW k \in DOMAIN aged
                 PROVE  /\ EntryIs(aged[k], k) /\ aged[k].used \in 0..next
                        /\ \A dep \in aged[k].deps : dep \in DOMAIN aged /\ aged[dep].used >= aged[k].used
      BY DEF StoreStands
    <3>1. k \in DOMAIN entries /\ next - entries[k].used <= 2 /\ aged[k] = entries[k]
      BY <2>6
    <3>2. /\ EntryIs(entries[k], k) /\ entries[k].used \in 0..generation
          /\ \A dep \in entries[k].deps : dep \in DOMAIN entries /\ entries[dep].used >= entries[k].used
      BY <2>2, <3>1 DEF StoreStands
    <3>3. ASSUME NEW dep \in aged[k].deps PROVE dep \in DOMAIN aged /\ aged[dep].used >= aged[k].used
      <4>1. dep \in DOMAIN entries /\ entries[dep].used >= entries[k].used /\ entries[dep].used \in 0..generation
        BY <2>5, <3>1, <3>2
      <4>2. dep \in DOMAIN aged
        BY <2>1, <2>6, <3>1, <3>2, <4>1
      <4> QED BY <2>6, <3>1, <4>1, <4>2
    <3> QED BY <2>1, <3>1, <3>2, <3>3
  <2>8. KeptFrom(aged, last, next)
    <3> SUFFICES ASSUME NEW k \in DOMAIN aged
                 PROVE  \E j \in DOMAIN last : aged[k].used + j = next /\ aged[k].shape \in C!Finished(last[j])
      BY DEF KeptFrom
    <3>1. k \in DOMAIN entries /\ next - entries[k].used <= 2 /\ aged[k] = entries[k] /\ entries[k].used \in 0..generation
      BY <2>5, <2>6
    <3>2. CASE entries[k].used = generation /\ entries[k].shape \in C!Finished(docs)
      BY <2>1, <2>4, <3>1, <3>2
    <3>3. CASE k \in DOMAIN cache /\ entries[k].used = cache[k].used /\ entries[k].shape = cache[k].shape
      <4>1. PICK j \in DOMAIN recent : cache[k].used + j = generation /\ cache[k].shape \in C!Finished(recent[j])
        BY <2>2, <3>3 DEF KeptFrom
      <4>2. j = 1
        BY <2>1, <3>1, <3>3, <4>1
      <4>3. 2 \in DOMAIN last /\ last[2] = recent[1] /\ entries[k].used + 2 = next
        BY <2>1, <2>4, <3>1, <3>3, <4>1, <4>2
      <4> QED BY <3>1, <3>3, <4>1, <4>2, <4>3
    <3> QED BY <2>2, <3>1, <3>2, <3>3 DEF UsedFrom
  <2>9. KeptAll(aged, last, next)
    <3> SUFFICES ASSUME NEW j \in DOMAIN last, NEW s \in C!Finished(last[j])
                 PROVE  \E k \in DOMAIN aged : aged[k].shape = s /\ aged[k].used + j >= next
      BY DEF KeptAll
    <3>1. CASE j = 1
      <4>1. PICK k \in DOMAIN entries : entries[k].shape = s /\ entries[k].used = generation
        BY <2>3, <2>4, <3>1 DEF Done
      <4> QED BY <2>1, <2>6, <3>1, <4>1
    <3>2. CASE j = 2
      <4>1. 1 \in DOMAIN recent /\ s \in C!Finished(recent[1])
        BY <2>4, <3>2
      <4>2. PICK k \in DOMAIN entries : entries[k].shape = s /\ entries[k].used + 1 >= generation
        BY <2>2, <4>1 DEF KeptAll
      <4>3. entries[k].used \in 0..generation
        BY <2>5
      <4> QED BY <2>1, <2>6, <3>2, <4>2, <4>3
    <3> QED BY <2>4, <3>1, <3>2
  <2>10. Kept'
    BY <1>1, <1>4, <2>7, <2>8, <2>9 DEF Kept
  <2>11. Typed'
    BY <1>1, <1>4, <2>1, <2>4 DEF Typed
  <2> QED BY <1>2, <2>10, <2>11 DEF CacheInv
<1> QED BY <1>3, <1>4

(* One of the readings moves in a step, and the others wait. *)
LEMMA CacheMoved ==
    ASSUME [OrderMoves \/ CacheMoves \/ MechanismMoves]_allVars
    PROVE  [C!Next]_cacheVars
BY DEF OrderMoves, CacheMoves, MechanismMoves, allVars

(* What the worker keeps and has under way stands, after any of its steps. *)
LEMMA CacheInvStep ==
    ASSUME CacheInv, [C!Next]_cacheVars
    PROVE  CacheInv'
<1>1. CASE UNCHANGED cacheVars
  BY <1>1 DEF cacheVars, CacheInv, Typed, Kept, Idle, Serving, C!Busy, C!Now, C!Doc
<1>2. CASE C!Next
  BY <1>2, HitIs, TouchIs, DescendIs, FinishIs, EndIs, RestartIs, AskIs DEF C!Next
<1> QED BY <1>1, <1>2

LEMMA CacheInvHolds == DocumentsSpec => []CacheInv
<1>1. DocumentsInit => CacheInv
  BY InitIs DEF DocumentsInit
<1>2. CacheInv /\ [OrderMoves \/ CacheMoves \/ MechanismMoves]_allVars => CacheInv'
  BY CacheMoved, CacheInvStep
<1> QED BY <1>1, <1>2, PTL DEF DocumentsSpec

------------------------------------------------------------------------------
(* Only the edit *)

(* Finished by neither of the two requests before. *)
New(s) == \A j \in DOMAIN recent : s \notin C!Finished(recent[j])
FrameNew(n, offset) == BuiltTo(C!Doc, n, offset).ok => New(BuiltTo(C!Doc, n, offset).shape)

(* What is being built, and what was, was finished by neither of the two requests before. *)
EditInv ==
    C!Busy /\ ~asked.uncached =>
        /\ \A i \in 1..Len(work) : FrameNew(work[i].node, work[i].offset)
        /\ \A s \in rebuilt : New(s)

(* The frames are those that were there, the innermost of them the one that is returned to. *)
LEMMA ReturnedFrames ==
    ASSUME NEW frames, IsList(frames), NEW built, NEW key, C!Return(built, key, frames)
    PROVE  /\ Len(work') = Len(frames) /\ \A i \in 1..Len(frames) : work'[i].node = frames[i].node /\ work'[i].offset = frames[i].offset
           /\ frames # <<>> => answer' = answer
<1>0. Len(frames) \in Nat /\ (frames = <<>> <=> Len(frames) = 0) /\ DOMAIN frames = 1..Len(frames)
  BY ListIs
<1>1. CASE frames = <<>>
  BY <1>0, <1>1 DEF C!Return
<1>2. CASE frames # <<>>
  <2> DEFINE q == Len(frames)
             to == [frames EXCEPT ![q].made = Append(@, built), ![q].deps = IF built.ok THEN @ \union {key} ELSE @]
             new == [frames[q] EXCEPT !.made = Append(@, built), !.deps = IF built.ok THEN @ \union {key} ELSE @]
  <2>1. work' = to /\ answer' = answer
    BY <1>2 DEF C!Return
  <2>2. to = [frames EXCEPT ![q] = new]
    <3> HIDE DEF q
    <3> QED BY <1>0
  <2>3. new.node = frames[q].node /\ new.offset = frames[q].offset
    OBVIOUS
  <2> HIDE DEF new, to
  <2>4. Len(to) = q /\ to[q] = new /\ \A i \in 1..q : i # q => to[i] = frames[i]
    BY <1>0, <1>2, <2>2, Updated
  <2> QED BY <2>1, <2>3, <2>4
<1> QED BY <1>1, <1>2

(* A call that is not kept is of something that neither of the two requests before finished. *)
LEMMA CalledIsNew ==
    ASSUME ToolsKeepTheirNumbers, CacheInv, C!Busy, ~asked.uncached, C!Calls, C!FrameKey(C!Called) \notin DOMAIN entries
    PROVE  FrameNew(C!Called.node, C!Called.offset)
<1> DEFINE n == C!Called.node
           offset == C!Called.offset
           s == BuiltTo(C!Doc, n, offset).shape
<1>1. C!Doc \in Documents /\ n \in C!NodesOf(C!Doc) /\ offset \in Nat
  BY CalledIs
<1>2. KeptAll(entries, recent, generation) /\ StoreStands(entries, pending, C!Now)
  BY DEF CacheInv, Serving
<1>3. C!Key(C!Doc, n, offset) \notin DOMAIN entries
  BY FrameKeyIs
<1>4. ASSUME BuiltTo(C!Doc, n, offset).ok, NEW j \in DOMAIN recent, s \in C!Finished(recent[j]) PROVE FALSE
  <2>1. PICK k \in DOMAIN entries : entries[k].shape = s
    BY <1>2, <1>4 DEF KeptAll
  <2>2. EntryIs(entries[k], k)
    BY <1>2 DEF StoreStands
  <2>3. PICK e \in Documents : \E m \in C!NodesOf(e), p \in Nat : IsOf(entries[k], k, e, m, p)
    BY <2>2 DEF EntryIs
  <2>4. PICK m \in C!NodesOf(e), p \in Nat : IsOf(entries[k], k, e, m, p)
    BY <2>3
  <2>5. k = C!Key(e, m, p) /\ BuiltTo(e, m, p).ok /\ BuiltTo(e, m, p).shape = s
    BY <2>1, <2>4 DEF IsOf
  <2>6. offset = p /\ C!SubtreeKey(C!Doc, n) = C!SubtreeKey(e, m)
    BY <1>1, <1>4, <2>5, SameShapeSameKey
  <2>7. k = C!Key(C!Doc, n, offset)
    BY <2>5, <2>6, KeyIs
  <2> QED BY <1>3, <2>7
<1> QED BY <1>4 DEF FrameNew, New

(* A shape that is built tells its key, and what those requests finished is found by its key. *)
LEMMA EditStep ==
    ASSUME ToolsKeepTheirNumbers, CacheInv, EditInv, C!Next
    PROVE  EditInv'
<1>1. CASE C!Hit
  <2>0. PICK built, key : C!Return(built, key, work)
    BY <1>1 DEF C!Hit
  <2>1. /\ C!Busy /\ asked' = asked /\ recent' = recent /\ rebuilt' = rebuilt
    BY <1>1 DEF C!Hit, C!kept
  <2>2. IsList(work)
    BY <2>1 DEF CacheInv, Serving, WorkStands
  <2>3. /\ Len(work') = Len(work) /\ \A i \in 1..Len(work) : work'[i].node = work[i].node /\ work'[i].offset = work[i].offset
        /\ work # <<>> => answer' = answer
    BY <2>0, <2>2, ReturnedFrames
  <2>4. Len(work) \in Nat /\ (work = <<>> <=> Len(work) = 0)
    BY <2>2, ListIs
  <2>5. \A s : New(s) => New(s)'
    BY <2>1 DEF New
  <2>6. work # <<>> => C!Doc' = C!Doc
    BY <2>1, <2>3 DEF C!Doc
  <2>7. \A i \in 1..Len(work') : work # <<>>
    BY <2>3, <2>4
  <2>8. ASSUME C!Busy', ~asked'.uncached, NEW i \in 1..Len(work') PROVE FrameNew(work[i].node, work[i].offset)'
    <3>1. FrameNew(work[i].node, work[i].offset)
      BY <2>1, <2>3, <2>8 DEF EditInv
    <3> QED BY <2>3, <2>5, <2>6, <2>7, <3>1 DEF FrameNew
  <2>9. \A s \in rebuilt' : ~asked'.uncached => New(s)'
    BY <2>1, <2>5 DEF EditInv
  <2> QED BY <2>8, <2>9 DEF EditInv
<1>2. CASE C!Touch
  <2>1. asked' = asked /\ recent' = recent /\ rebuilt' = rebuilt /\ work' = work /\ answer' = answer
    BY <1>2 DEF C!Touch, C!kept
  <2> QED BY <2>1 DEF EditInv, FrameNew, New, C!Doc, C!Busy
<1>3. CASE C!Descend
  <2> DEFINE q == Len(work)
             to == Append(work, C!Called)
             top == C!Called
  <2>1. /\ C!Busy /\ C!Calls /\ C!FrameKey(C!Called) \notin DOMAIN entries
        /\ work' = to /\ asked' = asked /\ recent' = recent /\ rebuilt' = rebuilt /\ answer' = answer
    BY <1>3 DEF C!Descend, C!kept
  <2>2. IsList(work)
    BY <2>1 DEF CacheInv, Serving, WorkStands
  <2>3. q \in Nat /\ Len(to) = q + 1 /\ to[q + 1] = top /\ \A i \in 1..q : to[i] = work[i]
    BY <2>2, Appended
  <2>4. ~asked.uncached => FrameNew(top.node, top.offset)
    BY <2>1, CalledIsNew
  <2> HIDE DEF to, top
  <2>5. ASSUME ~asked.uncached, NEW i \in 1..Len(to) PROVE FrameNew(to[i].node, to[i].offset)
    <3>1. CASE i = q + 1
      BY <2>3, <2>4, <2>5, <3>1
    <3>2. CASE i # q + 1
      <4>1. i \in 1..q
        BY <2>3, <3>2
      <4> QED BY <2>1, <2>3, <2>5, <4>1 DEF EditInv
    <3> QED BY <3>1, <3>2
  <2>6. C!Doc' = C!Doc
    BY <2>1 DEF C!Doc
  <2>7. \A n, offset : FrameNew(n, offset) => FrameNew(n, offset)'
    BY <2>1, <2>6 DEF FrameNew, New
  <2>8. \A s : New(s) => New(s)'
    BY <2>1 DEF New
  <2>9. ASSUME ~asked'.uncached PROVE /\ \A i \in 1..Len(work') : FrameNew(work[i].node, work[i].offset)'
                                     /\ \A s \in rebuilt' : New(s)'
    <3>1. \A i \in 1..Len(work') : FrameNew(work[i].node, work[i].offset)'
      <4> TAKE i \in 1..Len(work')
      <4>1. FrameNew(to[i].node, to[i].offset)
        BY <2>1, <2>5, <2>9
      <4> QED BY <2>1, <2>6, <4>1 DEF FrameNew, New
    <3>2. \A s \in rebuilt' : New(s)'
      BY <2>1, <2>8, <2>9 DEF EditInv
    <3> QED BY <3>1, <3>2
  <2> QED BY <2>9 DEF EditInv
<1>4. CASE C!Finish
  <2> DEFINE top == C!Last(work)
             n == top.node
             offset == top.offset
             built == C!Afresh(C!Doc, n, offset, top.made)
             around == C!Front(work)
             q == Len(work)
  <2>1. /\ pending = {} /\ work # <<>> /\ C!Enough(top.made, C!Children(C!Doc, n))
        /\ rebuilt' = IF ~built.ok THEN rebuilt ELSE rebuilt \union {built.shape}
        /\ C!Return(built, C!FrameKey(top), around) /\ asked' = asked /\ recent' = recent
    BY <1>4 DEF C!Finish, C!Top, C!Complete, C!kept
  <2>2. C!Busy
    BY <2>1 DEF CacheInv, Idle
  <2>3. /\ StoreStands(entries, {}, C!Now) /\ ~C!Enough(answer, asked.docs)
        /\ WorkStands(entries, {}, C!Now, asked.docs, C!Doc, work)
    BY <2>1, <2>2 DEF CacheInv, Serving
  <2>4. C!Doc \in Documents /\ C!Now \in Nat
    BY <2>2, <2>3, DocIs, RequestIs DEF CacheInv
  <2>5. FrameStands(entries, {}, C!Now, asked.docs, C!Doc, top) /\ top = work[q] /\ IsList(work)
    <3>1. WorkStands(entries, {}, C!Now, asked.docs, C!Doc, work) /\ work # <<>>
      BY <2>1, <2>3
    <3> HIDE DEF built, around, top
    <3> QED BY <3>1, WorkAround DEF WorkStands, top
  <2>6. RightFor(C!Doc, n, offset, built)
    <3> HIDE DEF top
    <3>1. built = C!Afresh(C!Doc, top.node, top.offset, top.made)
      OBVIOUS
    <3> HIDE DEF built
    <3>2. C!Enough(top.made, C!Children(C!Doc, top.node)) /\ StoreStands(entries, {}, C!Now)
      BY <2>1, <2>3
    <3>3. FrameStands(entries, {}, C!Now, asked.docs, C!Doc, top)
      BY <2>5
    <3> QED BY <3>1, <3>2, <3>3, <2>4, FrameBuilt
  <2>7. /\ IsList(around) /\ Len(around) = q - 1 /\ q - 1 \in Nat /\ q \in 1..q
        /\ \A i \in 1..(q - 1) : around[i] = work[i]
    BY <2>1, <2>5, ListIs, Fronted
  <2>8. around = <<>> <=> Len(around) = 0
    BY <2>7, ListIs
  <2> HIDE DEF around, built, top
  <2>9. /\ Len(work') = Len(around) /\ \A i \in 1..Len(around) : work'[i].node = around[i].node /\ work'[i].offset = around[i].offset
        /\ around # <<>> => answer' = answer
    BY <2>1, <2>7, ReturnedFrames
  <2>10. \A s : New(s) => New(s)'
    BY <2>1 DEF New
  <2>11. ASSUME ~asked'.uncached, NEW i \in 1..Len(work') PROVE FrameNew(work[i].node, work[i].offset)'
    <3>1. i \in 1..q /\ work'[i].node = work[i].node /\ work'[i].offset = work[i].offset /\ around # <<>>
      BY <2>7, <2>8, <2>9
    <3>2. FrameNew(work[i].node, work[i].offset)
      BY <2>1, <2>2, <2>11, <3>1 DEF EditInv
    <3>3. C!Doc' = C!Doc
      BY <2>1, <2>9, <3>1 DEF C!Doc
    <3> QED BY <2>10, <3>1, <3>2, <3>3 DEF FrameNew
  <2>12. ASSUME ~asked'.uncached, NEW s \in rebuilt' PROVE New(s)'
    <3>1. CASE s \in rebuilt
      BY <2>1, <2>2, <2>10, <2>12, <3>1 DEF EditInv
    <3>2. CASE built.ok /\ s = built.shape
      <4>1. BuiltTo(C!Doc, n, offset).ok /\ s = BuiltTo(C!Doc, n, offset).shape
        <5>1. n \in C!NodesOf(C!Doc) /\ offset \in Nat
          BY <2>5 DEF FrameStands
        <5> QED BY <2>4, <2>6, <3>2, <5>1, BuiltIs DEF RightFor
      <4>2. FrameNew(n, offset)
        BY <2>1, <2>2, <2>5, <2>7, <2>12 DEF EditInv
      <4> QED BY <2>10, <4>1, <4>2 DEF FrameNew
    <3> QED BY <2>1, <2>12, <3>1, <3>2
  <2> QED BY <2>11, <2>12 DEF EditInv
<1>5. CASE C!End \/ C!Restart
  <2>1. ~C!Busy'
    BY <1>5 DEF C!End, C!Restart, C!Busy
  <2> QED BY <2>1 DEF EditInv
<1>6. ASSUME NEW request \in Requests, C!Ask(request) PROVE EditInv'
  <2>1. work' = <<>> /\ rebuilt' = {}
    BY <1>6 DEF C!Ask, CacheInv, Idle
  <2>2. 1..Len(<<>>) = {}
    OBVIOUS
  <2> QED BY <2>1, <2>2 DEF EditInv
<1> QED BY <1>1, <1>2, <1>3, <1>4, <1>5, <1>6 DEF C!Next

LEMMA EditInvStep ==
    ASSUME ToolsKeepTheirNumbers, CacheInv, EditInv, [C!Next]_cacheVars
    PROVE  EditInv'
<1>1. CASE UNCHANGED cacheVars
  BY <1>1 DEF cacheVars, EditInv, FrameNew, New, C!Busy, C!Doc
<1>2. CASE C!Next
  BY <1>2, EditStep
<1> QED BY <1>1, <1>2

LEMMA EditInvHolds == ToolsKeepTheirNumbers => (DocumentsSpec => [](CacheInv /\ EditInv))
<1> SUFFICES ASSUME ToolsKeepTheirNumbers PROVE DocumentsSpec => [](CacheInv /\ EditInv)
  OBVIOUS
<1>1. DocumentsInit => EditInv
  BY DEF DocumentsInit, C!Init, EditInv, C!Busy
<1>2. CacheInv /\ EditInv /\ [OrderMoves \/ CacheMoves \/ MechanismMoves]_allVars => EditInv'
  BY CacheMoved, EditInvStep
<1> QED BY <1>1, <1>2, CacheInvHolds, PTL DEF DocumentsSpec

LEMMA CacheStandsFrom ==
    ASSUME CacheInv
    PROVE  C!CacheStands
<1>1. /\ StoreStands(cache, {}, generation) /\ KeptFrom(cache, recent, generation)
  BY DEF CacheInv, Kept
<1>2. C!TypeOK
  <2>1. {cache[key].shape : key \in DOMAIN cache} \subseteq UNION {C!Finished(recent[i]) : i \in DOMAIN recent}
    BY <1>1 DEF KeptFrom
  <2> QED BY <1>1, <2>1 DEF CacheInv, Typed, C!TypeOK, StoreStands
<1>3. C!PartsOutliveWholes
  BY <1>1 DEF C!PartsOutliveWholes, StoreStands
<1> QED BY <1>2, <1>3 DEF C!CacheStands

LEMMA RightAnswerFrom ==
    ASSUME CacheInv
    PROVE  C!RightAnswer
<1> SUFFICES ASSUME NEW i \in DOMAIN answer
             PROVE  LET r == C!Reference(asked.docs[i])
                        d == asked.docs[i]
                        named == answer[i].features
                    IN  /\ answer[i].ok = r.ok /\ (r.ok => answer[i].shape = r.shape)
                        /\ answer[i].ok => /\ Len(named) = Len(r.features)
                                           /\ \A k \in DOMAIN named : named[k] \in C!NodesOf(d) /\ C!SubtreeKey(d, named[k]) = C!SubtreeKey(d, r.features[k])
  BY DEF C!RightAnswer, C!RightShape, C!NamesItsOwn
<1>1. C!Busy
  <2>1. DOMAIN <<>> = {}
    OBVIOUS
  <2> QED BY <2>1 DEF CacheInv, Idle
<1>2. AnswerStands(entries, pending, C!Now, asked.docs, answer)
  BY <1>1 DEF CacheInv, Serving
<1>3. i \in 1..Len(answer) /\ i \in 1..Len(asked.docs)
  <2>1. Len(asked.docs) \in Nat /\ IsList(answer) /\ Len(answer) <= Len(asked.docs)
    BY <1>1, <1>2, RequestIs DEF CacheInv, AnswerStands
  <2>2. DOMAIN answer = 1..Len(answer) /\ Len(answer) \in Nat
    BY <2>1, ListIs
  <2> QED BY <2>1, <2>2
<1> DEFINE d == asked.docs[i]
           r == C!Reference(d)
<1>4. d \in Documents /\ d.root \in C!NodesOf(d)
  BY <1>1, <1>3, RequestIs, DocumentsAre DEF CacheInv
<1>5. r = BuiltTo(d, d.root, 0)
  BY DEF C!Reference, BuiltTo
<1>6. RightFor(d, d.root, 0, answer[i])
  BY <1>2, <1>3 DEF AnswerStands, Stands
<1> HIDE DEF r
<1>7. answer[i].ok = r.ok /\ (r.ok => answer[i].shape = r.shape)
  BY <1>5, <1>6 DEF RightFor
<1>8. ASSUME answer[i].ok, NEW k \in DOMAIN answer[i].features
      PROVE  answer[i].features[k] \in C!NodesOf(d) /\ C!SubtreeKey(d, answer[i].features[k]) = C!SubtreeKey(d, r.features[k])
  <2> DEFINE named == answer[i].features
  <2>1. named \in Seq(IdsOf(d, d.root)) /\ Match(d, d, named, r.features)
    BY <1>5, <1>6, <1>8 DEF RightFor, Names
  <2> HIDE DEF named
  <2>2. DOMAIN named = 1..Len(named)
    BY <2>1
  <2>3. <<named[k], r.features[k]>> \in Alike(d, d)
    BY <1>8, <2>1, <2>2 DEF Match, named
  <2> QED BY <2>3 DEF Alike, named
<1>9. answer[i].ok => Len(answer[i].features) = Len(r.features)
  BY <1>5, <1>6 DEF RightFor, Names, Match
<1> QED BY <1>7, <1>8, <1>9 DEF r


------------------------------------------------------------------------------
(* The theorems *)

(* The worker keeps pieces of the last two requests and no others, and a piece as long as a whole that
   was made of it (backend.rs BuildCache, touch). *)
THEOREM WorkerCacheStands == DocumentsSpec => []C!CacheStands
<1>1. CacheInv => C!CacheStands
  BY CacheStandsFrom
<1> QED BY <1>1, CacheInvHolds, PTL

(* A build that reuses what a worker has kept answers as a build without a cache: the same shape, or
   a failure where that fails, with treatments of its own document (backend.rs build_node, renumbered). *)
THEOREM AnswersRight == DocumentsSpec => []RightAnswer
<1>1. CacheInv => RightAnswer
  BY RightAnswerFrom DEF RightAnswer
<1> QED BY <1>1, CacheInvHolds, PTL

(* Nothing that one of the last two requests had finished is built again, wherever its lines now are
   (backend.rs BuildCache).  A trim is keyed with its tool's number: where an edit moves that, the trim
   is built again, so no two builds alike may number their tools differently. *)
THEOREM BuildsOnlyTheEdit == ToolsKeepTheirNumbers => (DocumentsSpec => []OnlyTheEdit)
<1> SUFFICES ASSUME ToolsKeepTheirNumbers PROVE DocumentsSpec => []OnlyTheEdit
  OBVIOUS
<1>1. CacheInv /\ EditInv => OnlyTheEdit
  <2> SUFFICES ASSUME CacheInv, EditInv PROVE C!CacheStands /\ C!OnlyTheEdit
    BY DEF OnlyTheEdit
  <2>1. CASE C!Busy
    BY <2>1, CacheStandsFrom DEF C!OnlyTheEdit, EditInv, New
  <2>2. CASE ~C!Busy
    BY <2>2, CacheStandsFrom DEF C!OnlyTheEdit, CacheInv, Idle
  <2> QED BY <2>1, <2>2
<1> QED BY <1>1, EditInvHolds, PTL

==============================================================================
